----------------------------- MODULE PanelProofs -----------------------------
(***************************************************************************)
(* Theorems about the components of the panel that MCPanelComponents puts  *)
(* together, each for every value of its constants: the thread of the      *)
(* documents, the rules and their plans, the residential exits, the        *)
(* suppliers of the shop and the switch to HTTPS.                          *)
(***************************************************************************)
EXTENDS MCPanelComponents, Integers, Sequences, TLAPS

-----------------------------------------------------------------------------
(* The thread of the documents.  While it gives up running it has nothing to *)
(* do, or a request is about to wake it: resume() waits for the lock.        *)

LEMMA DocumentSteps ==
  ASSUME [PanelNext]_AllVars, subject = "documents"
  PROVE  subject' = "documents" /\ (Document!DocNext \/ UNCHANGED docVars)
  BY DEF AllVars, PanelNext, VideoMoves, PanelMoves, LimitMoves, HttpsMoves, ShopMoves,
         ChatMoves, DocumentMoves, RuleMoves, LandingMoves

DocRecord == [status : Document!States \cup {"deleted"}, index : Document!States,
              image : BOOLEAN, vectors : BOOLEAN]
DocTyped ==
    /\ doc \in [Docs -> DocRecord]
    /\ drain \in [pc : {"off", "next", "empty", "recheck", "leaving", "extract", "index", "dying"},
                  doc : SUBSET Docs]
Leaves == drain.pc = "leaving" => Document!Waiting = {} \/ asker # {}
DocInv == DocTyped /\ Document!OneDrain /\ Document!NoLostWakeup /\ Leaves
          /\ Document!DeletedLeavesNothing

Bare(record) == record.image = FALSE /\ record.vectors = FALSE
Shown(record) == record.status \notin {"none", "deleted"}

\* What the store may do: change a document that is there, put a bare one into an open
\* project, and bare the one it deletes.
DocChange ==
    /\ doc' \in [Docs -> DocRecord]
    /\ \A d \in Docs : doc'[d] # doc[d] =>
        /\ Shown(doc[d]) \/ project
        /\ Shown(doc'[d]) \/ Bare(doc'[d])

LEMMA DocumentsStayDeleted ==
  ASSUME DocTyped, Document!DeletedLeavesNothing, DocChange,
         project' = project \/ (project' = FALSE /\ UNCHANGED doc /\ \A d \in Docs : ~Shown(doc[d]))
  PROVE  Document!DeletedLeavesNothing'
  <1>1. \A d \in Docs : Document!There(d) <=> Shown(doc[d])
    BY DEF Document!There, Shown
  <1>2. \A d \in Docs : Document!There(d)' <=> Shown(doc'[d])
    BY DEF Document!There, Shown
  <1>3. \A d \in Docs : ~Shown(doc'[d]) => ~doc'[d].image /\ ~doc'[d].vectors
    BY <1>1 DEF Document!DeletedLeavesNothing, DocChange, Bare
  <1>4. ~project' => \A d \in Docs : ~Shown(doc'[d])
    BY <1>1 DEF Document!DeletedLeavesNothing, DocChange
  <1> QED BY <1>2, <1>3, <1>4 DEF Document!DeletedLeavesNothing

LEMMA ChangesOfOne ==
  ASSUME DocTyped, NEW d \in Docs, NEW new \in DocRecord, Document!Change(d, new),
         Shown(doc[d]) \/ project, Shown(new) \/ Bare(new)
  PROVE  DocChange
  <1>1. doc' \in [Docs -> DocRecord] /\ doc'[d] = new /\ \A e \in Docs \ {d} : doc'[e] = doc[e]
    BY DEF Document!Change, DocTyped
  <1> QED BY <1>1 DEF DocChange

LEMMA SameDocuments == ASSUME DocTyped, UNCHANGED doc PROVE DocChange
  BY DEF DocTyped, DocChange

\* A record whose status or index is set to another state.
LEMMA Marks ==
  ASSUME NEW record \in DocRecord, NEW state \in Document!States
  PROVE  /\ [record EXCEPT !.status = state] \in DocRecord
         /\ [record EXCEPT !.index = state] \in DocRecord
         /\ [record EXCEPT !.status = state].status = state
         /\ [record EXCEPT !.index = state].status = record.status
         /\ \A mark \in Document!States :
              LET both == [record EXCEPT !.status = state, !.index = mark]
              IN both \in DocRecord /\ both.image = record.image /\ both.vectors = record.vectors
  BY DEF DocRecord

LEMMA RequestsChangeDocuments ==
  ASSUME DocTyped, NEW a \in Askers, NEW d \in Docs,
         Document!Upload(a, d) \/ Document!Retry(a, d) \/ Document!Reindex(a, d)
  PROVE  DocChange /\ UNCHANGED <<project, running, drain, stalled>> /\ asker' # {}
  <1>1. asker' # {} /\ UNCHANGED <<project, running, drain, stalled>>
    BY DEF Document!Upload, Document!Retry, Document!Reindex, Document!Then
  <1>2. doc[d] \in DocRecord
    BY DEF DocTyped
  <1>3. ASSUME Document!Upload(a, d), ~UNCHANGED doc PROVE DocChange
    <2>1. PICK status \in {"queued", "ready"} :
            project /\ Document!Change(d, [Document!Absent EXCEPT !.status = status, !.index = "queued"])
      BY <1>3 DEF Document!Upload
    <2>2. Document!Absent \in DocRecord /\ Bare(Document!Absent)
      BY DEF Document!Absent, DocRecord, Document!States, Bare
    <2>3. status \in Document!States /\ "queued" \in Document!States
      BY DEF Document!States
    <2> DEFINE new == [Document!Absent EXCEPT !.status = status, !.index = "queued"]
    <2>4. new \in DocRecord /\ new.image = FALSE /\ new.vectors = FALSE
      <3>1. /\ new \in DocRecord
            /\ new.image = Document!Absent.image /\ new.vectors = Document!Absent.vectors
        <4>1. ASSUME NEW record \in DocRecord
              PROVE  LET both == [record EXCEPT !.status = status, !.index = "queued"]
                     IN both \in DocRecord /\ both.image = record.image /\ both.vectors = record.vectors
          BY <2>3 DEF DocRecord
        <4> QED BY <2>2, <4>1
      <3>2. Document!Absent.image = FALSE /\ Document!Absent.vectors = FALSE
        BY DEF Document!Absent
      <3> QED BY <3>1, <3>2
    <2>5. Bare(new) /\ Document!Change(d, new)
      BY <2>1, <2>4 DEF Bare
    <2> HIDE DEF new
    <2> QED BY <2>1, <2>4, <2>5, ChangesOfOne
  <1>4. ASSUME Document!Retry(a, d) PROVE DocChange
    <2>1. Document!Change(d, [doc[d] EXCEPT !.status = "queued"]) /\ doc[d].status = "error"
      BY <1>4 DEF Document!Retry
    <2>2. "queued" \in Document!States
      BY DEF Document!States
    <2> QED BY <1>2, <2>1, <2>2, Marks, ChangesOfOne DEF Shown
  <1>5. ASSUME Document!Reindex(a, d) PROVE DocChange
    <2>1. Document!Change(d, [doc[d] EXCEPT !.index = "queued"]) /\ doc[d].status = "ready"
      BY <1>5 DEF Document!Reindex
    <2>2. "queued" \in Document!States
      BY DEF Document!States
    <2> QED BY <1>2, <2>1, <2>2, Marks, ChangesOfOne DEF Shown
  <1> QED BY <1>1, <1>3, <1>4, <1>5, SameDocuments

\* The thread's steps, those that leave it at work: it marks a document, or records what
\* became of one, and the next step finds it where it went.
AtWork(pc) == pc \in {"next", "empty", "recheck", "extract", "index", "dying"}

LEMMA TakingMarks ==
  ASSUME DocTyped, Document!Takes
  PROVE  DocChange /\ drain' \in [pc : {"extract", "index"}, doc : SUBSET Docs]
  <1>1. PICK d \in Document!Waiting :
       \/ /\ Document!ToExtract(d)
          /\ Document!Change(d, [doc[d] EXCEPT !.status = "processing"])
          /\ drain' = [pc |-> "extract", doc |-> {d}]
       \/ /\ Document!ToIndex(d)
          /\ Document!Change(d, [doc[d] EXCEPT !.index = "processing"])
          /\ drain' = [pc |-> "index", doc |-> {d}]
    BY DEF Document!Takes
  <1>2. d \in Docs /\ Shown(doc[d]) /\ doc[d] \in DocRecord
    BY DEF Document!Waiting, Document!ToExtract, Document!ToIndex, Shown, DocTyped
  <1>3. "processing" \in Document!States
    BY DEF Document!States
  <1>4. DocChange
    BY <1>1, <1>2, <1>3, Marks, ChangesOfOne DEF Shown
  <1> QED BY <1>1, <1>2, <1>4

LEMMA ResultsChangeDocuments ==
  ASSUME DocTyped, NEW d \in Docs, Document!Finished(d) \/ Document!Indexed(d)
  PROVE  DocChange
  <1>1. doc[d] \in DocRecord /\ (Document!There(d) <=> Shown(doc[d]))
    BY DEF DocTyped, Document!There, Shown
  <1>2. CASE UNCHANGED doc
    BY <1>2, SameDocuments
  <1>3. ASSUME NEW image \in BOOLEAN, Document!There(d),
               Document!Change(d, [doc[d] EXCEPT !.status = "ready", !.index = "queued",
                                                 !.image = @ \/ image])
        PROVE  DocChange
    <2> DEFINE new == [doc[d] EXCEPT !.status = "ready", !.index = "queued", !.image = @ \/ image]
    <2>1. new \in DocRecord /\ new.status = "ready"
      BY <1>1 DEF DocRecord, Document!States
    <2> HIDE DEF new
    <2> QED BY <1>1, <1>3, <2>1, ChangesOfOne DEF new, Shown
  <1>4. ASSUME Document!There(d), Document!Change(d, [doc[d] EXCEPT !.status = "error"])
        PROVE  DocChange
    BY <1>1, <1>4, Marks, ChangesOfOne DEF Shown, Document!States
  <1>5. ASSUME Document!There(d), Document!Change(d, [doc[d] EXCEPT !.index = "ready", !.vectors = TRUE])
        PROVE  DocChange
    <2> DEFINE new == [doc[d] EXCEPT !.index = "ready", !.vectors = TRUE]
    <2>1. new \in DocRecord /\ new.status = doc[d].status
      BY <1>1 DEF DocRecord, Document!States
    <2> HIDE DEF new
    <2> QED BY <1>1, <1>5, <2>1, ChangesOfOne DEF new, Shown
  <1>6. ASSUME Document!There(d), Document!Change(d, [doc[d] EXCEPT !.index = "error"])
        PROVE  DocChange
    BY <1>1, <1>6, Marks, ChangesOfOne DEF Shown, Document!States
  <1> QED BY <1>2, <1>3, <1>4, <1>5, <1>6 DEF Document!Finished, Document!Indexed

\* A step that keeps a thread at work keeps everything but what is known of the documents.
LEMMA WorkGoesOn ==
  ASSUME DocInv, DocChange, UNCHANGED <<project, asker, running, stalled>>, AtWork(drain.pc),
         drain' \in [pc : {"next", "empty", "recheck", "leaving", "extract", "index", "dying"},
                     doc : SUBSET Docs],
         drain'.pc = "leaving" => Document!Waiting = {} /\ UNCHANGED doc
  PROVE  DocInv'
  <1>1. DocTyped' /\ Document!OneDrain' /\ Document!NoLostWakeup'
    BY DEF DocInv, DocTyped, DocChange, Document!OneDrain, Document!NoLostWakeup, AtWork
  <1>2. Leaves'
    BY DEF Leaves, Document!Waiting, Document!ToExtract, Document!ToIndex
  <1>3. Document!DeletedLeavesNothing'
    BY DocumentsStayDeleted DEF DocInv
  <1> QED BY <1>1, <1>2, <1>3 DEF DocInv

LEMMA DocStep == ASSUME DocInv, Document!DocNext PROVE DocInv'
  <1>1. DocTyped /\ Document!OneDrain /\ Document!NoLostWakeup /\ Leaves /\ Document!DeletedLeavesNothing
    BY DEF DocInv
  <1>2. ASSUME NEW a \in Askers, Document!Browse(a) PROVE DocInv'
    <2>1. UNCHANGED <<project, doc, running, drain, stalled>> /\ asker' # {}
      BY <1>2 DEF Document!Browse, Document!Then
    <2>2. Document!DeletedLeavesNothing'
      BY <1>1, <2>1, SameDocuments, DocumentsStayDeleted
    <2> QED BY <1>1, <2>1, <2>2 DEF DocInv, DocTyped, Document!OneDrain, Document!NoLostWakeup, Leaves
  <1>3. ASSUME NEW a \in Askers, Document!Resume(a) PROVE DocInv'
    <2>1. UNCHANGED <<project, doc>> /\ drain.pc \notin {"recheck", "leaving"}
      BY <1>3 DEF Document!Resume, Document!Locked
    <2>2. Document!DeletedLeavesNothing' /\ DocChange
      BY <1>1, <2>1, SameDocuments, DocumentsStayDeleted
    <2>3. CASE running
      <3>1. UNCHANGED <<running, drain, stalled>> /\ drain.pc # "off"
        BY <1>1, <1>3, <2>3 DEF Document!Resume, Document!OneDrain
      <3> QED BY <1>1, <2>1, <2>2, <3>1
              DEF DocInv, DocTyped, Document!OneDrain, Document!NoLostWakeup, Leaves
    <2>4. CASE ~running
      <3>1. running' = TRUE /\ drain' = [pc |-> "next", doc |-> {}]
        BY <1>3, <2>4 DEF Document!Resume, Document!Off
      <3> QED BY <1>1, <2>1, <2>2, <3>1
              DEF DocInv, DocTyped, Document!OneDrain, Document!NoLostWakeup, Leaves
    <2> QED BY <2>3, <2>4
  <1>4. ASSUME NEW a \in Askers, NEW d \in Docs,
               Document!Upload(a, d) \/ Document!Retry(a, d) \/ Document!Reindex(a, d)
        PROVE  DocInv'
    <2>1. DocChange /\ UNCHANGED <<project, running, drain, stalled>> /\ asker' # {}
      BY <1>1, <1>4, RequestsChangeDocuments
    <2>2. Document!DeletedLeavesNothing'
      BY <1>1, <2>1, DocumentsStayDeleted
    <2> QED BY <1>1, <2>1, <2>2
            DEF DocInv, DocTyped, DocChange, Document!OneDrain, Document!NoLostWakeup, Leaves
  <1>5. ASSUME NEW d \in Docs, Document!DeleteDocument(d) PROVE DocInv'
    <2>1. /\ Document!There(d) /\ UNCHANGED <<project, asker, running, drain, stalled>>
          /\ Document!Change(d, [Document!Absent EXCEPT !.status = "deleted"])
      BY <1>5 DEF Document!DeleteDocument
    <2> DEFINE new == [Document!Absent EXCEPT !.status = "deleted"]
    <2>2. new \in DocRecord /\ Bare(new) /\ new.status = "deleted"
      BY DEF Document!Absent, DocRecord, Document!States, Bare
    <2>3. Shown(doc[d])
      BY <2>1 DEF Document!There, Shown
    <2>4. Document!Change(d, new)
      BY <2>1
    <2>5. Document!Waiting' \subseteq Document!Waiting
      BY <1>1, <2>2, <2>4 DEF Document!Change, DocTyped, Document!Waiting, Document!ToExtract, Document!ToIndex
    <2> HIDE DEF new
    <2>6. DocChange
      BY <1>1, <2>2, <2>3, <2>4, ChangesOfOne
    <2>7. Document!DeletedLeavesNothing'
      BY <1>1, <2>1, <2>6, DocumentsStayDeleted
    <2> QED BY <1>1, <2>1, <2>5, <2>6, <2>7
            DEF DocInv, DocTyped, DocChange, Document!OneDrain, Document!NoLostWakeup, Leaves
  <1>6. ASSUME Document!DeleteProject PROVE DocInv'
    <2>1. project' = FALSE /\ UNCHANGED <<doc, asker, running, drain, stalled>>
          /\ \A d \in Docs : ~Shown(doc[d])
      BY <1>6 DEF Document!DeleteProject, Document!There, Shown
    <2>2. Document!DeletedLeavesNothing'
      BY <1>1, <2>1, SameDocuments, DocumentsStayDeleted
    <2>3. Document!Waiting' = Document!Waiting
      BY <2>1 DEF Document!Waiting, Document!ToExtract, Document!ToIndex
    <2> QED BY <1>1, <2>1, <2>2, <2>3
            DEF DocInv, DocTyped, Document!OneDrain, Document!NoLostWakeup, Leaves
  <1>7. ASSUME Document!Next PROVE DocInv'
    <2>1. UNCHANGED <<project, asker, running, stalled>> /\ drain.pc = "next"
      BY <1>7 DEF Document!Next
    <2>2. CASE Document!Takes
      BY <1>1, <2>1, <2>2, TakingMarks, WorkGoesOn DEF AtWork
    <2>3. CASE Document!Goes("empty") /\ UNCHANGED doc
      <3>1. drain' = [pc |-> "empty", doc |-> {}] /\ DocChange
        BY <1>1, <2>3, SameDocuments DEF Document!Goes, Document!Off
      <3> QED BY <2>1, <3>1, WorkGoesOn DEF AtWork
    <2> QED BY <1>7, <2>2, <2>3 DEF Document!Next
  <1>8. ASSUME Document!LookAgain PROVE DocInv'
    <2>1. UNCHANGED <<project, asker, running, stalled>> /\ drain.pc \in {"empty", "recheck"}
      BY <1>8 DEF Document!LookAgain
    <2>2. CASE Document!Takes
      BY <1>1, <2>1, <2>2, TakingMarks, WorkGoesOn DEF AtWork
    <2>3. ASSUME UNCHANGED doc, NEW pc \in {"recheck", "leaving"}, Document!Goes(pc),
                 pc = "leaving" => Document!Waiting = {}
          PROVE  DocInv'
      <3>1. drain' = [pc |-> pc, doc |-> {}] /\ DocChange
        BY <1>1, <2>3, SameDocuments DEF Document!Goes, Document!Off
      <3> QED BY <2>1, <2>3, <3>1, WorkGoesOn DEF AtWork
    <2> QED BY <1>8, <2>2, <2>3 DEF Document!LookAgain
  <1>9. ASSUME Document!Leave PROVE DocInv'
    <2>1. /\ drain.pc = "leaving" /\ UNCHANGED <<project, doc, asker, stalled>>
          /\ running' = FALSE /\ drain' = [pc |-> "off", doc |-> {}]
      BY <1>9 DEF Document!Leave, Document!Off
    <2>2. Document!Waiting' = Document!Waiting
      BY <2>1 DEF Document!Waiting, Document!ToExtract, Document!ToIndex
    <2>3. Document!DeletedLeavesNothing'
      BY <1>1, <2>1, SameDocuments, DocumentsStayDeleted
    <2> QED BY <1>1, <2>1, <2>2, <2>3
            DEF DocInv, DocTyped, Document!OneDrain, Document!NoLostWakeup, Leaves
  <1>10. ASSUME Document!Extract \/ Document!Index PROVE DocInv'
    <2>1. /\ UNCHANGED <<project, asker, running, stalled>> /\ drain.pc \in {"extract", "index"}
          /\ drain' = [pc |-> "next", doc |-> {}]
          /\ \E d \in drain.doc : Document!Finished(d) \/ Document!Indexed(d)
      BY <1>10 DEF Document!Extract, Document!Index, Document!Goes, Document!Off
    <2>2. DocChange
      BY <1>1, <2>1, ResultsChangeDocuments DEF DocTyped
    <2> QED BY <2>1, <2>2, WorkGoesOn DEF AtWork
  <1>11. ASSUME Document!Fails PROVE DocInv'
    <2>1. /\ UNCHANGED <<project, doc, asker, running, stalled>> /\ AtWork(drain.pc)
          /\ drain' = [pc |-> "dying", doc |-> {}]
      BY <1>11 DEF Document!Fails, Document!Goes, Document!Off, AtWork
    <2> QED BY <1>1, <2>1, SameDocuments, WorkGoesOn
  <1>12. ASSUME Document!GivesUp \/ Document!Restart PROVE DocInv'
    <2>1. /\ UNCHANGED <<project, doc>> /\ running' = FALSE /\ stalled' = TRUE
          /\ drain' = [pc |-> "off", doc |-> {}]
      BY <1>12 DEF Document!GivesUp, Document!Restart, Document!Off
    <2>2. Document!DeletedLeavesNothing'
      BY <1>1, <2>1, SameDocuments, DocumentsStayDeleted
    <2> QED BY <1>1, <2>1, <2>2
            DEF DocInv, DocTyped, Document!OneDrain, Document!NoLostWakeup, Leaves
  <1> QED BY <1>2, <1>3, <1>4, <1>5, <1>6, <1>7, <1>8, <1>9, <1>10, <1>11, <1>12 DEF Document!DocNext

LEMMA DocumentsHold == PanelSpec => [](subject = "documents" => DocInv)
  <1>1. PanelInit => (subject = "documents" => DocInv)
    BY DEF PanelInit, Document!DocInit, DocInv, DocTyped, DocRecord, Document!States, Document!Absent,
           Document!Off, Document!OneDrain, Document!NoLostWakeup, Leaves,
           Document!DeletedLeavesNothing, Document!There, Document!Waiting, Document!ToExtract,
           Document!ToIndex
  <1>2. (subject = "documents" => DocInv) /\ [PanelNext]_AllVars => (subject = "documents" => DocInv)'
    <2> SUFFICES ASSUME subject = "documents" => DocInv, [PanelNext]_AllVars, subject' = "documents"
                 PROVE  DocInv'
      OBVIOUS
    <2>1. subject = "documents"
      BY DEF AllVars, PanelNext, VideoMoves, PanelMoves, LimitMoves, HttpsMoves, ShopMoves,
             ChatMoves, DocumentMoves, RuleMoves, LandingMoves
    <2>2. CASE Document!DocNext
      BY <2>1, <2>2, DocStep
    <2>3. CASE UNCHANGED docVars
      BY <2>1, <2>3 DEF docVars, DocInv, DocTyped, Document!OneDrain, Document!NoLostWakeup, Leaves,
           Document!DeletedLeavesNothing, Document!There, Document!Waiting, Document!ToExtract,
           Document!ToIndex
    <2> QED BY <2>1, <2>2, <2>3, DocumentSteps
  <1> QED BY <1>1, <1>2, PTL DEF PanelSpec, AllVars

\* A document that waits is never forgotten, and one thread at a time is at work
\* (chat_document_jobs.py, resume and _drain).
THEOREM WakeupsAreSeen == PanelSpec => []NoLostWakeup
  <1>1. (subject = "documents" => DocInv) => NoLostWakeup
    BY DEF NoLostWakeup, DocInv
  <1> QED BY <1>1, DocumentsHold, PTL
-----------------------------------------------------------------------------
(* The shop.  A row or a price is of the present generation of a supplier    *)
(* that is not deleted; a refresh under way can only bring rows of the       *)
(* generation it began in, and a deletion clears the rows before it saves.   *)

CacheShape(c) ==
    c = [rows |-> c.rows, fresh |-> c.fresh, failed |-> c.failed, retry |-> c.retry,
         manual |-> c.manual]
ShopTyped ==
    /\ settings \in [revision : Nat, price : Int, on : BOOLEAN, generation : Nat, deleted : BOOLEAN]
    /\ CacheShape(cache) /\ page = [a \in Admins |-> page[a]]
    /\ change = [pc |-> change.pc, deleted |-> change.deleted] /\ change.deleted \in BOOLEAN
    /\ refresh = [t \in Refreshers |-> refresh[t]]
    /\ \A t \in Refreshers :
          /\ refresh[t] = [pc |-> refresh[t].pc, generation |-> refresh[t].generation,
                           source |-> refresh[t].source]
          /\ CacheShape(refresh[t].source)
PagesAreOld == \A a \in Admins :
    /\ page[a].revision \in Nat /\ page[a].revision <= settings.revision
    /\ page[a].revision = settings.revision => page[a].price = settings.price
Brings == \A t \in Refreshers : refresh[t].pc \in {"fetch", "commit"} =>
    refresh[t].source.rows \in {Shop!None, refresh[t].generation}
Clears == change.pc = "save" => settingsLock = "change" /\ cache.rows = Shop!None
ShopInv == ShopTyped /\ PagesAreOld /\ Brings /\ Clears /\ Shop!DeletedStaysAway

\* Nobody moves but the tasks that refresh, and no rows come.
LEMMA RefreshesGoOn ==
  ASSUME ShopInv, UNCHANGED <<settings, page, change, settingsLock>>, NEW t, NEW new,
         CacheShape(cache'), cache'.rows = cache.rows,
         refresh' = [refresh EXCEPT ![t] = new],
         new = [pc |-> new.pc, generation |-> new.generation, source |-> new.source],
         CacheShape(new.source),
         new.pc \in {"fetch", "commit"} => new.source.rows \in {Shop!None, new.generation}
  PROVE  ShopInv'
  <1>1. /\ refresh' = [q \in Refreshers |-> refresh'[q]]
        /\ \A q \in Refreshers : refresh'[q] \in {refresh[q], new}
    BY DEF ShopInv, ShopTyped
  <1>2. ShopTyped'
    BY <1>1 DEF ShopInv, ShopTyped
  <1>3. PagesAreOld' /\ Brings' /\ Clears' /\ Shop!DeletedStaysAway'
    BY <1>1 DEF ShopInv, PagesAreOld, Brings, Clears, Shop!DeletedStaysAway
  <1> QED BY <1>2, <1>3 DEF ShopInv

LEMMA ReleasedTasks ==
  ASSUME ShopInv, UNCHANGED <<settings, page, change, settingsLock>>, NEW t,
         CacheShape(cache'), cache'.rows = cache.rows, Shop!Release(t)
  PROVE  ShopInv'
  <1>1. /\ Shop!IdleRefresh = [pc |-> Shop!IdleRefresh.pc,
                               generation |-> Shop!IdleRefresh.generation,
                               source |-> Shop!IdleRefresh.source]
        /\ CacheShape(Shop!IdleRefresh.source) /\ Shop!IdleRefresh.pc = "idle"
    BY DEF Shop!IdleRefresh, Shop!NoCache, CacheShape
  <1> QED BY <1>1, RefreshesGoOn DEF Shop!Release

\* An administrator's page, or a save of the settings.
LEMMA PagesSave ==
  ASSUME ShopInv, NEW a \in Admins, Shop!Load(a) \/ Shop!Update(a)
  PROVE  ShopInv'
  <1>1. CASE Shop!Load(a)
    BY <1>1 DEF Shop!Load, Shop!KeepRefreshes, ShopInv, ShopTyped, PagesAreOld, Brings, Clears,
                Shop!DeletedStaysAway
  <1>2. CASE Shop!Update(a)
    <2>1. /\ settingsLock # "change" /\ page[a].revision = settings.revision
          /\ UNCHANGED <<cache, settingsLock, page, change, refresh>>
      BY <1>2 DEF Shop!Update, Shop!Free, Shop!Unlocked, Shop!Current, Shop!KeepRefreshes
    <2>2. page[a].price = settings.price /\ settings.price \in Int /\ Shop!None \in Int
      <3>1. Shop!None \in Int
        BY DEF Shop!None
      <3>2. page[a].price = settings.price
        BY <2>1 DEF ShopInv, PagesAreOld
      <3> QED BY <3>1, <3>2 DEF ShopInv, ShopTyped
    <2> PICK price \in {Shop!None, page[a].price, settings.generation}, on \in BOOLEAN :
          Shop!Saves(price, on)
      BY <1>2 DEF Shop!Update
    <2>9. /\ price # Shop!None => ~settings.deleted
          /\ settings' = [settings EXCEPT !.price = price, !.on = (on \/ settings.deleted),
                                          !.revision = settings.revision + 1]
      BY DEF Shop!Saves
    <2>3. price \in Int /\ (price # Shop!None => price = settings.generation)
      BY <2>2, <2>9 DEF ShopInv, ShopTyped, Shop!DeletedStaysAway
    <2>4. settings' = [revision |-> settings.revision + 1, price |-> price,
                       on |-> (on \/ settings.deleted), generation |-> settings.generation,
                       deleted |-> settings.deleted]
      BY <2>9 DEF ShopInv, ShopTyped
    <2>5. ShopTyped'
      BY <2>1, <2>3, <2>4 DEF ShopInv, ShopTyped
    <2>6. PagesAreOld'
      BY <2>1, <2>4 DEF ShopInv, ShopTyped, PagesAreOld
    <2>7. Brings' /\ Clears'
      BY <2>1 DEF ShopInv, Brings, Clears
    <2>8. Shop!DeletedStaysAway'
      BY <2>1, <2>3, <2>4, <2>9 DEF ShopInv, Shop!DeletedStaysAway
    <2> QED BY <2>5, <2>6, <2>7, <2>8 DEF ShopInv
  <1> QED BY <1>1, <1>2

\* A source is deleted, or added again.
LEMMA SourcesChange ==
  ASSUME ShopInv, Shop!FinishChange \/ \E a \in Admins, deleted \in BOOLEAN :
                                            Shop!BeginChange(a, deleted)
  PROVE  ShopInv'
  <1>1. ASSUME NEW a \in Admins, NEW deleted \in BOOLEAN, Shop!BeginChange(a, deleted)
        PROVE  ShopInv'
    <2>1. /\ cache' = Shop!NoCache /\ settingsLock' = "change"
          /\ change' = [pc |-> "save", deleted |-> deleted]
          /\ UNCHANGED <<settings, page, refresh>>
      BY <1>1 DEF Shop!BeginChange, Shop!KeepRefreshes
    <2>2. CacheShape(cache') /\ cache'.rows = Shop!None
      BY <2>1 DEF CacheShape, Shop!NoCache
    <2> QED BY <2>1, <2>2 DEF ShopInv, ShopTyped, PagesAreOld, Brings, Clears,
                              Shop!DeletedStaysAway
  <1>2. CASE Shop!FinishChange
    <2>1. /\ change.pc = "save" /\ cache.rows = Shop!None
          /\ change' = [change EXCEPT !.pc = "idle"]
          /\ settings' \in {settings, Shop!Changed} /\ UNCHANGED <<cache, page, refresh>>
      BY <1>2 DEF Shop!FinishChange, Shop!KeepRefreshes, ShopInv, Clears
    <2>2. change' = [pc |-> "idle", deleted |-> change.deleted]
      BY <2>1 DEF ShopInv, ShopTyped
    <2>3. CASE settings' = settings
      BY <2>1, <2>2, <2>3 DEF ShopInv, ShopTyped, PagesAreOld, Brings, Clears,
                              Shop!DeletedStaysAway
    <2>4. CASE settings' = Shop!Changed
      <3>1. /\ settings'.revision = settings.revision + 1 /\ settings'.price = Shop!None
            /\ settings' \in [revision : Nat, price : Int, on : BOOLEAN, generation : Nat,
                              deleted : BOOLEAN]
        BY <2>4 DEF Shop!Changed, Shop!None, ShopInv, ShopTyped
      <3>2. PagesAreOld'
        BY <2>1, <3>1 DEF ShopInv, ShopTyped, PagesAreOld
      <3> QED BY <2>1, <2>2, <3>1, <3>2 DEF ShopInv, ShopTyped, Brings, Clears,
                                            Shop!DeletedStaysAway
    <2> QED BY <2>1, <2>3, <2>4
  <1> QED BY <1>1, <1>2

\* A task that refreshes.
LEMMA TasksRefresh ==
  ASSUME ShopInv, NEW t \in Refreshers,
         \/ Shop!Acquire(t) \/ Shop!Fetch(t) \/ Shop!Commit(t) \/ Shop!Abandon(t)
         \/ \E manual \in BOOLEAN : Shop!Prepare(t, manual)
  PROVE  ShopInv'
  <1>1. /\ refresh[t] = [pc |-> refresh[t].pc, generation |-> refresh[t].generation,
                         source |-> refresh[t].source]
        /\ CacheShape(refresh[t].source) /\ CacheShape(cache)
        /\ refresh = [q \in Refreshers |-> refresh[q]]
    BY DEF ShopInv, ShopTyped
  <1>2. UNCHANGED <<settings, page, change, settingsLock>>
    BY DEF Shop!Acquire, Shop!Fetch, Shop!Commit, Shop!Abandon, Shop!Prepare, Shop!KeepPanels
  <1>3. CASE Shop!Acquire(t)
    <2> DEFINE new == [refresh[t] EXCEPT !.pc = "prepare"]
    <2>1. new = [pc |-> "prepare", generation |-> refresh[t].generation,
                 source |-> refresh[t].source]
      BY <1>1
    <2>2. refresh' = [refresh EXCEPT ![t] = new] /\ cache' = cache
      BY <1>3 DEF Shop!Acquire
    <2> HIDE DEF new
    <2> QED BY <1>1, <1>2, <2>1, <2>2, RefreshesGoOn
  <1>4. ASSUME NEW manual \in BOOLEAN, Shop!Prepare(t, manual) PROVE ShopInv'
    <2> DEFINE one == [cache EXCEPT !.manual = Cooldown]
               source == [cache EXCEPT !.manual = Cooldown, !.retry = Backoff]
               new == [pc |-> "fetch", source |-> source, generation |-> settings.generation]
    <2>1. source = [rows |-> cache.rows, fresh |-> cache.fresh, failed |-> cache.failed,
                    retry |-> Backoff, manual |-> Cooldown]
      <3>1. one = [rows |-> cache.rows, fresh |-> cache.fresh, failed |-> cache.failed,
                   retry |-> cache.retry, manual |-> Cooldown]
        BY <1>1 DEF CacheShape
      <3>2. source = [one EXCEPT !.retry = Backoff]
        BY <1>1 DEF CacheShape
      <3> HIDE DEF one, source
      <3> QED BY <3>1, <3>2
    <2>2. \/ Shop!Release(t) /\ cache' = cache
          \/ cache' = source /\ refresh' = [refresh EXCEPT ![t] = new]
      BY <1>4 DEF Shop!Prepare
    <2> HIDE DEF source
    <2>3. CacheShape(source) /\ source.rows = cache.rows
      BY <2>1 DEF CacheShape
    <2>4. CASE Shop!Release(t) /\ cache' = cache
      BY <1>1, <1>2, <2>4, ReleasedTasks
    <2>5. CASE cache' = source /\ refresh' = [refresh EXCEPT ![t] = new]
      <3>1. /\ new.pc = "fetch" /\ new.source = source /\ new.generation = settings.generation
            /\ new = [pc |-> new.pc, generation |-> new.generation, source |-> new.source]
        OBVIOUS
      <3>2. new.source.rows \in {Shop!None, new.generation}
        BY <2>3, <3>1 DEF ShopInv, Shop!DeletedStaysAway
      <3> HIDE DEF new
      <3> QED BY <1>2, <2>3, <2>5, <3>1, <3>2, RefreshesGoOn
    <2> QED BY <2>2, <2>4, <2>5
  <1>5. CASE Shop!Fetch(t)
    <2>0. PICK old, yes : old = refresh[t].source /\ yes = TRUE
      OBVIOUS
    <2> DEFINE got == [rows |-> refresh[t].generation, fresh |-> TTL, failed |-> FALSE,
                       retry |-> 0, manual |-> old.manual]
               one == [old EXCEPT !.failed = yes]
               kept == [one EXCEPT !.retry = Backoff]
    <2>1. CacheShape(kept) /\ kept.rows = old.rows
      <3>1. CacheShape(old)
        BY <1>1, <2>0
      <3>2. one = [rows |-> old.rows, fresh |-> old.fresh, failed |-> yes,
                   retry |-> old.retry, manual |-> old.manual]
        BY <3>1 DEF CacheShape
      <3> HIDE DEF one
      <3>3. kept = [rows |-> old.rows, fresh |-> old.fresh, failed |-> yes,
                    retry |-> Backoff, manual |-> old.manual]
        BY <3>2
      <3> HIDE DEF kept
      <3> QED BY <3>3 DEF CacheShape
    <2>2. PICK source \in {got, kept} :
            refresh' = [refresh EXCEPT ![t].pc = "commit", ![t].source = source]
      BY <1>5, <2>0 DEF Shop!Fetch
    <2>3. refresh[t].pc = "fetch" /\ cache' = cache
          /\ old.rows \in {Shop!None, refresh[t].generation}
      BY <1>5, <2>0 DEF Shop!Fetch, Shop!RefreshAt, ShopInv, Brings
    <2>4. CacheShape(source) /\ source.rows \in {Shop!None, refresh[t].generation}
      <3>1. CacheShape(got) /\ got.rows = refresh[t].generation
        BY DEF CacheShape
      <3> QED BY <2>1, <2>2, <2>3, <3>1
    <2> HIDE DEF got, kept
    <2> DEFINE went == [refresh[t] EXCEPT !.pc = "commit"]
               new == [went EXCEPT !.source = source]
    <2>5. refresh' = [refresh EXCEPT ![t] = new]
      BY <1>1, <2>2
    <2>6. went = [pc |-> "commit", generation |-> refresh[t].generation,
                  source |-> refresh[t].source]
      BY <1>1
    <2> HIDE DEF went
    <2>7. new = [pc |-> "commit", generation |-> refresh[t].generation, source |-> source]
      BY <2>6
    <2> HIDE DEF new
    <2> QED BY <1>1, <1>2, <2>3, <2>4, <2>5, <2>7, RefreshesGoOn
  <1>6. CASE Shop!Commit(t)
    <2>1. /\ refresh[t].pc = "commit" /\ settingsLock # "change" /\ Shop!Release(t)
          /\ refresh[t].source.rows \in {Shop!None, refresh[t].generation}
          /\ cache' = IF settings.deleted \/ settings.generation # refresh[t].generation
                      THEN cache ELSE refresh[t].source
      BY <1>6 DEF Shop!Commit, Shop!RefreshAt, Shop!Free, Shop!Unlocked, ShopInv, Brings
    <2>2. /\ CacheShape(cache')
          /\ cache'.rows # Shop!None => ~settings.deleted /\ cache'.rows = settings.generation
      BY <1>1, <2>1 DEF ShopInv, Shop!DeletedStaysAway
    <2>3. /\ refresh' = [q \in Refreshers |-> refresh'[q]]
          /\ \A q \in Refreshers : refresh'[q] \in {refresh[q], Shop!IdleRefresh}
      BY <1>1, <2>1 DEF Shop!Release
    <2>4. /\ Shop!IdleRefresh = [pc |-> Shop!IdleRefresh.pc,
                                 generation |-> Shop!IdleRefresh.generation,
                                 source |-> Shop!IdleRefresh.source]
          /\ CacheShape(Shop!IdleRefresh.source) /\ Shop!IdleRefresh.pc = "idle"
      BY DEF Shop!IdleRefresh, Shop!NoCache, CacheShape
    <2>5. ShopTyped' /\ PagesAreOld'
      BY <1>2, <2>2, <2>3, <2>4 DEF ShopInv, ShopTyped, PagesAreOld
    <2>6. Brings' /\ Clears' /\ Shop!DeletedStaysAway'
      BY <1>2, <2>1, <2>2, <2>3, <2>4 DEF ShopInv, Brings, Clears, Shop!DeletedStaysAway
    <2> QED BY <2>5, <2>6 DEF ShopInv
  <1>7. CASE Shop!Abandon(t)
    BY <1>1, <1>2, <1>7, ReleasedTasks DEF Shop!Abandon
  <1> QED BY <1>3, <1>4, <1>5, <1>6, <1>7

\* A process dies, or time passes.
LEMMA ShopPasses == ASSUME ShopInv, Shop!Die \/ Shop!Pass \/ UNCHANGED shopVars PROVE ShopInv'
  <1>1. CASE Shop!Die
    <2>1. /\ UNCHANGED <<settings, cache, page>> /\ change' = [change EXCEPT !.pc = "idle"]
          /\ refresh' = [t \in Refreshers |-> Shop!IdleRefresh]
      BY <1>1 DEF Shop!Die
    <2>2. change' = [pc |-> "idle", deleted |-> change.deleted]
      BY <2>1 DEF ShopInv, ShopTyped
    <2>3. /\ Shop!IdleRefresh = [pc |-> Shop!IdleRefresh.pc,
                                 generation |-> Shop!IdleRefresh.generation,
                                 source |-> Shop!IdleRefresh.source]
          /\ CacheShape(Shop!IdleRefresh.source) /\ Shop!IdleRefresh.pc = "idle"
      BY DEF Shop!IdleRefresh, Shop!NoCache, CacheShape
    <2> QED BY <2>1, <2>2, <2>3 DEF ShopInv, ShopTyped, PagesAreOld, Brings, Clears,
                                    Shop!DeletedStaysAway
  <1>2. CASE Shop!Pass
    <2>1. ASSUME NEW c, CacheShape(c)
          PROVE  CacheShape(Shop!Aged(c)) /\ Shop!Aged(c).rows = c.rows
      <3> DEFINE one == [c EXCEPT !.fresh = Shop!Less(c.fresh)]
                 two == [one EXCEPT !.retry = Shop!Less(c.retry)]
                 aged == [two EXCEPT !.manual = Shop!Less(c.manual)]
      <3>1. one = [rows |-> c.rows, fresh |-> Shop!Less(c.fresh), failed |-> c.failed,
                   retry |-> c.retry, manual |-> c.manual]
        BY <2>1 DEF CacheShape
      <3>2. Shop!Aged(c) = aged
        BY DEF Shop!Aged
      <3> HIDE DEF one
      <3>3. two = [rows |-> c.rows, fresh |-> Shop!Less(c.fresh), failed |-> c.failed,
                   retry |-> Shop!Less(c.retry), manual |-> c.manual]
        BY <3>1
      <3> HIDE DEF two
      <3>4. aged = [rows |-> c.rows, fresh |-> Shop!Less(c.fresh), failed |-> c.failed,
                    retry |-> Shop!Less(c.retry), manual |-> Shop!Less(c.manual)]
        BY <3>3
      <3> HIDE DEF aged
      <3> QED BY <3>2, <3>4 DEF CacheShape
    <2>2. CacheShape(cache') /\ cache'.rows = cache.rows
      BY <1>2, <2>1 DEF Shop!Pass, ShopInv, ShopTyped
    <2>3. ASSUME NEW t \in Refreshers
          PROVE  /\ refresh'[t] = [pc |-> refresh[t].pc, generation |-> refresh[t].generation,
                                   source |-> refresh'[t].source]
                 /\ CacheShape(refresh'[t].source)
                 /\ refresh'[t].source.rows = refresh[t].source.rows
      <3>1. refresh'[t] = [refresh[t] EXCEPT !.source = Shop!Aged(refresh[t].source)]
        BY <1>2 DEF Shop!Pass
      <3>2. /\ CacheShape(Shop!Aged(refresh[t].source))
            /\ Shop!Aged(refresh[t].source).rows = refresh[t].source.rows
        BY <2>1 DEF ShopInv, ShopTyped
      <3>3. refresh[t] = [pc |-> refresh[t].pc, generation |-> refresh[t].generation,
                          source |-> refresh[t].source]
        BY DEF ShopInv, ShopTyped
      <3> QED BY <3>1, <3>2, <3>3
    <2>4. refresh' = [t \in Refreshers |-> refresh'[t]]
      BY <1>2 DEF Shop!Pass
    <2>5. UNCHANGED <<settings, settingsLock, page, change>>
      BY <1>2 DEF Shop!Pass
    <2> QED BY <2>2, <2>3, <2>4, <2>5 DEF ShopInv, ShopTyped, PagesAreOld, Brings, Clears,
                                          Shop!DeletedStaysAway
  <1>3. CASE UNCHANGED shopVars
    BY <1>3 DEF shopVars, ShopInv, ShopTyped, PagesAreOld, Brings, Clears, Shop!DeletedStaysAway
  <1> QED BY <1>1, <1>2, <1>3

LEMMA ShopStarts == ASSUME Shop!ShopInit PROVE ShopInv
  <1>1. /\ settings = [revision |-> 0, price |-> Shop!None, on |-> TRUE, generation |-> 0,
                       deleted |-> FALSE]
        /\ cache = Shop!NoCache /\ page = [a \in Admins |-> settings]
        /\ change = [pc |-> "idle", deleted |-> FALSE]
        /\ refresh = [t \in Refreshers |-> Shop!IdleRefresh]
    BY DEF Shop!ShopInit
  <1>2. /\ Shop!IdleRefresh = [pc |-> "idle", generation |-> 0, source |-> Shop!NoCache]
        /\ CacheShape(Shop!NoCache) /\ Shop!NoCache.rows = Shop!None
    BY DEF Shop!IdleRefresh, Shop!NoCache, CacheShape
  <1>3. ShopTyped
    BY <1>1, <1>2 DEF ShopTyped, Shop!None
  <1> QED BY <1>1, <1>2, <1>3 DEF ShopInv, PagesAreOld, Brings, Clears, Shop!DeletedStaysAway

LEMMA ShopHolds == PanelSpec => [](subject = "shop" => ShopInv)
  <1>1. PanelInit => (subject = "shop" => ShopInv)
    BY ShopStarts DEF PanelInit
  <1>2. (subject = "shop" => ShopInv) /\ [PanelNext]_AllVars => (subject = "shop" => ShopInv)'
    <2> SUFFICES ASSUME subject = "shop" => ShopInv, [PanelNext]_AllVars, subject' = "shop"
                 PROVE  ShopInv'
      OBVIOUS
    <2>1. subject = "shop" /\ (Shop!ShopNext \/ UNCHANGED shopVars)
      BY DEF AllVars, PanelNext, VideoMoves, PanelMoves, LimitMoves, HttpsMoves, ShopMoves,
             ChatMoves, DocumentMoves, RuleMoves, LandingMoves
    <2>2. CASE Shop!ShopNext
      BY <2>1, <2>2, PagesSave, SourcesChange, TasksRefresh, ShopPasses DEF Shop!ShopNext
    <2> QED BY <2>1, <2>2, ShopPasses
  <1> QED BY <1>1, <1>2, PTL DEF PanelSpec

\* What is deleted stays away: the rows and the price of a supplier, whichever page or
\* refresh was under way (shop_store.py), and a document, its picture and its vectors
\* (chat_document_jobs.py).
THEOREM DeletionsAreFinal == PanelSpec => []DeletedStaysAway
  <1>1. (subject = "shop" => ShopInv) /\ (subject = "documents" => DocInv) => DeletedStaysAway
    BY DEF DeletedStaysAway, ShopInv, DocInv
  <1> QED BY <1>1, ShopHolds, DocumentsHold, PTL
-----------------------------------------------------------------------------
(* The rules of the template.  What somebody added is in what somebody who  *)
(* sees the present rules saves, or was removed by him.                     *)

LEMMA SavedRules ==
  ASSUME NEW shown, NEW added, NEW kept, owed' = ((owed \ shown) \cup added) \cup (owed \cap kept),
         owed \subseteq shown, added \subseteq kept
  PROVE  owed' \subseteq kept
  OBVIOUS

LEMMA TemplateStep ==
  ASSUME Rule!NoRuleIsLost, template \in Rule!RuleSeq, Rule!TemplateNext
  PROVE  Rule!NoRuleIsLost' /\ template' \in Rule!RuleSeq
  <1>1. ASSUME NEW a \in Admins, NEW rules, NEW added, Rule!Saves(a, rules, added),
               added \subseteq Rule!ToSet(rules)
        PROVE  Rule!NoRuleIsLost' /\ template' \in Rule!RuleSeq
    <2>1. /\ owed' = ((owed \ Rule!ToSet(template)) \cup added) \cup (owed \cap Rule!ToSet(rules))
          /\ template' = rules /\ rules \in Rule!RuleSeq
      BY <1>1 DEF Rule!Saves, Rule!Current
    <2> QED BY <1>1, <2>1, SavedRules DEF Rule!NoRuleIsLost
  <1>2. ASSUME NEW a \in Admins, NEW r \in Rules, Rule!AddRule(a, r)
        PROVE  Rule!NoRuleIsLost' /\ template' \in Rule!RuleSeq
    <2>1. template \in Seq(Rules)
      BY DEF Rule!RuleSeq, Rule!SeqOf
    <2>2. r \in Rule!ToSet(<<r>> \o template)
      BY <2>1 DEF Rule!ToSet
    <2> QED BY <1>1, <1>2, <2>2 DEF Rule!AddRule
  <1>3. ASSUME NEW a \in Admins, Rule!Open(a)
        PROVE  Rule!NoRuleIsLost' /\ template' \in Rule!RuleSeq
    BY <1>3 DEF Rule!Open, Rule!NoRuleIsLost, Rule!ToSet
  <1> QED BY <1>1, <1>2, <1>3
          DEF Rule!TemplateNext, Rule!DeleteRule, Rule!ApplyPack, Rule!Replace

\* The same beside plans, where there is one administrator.
LEMMA TemplateStepBesidePlans ==
  ASSUME Plan!NoRuleIsLost, template \in Plan!RuleSeq, Plan!TemplateNext
  PROVE  Plan!NoRuleIsLost' /\ template' \in Plan!RuleSeq
  <1>1. ASSUME NEW a, NEW rules, NEW added, Plan!Saves(a, rules, added),
               added \subseteq Plan!ToSet(rules)
        PROVE  Plan!NoRuleIsLost' /\ template' \in Plan!RuleSeq
    <2>1. /\ owed' = ((owed \ Plan!ToSet(template)) \cup added) \cup (owed \cap Plan!ToSet(rules))
          /\ template' = rules /\ rules \in Plan!RuleSeq
      BY <1>1 DEF Plan!Saves, Plan!Current
    <2> QED BY <1>1, <2>1, SavedRules DEF Plan!NoRuleIsLost
  <1>2. ASSUME NEW a, NEW r \in Rules, Plan!AddRule(a, r)
        PROVE  Plan!NoRuleIsLost' /\ template' \in Plan!RuleSeq
    <2>1. template \in Seq(Rules)
      <3>1. PICK m \in 0 .. 1 : template \in [1 .. m -> Rules]
        BY DEF Plan!RuleSeq, Plan!SeqOf
      <3>2. m \in Nat
        BY <3>1
      <3> HIDE DEF Plan!RuleSeq
      <3> QED BY <3>1, <3>2
    <2>2. r \in Plan!ToSet(<<r>> \o template)
      BY <2>1 DEF Plan!ToSet
    <2> QED BY <1>1, <1>2, <2>2 DEF Plan!AddRule
  <1>3. ASSUME NEW a, Plan!Open(a)
        PROVE  Plan!NoRuleIsLost' /\ template' \in Plan!RuleSeq
    BY <1>3 DEF Plan!Open, Plan!NoRuleIsLost, Plan!ToSet
  <1> QED BY <1>1, <1>2, <1>3
          DEF Plan!TemplateNext, Plan!DeleteRule, Plan!ApplyPack, Plan!Replace

-----------------------------------------------------------------------------
(* Plans.  A plan under way finds the account as it was before it, or as it  *)
(* is after it, and nobody else writes the account between the two saves.    *)

Statuses == {"pending", "applying", "applied", "undoing", "undone"}
Fields(content) == content = [rules |-> content.rules, other |-> content.other]
Stored(record) ==
    /\ record = [status |-> record.status, before |-> record.before, after |-> record.after,
                 global |-> record.global, age |-> record.age]
    /\ record.status \in Statuses
    /\ Fields(record.before) /\ Fields(record.after) /\ record.before.other = record.after.other

PlanTyped ==
    /\ plan = [p \in Plans |-> plan[p]]
    /\ Fields(profile)
    /\ \A p \in Plans : plan[p] # Plan!NoPlan => Stored(plan[p])
    /\ mover = [pc |-> mover.pc, plan |-> mover.plan, undo |-> mover.undo]
    /\ mover.pc \in {"idle", "write", "note"} /\ mover.undo \in BOOLEAN
DraftInv ==
    draft # Plan!NoPlan => /\ Stored(draft) /\ draft.status = "pending"
                           /\ 0 \in mine => profile = draft.before
MoverInv ==
    mover.pc # "idle" =>
        LET record == plan[mover.plan]
            old == IF mover.undo THEN record.after ELSE record.before
            new == IF mover.undo THEN record.before ELSE record.after
        IN /\ mover.plan \in Plans /\ record # Plan!NoPlan
           /\ record.status = Plan!Marked(mover.undo)
           /\ mover.pc = "write" => profile = old
           /\ mover.pc = "note" /\ mover.plan \in mine => profile = new
PlanInv == PlanTyped /\ DraftInv /\ MoverInv /\ Plan!PlanTellsTruth

LEMMA NoPlanIsNotStored == ~Stored(Plan!NoPlan)
  BY DEF Stored, Plan!NoPlan, Statuses

LEMMA Restated ==
  ASSUME NEW record, Stored(record), NEW status \in Statuses
  PROVE  LET new == [record EXCEPT !.status = status]
         IN /\ Stored(new) /\ new # Plan!NoPlan /\ new.status = status
            /\ new.before = record.before /\ new.after = record.after
  <1> DEFINE new == [record EXCEPT !.status = status]
  <1>1. /\ new = [status |-> status, before |-> record.before, after |-> record.after,
                  global |-> record.global, age |-> record.age]
    BY DEF Stored
  <1>2. Stored(new) /\ new.status = status /\ new.before = record.before /\ new.after = record.after
    BY <1>1 DEF Stored
  <1> QED BY <1>2, NoPlanIsNotStored

LEMMA Aged ==
  ASSUME NEW record, Stored(record), NEW age
  PROVE  LET new == [record EXCEPT !.age = age]
         IN /\ Stored(new) /\ new # Plan!NoPlan /\ new.status = record.status
            /\ new.before = record.before /\ new.after = record.after
  <1> DEFINE new == [record EXCEPT !.age = age]
  <1>1. /\ new = [status |-> record.status, before |-> record.before, after |-> record.after,
                  global |-> record.global, age |-> age]
    BY DEF Stored
  <1>2. Stored(new) /\ new.status = record.status /\ new.before = record.before /\ new.after = record.after
    BY <1>1 DEF Stored
  <1> QED BY <1>2, NoPlanIsNotStored

LEMMA KeptRecords ==
  ASSUME NEW records
  PROVE  LET kept == Plan!Kept(records)
         IN /\ kept = [p \in Plans |-> kept[p]]
            /\ \A p \in Plans : kept[p] \in {records[p], Plan!NoPlan}
  BY DEF Plan!Kept

\* What a step of the plans leaves as it is.
LEMMA ChangedPlan ==
  ASSUME PlanTyped, NEW records, records = [p \in Plans |-> records[p]],
         \A p \in Plans : records[p] \in {plan[p], Plan!NoPlan},
         NEW p \in Plans, NEW new, Stored(new) \/ new = Plan!NoPlan,
         plan' = [records EXCEPT ![p] = new]
  PROVE  /\ plan' = [q \in Plans |-> plan'[q]]
         /\ plan'[p] = new /\ \A q \in Plans \ {p} : plan'[q] \in {plan[q], Plan!NoPlan}
         /\ \A q \in Plans : plan'[q] # Plan!NoPlan => Stored(plan'[q])
  BY DEF PlanTyped

LEMMA TruthOfOne ==
  ASSUME Plan!PlanTellsTruth, profile' = profile, NEW p \in Plans, NEW new, plan'[p] = new,
         \A q \in Plans \ {p} : plan'[q] \in {plan[q], Plan!NoPlan},
         \A q \in Plans \ {p} : q \in mine' => q \in mine,
         p \in mine' /\ new # Plan!NoPlan =>
            /\ new.status \in {"pending", "undone"} => profile = new.before
            /\ new.status = "applied" => profile = new.after
            /\ new.status \in {"applying", "undoing"} => profile \in {new.before, new.after}
  PROVE  Plan!PlanTellsTruth'
  BY DEF Plan!PlanTellsTruth

LEMMA EditsOfAccounts ==
  ASSUME PlanInv, Plan!EditAccount
  PROVE  PlanInv'
  <1>1. /\ UNCHANGED <<plan, draft, mover>> /\ mine' = {} /\ mover.pc # "write"
        /\ Fields(profile')
    BY DEF Plan!EditAccount, Plan!Unlocked, PlanInv, PlanTyped, Fields
  <1> QED BY <1>1 DEF PlanInv, PlanTyped, DraftInv, MoverInv, Plan!PlanTellsTruth

LEMMA Previews ==
  ASSUME PlanInv, NEW rules, Plan!Preview(rules), 0 \notin Plans
  PROVE  PlanInv'
  <1>1. /\ UNCHANGED <<plan, profile, mover>> /\ mine' = mine \cup {0}
        /\ draft' = [status |-> "pending", before |-> profile,
                     after |-> [profile EXCEPT !.rules = rules], global |-> template, age |-> 0]
    BY DEF Plan!Preview
  <1>2. Fields([profile EXCEPT !.rules = rules]) /\ [profile EXCEPT !.rules = rules].other = profile.other
    BY DEF PlanInv, PlanTyped, Fields
  <1> HIDE DEF Fields
  <1>3. Stored(draft') /\ draft'.status = "pending" /\ draft'.before = profile
    BY <1>1, <1>2 DEF Stored, Statuses, PlanInv, PlanTyped
  <1> QED BY <1>1, <1>3 DEF PlanInv, PlanTyped, DraftInv, MoverInv, Plan!PlanTellsTruth

LEMMA Stores ==
  ASSUME PlanInv, Plan!Store, 0 \notin Plans
  PROVE  PlanInv'
  <1>1. PICK p \in Plans : /\ plan' = [Plan!Kept(plan) EXCEPT ![p] = draft]
                           /\ mine' = (mine \ {0, p}) \cup (IF 0 \in mine THEN {p} ELSE {})
    BY DEF Plan!Store
  <1>2. draft # Plan!NoPlan /\ mover.pc = "idle" /\ draft' = Plan!NoPlan /\ UNCHANGED <<profile, mover>>
    BY DEF Plan!Store
  <1>3. Stored(draft) /\ draft.status = "pending" /\ (0 \in mine => profile = draft.before)
    BY <1>2 DEF PlanInv, DraftInv
  <1>4. /\ plan' = [q \in Plans |-> plan'[q]]
        /\ plan'[p] = draft /\ \A q \in Plans \ {p} : plan'[q] \in {plan[q], Plan!NoPlan}
        /\ \A q \in Plans : plan'[q] # Plan!NoPlan => Stored(plan'[q])
    BY <1>1, <1>3, KeptRecords, ChangedPlan DEF PlanInv
  <1>5. Plan!PlanTellsTruth'
    BY <1>1, <1>2, <1>3, <1>4, TruthOfOne DEF PlanInv
  <1> QED BY <1>2, <1>4, <1>5 DEF PlanInv, PlanTyped, DraftInv, MoverInv

\* What apply_change and undo_change save first: a status, of a plan that was kept.
LEMMA Notes ==
  ASSUME PlanInv, NEW p \in Plans, NEW records, records = [q \in Plans |-> records[q]],
         \A q \in Plans : records[q] \in {plan[q], Plan!NoPlan},
         records[p] # Plan!NoPlan, NEW status \in Statuses \ {"pending"},
         plan' = [records EXCEPT ![p].status = status], UNCHANGED <<profile, draft, mine>>,
         mover' = mover \/ mover' = Plan!Rest \/
            \E undo \in BOOLEAN : /\ mover' = [pc |-> "write", plan |-> p, undo |-> undo]
                                  /\ status = Plan!Marked(undo),
         mover' = mover => mover.pc = "idle",
         status = "applied" /\ p \in mine => profile = records[p].after,
         status = "undone" /\ p \in mine => profile = records[p].before,
         status \in {"applying", "undoing"} =>
            /\ mover' # mover => profile = IF status = "undoing" THEN records[p].after ELSE records[p].before
            /\ profile \in {records[p].before, records[p].after}
  PROVE  PlanInv'
  <1> DEFINE new == [records[p] EXCEPT !.status = status]
  <1>1. records[p] = plan[p] /\ Stored(plan[p])
    BY DEF PlanInv, PlanTyped
  <1>2. /\ Stored(new) /\ new # Plan!NoPlan /\ new.status = status
        /\ new.before = records[p].before /\ new.after = records[p].after
    BY <1>1, Restated
  <1>3. plan' = [records EXCEPT ![p] = new]
    OBVIOUS
  <1> HIDE DEF new
  <1>4. /\ plan' = [q \in Plans |-> plan'[q]]
        /\ plan'[p] = new /\ \A q \in Plans \ {p} : plan'[q] \in {plan[q], Plan!NoPlan}
        /\ \A q \in Plans : plan'[q] # Plan!NoPlan => Stored(plan'[q])
    <2>1. PlanTyped
      BY DEF PlanInv
    <2>2. plan'[p] = new /\ \A q \in Plans \ {p} : plan'[q] = records[q]
      BY <1>3
    <2>3. plan' = [q \in Plans |-> plan'[q]]
      BY <1>3
    <2> QED BY <1>2, <2>1, <2>2, <2>3 DEF PlanTyped
  <1>5. Plan!PlanTellsTruth'
    BY <1>2, <1>4, TruthOfOne DEF PlanInv, Statuses
  <1>6. MoverInv'
    BY <1>2, <1>4 DEF PlanInv, MoverInv, Plan!Marked, Plan!Rest
  <1>7. /\ mover' = [pc |-> mover'.pc, plan |-> mover'.plan, undo |-> mover'.undo]
        /\ mover'.pc \in {"idle", "write", "note"} /\ mover'.undo \in BOOLEAN
    <2>1. CASE mover' = mover
      BY <2>1 DEF PlanInv, PlanTyped
    <2>2. CASE mover' = Plan!Rest
      BY <2>2 DEF Plan!Rest
    <2>3. ASSUME NEW undo \in BOOLEAN, mover' = [pc |-> "write", plan |-> p, undo |-> undo]
          PROVE  <1>7!:
      BY <2>3
    <2> QED BY <2>1, <2>2, <2>3
  <1>8. PlanTyped'
    BY <1>4, <1>7 DEF PlanInv, PlanTyped
  <1> QED BY <1>5, <1>6, <1>8 DEF PlanInv, DraftInv

LEMMA Applies == ASSUME PlanInv, NEW p \in Plans, Plan!Apply(p) PROVE PlanInv'
  <1> DEFINE kept == Plan!Kept(plan)
  <1>1. /\ kept = [q \in Plans |-> kept[q]]
        /\ \A q \in Plans : kept[q] \in {plan[q], Plan!NoPlan}
    BY KeptRecords
  <1>2. /\ mover.pc = "idle" /\ kept[p].status \in {"pending", "applying"}
        /\ UNCHANGED <<profile, draft, mine>>
        /\ \/ profile = kept[p].after /\ plan' = [kept EXCEPT ![p].status = "applied"] /\ UNCHANGED mover
           \/ /\ profile = kept[p].before /\ plan' = [kept EXCEPT ![p].status = Plan!Marked(FALSE)]
              /\ mover' = [pc |-> "write", plan |-> p, undo |-> FALSE]
    BY DEF Plan!Apply
  <1> HIDE DEF kept
  <1>3. kept[p] # Plan!NoPlan
    BY <1>2 DEF Plan!NoPlan
  <1>4. ASSUME NEW undo \in BOOLEAN, plan' = [kept EXCEPT ![p].status = Plan!Marked(undo)],
               profile = IF undo THEN kept[p].after ELSE kept[p].before,
               mover' = [pc |-> "write", plan |-> p, undo |-> undo]
        PROVE  PlanInv'
    <2>1. /\ Plan!Marked(undo) \in Statuses \ {"pending", "applied", "undone"}
          /\ Plan!Marked(undo) = "undoing" <=> undo = TRUE
      BY DEF Plan!Marked, Statuses
    <2>2. mover' # mover
      BY <1>2, <1>4
    <2> QED BY <1>1, <1>2, <1>3, <1>4, <2>1, <2>2, Notes
  <1>5. ASSUME NEW status \in {"applied", "undone"}, plan' = [kept EXCEPT ![p].status = status],
               profile = IF status = "applied" THEN kept[p].after ELSE kept[p].before,
               UNCHANGED mover
        PROVE  PlanInv'
    BY <1>1, <1>2, <1>3, <1>5, Notes DEF Statuses
  <1> QED BY <1>2, <1>4, <1>5

LEMMA Undoes == ASSUME PlanInv, NEW p \in Plans, Plan!Undo(p) PROVE PlanInv'
  <1> DEFINE kept == Plan!Kept(plan)
  <1>1. /\ kept = [q \in Plans |-> kept[q]]
        /\ \A q \in Plans : kept[q] \in {plan[q], Plan!NoPlan}
    BY KeptRecords
  <1>2. /\ mover.pc = "idle" /\ kept[p].status \in {"applied", "undoing"}
        /\ UNCHANGED <<profile, draft, mine>>
        /\ \/ profile = kept[p].before /\ plan' = [kept EXCEPT ![p].status = "undone"] /\ UNCHANGED mover
           \/ /\ profile = kept[p].after /\ plan' = [kept EXCEPT ![p].status = Plan!Marked(TRUE)]
              /\ mover' = [pc |-> "write", plan |-> p, undo |-> TRUE]
    BY DEF Plan!Undo
  <1> HIDE DEF kept
  <1>3. kept[p] # Plan!NoPlan
    BY <1>2 DEF Plan!NoPlan
  <1>4. ASSUME NEW undo \in BOOLEAN, plan' = [kept EXCEPT ![p].status = Plan!Marked(undo)],
               profile = IF undo THEN kept[p].after ELSE kept[p].before,
               mover' = [pc |-> "write", plan |-> p, undo |-> undo]
        PROVE  PlanInv'
    <2>1. /\ Plan!Marked(undo) \in Statuses \ {"pending", "applied", "undone"}
          /\ Plan!Marked(undo) = "undoing" <=> undo = TRUE
      BY DEF Plan!Marked, Statuses
    <2>2. mover' # mover
      BY <1>2, <1>4
    <2> QED BY <1>1, <1>2, <1>3, <1>4, <2>1, <2>2, Notes
  <1>5. ASSUME NEW status \in {"applied", "undone"}, plan' = [kept EXCEPT ![p].status = status],
               profile = IF status = "applied" THEN kept[p].after ELSE kept[p].before,
               UNCHANGED mover
        PROVE  PlanInv'
    BY <1>1, <1>2, <1>3, <1>5, Notes DEF Statuses
  <1> QED BY <1>2, <1>4, <1>5

LEMMA Writes == ASSUME PlanInv, Plan!Write, 0 \notin Plans PROVE PlanInv'
  <1> DEFINE record == plan[mover.plan]
             new == IF mover.undo THEN record.before ELSE record.after
             old == IF mover.undo THEN record.after ELSE record.before
  <1>1. /\ mover.pc = "write" /\ mover.plan \in Plans /\ record # Plan!NoPlan
        /\ record.status = Plan!Marked(mover.undo) /\ profile = old /\ Stored(record)
    BY DEF Plan!Write, PlanInv, MoverInv, PlanTyped
  <1>2. profile' = new
    <2>1. profile' = [profile EXCEPT !.rules = new.rules]
      BY DEF Plan!Write
    <2>2. Fields(old) /\ Fields(new) /\ old.other = new.other
      BY <1>1 DEF Stored
    <2> HIDE DEF old, new
    <2>3. profile' = [rules |-> new.rules, other |-> old.other]
      BY <1>1, <2>1, <2>2 DEF Fields
    <2> QED BY <2>2, <2>3 DEF Fields
  <1>3. /\ UNCHANGED <<plan, draft>> /\ mine' = (IF profile' = profile THEN mine ELSE mine \cap {mover.plan})
        /\ mover' = [pc |-> "note", plan |-> mover.plan, undo |-> mover.undo]
    BY DEF Plan!Write, PlanInv, PlanTyped
  <1>4. PlanTyped' /\ MoverInv'
    BY <1>1, <1>2, <1>3 DEF PlanInv, PlanTyped, MoverInv, Stored
  <1>5. DraftInv'
    BY <1>1, <1>3 DEF PlanInv, DraftInv
  <1>6. Plan!PlanTellsTruth'
    BY <1>1, <1>2, <1>3 DEF PlanInv, Plan!PlanTellsTruth, Plan!Marked
  <1> QED BY <1>4, <1>5, <1>6 DEF PlanInv

LEMMA NotesAfterwards == ASSUME PlanInv, Plan!Note PROVE PlanInv'
  <1>1. /\ mover.pc = "note" /\ mover.plan \in Plans /\ plan[mover.plan] # Plan!NoPlan
        /\ mover.plan \in mine => profile = IF mover.undo THEN plan[mover.plan].before
                                            ELSE plan[mover.plan].after
    BY DEF Plan!Note, PlanInv, MoverInv
  <1>2. /\ plan' = [plan EXCEPT ![mover.plan].status = IF mover.undo THEN "undone" ELSE "applied"]
        /\ mover' = Plan!Rest /\ UNCHANGED <<profile, draft, mine>>
    BY DEF Plan!Note
  <1>3. plan = [q \in Plans |-> plan[q]] /\ mover' # mover
    BY <1>1, <1>2 DEF PlanInv, PlanTyped, Plan!Rest
  <1> QED BY <1>1, <1>2, <1>3, Notes DEF Statuses, Plan!Rest
LEMMA PlanStep ==
  ASSUME PlanInv, Plan!PlanNext, 0 \notin Plans
  PROVE  PlanInv' /\ UNCHANGED <<template, form, owed>>
  <1>1. UNCHANGED <<template, form, owed>>
    BY DEF Plan!PlanNext, Plan!EditAccount, Plan!Add, Plan!Drop, Plan!Pack, Plan!Preview, Plan!Store,
           Plan!Apply, Plan!Undo, Plan!Write, Plan!Note, Plan!Interrupted, Plan!Age, Plan!templateVars
  <1>2. ASSUME Plan!Interrupted PROVE PlanInv'
    <2>1. /\ UNCHANGED <<plan, profile>> /\ mover' = Plan!Rest /\ draft' = Plan!NoPlan
          /\ mine' = mine \ {0}
      BY <1>2 DEF Plan!Interrupted
    <2> QED BY <2>1 DEF PlanInv, PlanTyped, DraftInv, MoverInv, Plan!PlanTellsTruth, Plan!Rest
  <1>3. ASSUME NEW p \in Plans, Plan!Age(p) PROVE PlanInv'
    <2> DEFINE new == [plan[p] EXCEPT !.age = @ + 1]
    <2>1. /\ plan' = [plan EXCEPT ![p].age = @ + 1] /\ plan[p] # Plan!NoPlan
          /\ UNCHANGED <<profile, draft, mover, mine>> /\ mover.pc = "idle"
      BY <1>3 DEF Plan!Age, Plan!Rest
    <2>2. plan' = [plan EXCEPT ![p] = new] /\ Stored(plan[p])
      BY <2>1 DEF PlanInv, PlanTyped
    <2>3. /\ Stored(new) /\ new # Plan!NoPlan /\ new.status = plan[p].status
          /\ new.before = plan[p].before /\ new.after = plan[p].after
      BY <2>2, Aged
    <2> HIDE DEF new
    <2>4. /\ plan' = [q \in Plans |-> plan'[q]]
          /\ plan'[p] = new /\ \A q \in Plans \ {p} : plan'[q] = plan[q]
      BY <2>2 DEF PlanInv, PlanTyped
    <2>5. Plan!PlanTellsTruth'
      BY <2>1, <2>3, <2>4 DEF PlanInv, Plan!PlanTellsTruth
    <2> QED BY <2>1, <2>3, <2>4, <2>5 DEF PlanInv, PlanTyped, DraftInv, MoverInv
  <1>4. PlanInv'
    BY <1>2, <1>3, EditsOfAccounts, Previews, Stores, Applies, Undoes, Writes, NotesAfterwards
       DEF Plan!PlanNext, Plan!Add, Plan!Drop, Plan!Pack
  <1> QED BY <1>1, <1>4

RulesInv ==
    /\ subject = "templates" => Rule!NoRuleIsLost /\ template \in Rule!RuleSeq
    /\ subject = "plans" => Plan!NoRuleIsLost /\ template \in Plan!RuleSeq /\ PlanInv

\* Rules that were added to the template stay until somebody who saw them removes them
\* (template_store.py, save_template_rules), and the status of an account's plan
\* says what became of it, whichever of its two saves failed (agent_rule_service.py).
THEOREM RulesStayAsTold == PanelSpec => []RulesAreKept
  <1>1. PanelInit => RulesInv
    <2> SUFFICES ASSUME PanelInit PROVE RulesInv
      OBVIOUS
    <2>1. template = <<>> /\ owed = {}
      BY DEF PanelInit, Rule!RuleInit, Plan!RuleInit
    <2>2. <<>> \in [1 .. 0 -> Rules]
      OBVIOUS
    <2>3. template \in Rule!RuleSeq /\ template \in Plan!RuleSeq
      BY <2>1, <2>2, RulesAssumption DEF Rule!RuleSeq, Rule!SeqOf, Plan!RuleSeq, Plan!SeqOf
    <2>4. subject = "plans" => PlanInv
      <3>1. subject = "plans" => /\ profile = [rules |-> <<>>, other |-> 0] /\ draft = Plan!NoPlan
                                 /\ plan = [p \in Plans |-> Plan!NoPlan] /\ mover = Plan!Rest
        BY DEF PanelInit, Plan!RuleInit
      <3>2. subject = "plans" => Fields(profile)
        BY <3>1 DEF Fields
      <3>3. subject = "plans" => PlanTyped /\ DraftInv /\ MoverInv
        <4> SUFFICES ASSUME subject = "plans" PROVE PlanTyped /\ DraftInv /\ MoverInv
          OBVIOUS
        <4>1. \A p \in Plans : plan[p] = Plan!NoPlan
          BY <3>1
        <4>2. plan = [p \in Plans |-> plan[p]]
          BY <3>1
        <4>3. mover = [pc |-> "idle", plan |-> 0, undo |-> FALSE]
          BY <3>1 DEF Plan!Rest
        <4> QED BY <3>1, <3>2, <4>1, <4>2, <4>3 DEF PlanTyped, DraftInv, MoverInv
      <3>4. subject = "plans" => Plan!PlanTellsTruth
        BY <3>1 DEF Plan!PlanTellsTruth
      <3> QED BY <3>3, <3>4 DEF PlanInv
    <2> QED BY <2>1, <2>3, <2>4 DEF RulesInv, Rule!NoRuleIsLost, Plan!NoRuleIsLost
  <1>2. RulesInv /\ [PanelNext]_AllVars => RulesInv'
    <2> SUFFICES ASSUME RulesInv, [PanelNext]_AllVars PROVE RulesInv'
      OBVIOUS
    <2>1. /\ subject' = subject
          /\ \/ subject = "templates" /\ Rule!TemplateNext
             \/ subject = "plans" /\ Plan!RuleNext
             \/ UNCHANGED ruleVars
      BY DEF AllVars, PanelNext, VideoMoves, PanelMoves, LimitMoves, HttpsMoves, ShopMoves,
             ChatMoves, DocumentMoves, RuleMoves, LandingMoves
    <2>2. CASE subject = "templates" /\ Rule!TemplateNext
      BY <2>1, <2>2, TemplateStep DEF RulesInv
    <2>3. CASE subject = "plans" /\ Plan!TemplateNext
      <3>1. UNCHANGED <<profile, draft, plan, mover, mine>>
        BY <2>3 DEF Plan!TemplateNext, Plan!AddRule, Plan!DeleteRule, Plan!ApplyPack, Plan!Replace,
                    Plan!Saves, Plan!Open
      <3>2. PlanInv'
        BY <2>3, <3>1 DEF RulesInv, PlanInv, PlanTyped, DraftInv, MoverInv, Plan!PlanTellsTruth
      <3> QED BY <2>1, <2>3, <3>2, TemplateStepBesidePlans DEF RulesInv
    <2>4. CASE subject = "plans" /\ Plan!PlanNext
      <3>1. PlanInv' /\ UNCHANGED <<template, form, owed>>
        BY <2>4, PlanStep, RulesAssumption DEF RulesInv
      <3> QED BY <2>1, <2>4, <3>1 DEF RulesInv, Plan!NoRuleIsLost, Plan!ToSet
    <2>5. CASE UNCHANGED ruleVars
      <3>1. subject = "plans" => PlanInv'
        BY <2>5 DEF ruleVars, RulesInv, PlanInv, PlanTyped, DraftInv, MoverInv, Plan!PlanTellsTruth
      <3> QED BY <2>1, <2>5, <3>1
              DEF ruleVars, RulesInv, Rule!NoRuleIsLost, Rule!ToSet, Plan!NoRuleIsLost, Plan!ToSet
    <2> QED BY <2>1, <2>2, <2>3, <2>4, <2>5 DEF Plan!RuleNext
  <1>3. RulesInv => RulesAreKept
    BY DEF RulesInv, RulesAreKept, PlanInv
  <1> QED BY <1>1, <1>2, <1>3, PTL DEF PanelSpec, AllVars
-----------------------------------------------------------------------------
(* Residential exits.  While a request may still restore an account, it      *)
(* holds the lock, and no node is changed under what it restores.            *)

LandingNode(entry) ==
    /\ entry = [at |-> entry.at, enabled |-> entry.enabled, health |-> entry.health]
    /\ entry.enabled \in BOOLEAN /\ (entry.enabled => entry.at # Nobody)
LandingFields(cfg) ==
    cfg = [active |-> cfg.active, allowed |-> cfg.allowed, selected |-> cfg.selected,
           changed |-> cfg.changed]
LandingRequest(req) ==
    req = [pc |-> req.pc, owner |-> req.owner, node |-> req.node, page |-> req.page,
           seen |-> req.seen, list |-> req.list, undo |-> req.undo]
Real(cfg) ==
    cfg # Nobody => /\ LandingFields(cfg) /\ cfg.allowed \subseteq Nodes
                    /\ \A n \in cfg.allowed : registry[n].at # Nobody
                    /\ cfg.selected \in cfg.allowed \cup {Nobody}

LandingFiles ==
    /\ owner = [u \in Owners |-> owner[u]] /\ \A u \in Owners : Real(owner[u])
    /\ registry = [n \in Nodes |-> registry[n]] /\ \A n \in Nodes : LandingNode(registry[n])
Undos == \A p \in Operators :
    op[p].pc \in {"sync", "restore"} /\ op[p].owner \in Owners => Real(op[p].undo)
Probed == \A p \in Operators : op[p].pc = "choose" =>
              [by |-> p, node |-> op[p].node, at |-> op[p].seen.at] \in good
LandingTyped ==
    /\ op = [p \in Operators |-> op[p]] /\ \A p \in Operators : LandingRequest(op[p])
    /\ chosen = [u \in Owners |-> chosen[u]]
LandingInv ==
    /\ LandingTyped /\ LandingFiles /\ Undos /\ Probed
    /\ Landing!SelectionIsProbed /\ Landing!RoutesFollowFiles

Holding == {"sync", "restore", "resync", "settle"}
LEMMA LockedBySome == Landing!Locked <=> \E p \in Operators : op[p].pc \in Holding
  BY DEF Landing!Locked, Holding

\* A request that goes somewhere, and nothing else of the requests.
LEMMA RequestGoes ==
  ASSUME LandingTyped, NEW p \in Operators, NEW new, LandingRequest(new),
         op' = [op EXCEPT ![p] = new]
  PROVE  /\ op'[p] = new /\ \A q \in Operators \ {p} : op'[q] = op[q]
         /\ op' = [q \in Operators |-> op'[q]] /\ \A q \in Operators : LandingRequest(op'[q])
  BY DEF LandingTyped

LEMMA Goings ==
  ASSUME LandingTyped, NEW p \in Operators, NEW pc
  PROVE  LET new == [op[p] EXCEPT !.pc = pc]
         IN /\ LandingRequest(new) /\ new.pc = pc /\ new.node = op[p].node
            /\ new.seen = op[p].seen /\ new.undo = op[p].undo /\ new.owner = op[p].owner
  <1> DEFINE new == [op[p] EXCEPT !.pc = pc]
  <1>1. new = [pc |-> pc, owner |-> op[p].owner, node |-> op[p].node, page |-> op[p].page,
               seen |-> op[p].seen, list |-> op[p].list, undo |-> op[p].undo]
    BY DEF LandingTyped, LandingRequest
  <1> QED BY <1>1 DEF LandingRequest

LEMMA Goes ==
  ASSUME LandingTyped, NEW p \in Operators, NEW pc, Landing!Goes(p, pc)
  PROVE  /\ op'[p].pc = pc /\ op'[p].node = op[p].node /\ op'[p].seen = op[p].seen
         /\ op'[p].undo = op[p].undo /\ op'[p].owner = op[p].owner
         /\ \A q \in Operators \ {p} : op'[q] = op[q]
         /\ op' = [q \in Operators |-> op'[q]] /\ \A q \in Operators : LandingRequest(op'[q])
  <1> DEFINE new == [op[p] EXCEPT !.pc = pc]
  <1>1. /\ LandingRequest(new) /\ new.pc = pc /\ new.node = op[p].node
        /\ new.seen = op[p].seen /\ new.undo = op[p].undo /\ new.owner = op[p].owner
    BY Goings
  <1>2. op' = [op EXCEPT ![p] = new]
    BY DEF Landing!Goes
  <1> HIDE DEF new
  <1> QED BY <1>1, <1>2, RequestGoes

LEMMA Ends ==
  ASSUME LandingTyped, NEW p \in Operators, Landing!Done(p)
  PROVE  /\ op'[p].pc = "idle"
         /\ \A q \in Operators \ {p} : op'[q] = op[q]
         /\ op' = [q \in Operators |-> op'[q]] /\ \A q \in Operators : LandingRequest(op'[q])
  <1>1. LandingRequest(Landing!Waiting) /\ Landing!Waiting.pc = "idle"
    BY DEF LandingRequest, Landing!Waiting
  <1> QED BY <1>1, RequestGoes DEF Landing!Done

\* Steps that leave the files alone.
LEMMA FilesStay ==
  ASSUME LandingInv, UNCHANGED <<owner, registry, chosen>>, NEW p \in Operators,
         \A q \in Operators \ {p} : op'[q] = op[q],
         op' = [q \in Operators |-> op'[q]], \A q \in Operators : LandingRequest(op'[q]),
         good \subseteq good',
         op'[p].pc \in {"sync", "restore"} /\ op'[p].owner \in Owners => Real(op'[p].undo),
         op'[p].pc = "choose" => [by |-> p, node |-> op'[p].node, at |-> op'[p].seen.at] \in good',
         \/ UNCHANGED route /\ ((op[p].pc \in Holding <=> op'[p].pc \in Holding) \/ op'[p].pc \in Holding)
            /\ (behind => behind')
         \/ route' = Landing!Plan
         \/ behind' = TRUE
  PROVE  LandingInv'
  <1>1. LandingTyped' /\ LandingFiles' /\ Undos' /\ Probed'
    BY DEF LandingInv, LandingTyped, LandingFiles, Undos, Probed, Real
  <1>2. Landing!SelectionIsProbed'
    BY DEF LandingInv, Landing!SelectionIsProbed
  <1>3. Landing!Plan' = Landing!Plan
    BY DEF Landing!Plan, Landing!There, Landing!Usable
  <1>4. Landing!RoutesFollowFiles'
    <2>1. Landing!Locked' <=> \E q \in Operators : op'[q].pc \in Holding
      BY DEF Landing!Locked, Holding
    <2> QED BY <1>3, <2>1, LockedBySome DEF LandingInv, Landing!RoutesFollowFiles
  <1> QED BY <1>1, <1>2, <1>4 DEF LandingInv
\* An account is written, by a request that may have to restore it.
LEMMA AccountStep ==
  ASSUME LandingInv, NEW p \in Operators, NEW u, NEW cfg, u \in Owners => Real(cfg),
         owner' = [owner EXCEPT ![u] = cfg], UNCHANGED <<registry, good>>,
         \A q \in Operators \ {p} : op'[q] = op[q],
         op' = [q \in Operators |-> op'[q]], \A q \in Operators : LandingRequest(op'[q]),
         op'[p].pc \in {"sync", "resync"},
         op'[p].pc = "sync" /\ op'[p].owner \in Owners => Real(op'[p].undo),
         chosen' = [v \in Owners |-> chosen'[v]],
         \A v \in Owners : chosen'[v] # Nobody => chosen'[v] \in good
  PROVE  LandingInv'
  <1>1. owner' = [v \in Owners |-> owner'[v]] /\ \A v \in Owners : Real(owner'[v])
    BY DEF LandingInv, LandingFiles
  <1>2. LandingFiles'
    BY <1>1 DEF LandingInv, LandingFiles, Real
  <1>3. Undos' /\ Probed' /\ LandingTyped'
    BY DEF LandingInv, Undos, Probed, LandingTyped, Real
  <1>4. Landing!Locked'
    BY DEF Landing!Locked
  <1> QED BY <1>2, <1>3, <1>4
          DEF LandingInv, Landing!SelectionIsProbed, Landing!RoutesFollowFiles

\* A node is written, while nobody holds the lock.
LEMMA NodeStep ==
  ASSUME LandingInv, ~Landing!Locked, NEW p \in Operators, NEW n \in Nodes, NEW entry,
         LandingNode(entry), registry' = [registry EXCEPT ![n] = entry],
         \/ entry.at # Nobody
         \/ entry.at = registry[n].at
         \/ \A u \in Owners : owner[u] # Nobody => n \notin owner[u].allowed,
         UNCHANGED <<owner, chosen, good>>,
         \A q \in Operators \ {p} : op'[q] = op[q],
         op' = [q \in Operators |-> op'[q]], \A q \in Operators : LandingRequest(op'[q]),
         \/ op'[p].pc = "settle"
         \/ /\ op'[p].pc = "idle" /\ UNCHANGED <<route, behind>>
            /\ entry.at = registry[n].at /\ entry.enabled = registry[n].enabled
  PROVE  LandingInv'
  <1>1. /\ registry' = [m \in Nodes |-> registry'[m]] /\ registry'[n] = entry
        /\ \A m \in Nodes \ {n} : registry'[m] = registry[m]
    BY DEF LandingInv, LandingFiles
  <1>2. \A u \in Owners : Real(owner[u])'
    BY <1>1 DEF LandingInv, LandingFiles, Real
  <1>3. LandingFiles'
    BY <1>1, <1>2 DEF LandingInv, LandingFiles
  <1>4. \A q \in Operators : op'[q].pc \notin {"sync", "restore"}
    BY DEF Landing!Locked
  <1>5. Undos' /\ Probed' /\ LandingTyped' /\ Landing!SelectionIsProbed'
    BY <1>4 DEF LandingInv, Undos, Probed, LandingTyped, Landing!SelectionIsProbed
  <1>6. Landing!RoutesFollowFiles'
    <2>1. CASE op'[p].pc = "settle"
      BY <2>1 DEF Landing!RoutesFollowFiles, Landing!Locked
    <2>2. CASE op'[p].pc = "idle" /\ UNCHANGED <<route, behind>>
               /\ entry.at = registry[n].at /\ entry.enabled = registry[n].enabled
      <3>1. /\ \A m \in Nodes : /\ Landing!There(m)' <=> Landing!There(m)
                                /\ registry'[m].at = registry[m].at
                                /\ registry'[m].enabled = registry[m].enabled
        BY <1>1, <2>2 DEF Landing!There
      <3>2. ASSUME NEW u \in Owners PROVE Landing!Plan'[u] = Landing!Plan[u]
        <4>1. owner' = owner /\ (owner[u] = Nobody \/ owner[u].allowed \subseteq Nodes)
          BY DEF LandingInv, LandingFiles, Real
        <4> QED BY <3>1, <4>1 DEF Landing!Plan, Landing!There, Landing!Usable
      <3>3. Landing!Plan' = Landing!Plan
        BY <3>2 DEF Landing!Plan
      <3> QED BY <2>2, <3>3 DEF LandingInv, Landing!RoutesFollowFiles
    <2> QED BY <2>1, <2>2
  <1> QED BY <1>3, <1>5, <1>6 DEF LandingInv

LEMMA Opens ==
  ASSUME LandingInv, NEW p \in Operators, NEW u \in Owners, Landing!Open(p, u)
  PROVE  LandingInv'
  <1> DEFINE new == [Landing!Waiting EXCEPT !.pc = "open", !.owner = u,
                                            !.page = owner[u], !.list = registry]
  <1>1. LandingRequest(new) /\ new.pc = "open"
    <2>1. new = [pc |-> "open", owner |-> u, node |-> Nobody, page |-> owner[u],
                 seen |-> Landing!Missing, list |-> registry, undo |-> Landing!Newcomer]
      <3> DEFINE one == [Landing!Waiting EXCEPT !.pc = "open"]
                 two == [one EXCEPT !.owner = u]
                 three == [two EXCEPT !.page = owner[u]]
      <3>1. new = [three EXCEPT !.list = registry]
        OBVIOUS
      <3>2. one = [pc |-> "open", owner |-> Nobody, node |-> Nobody, page |-> Landing!Newcomer,
                   seen |-> Landing!Missing, list |-> <<>>, undo |-> Landing!Newcomer]
        BY DEF Landing!Waiting
      <3> HIDE DEF one
      <3>3. two = [pc |-> "open", owner |-> u, node |-> Nobody, page |-> Landing!Newcomer,
                   seen |-> Landing!Missing, list |-> <<>>, undo |-> Landing!Newcomer]
        BY <3>2
      <3> HIDE DEF two
      <3>4. three = [pc |-> "open", owner |-> u, node |-> Nobody, page |-> owner[u],
                     seen |-> Landing!Missing, list |-> <<>>, undo |-> Landing!Newcomer]
        BY <3>3
      <3> HIDE DEF three, new
      <3> QED BY <3>1, <3>4
    <2> HIDE DEF new
    <2> QED BY <2>1 DEF LandingRequest
  <1>2. /\ op' = [op EXCEPT ![p] = new] /\ op[p].pc = "idle"
        /\ UNCHANGED <<owner, registry, route, good, chosen, behind>>
    BY DEF Landing!Open, Landing!Files, Landing!History
  <1> HIDE DEF new
  <1>3. /\ op'[p] = new /\ \A q \in Operators \ {p} : op'[q] = op[q]
        /\ op' = [q \in Operators |-> op'[q]] /\ \A q \in Operators : LandingRequest(op'[q])
    BY <1>1, <1>2, RequestGoes DEF LandingInv
  <1> QED BY <1>1, <1>2, <1>3, FilesStay DEF Holding

LEMMA Looks ==
  ASSUME LandingInv, NEW p \in Operators, NEW n \in Nodes, NEW pc \in {"probe", "note"},
         Landing!Look(p, n, pc)
  PROVE  LandingInv'
  <1> DEFINE new == [op[p] EXCEPT !.pc = pc, !.node = n, !.seen = registry[n]]
  <1>1. LandingRequest(new) /\ new.pc = pc
    <2>1. op[p] = [pc |-> op[p].pc, owner |-> op[p].owner, node |-> op[p].node, page |-> op[p].page,
                   seen |-> op[p].seen, list |-> op[p].list, undo |-> op[p].undo]
      BY DEF LandingInv, LandingTyped, LandingRequest
    <2>2. new = [pc |-> pc, owner |-> op[p].owner, node |-> n, page |-> op[p].page,
                 seen |-> registry[n], list |-> op[p].list, undo |-> op[p].undo]
      <3> DEFINE one == [op[p] EXCEPT !.pc = pc]  two == [one EXCEPT !.node = n]
      <3>1. new = [two EXCEPT !.seen = registry[n]]
        OBVIOUS
      <3>2. one = [pc |-> pc, owner |-> op[p].owner, node |-> op[p].node, page |-> op[p].page,
                   seen |-> op[p].seen, list |-> op[p].list, undo |-> op[p].undo]
        BY <2>1
      <3> HIDE DEF one
      <3>3. two = [pc |-> pc, owner |-> op[p].owner, node |-> n, page |-> op[p].page,
                   seen |-> op[p].seen, list |-> op[p].list, undo |-> op[p].undo]
        BY <3>2
      <3> HIDE DEF two, new
      <3> QED BY <3>1, <3>3
    <2> QED BY <2>2 DEF LandingRequest
  <1>2. /\ op' = [op EXCEPT ![p] = new] /\ op[p].pc = "open"
        /\ UNCHANGED <<owner, registry, route, good, chosen, behind>>
    BY DEF Landing!Look, Landing!Files, Landing!History, LandingInv, LandingTyped
  <1> HIDE DEF new
  <1>3. /\ op'[p] = new /\ \A q \in Operators \ {p} : op'[q] = op[q]
        /\ op' = [q \in Operators |-> op'[q]] /\ \A q \in Operators : LandingRequest(op'[q])
    BY <1>1, <1>2, RequestGoes DEF LandingInv
  <1> QED BY <1>1, <1>2, <1>3, FilesStay DEF Holding

LEMMA Probes == ASSUME LandingInv, NEW p \in Operators, Landing!Probe(p) PROVE LandingInv'
  <1>1. op[p].pc = "probe" /\ UNCHANGED <<owner, registry, route, chosen, behind>> /\ LandingTyped
    BY DEF Landing!Probe, Landing!Files, LandingInv
  <1>2. CASE Landing!Goes(p, "choose")
             /\ good' = good \cup {[by |-> p, node |-> op[p].node, at |-> op[p].seen.at]}
    <2>1. /\ op'[p].pc = "choose" /\ op'[p].node = op[p].node /\ op'[p].seen = op[p].seen
          /\ \A q \in Operators \ {p} : op'[q] = op[q]
          /\ op' = [q \in Operators |-> op'[q]] /\ \A q \in Operators : LandingRequest(op'[q])
      BY <1>1, <1>2, Goes
    <2> QED BY <1>1, <1>2, <2>1, FilesStay DEF Holding
  <1>3. CASE Landing!Done(p) /\ UNCHANGED good
    BY <1>1, <1>3, Ends, FilesStay DEF Holding
  <1> QED BY <1>2, <1>3 DEF Landing!Probe

LEMMA Syncs ==
  ASSUME LandingInv, NEW p \in Operators, Landing!Sync(p) \/ Landing!Settle(p)
  PROVE  LandingInv'
  <1>1. op[p].pc \in Holding /\ UNCHANGED <<owner, registry, good, chosen>> /\ LandingTyped
    BY DEF Landing!Sync, Landing!Settle, Landing!Files, Landing!History, LandingInv, Holding
  <1>2. CASE Landing!Done(p)
    BY <1>1, <1>2, Ends, FilesStay DEF Landing!Sync, Landing!Settle
  <1>3. CASE Landing!Goes(p, "restore") /\ behind' = TRUE /\ op[p].pc = "sync"
    <2>1. op[p].owner \in Owners => Real(op[p].undo)
      BY <1>3 DEF LandingInv, Undos
    <2>2. /\ op'[p].pc = "restore" /\ op'[p].undo = op[p].undo /\ op'[p].owner = op[p].owner
          /\ \A q \in Operators \ {p} : op'[q] = op[q]
          /\ op' = [q \in Operators |-> op'[q]] /\ \A q \in Operators : LandingRequest(op'[q])
      BY <1>1, <1>3, Goes
    <2> QED BY <1>1, <1>3, <2>1, <2>2, FilesStay
  <1> QED BY <1>2, <1>3 DEF Landing!Sync, Landing!Settle

LEMMA Deaths == ASSUME LandingInv, NEW p \in Operators, Landing!Dies(p) PROVE LandingInv'
  <1>1. /\ Landing!Done(p) /\ UNCHANGED <<owner, registry, good, chosen, route>> /\ LandingTyped
        /\ behind' = (behind \/ op[p].pc \in Holding)
    BY DEF Landing!Dies, Landing!Files, Landing!History, LandingInv, Holding
  <1>2. CASE op[p].pc \in Holding
    BY <1>1, <1>2, Ends, FilesStay
  <1>3. CASE op[p].pc \notin Holding
    <2>1. behind => behind'
      BY <1>1
    <2> QED BY <1>1, <1>3, <2>1, Ends, FilesStay DEF Holding
  <1> QED BY <1>2, <1>3
LEMMA Records == ASSUME LandingInv, NEW p \in Operators, Landing!Record(p) PROVE LandingInv'
  <1>1. op[p].pc = "note" /\ ~Landing!Locked /\ Landing!Done(p) /\ LandingTyped
        /\ UNCHANGED <<owner, route, good, chosen, behind>>
    BY DEF Landing!Record, Landing!History, LandingInv
  <1>2. ASSUME UNCHANGED registry PROVE LandingInv'
    BY <1>1, <1>2, Ends, FilesStay DEF Holding
  <1>3. ASSUME op[p].node \in Nodes,
               registry' = [registry EXCEPT ![op[p].node].health = stamp']
        PROVE  LandingInv'
    <2> DEFINE n == op[p].node  entry == [registry[n] EXCEPT !.health = stamp']
    <2>1. registry' = [registry EXCEPT ![n] = entry]
      BY <1>3
    <2>2. LandingNode(registry[n])
      BY <1>3 DEF LandingInv, LandingFiles
    <2>3. entry = [at |-> registry[n].at, enabled |-> registry[n].enabled, health |-> stamp']
      BY <2>2 DEF LandingNode
    <2>4. LandingNode(entry) /\ entry.at = registry[n].at /\ entry.enabled = registry[n].enabled
      BY <2>2, <2>3 DEF LandingNode
    <2> HIDE DEF n, entry
    <2>5. n \in Nodes
      BY <1>3 DEF n
    <2> QED BY <1>1, <2>1, <2>4, <2>5, Ends, NodeStep
  <1>4. ASSUME op[p].node \notin Nodes,
               registry' = [registry EXCEPT ![op[p].node].health = stamp']
        PROVE  LandingInv'
    <2>1. registry' = registry
      BY <1>4 DEF LandingInv, LandingFiles
    <2> QED BY <1>2, <2>1
  <1> QED BY <1>2, <1>3, <1>4 DEF Landing!Record

\* The request that saved an account waits for the configuration.
LEMMA Saving ==
  ASSUME LandingInv, NEW p \in Operators, NEW u, NEW cfg, u \in Owners => Real(cfg), op[p].owner = u,
         Landing!Saves(p, u, cfg), UNCHANGED <<registry, good>>,
         chosen' = [v \in Owners |-> chosen'[v]],
         \A v \in Owners : chosen'[v] # Nobody => chosen'[v] \in good
  PROVE  LandingInv'
  <1> DEFINE new == [op[p] EXCEPT !.pc = "sync", !.undo = owner[u]]
  <1>1. LandingRequest(new) /\ new.pc = "sync" /\ new.undo = owner[u] /\ new.owner = u
    <2> DEFINE one == [op[p] EXCEPT !.pc = "sync"]
    <2>1. LandingRequest(one) /\ one.pc = "sync" /\ one.owner = u
      BY Goings DEF LandingInv
    <2>2. new = [one EXCEPT !.undo = owner[u]]
      BY DEF LandingInv, LandingTyped, LandingRequest
    <2> HIDE DEF one, new
    <2>3. new = [pc |-> "sync", owner |-> one.owner, node |-> one.node, page |-> one.page,
                 seen |-> one.seen, list |-> one.list, undo |-> owner[u]]
      BY <2>1, <2>2 DEF LandingRequest
    <2> QED BY <2>1, <2>3 DEF LandingRequest
  <1>2. op' = [op EXCEPT ![p] = new] /\ owner' = [owner EXCEPT ![u] = cfg]
    BY DEF Landing!Saves, LandingInv, LandingTyped
  <1> HIDE DEF new
  <1>3. /\ op'[p] = new /\ \A q \in Operators \ {p} : op'[q] = op[q]
        /\ op' = [q \in Operators |-> op'[q]] /\ \A q \in Operators : LandingRequest(op'[q])
    BY <1>1, <1>2, RequestGoes DEF LandingInv
  <1>4. op'[p].owner \in Owners => Real(op'[p].undo)
    BY <1>1, <1>3 DEF LandingInv, LandingFiles
  <1> QED BY <1>1, <1>2, <1>3, <1>4, AccountStep

LEMMA Choices ==
  ASSUME LandingInv, NEW p \in Operators, Landing!Choose(p)
  PROVE  LandingInv'
  <1> DEFINE u == op[p].owner  n == op[p].node
  <1>1. op[p].pc = "choose" /\ UNCHANGED <<registry, route, good, behind>>
    BY DEF Landing!Choose
  <1>2. ASSUME Landing!Current(p), Landing!MayChoose(u, n), Landing!Unchanged(p),
               Landing!Saves(p, u, [owner[u] EXCEPT !.selected = n, !.changed = stamp']),
               chosen' = [chosen EXCEPT ![u] = [by |-> p, node |-> n, at |-> registry[n].at]]
        PROVE  LandingInv'
    <2> DEFINE cfg == [owner[u] EXCEPT !.selected = n, !.changed = stamp']
               one == [owner[u] EXCEPT !.selected = n]
    <2>1. u \in Owners => Real(owner[u]) /\ owner[u] # Nobody /\ n \in owner[u].allowed
      BY <1>2 DEF LandingInv, LandingFiles, Landing!MayChoose
    <2>2. cfg = [one EXCEPT !.changed = stamp']
      OBVIOUS
    <2>3. u \in Owners => one = [active |-> owner[u].active, allowed |-> owner[u].allowed, selected |-> n,
                 changed |-> owner[u].changed]
      BY <2>1 DEF Real, LandingFields
    <2> HIDE DEF one
    <2>4. u \in Owners => cfg = [active |-> owner[u].active, allowed |-> owner[u].allowed, selected |-> n,
                 changed |-> stamp']
      BY <2>2, <2>3
    <2>5. u \in Owners => Real(cfg)
      BY <2>1, <2>4 DEF Real, LandingFields
    <2>6. [by |-> p, node |-> n, at |-> registry[n].at] \in good
      BY <1>1, <1>2 DEF LandingInv, Probed, Landing!Unchanged
    <2>7. /\ chosen' = [v \in Owners |-> chosen'[v]]
          /\ \A v \in Owners : chosen'[v] # Nobody => chosen'[v] \in good
      BY <1>2, <2>6 DEF LandingInv, LandingTyped, Landing!SelectionIsProbed
    <2>8. op[p].owner = u
      OBVIOUS
    <2> HIDE DEF cfg, u
    <2> QED BY <1>1, <1>2, <2>5, <2>7, <2>8, Saving DEF cfg
  <1>3. ASSUME Landing!Done(p), UNCHANGED <<owner, stamp, chosen>> PROVE LandingInv'
    <2>1. LandingTyped
      BY DEF LandingInv
    <2> QED BY <1>1, <1>3, <2>1, Ends, FilesStay DEF Holding
  <1> QED BY <1>2, <1>3 DEF Landing!Choose
LEMMA Grants ==
  ASSUME LandingInv, NEW p \in Operators, NEW nodes \in SUBSET Nodes, Landing!Grant(p, nodes)
  PROVE  LandingInv'
  <1> DEFINE u == op[p].owner
             choice == IF owner[u].selected \in nodes THEN owner[u].selected ELSE Nobody
             one == [owner[u] EXCEPT !.allowed = nodes]
             cfg == [owner[u] EXCEPT !.allowed = nodes,
                         !.selected = IF @ \in nodes THEN @ ELSE Nobody]
  <1>1. /\ Landing!Saves(p, u, cfg) /\ UNCHANGED <<registry, good, chosen>>
        /\ \A n \in nodes : Landing!Usable(n)
    BY DEF Landing!Grant, Landing!History
  <1>2. \A n \in nodes : registry[n].at # Nobody
    BY <1>1 DEF LandingInv, LandingFiles, LandingNode, Landing!Usable
  <1>3. ASSUME u \in Owners PROVE Real(cfg)
    <2>1. Real(owner[u])
      BY <1>3 DEF LandingInv, LandingFiles
    <2>2. owner[u] # Nobody
      BY DEF Landing!Grant
    <2>3. QED
      <3>1. one = [active |-> owner[u].active, allowed |-> nodes, selected |-> owner[u].selected,
                   changed |-> owner[u].changed]
        BY <2>1, <2>2 DEF Real, LandingFields
      <3>2. cfg = [one EXCEPT !.selected = choice]
        BY <2>1, <2>2 DEF Real, LandingFields
      <3> HIDE DEF one, cfg
      <3>3. cfg = [active |-> owner[u].active, allowed |-> nodes, selected |-> choice,
                   changed |-> owner[u].changed]
        BY <3>1, <3>2
      <3> QED BY <1>2, <3>3 DEF Real, LandingFields
  <1>4. /\ chosen' = [v \in Owners |-> chosen'[v]]
        /\ \A v \in Owners : chosen'[v] # Nobody => chosen'[v] \in good
    BY <1>1 DEF LandingInv, LandingTyped, Landing!SelectionIsProbed
  <1>5. op[p].owner = u
    OBVIOUS
  <1> HIDE DEF u, cfg
  <1> QED BY <1>1, <1>3, <1>4, <1>5, Saving

LEMMA Creations ==
  ASSUME LandingInv, NEW p \in Operators, NEW u \in Owners, NEW nodes \in SUBSET Nodes,
         Landing!Create(p, u, nodes)
  PROVE  LandingInv'
  <1> DEFINE choice == IF nodes = {} THEN Nobody ELSE CHOOSE n \in nodes : TRUE
             one == [Landing!Newcomer EXCEPT !.allowed = nodes]
             cfg == [Landing!Newcomer EXCEPT !.allowed = nodes, !.selected = choice]
             two == [Landing!Waiting EXCEPT !.pc = "sync"]
             three == [two EXCEPT !.owner = u]
             new == [Landing!Waiting EXCEPT !.pc = "sync", !.owner = u, !.undo = Nobody]
  <1>1. /\ owner' = [owner EXCEPT ![u] = cfg] /\ op' = [op EXCEPT ![p] = new]
        /\ UNCHANGED <<registry, good, chosen>> /\ \A n \in nodes : Landing!Usable(n)
    BY DEF Landing!Create, Landing!History
  <1>2. \A n \in nodes : registry[n].at # Nobody
    BY <1>1 DEF LandingInv, LandingFiles, LandingNode, Landing!Usable
  <1>3. cfg = [active |-> Landing!Newcomer.active, allowed |-> nodes, selected |-> choice,
               changed |-> Landing!Newcomer.changed]
    <2>1. LandingFields(Landing!Newcomer)
      BY DEF LandingFields, Landing!Newcomer
    <2>2. one = [active |-> Landing!Newcomer.active, allowed |-> nodes,
                 selected |-> Landing!Newcomer.selected, changed |-> Landing!Newcomer.changed]
      <3> HIDE DEF cfg, choice, two, new
      <3> QED BY <2>1 DEF LandingFields
    <2>3. cfg = [one EXCEPT !.selected = choice]
      BY <2>1 DEF LandingFields
    <2> HIDE DEF one, cfg, choice
    <2> QED BY <2>2, <2>3
  <1>4. choice \in nodes \cup {Nobody}
    OBVIOUS
  <1>5. LandingRequest(new) /\ new.pc = "sync" /\ new.undo = Nobody
    <2>1. two = [pc |-> "sync", owner |-> Nobody, node |-> Nobody, page |-> Landing!Newcomer,
                 seen |-> Landing!Missing, list |-> <<>>, undo |-> Landing!Newcomer]
      BY DEF Landing!Waiting
    <2>2. new = [three EXCEPT !.undo = Nobody]
      OBVIOUS
    <2> HIDE DEF two, new
    <2>3. three = [pc |-> "sync", owner |-> u, node |-> Nobody, page |-> Landing!Newcomer,
                   seen |-> Landing!Missing, list |-> <<>>, undo |-> Landing!Newcomer]
      BY <2>1
    <2> HIDE DEF three
    <2>4. new = [pc |-> "sync", owner |-> u, node |-> Nobody, page |-> Landing!Newcomer,
                   seen |-> Landing!Missing, list |-> <<>>, undo |-> Nobody]
      BY <2>2, <2>3
    <2> QED BY <2>4 DEF LandingRequest
  <1> HIDE DEF cfg, choice, new
  <1>6. Real(cfg)
    BY <1>2, <1>3, <1>4 DEF Real, LandingFields
  <1>7. /\ op'[p] = new /\ \A q \in Operators \ {p} : op'[q] = op[q]
        /\ op' = [q \in Operators |-> op'[q]] /\ \A q \in Operators : LandingRequest(op'[q])
    BY <1>1, <1>5, RequestGoes DEF LandingInv
  <1>8. Real(op'[p].undo)
    BY <1>5, <1>7 DEF Real
  <1>9. /\ chosen' = [v \in Owners |-> chosen'[v]]
        /\ \A v \in Owners : chosen'[v] # Nobody => chosen'[v] \in good
    BY <1>1 DEF LandingInv, LandingTyped, Landing!SelectionIsProbed
  <1> QED BY <1>1, <1>5, <1>6, <1>7, <1>8, <1>9, AccountStep

LEMMA Restorations == ASSUME LandingInv, NEW p \in Operators, Landing!Restore(p) PROVE LandingInv'
  <1>1. /\ op[p].pc = "restore" /\ Landing!Goes(p, "resync") /\ UNCHANGED <<registry, good>>
        /\ owner' = [owner EXCEPT ![op[p].owner] = op[p].undo]
        /\ chosen' = [chosen EXCEPT ![op[p].owner] = Nobody]
    BY DEF Landing!Restore
  <1>2. op[p].owner \in Owners => Real(op[p].undo)
    BY <1>1 DEF LandingInv, Undos
  <1>3. /\ op'[p].pc = "resync"
        /\ \A q \in Operators \ {p} : op'[q] = op[q]
        /\ op' = [q \in Operators |-> op'[q]] /\ \A q \in Operators : LandingRequest(op'[q])
    BY <1>1, Goes DEF LandingInv
  <1>4. /\ chosen' = [v \in Owners |-> chosen'[v]]
        /\ \A v \in Owners : chosen'[v] # Nobody => chosen'[v] \in good
    BY <1>1 DEF LandingInv, LandingTyped, Landing!SelectionIsProbed
  <1> QED BY <1>1, <1>2, <1>3, <1>4, AccountStep
LEMMA Settings ==
  ASSUME LandingInv, NEW p \in Operators, NEW n \in Nodes,
         \/ \E at \in Endpoints, enabled \in BOOLEAN : Landing!SaveNode(p, n, at, enabled)
         \/ Landing!DeleteNode(p, n)
  PROVE  LandingInv'
  <1>1. /\ ~Landing!Locked /\ Landing!Goes(p, "settle") /\ UNCHANGED <<owner, chosen, good>>
        /\ LandingTyped
    BY DEF Landing!SaveNode, Landing!DeleteNode, Landing!History, LandingInv
  <1>2. /\ op'[p].pc = "settle" /\ \A q \in Operators \ {p} : op'[q] = op[q]
        /\ op' = [q \in Operators |-> op'[q]] /\ \A q \in Operators : LandingRequest(op'[q])
    BY <1>1, Goes
  <1>3. ASSUME NEW at \in Endpoints, NEW enabled \in BOOLEAN, Landing!SaveNode(p, n, at, enabled)
        PROVE  LandingInv'
    <2> DEFINE one == [registry[n] EXCEPT !.at = at]
               entry == [one EXCEPT !.enabled = enabled]
    <2>1. LandingNode(registry[n])
      BY DEF LandingInv, LandingFiles
    <2>2. registry' = [registry EXCEPT ![n] = entry]
      <3>1. registry' = [registry EXCEPT ![n].at = at, ![n].enabled = enabled]
        BY <1>3 DEF Landing!SaveNode
      <3>2. registry = [m \in Nodes |-> registry[m]]
        BY DEF LandingInv, LandingFiles
      <3> QED BY <3>1, <3>2
    <2>3. one = [at |-> at, enabled |-> registry[n].enabled, health |-> registry[n].health]
      BY <2>1 DEF LandingNode
    <2> HIDE DEF one
    <2>4. entry = [at |-> at, enabled |-> enabled, health |-> registry[n].health]
      BY <2>3
    <2>5. LandingNode(entry) /\ entry.at # Nobody
      BY <2>4, LandingsAssumption DEF LandingNode
    <2> HIDE DEF entry
    <2> QED BY <1>1, <1>2, <2>2, <2>5, NodeStep
  <1>4. ASSUME Landing!DeleteNode(p, n) PROVE LandingInv'
    <2>1. LandingNode(Landing!Missing)
      BY DEF LandingNode, Landing!Missing
    <2>2. registry' = [registry EXCEPT ![n] = Landing!Missing]
      BY <1>4 DEF Landing!DeleteNode
    <2>3. \A u \in Owners : owner[u] # Nobody => n \notin owner[u].allowed
      BY <1>4 DEF Landing!DeleteNode, Landing!Referenced
    <2> QED BY <1>1, <1>2, <2>1, <2>2, <2>3, NodeStep
  <1> QED BY <1>3, <1>4

LEMMA OthersChangeAccounts ==
  ASSUME LandingInv, NEW u \in Owners, Landing!Others(u)
  PROVE  LandingInv'
  <1>1. /\ ~Landing!Locked /\ owner[u] # Nobody /\ behind' = TRUE /\ UNCHANGED <<registry, op, good>>
    BY DEF Landing!Others
  <1>2. PICK cfg : owner' = [owner EXCEPT ![u] = cfg] /\ Real(cfg)
    <2>1. CASE owner' = [owner EXCEPT ![u] = Nobody]
      BY <2>1 DEF Real
    <2>2. CASE owner' = [owner EXCEPT ![u].active = ~@]
      <3> DEFINE cfg == [owner[u] EXCEPT !.active = ~@]
      <3>1. Real(owner[u])
        BY DEF LandingInv, LandingFiles
      <3>2. cfg = [active |-> ~owner[u].active, allowed |-> owner[u].allowed,
                   selected |-> owner[u].selected, changed |-> owner[u].changed]
        BY <1>1, <3>1 DEF Real, LandingFields
      <3>3. owner' = [owner EXCEPT ![u] = cfg]
        BY <2>2
      <3> HIDE DEF cfg
      <3>4. Real(cfg)
        BY <1>1, <3>1, <3>2 DEF Real, LandingFields
      <3> QED BY <3>3, <3>4
    <2> QED BY <2>1, <2>2 DEF Landing!Others
  <1>3. /\ chosen' = [v \in Owners |-> chosen'[v]]
        /\ \A v \in Owners : chosen'[v] # Nobody => chosen'[v] \in good
    BY DEF Landing!Others, LandingInv, LandingTyped, Landing!SelectionIsProbed
  <1>4. owner' = [v \in Owners |-> owner'[v]] /\ \A v \in Owners : Real(owner'[v])
    BY <1>2 DEF LandingInv, LandingFiles
  <1>5. LandingFiles' /\ Undos' /\ Probed' /\ LandingTyped'
    BY <1>1, <1>3, <1>4 DEF LandingInv, LandingFiles, Real, Undos, Probed, LandingTyped
  <1> QED BY <1>1, <1>3, <1>5 DEF LandingInv, Landing!SelectionIsProbed, Landing!RoutesFollowFiles

LEMMA Polls == ASSUME LandingInv, Landing!Poll PROVE LandingInv'
  <1>1. UNCHANGED <<owner, registry, op, good, chosen>> /\ route' = Landing!Plan
    BY DEF Landing!Poll, Landing!Files, Landing!History
  <1>2. LandingFiles' /\ Undos' /\ Probed' /\ LandingTyped'
    BY <1>1 DEF LandingInv, LandingFiles, Real, Undos, Probed, LandingTyped
  <1>3. Landing!Plan' = Landing!Plan
    BY <1>1 DEF Landing!Plan, Landing!There, Landing!Usable
  <1> QED BY <1>1, <1>2, <1>3 DEF LandingInv, Landing!SelectionIsProbed, Landing!RoutesFollowFiles

LEMMA LandingStep == ASSUME LandingInv, Landing!LandingNext PROVE LandingInv'
  BY Opens, Looks, Probes, Records, Choices, Grants, Creations, Syncs, Restorations, Settings,
     OthersChangeAccounts, Polls, Deaths
     DEF Landing!LandingNext, Landing!Select, Landing!Check

LEMMA LandingsHold == PanelSpec => [](subject = "landings" => LandingInv)
  <1>1. PanelInit => LandingInv
    <2> SUFFICES ASSUME PanelInit PROVE LandingInv
      OBVIOUS
    <2>1. /\ owner \in [Owners -> {Landing!Newcomer}] /\ registry = [n \in Nodes |-> Landing!Missing]
          /\ route = [u \in Owners |-> Nobody] /\ op = [p \in Operators |-> Landing!Waiting]
          /\ chosen = [u \in Owners |-> Nobody]
      BY DEF PanelInit, Landing!LandingInit
    <2>2. LandingNode(Landing!Missing) /\ LandingRequest(Landing!Waiting) /\ Real(Landing!Newcomer)
      BY DEF LandingNode, Landing!Missing, LandingRequest, Landing!Waiting, Real, Landing!Newcomer,
             LandingFields
    <2>3. LandingTyped /\ LandingFiles
      BY <2>1, <2>2 DEF LandingTyped, LandingFiles
    <2>4. Undos /\ Probed /\ Landing!SelectionIsProbed
      BY <2>1 DEF Undos, Probed, Landing!SelectionIsProbed, Landing!Waiting
    <2>5. \A u \in Owners : owner[u].allowed = {}
      BY <2>1 DEF Landing!Newcomer
    <2>6. Landing!Plan = [u \in Owners |-> Nobody]
      BY <2>5 DEF Landing!Plan
    <2> QED BY <2>1, <2>3, <2>4, <2>6 DEF LandingInv, Landing!RoutesFollowFiles
  <1>2. (subject = "landings" => LandingInv) /\ [PanelNext]_AllVars => (subject = "landings" => LandingInv)'
    <2> SUFFICES ASSUME subject = "landings" => LandingInv, [PanelNext]_AllVars, subject' = "landings"
                 PROVE  LandingInv'
      OBVIOUS
    <2>1. subject = "landings" /\ (Landing!LandingNext \/ UNCHANGED landingVars)
      BY DEF AllVars, PanelNext, VideoMoves, PanelMoves, LimitMoves, HttpsMoves, ShopMoves,
             ChatMoves, DocumentMoves, RuleMoves, LandingMoves
    <2>2. CASE Landing!LandingNext
      BY <2>1, <2>2, LandingStep
    <2>3. CASE UNCHANGED landingVars
      <3>1. LandingTyped' /\ LandingFiles' /\ Undos' /\ Probed' /\ Landing!SelectionIsProbed'
        BY <2>1, <2>3 DEF landingVars, LandingInv, LandingFiles, Real, Undos, Probed, LandingTyped,
                          Landing!SelectionIsProbed
      <3>2. Landing!RoutesFollowFiles'
        BY <2>1, <2>3 DEF landingVars, LandingInv, Landing!RoutesFollowFiles, Landing!Plan,
                          Landing!Locked, Landing!There, Landing!Usable
      <3> QED BY <3>1, <3>2 DEF LandingInv
    <2> QED BY <2>1, <2>2, <2>3
  <1> QED BY <1>1, <1>2, PTL DEF PanelSpec, AllVars

\* An account may use nodes that are there and has chosen one of them or none, whoever
\* writes nodes and accounts meanwhile and whichever save fails (landing_write_routes.py),
\* and unless a synchronisation failed or is due the configuration sends it there.
THEOREM LandingsStayReal == PanelSpec => []LandingsAreReal
  <1>1. (subject = "landings" => LandingInv) => LandingsAreReal
    <2>1. LandingFiles => Landing!LandingsAreReal
      BY DEF LandingFiles, Real, Landing!LandingsAreReal, Landing!There
    <2> QED BY <2>1 DEF LandingsAreReal, LandingInv
  <1> QED BY <1>1, LandingsHold, PTL

\* An account's own choice meant the endpoint that answered the probe
\* (landing_write_routes.py, _select), not one written while the probe was under way.
THEOREM SelectionsAreProbed == PanelSpec => []SelectionIsProbed
  <1>1. (subject = "landings" => LandingInv) => SelectionIsProbed
    BY DEF SelectionIsProbed, LandingInv
  <1> QED BY <1>1, LandingsHold, PTL

-----------------------------------------------------------------------------
(* The switch to HTTPS.  A file is what it was before the activation, or the  *)
(* activation has replaced it and its manifest says so, or it belongs to      *)
(* somebody else; a rollback goes from the last replacement to the first.     *)

Ready == {"work", "moved", "certify", "stage", "probe", "mark", "complete"}
ScriptTyped ==
    script \in [pc : Ready \cup {"none", "entry", "restore", "reload", "unown", "drop", "renew",
                                 "unmark", "end", "make", "journal"},
                mode : {"activate", "recover", "boot"}, phase : {"recover", "work", "complete"},
                live : 0..Https!Last, at : 0..Https!Last, failed : BOOLEAN]
HttpsTyped ==
    /\ installed \in [Https!Artifact -> Int] /\ served \in [Https!Artifact -> Int]
    /\ nginx \in BOOLEAN /\ timer \in BOOLEAN /\ torn \in BOOLEAN
    /\ ledger \in [tx : Nat, state : {"active", "restored", "recovery-failed", "complete"},
                   done : 0..Https!Last, begun : BOOLEAN, original : [Https!Artifact -> Int]]
    /\ recovery \in {"none", "bare", "journaled"} /\ marker \in 0..ledger.tx
    /\ ScriptTyped

Of(files, others, i) == files[Https!Order[i]] \in {others[Https!Order[i]], Https!Foreign}
Steady(tx, files) == \A i \in 1..Https!Last : files[Https!Order[i]] \in {tx, Https!Foreign}
\* Activation tx is the one that is there, or none is.
Stands(tx) ==
    /\ Steady(tx, installed) /\ (nginx => Steady(tx, served))
    /\ tx > 0 => timer \/ marker # 0
Standing ==
    recovery # "journaled" \/ ledger.state = "complete" \/ Https!ScriptAt("drop") =>
        \E tx \in 0..ledger.tx : Stands(tx)
\* What the manifest keeps of the one before, activation tx.
KeepsOriginal(tx) ==
    /\ Steady(tx, ledger.original)
    /\ tx > 0 => timer \/ marker \in 1..(ledger.tx - 1)
Undoable ==
    recovery = "journaled" /\ ledger.state # "complete" =>
        /\ ledger.tx > 0
        /\ \E tx \in 0..(ledger.tx - 1) : KeepsOriginal(tx)
        /\ \A i \in 1..Https!Last : Of(installed, ledger.original, i)
                              \/ (Https!Touched(i) /\ installed[Https!Order[i]] = ledger.tx)
Working ==
    /\ script.pc \in Ready \cup {"restore", "reload", "unown"} =>
         recovery = "journaled" /\ ledger.state # "complete"
    /\ script.pc \in Ready =>
         \A i \in 1..ledger.done : installed[Https!Order[i]] \in {ledger.tx, Https!Foreign}
    /\ (Https!ScriptAt("moved") => ledger.begun) /\ (ledger.begun => ledger.done < Https!Last)
    /\ script.pc \in {"probe", "mark", "complete"} =>
         ledger.done = Https!Last /\ (nginx => Steady(ledger.tx, served))
    /\ (Https!ScriptAt("complete") => marker # 0) /\ (Https!ScriptAt("unmark") => timer)
    /\ (Https!ScriptAt("journal") => recovery = "bare")
Restoring ==
    /\ Https!ScriptAt("restore") /\ ~script.failed =>
         \A i \in 1..Https!Last : i > script.at => Of(installed, ledger.original, i)
    /\ Https!ScriptAt("restore") /\ script.at < Https!Last /\ ~torn => installed["panel"] # ledger.tx
    /\ script.pc \in {"reload", "unown"} => \A i \in 1..Https!Last : Of(installed, ledger.original, i)
    /\ Https!ScriptAt("unown") /\ nginx => \A i \in 1..Https!Last : Of(served, ledger.original, i)
Leads(files) == files["panel"] > 0 => files["tls"] # 0 /\ files["link"] # 0
Leading == ~torn => Leads(installed) /\ (nginx => Leads(served))
HttpsInv == HttpsTyped /\ Standing /\ Undoable /\ Working /\ Restoring /\ Leading

LEMMA Places ==
    /\ \A i \in 1..Https!Last : Https!Order[i] \in Https!Artifact
    /\ \A i, j \in 1..Https!Last : Https!Order[i] = Https!Order[j] => i = j
    /\ \A a \in Https!Artifact : \E i \in 1..Https!Last : a = Https!Order[i]
    /\ Https!Order[2] = "tls" /\ Https!Order[4] = "link" /\ Https!Order[5] = "panel"
  BY DEF Https!Order, Https!Last, Https!Artifact

LEMMA RollsBack ==
  ASSUME ScriptTyped, Https!Rollback
  PROVE  ScriptTyped' /\ script'.pc = "restore" /\ script'.at = Https!Last /\ script'.failed = FALSE
  <1> DEFINE new == [script EXCEPT !.pc = "restore", !.at = Https!Last, !.failed = FALSE]
  <1>1. new.pc = "restore" /\ new.at = Https!Last /\ new.failed = FALSE
    BY DEF ScriptTyped
  <1>2. script' = new
    BY DEF Https!Rollback
  <1>3. /\ new \in [pc : {"restore"}, mode : {"activate", "recover", "boot"},
                    phase : {"recover", "work", "complete"}, live : 0..Https!Last, at : 0..Https!Last,
                    failed : BOOLEAN]
    <2>1. Https!Last \in 0..Https!Last
      BY DEF Https!Last
    <2> QED BY <2>1 DEF ScriptTyped
  <1> HIDE DEF new
  <1> QED BY <1>1, <1>2, <1>3 DEF ScriptTyped

LEMMA GoesOn ==
  ASSUME ScriptTyped, NEW pc, Https!ScriptGoto(pc),
         pc \in Ready \cup {"none", "entry", "restore", "reload", "unown", "drop", "renew",
                            "unmark", "end", "make", "journal"}
  PROVE  ScriptTyped' /\ script'.pc = pc
  BY DEF ScriptTyped, Https!ScriptGoto

LEMMA ScriptLeaves == Https!ScriptEnds => ScriptTyped' /\ script'.pc = "none"
  BY DEF Https!ScriptEnds, ScriptTyped, Https!NoScript, Https!Last

\* The script rests: it is where nothing of the transaction is under way.
Resting == {"none", "entry", "drop", "renew", "unmark", "end", "make", "journal"}
LEMMA Rests ==
  ASSUME HttpsInv, UNCHANGED <<installed, recovery, ledger, torn, served, nginx, marker>>,
         ScriptTyped', script'.pc \in Resting, timer' \in BOOLEAN, timer => timer',
         script'.pc = "drop" => recovery # "journaled" \/ ledger.state = "complete" 
           \/ Https!ScriptAt("drop"),
         script'.pc = "unmark" => timer', script'.pc = "journal" => recovery = "bare"
  PROVE  HttpsInv'
  <1>1. \A tx : Stands(tx) => Stands(tx)'
    BY DEF Stands, Steady
  <1>2. \A tx : KeepsOriginal(tx) => KeepsOriginal(tx)'
    BY DEF KeepsOriginal, Steady
  <1>3. Standing'
    BY <1>1 DEF HttpsInv, Standing, Https!ScriptAt
  <1>4. Undoable'
    BY <1>2 DEF HttpsInv, Undoable, Of, Https!Touched
  <1>5. Working' /\ Restoring' /\ Leading' /\ HttpsTyped'
    BY DEF HttpsInv, Working, Restoring, Leading, HttpsTyped, Https!ScriptAt, Leads, Resting,
       Ready
  <1> QED BY <1>3, <1>4, <1>5 DEF HttpsInv

LEMMA Starts ==
  ASSUME HttpsInv, NEW mode \in {"activate", "recover", "boot"}, Https!Start(mode)
  PROVE  HttpsInv'
  <1>0. script' = [Https!NoScript EXCEPT !.pc = "entry", !.mode = mode]
    BY DEF Https!Start
  <1>1. ScriptTyped' /\ script'.pc = "entry"
    <2>1. script' = [pc |-> "entry", mode |-> mode, phase |-> "recover", live |-> 0, at |-> 0,
                     failed |-> FALSE]
      BY <1>0 DEF Https!NoScript
    <2> QED BY <2>1 DEF ScriptTyped, Https!Last
  <1>2. UNCHANGED <<installed, recovery, ledger, torn, served, nginx, marker, timer>>
    BY DEF Https!Start, Https!KeepFiles, Https!KeepNginx, Https!KeepRenewal
  <1>3. timer \in BOOLEAN
    BY DEF HttpsInv, HttpsTyped
  <1> QED BY <1>1, <1>2, <1>3, Rests DEF Resting

\* A rollback begins: of what is journaled and not complete.
LEMMA RollbackHolds ==
  ASSUME HttpsInv, UNCHANGED <<installed, recovery, ledger, torn, served, nginx, marker, timer>>,
         Https!Rollback, recovery = "journaled", ledger.state # "complete"
  PROVE  HttpsInv'
  <1>0. ScriptTyped' /\ script'.pc = "restore" /\ script'.at = Https!Last /\ script'.failed = FALSE
    BY RollsBack DEF HttpsInv, HttpsTyped
  <1>2. \A tx : KeepsOriginal(tx) => KeepsOriginal(tx)'
    BY DEF KeepsOriginal, Steady
  <1>3. Standing'
    BY <1>0 DEF HttpsInv, Standing, Https!ScriptAt
  <1>4. Undoable'
    BY <1>2 DEF HttpsInv, Undoable, Of, Https!Touched
  <1>5. Working' /\ Leading' /\ HttpsTyped'
    BY <1>0 DEF HttpsInv, Working, Leading, HttpsTyped, Https!ScriptAt, Leads, Ready
  <1>6. Restoring'
    BY <1>0 DEF HttpsInv, Restoring, Https!ScriptAt, Https!Last
  <1> QED BY <1>3, <1>4, <1>5, <1>6 DEF HttpsInv

LEMMA Recoveries ==
  ASSUME HttpsInv, Https!RecoverPending
  PROVE  HttpsInv'
  <1>1. UNCHANGED <<installed, recovery, ledger, torn, served, nginx, marker, timer>>
    BY DEF Https!RecoverPending, Https!KeepFiles, Https!KeepNginx, Https!KeepRenewal
  <1>2. timer \in BOOLEAN /\ ScriptTyped
    BY DEF HttpsInv, HttpsTyped
  <1>3. CASE recovery = "none" /\ Https!ScriptGoto("renew")
    <2>1. ScriptTyped' /\ script'.pc = "renew"
      BY <1>2, <1>3, GoesOn
    <2> QED BY <2>1, <1>1, <1>2, Rests DEF Resting
  <1>4. CASE (recovery = "bare" \/ ledger.state = "complete") /\ Https!ScriptGoto("drop")
    <2>1. ScriptTyped' /\ script'.pc = "drop"
      BY <1>2, <1>4, GoesOn
    <2> QED BY <2>1, <1>1, <1>2, <1>4, Rests DEF Resting
  <1>5. CASE recovery = "journaled" /\ ledger.state # "complete" /\ Https!Rollback
    BY <1>1, <1>5, RollbackHolds
  <1> QED BY <1>3, <1>4, <1>5 DEF Https!RecoverPending

LEMMA Renewals ==
  ASSUME HttpsInv, Https!Reconcile
  PROVE  HttpsInv'
  <1>1. UNCHANGED <<installed, recovery, ledger, torn, served, nginx, marker>>
    BY DEF Https!Reconcile, Https!KeepFiles, Https!KeepNginx
  <1>2. timer \in BOOLEAN /\ ScriptTyped
    BY DEF HttpsInv, HttpsTyped
  <1>3. Https!Onwards \in {"make", "end"}
    BY DEF Https!Onwards
  <1>4. CASE UNCHANGED timer /\ Https!ScriptGoto(Https!Onwards)
    <2>1. ScriptTyped' /\ script'.pc \in {"make", "end"}
      BY <1>2, <1>3, <1>4, GoesOn
    <2> QED BY <2>1, <1>1, <1>2, <1>4, Rests DEF Resting
  <1>5. CASE timer' = TRUE /\ Https!ScriptGoto("unmark")
    <2>1. ScriptTyped' /\ script'.pc = "unmark"
      BY <1>2, <1>5, GoesOn
    <2> QED BY <2>1, <1>1, <1>2, <1>5, Rests DEF Resting
  <1> QED BY <1>4, <1>5 DEF Https!Reconcile

LEMMA Unmarks ==
  ASSUME HttpsInv, Https!Unmark
  PROVE  HttpsInv'
  <1>0. UNCHANGED <<installed, recovery, ledger, torn, served, nginx, timer>> /\ marker' = 0 /\ timer
    BY DEF Https!Unmark, Https!KeepFiles, Https!KeepNginx, HttpsInv, Working
  <1>2. Https!Onwards \in {"make", "end"} /\ ScriptTyped
    BY DEF Https!Onwards, HttpsInv, HttpsTyped
  <1>3. ScriptTyped' /\ script'.pc \in {"make", "end"}
    BY <1>2, GoesOn DEF Https!Unmark
  <1>4. \A tx : (Stands(tx) => Stands(tx)') /\ (KeepsOriginal(tx) => KeepsOriginal(tx)')
    BY <1>0 DEF Stands, Steady, KeepsOriginal
  <1>5. Standing' /\ Undoable'
    BY <1>0, <1>3, <1>4 DEF HttpsInv, Standing, Undoable, Of, Https!Touched, Https!ScriptAt
  <1>6. Working' /\ Restoring' /\ Leading' /\ HttpsTyped'
    BY <1>0, <1>3
       DEF HttpsInv, Working, Restoring, Leading, HttpsTyped, Https!ScriptAt, Leads, Ready
  <1> QED BY <1>5, <1>6 DEF HttpsInv

LEMMA Drops ==
  ASSUME HttpsInv, Https!Drop
  PROVE  HttpsInv'
  <1>0. UNCHANGED <<installed, ledger, torn, served, nginx, marker, timer>>
    BY DEF Https!Drop, Https!KeepNginx, Https!KeepRenewal
  <1>1. /\ recovery' \in {"none", "bare", recovery} /\ Https!ScriptAt("drop")
        /\ ScriptTyped /\ timer \in BOOLEAN
    BY DEF Https!Drop, HttpsInv, HttpsTyped
  <1>2. ScriptTyped' /\ script'.pc \in {"none", "renew", "drop"}
    <2>1. CASE UNCHANGED script
      BY <1>1, <2>1 DEF Https!ScriptAt, ScriptTyped
    <2>2. CASE Https!ScriptEnds
      BY <2>2, ScriptLeaves
    <2>3. CASE Https!ScriptGoto("renew")
      BY <1>1, <2>3, GoesOn
    <2> QED BY <2>1, <2>2, <2>3 DEF Https!Drop
  <1>4. \A tx : (Stands(tx) => Stands(tx)') /\ (KeepsOriginal(tx) => KeepsOriginal(tx)')
    BY <1>0 DEF Stands, Steady, KeepsOriginal
  <1>5. Standing' /\ Undoable'
    BY <1>0, <1>1, <1>2, <1>4
       DEF HttpsInv, Standing, Undoable, Of, Https!Touched, Https!ScriptAt
  <1>6. Working' /\ Restoring' /\ Leading' /\ HttpsTyped'
    BY <1>0, <1>1, <1>2
       DEF HttpsInv, Working, Restoring, Leading, HttpsTyped, Https!ScriptAt, Leads, Ready
  <1> QED BY <1>5, <1>6 DEF HttpsInv

\* A file that is neither the original nor the replacement belongs to somebody else.
LEMMA Restores ==
  ASSUME HttpsInv, Https!Restore
  PROVE  HttpsInv'
  <1> DEFINE a == Https!Order[script.at]
  <1>0. /\ UNCHANGED <<recovery, ledger, served, nginx, marker, timer>>
        /\ Https!ScriptAt("restore") /\ script.at \in 1..Https!Last /\ a \in Https!Artifact
    <2>1. UNCHANGED <<recovery, ledger, served, nginx, marker, timer>>
      BY DEF Https!Restore, Https!KeepNginx, Https!KeepRenewal
    <2>2. Https!ScriptAt("restore") /\ script.at \in 1..Https!Last
      BY DEF Https!Restore, HttpsInv, HttpsTyped, ScriptTyped, Https!Last
    <2> QED BY <2>1, <2>2, Places
  <1>1. recovery = "journaled" /\ ledger.state # "complete"
    BY <1>0 DEF HttpsInv, Working, Https!ScriptAt
  <1>2. /\ ledger.tx \in Nat \ {0} /\ installed \in [Https!Artifact -> Int]
        /\ ledger.original \in [Https!Artifact -> Int] /\ torn \in BOOLEAN
    BY <1>1 DEF HttpsInv, HttpsTyped, Undoable
  <1>3. PICK tx \in 0..(ledger.tx - 1) : KeepsOriginal(tx)
    BY <1>1 DEF HttpsInv, Undoable
  <1>4. \A i \in 1..Https!Last : ledger.original[Https!Order[i]] \in {tx, Https!Foreign}
    BY <1>3 DEF KeepsOriginal, Steady
  <1>5. \A i \in 1..Https!Last : Of(installed, ledger.original, i)
                           \/ (Https!Touched(i) /\ installed[Https!Order[i]] = ledger.tx)
    BY <1>1 DEF HttpsInv, Undoable
  <1>6. ScriptTyped' /\ script'.pc = "restore" /\ script'.at = script.at - 1
        /\ (script'.failed = script.failed \/ script'.failed = TRUE)
    <2>0. ScriptTyped /\ script.at - 1 \in 0..Https!Last
      BY <1>0 DEF HttpsInv, HttpsTyped, Https!Last
    <2>1. CASE script' = [script EXCEPT !.at = @ - 1]
      BY <2>0, <2>1, <1>0 DEF ScriptTyped, Https!ScriptAt
    <2>2. CASE script' = [script EXCEPT !.at = @ - 1, !.failed = TRUE]
      <3> DEFINE new == [script EXCEPT !.at = script.at - 1, !.failed = TRUE]
      <3>1. new.pc = script.pc /\ new.at = script.at - 1 /\ new.failed = TRUE
        BY <2>0 DEF ScriptTyped
      <3>2. script' = new
        BY <2>2
      <3>3. ScriptTyped'
        BY <2>0, <3>2 DEF ScriptTyped
      <3> HIDE DEF new
      <3> QED BY <3>1, <3>2, <3>3, <1>0 DEF Https!ScriptAt
    <2> QED BY <2>1, <2>2 DEF Https!Restore
  <1>f. script' = [script EXCEPT !.at = @ - 1, !.failed = TRUE] => script'.failed = TRUE
    BY DEF HttpsInv, HttpsTyped, ScriptTyped
  \* What is put back, what fails and what is passed over.
  <1>7. \/ /\ UNCHANGED <<installed, torn>>
           /\ Of(installed, ledger.original, script.at) \/ script'.failed = TRUE
           /\ installed[a] # ledger.tx
        \/ installed' = [installed EXCEPT ![a] = ledger.original[a]] /\ UNCHANGED torn
        \/ UNCHANGED installed /\ torn' = TRUE /\ script'.failed = TRUE
    <2>1. CASE /\ ~Https!Touched(script.at) \/ installed[a] = ledger.original[a]
               /\ UNCHANGED <<installed, torn>>
      <3>1. Of(installed, ledger.original, script.at)
        BY <1>0, <1>5, <2>1 DEF Of
      <3>2. installed[a] \in {tx, Https!Foreign}
        BY <1>0, <1>4, <3>1 DEF Of
      <3> QED BY <2>1, <3>1, <3>2, <1>2, <1>3 DEF Https!Foreign
    <2>2. CASE /\ installed[a] \notin {ledger.tx, ledger.original[a]} /\ UNCHANGED <<installed, torn>>
               /\ script' = [script EXCEPT !.at = @ - 1, !.failed = TRUE]
      BY <2>2, <1>f
    <2>3. CASE installed' = [installed EXCEPT ![a] = ledger.original[a]] /\ UNCHANGED torn
      BY <2>3
    <2>4. CASE /\ torn' = TRUE /\ UNCHANGED installed
               /\ script' = [script EXCEPT !.at = @ - 1, !.failed = TRUE]
      BY <2>4, <1>f
    <2> QED BY <2>1, <2>2, <2>3, <2>4 DEF Https!Restore
  <1>8. /\ installed' \in [Https!Artifact -> Int] /\ torn' \in BOOLEAN
        /\ \A i \in 1..Https!Last : i # script.at =>
             installed'[Https!Order[i]] = installed[Https!Order[i]]
        /\ installed'[a] = installed[a] \/ installed'[a] = ledger.original[a]
        /\ script'.failed = FALSE => Of(installed', ledger.original, script.at)
        /\ torn' = FALSE => torn = FALSE /\ installed'[a] # ledger.tx
    <2>1. CASE UNCHANGED <<installed, torn>>
               /\ (Of(installed, ledger.original, script.at) \/ script'.failed = TRUE)
               /\ installed[a] # ledger.tx
      BY <2>1, <1>2
    <2>2. CASE installed' = [installed EXCEPT ![a] = ledger.original[a]] /\ UNCHANGED torn
      <3>1. installed' \in [Https!Artifact -> Int] /\ installed'[a] = ledger.original[a]
            /\ \A b \in Https!Artifact \ {a} : installed'[b] = installed[b]
        BY <2>2, <1>0, <1>2
      <3>2. \A i \in 1..Https!Last : i # script.at =>
               installed'[Https!Order[i]] = installed[Https!Order[i]]
        BY <3>1, <1>0, Places
      <3>3. Of(installed', ledger.original, script.at)
        BY <3>1 DEF Of
      <3>4. ledger.original[a] # ledger.tx
        BY <1>0, <1>2, <1>3, <1>4 DEF Https!Foreign
      <3> QED BY <3>1, <3>2, <3>3, <3>4, <2>2, <1>2
    <2>3. CASE UNCHANGED installed /\ torn' = TRUE /\ script'.failed = TRUE
      BY <2>3, <1>2
    <2> QED BY <2>1, <2>2, <2>3, <1>7
  <1>9. Standing' /\ Working' /\ HttpsTyped'
    BY <1>0, <1>1, <1>6, <1>8 DEF HttpsInv, Standing, Working, HttpsTyped, Https!ScriptAt, Ready
  <1>10. Undoable'
    <2>1. KeepsOriginal(tx)'
      BY <1>0, <1>3 DEF KeepsOriginal, Steady
    <2>2. \A i \in 1..Https!Last :
             \/ Of(installed, ledger.original, i)'
             \/ (Https!Touched(i) /\ installed[Https!Order[i]] = ledger.tx)'
      BY <1>0, <1>5, <1>8 DEF Of, Https!Touched
    <2> QED BY <2>1, <2>2, <1>0, <1>2 DEF Undoable
  <1>11. Restoring'
    <2>1. script'.failed = FALSE =>
             \A i \in 1..Https!Last : i > script'.at => Of(installed', ledger.original, i)
      <3> SUFFICES ASSUME script'.failed = FALSE, NEW i \in 1..Https!Last, i > script'.at
                   PROVE  Of(installed', ledger.original, i)
        OBVIOUS
      <3>1. CASE i = script.at
        BY <3>1, <1>8
      <3>2. CASE i > script.at
        <4>1. script.failed = FALSE
          BY <1>6 DEF HttpsInv, HttpsTyped, ScriptTyped
        <4>2. Of(installed, ledger.original, i)
          BY <1>0, <4>1, <3>2 DEF HttpsInv, Restoring
        <4> QED BY <4>2, <3>2, <1>8 DEF Of
      <3> QED BY <3>1, <3>2, <1>0, <1>6 DEF Https!Last
    <2>2. torn' = FALSE => installed'["panel"] # ledger.tx
      <3> SUFFICES ASSUME torn' = FALSE PROVE installed'["panel"] # ledger.tx
        OBVIOUS
      <3>1. CASE script.at = Https!Last
        BY <3>1, <1>8, Places DEF Https!Last
      <3>2. CASE script.at < Https!Last
        <4>1. installed["panel"] # ledger.tx
          BY <1>0, <1>8, <3>2 DEF HttpsInv, Restoring
        <4>2. installed'["panel"] = installed["panel"]
          BY <3>2, <1>8, Places DEF Https!Last
        <4> QED BY <4>1, <4>2
      <3> QED BY <3>1, <3>2, <1>0 DEF Https!Last
    <2> QED BY <2>1, <2>2, <1>0, <1>6, <1>8 DEF Restoring, Https!ScriptAt, ScriptTyped, Of
  <1>12. Leading'
    <2> SUFFICES ASSUME torn' = FALSE PROVE Leads(installed')
      BY <1>0, <1>8 DEF HttpsInv, Leading, Leads
    <2>1. installed'["panel"] # ledger.tx
      BY <1>0, <1>2, <1>6, <1>8, <1>11 DEF Restoring, Https!ScriptAt, Https!Last
    <2>2. installed'["panel"] \in {tx, Https!Foreign}
      <3>1. Of(installed', ledger.original, 5)
        BY <2>1, <1>0, <1>5, <1>8, Places DEF Of, Https!Last
      <3> QED BY <3>1, <1>4, Places DEF Of, Https!Last
    <2>3. CASE tx = 0
      BY <2>2, <2>3 DEF Leads, Https!Foreign
    <2>4. CASE tx # 0
      <3>1. \A i \in {2, 4} : installed'[Https!Order[i]] # 0
        <4> SUFFICES ASSUME NEW i \in {2, 4} PROVE installed'[Https!Order[i]] # 0
          OBVIOUS
        <4>1. i \in 1..Https!Last
          BY DEF Https!Last
        <4>2. Of(installed', ledger.original, i) \/ installed'[Https!Order[i]] = ledger.tx
          BY <4>1, <1>0, <1>5, <1>8 DEF Of
        <4> QED BY <4>1, <4>2, <2>4, <1>2, <1>4 DEF Of, Https!Foreign
      <3> QED BY <3>1, Places DEF Leads
    <2> QED BY <2>3, <2>4
  <1> QED BY <1>9, <1>10, <1>11, <1>12 DEF HttpsInv

LEMMA RecordsRestored ==
  ASSUME HttpsInv, Https!RecordRestored
  PROVE  HttpsInv'
  <1>0. /\ UNCHANGED <<installed, recovery, torn, served, nginx, marker, timer>>
        /\ Https!ScriptAt("restore") /\ script.at = 0 /\ ScriptTyped
    BY DEF Https!RecordRestored, Https!Preserve, Https!KeepNginx, Https!KeepRenewal, HttpsInv,
       HttpsTyped
  <1>1. recovery = "journaled" /\ ledger.state # "complete"
    BY <1>0 DEF HttpsInv, Working, Https!ScriptAt
  <1>2. PICK state \in {"recovery-failed", "restored"} : ledger' = [ledger EXCEPT !.state = state]
    BY DEF Https!RecordRestored, Https!Preserve
  <1>3. /\ ledger'.state # "complete" /\ ledger'.tx = ledger.tx /\ ledger'.done = ledger.done
        /\ ledger'.begun = ledger.begun /\ ledger'.original = ledger.original
        /\ ledger' \in [tx : Nat, state : {"active", "restored", "recovery-failed", "complete"},
                        done : 0..Https!Last, begun : BOOLEAN, original : [Https!Artifact -> Int]]
    BY <1>2 DEF HttpsInv, HttpsTyped
  <1>4. ScriptTyped' /\ (script'.pc = "none" \/ (script'.pc = "reload" /\ ~script.failed))
    <2>1. CASE Https!ScriptEnds
      BY <2>1, ScriptLeaves
    <2>2. CASE Https!ScriptGoto("reload") /\ ~script.failed
      BY <1>0, <2>2, GoesOn
    <2> QED BY <2>1, <2>2 DEF Https!RecordRestored, Https!Preserve
  <1>5. Standing' /\ Working' /\ Leading' /\ HttpsTyped'
    BY <1>0, <1>1, <1>3, <1>4
       DEF HttpsInv, Standing, Working, Leading, HttpsTyped, Https!ScriptAt, Leads, Ready
  <1>6. Undoable'
    <2>1. \A tx : KeepsOriginal(tx) => KeepsOriginal(tx)'
      BY <1>0, <1>3 DEF KeepsOriginal, Steady
    <2> QED BY <2>1, <1>0, <1>1, <1>3 DEF HttpsInv, Undoable, Of, Https!Touched
  <1>7. Restoring'
    BY <1>0, <1>3, <1>4 DEF HttpsInv, Restoring, Https!ScriptAt, Of
  <1> QED BY <1>5, <1>6, <1>7 DEF HttpsInv

LEMMA Reloads ==
  ASSUME HttpsInv, Https!ReloadRestored
  PROVE  HttpsInv'
  <1>0. /\ UNCHANGED <<installed, recovery, nginx, marker, timer>>
        /\ Https!ScriptAt("reload") /\ ScriptTyped /\ ledger'.tx = ledger.tx
    BY DEF Https!ReloadRestored, Https!Preserve, Https!KeepNginx, Https!KeepRenewal, HttpsInv,
       HttpsTyped
  <1>1. /\ recovery = "journaled" /\ ledger.state # "complete"
        /\ \A i \in 1..Https!Last : Of(installed, ledger.original, i)
    BY <1>0 DEF HttpsInv, Working, Https!ScriptAt, Restoring
  <1>2. \A tx : KeepsOriginal(tx) /\ ledger'.original = ledger.original => KeepsOriginal(tx)'
    BY <1>0 DEF KeepsOriginal, Steady
  <1>3. CASE /\ served' = (IF nginx THEN installed ELSE served) /\ Https!ScriptGoto("unown")
             /\ torn' = FALSE /\ UNCHANGED <<installed, recovery, ledger>>
    <2>1. ScriptTyped' /\ script'.pc = "unown"
      BY <1>0, <1>3, GoesOn
    <2>2. Standing' /\ Working' /\ HttpsTyped'
      BY <1>0, <1>1, <1>3, <2>1
         DEF HttpsInv, Standing, Working, HttpsTyped, Https!ScriptAt, Ready
    <2>3. Undoable'
      BY <1>0, <1>1, <1>2, <1>3 DEF HttpsInv, Undoable, Of, Https!Touched
    <2>4. Restoring'
      BY <1>0, <1>1, <1>3, <2>1 DEF Restoring, Https!ScriptAt, Of
    <2>5. Leads(installed)
      <3>1. PICK tx \in 0..(ledger.tx - 1) : KeepsOriginal(tx)
        BY <1>1 DEF HttpsInv, Undoable
      <3>2. \A i \in 1..Https!Last : installed[Https!Order[i]] \in {tx, Https!Foreign}
        BY <1>1, <3>1 DEF KeepsOriginal, Steady, Of
      <3> QED BY <3>1, <3>2, Places DEF Leads, Https!Foreign, Https!Last
    <2>6. Leading'
      BY <2>5, <1>0, <1>3 DEF Leading, Leads
    <2> QED BY <2>2, <2>3, <2>4, <2>6 DEF HttpsInv
  <1>4. CASE Https!Preserve /\ UNCHANGED served
    <2>1. ScriptTyped' /\ script'.pc = "none"
      BY <1>4, ScriptLeaves DEF Https!Preserve
    <2>2. /\ ledger'.state # "complete" /\ ledger'.done = ledger.done
          /\ ledger'.begun = ledger.begun /\ ledger'.original = ledger.original
          /\ ledger' \in [tx : Nat, state : {"active", "restored", "recovery-failed", "complete"},
                          done : 0..Https!Last, begun : BOOLEAN, original : [Https!Artifact -> Int]]
      BY <1>4 DEF HttpsInv, HttpsTyped, Https!Preserve
    <2>3. torn' = torn
      BY <1>4 DEF Https!Preserve
    <2>4. Standing' /\ Working' /\ HttpsTyped' /\ Restoring' /\ Leading'
      BY <1>0, <1>1, <1>4, <2>1, <2>2, <2>3
         DEF HttpsInv, Standing, Working, HttpsTyped, Restoring, Leading, Leads,
             Https!ScriptAt, Ready
    <2>5. Undoable'
      BY <1>0, <1>1, <1>2, <2>2 DEF HttpsInv, Undoable, Of, Https!Touched
    <2> QED BY <2>4, <2>5 DEF HttpsInv
  <1> QED BY <1>3, <1>4 DEF Https!ReloadRestored

LEMMA Disowns ==
  ASSUME HttpsInv, Https!RemoveOwnMarker
  PROVE  HttpsInv'
  <1>0. /\ UNCHANGED <<installed, recovery, ledger, torn, served, nginx, timer>>
        /\ marker' \in {0, marker} /\ (marker' # marker => marker = ledger.tx)
        /\ Https!ScriptAt("unown") /\ ScriptTyped
    BY DEF Https!RemoveOwnMarker, Https!KeepFiles, Https!KeepNginx, HttpsInv, HttpsTyped
  <1>1. ScriptTyped' /\ script'.pc = "drop"
    BY <1>0, GoesOn DEF Https!RemoveOwnMarker
  <1>2. /\ recovery = "journaled" /\ ledger.state # "complete"
        /\ \A i \in 1..Https!Last : /\ Of(installed, ledger.original, i)
                                    /\ nginx => Of(served, ledger.original, i)
    BY <1>0 DEF HttpsInv, Working, Https!ScriptAt, Restoring
  <1>3. PICK tx \in 0..(ledger.tx - 1) : KeepsOriginal(tx)
    BY <1>2 DEF HttpsInv, Undoable
  <1>4. KeepsOriginal(tx)'
    BY <1>0, <1>3 DEF KeepsOriginal, Steady
  <1>5. ledger.tx \in Nat
    BY DEF HttpsInv, HttpsTyped
  <1>6. Stands(tx)'
    BY <1>0, <1>2, <1>3, <1>4, <1>5 DEF KeepsOriginal, Stands, Steady, Of
  <1>7. Standing'
    BY <1>0, <1>3, <1>5, <1>6 DEF Standing
  <1>8. Undoable'
    BY <1>0, <1>2, <1>4, <1>3 DEF HttpsInv, Undoable, Of, Https!Touched
  <1>9. Working' /\ HttpsTyped' /\ Restoring' /\ Leading'
    BY <1>0, <1>1, <1>2
       DEF HttpsInv, Working, HttpsTyped, Restoring, Leading, Leads, Https!ScriptAt, Ready
  <1> QED BY <1>7, <1>8, <1>9 DEF HttpsInv

\* nginx loads the files as they are, at a moment when that is allowed.
LEMMA Loads ==
  ASSUME HttpsInv, UNCHANGED <<installed, recovery, ledger, torn, marker, timer>>, nginx' = TRUE,
         served' = installed, script' = script \/ (Https!ScriptEnds /\ script.pc = "end")
  PROVE  HttpsInv'
  <1>0. ScriptTyped' /\ (script'.pc = script.pc \/ (script'.pc = "none" /\ script.pc = "end"))
        /\ (script'.pc # "none" => script' = script)
    BY ScriptLeaves DEF HttpsInv, HttpsTyped, ScriptTyped
  <1>1. \A tx : (Stands(tx) => Stands(tx)') /\ (KeepsOriginal(tx) => KeepsOriginal(tx)')
    BY DEF Stands, Steady, KeepsOriginal
  <1>2. Standing' /\ Undoable'
    BY <1>0, <1>1 DEF HttpsInv, Standing, Undoable, Of, Https!Touched, Https!ScriptAt
  <1>3. Working'
    <2>1. script.pc \in {"probe", "mark", "complete"} => Steady(ledger.tx, installed)
      BY DEF HttpsInv, Working, Steady, Ready
    <2> QED BY <2>1, <1>0 DEF HttpsInv, Working, Https!ScriptAt, Ready, Steady
  <1>4. HttpsTyped' /\ Restoring' /\ Leading'
    BY <1>0 DEF HttpsInv, HttpsTyped, Restoring, Leading, Leads, Https!ScriptAt, Of
  <1> QED BY <1>2, <1>3, <1>4 DEF HttpsInv

LEMMA EndsHold ==
  ASSUME HttpsInv, Https!End
  PROVE  HttpsInv'
  <1>1. CASE nginx' = TRUE /\ served' = installed
    BY <1>1, Loads DEF Https!End, Https!KeepFiles, Https!KeepRenewal, Https!ScriptAt
  <1>2. CASE Https!KeepNginx
    <2>1. ScriptTyped' /\ script'.pc = "none"
      BY ScriptLeaves DEF Https!End
    <2> QED BY <1>2, <2>1, Rests
               DEF Https!End, Https!KeepFiles, Https!KeepRenewal, Https!KeepNginx, Resting,
                   HttpsInv, HttpsTyped
  <1> QED BY <1>1, <1>2 DEF Https!End

LEMMA NginxHolds ==
  ASSUME HttpsInv, Https!StartLocked \/ Https!Renewal
  PROVE  HttpsInv'
  <1>1. nginx' = TRUE
    BY DEF Https!StartLocked, Https!Renewal, HttpsInv, HttpsTyped
  <1> QED BY <1>1, Loads
             DEF Https!StartLocked, Https!Renewal, Https!KeepFiles, Https!KeepRenewal

\* The script works on its activation and no more than its place and what is said below changes.
LEMMA Works ==
  ASSUME HttpsInv, UNCHANGED <<installed, recovery, ledger, torn, nginx, timer>>,
         script.pc \in Ready, ScriptTyped', script'.pc \in Ready, script'.pc # "moved",
         marker' = marker \/ (marker = 0 /\ marker' = ledger.tx),
         served' = served \/ (served' = installed /\ nginx),
         script'.pc \in {"probe", "mark", "complete"} =>
           \/ script.pc \in {"probe", "mark"} /\ UNCHANGED served
           \/ ledger.done = Https!Last /\ served' = installed,
         script'.pc = "complete" => marker' # 0
  PROVE  HttpsInv'
  <1>0. recovery = "journaled" /\ ledger.state # "complete"
    BY DEF HttpsInv, Working
  <1>1. \A tx : KeepsOriginal(tx) => KeepsOriginal(tx)'
    BY DEF Steady, KeepsOriginal
  <1>2. Standing' /\ Undoable'
    BY <1>0, <1>1 DEF HttpsInv, Standing, Undoable, Of, Https!Touched, Https!ScriptAt, Ready
  <1>3. Working'
    <2>1. ledger.done = Https!Last => Steady(ledger.tx, installed)
      BY DEF HttpsInv, Working, Steady, Ready
    <2> QED BY <2>1, <1>0 DEF HttpsInv, Working, Https!ScriptAt, Ready, Steady
  <1>4. HttpsTyped' /\ Restoring' /\ Leading'
    BY <1>0 DEF HttpsInv, HttpsTyped, Restoring, Leading, Leads, Https!ScriptAt, Ready
  <1> QED BY <1>2, <1>3, <1>4 DEF HttpsInv

LEMMA Makes ==
  ASSUME HttpsInv, Https!MakeRecovery
  PROVE  HttpsInv'
  <1>0. /\ UNCHANGED <<installed, ledger, torn, served, nginx, marker, timer>>
        /\ recovery = "none" /\ recovery' = "bare" /\ Https!ScriptAt("make") /\ ScriptTyped
    BY DEF Https!MakeRecovery, Https!KeepNginx, Https!KeepRenewal, HttpsInv, HttpsTyped
  <1>1. ScriptTyped' /\ script'.pc = "journal"
    BY <1>0, GoesOn DEF Https!MakeRecovery
  <1>2. \A tx : Stands(tx) => Stands(tx)'
    BY <1>0 DEF Stands, Steady
  <1>3. Standing' /\ Undoable'
    BY <1>0, <1>2 DEF HttpsInv, Standing, Undoable
  <1>4. Working' /\ HttpsTyped' /\ Restoring' /\ Leading'
    BY <1>0, <1>1
       DEF HttpsInv, Working, HttpsTyped, Restoring, Leading, Leads, Https!ScriptAt, Ready
  <1> QED BY <1>3, <1>4 DEF HttpsInv

LEMMA Initializes ==
  ASSUME HttpsInv, Https!Initialize
  PROVE  HttpsInv'
  <1>0. /\ UNCHANGED <<installed, torn, served, nginx, marker, timer>>
        /\ recovery' = "journaled" /\ Https!ScriptAt("journal") /\ ScriptTyped
    BY DEF Https!Initialize, Https!KeepNginx, Https!KeepRenewal, HttpsInv, HttpsTyped
  <1>1. ScriptTyped' /\ script'.pc = "work"
    <2> DEFINE new == [script EXCEPT !.pc = "work", !.phase = "work"]
    <2>1. script' = new
      BY DEF Https!Initialize
    <2>2. new.pc = "work"
      BY <1>0 DEF ScriptTyped
    <2>3. ScriptTyped'
      BY <1>0, <2>1 DEF ScriptTyped, Ready
    <2> HIDE DEF new
    <2> QED BY <2>1, <2>2, <2>3
  <1>2. ledger' = [tx |-> ledger.tx + 1, state |-> "active", done |-> 0, begun |-> FALSE,
                    original |-> installed]
    BY DEF Https!Initialize, Https!NoLedger
  <1>3. PICK tx \in 0..ledger.tx : Stands(tx)
    BY <1>0 DEF HttpsInv, Working, Standing, Https!ScriptAt
  <1>4. ledger.tx \in Nat /\ marker \in 0..ledger.tx /\ installed \in [Https!Artifact -> Int]
    BY DEF HttpsInv, HttpsTyped
  <1>5. KeepsOriginal(tx)'
    BY <1>0, <1>2, <1>3, <1>4 DEF KeepsOriginal, Stands, Steady
  <1>6. Undoable'
    <2>1. \A i \in 1..Https!Last : Of(installed, ledger.original, i)'
      BY <1>0, <1>2 DEF Of
    <2> QED BY <2>1, <1>2, <1>3, <1>4, <1>5 DEF Undoable
  <1>7. HttpsTyped'
    BY <1>0, <1>1, <1>2, <1>4 DEF HttpsInv, HttpsTyped, Https!Last
  <1>8. Standing' /\ Working' /\ Restoring' /\ Leading'
    BY <1>0, <1>1, <1>2
       DEF HttpsInv, Standing, Working, Restoring, Leading, Leads, Https!ScriptAt, Ready,
           Https!Last
  <1> QED BY <1>6, <1>7, <1>8 DEF HttpsInv

LEMMA Befores ==
  ASSUME HttpsInv, Https!BeforeCommit
  PROVE  HttpsInv'
  <1>0. /\ UNCHANGED <<installed, recovery, torn, served, nginx, marker, timer>>
        /\ Https!ScriptAt("work") /\ ScriptTyped /\ ledger.done < Https!Last
    BY DEF Https!BeforeCommit, Https!KeepNginx, Https!KeepRenewal, HttpsInv, HttpsTyped
  <1>1. recovery = "journaled" /\ ledger.state # "complete"
    BY <1>0 DEF HttpsInv, Working, Https!ScriptAt, Ready
  <1>2. CASE Https!Rollback /\ UNCHANGED ledger
    BY <1>0, <1>1, <1>2, RollbackHolds
  <1>3. CASE ledger' = [ledger EXCEPT !.begun = TRUE] /\ UNCHANGED script
    <2>1. /\ ledger'.tx = ledger.tx /\ ledger'.state = ledger.state /\ ledger'.done = ledger.done
          /\ ledger'.begun = TRUE /\ ledger'.original = ledger.original
          /\ ledger' \in [tx : Nat, state : {"active", "restored", "recovery-failed", "complete"},
                          done : 0..Https!Last, begun : BOOLEAN, original : [Https!Artifact -> Int]]
      BY <1>3 DEF HttpsInv, HttpsTyped
    <2>2. \A tx : KeepsOriginal(tx) => KeepsOriginal(tx)'
      BY <1>0, <2>1 DEF KeepsOriginal, Steady
    <2>3. \A i \in 1..Https!Last : Https!Touched(i) => Https!Touched(i)'
      BY <2>1 DEF Https!Touched
    <2>4. Undoable'
      BY <1>0, <1>1, <2>1, <2>2, <2>3 DEF HttpsInv, Undoable, Of
    <2>5. Standing'
      BY <1>0, <1>1, <1>3, <2>1 DEF HttpsInv, Standing, Https!ScriptAt
    <2>6. Working'
      BY <1>0, <1>1, <1>3, <2>1 DEF HttpsInv, Working, Https!ScriptAt, Ready
    <2>7. HttpsTyped'
      <3>1. HttpsTyped
        BY DEF HttpsInv
      <3>2. ScriptTyped'
        BY <1>0, <1>3 DEF ScriptTyped
      <3>3. marker' \in 0..ledger'.tx
        BY <1>0, <2>1, <3>1 DEF HttpsTyped
      <3> QED BY <1>0, <2>1, <3>1, <3>2, <3>3 DEF HttpsTyped
    <2>8. Restoring'
      BY <1>0, <1>3 DEF Restoring, Https!ScriptAt
    <2>9. Leading'
      BY <1>0, <1>1, <1>3, <2>1 DEF HttpsInv, Leading, Leads, Https!ScriptAt
    <2> QED BY <2>4, <2>5, <2>6, <2>7, <2>8, <2>9 DEF HttpsInv
  <1> QED BY <1>2, <1>3 DEF Https!BeforeCommit

LEMMA Moves ==
  ASSUME HttpsInv, Https!Move
  PROVE  HttpsInv'
  <1>0. /\ UNCHANGED <<recovery, ledger, torn, served, nginx, marker, timer>>
        /\ Https!ScriptAt("work") /\ ScriptTyped /\ ledger.begun
        /\ installed' = [installed EXCEPT ![Https!Current] = ledger.tx]
    BY DEF Https!Move, Https!KeepNginx, Https!KeepRenewal, HttpsInv, HttpsTyped
  <1>1. /\ recovery = "journaled" /\ ledger.state # "complete" /\ ledger.done \in 0..(Https!Last - 1)
        /\ ledger.tx \in Nat \ {0} /\ installed \in [Https!Artifact -> Int]
    BY <1>0 DEF HttpsInv, Working, Https!ScriptAt, Ready, Undoable, HttpsTyped, Https!Last
  <1>2. ScriptTyped' /\ script'.pc = "moved"
    BY <1>0, GoesOn DEF Https!Move, Ready
  <1>3. /\ installed' \in [Https!Artifact -> Int]
        /\ installed'[Https!Order[ledger.done + 1]] = ledger.tx
        /\ \A i \in 1..Https!Last : i # ledger.done + 1 =>
             installed'[Https!Order[i]] = installed[Https!Order[i]]
    <2>1. /\ Https!Current = Https!Order[ledger.done + 1] /\ ledger.done + 1 \in 1..Https!Last
          /\ Https!Current \in Https!Artifact
      BY <1>1, Places DEF Https!Current, Https!Last
    <2>2. installed' \in [Https!Artifact -> Int] /\ installed'[Https!Current] = ledger.tx
          /\ \A b \in Https!Artifact \ {Https!Current} : installed'[b] = installed[b]
      BY <1>0, <1>1, <2>1
    <2> QED BY <2>1, <2>2, Places
  <1>4. \A tx : KeepsOriginal(tx) => KeepsOriginal(tx)'
    BY <1>0 DEF KeepsOriginal, Steady
  <1>5. Undoable'
    <2>1. \A i \in 1..Https!Last :
             \/ Of(installed, ledger.original, i)'
             \/ (Https!Touched(i) /\ installed[Https!Order[i]] = ledger.tx)'
      BY <1>0, <1>1, <1>3 DEF HttpsInv, Undoable, Of, Https!Touched
    <2> QED BY <2>1, <1>0, <1>1, <1>4 DEF HttpsInv, Undoable
  <1>6. Working'
    <2>1. \A i \in 1..ledger.done : installed'[Https!Order[i]] \in {ledger.tx, Https!Foreign}
      BY <1>0, <1>1, <1>3 DEF HttpsInv, Working, Https!ScriptAt, Ready, Https!Last
    <2> QED BY <2>1, <1>0, <1>1, <1>2 DEF HttpsInv, Working, Https!ScriptAt, Ready
  <1>7. Leading'
    <2>1. CASE ledger.done + 1 = 5
      <3>1. /\ installed'["tls"] \in {ledger.tx, Https!Foreign}
            /\ installed'["link"] \in {ledger.tx, Https!Foreign}
        <4>1. 2 \in 1..ledger.done /\ 4 \in 1..ledger.done
          BY <2>1, <1>1
        <4> QED BY <4>1, <1>6, <1>0, <1>2, Places DEF Working, Ready
      <3> QED BY <3>1, <1>0, <1>1 DEF HttpsInv, Leading, Leads, Https!Foreign
    <2>2. CASE ledger.done + 1 # 5
      <3>1. /\ installed'["panel"] = installed["panel"]
            /\ installed'["tls"] \in {installed["tls"], ledger.tx}
            /\ installed'["link"] \in {installed["link"], ledger.tx}
        <4>1. {2, 4, 5} \subseteq 1..Https!Last
          BY DEF Https!Last
        <4> QED BY <4>1, <2>2, <1>3, Places
      <3> QED BY <3>1, <1>0, <1>1 DEF HttpsInv, Leading, Leads
    <2> QED BY <2>1, <2>2
  <1>8. Standing' /\ HttpsTyped' /\ Restoring'
    BY <1>0, <1>1, <1>2, <1>3 DEF HttpsInv, Standing, HttpsTyped, Restoring, Https!ScriptAt
  <1> QED BY <1>5, <1>6, <1>7, <1>8 DEF HttpsInv

LEMMA Afters ==
  ASSUME HttpsInv, Https!AfterCommit
  PROVE  HttpsInv'
  <1>0. /\ UNCHANGED <<installed, recovery, torn, served, nginx, marker, timer>>
        /\ Https!ScriptAt("moved") /\ ScriptTyped /\ ledger.begun /\ ledger.done \in 0..(Https!Last - 1)
    BY DEF Https!AfterCommit, Https!KeepNginx, Https!KeepRenewal, HttpsInv, HttpsTyped,
       Working, Https!Last
  <1>1. recovery = "journaled" /\ ledger.state # "complete"
    BY <1>0 DEF HttpsInv, Working, Https!ScriptAt, Ready
  <1>2. CASE Https!Rollback /\ UNCHANGED ledger
    BY <1>0, <1>1, <1>2, RollbackHolds
  <1>3. CASE /\ installed[Https!Current] = ledger.tx /\ Https!ScriptGoto("work")
             /\ ledger' = [ledger EXCEPT !.done = @ + 1, !.begun = FALSE]
    <2>1. /\ ledger'.tx = ledger.tx /\ ledger'.state = ledger.state /\ ledger'.done = ledger.done + 1
          /\ ledger'.begun = FALSE /\ ledger'.original = ledger.original
          /\ ledger' \in [tx : Nat, state : {"active", "restored", "recovery-failed", "complete"},
                          done : 0..Https!Last, begun : BOOLEAN, original : [Https!Artifact -> Int]]
      <3>1. ledger.done + 1 \in 0..Https!Last
        BY <1>0 DEF Https!Last
      <3> DEFINE new == [ledger EXCEPT !.done = ledger.done + 1, !.begun = FALSE]
      <3>2. ledger' = new
        BY <1>3
      <3>3. new.tx = ledger.tx /\ new.state = ledger.state /\ new.done = ledger.done + 1
            /\ new.begun = FALSE /\ new.original = ledger.original
        BY DEF HttpsInv, HttpsTyped
      <3>4. new \in [tx : Nat, state : {"active", "restored", "recovery-failed", "complete"},
                     done : 0..Https!Last, begun : BOOLEAN, original : [Https!Artifact -> Int]]
        BY <3>1 DEF HttpsInv, HttpsTyped
      <3> HIDE DEF new
      <3> QED BY <3>2, <3>3, <3>4
    <2>2. \A tx : KeepsOriginal(tx) => KeepsOriginal(tx)'
      BY <1>0, <2>1 DEF KeepsOriginal, Steady
    <2>3. \A i \in 1..Https!Last : Https!Touched(i) => Https!Touched(i)'
      BY <1>0, <2>1 DEF Https!Touched
    <2>4. Undoable'
      BY <1>0, <1>1, <2>1, <2>2, <2>3 DEF HttpsInv, Undoable, Of
    <2>5. ScriptTyped' /\ script'.pc = "work"
      BY <1>0, <1>3, GoesOn DEF Ready
    <2>6. Working'
      <3>1. \A i \in 1..(ledger.done + 1) : installed[Https!Order[i]] \in {ledger.tx, Https!Foreign}
        BY <1>0, <1>3 DEF HttpsInv, Working, Https!ScriptAt, Ready, Https!Current
      <3> QED BY <3>1, <1>0, <1>1, <2>1, <2>5 DEF Working, Https!ScriptAt, Ready
    <2>7. Standing' /\ HttpsTyped' /\ Restoring' /\ Leading'
      BY <1>0, <1>1, <2>1, <2>5
         DEF HttpsInv, Standing, HttpsTyped, Restoring, Leading, Leads, Https!ScriptAt
    <2> QED BY <2>4, <2>6, <2>7 DEF HttpsInv
  <1> QED BY <1>2, <1>3 DEF Https!AfterCommit

LEMMA ReadyIsJournaled ==
  ASSUME HttpsInv, script.pc \in Ready
  PROVE  recovery = "journaled" /\ ledger.state # "complete"
  BY DEF HttpsInv, Working

LEMMA LoadsChecked ==
  ASSUME HttpsInv, Https!LoadChecked
  PROVE  HttpsInv'
  <1>0. /\ UNCHANGED <<installed, recovery, ledger, torn, nginx, marker, timer>>
        /\ Https!ScriptAt("work") /\ script.pc \in Ready /\ ScriptTyped /\ ledger.done \in 0..Https!Last
    BY DEF Https!LoadChecked, Https!KeepFiles, Https!KeepRenewal, HttpsInv, HttpsTyped, Ready,
       Https!ScriptAt
  <1>1. CASE Https!Rollback /\ UNCHANGED served
    BY <1>0, <1>1, ReadyIsJournaled, RollbackHolds
  <1>2. CASE ~(Https!Rollback /\ UNCHANGED served)
    <2>1. /\ nginx /\ served' = installed
          /\ script' = [script EXCEPT !.live = ledger.done,
                                      !.pc = CASE ledger.done = 1 -> "certify"
                                               [] ledger.done = Https!Last -> "probe"
                                               [] OTHER -> "work"]
      BY <1>2 DEF Https!LoadChecked
    <2>2. PICK place \in {"certify", "probe", "work"} :
             /\ script' = [script EXCEPT !.live = ledger.done, !.pc = place]
             /\ place = "probe" => ledger.done = Https!Last
      <3> DEFINE there == CASE ledger.done = 1 -> "certify"
                            [] ledger.done = Https!Last -> "probe"
                            [] OTHER -> "work"
      <3>0. script' = [script EXCEPT !.live = ledger.done, !.pc = there]
        BY <2>1
      <3>1. there \in {"certify", "probe", "work"} /\ (there = "probe" => ledger.done = Https!Last)
        BY DEF Https!Last
      <3> HIDE DEF there
      <3> QED BY <3>0, <3>1
    <2>3. ScriptTyped' /\ script'.pc = place
      <3> DEFINE new == [script EXCEPT !.live = ledger.done, !.pc = place]
      <3>1. new.pc = place
        BY <1>0 DEF ScriptTyped
      <3>2. ScriptTyped'
        BY <1>0, <2>2 DEF ScriptTyped, Ready
      <3> HIDE DEF new
      <3> QED BY <2>2, <3>1, <3>2 DEF new
    <2> QED BY <1>0, <2>1, <2>2, <2>3, Works DEF Ready
  <1> QED BY <1>1, <1>2

LEMMA Stages ==
  ASSUME HttpsInv, Https!Certify \/ Https!StageCandidates
  PROVE  HttpsInv'
  <1>0. UNCHANGED <<installed, recovery, ledger, torn, nginx, served, marker, timer>>
        /\ script.pc \in Ready /\ ScriptTyped
    BY DEF Https!Certify, Https!StageCandidates, Https!KeepFiles, Https!KeepNginx,
       Https!KeepRenewal, HttpsInv, HttpsTyped, Ready, Https!ScriptAt
  <1>1. ScriptTyped' /\ script'.pc \in {"stage", "work"}
    BY <1>0, GoesOn DEF Https!Certify, Https!StageCandidates, Ready
  <1> QED BY <1>0, <1>1, Works DEF Ready

LEMMA ProbesAnswer ==
  ASSUME HttpsInv, Https!Probe
  PROVE  HttpsInv'
  <1>0. UNCHANGED <<installed, recovery, ledger, torn, nginx, served, marker, timer>>
        /\ script.pc \in Ready /\ script.pc = "probe" /\ ScriptTyped
    BY DEF Https!Probe, Https!KeepFiles, Https!KeepNginx, Https!KeepRenewal, HttpsInv,
       HttpsTyped, Ready, Https!ScriptAt
  <1>1. CASE Https!Rollback
    BY <1>0, <1>1, ReadyIsJournaled, RollbackHolds
  <1>2. CASE Https!ScriptGoto("mark")
    <2>1. ScriptTyped' /\ script'.pc = "mark"
      BY <1>0, <1>2, GoesOn DEF Ready
    <2> QED BY <1>0, <2>1, Works DEF Ready
  <1> QED BY <1>1, <1>2 DEF Https!Probe

LEMMA MarksRenewal ==
  ASSUME HttpsInv, Https!MarkRenewal
  PROVE  HttpsInv'
  <1>0. UNCHANGED <<installed, recovery, ledger, torn, nginx, served, timer>>
        /\ script.pc \in Ready /\ script.pc = "mark" /\ ScriptTyped
    BY DEF Https!MarkRenewal, Https!KeepFiles, Https!KeepNginx, HttpsInv, HttpsTyped, Ready,
       Https!ScriptAt
  <1>1. CASE Https!Rollback /\ UNCHANGED marker
    BY <1>0, <1>1, ReadyIsJournaled, RollbackHolds
  <1>2. CASE marker' = (IF marker = 0 THEN ledger.tx ELSE marker) /\ Https!ScriptGoto("complete")
    <2>1. ScriptTyped' /\ script'.pc = "complete"
      BY <1>0, <1>2, GoesOn DEF Ready
    <2>2. ledger.tx > 0 /\ marker \in 0..ledger.tx /\ ledger.tx \in Nat
      BY <1>0, ReadyIsJournaled DEF HttpsInv, Undoable, HttpsTyped
    <2> QED BY <1>0, <1>2, <2>1, <2>2, Works DEF Ready
  <1> QED BY <1>1, <1>2 DEF Https!MarkRenewal

LEMMA Completes ==
  ASSUME HttpsInv, Https!Complete
  PROVE  HttpsInv'
  <1>0. UNCHANGED <<installed, recovery, torn, nginx, served, marker, timer>>
        /\ script.pc \in Ready /\ script.pc = "complete" /\ ScriptTyped
    BY DEF Https!Complete, Https!KeepNginx, Https!KeepRenewal, HttpsInv, HttpsTyped, Ready,
       Https!ScriptAt
  <1>1. /\ ledger'.state = "complete" /\ ledger'.tx = ledger.tx /\ ledger'.done = ledger.done
        /\ ledger'.begun = ledger.begun /\ ledger'.original = ledger.original
        /\ ledger' \in [tx : Nat, state : {"active", "restored", "recovery-failed", "complete"},
                        done : 0..Https!Last, begun : BOOLEAN, original : [Https!Artifact -> Int]]
    BY DEF Https!Complete, HttpsInv, HttpsTyped
  <1>2. ScriptTyped' /\ script'.pc = "drop"
    <2> DEFINE new == [script EXCEPT !.pc = "drop", !.phase = "complete"]
    <2>1. script' = new
      BY DEF Https!Complete
    <2>2. new.pc = "drop"
      BY <1>0 DEF ScriptTyped
    <2>3. ScriptTyped'
      BY <1>0, <2>1 DEF ScriptTyped
    <2> HIDE DEF new
    <2> QED BY <2>1, <2>2, <2>3
  <1>3. Stands(ledger.tx)
    BY <1>0 DEF HttpsInv, Working, Stands, Steady, Https!ScriptAt
  <1>4. Stands(ledger.tx)'
    BY <1>0, <1>1, <1>3 DEF Stands, Steady
  <1>5. Standing'
    BY <1>1, <1>4 DEF Standing
  <1>6. Undoable' /\ Working' /\ Restoring' /\ Leading' /\ HttpsTyped'
    BY <1>0, <1>1, <1>2
       DEF HttpsInv, Undoable, Working, Restoring, Leading, Leads, HttpsTyped, Https!ScriptAt,
           Ready
  <1> QED BY <1>5, <1>6 DEF HttpsInv

LEMMA Failures ==
  ASSUME HttpsInv, Https!Fails \/ Https!Killed
  PROVE  HttpsInv'
  <1>1. UNCHANGED <<installed, recovery, ledger, torn, nginx, served, marker, timer>> /\ timer \in BOOLEAN
    BY DEF Https!Fails, Https!Killed, Https!KeepFiles, Https!KeepNginx, Https!KeepRenewal,
       HttpsInv, HttpsTyped
  <1>2. CASE Https!Fails
    <2>1. script.pc \in Ready /\ Https!Rollback
      BY <1>2 DEF Https!Fails, Ready
    <2> QED BY <2>1, <1>1, ReadyIsJournaled, RollbackHolds
  <1>3. CASE Https!Killed
    <2>1. ScriptTyped' /\ script'.pc = "none"
      BY <1>3, ScriptLeaves DEF Https!Killed
    <2> QED BY <2>1, <1>1, Rests DEF Resting
  <1> QED BY <1>2, <1>3

\* What a power loss takes away is the replacement that was not yet recorded.
LEMMA PowerFails ==
  ASSUME HttpsInv, Https!PowerOff
  PROVE  HttpsInv'
  <1>0. UNCHANGED <<recovery, ledger, torn, served, marker, timer>> /\ nginx' = FALSE
        /\ ScriptTyped' /\ script'.pc = "none"
    BY ScriptLeaves DEF Https!PowerOff, Https!KeepRenewal
  <1>1. \A tx : KeepsOriginal(tx) => KeepsOriginal(tx)'
    BY <1>0 DEF KeepsOriginal, Steady
  <1>2. Working' /\ Restoring'
    BY <1>0 DEF HttpsInv, Working, Restoring, Https!ScriptAt, Ready
  <1>3. CASE UNCHANGED installed
    <2>1. \A tx : Stands(tx) => Stands(tx)'
      BY <1>0, <1>3 DEF Stands, Steady
    <2>2. Standing' /\ Undoable'
      BY <1>0, <1>1, <1>3, <2>1
         DEF HttpsInv, Standing, Undoable, Of, Https!Touched, Https!ScriptAt
    <2>3. HttpsTyped' /\ Leading'
      BY <1>0, <1>3 DEF HttpsInv, HttpsTyped, Leading, Leads
    <2> QED BY <1>2, <2>2, <2>3 DEF HttpsInv
  <1>4. CASE /\ Https!ScriptAt("moved")
             /\ installed' = [installed EXCEPT ![Https!Current] = ledger.original[Https!Current]]
    <2> DEFINE n == ledger.done + 1
    <2>1. /\ recovery = "journaled" /\ ledger.state # "complete" /\ ledger.done \in 0..(Https!Last - 1)
          /\ ledger.tx \in Nat \ {0} /\ installed \in [Https!Artifact -> Int]
          /\ ledger.original \in [Https!Artifact -> Int]
      BY <1>4 DEF HttpsInv, Working, Https!ScriptAt, Ready, Undoable, HttpsTyped, Https!Last
    <2>2. /\ installed' \in [Https!Artifact -> Int]
          /\ installed'[Https!Order[n]] = ledger.original[Https!Order[n]]
          /\ \A i \in 1..Https!Last : i # n => installed'[Https!Order[i]] = installed[Https!Order[i]]
      <3>1. Https!Current = Https!Order[n] /\ n \in 1..Https!Last /\ Https!Current \in Https!Artifact
        BY <2>1, Places DEF Https!Current, Https!Last
      <3>2. /\ installed' \in [Https!Artifact -> Int]
            /\ installed'[Https!Current] = ledger.original[Https!Current]
            /\ \A b \in Https!Artifact \ {Https!Current} : installed'[b] = installed[b]
        BY <1>4, <2>1, <3>1
      <3> QED BY <3>1, <3>2, Places
    <2>3. Undoable'
      <3>1. \A i \in 1..Https!Last :
               \/ Of(installed, ledger.original, i)'
               \/ (Https!Touched(i) /\ installed[Https!Order[i]] = ledger.tx)'
        BY <1>0, <2>1, <2>2 DEF HttpsInv, Undoable, Of, Https!Touched
      <3> QED BY <3>1, <1>0, <1>1, <2>1 DEF HttpsInv, Undoable
    <2>4. Standing' /\ HttpsTyped'
      BY <1>0, <2>1, <2>2 DEF HttpsInv, Standing, HttpsTyped, Https!ScriptAt
    <2>5. Leads(installed')
      <3>1. PICK tx \in 0..(ledger.tx - 1) : KeepsOriginal(tx)
        BY <2>1 DEF HttpsInv, Undoable
      <3>2. \A i \in 1..Https!Last : ledger.original[Https!Order[i]] \in {tx, Https!Foreign}
        BY <3>1 DEF KeepsOriginal, Steady
      <3>3. \A i \in 1..Https!Last : \/ i < n /\ installed'[Https!Order[i]] \in {ledger.tx, Https!Foreign}
                               \/ installed'[Https!Order[i]] \in {tx, Https!Foreign}
        <4> SUFFICES ASSUME NEW i \in 1..Https!Last, ~(i < n)
                     PROVE  installed'[Https!Order[i]] \in {tx, Https!Foreign}
          BY <1>4, <2>1, <2>2 DEF HttpsInv, Working, Https!ScriptAt, Ready, Https!Last
        <4>1. CASE i = n
          BY <4>1, <2>2, <3>2
        <4>2. CASE i > n
          <5>1. ~Https!Touched(i)
            BY <4>2, <2>1 DEF Https!Touched, Https!Last
          <5>2. Of(installed, ledger.original, i)
            BY <5>1, <2>1 DEF HttpsInv, Undoable
          <5> QED BY <5>2, <4>2, <2>1, <2>2, <3>2 DEF Of, Https!Last
        <4> QED BY <4>1, <4>2, <2>1 DEF Https!Last
      <3>4. 2 \in 1..Https!Last /\ 4 \in 1..Https!Last /\ 5 \in 1..Https!Last /\ n <= 5
        BY <2>1 DEF Https!Last
      <3>5. installed'["panel"] \in {tx, Https!Foreign}
        BY <3>3, <3>4, <2>1, Places
      <3>6. tx > 0 => installed'["tls"] # 0 /\ installed'["link"] # 0
        BY <3>1, <3>3, <3>4, <2>1, Places DEF Https!Foreign
      <3> QED BY <3>1, <3>5, <3>6 DEF Leads, Https!Foreign
    <2> QED BY <1>0, <1>2, <2>3, <2>4, <2>5 DEF HttpsInv, Leading
  <1> QED BY <1>3, <1>4 DEF Https!PowerOff

LEMMA Edits ==
  ASSUME HttpsInv, NEW a \in Https!Artifact, Https!Edit(a)
  PROVE  HttpsInv'
  <1>0. UNCHANGED <<recovery, ledger, torn, script, served, nginx, marker, timer>>
    BY DEF Https!Edit, Https!KeepNginx, Https!KeepRenewal
  <1>1. /\ installed' \in [Https!Artifact -> Int] /\ installed \in [Https!Artifact -> Int]
        /\ ledger.tx \in Nat
        /\ \A b \in Https!Artifact : installed'[b] \in {installed[b], Https!Foreign}
    BY DEF Https!Edit, HttpsInv, HttpsTyped, Https!Foreign
  <1>2. \A i \in 1..Https!Last : installed'[Https!Order[i]] \in {installed[Https!Order[i]], Https!Foreign}
    BY <1>1, Places
  <1>3. \A tx : (Stands(tx) => Stands(tx)') /\ (KeepsOriginal(tx) => KeepsOriginal(tx)')
    BY <1>0, <1>2 DEF Stands, Steady, KeepsOriginal
  <1>4. Standing'
    BY <1>0, <1>3 DEF HttpsInv, Standing, Https!ScriptAt
  <1>5. \A i \in 1..Https!Last : Of(installed, ledger.original, i) => Of(installed, ledger.original, i)'
    BY <1>0, <1>2 DEF Of
  <1>6. Undoable'
    <2>1. \A i \in 1..Https!Last : Https!Touched(i)' = Https!Touched(i)
      BY <1>0 DEF Https!Touched
    <2>2. ASSUME NEW i \in 1..Https!Last, installed'[Https!Order[i]] # installed[Https!Order[i]]
          PROVE  Of(installed, ledger.original, i)'
      BY <1>0, <1>2, <2>2 DEF Of
    <2> QED BY <1>0, <1>3, <1>5, <2>1, <2>2 DEF HttpsInv, Undoable
  <1>7. Working'
    <2>1. script.pc \in Ready =>
             \A i \in 1..ledger.done : installed'[Https!Order[i]] \in {ledger.tx, Https!Foreign}
      <3>1. 1..ledger.done \subseteq 1..Https!Last
        BY DEF HttpsInv, HttpsTyped, Https!Last
      <3> QED BY <1>2, <3>1 DEF HttpsInv, Working
    <2> QED BY <1>0, <2>1 DEF HttpsInv, Working, Https!ScriptAt, Steady
  <1>8. Restoring'
    <2>1. installed["panel"] # ledger.tx => installed'["panel"] # ledger.tx
      BY <1>1 DEF Https!Artifact, Https!Foreign
    <2>2. \A i \in 1..Https!Last : Of(served, ledger.original, i) => Of(served, ledger.original, i)'
      BY <1>0 DEF Of
    <2> QED BY <1>0, <1>5, <2>1, <2>2 DEF HttpsInv, Restoring, Https!ScriptAt
  <1>9. Leading' /\ HttpsTyped'
    <2>1. Leads(installed) => Leads(installed')
      BY <1>1 DEF Leads, Https!Artifact, Https!Foreign
    <2> QED BY <1>0, <1>1, <2>1 DEF HttpsInv, Leading, HttpsTyped, ScriptTyped, Leads
  <1> QED BY <1>4, <1>6, <1>7, <1>8, <1>9 DEF HttpsInv

LEMMA HttpsStep ==
  ASSUME HttpsInv, Https!HttpsNext
  PROVE  HttpsInv'
  BY Starts, Recoveries, Restores, RecordsRestored, Reloads, Disowns, Drops, Renewals,
     Unmarks, EndsHold,
     Makes, Initializes, Befores, Moves, Afters, LoadsChecked, Stages, ProbesAnswer, MarksRenewal,
     Completes, Failures, NginxHolds, PowerFails, Edits DEF Https!HttpsNext

LEMMA HttpsStarts == Https!HttpsInit => HttpsInv
  <1> SUFFICES ASSUME Https!HttpsInit PROVE HttpsInv
    OBVIOUS
  <1>1. HttpsTyped
    <2>1. ScriptTyped
      BY DEF Https!HttpsInit, ScriptTyped, Https!NoScript, Https!Last
    <2>2. ledger \in [tx : Nat, state : {"active", "restored", "recovery-failed", "complete"},
                     done : 0..Https!Last, begun : BOOLEAN, original : [Https!Artifact -> Int]]
      BY DEF Https!HttpsInit, Https!NoLedger, Https!Last
    <2>3. marker \in 0..ledger.tx
      BY DEF Https!HttpsInit, Https!NoLedger
    <2>4. installed \in [Https!Artifact -> Int] /\ served \in [Https!Artifact -> Int]
      BY DEF Https!HttpsInit
    <2>5. nginx \in BOOLEAN /\ timer \in BOOLEAN /\ torn \in BOOLEAN /\ recovery = "none"
      BY DEF Https!HttpsInit
    <2> QED BY <2>1, <2>2, <2>3, <2>4, <2>5 DEF HttpsTyped
  <1>2. Stands(0) /\ ledger.tx = 0
    BY Places DEF Https!HttpsInit, Stands, Steady, Https!NoLedger
  <1>3. Standing
    BY <1>2 DEF Standing
  <1>4. Undoable /\ Working /\ Restoring /\ Leading
    BY DEF Https!HttpsInit, Undoable, Working, Restoring, Leading, Leads, Https!ScriptAt,
       Ready, Https!NoScript,
           Https!NoLedger, Https!Last, Https!Artifact
  <1> QED BY <1>1, <1>3, <1>4 DEF HttpsInv

LEMMA HttpsPromises == ASSUME HttpsInv PROVE Https!RedirectsAreServed /\ Https!ActivationIsWhole
  <1>1. Https!RedirectsAreServed
    BY DEF HttpsInv, HttpsTyped, Leading, Leads, Https!RedirectsAreServed
  <1>2. \A files, tx : Steady(tx, files) => Https!Whole(files, tx)
    BY Places DEF Steady, Https!Whole
  <1>3. Https!ActivationIsWhole
    BY <1>2 DEF HttpsInv, Standing, Stands, Https!ActivationIsWhole
  <1> QED BY <1>1, <1>3

LEMMA HttpsHolds == PanelSpec => [](subject = "https" => HttpsInv)
  <1>1. PanelInit => HttpsInv
    BY HttpsStarts DEF PanelInit
  <1>2. (subject = "https" => HttpsInv) /\ [PanelNext]_AllVars => (subject = "https" => HttpsInv)'
    <2> SUFFICES ASSUME subject = "https" => HttpsInv, [PanelNext]_AllVars, subject' = "https"
                 PROVE  HttpsInv'
      OBVIOUS
    <2>1. subject = "https" /\ (Https!HttpsNext \/ UNCHANGED httpsVars)
      BY DEF AllVars, PanelNext, VideoMoves, PanelMoves, LimitMoves, HttpsMoves, ShopMoves,
             ChatMoves, DocumentMoves, RuleMoves, LandingMoves
    <2>2. CASE Https!HttpsNext
      BY <2>1, <2>2, HttpsStep
    <2>3. CASE UNCHANGED httpsVars
      <3>1. UNCHANGED <<installed, served, nginx, recovery, ledger, marker, timer, script, torn>>
        BY <2>3 DEF httpsVars
      <3>2. \A tx : Stands(tx) = Stands(tx)' /\ KeepsOriginal(tx) = KeepsOriginal(tx)'
        BY <3>1 DEF Stands, Steady, KeepsOriginal
      <3>3. Standing' /\ Undoable'
        BY <2>1, <3>1, <3>2 DEF HttpsInv, Standing, Undoable, Of, Https!Touched, Https!ScriptAt
      <3>4. HttpsTyped' /\ Working' /\ Restoring' /\ Leading'
        BY <2>1, <3>1 DEF HttpsInv, HttpsTyped, ScriptTyped, Working, Restoring, Leading, Leads, Steady,
                          Of, Https!ScriptAt
      <3> QED BY <3>3, <3>4 DEF HttpsInv
    <2> QED BY <2>1, <2>2, <2>3
  <1> QED BY <1>1, <1>2, PTL DEF PanelSpec, AllVars

\* Wherever hy2-enable-https.sh, the power or nginx dies and whoever else writes the files,
\* an activation is there as a whole or not at all once nothing is left to recover, its
\* certificate is renewed or a marker asks for it, and nginx redirects to no TLS it does not
\* serve, unless the restoration of a file has failed.
THEOREM ActivationsAreWhole == PanelSpec => []ActivationIsWhole
  <1>1. (subject = "https" => HttpsInv) => ActivationIsWhole
    BY HttpsPromises DEF ActivationIsWhole
  <1> QED BY <1>1, HttpsHolds, PTL
=============================================================================
