---------------------------- MODULE DocumentJobs ----------------------------
(***************************************************************************)
(* The documents of the chat workspace: uploads, the one thread that       *)
(* extracts and indexes them, and the requests that wake it.  Each method  *)
(* of the store is one SQLite transaction; the thread works between them.  *)
(***************************************************************************)
EXTENDS Naturals, FiniteSets

CONSTANTS Docs,      \* ids of documents, each uploaded once
          Askers,    \* requests under way
          Indexing   \* the embedding model is installed

VARIABLES
    project,   \* whether the project is there
    doc,       \* its documents
    asker,     \* requests that are still to call DocumentJobs.resume
    running,   \* DocumentJobs.running
    drain,     \* the thread: where it is, and the document it works on
    stalled    \* whether the last thread ended before its work did

docVars == <<project, doc, asker, running, drain, stalled>>

States == {"none", "queued", "processing", "ready", "error"}
Absent == [status |-> "none", index |-> "none", image |-> FALSE, vectors |-> FALSE]
Off == [pc |-> "off", doc |-> {}]

DocTypeOK ==
    /\ project \in BOOLEAN /\ running \in BOOLEAN /\ stalled \in BOOLEAN
    /\ doc \in [Docs -> [status : States \cup {"deleted"}, index : States,
                         image : BOOLEAN, vectors : BOOLEAN]]
    /\ asker \subseteq Askers
    /\ drain.pc \in {"off", "next", "empty", "recheck", "leaving", "extract", "index", "dying"}
    /\ drain.doc \subseteq Docs /\ Cardinality(drain.doc) <= 1

DocInit ==
    /\ project = TRUE /\ doc = [d \in Docs |-> Absent]
    /\ asker = {} /\ running = FALSE /\ drain = Off /\ stalled = FALSE

There(d) == doc[d].status \notin {"none", "deleted"}

\* What _next looks for.
ToExtract(d) == doc[d].status \in {"queued", "processing"}
ToIndex(d) == Indexing /\ doc[d].status = "ready" /\ doc[d].index \in {"queued", "processing"}
Waiting == {d \in Docs : ToExtract(d) \/ ToIndex(d)}

-----------------------------------------------------------------------------
(* Requests: a transaction, and then resume()                              *)

Then(a) == a \notin asker /\ asker' = asker \cup {a}
Change(d, new) == doc' = [doc EXCEPT ![d] = new]

\* upload: text is extracted by the request, other kinds by the thread.  The same
\* content again is the document that is there, whatever became of it.
Upload(a, d) ==
    /\ Then(a) /\ project
    /\ \/ /\ doc[d].status = "none"
          /\ \E status \in {"queued", "ready"} :
                Change(d, [Absent EXCEPT !.status = status, !.index = "queued"])
       \/ There(d) /\ UNCHANGED doc
    /\ UNCHANGED <<project, running, drain, stalled>>

Retry(a, d) ==
    /\ Then(a) /\ doc[d].status = "error"
    /\ Change(d, [doc[d] EXCEPT !.status = "queued"])
    /\ UNCHANGED <<project, running, drain, stalled>>

Reindex(a, d) ==
    /\ Then(a) /\ doc[d].status = "ready"
    /\ Change(d, [doc[d] EXCEPT !.index = "queued"])
    /\ UNCHANGED <<project, running, drain, stalled>>

\* The pages that list documents call resume too.
Browse(a) ==
    /\ Then(a)
    /\ UNCHANGED <<project, doc, running, drain, stalled>>

DeleteDocument(d) ==
    /\ There(d)
    /\ Change(d, [Absent EXCEPT !.status = "deleted"])
    /\ UNCHANGED <<project, asker, running, drain, stalled>>

DeleteProject ==
    /\ project /\ \A d \in Docs : ~There(d)
    /\ project' = FALSE
    /\ UNCHANGED <<doc, asker, running, drain, stalled>>

\* resume() waits for the lock, which the thread holds while it looks a second time.
LockedWhileLooking == drain.pc = "recheck"
Locked == drain.pc \in {"recheck", "leaving"}
Resume(a) ==
    /\ a \in asker /\ ~Locked
    /\ asker' = asker \ {a}
    /\ IF running THEN UNCHANGED <<running, drain, stalled>>
       ELSE running' = TRUE /\ drain' = [Off EXCEPT !.pc = "next"] /\ stalled' = FALSE
    /\ UNCHANGED <<project, doc>>

-----------------------------------------------------------------------------
(* The thread                                                              *)

Goes(pc) == drain' = [Off EXCEPT !.pc = pc]

\* _next takes a document, those to extract first, and marks it.
Takes ==
    \E d \in Waiting :
       \/ /\ ToExtract(d)
          /\ Change(d, [doc[d] EXCEPT !.status = "processing"])
          /\ drain' = [pc |-> "extract", doc |-> {d}]
       \/ /\ ToIndex(d) /\ \A e \in Docs : ~ToExtract(e)
          /\ Change(d, [doc[d] EXCEPT !.index = "processing"])
          /\ drain' = [pc |-> "index", doc |-> {d}]

Next ==
    /\ drain.pc = "next"
    /\ Takes \/ (Waiting = {} /\ Goes("empty") /\ UNCHANGED doc)
    /\ UNCHANGED <<project, asker, running, stalled>>

\* _drain looks a second time with the lock held, and gives running up before it
\* gives the lock up.
LookAgain ==
    /\ \/ drain.pc = "empty" /\ Goes("recheck") /\ UNCHANGED doc
       \/ drain.pc = "recheck" /\ Takes
       \/ drain.pc = "recheck" /\ Waiting = {} /\ Goes("leaving") /\ UNCHANGED doc
    /\ UNCHANGED <<project, asker, running, stalled>>

Leave ==
    /\ drain.pc = "leaving"
    /\ running' = FALSE /\ drain' = Off
    /\ UNCHANGED <<project, doc, asker, stalled>>

\* finish_document, of a document that may be gone: the text, perhaps a picture.
Finished(d) ==
    \/ ~There(d) /\ UNCHANGED doc
    \/ /\ There(d)
       /\ \/ \E image \in BOOLEAN :
                Change(d, [doc[d] EXCEPT !.status = "ready", !.index = "queued",
                                         !.image = @ \/ image])
          \/ Change(d, [doc[d] EXCEPT !.status = "error"])

Extract ==
    /\ drain.pc = "extract"
    /\ \E d \in drain.doc : Finished(d)
    /\ Goes("next")
    /\ UNCHANGED <<project, asker, running, stalled>>

\* KnowledgeIndex.index replaces the vectors of a document that is still there; the
\* model may fail, or be busy with a search for 3 s.
Indexed(d) ==
    \/ ~There(d) /\ UNCHANGED doc
    \/ /\ There(d)
       /\ \/ Change(d, [doc[d] EXCEPT !.index = "ready", !.vectors = TRUE])
          \/ Change(d, [doc[d] EXCEPT !.index = "error"])

Index ==
    /\ drain.pc = "index"
    /\ \E d \in drain.doc : Indexed(d)
    /\ Goes("next")
    /\ UNCHANGED <<project, asker, running, stalled>>

\* SQLite is busy for 10 s: the thread ends, and says so.
Fails ==
    /\ drain.pc \in {"next", "recheck", "extract", "index"}
    /\ Goes("dying")
    /\ UNCHANGED <<project, doc, asker, running, stalled>>

GivesUp ==
    /\ drain.pc = "dying"
    /\ running' = FALSE /\ drain' = Off /\ stalled' = TRUE
    /\ UNCHANGED <<project, doc, asker>>

Restart ==
    /\ asker' = {} /\ running' = FALSE /\ drain' = Off /\ stalled' = TRUE
    /\ UNCHANGED <<project, doc>>

DocNext ==
    \/ \E a \in Askers : Browse(a) \/ Resume(a)
    \/ \E a \in Askers, d \in Docs : Upload(a, d) \/ Retry(a, d) \/ Reindex(a, d)
    \/ \E d \in Docs : DeleteDocument(d)
    \/ DeleteProject \/ Next \/ LookAgain \/ Leave \/ Extract \/ Index \/ Fails \/ GivesUp
    \/ Restart

-----------------------------------------------------------------------------
(* Properties                                                              *)

\* A document that waits is not forgotten: the thread is at work, or a request is about
\* to start it.  Only a thread that failed leaves it for the next page of documents.
NoLostWakeup ==
    Waiting # {} => drain.pc # "off" \/ asker # {} \/ stalled

\* A document that was deleted while the thread was at work on it, or a model at its
\* text, leaves neither a picture nor vectors, and does not come back; nor does the
\* project of a document go before it.
DeletedLeavesNothing ==
    /\ \A d \in Docs : ~There(d) => ~doc[d].image /\ ~doc[d].vectors
    /\ ~project => \A d \in Docs : ~There(d)

\* A thread at a time.
OneDrain == running <=> drain.pc # "off"
=============================================================================
