---------------------------- MODULE ChatWorkspace ----------------------------
(***************************************************************************)
(* A conversation of the chat workspace: turns whose answers are streamed  *)
(* into it, stops, branches, quotations and tool calls.  Every method of   *)
(* WorkspaceStore and ToolService is one immediate SQLite transaction, so  *)
(* it is one step; requests interleave between them, and a request that    *)
(* fails leaves the transaction undone.                                    *)
(***************************************************************************)
EXTENDS Naturals, FiniteSets, Sequences, SequencesExt

CONSTANTS Turns,       \* request ids of turns, kept by the client over its retries
          Forks,       \* request ids of branches
          Callers,     \* requests under way
          Calls,       \* request ids of tool calls
          Slots,       \* _EXECUTION_SLOTS
          MaxText,     \* 64000 characters of an answer
          MaxAnswers,  \* 250 answers of a conversation
          MaxQuotes,   \* bound: quotations followed
          Nobody

VARIABLES
    chat,      \* the conversation: its answers, and the turn that holds it
    fresh,     \* callers whose revision of it is still the current one
    turned,    \* receipts of turns
    branches,  \* the answers of the branch a receipt names
    caller,    \* the requests under way
    cited,     \* answers quoted by a memory or a journal entry, as they were
    call,      \* tool runs
    slot,      \* executions under way
    count      \* how often each request was carried out (history variable)

chatVars == <<chat, fresh, turned, branches, caller, cited, call, slot, count>>

Ended == {"completed", "error", "stopped", "interrupted"}
Answer == [by : Turns, text : 0 .. MaxText, status : Ended \cup {"streaming"}]
Idle == [pc |-> "idle", turn |-> Nobody, quote |-> Nobody]

ChatTypeOK ==
    /\ chat \in [there : BOOLEAN, active : Turns \cup {Nobody}, overdue : BOOLEAN,
                 answers : Seq(Answer)]
    /\ Len(chat.answers) <= MaxAnswers
    /\ fresh \subseteq Callers /\ turned \subseteq Turns
    /\ DOMAIN branches \subseteq Forks /\ \A f \in DOMAIN branches : branches[f] \in Seq(Answer)
    /\ \A c \in Callers : caller[c].pc \in {"idle", "searching", "asked", "context",
                                            "streaming", "closing", "quoting"}
    /\ call \in [Calls -> [status : {"none", "proposed", "running", "completed", "error", "uncertain"},
                           old : BOOLEAN]]
    /\ slot \in [Slots -> Calls \cup {Nobody}]
    /\ count \in [turn : [Turns -> Nat], branch : [Forks -> Nat], call : [Calls -> Nat]]

ChatInit ==
    /\ chat = [there |-> TRUE, active |-> Nobody, overdue |-> FALSE, answers |-> <<>>]
    /\ fresh = {} /\ turned = {} /\ cited = {}
    /\ branches = <<>>
    /\ caller = [c \in Callers |-> Idle]
    /\ call = [p \in Calls |-> [status |-> "none", old |-> FALSE]]
    /\ slot = [s \in Slots |-> Nobody]
    /\ count = [turn |-> [r \in Turns |-> 0], branch |-> [f \in Forks |-> 0],
                call |-> [p \in Calls |-> 0]]

-----------------------------------------------------------------------------
(* The store                                                               *)

\* WorkspaceStore.event ends the answer that is being streamed.
EndedAs(item, status) ==
    [item EXCEPT !.active = Nobody, !.overdue = FALSE,
                 !.answers = [@ EXCEPT ![Len(@)].status = status]]

\* WorkspaceStore._get: a turn that has held the conversation for 600 s without a
\* save is taken for dead.
Recovered == IF chat.overdue THEN EndedAs(chat, "interrupted") ELSE chat

\* WorkspaceStore._save gives the conversation another revision and a new updatedAt.
Save(item) == chat' = [item EXCEPT !.overdue = FALSE] /\ fresh' = {}

\* A transaction that reads the conversation and succeeds keeps the recovery.
Read(readers) ==
    /\ chat.there /\ chat' = Recovered
    /\ fresh' = (IF chat.overdue THEN {} ELSE fresh) \cup readers

\* WorkspaceStore._check.  A recovery gives a revision nobody has sent, and the
\* conflict undoes it: an overdue turn holds until something reads the conversation.
Checked(c) == chat.there /\ c \in fresh /\ chat.active = Nobody

Becomes(c, pc) == caller' = [caller EXCEPT ![c].pc = pc]
Ends(c) == caller' = [caller EXCEPT ![c] = Idle]
Same(c, pc) == Becomes(c, pc) /\ UNCHANGED <<chat, fresh>>

toolVars == <<call, slot>>
turnVars == <<turned, branches, cited, count>>

-----------------------------------------------------------------------------
(* A turn                                                                  *)

\* GET of the conversation, of the list or of an export.
Look(c) ==
    /\ caller[c].pc = "idle"
    /\ Read({c})
    /\ UNCHANGED <<turnVars, caller, toolVars>>

\* POST turns: turn_replay answers a request that was already carried out.
Post(c, r) ==
    /\ caller[c].pc = "idle"
    /\ IF r \in turned
       THEN Read({c}) /\ UNCHANGED caller
       ELSE /\ caller' = [caller EXCEPT ![c] = [Idle EXCEPT !.pc = "searching", !.turn = r]]
            /\ UNCHANGED <<chat, fresh>>
    /\ UNCHANGED <<turnVars, toolVars>>

\* A search of the knowledge base reads the conversation first; nothing is written.
Search(c) ==
    /\ caller[c].pc = "searching"
    /\ chat.overdue
    /\ Read({})
    /\ UNCHANGED <<turnVars, caller, toolVars>>

\* WorkspaceStore.begin.  A turn is refused for its revision, for the turn under way,
\* for a conversation that is full, or for a document or a tool result it may not use.
Begin(c) ==
    LET r == caller[c].turn
    IN /\ caller[c].pc = "searching"
       /\ \/ /\ r \in turned /\ Read({c})
             /\ Ends(c)
             /\ UNCHANGED turnVars
          \/ /\ r \notin turned \/ ~chat.there
             /\ Ends(c)
             /\ UNCHANGED <<chat, fresh, turnVars>>
          \/ /\ r \notin turned /\ Checked(c)
             /\ Len(chat.answers) < MaxAnswers
             /\ Save([chat EXCEPT !.active = r,
                          !.answers = Append(@, [by |-> r, text |-> 0, status |-> "streaming"])])
             /\ turned' = turned \cup {r}
             /\ count' = [count EXCEPT !.turn[r] = @ + 1]
             /\ Becomes(c, "asked")
             /\ UNCHANGED <<branches, cited>>
       /\ UNCHANGED toolVars

\* WorkspaceStore.event: an event is recorded while its turn holds the conversation.
HeldOnce(c) == chat.there /\ ~chat.overdue /\ caller[c].turn \in turned
Holds(c) == chat.there /\ ~chat.overdue /\ chat.active = caller[c].turn
Records(c, item) == Holds(c) /\ Save(item)
Lost(c) == ~Holds(c) /\ IF chat.there THEN Read({}) ELSE UNCHANGED <<chat, fresh>>
RecordsEnd(c, status) == Records(c, EndedAs(chat, status)) \/ Lost(c)

\* dispatch_stream has no slot left, which ends the turn; or the client is gone before
\* the stream is first read, and nothing of generate runs.
Dispatch(c) ==
    /\ caller[c].pc = "asked"
    /\ \/ Same(c, "context")
       \/ RecordsEnd(c, "error") /\ Ends(c)
       \/ Ends(c) /\ UNCHANGED <<chat, fresh>>
    /\ UNCHANGED <<turnVars, toolVars>>

\* prepare_context: summaries of older answers, each saved while the turn still holds
\* the conversation, then the event that opens the stream.
Prepare(c) ==
    /\ caller[c].pc = "context"
    /\ \/ Records(c, chat) /\ UNCHANGED caller
       \/ Records(c, chat) /\ Becomes(c, "streaming")
       \/ Lost(c) /\ Becomes(c, "closing")
    /\ UNCHANGED <<turnVars, toolVars>>

\* generate persists each event of the provider before it passes it on, and stops
\* when its turn has lost the conversation.
Deliver(c) ==
    /\ caller[c].pc = "streaming"
    /\ \/ /\ Holds(c) /\ Last(chat.answers).text < MaxText
          /\ Records(c, [chat EXCEPT !.answers[Len(chat.answers)].text = @ + 1])
          /\ UNCHANGED caller
       \/ /\ \E status \in {"completed", "error"} : Records(c, EndedAs(chat, status))
          /\ Becomes(c, "closing")
       \/ Lost(c) /\ Becomes(c, "closing")
    /\ UNCHANGED <<turnVars, toolVars>>

\* A provider that fails, an answer too long, the 480 s: the error is persisted.  The
\* client leaves, or SQLite is busy for 10 s: it is not.
Fail(c) ==
    /\ caller[c].pc \in {"context", "streaming"}
    /\ \/ RecordsEnd(c, "error") /\ Becomes(c, "closing")
       \/ Same(c, "closing")
    /\ UNCHANGED <<turnVars, toolVars>>

\* The finally clause, behind a shield; SQLite may be busy then too.
Close(c) ==
    /\ caller[c].pc = "closing"
    /\ RecordsEnd(c, "interrupted") \/ UNCHANGED <<chat, fresh>>
    /\ Ends(c)
    /\ UNCHANGED <<turnVars, toolVars>>

-----------------------------------------------------------------------------
(* Other requests                                                          *)

StopTurn(r) ==
    /\ chat.there /\ chat.active = r
    /\ Save(EndedAs(chat, IF chat.overdue THEN "interrupted" ELSE "stopped"))
    /\ UNCHANGED <<turnVars, caller, toolVars>>

\* update and edit_summary.
Edit(c) ==
    /\ caller[c].pc = "idle" /\ Checked(c)
    /\ Save(chat)
    /\ UNCHANGED <<turnVars, caller, toolVars>>

\* delete takes the tool runs of the conversation with it, those under way included.
Delete(c) ==
    /\ caller[c].pc = "idle" /\ Checked(c)
    /\ chat' = [chat EXCEPT !.there = FALSE, !.answers = <<>>] /\ fresh' = {}
    /\ call' = [p \in Calls |-> [status |-> "none", old |-> FALSE]]
    /\ UNCHANGED <<turnVars, caller, slot>>

\* fork copies the answers up to one of them; its receipt answers a retry.
Fork(c, f, n) ==
    /\ caller[c].pc = "idle"
    /\ f \notin DOMAIN branches
    /\ Checked(c) /\ n <= Len(chat.answers)
    /\ branches' = [g \in DOMAIN branches \cup {f} |->
                       IF g = f THEN SubSeq(chat.answers, 1, n) ELSE branches[g]]
    /\ count' = [count EXCEPT !.branch[f] = @ + 1]
    /\ UNCHANGED <<chat, fresh, turned, cited, caller, toolVars>>

\* save_memory quotes a completed answer, in one transaction.
Remember(n) ==
    /\ Cardinality(cited) < MaxQuotes
    /\ chat.there /\ n \in 1 .. Len(chat.answers)
    /\ Recovered.answers[n].status = "completed"
    /\ Read({})
    /\ cited' = cited \cup {[at |-> n, answer |-> Recovered.answers[n]]}
    /\ UNCHANGED <<turned, branches, count, caller, toolVars>>

\* to_journal reads the answer, and then writes the entry, into another file.
Quote(c, n) ==
    /\ caller[c].pc = "idle" /\ Cardinality(cited) < MaxQuotes
    /\ chat.there /\ n \in 1 .. Len(chat.answers)
    /\ Recovered.answers[n].text > 0 /\ Recovered.answers[n].status # "streaming"
    /\ Read({})
    /\ caller' = [caller EXCEPT ![c] = [Idle EXCEPT !.pc = "quoting",
                      !.quote = [at |-> n, answer |-> Recovered.answers[n]]]]
    /\ UNCHANGED <<turnVars, toolVars>>

WriteEntry(c) ==
    /\ caller[c].pc = "quoting"
    /\ cited' = cited \cup {caller[c].quote}
    /\ Ends(c)
    /\ UNCHANGED <<chat, fresh, turned, branches, count, toolVars>>

-----------------------------------------------------------------------------
(* Tool calls                                                              *)

\* propose: the run's id is made of the conversation and the request id.
Propose(p) ==
    /\ Recovered.active = Nobody
    /\ Read({})
    /\ call' = IF call[p].status = "none" THEN [call EXCEPT ![p].status = "proposed"] ELSE call
    /\ UNCHANGED <<turnVars, caller, slot>>

\* execute and _claim: a run is executed by the request that finds it proposed.
Claimable(p) == call[p].status = "proposed"
Claim(s, p) ==
    /\ slot[s] = Nobody
    /\ Claimable(p)
    /\ Read({})
    /\ call' = [call EXCEPT ![p] = [status |-> "running", old |-> FALSE]]
    /\ slot' = [slot EXCEPT ![s] = p]
    /\ count' = [count EXCEPT !.call[p] = @ + 1]
    /\ UNCHANGED <<turned, branches, cited, caller>>

\* _finish: a run that is gone is not written again, nor is one SQLite is too busy for.
FinishCall(s) ==
    /\ slot[s] # Nobody
    /\ slot' = [slot EXCEPT ![s] = Nobody]
    /\ \/ /\ call[slot[s]].status # "none"
          /\ \E status \in {"completed", "error", "uncertain"} :
                call' = [call EXCEPT ![slot[s]] = [status |-> status, old |-> FALSE]]
       \/ UNCHANGED call
    /\ UNCHANGED <<chat, fresh, turnVars, caller>>

\* runs: a call that was running for 600 s is listed as one of which nobody knows.
ListCalls ==
    /\ Read({})
    /\ call' = [p \in Calls |-> IF call[p].status = "running" /\ call[p].old
                                THEN [call[p] EXCEPT !.status = "uncertain"] ELSE call[p]]
    /\ UNCHANGED <<turnVars, caller, slot>>

\* delete_run; a later request may propose the same call again.
DeleteCall(p) ==
    /\ call[p].status \notin {"none", "running"}
    /\ call' = [call EXCEPT ![p] = [status |-> "none", old |-> FALSE]]
    /\ count' = [count EXCEPT !.call[p] = 0]
    /\ UNCHANGED <<chat, fresh, turned, branches, cited, caller, slot>>

-----------------------------------------------------------------------------
(* Time and crashes                                                        *)

\* 600 s pass without a save: a dead process, or one that was suspended.
TurnAges ==
    /\ chat.active # Nobody /\ ~chat.overdue
    /\ chat' = [chat EXCEPT !.overdue = TRUE]
    /\ UNCHANGED <<fresh, turnVars, caller, toolVars>>

\* Every tool has a timeout of 45 s at most: a run grows old when nobody executes it.
CallAges(p) ==
    /\ call[p].status = "running" /\ ~call[p].old
    /\ \A s \in Slots : slot[s] # p
    /\ call' = [call EXCEPT ![p].old = TRUE]
    /\ UNCHANGED <<chat, fresh, turnVars, caller, slot>>

Dies ==
    /\ caller' = [c \in Callers |-> Idle]
    /\ slot' = [s \in Slots |-> Nobody]
    /\ UNCHANGED <<chat, fresh, turnVars, call>>

TurnNext ==
    \/ \E c \in Callers :
         \/ Look(c) \/ Search(c) \/ Begin(c) \/ Dispatch(c) \/ Prepare(c) \/ Deliver(c)
         \/ Fail(c) \/ Close(c) \/ Edit(c) \/ Delete(c) \/ WriteEntry(c)
         \/ \E r \in Turns : Post(c, r)
         \/ \E f \in Forks, n \in 0 .. MaxAnswers : Fork(c, f, n)
         \/ \E n \in 1 .. MaxAnswers : Quote(c, n)
    \/ \E r \in Turns : StopTurn(r)
    \/ \E n \in 1 .. MaxAnswers : Remember(n)
    \/ TurnAges \/ Dies

ToolNext ==
    \/ \E p \in Calls : Propose(p) \/ DeleteCall(p) \/ CallAges(p)
    \/ \E s \in Slots : FinishCall(s) \/ \E p \in Calls : Claim(s, p)
    \/ ListCalls

ChatNext == TurnNext \/ ToolNext

-----------------------------------------------------------------------------
(* Properties                                                              *)

\* What a memory or a journal entry quotes is what the conversation says: an answer
\* that ended is never written again, by a stream that lost its turn, a late stop or a
\* recovery, and none is quoted before its end.
QuotesStayTrue ==
    \A q \in cited : chat.there => /\ q.at <= Len(chat.answers)
                                   /\ chat.answers[q.at] = q.answer

\* However often a client repeats a request, and whatever failed before its answer
\* came: a turn is asked, a branch made and a tool called at most once.
NothingRunsTwice ==
    /\ \A r \in Turns : count.turn[r] <= 1
    /\ \A f \in Forks : count.branch[f] <= 1
    /\ \A p \in Calls : count.call[p] <= 1

\* An answer is shown as being streamed exactly as long as its turn holds the
\* conversation, and no branch begins with one.
StreamsAreHeld ==
    /\ \A n \in 1 .. Len(chat.answers) :
          chat.answers[n].status = "streaming" <=>
              n = Len(chat.answers) /\ chat.active = chat.answers[n].by
    /\ \A f \in DOMAIN branches : \A n \in 1 .. Len(branches[f]) :
          branches[f][n].status # "streaming"
=============================================================================
