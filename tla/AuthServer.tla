------------------------------ MODULE AuthServer ------------------------------
(***************************************************************************)
(* The authorization server of Hysteria (hysteria/auth_service.py): the    *)
(* loop that accepts connections, its workers, the one worker that turns   *)
(* connections away, and the watchdog that cuts those past their deadline. *)
(* A connection's deadline is counted in ticks of the clock; a client may  *)
(* send a byte now and then for ever.                                      *)
(***************************************************************************)
EXTENDS FiniteSetsExt, Sequences, SequencesExt, Integers

CONSTANTS Conns, MaxWorkers, MaxPending, MaxRejects, Deadline

VARIABLES conn,         \* the connections
          backlog,      \* those submitted to the workers
          free,         \* _capacity
          rejects,      \* _reject_capacity
          watchdog,
          server        \* "serving", "closing" or "closed"

serverVars == <<conn, backlog, free, rejects, watchdog, server>>

Never == -1
NoConn == [pc |-> "none", left |-> 0, armed |-> FALSE, cut |-> FALSE, drips |-> FALSE]

ServerInit ==
    /\ conn = [c \in Conns |-> NoConn] /\ backlog = <<>>
    /\ free = MaxWorkers + MaxPending /\ rejects = MaxRejects
    /\ watchdog = [pc |-> "scan", until |-> Never, woken |-> FALSE, batch |-> {}]
    /\ server = "serving"

-----------------------------------------------------------------------------

In(pc) == {c \in Conns : conn[c].pc = pc}
Open == Conns \ (In("none") \cup In("done"))
Armed == {c \in Conns : conn[c].armed}

\* Mutant: the watchdog is not told of a change.
Unnotified == watchdog

\* _condition.notify, by register and unregister.
Notified == [watchdog EXCEPT !.woken = (@ \/ watchdog.pc = "wait")]

\* get_request: the connection is registered.  A submission may fail.
Registered(c, pc, drips) ==
    [conn EXCEPT ![c] = [pc |-> pc, left |-> Deadline, armed |-> TRUE, cut |-> FALSE, drips |-> drips]]

\* unregister and close.
Closed(c) == [conn EXCEPT ![c] = [NoConn EXCEPT !.pc = "done"]]

\* process_request never waits: for a worker, or for the one that rejects.
Accept(c) ==
    /\ server = "serving" /\ conn[c].pc = "none" /\ watchdog' = Notified
    /\ \E drips \in BOOLEAN :
        \/ /\ free > 0 /\ free' = free - 1 /\ UNCHANGED rejects
           /\ conn' = Registered(c, "queued", drips) /\ backlog' = Append(backlog, c)
        \/ /\ free = 0 /\ rejects > 0 /\ rejects' = rejects - 1
           /\ conn' = Registered(c, "rejected", drips) /\ UNCHANGED <<free, backlog>>
        \/ conn' = Closed(c) /\ UNCHANGED <<free, rejects, backlog>>
    /\ UNCHANGED server

Take ==
    /\ backlog # <<>> /\ Cardinality(In("working")) < MaxWorkers
    /\ conn' = [conn EXCEPT ![Head(backlog)].pc = "working"] /\ backlog' = Tail(backlog)
    /\ UNCHANGED <<free, rejects, watchdog, server>>

\* A handler ends when its client lets it, when it comes after the deadline
\* (setup), or when its socket was cut; what it raises is swallowed.
Handled(c) ==
    /\ conn[c].pc = "working" /\ (~conn[c].drips \/ conn[c].cut)
    /\ conn' = Closed(c) /\ free' = free + 1 /\ watchdog' = Notified
    /\ UNCHANGED <<backlog, rejects, server>>

\* _reject_overload has a drain deadline of its own.
Rejected(c) ==
    /\ conn[c].pc = "rejected"
    /\ conn' = Closed(c) /\ rejects' = rejects + 1 /\ watchdog' = Notified
    /\ UNCHANGED <<backlog, free, server>>

-----------------------------------------------------------------------------
(* The watchdog: it decides under its lock and cuts without it.            *)

Expired == {c \in Armed : conn[c].left = 0}
Scan ==
    /\ watchdog.pc = "scan" /\ server # "closed"
    /\ \/ /\ Expired = {}
          /\ watchdog' = [watchdog EXCEPT !.pc = "wait", !.woken = FALSE, !.until =
                            IF Armed = {} THEN Never ELSE Min({conn[c].left : c \in Armed})]
          /\ UNCHANGED conn
       \/ /\ Expired # {}
          /\ watchdog' = [watchdog EXCEPT !.pc = "cut", !.batch = Expired]
          /\ conn' = [c \in Conns |-> IF c \in Expired THEN [conn[c] EXCEPT !.armed = FALSE] ELSE conn[c]]
    /\ UNCHANGED <<backlog, free, rejects, server>>

Wake ==
    /\ watchdog.pc = "wait" /\ (watchdog.woken \/ watchdog.until = 0)
    /\ watchdog' = [watchdog EXCEPT !.pc = "scan", !.woken = FALSE, !.until = Never]
    /\ UNCHANGED <<conn, backlog, free, rejects, server>>

\* A socket that was closed meanwhile is no error.
Cut(c) ==
    /\ watchdog.pc = "cut" /\ c \in watchdog.batch
    /\ watchdog' = [watchdog EXCEPT !.batch = @ \ {c}, !.pc = IF watchdog.batch = {c} THEN "scan" ELSE @]
    /\ conn' = (IF c \in Open THEN [conn EXCEPT ![c].cut = TRUE] ELSE conn)
    /\ UNCHANGED <<backlog, free, rejects, server>>

Tick ==
    /\ \E c \in Conns : conn[c].left > 0
    /\ conn' = [c \in Conns |-> [conn[c] EXCEPT !.left = IF @ > 0 THEN @ - 1 ELSE 0]]
    /\ watchdog' = [watchdog EXCEPT !.until = IF @ > 0 THEN @ - 1 ELSE @]
    /\ UNCHANGED <<backlog, free, rejects, server>>

\* server_close waits for the workers, and then ends the watchdog.
StopServing ==
    /\ server = "serving" /\ server' = "closing"
    /\ UNCHANGED <<conn, backlog, free, rejects, watchdog>>

CloseWatchdog ==
    /\ server = "closing" /\ Open = {} /\ server' = "closed"
    /\ UNCHANGED <<conn, backlog, free, rejects, watchdog>>

ServerStep == Take \/ \E c \in Conns : Rejected(c)
WatchdogStep == Scan \/ Wake \/ \E c \in Conns : Cut(c)

ServerNext ==
    \/ \E c \in Conns : Accept(c) \/ Handled(c)
    \/ ServerStep \/ WatchdogStep \/ Tick \/ StopServing \/ CloseWatchdog

-----------------------------------------------------------------------------
(* Properties *)

\* A permit is out for every connection that holds one, and for no other.
ServerTypeOK ==
    /\ \A c \in Conns : /\ conn[c].left \in 0..Deadline
                        /\ conn[c].pc \in {"none", "queued", "working", "rejected", "done"}
    /\ ToSet(backlog) = In("queued") /\ Len(backlog) = Cardinality(In("queued"))
    /\ free = MaxWorkers + MaxPending - Cardinality(In("queued") \cup In("working"))
    /\ rejects = MaxRejects - Cardinality(In("rejected"))
    /\ watchdog.batch \subseteq Conns /\ watchdog.until \in Never..Deadline

\* Every connection ends, however slowly its client sends and however many came before
\* it, and a server that is being closed is closed.
EveryConnectionEnds == <>[](Open = {} /\ server # "closing")
=============================================================================
