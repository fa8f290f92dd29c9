------------------------------ MODULE Landings ------------------------------
(***************************************************************************)
(* Residential exits: a registry of nodes that administrators edit, the    *)
(* accounts that may use some of them and have chosen one, and the static  *)
(* configuration that is derived from both files.  Whoever writes a file   *)
(* holds usage_lock; a probe of a node runs between two looks at them.     *)
(***************************************************************************)
EXTENDS Naturals, FiniteSets

CONSTANTS Owners,      \* accounts
          Nodes,       \* ids of nodes
          Endpoints,   \* what a node's fields may say
          Operators,   \* requests under way
          MaxStamp,    \* bound: writes of either file, by which time goes
          Nobody

VARIABLES
    owner,     \* the accounts' landing fields, Nobody for an account that is not there
    registry,  \* landing_egresses.json
    route,     \* the exit the static configuration gives an account
    op,        \* the requests under way
    stamp,     \* the clock
    good,      \* requests' probes that found the exit they expected (history variable)
    chosen,    \* the node an account's own selection meant (history variable)
    behind     \* whether a synchronisation failed since the last that did not (history variable)

landingVars == <<owner, registry, route, op, stamp, good, chosen, behind>>

Missing == [at |-> Nobody, enabled |-> FALSE, health |-> 0]
Newcomer == [active |-> TRUE, allowed |-> {}, selected |-> Nobody, changed |-> 0]
Waiting == [pc |-> "idle", owner |-> Nobody, node |-> Nobody, page |-> Newcomer,
            seen |-> Missing, list |-> <<>>, undo |-> Newcomer]

\* health is the time of the last check; an endpoint says whether it was a good one.
LandingTypeOK ==
    /\ registry \in [Nodes -> [at : Endpoints \cup {Nobody}, enabled : BOOLEAN,
                               health : 0 .. MaxStamp]]
    /\ \A u \in Owners : owner[u] # Nobody =>
          /\ owner[u].active \in BOOLEAN /\ owner[u].allowed \subseteq Nodes
          /\ owner[u].selected \in Nodes \cup {Nobody} /\ owner[u].changed \in 0 .. MaxStamp
    /\ route \in [Owners -> Endpoints \cup {Nobody, "block"}]
    /\ \A p \in Operators : op[p].pc \in {"idle", "open", "probe", "choose", "note", "sync", "restore",
                                          "resync", "settle"}

LandingInit ==
    /\ owner \in [Owners -> {Newcomer}]
    /\ registry = [n \in Nodes |-> Missing]
    /\ route = [u \in Owners |-> Nobody]
    /\ op = [p \in Operators |-> Waiting]
    /\ stamp = 0 /\ good = {} /\ chosen = [u \in Owners |-> Nobody] /\ behind = FALSE

-----------------------------------------------------------------------------

There(n) == registry[n].at # Nobody
Usable(n) == registry[n].enabled

\* _build_landing_access_plan and _landing_rules: an account with no exit it can use is
\* blocked, never sent out through the server itself.
Plan == [u \in Owners |->
    IF owner[u] = Nobody THEN Nobody
    ELSE IF ~owner[u].active \/ ~\E n \in owner[u].allowed : There(n) THEN Nobody
    ELSE IF owner[u].selected \in {n \in owner[u].allowed : Usable(n)}
    THEN registry[owner[u].selected].at ELSE "block"]

Locked == \E p \in Operators : op[p].pc \in {"sync", "restore", "resync", "settle"}
Goes(p, pc) == op' = [op EXCEPT ![p].pc = pc]
Done(p) == op' = [op EXCEPT ![p] = Waiting]
Passes == stamp < MaxStamp /\ stamp' = stamp + 1
Files == <<owner, registry>>
History == <<good, chosen>>

\* The pages, with the revisions they carry: of an account, and of the whole registry.
Open(p, u) ==
    /\ op[p].pc = "idle" /\ owner[u] # Nobody
    /\ op' = [op EXCEPT ![p] = [Waiting EXCEPT !.pc = "open", !.owner = u,
                                               !.page = owner[u], !.list = registry]]
    /\ UNCHANGED <<Files, route, stamp, History, behind>>

\* _select and _check look at the node, without the lock, and probe it.
MayChoose(u, n) == owner[u] # Nobody /\ n \in owner[u].allowed /\ Usable(n)
Current(p) == owner[op[p].owner] = op[p].page
Look(p, n, pc) ==
    /\ op[p].pc = "open"
    /\ There(n)
    /\ op' = [op EXCEPT ![p].pc = pc, ![p].node = n, ![p].seen = registry[n]]
    /\ UNCHANGED <<Files, route, stamp, History, behind>>
Select(p, n) ==
    /\ Look(p, n, "probe")
    /\ Current(p) /\ MayChoose(op[p].owner, n) /\ owner[op[p].owner].active
Check(p, n) == Look(p, n, "note")

Probe(p) ==
    /\ op[p].pc = "probe"
    /\ \/ Goes(p, "choose") /\ good' = good \cup {[by |-> p, node |-> op[p].node, at |-> op[p].seen.at]}
       \/ Done(p) /\ UNCHANGED good
    /\ UNCHANGED <<Files, route, stamp, chosen, behind>>

\* _check records what it found, of the node it probed.
StillUsable(p) == Usable(op[p].node)
Unchanged(p) == registry[op[p].node] = op[p].seen
Record(p) ==
    /\ op[p].pc = "note" /\ ~Locked
    /\ \/ /\ Unchanged(p) /\ Passes
          /\ registry' = [registry EXCEPT ![op[p].node].health = stamp']
       \/ ~Unchanged(p) /\ UNCHANGED <<stamp, registry>>
    /\ Done(p)
    /\ UNCHANGED <<owner, route, History, behind>>

\* The account is saved first; the configuration follows under the same lock.
Saves(p, u, cfg) ==
    /\ owner' = [owner EXCEPT ![u] = cfg]
    /\ op' = [op EXCEPT ![p].pc = "sync", ![p].undo = owner[u]]

Choose(p) ==
    LET u == op[p].owner  n == op[p].node
    IN /\ op[p].pc = "choose" /\ ~Locked
       /\ \/ /\ Current(p) /\ MayChoose(u, n) /\ Unchanged(p) /\ Passes
             /\ Saves(p, u, [owner[u] EXCEPT !.selected = n, !.changed = stamp'])
             /\ chosen' = [chosen EXCEPT ![u] = [by |-> p, node |-> n, at |-> registry[n].at]]
          \/ /\ ~(Current(p) /\ MayChoose(u, n) /\ Unchanged(p))
             /\ Done(p)
             /\ UNCHANGED <<owner, stamp, chosen>>
       /\ UNCHANGED <<registry, route, good, behind>>

\* _user_access; a selection that is no longer allowed is dropped.
Grant(p, nodes) ==
    LET u == op[p].owner
    IN /\ op[p].pc = "open" /\ ~Locked
       /\ owner[u] # Nobody /\ Current(p) /\ (\A n \in nodes : Usable(n)) /\ Passes
       /\ Saves(p, u, [owner[u] EXCEPT !.allowed = nodes,
                           !.selected = IF @ \in nodes THEN @ ELSE Nobody])
       /\ UNCHANGED <<registry, route, History, behind>>

\* create, perhaps with a first exit, which nobody probed.
Create(p, u, nodes) ==
    /\ op[p].pc = "idle" /\ ~Locked
    /\ owner[u] = Nobody /\ Cardinality(nodes) <= 1 /\ (\A n \in nodes : Usable(n)) /\ Passes
    /\ owner' = [owner EXCEPT ![u] = [Newcomer EXCEPT !.allowed = nodes,
                     !.selected = IF nodes = {} THEN Nobody ELSE CHOOSE n \in nodes : TRUE]]
    /\ op' = [op EXCEPT ![p] = [Waiting EXCEPT !.pc = "sync", !.owner = u, !.undo = Nobody]]
    /\ UNCHANGED <<registry, route, History, behind>>

\* _sync_static_access_from_users.  A failure may come after Xray's file was written.
\* A saved account is restored then, and the configuration is derived once more.
Sync(p) ==
    /\ op[p].pc = "sync"
    /\ \/ Done(p) /\ route' = Plan /\ behind' = FALSE
       \/ Goes(p, "restore") /\ route' \in {route, Plan} /\ behind' = TRUE
    /\ UNCHANGED <<Files, stamp, History>>
Restore(p) ==
    /\ op[p].pc = "restore"
    /\ owner' = [owner EXCEPT ![op[p].owner] = op[p].undo]
    /\ chosen' = [chosen EXCEPT ![op[p].owner] = Nobody]
    /\ Goes(p, "resync")
    /\ UNCHANGED <<registry, route, stamp, good, behind>>

\* The registry is not restored: _save and _delete leave what they wrote.
Settle(p) ==
    /\ op[p].pc \in {"resync", "settle"}
    /\ \/ route' = Plan /\ behind' = FALSE
       \/ route' \in {route, Plan} /\ behind' = TRUE
    /\ Done(p)
    /\ UNCHANGED <<Files, stamp, History>>

\* _save keeps the health of the node it replaces.
SaveNode(p, n, at, enabled) ==
    /\ op[p].pc = "open" /\ ~Locked
    /\ registry = op[p].list /\ Passes
    /\ registry' = [registry EXCEPT ![n].at = at, ![n].enabled = enabled]
    /\ Goes(p, "settle")
    /\ UNCHANGED <<owner, route, History, behind>>

Selected(n) == \E u \in Owners : owner[u] # Nobody /\ owner[u].selected = n
Referenced(n) ==
    \E u \in Owners : owner[u] # Nobody /\ (n \in owner[u].allowed \/ owner[u].selected = n)
DeleteNode(p, n) ==
    /\ op[p].pc = "open" /\ ~Locked
    /\ ~Referenced(n) /\ There(n) /\ Passes
    /\ registry' = [registry EXCEPT ![n] = Missing]
    /\ Goes(p, "settle")
    /\ UNCHANGED <<owner, route, History, behind>>

\* Accounts are paused, resumed and deleted; the limiter derives the configuration anew.
Others(u) ==
    /\ ~Locked /\ owner[u] # Nobody /\ Passes
    /\ \/ owner' = [owner EXCEPT ![u].active = ~@] /\ UNCHANGED chosen
       \/ owner' = [owner EXCEPT ![u] = Nobody] /\ chosen' = [chosen EXCEPT ![u] = Nobody]
    /\ behind' = TRUE
    /\ UNCHANGED <<registry, route, op, good>>
Poll ==
    /\ ~Locked
    /\ route' = Plan /\ behind' = FALSE
    /\ UNCHANGED <<Files, op, stamp, History>>

\* The request or its process dies, and a lock it held with it.
Dies(p) ==
    /\ op[p].pc # "idle"
    /\ Done(p)
    /\ behind' = (behind \/ op[p].pc \in {"sync", "restore", "resync", "settle"})
    /\ UNCHANGED <<Files, route, stamp, History>>

LandingNext ==
    \/ \E p \in Operators :
         \/ Probe(p) \/ Record(p) \/ Choose(p) \/ Sync(p) \/ Restore(p) \/ Settle(p) \/ Dies(p)
         \/ \E u \in Owners : Open(p, u) \/ \E nodes \in SUBSET Nodes : Create(p, u, nodes)
         \/ \E n \in Nodes : \/ Select(p, n) \/ Check(p, n) \/ DeleteNode(p, n)
                             \/ \E at \in Endpoints, enabled \in BOOLEAN : SaveNode(p, n, at, enabled)
         \/ \E nodes \in SUBSET Nodes : Grant(p, nodes)
    \/ \E u \in Owners : Others(u)
    \/ Poll

-----------------------------------------------------------------------------
(* Properties                                                              *)

\* Whatever administrators do to nodes and accounts meanwhile, and whatever fails in
\* between, an account may use nodes that are there, and has chosen one of them.
LandingsAreReal ==
    \A u \in Owners : owner[u] # Nobody =>
        /\ \A n \in owner[u].allowed : There(n)
        /\ owner[u].selected \in owner[u].allowed \cup {Nobody}

\* An account that chose an exit chose the endpoint that answered the probe of its
\* request, not one an administrator wrote while the probe was under way.
SelectionIsProbed ==
    \A u \in Owners : chosen[u] # Nobody => chosen[u] \in good

\* Unless a synchronisation failed, or one is due, the configuration sends an account
\* where its files say, and one without a usable exit nowhere.
RoutesFollowFiles == ~behind /\ ~Locked => route = Plan
=============================================================================
