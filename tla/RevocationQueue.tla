--------------------------- MODULE RevocationQueue ---------------------------
(***************************************************************************)
(* hysteria/revocation_queue.py: the durable queue of revocation side      *)
(* effects.  A queue is a function from the ids of the unfinished tasks to *)
(* tasks; every operator below is one critical section of the module,      *)
(* between the load of the file and its save.  Deadlines are held as time  *)
(* left (next_attempt_at as "wait", lease_until as "lease", expires_at as  *)
(* "ttl"); the attempt counter, which nothing reads, is left out.          *)
(***************************************************************************)
EXTENDS StateStore, FiniteSets

CONSTANTS
    TaskMaxEntries,    \* TASK_MAX_ENTRIES
    TaskTTL,           \* TASK_TTL_SECONDS
    ClaimLease,        \* CLAIM_LEASE_SECONDS
    SecondKickDelay,   \* SECOND_KICK_DELAY_SECONDS
    RetryDelay,        \* RETRY_DELAY_SECONDS
    Services           \* ALLOWED_STATIC_SERVICES

ASSUME QueueAssumption ==
    /\ TaskMaxEntries \in Nat
    /\ TaskTTL \in Nat \ {0}
    /\ ClaimLease \in Nat
    /\ SecondKickDelay \in Nat
    /\ RetryDelay \in Nat

\* Digests stand for the hashes stored in a task.  A credential generation has
\* rev = 0; the digest of a complete account (a deletion's previous_generation)
\* has the account's own gen and rev; DeleteTarget is _DELETE_TARGET_GENERATION.
Digest == [gen : Nat, rev : Nat]
DeleteTarget == [gen |-> 0, rev |-> 1]

Task == [previous : Digest, target : Digest,
         wait : Nat, lease : Nat, ttl : Nat,
         kicks : 0..2, static : SUBSET Services]

IsDelete(task) == task.target = DeleteTarget

NewTask(previous, target) ==
    [previous |-> previous, target |-> target,
     wait |-> 0, lease |-> 0, ttl |-> TaskTTL,
     kicks |-> 0, static |-> Services]

\* prepare: an existing task must carry the same binding (else PermissionError)
\* and is saved again unchanged; a full queue refuses a new one.
BindingMismatch(q, id, previous, target) ==
    id \in DOMAIN q /\ (q[id].previous # previous \/ q[id].target # target)

QueueFull(q, id) == id \notin DOMAIN q /\ Cardinality(DOMAIN q) >= TaskMaxEntries

Prepared(q, id, previous, target) ==
    IF id \in DOMAIN q THEN q ELSE Put(q, id, NewTask(previous, target))

\* add_static_services: the services are owed again and the task is due now.
WithStaticServices(q, id, services) ==
    IF id \in DOMAIN q
      THEN [q EXCEPT ![id].static = @ \cup services, ![id].wait = 0]
      ELSE q

\* claim_due: a task that is due and not leased may be claimed.  The code takes
\* the one due longest; which of the due tasks that is is left open here.
Due(q) == {id \in DOMAIN q : q[id].wait = 0 /\ q[id].lease = 0}

Claimed(q, id) == [q EXCEPT ![id].lease = ClaimLease]

\* release_claim
Released(q, id) ==
    IF id \in DOMAIN q
      THEN [q EXCEPT ![id].lease = 0,
                     ![id].wait = IF RetryDelay > 1 THEN RetryDelay ELSE 1]
      ELSE q

\* Mutants: a failed kick counts, the count is not capped, static services do
\* not hold a task back.
KickCountAnyway(task, kickOk) == IF task.kicks = 0 THEN 1 ELSE 2

\* complete_attempt
KickCount(task, kickOk) ==
    IF ~kickOk THEN 0 ELSE IF task.kicks = 0 THEN 1 ELSE 2

FinishedByKicks(task, kickOk, stopped) == KickCount(task, kickOk) = 2

Finished(task, kickOk, stopped) ==
    KickCount(task, kickOk) = 2 /\ task.static \subseteq stopped

AttemptRecorded(q, id, kickOk, stopped) ==
    IF id \notin DOMAIN q THEN q
    ELSE IF Finished(q[id], kickOk, stopped) THEN Drop(q, id)
    ELSE [q EXCEPT ![id].kicks = KickCount(q[id], kickOk),
                   ![id].static = @ \ stopped,
                   ![id].lease = 0,
                   ![id].wait = IF kickOk THEN SecondKickDelay ELSE RetryDelay]

\* One unit of time passes.
QueueTick(q) ==
    [id \in DOMAIN q |-> [q[id] EXCEPT !.wait = Elapse(@),
                                       !.lease = Elapse(@),
                                       !.ttl = Elapse(@)]]
=============================================================================
