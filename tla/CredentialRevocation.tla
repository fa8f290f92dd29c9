------------------------ MODULE CredentialRevocation ------------------------
(***************************************************************************)
(* Credential rotation and account deletion, and the durable revocation    *)
(* that follows them: request handlers (credential_service,                *)
(* credential_routes, admin_credential_service, user_deletion_service),    *)
(* the background worker (revocation_service) and the operators of         *)
(* RevocationQueue and RotationRecovery on the two files they share.       *)
(*                                                                         *)
(* users.json is changed under usage_lock only; the queue and the receipts *)
(* have locks of their own, so each of their operations is one step.  The  *)
(* proxy backends are outside: Hysteria holds connections until they are   *)
(* kicked, Xray and TUIC accept what their configuration was last synced   *)
(* to until they are stopped.                                              *)
(***************************************************************************)
EXTENDS RevocationQueue, RotationRecovery

CONSTANTS
    Users,       \* account names
    SelfOps,     \* request ids of the panel's own token rotation (replayable)
    AdminOps,    \* administrator rotations, each a fresh nonce
    DeleteOps,   \* account deletions, each a fresh nonce
    UserOf,      \* the account each operation is about
    Threads,     \* request handler threads
    Workers,     \* revocation worker threads
    Nobody,      \* usage_lock is free
    LockTimeout, \* STATE_LOCK_TIMEOUT_SECONDS
    AuthWindow,  \* longest time from an auth answer to the connection it admits
    Outcomes,    \* the outcomes of a save that occur in a run
    MaxGen,      \* bound: tokens generated in a run
    MaxRev       \* bound: revision of an account's other fields

Op == SelfOps \cup AdminOps \cup DeleteOps

ASSUME ModelAssumption ==
    /\ Op # {}
    /\ UserOf \in [Op -> Users]
    /\ SelfOps \cap (AdminOps \cup DeleteOps) = {}
    /\ AdminOps \cap DeleteOps = {}
    /\ Threads \cap Workers = {}
    /\ Nobody \notin Threads \cup Workers
    /\ LockTimeout \in Nat
    /\ AuthWindow \in Nat
    /\ Outcomes \subseteq SaveOutcome /\ "ok" \in Outcomes
    /\ MaxGen \in Nat \ {0}
    /\ MaxRev \in Nat \ {0}

VARIABLES
    users,      \* users.json as every reader sees it
    disk,       \* the contents of users.json a power loss may leave
    queue,      \* credential_revocations.json
    receipts,   \* credential_rotation_receipts.json
    history,    \* accounts whose usage history and sessions are still there
    accepts,    \* per static service and account, the generation it admits
    conns,      \* Hysteria connections: account and generation
    approved,   \* connections admitted by hysteria-auth, not yet established
    lock,       \* holder of usage_lock
    req,        \* the request handled by each thread
    wrk,        \* the task handled by each worker
    page,       \* generation of the token in the page that carries a request id
    fresh,      \* number of tokens generated so far
    spent,      \* nonces of administrator operations already drawn
    asked,      \* observed: account contents an administrator asked to delete
    undone      \* observed: a power loss has undone a change of users.json

stateVars == <<users, disk, queue, receipts, history, accepts>>
proxyVars == <<conns, approved>>
ghostVars == <<page, fresh, spent, asked, undone>>
vars == <<users, disk, queue, receipts, history, accepts, conns, approved,
          lock, req, wrk, page, fresh, spent, asked, undone>>

-----------------------------------------------------------------------------
\* An account is the generation of its token (sub_token and vless_uuid change
\* together) and a revision of its other fields; gen = 0 means no such account.
Account == [gen : Nat, rev : Nat]
NoAccount == [gen |-> 0, rev |-> 0]
Exists(u) == users[u].gen # 0

CredentialGeneration(account) == [gen |-> account.gen, rev |-> 0]
TokenGeneration(g) == [gen |-> g, rev |-> 0]
DeletePreviousGeneration(account) == account

RequestPc == {"idle", "lock", "receipt", "task", "commit", "discardReceipt",
              "discardTask", "sync", "purge", "static", "record", "kick",
              "complete", "mint", "bind"}

\* old/new: generations of the receipt in hand (new = 0: none); unsynced: sync_error or delete_error is set;
\* done: completed_static_services; retry: retry_services; left: lock timeout.
Request == [pc : RequestPc, op : Op, session : Sessions \cup {Nobody},
            old : Nat, new : Nat, unsynced : BOOLEAN,
            done : SUBSET Services, retry : SUBSET Services,
            kicked : BOOLEAN, left : Nat]

IdleRequest == [pc |-> "idle", op |-> CHOOSE o \in Op : TRUE, session |-> Nobody,
                old |-> 0, new |-> 0, unsynced |-> FALSE,
                done |-> {}, retry |-> {}, kicked |-> FALSE, left |-> 0]

WorkerPc == {"idle", "lock", "save", "purge", "sync", "previous", "superseded",
             "static", "kick", "complete", "giveup"}

\* previous, target, static and ttl are the copy of the task claim_due returned.
Job == [pc : WorkerPc, op : Op, previous : Digest, target : Digest,
        static : SUBSET Services, ttl : Nat, unsynced : BOOLEAN,
        done : SUBSET Services, kicked : BOOLEAN]

IdleJob == [pc |-> "idle", op |-> CHOOSE o \in Op : TRUE,
            previous |-> NoAccount, target |-> NoAccount, static |-> {}, ttl |-> 0,
            unsynced |-> FALSE, done |-> {}, kicked |-> FALSE]

ClaimedJob(id, task) ==
    [IdleJob EXCEPT !.pc = "lock", !.op = id, !.previous = task.previous,
                    !.target = task.target, !.static = task.static, !.ttl = task.ttl]

Init ==
    /\ users = [u \in Users |-> [gen |-> 1, rev |-> 1]]
    /\ disk = {users}
    /\ queue = [id \in {} |-> 0]
    /\ receipts = [id \in {} |-> 0]
    /\ history = Users
    /\ accepts = [s \in Services |-> [u \in Users |-> users[u].gen]]
    /\ conns = {}
    /\ approved = {}
    /\ lock = Nobody
    /\ req = [t \in Threads |-> IdleRequest]
    /\ wrk = [w \in Workers |-> IdleJob]
    /\ page = [op \in SelfOps |-> 0]
    /\ fresh = 1
    /\ spent = {}
    /\ asked = {}
    /\ undone = FALSE

-----------------------------------------------------------------------------
(* Operations shared by handlers and worker *)

SaveUsers(new, outcome) ==
    /\ users' = Visible(users, new, outcome)
    /\ disk' = OnDisk(disk, new, outcome)

SaveQueue(new, outcome) == queue' = Visible(queue, new, outcome)
SaveReceipts(new, outcome) == receipts' = Visible(receipts, new, outcome)

\* _sync_static_access_from_users: rewrites each service's accepted users from
\* users.json; on an error some services may already have been rewritten.
Sync(synced) ==
    accepts' = [s \in Services |->
                  IF s \in synced THEN [u \in Users |-> users[u].gen] ELSE accepts[s]]

\* static_access.stop_fail_closed, for the services whose stop succeeded.
Stop(stopped) ==
    accepts' = [s \in Services |->
                  IF s \in stopped THEN [u \in Users |-> 0] ELSE accepts[s]]

\* hy_kick: an accepted kick drops the account's connections.
Kick(u, ok) == conns' = IF ok THEN {c \in conns : c.user # u} ELSE conns

\* Locals of a handler that no later step reads are reset on the way.
Goto(t, pc) == req' = [req EXCEPT ![t].pc = pc]
Finish(t) == req' = [req EXCEPT ![t] = IdleRequest]
Release == lock' = Nobody
-----------------------------------------------------------------------------
(* Requests: _recoverable_user_rotation and _rotate_panel (self),          *)
(* AdminCredentialService.rotate (admin), UserDeletionService.delete.      *)

\* render_user_panel: the rotation form carries the current token and a request
\* id drawn for this page.
RenderPanel(op) ==
    /\ page[op] = 0 /\ Exists(UserOf[op])
    /\ page' = [page EXCEPT ![op] = users[UserOf[op]].gen]
    /\ UNCHANGED <<stateVars, proxyVars, lock, req, wrk, fresh, spent, asked, undone>>

\* The form is posted; the receipt is looked up before usage_lock is taken.
SelfBegin(t, op, session) ==
    /\ req[t].pc = "idle"
    /\ page[op] # 0
    /\ LET found == Bound(receipts, op, session)
       IN req' = [req EXCEPT ![t] =
                    [IdleRequest EXCEPT !.pc = "lock", !.op = op, !.session = session,
                                        !.left = LockTimeout,
                                        !.old = IF found THEN receipts[op].old ELSE 0,
                                        !.new = IF found THEN receipts[op].new ELSE 0]]
    /\ receipts' = Live(receipts)
    /\ UNCHANGED <<users, disk, queue, history, accepts, proxyVars, lock, wrk, ghostVars>>

AdminBegin(t, op) ==
    /\ req[t].pc = "idle"
    /\ op \notin spent
    /\ spent' = spent \cup {op}
    /\ req' = [req EXCEPT ![t] = [IdleRequest EXCEPT !.pc = "lock", !.op = op,
                                                     !.left = LockTimeout]]
    /\ UNCHANGED <<stateVars, proxyVars, lock, wrk, page, fresh, asked, undone>>

\* Waiting for usage_lock ends in LockTimeout, and the request with it.
LockTimedOut(t) ==
    /\ req[t].pc = "lock" /\ lock # Nobody /\ req[t].left = 0
    /\ Finish(t)
    /\ UNCHANGED <<stateVars, proxyVars, lock, wrk, ghostVars>>

\* usage_lock is taken and users.json read.  An unknown account, a form whose
\* revision is not the account's, or a file that cannot be read ends the request;
\* the last stops the services.
Lock(t) ==
    /\ req[t].pc = "lock" /\ lock = Nobody
    /\ LET op == req[t].op
           u == UserOf[op]
       IN \/ /\ Finish(t)
             /\ \E stopped \in SUBSET Services : Stop(stopped)
             /\ UNCHANGED <<lock, asked>>
          \/ /\ Exists(u)
             /\ UNCHANGED accepts
             /\ lock' = t
             /\ req' = [req EXCEPT ![t].pc = IF op \in SelfOps THEN "receipt" ELSE "task",
                                   ![t].left = 0]
             /\ asked' = IF op \in DeleteOps THEN asked \cup {<<u, users[u]>>} ELSE asked
    /\ UNCHANGED <<users, disk, queue, receipts, history, proxyVars, wrk, page, fresh, spent, undone>>

\* A request that raised or was refused leaves the handler and the lock.
Abort(t) == Finish(t) /\ Release

\* No receipt in hand and none in the store: a new rotation, which the session
\* and the account's status must allow and whose form must carry the current
\* token.  A new token is generated and its receipt stored.
PrepareFreshReceipt(t) ==
    LET op == req[t].op
        session == req[t].session
        current == users[UserOf[op]].gen
    IN /\ req[t].pc = "receipt"
       /\ req[t].new = 0 /\ ~Bound(receipts, op, session)
       /\ \/ /\ Abort(t)
             /\ UNCHANGED <<receipts, fresh>>
          \/ /\ page[op] = current
             /\ fresh < MaxGen
             /\ fresh' = fresh + 1
             /\ ~ReceiptMismatch(receipts, op, session, current)
             /\ ~ReceiptsFull(receipts, op)
             /\ \E outcome \in Outcomes :
                  /\ SaveReceipts(ReceiptPrepared(receipts, op, session, current, fresh'), outcome)
                  /\ IF outcome = "ok"
                       THEN /\ req' = [req EXCEPT ![t].pc = "task", ![t].old = current,
                                                  ![t].new = fresh']
                            /\ UNCHANGED lock
                       ELSE Abort(t)
       /\ UNCHANGED <<users, disk, queue, history, accepts, proxyVars, wrk, page, spent, asked, undone>>

\* A receipt was found, before the lock or under it: it is stored again, which
\* gives one that expired meanwhile a new lease of life.
RefreshReceipt(t) ==
    LET op == req[t].op
        session == req[t].session
        old == IF req[t].new # 0 THEN req[t].old ELSE receipts[op].old
        new == IF req[t].new # 0 THEN req[t].new ELSE receipts[op].new
        store == ReceiptPrepared(receipts, op, session, old, new)
    IN /\ req[t].pc = "receipt"
       /\ req[t].new # 0 \/ Bound(receipts, op, session)
       /\ IF ReceiptMismatch(receipts, op, session, old) \/ ReceiptsFull(receipts, op)
            THEN Abort(t) /\ UNCHANGED receipts
            ELSE \E outcome \in Outcomes :
                   /\ SaveReceipts(store, outcome)
                   /\ IF outcome = "ok"
                        THEN /\ req' = [req EXCEPT ![t].pc = "task",
                                                   ![t].old = store[op].old,
                                                   ![t].new = store[op].new]
                             /\ UNCHANGED lock
                        ELSE Abort(t)
       /\ UNCHANGED <<users, disk, queue, history, accepts, proxyVars, wrk, ghostVars>>

\* The binding a request gives its task.
PreviousOf(t) ==
    LET op == req[t].op IN
    CASE op \in SelfOps   -> TokenGeneration(req[t].old)
      [] op \in AdminOps  -> CredentialGeneration(users[UserOf[op]])
      [] op \in DeleteOps -> DeletePreviousGeneration(users[UserOf[op]])

\* revocation_queue.prepare, before the canonical change.  An administrator's
\* new token is generated here; past MaxGen the request is abandoned.
PrepareTask(t) ==
    LET op == req[t].op
        new == CASE op \in SelfOps -> req[t].new
                 [] op \in AdminOps -> fresh + 1
                 [] op \in DeleteOps -> 0
        target == IF op \in DeleteOps THEN DeleteTarget ELSE TokenGeneration(new)
    IN /\ req[t].pc = "task"
       /\ IF \/ op \in AdminOps /\ fresh = MaxGen
             \/ BindingMismatch(queue, op, PreviousOf(t), target)
             \/ QueueFull(queue, op)
            THEN Abort(t) /\ UNCHANGED <<queue, fresh>>
            ELSE \E outcome \in Outcomes :
                   /\ fresh' = IF op \in AdminOps THEN new ELSE fresh
                   /\ SaveQueue(Prepared(queue, op, PreviousOf(t), target), outcome)
                   /\ IF outcome = "ok"
                        THEN /\ req' = [req EXCEPT ![t].pc = "commit", ![t].new = new]
                             /\ UNCHANGED lock
                        ELSE Abort(t)
       /\ UNCHANGED <<users, disk, receipts, history, accepts, proxyVars, wrk, page, spent, asked, undone>>

\* What the canonical change of a request makes of its account.
Changed(t) ==
    LET op == req[t].op IN
    IF op \in DeleteOps THEN NoAccount
    ELSE [users[UserOf[op]] EXCEPT !.gen = req[t].new]

\* Mutants: a stale token is overwritten; a committed rotation cannot be replayed.
SupersededNever(t) == FALSE
SupersededReplay(t) ==
    LET current == users[UserOf[req[t].op]].gen IN
    /\ req[t].op \in SelfOps
    /\ current # req[t].old \/ current # page[req[t].op]

\* A self-service rotation may change the token it was prepared against only.
Superseded(t) ==
    LET current == users[UserOf[req[t].op]].gen IN
    /\ req[t].op \in SelfOps
    /\ current # req[t].new
    /\ current # req[t].old \/ current # page[req[t].op]

CommitUsers(t) ==
    LET op == req[t].op
        new == [users EXCEPT ![UserOf[op]] = Changed(t)]
    IN /\ req[t].pc = "commit" /\ ~Superseded(t)
       /\ \E outcome \in Outcomes :
            /\ SaveUsers(new, outcome)
            /\ \/ /\ outcome = "ok"
                  /\ req' = [req EXCEPT ![t].pc = "sync", ![t].old = 0]
                  /\ UNCHANGED <<lock, accepts>>
               \/ \* reported as a rotation or deletion whose sync is pending
                  /\ outcome = "uncertain" \/ (outcome = "failed" /\ op \in DeleteOps)
                  /\ req' = [req EXCEPT ![t].pc = "static", ![t].old = 0, ![t].unsynced = TRUE]
                  /\ Release
                  /\ UNCHANGED accepts
               \/ \* raised; also when the re-read of an uncertain save fails.
                  \* The server stops the services if users.json is in doubt.
                  /\ outcome # "ok" /\ op \notin DeleteOps
                  /\ \E stopped \in SUBSET Services : Stop(stopped)
                  /\ Abort(t)
       /\ UNCHANGED <<queue, receipts, history, proxyVars, wrk, ghostVars>>

\* Conflict: the receipt, then the task, are withdrawn.
Conflict(t) ==
    /\ req[t].pc = "commit" /\ Superseded(t)
    /\ Goto(t, "discardReceipt")
    /\ UNCHANGED <<stateVars, proxyVars, lock, wrk, ghostVars>>

DiscardReceipt(t) ==
    /\ req[t].pc = "discardReceipt"
    /\ \E outcome \in Outcomes :
         /\ SaveReceipts(Drop(receipts, req[t].op), outcome)
         /\ IF outcome = "ok" THEN Goto(t, "discardTask") /\ UNCHANGED lock ELSE Abort(t)
    /\ UNCHANGED <<users, disk, queue, history, accepts, proxyVars, wrk, ghostVars>>

DiscardTask(t) ==
    /\ req[t].pc = "discardTask"
    /\ \E outcome \in Outcomes : SaveQueue(Drop(queue, req[t].op), outcome)
    /\ Abort(t)
    /\ UNCHANGED <<users, disk, receipts, history, accepts, proxyVars, wrk, ghostVars>>

\* The static configurations are rewritten under usage_lock; an error leaves
\* the synchronisation pending.  A deletion goes on to purge the history.
SyncStatic(t) ==
    /\ req[t].pc = "sync"
    /\ \E synced \in SUBSET Services :
         /\ Sync(synced)
         /\ req' = [req EXCEPT ![t].pc = IF req[t].op \in DeleteOps THEN "purge" ELSE "static",
                               ![t].unsynced = (synced # Services)]
    /\ IF req[t].op \in DeleteOps THEN UNCHANGED lock ELSE Release
    /\ UNCHANGED <<users, disk, queue, receipts, history, proxyVars, wrk, ghostVars>>

\* _purge_user_history_locked; an error leaves it to the worker.
Purge(t) ==
    /\ req[t].pc = "purge"
    /\ \/ history' = history \ {UserOf[req[t].op]}
       \/ UNCHANGED history
    /\ Goto(t, "static")
    /\ Release
    /\ UNCHANGED <<users, disk, queue, receipts, accepts, proxyVars, wrk, ghostVars>>

-----------------------------------------------------------------------------
(* _attempt_revocation_side_effects, and the same steps of _rotate_panel   *)
(* and AdminCredentialService.rotate: all outside usage_lock.              *)

\* Without a sync error every service's reload is scheduled; a service whose
\* scheduling fails, and every service after a sync error, is stopped.
StaticEffects(t) ==
    /\ req[t].pc = "static"
    /\ \E scheduled \in SUBSET Services : \E stopped \in SUBSET (Services \ scheduled) :
         /\ req[t].unsynced => scheduled = {}
         /\ Stop(stopped)
         /\ LET failed == Services \ (scheduled \cup stopped)
            IN req' = [req EXCEPT ![t].done = scheduled \cup stopped, ![t].unsynced = FALSE,
                                  ![t].retry = failed,
                                  ![t].pc = IF failed = {} THEN "kick" ELSE "record"]
    /\ UNCHANGED <<users, disk, queue, receipts, history, proxyVars, lock, wrk, ghostVars>>

RecordStaticRetry(t) ==
    /\ req[t].pc = "record"
    /\ \E outcome \in Outcomes :
         SaveQueue(WithStaticServices(queue, req[t].op, req[t].retry), outcome)
    /\ req' = [req EXCEPT ![t].pc = "kick", ![t].retry = {}]
    /\ UNCHANGED <<users, disk, receipts, history, accepts, proxyVars, lock, wrk, ghostVars>>

KickUser(t) ==
    /\ req[t].pc = "kick"
    /\ \E ok \in BOOLEAN :
         /\ Kick(UserOf[req[t].op], ok)
         /\ req' = [req EXCEPT ![t].kicked = ok, ![t].pc = "complete"]
    /\ UNCHANGED <<stateVars, approved, lock, wrk, ghostVars>>

RecordKickAttempt(t) ==
    /\ req[t].pc = "complete"
    /\ \E outcome \in Outcomes :
         SaveQueue(AttemptRecorded(queue, req[t].op, req[t].kicked, req[t].done), outcome)
    /\ IF req[t].op \in SelfOps
         THEN req' = [req EXCEPT ![t].pc = "mint", ![t].done = {}, ![t].kicked = FALSE]
         ELSE Finish(t)
    /\ UNCHANGED <<users, disk, receipts, history, accepts, proxyVars, lock, wrk, ghostVars>>

\* _rotate_panel mints a session if the account still has the new token, and
\* binds the receipt to it.
MintSession(t) ==
    /\ req[t].pc = "mint"
    /\ \/ /\ lock = Nobody /\ users[UserOf[req[t].op]].gen = req[t].new
          /\ Goto(t, "bind")
       \/ Finish(t)
    /\ UNCHANGED <<stateVars, proxyVars, lock, wrk, ghostVars>>

BindReplacement(t) ==
    /\ req[t].pc = "bind"
    /\ \E replacement \in Sessions, outcome \in Outcomes :
         SaveReceipts(ReceiptRebound(receipts, req[t].op, req[t].session, replacement), outcome)
    /\ Finish(t)
    /\ UNCHANGED <<users, disk, queue, history, accepts, proxyVars, lock, wrk, ghostVars>>

-----------------------------------------------------------------------------
(* The worker: _process_one_revocation_task                                *)

WGoto(w, pc) == wrk' = [wrk EXCEPT ![w].pc = pc]
WDecide(w, pc) ==   \* the binding of the task is not used any more
    wrk' = [wrk EXCEPT ![w].pc = pc, ![w].previous = NoAccount, ![w].target = NoAccount,
                       ![w].ttl = 0]
WFinish(w) == wrk' = [wrk EXCEPT ![w] = IdleJob]
JobUser(w) == UserOf[wrk[w].op]

Claim(w, id, outcome) ==
    /\ wrk[w].pc = "idle"
    /\ id \in Due(queue)
    /\ SaveQueue(Claimed(queue, id), outcome)
    /\ wrk' = IF outcome = "ok"
                THEN [wrk EXCEPT ![w] = ClaimedJob(id, queue[id])]
                ELSE wrk
    /\ UNCHANGED <<users, disk, receipts, history, accepts, proxyVars, lock, req, ghostVars>>

\* Mutants: any account of the name is removed; none is.
DeletionSupersededNever(w) == FALSE

\* A deletion's task removes the account it names, or finds it replaced.
DeletionSuperseded(w) ==
    Exists(JobUser(w)) /\ DeletePreviousGeneration(users[JobUser(w)]) # wrk[w].previous

\* usage_lock is taken and users.json read; the task's binding decides.
WorkerLock(w) ==
    LET generation == CredentialGeneration(users[JobUser(w)])
        reached == wrk[w].target = DeleteTarget \/ generation = wrk[w].target
    IN /\ wrk[w].pc = "lock" /\ lock = Nobody
       /\ \/ /\ wrk[w].target = DeleteTarget /\ ~DeletionSuperseded(w)
             /\ WDecide(w, "save") /\ lock' = w
          \/ /\ reached /\ (wrk[w].target = DeleteTarget => DeletionSuperseded(w))
             /\ IF wrk[w].static # {}
                  THEN WDecide(w, "sync") /\ lock' = w
                  ELSE WDecide(w, "static") /\ UNCHANGED lock
          \/ /\ ~reached
             /\ WGoto(w, IF generation = wrk[w].previous THEN "previous" ELSE "superseded")
             /\ UNCHANGED lock
          \/ \* users.json cannot be read
             WGoto(w, "giveup") /\ UNCHANGED lock
    /\ UNCHANGED <<stateVars, proxyVars, req, ghostVars>>

WorkerLockTimedOut(w) ==
    /\ wrk[w].pc = "lock" /\ lock # Nobody
    /\ WGoto(w, "giveup")
    /\ UNCHANGED <<stateVars, proxyVars, lock, req, ghostVars>>

\* Mutant: a save in doubt is taken for a durable one.
WorkerSaveInDoubt(w, outcome) ==
    /\ wrk[w].pc = "save"
    /\ SaveUsers([users EXCEPT ![JobUser(w)] = NoAccount], outcome)
    /\ IF outcome # "failed"
         THEN WGoto(w, "purge") /\ UNCHANGED lock
         ELSE WGoto(w, "giveup") /\ Release
    /\ UNCHANGED <<queue, receipts, history, accepts, proxyVars, req, ghostVars>>

\* The deletion is written, also when the account is already absent: only an
\* unquestioned save lets the history go.
WorkerSave(w, outcome) ==
    /\ wrk[w].pc = "save"
    /\ SaveUsers([users EXCEPT ![JobUser(w)] = NoAccount], outcome)
    /\ IF outcome = "ok"
         THEN WGoto(w, "purge") /\ UNCHANGED lock
         ELSE WGoto(w, "giveup") /\ Release
    /\ UNCHANGED <<queue, receipts, history, accepts, proxyVars, req, ghostVars>>

WorkerPurge(w) ==
    /\ wrk[w].pc = "purge"
    /\ \/ /\ history' = history \ {JobUser(w)}
          /\ IF wrk[w].static # {}
               THEN WGoto(w, "sync") /\ UNCHANGED lock
               ELSE WGoto(w, "static") /\ Release
       \/ WGoto(w, "giveup") /\ Release /\ UNCHANGED history
    /\ UNCHANGED <<users, disk, queue, receipts, accepts, proxyVars, req, ghostVars>>

WorkerSync(w, synced) ==
    /\ wrk[w].pc = "sync"
    /\ Sync(synced)
    /\ wrk' = [wrk EXCEPT ![w].pc = "static", ![w].unsynced = (synced # Services)]
    /\ Release
    /\ UNCHANGED <<users, disk, queue, receipts, history, proxyVars, req, ghostVars>>

\* A state error: the claim is released; an unsafe core state stops services.
WorkerGiveUp(w) ==
    /\ wrk[w].pc = "giveup"
    /\ \E outcome \in Outcomes : SaveQueue(Released(queue, wrk[w].op), outcome)
    /\ \E stopped \in SUBSET Services : Stop(stopped)
    /\ WFinish(w)
    /\ UNCHANGED <<users, disk, receipts, history, proxyVars, lock, req, ghostVars>>

\* Mutant: an intent that was never committed is kept for ever.
WorkerPreviousKept(w, outcome) ==
    /\ wrk[w].pc = "previous"
    /\ SaveQueue(Released(queue, wrk[w].op), outcome)
    /\ WFinish(w)
    /\ UNCHANGED <<users, disk, receipts, history, accepts, proxyVars, lock, req, ghostVars>>

\* The old generation was still canonical: an intent past its replay window is
\* withdrawn, a younger one waits for the request to be replayed.
WorkerPrevious(w, outcome) ==
    /\ wrk[w].pc = "previous"
    /\ SaveQueue(IF wrk[w].ttl = 0
                   THEN Drop(queue, wrk[w].op)
                   ELSE Released(queue, wrk[w].op), outcome)
    /\ WFinish(w)
    /\ UNCHANGED <<users, disk, receipts, history, accepts, proxyVars, lock, req, ghostVars>>

\* A newer generation is canonical: its own task covers the kick.
WorkerSuperseded(w, outcome) ==
    /\ wrk[w].pc = "superseded"
    /\ SaveQueue(Drop(queue, wrk[w].op), outcome)
    /\ WFinish(w)
    /\ UNCHANGED <<users, disk, receipts, history, accepts, proxyVars, lock, req, ghostVars>>

\* Only the services the claimed task still owed are reloaded, or stopped.
WorkerStatic(w) ==
    /\ wrk[w].pc = "static"
    /\ \E scheduled \in SUBSET wrk[w].static : \E stopped \in SUBSET (Services \ scheduled) :
         /\ wrk[w].unsynced => scheduled = {}
         /\ ~wrk[w].unsynced => stopped \subseteq wrk[w].static
         /\ Stop(stopped)
         /\ wrk' = [wrk EXCEPT ![w].pc = "kick",
                               ![w].done = (scheduled \cup stopped) \cap wrk[w].static,
                               ![w].static = {}, ![w].unsynced = FALSE]
    /\ UNCHANGED <<users, disk, queue, receipts, history, proxyVars, lock, req, ghostVars>>

WorkerKick(w, ok) ==
    /\ wrk[w].pc = "kick"
    /\ Kick(JobUser(w), ok)
    /\ wrk' = [wrk EXCEPT ![w].kicked = ok, ![w].pc = "complete"]
    /\ UNCHANGED <<stateVars, approved, lock, req, ghostVars>>

WorkerComplete(w, outcome) ==
    /\ wrk[w].pc = "complete"
    /\ SaveQueue(AttemptRecorded(queue, wrk[w].op, wrk[w].kicked, wrk[w].done), outcome)
    /\ WFinish(w)
    /\ UNCHANGED <<users, disk, receipts, history, accepts, proxyVars, lock, req, ghostVars>>

\* The worker also erases receipts past their time.
PruneReceipts ==
    /\ receipts # Live(receipts)
    /\ receipts' = Live(receipts)
    /\ UNCHANGED <<users, disk, queue, history, accepts, proxyVars, lock, req, wrk, ghostVars>>

-----------------------------------------------------------------------------
(* Account creation and update, clients, time, crashes                     *)

\* AccountMutationService.create: rolled back if the static services cannot be
\* synchronised.  It is one step, because nobody is handed the credentials before
\* it ends: a service that keeps a rolled back account admits nobody (0).
CreateUser(u) ==
    LET new == [users EXCEPT ![u] = [gen |-> fresh + 1, rev |-> 1]]
    IN /\ lock = Nobody /\ ~Exists(u)
       /\ fresh < MaxGen
       /\ fresh' = fresh + 1
       /\ history' = history \cup {u}
       /\ \/ /\ SaveUsers(new, "ok")
             /\ accepts' = [s \in Services |-> [v \in Users |-> new[v].gen]]
          \/ /\ "uncertain" \in Outcomes
             /\ SaveUsers(new, "uncertain")
             /\ UNCHANGED accepts
          \/ \E rollback \in Outcomes, touched \in SUBSET Services :
               /\ users' = Visible(new, users, rollback)
               /\ disk' = OnDisk({new}, users, rollback)
               /\ accepts' = [s \in Services |->
                                 IF s \in touched THEN [accepts[s] EXCEPT ![u] = users'[u].gen]
                                 ELSE accepts[s]]
       /\ UNCHANGED <<queue, receipts, proxyVars, lock, req, wrk, page, spent, asked, undone>>

\* AccountMutationService.update: other fields change, the token does not.  The
\* traffic limiter and the status routes synchronise the services too.
UpdateUser(u) ==
    /\ lock = Nobody /\ Exists(u) /\ users[u].rev < MaxRev
    /\ \E outcome \in Outcomes, synced \in SUBSET Services :
         /\ SaveUsers([users EXCEPT ![u].rev = @ + 1], outcome)
         /\ IF outcome = "ok" THEN Sync(synced) ELSE UNCHANGED accepts
    /\ UNCHANGED <<queue, receipts, history, proxyVars, lock, req, wrk, ghostVars>>

Reconcile ==
    /\ lock = Nobody
    /\ \E synced \in SUBSET Services : Sync(synced) \/ Stop(synced)
    /\ UNCHANGED <<users, disk, queue, receipts, history, proxyVars, lock, req, wrk, ghostVars>>

\* hysteria-auth reads users.json without usage_lock and admits a client; the
\* connection exists once Hysteria has the answer, within AuthWindow.
Authenticate(u) ==
    /\ Exists(u)
    /\ IF AuthWindow = 0
         THEN /\ conns' = conns \cup {[user |-> u, gen |-> users[u].gen]}
              /\ UNCHANGED approved
         ELSE /\ approved' = approved \cup
                   {[user |-> u, gen |-> users[u].gen, left |-> AuthWindow]}
              /\ UNCHANGED conns
    /\ UNCHANGED <<stateVars, lock, req, wrk, ghostVars>>

Establish(a) ==
    /\ a \in approved
    /\ approved' = approved \ {a}
    /\ conns' = conns \cup {[user |-> a.user, gen |-> a.gen]}
    /\ UNCHANGED <<stateVars, lock, req, wrk, ghostVars>>

\* A unit of time.  No request outstays its lock timeout, no admitted client its
\* window; what is done inside usage_lock, and between the worker's verdict on a
\* task and the act it leads to, takes no time against the TTLs.
Tick ==
    /\ \A a \in approved : a.left > 0
    /\ \A t \in Threads : req[t].pc = "lock" => req[t].left > 0
    /\ lock = Nobody /\ \A w \in Workers : wrk[w].pc # "previous"
    /\ queue' = QueueTick(queue)
    /\ receipts' = ReceiptTick(receipts)
    /\ approved' = {[a EXCEPT !.left = @ - 1] : a \in approved}
    /\ req' = [t \in Threads |-> [req[t] EXCEPT !.left = Elapse(@)]]
    /\ wrk' = [w \in Workers |-> [wrk[w] EXCEPT !.ttl = Elapse(@)]]
    /\ UNCHANGED <<users, disk, history, accepts, conns, lock, ghostVars>>

\* The subscription service dies: its threads, and usage_lock with them.
ProcessDies ==
    /\ req' = [t \in Threads |-> IdleRequest]
    /\ wrk' = [w \in Workers |-> IdleJob]
    /\ lock' = Nobody

Crash ==
    /\ ProcessDies
    /\ UNCHANGED <<stateVars, proxyVars, ghostVars>>

\* The host dies: users.json may go back to a content that was never known to
\* be superseded on disk, and no connection survives.
PowerLoss ==
    /\ ProcessDies
    /\ \E content \in disk : users' = content /\ disk' = {content}
    /\ undone' = (undone \/ users' # users)
    /\ conns' = {} /\ approved' = {}
    /\ UNCHANGED <<queue, receipts, history, accepts, page, fresh, spent, asked>>

-----------------------------------------------------------------------------
RequestStep(t) ==
    \/ LockTimedOut(t) \/ Lock(t) \/ PrepareFreshReceipt(t) \/ RefreshReceipt(t)
    \/ PrepareTask(t) \/ CommitUsers(t) \/ Conflict(t) \/ DiscardReceipt(t)
    \/ DiscardTask(t) \/ SyncStatic(t) \/ Purge(t) \/ StaticEffects(t)
    \/ RecordStaticRetry(t) \/ KickUser(t) \/ RecordKickAttempt(t)
    \/ MintSession(t) \/ BindReplacement(t)

WorkerStep(w) ==
    \/ WorkerLock(w) \/ WorkerLockTimedOut(w) \/ WorkerPurge(w)
    \/ WorkerGiveUp(w) \/ WorkerStatic(w)
    \/ \E synced \in SUBSET Services : WorkerSync(w, synced)
    \/ \E ok \in BOOLEAN : WorkerKick(w, ok)
    \/ \E outcome \in Outcomes :
         \/ \E id \in Op : Claim(w, id, outcome)
         \/ WorkerSave(w, outcome) \/ WorkerPrevious(w, outcome)
         \/ WorkerSuperseded(w, outcome) \/ WorkerComplete(w, outcome)

Begin(t) ==
    \/ \E op \in SelfOps, session \in Sessions : SelfBegin(t, op, session)
    \/ \E op \in AdminOps \cup DeleteOps : AdminBegin(t, op)

Environment ==
    \/ \E op \in SelfOps : RenderPanel(op)
    \/ \E u \in Users : CreateUser(u) \/ UpdateUser(u) \/ Authenticate(u)
    \/ \E a \in approved : Establish(a)
    \/ Reconcile \/ Crash \/ PowerLoss

Next ==
    \/ \E t \in Threads : Begin(t) \/ RequestStep(t)
    \/ \E w \in Workers : WorkerStep(w)
    \/ PruneReceipts \/ Tick \/ Environment

Spec == Init /\ [][Next]_vars

\* What the liveness properties rest on: a handler thread goes on, a worker that
\* is not killed goes on, and no file save, read, purge or kick that is retried
\* for ever fails for ever; a client whose window ends connects.  Crashes may go on.
Fairness ==
    /\ \A t \in Threads : WF_vars(RequestStep(t))
    /\ WF_vars(\E a \in approved : a.left = 0 /\ Establish(a))
    /\ SF_vars(Tick)
    /\ \A w \in Workers :
         /\ \A id \in Op : SF_vars(Claim(w, id, "ok"))
         /\ SF_vars(WorkerLock(w) /\ wrk'[w].pc # "giveup")
         /\ SF_vars(WorkerSave(w, "ok"))
         /\ SF_vars(WorkerPurge(w) /\ wrk'[w].pc # "giveup")
         /\ SF_vars(WorkerSync(w, Services))
         /\ WF_vars(WorkerGiveUp(w))
         /\ SF_vars(WorkerPrevious(w, "ok"))
         /\ SF_vars(WorkerSuperseded(w, "ok"))
         /\ SF_vars(WorkerStatic(w) /\ wrk'[w].done = wrk[w].static)
         /\ SF_vars(WorkerKick(w, TRUE))
         /\ SF_vars(WorkerComplete(w, "ok"))

FairSpec == Spec /\ Fairness

-----------------------------------------------------------------------------
(* Properties *)

\* Every file, queue entry, request and job is of the form the code writes.
TypeOK ==
    /\ users \in [Users -> Account]
    /\ disk \in SUBSET [Users -> Account] /\ users \in disk
    /\ DOMAIN queue \subseteq Op /\ queue \in [DOMAIN queue -> Task]
    /\ DOMAIN receipts \subseteq SelfOps /\ receipts \in [DOMAIN receipts -> Receipt]
    /\ history \subseteq Users
    /\ accepts \in [Services -> [Users -> Nat]]
    /\ conns \subseteq [user : Users, gen : Nat]
    /\ approved \subseteq [user : Users, gen : Nat, left : Nat]
    /\ lock \in Threads \cup Workers \cup {Nobody}
    /\ req \in [Threads -> Request]
    /\ wrk \in [Workers -> Job]
    /\ page \in [SelfOps -> Nat]
    /\ fresh \in Nat
    /\ spent \subseteq Op
    /\ asked \subseteq Users \X Account
    /\ undone \in BOOLEAN

\* A generation is revoked once its account is gone or has a later one.  Once a
\* power loss has undone a change of users.json the order of its generations is
\* no longer the order of their revocations, and the question is not asked.
Revoked(u, g) == ~undone /\ g # 0 /\ (~Exists(u) \/ g < users[u].gen)

\* A task that the worker would carry out, rather than withdraw, as things stand.
Covers(id, u) ==
    /\ UserOf[id] = u
    /\ IsDelete(queue[id]) \/ queue[id].target = CredentialGeneration(users[u])

\* A Hysteria connection that outlives its credential is still owed a kick: the
\* queue holds a task for its account, whatever crashed, failed or overlapped
\* since the credential was replaced or the account deleted.
RevokedConnectionIsOwedAKick ==
    \A c \in conns : Revoked(c.user, c.gen) =>
        \E id \in DOMAIN queue : Covers(id, c.user)

\* A static service that still admits a revoked credential is still listed by a
\* task for that account, or a worker is about to synchronise it: a failed sync,
\* reload or stop is never forgotten.
RevokedStaticAccessIsOwedAStop ==
    \A s \in Services, u \in Users : Revoked(u, accepts[s][u]) =>
        \/ \E id \in DOMAIN queue : Covers(id, u) /\ s \in queue[id].static
        \/ \E w \in Workers : /\ JobUser(w) = u /\ s \in wrk[w].static
                              /\ wrk[w].pc \in {"save", "purge", "sync"}

\* The same, while administrators have rotated tokens and deleted nobody.
RotationsOweAStop == spent \subseteq AdminOps => RevokedStaticAccessIsOwedAStop

\* The history of an account is purged only once its deletion is durable: no
\* power loss brings back an account without its history, and no replacement
\* created under the same name loses its own to the old deletion.
HistoryOutlivesAccount ==
    \A content \in disk : \A u \in Users : content[u].gen # 0 => u \in history

\* Unless the host loses power, an account's generation never goes back: a
\* replayed rotation does not undo one committed since its receipt was written.
GenerationsNeverGoBack ==
    [][undone' \/ \A u \in Users : users'[u].gen = 0 \/ users'[u].gen >= users[u].gen]_users

\* An account disappears only in the exact content an administrator asked to
\* delete: a change or replacement in between supersedes the pending deletion.
OnlyRequestedDeletions ==
    [][\A u \in Users : Exists(u) /\ users'[u].gen = 0 /\ ~undone'
          => <<u, users[u]>> \in asked]_users

\* While the token of a live receipt is the account's, only time removes the
\* receipt: the browser whose response was lost can still replay the request.
CommittedReceiptIsKept ==
    [][\A id \in DOMAIN Live(receipts) :
          users[UserOf[id]].gen = receipts[id].new => id \in DOMAIN receipts']_receipts

\* Liveness.  A connection whose credential was revoked is dropped, whatever
\* crashed in between.
RevokedConnectionsEnd ==
    \A u \in Users, g \in 1..MaxGen :
        LET lingers == Revoked(u, g) /\ [user |-> u, gen |-> g] \in conns
        IN lingers ~> ~lingers


=============================================================================
