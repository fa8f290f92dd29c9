---------------------- MODULE CredentialRevocationSafety ----------------------
(***************************************************************************)
(* Safety theorems about CredentialRevocation: the history of an account   *)
(* outlives the account, an account's generation never goes back, an       *)
(* account disappears only when its deletion was asked for, a receipt that *)
(* the account still agrees with is kept, a connection whose credential is *)
(* revoked is owed a kick, and a static service that admits a replaced     *)
(* token is owed a stop.                                                   *)
(*                                                                         *)
(* None of these is inductive.  All rest on usage_lock: whoever holds it   *)
(* is the only one to change users.json, so what it read when it took the  *)
(* lock still holds when it writes.  SafetyInv says so of each request and *)
(* each worker, with what they have read.                                  *)
(***************************************************************************)
EXTENDS CredentialRevocationProofs

Holding == {"receipt", "task", "commit", "discardReceipt", "discardTask", "sync", "purge"}

\* A request between usage_lock and its release is alone with users.json; until it
\* changes the account it found, the account is there; when it is about to purge a
\* history, no power loss can bring the account back; and the generation it is
\* about to commit is later than the one it replaces.
RequestSafe(t) ==
    LET op == req[t].op
        pc == req[t].pc
    IN /\ pc \in Holding => lock = t
       /\ pc \in {"receipt", "task", "commit"} => users[UserOf[op]].gen # 0
       /\ pc = "purge" \/ (pc = "sync" /\ op \in DeleteOps) =>
            \A content \in disk : content[UserOf[op]].gen = 0
       /\ op \in SelfOps /\ pc \in {"lock", "receipt"} /\ req[t].new # 0 =>
            req[t].old < req[t].new
       /\ op \in SelfOps /\ pc \in {"task", "commit"} => req[t].old < req[t].new
       /\ op \in AdminOps /\ pc = "commit" => users[UserOf[op]].gen < req[t].new
       /\ req[t].new <= fresh

WorkerSafe(w) ==
    /\ wrk[w].pc \in {"save", "purge", "sync"} => lock = w
    /\ wrk[w].pc = "purge" => \A content \in disk : content[JobUser(w)].gen = 0

LaterReceipts(store, limit) ==
    \A id \in DOMAIN store : store[id].old < store[id].new /\ store[id].new <= limit

\* No content of users.json, and no receipt, is ahead of the tokens generated.
FilesSafe ==
    /\ \A content \in disk : \A u \in Users : content[u].gen <= fresh
    /\ LaterReceipts(receipts, fresh)
    /\ HistoryOutlivesAccount

SafetyInv ==
    /\ FilesSafe
    /\ \A t \in Threads : RequestSafe(t)
    /\ \A w \in Workers : WorkerSafe(w)

Types == FilesType /\ ActorsType /\ OthersType

\* users.json and the lock change only in the hands of who holds the lock, or
\* while nobody does.
LockRespected(actor) ==
    lock \in {actor, Nobody} \/ UNCHANGED <<lock, users, disk>>

USE DEF stateVars, proxyVars, ghostVars

-----------------------------------------------------------------------------
(* Who takes no step is not disturbed.                                     *)

LEMMA RequestUndisturbed ==
    ASSUME NEW t \in Threads, RequestSafe(t), NEW actor, actor # t, LockRespected(actor),
           req'[t].pc = req[t].pc, req'[t].op = req[t].op,
           req'[t].old = req[t].old, req'[t].new = req[t].new,
           req[t].new \in Nat, fresh \in Nat, fresh' \in {fresh, fresh + 1}
    PROVE  RequestSafe(t)'
  BY ModelAssumption DEF RequestSafe, LockRespected, Holding

LEMMA WorkerUndisturbed ==
    ASSUME NEW w \in Workers, WorkerSafe(w), NEW actor, actor # w, LockRespected(actor),
           wrk'[w].pc = wrk[w].pc, wrk'[w].op = wrk[w].op
    PROVE  WorkerSafe(w)'
  BY ModelAssumption DEF WorkerSafe, LockRespected, JobUser

\* A step of a request, one of a worker, and one that is neither.
LEMMA RequestKeepsSafety ==
    ASSUME Types, SafetyInv, NEW t \in Threads, LockRespected(t), UNCHANGED wrk,
           \A other \in Threads \ {t} : req'[other] = req[other],
           fresh' \in {fresh, fresh + 1}, FilesSafe', RequestSafe(t)'
    PROVE  SafetyInv'
  <1>1. ASSUME NEW other \in Threads
        PROVE  RequestSafe(other)'
    BY <1>1, RequestUndisturbed DEF SafetyInv, Types, ActorsType, OthersType, Request
  <1>2. ASSUME NEW w \in Workers
        PROVE  WorkerSafe(w)'
    BY <1>2, WorkerUndisturbed, ModelAssumption DEF SafetyInv
  <1> QED BY <1>1, <1>2 DEF SafetyInv

LEMMA WorkerKeepsSafety ==
    ASSUME Types, SafetyInv, NEW w \in Workers, LockRespected(w), UNCHANGED req,
           \A other \in Workers \ {w} : wrk'[other] = wrk[other],
           UNCHANGED fresh, FilesSafe', WorkerSafe(w)'
    PROVE  SafetyInv'
  <1>1. ASSUME NEW other \in Workers
        PROVE  WorkerSafe(other)'
    BY <1>1, WorkerUndisturbed DEF SafetyInv
  <1>2. ASSUME NEW t \in Threads
        PROVE  RequestSafe(t)'
    BY <1>2, RequestUndisturbed, ModelAssumption
      DEF SafetyInv, Types, ActorsType, OthersType, Request
  <1> QED BY <1>1, <1>2 DEF SafetyInv

LEMMA EnvironmentKeepsSafety ==
    ASSUME Types, SafetyInv, LockRespected(Nobody), UNCHANGED <<req, wrk>>,
           fresh' \in {fresh, fresh + 1}, FilesSafe'
    PROVE  SafetyInv'
  <1>1. ASSUME NEW t \in Threads
        PROVE  RequestSafe(t)'
    BY <1>1, RequestUndisturbed, ModelAssumption
      DEF SafetyInv, Types, ActorsType, OthersType, Request
  <1>2. ASSUME NEW w \in Workers
        PROVE  WorkerSafe(w)'
    BY <1>2, WorkerUndisturbed, ModelAssumption DEF SafetyInv
  <1> QED BY <1>1, <1>2 DEF SafetyInv

LEMMA FilesUndisturbed ==
    ASSUME FilesSafe, UNCHANGED <<disk, fresh, receipts, history>>
    PROVE  FilesSafe'
  BY DEF FilesSafe, HistoryOutlivesAccount, LaterReceipts

LEMMA OnlyReceiptsWritten ==
    ASSUME Types, FilesSafe, UNCHANGED <<disk, history>>, fresh' \in {fresh, fresh + 1},
           NEW store, LaterReceipts(store, fresh'), receipts' \in {receipts, store}
    PROVE  FilesSafe'
  <1>1. \A id \in DOMAIN receipts : receipts[id].new \in Nat
    BY StoreMember DEF Types, FilesType, Receipt
  <1>2. \A content \in disk : \A u \in Users : content[u].gen \in Nat
    BY DEF Types, FilesType, Account
  <1> QED BY <1>1, <1>2 DEF Types, OthersType, FilesSafe, HistoryOutlivesAccount, LaterReceipts

LEMMA LiveIsLater ==
    ASSUME NEW store, NEW limit, LaterReceipts(store, limit)
    PROVE  LaterReceipts(Live(store), limit)
  BY DEF LaterReceipts, Live

LEMMA PreparedIsLater ==
    ASSUME NEW store \in Stores, NEW limit \in Nat, LaterReceipts(store, limit), NEW id, NEW session,
           NEW later \in {limit, limit + 1}, NEW old \in Nat, NEW new \in Nat, old < new, new <= later
    PROVE  LaterReceipts(ReceiptPrepared(store, id, session, old, new), later)
  <1>1. \A i \in DOMAIN Live(store) : Live(store)[i].new \in Nat
    BY LiveType, StoreMember DEF Receipt
  <1>2. LaterReceipts(Live(store), later)
    <2>1. LaterReceipts(Live(store), limit)
      BY LiveIsLater
    <2> QED BY <1>1, <2>1 DEF LaterReceipts
  <1> QED BY <1>2 DEF ReceiptPrepared, LaterReceipts, Put

LEMMA ReboundIsLater ==
    ASSUME NEW store \in Stores, NEW limit, LaterReceipts(store, limit), NEW id, NEW session,
           NEW replacement
    PROVE  LaterReceipts(ReceiptRebound(store, id, session, replacement), limit)
  <1>1. \A i \in DOMAIN Live(store) : Live(store)[i] \in Receipt
    BY LiveType, StoreMember
  <1> QED BY <1>1, LiveIsLater DEF ReceiptRebound, LaterReceipts, Receipt
-----------------------------------------------------------------------------
(* The steps of a request.                                                  *)

LEMMA SelfBeginSafe ==
    ASSUME Types, SafetyInv, NEW t \in Threads, NEW op \in SelfOps, NEW session \in Sessions, SelfBegin(t, op, session)
    PROVE  SafetyInv'
  <1>1. LockRespected(t)
    BY DEF SelfBegin, LockRespected
  <1>2. FilesSafe'
    BY LiveIsLater, OnlyReceiptsWritten DEF SelfBegin, SafetyInv, FilesSafe
  <1>3. RequestSafe(t)'
    <2>1. /\ req'[t].pc = "lock" /\ req'[t].op = op
          /\ req'[t].old = (IF Bound(receipts, op, session) THEN receipts[op].old ELSE 0)
          /\ req'[t].new = (IF Bound(receipts, op, session) THEN receipts[op].new ELSE 0)
          /\ fresh' = fresh /\ fresh \in Nat
      BY DEF SelfBegin, Types, ActorsType, OthersType, IdleRequest
    <2>2. Bound(receipts, op, session) => /\ receipts[op].old < receipts[op].new
                                           /\ receipts[op].new <= fresh
      BY DEF SafetyInv, FilesSafe, LaterReceipts, Bound, Live
    <2> QED BY <2>1, <2>2, ModelAssumption DEF RequestSafe, Holding
  <1>4. /\ UNCHANGED wrk /\ fresh' \in {fresh, fresh + 1}
        /\ \A other \in Threads \ {t} : req'[other] = req[other]
    BY DEF SelfBegin, IdleRequest, Types, ActorsType
  <1> QED BY <1>1, <1>2, <1>3, <1>4, RequestKeepsSafety

LEMMA AdminBeginSafe ==
    ASSUME Types, SafetyInv, NEW t \in Threads, NEW op \in AdminOps \cup DeleteOps, AdminBegin(t, op)
    PROVE  SafetyInv'
  <1>1. LockRespected(t)
    BY DEF AdminBegin, SafetyInv, RequestSafe, Holding, LockRespected
  <1>2. FilesSafe'
    BY FilesUndisturbed DEF AdminBegin, SafetyInv
  <1>3. RequestSafe(t)'
    BY DEF AdminBegin, IdleRequest, SafetyInv, RequestSafe, Holding, Types, ActorsType, OthersType, Request
  <1>4. /\ UNCHANGED wrk /\ fresh' \in {fresh, fresh + 1}
        /\ \A other \in Threads \ {t} : req'[other] = req[other]
    BY DEF AdminBegin, IdleRequest, Types, ActorsType
  <1> QED BY <1>1, <1>2, <1>3, <1>4, RequestKeepsSafety

LEMMA LockTimedOutSafe ==
    ASSUME Types, SafetyInv, NEW t \in Threads, LockTimedOut(t)
    PROVE  SafetyInv'
  <1>1. LockRespected(t)
    BY DEF LockTimedOut, SafetyInv, RequestSafe, Holding, LockRespected
  <1>2. FilesSafe'
    BY FilesUndisturbed DEF LockTimedOut, SafetyInv
  <1>3. RequestSafe(t)'
    BY DEF LockTimedOut, Finish, IdleRequest, SafetyInv, RequestSafe, Holding, Types, ActorsType, OthersType, Request
  <1>4. /\ UNCHANGED wrk /\ fresh' \in {fresh, fresh + 1}
        /\ \A other \in Threads \ {t} : req'[other] = req[other]
    BY DEF LockTimedOut, Finish, IdleRequest, Types, ActorsType
  <1> QED BY <1>1, <1>2, <1>3, <1>4, RequestKeepsSafety

LEMMA LockSafe ==
    ASSUME Types, SafetyInv, NEW t \in Threads, Lock(t)
    PROVE  SafetyInv'
  <1>1. LockRespected(t)
    BY DEF Lock, LockRespected
  <1>2. FilesSafe'
    BY FilesUndisturbed DEF Lock, SafetyInv
  <1>3. RequestSafe(t)'
    <2>1. CASE Finish(t)
      BY <2>1 DEF Lock, Finish, IdleRequest, RequestSafe, Holding, Types, ActorsType, OthersType
    <2>2. CASE ~Finish(t)
      <3>1. /\ Exists(UserOf[req[t].op]) /\ lock' = t /\ UNCHANGED <<users, fresh>>
            /\ req'[t].pc = (IF req[t].op \in SelfOps THEN "receipt" ELSE "task")
            /\ req'[t].op = req[t].op /\ req'[t].old = req[t].old /\ req'[t].new = req[t].new
        BY <2>2 DEF Lock, Types, ActorsType, Request
      <3>2. req[t].pc = "lock" /\ RequestSafe(t)
        BY DEF Lock, SafetyInv
      <3> QED BY <3>1, <3>2 DEF RequestSafe, Exists
    <2> QED BY <2>1, <2>2
  <1>4. /\ UNCHANGED wrk /\ fresh' \in {fresh, fresh + 1}
        /\ \A other \in Threads \ {t} : req'[other] = req[other]
    BY DEF Lock, Finish, IdleRequest, Types, ActorsType
  <1> QED BY <1>1, <1>2, <1>3, <1>4, RequestKeepsSafety

LEMMA PrepareFreshReceiptSafe ==
    ASSUME Types, SafetyInv, NEW t \in Threads, PrepareFreshReceipt(t)
    PROVE  SafetyInv'
  <1> DEFINE op == req[t].op
             current == users[UserOf[op]].gen
             next == fresh + 1
             store == ReceiptPrepared(receipts, op, req[t].session, current, next)
  <1>1. LockRespected(t)
    BY DEF PrepareFreshReceipt, SafetyInv, RequestSafe, Holding, LockRespected
  <1>2. op \in SelfOps /\ current \in Nat /\ next \in Nat /\ current < next
    <2>1. op \in SelfOps /\ UserOf[op] \in Users
      BY ModelAssumption DEF PrepareFreshReceipt, Types, ActorsType, SelfRequests, Op
    <2>2. current <= fresh
      BY <2>1 DEF SafetyInv, FilesSafe, Types, FilesType
    <2> QED BY <2>1, <2>2 DEF Types, FilesType, OthersType, Account
  <1>3. FilesSafe'
    <2>1. LaterReceipts(store, next)
      BY <1>2, PreparedIsLater DEF SafetyInv, FilesSafe, Types, FilesType, OthersType
    <2>2. /\ UNCHANGED <<disk, history>>
          /\ \/ fresh' = next /\ receipts' \in {receipts, store}
             \/ UNCHANGED <<fresh, receipts>>
      BY DEF PrepareFreshReceipt, SaveReceipts, Visible
    <2> QED BY <2>1, <2>2, OnlyReceiptsWritten, FilesUndisturbed DEF SafetyInv
  <1>4. RequestSafe(t)'
    <2>1. CASE Abort(t)
      <3>1. req'[t].pc = "idle" /\ req'[t].new = 0
        BY <2>1 DEF Abort, Finish, IdleRequest, Types, ActorsType
      <3>2. fresh' = fresh \/ fresh' = fresh + 1
        BY DEF PrepareFreshReceipt
      <3>3. req'[t].new <= fresh'
        BY <3>1, <3>2 DEF Types, OthersType
      <3> QED BY <3>1, <3>3 DEF RequestSafe, Holding
    <2>2. CASE ~Abort(t)
      <3>1. /\ req'[t].pc = "task" /\ req'[t].op = op
            /\ req'[t].old = current /\ req'[t].new = next /\ fresh' = next /\ UNCHANGED <<lock, users>>
        BY <2>2 DEF PrepareFreshReceipt, Types, ActorsType, Request
      <3>2. req[t].pc = "receipt" /\ RequestSafe(t)
        BY DEF PrepareFreshReceipt, SafetyInv
      <3> QED BY <1>2, <3>1, <3>2, ModelAssumption DEF RequestSafe, Holding
    <2> QED BY <2>1, <2>2
  <1>5. /\ UNCHANGED wrk /\ fresh' \in {fresh, fresh + 1}
        /\ \A other \in Threads \ {t} : req'[other] = req[other]
    BY ModelAssumption DEF PrepareFreshReceipt, Abort, Finish, Types, ActorsType
  <1> QED BY <1>1, <1>3, <1>4, <1>5, RequestKeepsSafety

LEMMA RefreshReceiptSafe ==
    ASSUME Types, SafetyInv, NEW t \in Threads, RefreshReceipt(t)
    PROVE  SafetyInv'
  <1> DEFINE op == req[t].op
             old == IF req[t].new # 0 THEN req[t].old ELSE receipts[op].old
             new == IF req[t].new # 0 THEN req[t].new ELSE receipts[op].new
             store == ReceiptPrepared(receipts, op, req[t].session, old, new)
  <1>1. LockRespected(t)
    BY DEF RefreshReceipt, SafetyInv, RequestSafe, Holding, LockRespected
  <1>2. op \in SelfOps /\ req[t].session \in Sessions
    BY DEF RefreshReceipt, Types, ActorsType, SelfRequests
  <1>3. old \in Nat /\ new \in Nat
    <2>1. CASE req[t].new # 0
      <3>1. req[t] \in Request
        BY DEF Types, ActorsType
      <3> QED BY <2>1, <3>1 DEF Request
    <2>2. CASE req[t].new = 0
      <3>1. op \in DOMAIN receipts
        BY <2>2 DEF RefreshReceipt, Bound, Live
      <3>2. receipts[op] \in Receipt
        BY <3>1, StoreMember DEF Types, FilesType
      <3> QED BY <2>2, <3>2 DEF Receipt
    <2> QED BY <2>1, <2>2
  <1>4. old < new
    BY <1>2 DEF RefreshReceipt, SafetyInv, RequestSafe, FilesSafe, LaterReceipts, Bound, Live
  <1>9. new <= fresh
    BY <1>2 DEF RefreshReceipt, SafetyInv, RequestSafe, FilesSafe, LaterReceipts, Bound, Live
  <1>5. LaterReceipts(store, fresh)
    BY <1>3, <1>4, <1>9, PreparedIsLater DEF SafetyInv, FilesSafe, Types, FilesType, OthersType
  <1>6. FilesSafe'
    <2>1. UNCHANGED <<disk, history, fresh>> /\ receipts' \in {receipts, store}
      <3> HIDE DEF store
      <3>1. \/ UNCHANGED receipts
            \/ \E outcome \in Outcomes : SaveReceipts(store, outcome)
        BY DEF RefreshReceipt, store
      <3>2. UNCHANGED <<disk, history, fresh>>
        BY DEF RefreshReceipt
      <3> QED BY <3>1, <3>2 DEF SaveReceipts, Visible
    <2> QED BY <1>5, <2>1, OnlyReceiptsWritten DEF SafetyInv
  <1>8. /\ UNCHANGED wrk /\ fresh' \in {fresh, fresh + 1}
        /\ \A other \in Threads \ {t} : req'[other] = req[other]
    BY ModelAssumption DEF RefreshReceipt, Abort, Finish, Types, ActorsType
  <1>7. RequestSafe(t)'
    <2>1. CASE Abort(t)
      <3>1. req'[t] = IdleRequest
        BY <2>1 DEF Abort, Finish, Types, ActorsType
      <3>2. fresh' \in Nat
        BY <1>8 DEF Types, OthersType
      <3> QED BY <3>1, <3>2 DEF IdleRequest, RequestSafe, Holding
    <2>2. CASE ~Abort(t)
      <3>1. /\ req'[t].pc = "task" /\ req'[t].op = op
            /\ req'[t].old = store[op].old /\ req'[t].new = store[op].new
            /\ UNCHANGED <<lock, users, fresh>>
        <4>1. /\ req' = [req EXCEPT ![t].pc = "task", ![t].old = store[op].old,
                                   ![t].new = store[op].new]
              /\ UNCHANGED <<lock, users, fresh>>
          BY <2>2 DEF RefreshReceipt
        <4>2. req \in [Threads -> Request]
          BY DEF Types, ActorsType
        <4> HIDE DEF store
        <4> QED BY <4>1, <4>2 DEF Request
      <3>2. op \in DOMAIN store
        BY <1>2, <1>3, ReceiptPreparedType DEF Types, FilesType
      <3>3. store[op].old < store[op].new /\ store[op].new <= fresh
        BY <1>5, <3>2 DEF LaterReceipts
      <3>4. req[t].pc = "receipt" /\ RequestSafe(t)
        BY DEF RefreshReceipt, SafetyInv
      <3> HIDE DEF store
      <3> QED BY <1>2, <3>1, <3>3, <3>4, ModelAssumption DEF RequestSafe, Holding
    <2> QED BY <2>1, <2>2
  <1> QED BY <1>1, <1>6, <1>7, <1>8, RequestKeepsSafety

LEMMA PrepareTaskSafe ==
    ASSUME Types, SafetyInv, NEW t \in Threads, PrepareTask(t)
    PROVE  SafetyInv'
  <1> DEFINE op == req[t].op
             u == UserOf[op]
             new == CASE op \in SelfOps -> req[t].new
                      [] op \in AdminOps -> fresh + 1
                      [] op \in DeleteOps -> 0
  <1>1. LockRespected(t)
    BY DEF PrepareTask, SafetyInv, RequestSafe, Holding, LockRespected
  <1>2. /\ UNCHANGED <<disk, history, receipts>>
        /\ fresh' \in {fresh, fresh + 1}
    BY ModelAssumption DEF PrepareTask
  <1>3. FilesSafe'
    <2>1. fresh' \in {fresh, fresh + 1} => LaterReceipts(receipts, fresh')
      BY StoreMember DEF SafetyInv, FilesSafe, LaterReceipts, Types, FilesType, OthersType, Receipt
    <2> QED BY <1>2, <2>1, OnlyReceiptsWritten DEF SafetyInv, FilesSafe
  <1>4. RequestSafe(t)'
    <2>1. CASE Abort(t)
      BY <2>1 DEF PrepareTask, Abort, Finish, IdleRequest, RequestSafe, Holding,
                  Types, ActorsType, OthersType
    <2>2. CASE ~Abort(t)
      <3>1. /\ req'[t].pc = "commit" /\ req'[t].op = op
            /\ req'[t].old = req[t].old /\ req'[t].new = new /\ UNCHANGED <<lock, users>>
            /\ fresh' = (IF op \in AdminOps THEN new ELSE fresh)
        <4>1. /\ req' = [req EXCEPT ![t].pc = "commit", ![t].new = new]
              /\ UNCHANGED <<lock, users>>
              /\ fresh' = (IF op \in AdminOps THEN new ELSE fresh)
          BY <2>2 DEF PrepareTask
        <4>2. req \in [Threads -> Request]
          BY DEF Types, ActorsType
        <4> HIDE DEF new
        <4> QED BY <4>1, <4>2 DEF Request
      <3>2. req[t].pc = "task" /\ RequestSafe(t)
        BY DEF PrepareTask, SafetyInv
      <3>3. op \in AdminOps => users[u].gen < new
        <4>1. SUFFICES ASSUME op \in AdminOps
                       PROVE  users[u].gen < fresh + 1
          BY ModelAssumption
        <4>2. u \in Users
          BY ModelAssumption DEF Types, ActorsType, Request
        <4>3. users[u].gen <= fresh /\ users[u].gen \in Nat /\ fresh \in Nat
          BY <4>2 DEF SafetyInv, FilesSafe, Types, FilesType, OthersType, Account
        <4> QED BY <4>3
      <3>4. op \in SelfOps => new = req[t].new
        BY ModelAssumption
      <3>5. op \in DeleteOps => new = 0
        BY ModelAssumption
      <3>6. new <= fresh'
        BY <3>1, <3>2, <3>4, <3>5 DEF RequestSafe, Types, ActorsType, OthersType, Request, Op
      <3> HIDE DEF new
      <3> QED BY <3>1, <3>2, <3>3, <3>4, <3>6 DEF RequestSafe, Holding
    <2> QED BY <2>1, <2>2
  <1>5. /\ UNCHANGED wrk /\ fresh' \in {fresh, fresh + 1}
        /\ \A other \in Threads \ {t} : req'[other] = req[other]
    BY ModelAssumption DEF PrepareTask, Abort, Finish, Types, ActorsType
  <1> QED BY <1>1, <1>3, <1>4, <1>5, RequestKeepsSafety

LEMMA CommitUsersSafe ==
    ASSUME Types, SafetyInv, NEW t \in Threads, CommitUsers(t)
    PROVE  SafetyInv'
  <1> DEFINE op == req[t].op
             u == UserOf[op]
             new == [users EXCEPT ![u] = Changed(t)]
  <1>1. LockRespected(t)
    BY DEF CommitUsers, SafetyInv, RequestSafe, Holding, LockRespected
  <1>2. op \in Op /\ u \in Users /\ users \in [Users -> Account] /\ users \in disk
        /\ req[t].pc = "commit" /\ RequestSafe(t)
    BY ModelAssumption DEF CommitUsers, Types, FilesType, ActorsType, Request, SafetyInv
  <1>3. new[u].gen = (IF op \in DeleteOps THEN 0 ELSE req[t].new)
    BY <1>2 DEF Changed, NoAccount, Account
  <1>4. \A v \in Users \ {u} : new[v] = users[v]
    BY <1>2
  <1>5. PICK outcome \in Outcomes : SaveUsers(new, outcome) /\ outcome \in SaveOutcome
    BY ModelAssumption DEF CommitUsers
  <1>6. \A content \in disk' : content = new \/ content \in disk
    BY <1>5 DEF SaveUsers, OnDisk, SaveOutcome
  <1>7. FilesSafe'
    <2>1. ASSUME NEW v \in Users
          PROVE  new[v].gen <= fresh /\ (new[v].gen # 0 => v \in history)
      <3>1. CASE v = u
        BY <1>2, <1>3, <3>1 DEF RequestSafe, SafetyInv, FilesSafe, HistoryOutlivesAccount, Types, OthersType
      <3>2. CASE v # u
        BY <1>2, <1>4, <3>2 DEF SafetyInv, FilesSafe, HistoryOutlivesAccount
      <3> QED BY <3>1, <3>2
    <2>2. UNCHANGED <<receipts, fresh, history>>
      BY DEF CommitUsers
    <2> HIDE DEF new
    <2> QED BY <1>6, <2>1, <2>2 DEF SafetyInv, FilesSafe, HistoryOutlivesAccount, LaterReceipts
  <1>8. RequestSafe(t)'
    <2>1. CASE Abort(t)
      BY <2>1 DEF Abort, Finish, IdleRequest, RequestSafe, Holding, Types, ActorsType, OthersType, CommitUsers
    <2>2. CASE ~Abort(t)
      <3>1. /\ req'[t].op = op /\ req'[t].new = req[t].new /\ fresh' = fresh
            /\ \/ req'[t].pc = "static"
               \/ req'[t].pc = "sync" /\ lock' = lock /\ disk' = {new}
        BY <2>2 DEF CommitUsers, Types, ActorsType, Request, SaveUsers, OnDisk
      <3>2. op \in DeleteOps => op \notin SelfOps \cup AdminOps
        BY ModelAssumption
      <3> HIDE DEF new
      <3> QED BY <1>2, <1>3, <3>1, <3>2 DEF RequestSafe, Holding
    <2> QED BY <2>1, <2>2
  <1>9. UNCHANGED <<wrk, fresh>> /\ \A other \in Threads \ {t} : req'[other] = req[other]
    BY DEF CommitUsers, Abort, Finish, Types, ActorsType
  <1> QED BY <1>1, <1>7, <1>8, <1>9, RequestKeepsSafety

LEMMA ConflictSafe ==
    ASSUME Types, SafetyInv, NEW t \in Threads, Conflict(t)
    PROVE  SafetyInv'
  <1>1. LockRespected(t)
    BY DEF Conflict, SafetyInv, RequestSafe, Holding, LockRespected
  <1>2. FilesSafe'
    BY FilesUndisturbed DEF Conflict, SafetyInv
  <1>3. RequestSafe(t)'
    BY DEF Conflict, Goto, SafetyInv, RequestSafe, Holding, Types, ActorsType, OthersType, Request
  <1>4. /\ UNCHANGED wrk /\ fresh' \in {fresh, fresh + 1}
        /\ \A other \in Threads \ {t} : req'[other] = req[other]
    BY DEF Conflict, Goto, Types, ActorsType
  <1> QED BY <1>1, <1>2, <1>3, <1>4, RequestKeepsSafety

LEMMA DiscardReceiptSafe ==
    ASSUME Types, SafetyInv, NEW t \in Threads, DiscardReceipt(t)
    PROVE  SafetyInv'
  <1>1. LockRespected(t)
    BY DEF DiscardReceipt, SafetyInv, RequestSafe, Holding, LockRespected
  <1>2. FilesSafe'
    <2>1. LaterReceipts(Drop(receipts, req[t].op), fresh)
      BY DEF SafetyInv, FilesSafe, LaterReceipts, Drop
    <2> QED BY <2>1, OnlyReceiptsWritten DEF DiscardReceipt, SaveReceipts, Visible, SafetyInv
  <1>3. RequestSafe(t)'
    BY DEF DiscardReceipt, Abort, Finish, Release, IdleRequest, Goto, SafetyInv, RequestSafe, Holding, Types, ActorsType, OthersType, Request
  <1>4. /\ UNCHANGED wrk /\ fresh' \in {fresh, fresh + 1}
        /\ \A other \in Threads \ {t} : req'[other] = req[other]
    BY DEF DiscardReceipt, Abort, Finish, Release, IdleRequest, Goto, Types, ActorsType
  <1> QED BY <1>1, <1>2, <1>3, <1>4, RequestKeepsSafety

LEMMA DiscardTaskSafe ==
    ASSUME Types, SafetyInv, NEW t \in Threads, DiscardTask(t)
    PROVE  SafetyInv'
  <1>1. LockRespected(t)
    BY DEF DiscardTask, SafetyInv, RequestSafe, Holding, LockRespected
  <1>2. FilesSafe'
    BY FilesUndisturbed DEF DiscardTask, SafetyInv
  <1>3. RequestSafe(t)'
    BY DEF DiscardTask, Abort, Finish, Release, IdleRequest, SafetyInv, RequestSafe, Holding, Types, ActorsType, OthersType, Request
  <1>4. /\ UNCHANGED wrk /\ fresh' \in {fresh, fresh + 1}
        /\ \A other \in Threads \ {t} : req'[other] = req[other]
    BY DEF DiscardTask, Abort, Finish, Release, IdleRequest, Types, ActorsType
  <1> QED BY <1>1, <1>2, <1>3, <1>4, RequestKeepsSafety

LEMMA SyncStaticSafe ==
    ASSUME Types, SafetyInv, NEW t \in Threads, SyncStatic(t)
    PROVE  SafetyInv'
  <1>1. LockRespected(t)
    BY DEF SyncStatic, SafetyInv, RequestSafe, Holding, LockRespected
  <1>2. FilesSafe'
    BY FilesUndisturbed DEF SyncStatic, SafetyInv
  <1>3. RequestSafe(t)'
    BY DEF SyncStatic, Release, SafetyInv, RequestSafe, Holding, Types, ActorsType, OthersType, Request
  <1>4. /\ UNCHANGED wrk /\ fresh' \in {fresh, fresh + 1}
        /\ \A other \in Threads \ {t} : req'[other] = req[other]
    BY DEF SyncStatic, Release, Types, ActorsType
  <1> QED BY <1>1, <1>2, <1>3, <1>4, RequestKeepsSafety

LEMMA PurgeSafe ==
    ASSUME Types, SafetyInv, NEW t \in Threads, Purge(t)
    PROVE  SafetyInv'
  <1>1. LockRespected(t)
    BY DEF Purge, SafetyInv, RequestSafe, Holding, LockRespected
  <1>2. FilesSafe'
    <2>1. \A content \in disk : content[UserOf[req[t].op]].gen = 0
      BY DEF Purge, SafetyInv, RequestSafe
    <2> QED BY <2>1 DEF Purge, SafetyInv, FilesSafe, HistoryOutlivesAccount
  <1>3. RequestSafe(t)'
    BY DEF Purge, Release, Goto, SafetyInv, RequestSafe, Holding, Types, ActorsType, OthersType, Request
  <1>4. /\ UNCHANGED wrk /\ fresh' \in {fresh, fresh + 1}
        /\ \A other \in Threads \ {t} : req'[other] = req[other]
    BY DEF Purge, Release, Goto, Types, ActorsType
  <1> QED BY <1>1, <1>2, <1>3, <1>4, RequestKeepsSafety

LEMMA StaticEffectsSafe ==
    ASSUME Types, SafetyInv, NEW t \in Threads, StaticEffects(t)
    PROVE  SafetyInv'
  <1>1. LockRespected(t)
    BY DEF StaticEffects, SafetyInv, RequestSafe, Holding, LockRespected
  <1>2. FilesSafe'
    BY FilesUndisturbed DEF StaticEffects, SafetyInv
  <1>3. RequestSafe(t)'
    BY DEF StaticEffects, SafetyInv, RequestSafe, Holding, Types, ActorsType, OthersType, Request
  <1>4. /\ UNCHANGED wrk /\ fresh' \in {fresh, fresh + 1}
        /\ \A other \in Threads \ {t} : req'[other] = req[other]
    BY DEF StaticEffects, Types, ActorsType
  <1> QED BY <1>1, <1>2, <1>3, <1>4, RequestKeepsSafety

LEMMA RecordStaticRetrySafe ==
    ASSUME Types, SafetyInv, NEW t \in Threads, RecordStaticRetry(t)
    PROVE  SafetyInv'
  <1>1. LockRespected(t)
    BY DEF RecordStaticRetry, SafetyInv, RequestSafe, Holding, LockRespected
  <1>2. FilesSafe'
    BY FilesUndisturbed DEF RecordStaticRetry, SafetyInv
  <1>3. RequestSafe(t)'
    BY DEF RecordStaticRetry, SafetyInv, RequestSafe, Holding, Types, ActorsType, OthersType, Request
  <1>4. /\ UNCHANGED wrk /\ fresh' \in {fresh, fresh + 1}
        /\ \A other \in Threads \ {t} : req'[other] = req[other]
    BY DEF RecordStaticRetry, Types, ActorsType
  <1> QED BY <1>1, <1>2, <1>3, <1>4, RequestKeepsSafety

LEMMA KickUserSafe ==
    ASSUME Types, SafetyInv, NEW t \in Threads, KickUser(t)
    PROVE  SafetyInv'
  <1>1. LockRespected(t)
    BY DEF KickUser, SafetyInv, RequestSafe, Holding, LockRespected
  <1>2. FilesSafe'
    BY FilesUndisturbed DEF KickUser, SafetyInv
  <1>3. RequestSafe(t)'
    BY DEF KickUser, SafetyInv, RequestSafe, Holding, Types, ActorsType, OthersType, Request
  <1>4. /\ UNCHANGED wrk /\ fresh' \in {fresh, fresh + 1}
        /\ \A other \in Threads \ {t} : req'[other] = req[other]
    BY DEF KickUser, Types, ActorsType
  <1> QED BY <1>1, <1>2, <1>3, <1>4, RequestKeepsSafety

LEMMA RecordKickAttemptSafe ==
    ASSUME Types, SafetyInv, NEW t \in Threads, RecordKickAttempt(t)
    PROVE  SafetyInv'
  <1>1. LockRespected(t)
    BY DEF RecordKickAttempt, SafetyInv, RequestSafe, Holding, LockRespected
  <1>2. FilesSafe'
    BY FilesUndisturbed DEF RecordKickAttempt, SafetyInv
  <1>3. RequestSafe(t)'
    BY DEF RecordKickAttempt, Finish, IdleRequest, SafetyInv, RequestSafe, Holding, Types, ActorsType, OthersType, Request
  <1>4. /\ UNCHANGED wrk /\ fresh' \in {fresh, fresh + 1}
        /\ \A other \in Threads \ {t} : req'[other] = req[other]
    BY DEF RecordKickAttempt, Finish, IdleRequest, Types, ActorsType
  <1> QED BY <1>1, <1>2, <1>3, <1>4, RequestKeepsSafety

LEMMA MintSessionSafe ==
    ASSUME Types, SafetyInv, NEW t \in Threads, MintSession(t)
    PROVE  SafetyInv'
  <1>1. LockRespected(t)
    BY DEF MintSession, SafetyInv, RequestSafe, Holding, LockRespected
  <1>2. FilesSafe'
    BY FilesUndisturbed DEF MintSession, SafetyInv
  <1>3. RequestSafe(t)'
    BY DEF MintSession, Finish, Goto, IdleRequest, SafetyInv, RequestSafe, Holding, Types, ActorsType, OthersType, Request
  <1>4. /\ UNCHANGED wrk /\ fresh' \in {fresh, fresh + 1}
        /\ \A other \in Threads \ {t} : req'[other] = req[other]
    BY DEF MintSession, Finish, Goto, IdleRequest, Types, ActorsType
  <1> QED BY <1>1, <1>2, <1>3, <1>4, RequestKeepsSafety

LEMMA BindReplacementSafe ==
    ASSUME Types, SafetyInv, NEW t \in Threads, BindReplacement(t)
    PROVE  SafetyInv'
  <1>1. LockRespected(t)
    BY DEF BindReplacement, SafetyInv, RequestSafe, Holding, LockRespected
  <1>2. FilesSafe'
    <2>1. \A replacement \in Sessions :
            LaterReceipts(ReceiptRebound(receipts, req[t].op, req[t].session, replacement), fresh)
      BY ReboundIsLater DEF SafetyInv, FilesSafe, Types, FilesType
    <2> QED BY <2>1, OnlyReceiptsWritten DEF BindReplacement, SaveReceipts, Visible, SafetyInv
  <1>3. RequestSafe(t)'
    BY DEF BindReplacement, Finish, IdleRequest, SafetyInv, RequestSafe, Holding, Types, ActorsType, OthersType, Request
  <1>4. /\ UNCHANGED wrk /\ fresh' \in {fresh, fresh + 1}
        /\ \A other \in Threads \ {t} : req'[other] = req[other]
    BY DEF BindReplacement, Finish, IdleRequest, Types, ActorsType
  <1> QED BY <1>1, <1>2, <1>3, <1>4, RequestKeepsSafety

-----------------------------------------------------------------------------
(* The steps of a worker.                                                    *)

LEMMA ClaimSafe ==
    ASSUME Types, SafetyInv, NEW w \in Workers, NEW id \in Op, NEW outcome, Claim(w, id, outcome)
    PROVE  SafetyInv'
  <1>1. LockRespected(w)
    BY DEF Claim, SafetyInv, WorkerSafe, LockRespected
  <1>2. FilesSafe'
    BY FilesUndisturbed DEF Claim, SafetyInv
  <1>3. WorkerSafe(w)'
    BY DEF Claim, ClaimedJob, IdleJob, SafetyInv, WorkerSafe, JobUser, Types, ActorsType, Job
  <1>4. /\ UNCHANGED <<req, fresh>>
        /\ \A other \in Workers \ {w} : wrk'[other] = wrk[other]
    BY DEF Claim, ClaimedJob, IdleJob, Types, ActorsType
  <1> QED BY <1>1, <1>2, <1>3, <1>4, WorkerKeepsSafety

LEMMA WorkerLockSafe ==
    ASSUME Types, SafetyInv, NEW w \in Workers, WorkerLock(w)
    PROVE  SafetyInv'
  <1>1. LockRespected(w)
    BY DEF WorkerLock, SafetyInv, WorkerSafe, LockRespected
  <1>2. FilesSafe'
    BY FilesUndisturbed DEF WorkerLock, SafetyInv
  <1>3. WorkerSafe(w)'
    <2>1. \A pc : WDecide(w, pc) \/ WGoto(w, pc) => wrk'[w].pc = pc
      BY DEF WDecide, WGoto, Types, ActorsType, Job
    <2>2. \/ wrk'[w].pc \in {"save", "sync"} /\ lock' = w
          \/ wrk'[w].pc \in {"static", "previous", "superseded", "giveup"}
      BY <2>1 DEF WorkerLock
    <2> QED BY <2>2 DEF WorkerSafe
  <1>4. /\ UNCHANGED <<req, fresh>>
        /\ \A other \in Workers \ {w} : wrk'[other] = wrk[other]
    BY DEF WorkerLock, WDecide, WGoto, Types, ActorsType
  <1> QED BY <1>1, <1>2, <1>3, <1>4, WorkerKeepsSafety

LEMMA WorkerLockTimedOutSafe ==
    ASSUME Types, SafetyInv, NEW w \in Workers, WorkerLockTimedOut(w)
    PROVE  SafetyInv'
  <1>1. LockRespected(w)
    BY DEF WorkerLockTimedOut, SafetyInv, WorkerSafe, LockRespected
  <1>2. FilesSafe'
    BY FilesUndisturbed DEF WorkerLockTimedOut, SafetyInv
  <1>3. WorkerSafe(w)'
    BY DEF WorkerLockTimedOut, WGoto, SafetyInv, WorkerSafe, JobUser, Types, ActorsType, Job
  <1>4. /\ UNCHANGED <<req, fresh>>
        /\ \A other \in Workers \ {w} : wrk'[other] = wrk[other]
    BY DEF WorkerLockTimedOut, WGoto, Types, ActorsType
  <1> QED BY <1>1, <1>2, <1>3, <1>4, WorkerKeepsSafety

LEMMA WorkerSaveSafe ==
    ASSUME Types, SafetyInv, NEW w \in Workers, NEW outcome \in SaveOutcome, WorkerSave(w, outcome)
    PROVE  SafetyInv'
  <1>1. LockRespected(w)
    BY DEF WorkerSave, SafetyInv, WorkerSafe, LockRespected
  <1>2. FilesSafe'
    <2> DEFINE new == [users EXCEPT ![JobUser(w)] = NoAccount]
    <2>1. \A u \in Users : new[u] = users[u] \/ new[u].gen = 0
      BY DEF Types, FilesType, NoAccount
    <2>2. \A content \in disk' : content = new \/ content \in disk
      BY DEF WorkerSave, SaveUsers, OnDisk, SaveOutcome
    <2>3. UNCHANGED <<receipts, fresh, history>> /\ users \in disk /\ fresh \in Nat
      BY DEF WorkerSave, Types, FilesType, OthersType
    <2> HIDE DEF new
    <2> QED BY <2>1, <2>2, <2>3
      DEF SafetyInv, FilesSafe, HistoryOutlivesAccount, LaterReceipts
  <1>3. WorkerSafe(w)'
    <2>1. /\ wrk'[w].op = wrk[w].op /\ lock = w
          /\ wrk'[w].pc \in {"purge", "giveup"}
      BY DEF WorkerSave, WGoto, SafetyInv, WorkerSafe, Types, ActorsType, Job
    <2>2. JobUser(w) \in Users
      BY ModelAssumption DEF JobUser, Types, ActorsType, Job
    <2>3. CASE wrk'[w].pc = "purge"
      <3>1. outcome = "ok" /\ lock' = lock
        BY <2>3 DEF WorkerSave, WGoto, Types, ActorsType, Job
      <3>2. \A content \in disk' : content[JobUser(w)].gen = 0
        BY <2>2, <3>1 DEF WorkerSave, SaveUsers, OnDisk, NoAccount, Types, FilesType
      <3> QED BY <2>1, <2>3, <3>1, <3>2 DEF WorkerSafe, JobUser
    <2> QED BY <2>1, <2>3 DEF WorkerSafe
  <1>4. /\ UNCHANGED <<req, fresh>>
        /\ \A other \in Workers \ {w} : wrk'[other] = wrk[other]
    BY DEF WorkerSave, WGoto, Release, SaveUsers, OnDisk, NoAccount, Types, ActorsType
  <1> QED BY <1>1, <1>2, <1>3, <1>4, WorkerKeepsSafety

LEMMA WorkerPurgeSafe ==
    ASSUME Types, SafetyInv, NEW w \in Workers, WorkerPurge(w)
    PROVE  SafetyInv'
  <1>1. LockRespected(w)
    BY DEF WorkerPurge, SafetyInv, WorkerSafe, LockRespected
  <1>2. FilesSafe'
    <2>1. \A content \in disk : content[JobUser(w)].gen = 0
      BY DEF WorkerPurge, SafetyInv, WorkerSafe
    <2> QED BY <2>1 DEF WorkerPurge, SafetyInv, FilesSafe, HistoryOutlivesAccount
  <1>3. WorkerSafe(w)'
    BY DEF WorkerPurge, WGoto, Release, SafetyInv, WorkerSafe, JobUser, Types, ActorsType, Job
  <1>4. /\ UNCHANGED <<req, fresh>>
        /\ \A other \in Workers \ {w} : wrk'[other] = wrk[other]
    BY DEF WorkerPurge, WGoto, Release, Types, ActorsType
  <1> QED BY <1>1, <1>2, <1>3, <1>4, WorkerKeepsSafety

LEMMA WorkerSyncSafe ==
    ASSUME Types, SafetyInv, NEW w \in Workers, NEW synced, WorkerSync(w, synced)
    PROVE  SafetyInv'
  <1>1. LockRespected(w)
    BY DEF WorkerSync, SafetyInv, WorkerSafe, LockRespected
  <1>2. FilesSafe'
    BY FilesUndisturbed DEF WorkerSync, SafetyInv
  <1>3. WorkerSafe(w)'
    BY DEF WorkerSync, Release, SafetyInv, WorkerSafe, JobUser, Types, ActorsType, Job
  <1>4. /\ UNCHANGED <<req, fresh>>
        /\ \A other \in Workers \ {w} : wrk'[other] = wrk[other]
    BY DEF WorkerSync, Release, Types, ActorsType
  <1> QED BY <1>1, <1>2, <1>3, <1>4, WorkerKeepsSafety

LEMMA WorkerGiveUpSafe ==
    ASSUME Types, SafetyInv, NEW w \in Workers, WorkerGiveUp(w)
    PROVE  SafetyInv'
  <1>1. LockRespected(w)
    BY DEF WorkerGiveUp, SafetyInv, WorkerSafe, LockRespected
  <1>2. FilesSafe'
    BY FilesUndisturbed DEF WorkerGiveUp, SafetyInv
  <1>3. WorkerSafe(w)'
    BY DEF WorkerGiveUp, WFinish, IdleJob, SafetyInv, WorkerSafe, JobUser, Types, ActorsType, Job
  <1>4. /\ UNCHANGED <<req, fresh>>
        /\ \A other \in Workers \ {w} : wrk'[other] = wrk[other]
    BY DEF WorkerGiveUp, WFinish, IdleJob, Types, ActorsType
  <1> QED BY <1>1, <1>2, <1>3, <1>4, WorkerKeepsSafety

LEMMA WorkerPreviousSafe ==
    ASSUME Types, SafetyInv, NEW w \in Workers, NEW outcome, WorkerPrevious(w, outcome)
    PROVE  SafetyInv'
  <1>1. LockRespected(w)
    BY DEF WorkerPrevious, SafetyInv, WorkerSafe, LockRespected
  <1>2. FilesSafe'
    BY FilesUndisturbed DEF WorkerPrevious, SafetyInv
  <1>3. WorkerSafe(w)'
    BY DEF WorkerPrevious, WFinish, IdleJob, SafetyInv, WorkerSafe, JobUser, Types, ActorsType, Job
  <1>4. /\ UNCHANGED <<req, fresh>>
        /\ \A other \in Workers \ {w} : wrk'[other] = wrk[other]
    BY DEF WorkerPrevious, WFinish, IdleJob, Types, ActorsType
  <1> QED BY <1>1, <1>2, <1>3, <1>4, WorkerKeepsSafety

LEMMA WorkerSupersededSafe ==
    ASSUME Types, SafetyInv, NEW w \in Workers, NEW outcome, WorkerSuperseded(w, outcome)
    PROVE  SafetyInv'
  <1>1. LockRespected(w)
    BY DEF WorkerSuperseded, SafetyInv, WorkerSafe, LockRespected
  <1>2. FilesSafe'
    BY FilesUndisturbed DEF WorkerSuperseded, SafetyInv
  <1>3. WorkerSafe(w)'
    BY DEF WorkerSuperseded, WFinish, IdleJob, SafetyInv, WorkerSafe, JobUser, Types, ActorsType, Job
  <1>4. /\ UNCHANGED <<req, fresh>>
        /\ \A other \in Workers \ {w} : wrk'[other] = wrk[other]
    BY DEF WorkerSuperseded, WFinish, IdleJob, Types, ActorsType
  <1> QED BY <1>1, <1>2, <1>3, <1>4, WorkerKeepsSafety

LEMMA WorkerStaticSafe ==
    ASSUME Types, SafetyInv, NEW w \in Workers, WorkerStatic(w)
    PROVE  SafetyInv'
  <1>1. LockRespected(w)
    BY DEF WorkerStatic, SafetyInv, WorkerSafe, LockRespected
  <1>2. FilesSafe'
    BY FilesUndisturbed DEF WorkerStatic, SafetyInv
  <1>3. WorkerSafe(w)'
    BY DEF WorkerStatic, IdleJob, SafetyInv, WorkerSafe, JobUser, Types, ActorsType, Job
  <1>4. /\ UNCHANGED <<req, fresh>>
        /\ \A other \in Workers \ {w} : wrk'[other] = wrk[other]
    BY DEF WorkerStatic, IdleJob, Types, ActorsType
  <1> QED BY <1>1, <1>2, <1>3, <1>4, WorkerKeepsSafety

LEMMA WorkerKickSafe ==
    ASSUME Types, SafetyInv, NEW w \in Workers, NEW ok, WorkerKick(w, ok)
    PROVE  SafetyInv'
  <1>1. LockRespected(w)
    BY DEF WorkerKick, SafetyInv, WorkerSafe, LockRespected
  <1>2. FilesSafe'
    BY FilesUndisturbed DEF WorkerKick, SafetyInv
  <1>3. WorkerSafe(w)'
    BY DEF WorkerKick, IdleJob, SafetyInv, WorkerSafe, JobUser, Types, ActorsType, Job
  <1>4. /\ UNCHANGED <<req, fresh>>
        /\ \A other \in Workers \ {w} : wrk'[other] = wrk[other]
    BY DEF WorkerKick, IdleJob, Types, ActorsType
  <1> QED BY <1>1, <1>2, <1>3, <1>4, WorkerKeepsSafety

LEMMA WorkerCompleteSafe ==
    ASSUME Types, SafetyInv, NEW w \in Workers, NEW outcome, WorkerComplete(w, outcome)
    PROVE  SafetyInv'
  <1>1. LockRespected(w)
    BY DEF WorkerComplete, SafetyInv, WorkerSafe, LockRespected
  <1>2. FilesSafe'
    BY FilesUndisturbed DEF WorkerComplete, SafetyInv
  <1>3. WorkerSafe(w)'
    BY DEF WorkerComplete, WFinish, IdleJob, SafetyInv, WorkerSafe, JobUser, Types, ActorsType, Job
  <1>4. /\ UNCHANGED <<req, fresh>>
        /\ \A other \in Workers \ {w} : wrk'[other] = wrk[other]
    BY DEF WorkerComplete, WFinish, IdleJob, Types, ActorsType
  <1> QED BY <1>1, <1>2, <1>3, <1>4, WorkerKeepsSafety

-----------------------------------------------------------------------------
(* The other steps.                                                          *)

LEMMA RenderPanelSafe ==
    ASSUME Types, SafetyInv, NEW op \in SelfOps, RenderPanel(op)
    PROVE  SafetyInv'
  <1>1. LockRespected(Nobody) /\ UNCHANGED <<req, wrk>>
    BY DEF RenderPanel, LockRespected
  <1>2. fresh' \in {fresh, fresh + 1} /\ FilesSafe'
    BY FilesUndisturbed DEF RenderPanel, SafetyInv
  <1> QED BY <1>1, <1>2, EnvironmentKeepsSafety

LEMMA PruneReceiptsSafe ==
    ASSUME Types, SafetyInv, PruneReceipts
    PROVE  SafetyInv'
  <1>1. LockRespected(Nobody) /\ UNCHANGED <<req, wrk>>
    BY DEF PruneReceipts, LockRespected
  <1>2. fresh' \in {fresh, fresh + 1} /\ FilesSafe'
    <2>1. LaterReceipts(Live(receipts), fresh)
      BY LiveIsLater DEF SafetyInv, FilesSafe
    <2> QED BY <2>1, OnlyReceiptsWritten DEF PruneReceipts, SafetyInv
  <1> QED BY <1>1, <1>2, EnvironmentKeepsSafety

LEMMA CreateUserSafe ==
    ASSUME Types, SafetyInv, NEW u \in Users, CreateUser(u)
    PROVE  SafetyInv'
  <1>1. LockRespected(Nobody) /\ UNCHANGED <<req, wrk>>
    BY DEF CreateUser, LockRespected
  <1>2. fresh' \in {fresh, fresh + 1} /\ FilesSafe'
    <2> DEFINE new == [users EXCEPT ![u] = [gen |-> fresh + 1, rev |-> 1]]
    <2>1. /\ fresh' = fresh + 1 /\ history' = history \cup {u} /\ UNCHANGED receipts
          /\ \A content \in disk' : content = new \/ content \in disk
      BY ModelAssumption DEF CreateUser, SaveUsers, OnDisk, SaveOutcome, Types, FilesType
    <2>2. /\ \A v \in Users : (new[v].gen = fresh + 1 /\ v = u) \/ new[v] = users[v]
          /\ users \in disk /\ fresh \in Nat
          /\ \A content \in disk : \A v \in Users : content[v].gen \in Nat
      BY DEF Types, FilesType, OthersType, Account
    <2> HIDE DEF new
    <2>3. LaterReceipts(receipts, fresh + 1)
      BY <2>2, StoreMember DEF SafetyInv, FilesSafe, LaterReceipts, Types, FilesType, Receipt
    <2>4. ASSUME NEW content \in disk', NEW v \in Users
          PROVE  content[v].gen <= fresh + 1 /\ (content[v].gen # 0 => v \in history')
      BY <2>1, <2>2 DEF SafetyInv, FilesSafe, HistoryOutlivesAccount
    <2> QED BY <2>1, <2>3, <2>4 DEF FilesSafe, HistoryOutlivesAccount, LaterReceipts
  <1> QED BY <1>1, <1>2, EnvironmentKeepsSafety

LEMMA UpdateUserSafe ==
    ASSUME Types, SafetyInv, NEW u \in Users, UpdateUser(u)
    PROVE  SafetyInv'
  <1>1. LockRespected(Nobody) /\ UNCHANGED <<req, wrk>>
    BY DEF UpdateUser, LockRespected
  <1>2. fresh' \in {fresh, fresh + 1} /\ FilesSafe'
    <2> DEFINE new == [users EXCEPT ![u].rev = @ + 1]
    <2>1. /\ UNCHANGED <<fresh, history, receipts>>
          /\ \A content \in disk' : content = new \/ content \in disk
      BY ModelAssumption DEF UpdateUser, SaveUsers, OnDisk, SaveOutcome
    <2>2. users \in disk /\ \A v \in Users : new[v].gen = users[v].gen
      BY DEF Types, FilesType, Account
    <2> HIDE DEF new
    <2> QED BY <2>1, <2>2 DEF SafetyInv, FilesSafe, HistoryOutlivesAccount, LaterReceipts
  <1> QED BY <1>1, <1>2, EnvironmentKeepsSafety

LEMMA ReconcileSafe ==
    ASSUME Types, SafetyInv, Reconcile
    PROVE  SafetyInv'
  <1>1. LockRespected(Nobody) /\ UNCHANGED <<req, wrk>>
    BY DEF Reconcile, LockRespected
  <1>2. fresh' \in {fresh, fresh + 1} /\ FilesSafe'
    BY FilesUndisturbed DEF Reconcile, SafetyInv
  <1> QED BY <1>1, <1>2, EnvironmentKeepsSafety

LEMMA AuthenticateSafe ==
    ASSUME Types, SafetyInv, NEW u \in Users, Authenticate(u)
    PROVE  SafetyInv'
  <1>1. LockRespected(Nobody) /\ UNCHANGED <<req, wrk>>
    BY DEF Authenticate, LockRespected
  <1>2. fresh' \in {fresh, fresh + 1} /\ FilesSafe'
    BY FilesUndisturbed DEF Authenticate, SafetyInv
  <1> QED BY <1>1, <1>2, EnvironmentKeepsSafety

LEMMA EstablishSafe ==
    ASSUME Types, SafetyInv, NEW a \in approved, Establish(a)
    PROVE  SafetyInv'
  <1>1. LockRespected(Nobody) /\ UNCHANGED <<req, wrk>>
    BY DEF Establish, LockRespected
  <1>2. fresh' \in {fresh, fresh + 1} /\ FilesSafe'
    BY FilesUndisturbed DEF Establish, SafetyInv
  <1> QED BY <1>1, <1>2, EnvironmentKeepsSafety

LEMMA TickSafe ==
    ASSUME Types, SafetyInv, Tick
    PROVE  SafetyInv'
  <1>1. LockRespected(Nobody) /\ fresh' = fresh /\ fresh \in Nat
    BY DEF Tick, LockRespected, Types, OthersType
  <1>2. FilesSafe'
    <2>1. ReceiptTick(receipts) \in [DOMAIN receipts -> Receipt]
      BY ReceiptTickType, StoreMember DEF Types, FilesType, ReceiptTick
    <2>2. \A id \in DOMAIN receipts :
            /\ ReceiptTick(receipts)[id].old = receipts[id].old
            /\ ReceiptTick(receipts)[id].new = receipts[id].new
      BY StoreMember DEF Types, FilesType, ReceiptTick, Receipt
    <2>3. LaterReceipts(ReceiptTick(receipts), fresh)
      BY <2>1, <2>2 DEF LaterReceipts, SafetyInv, FilesSafe
    <2> QED BY <1>1, <2>3, OnlyReceiptsWritten DEF Tick, SafetyInv
  <1>3. ASSUME NEW t \in Threads
        PROVE  RequestSafe(t)'
    <2>1. /\ req'[t].pc = req[t].pc /\ req'[t].op = req[t].op
          /\ req'[t].old = req[t].old /\ req'[t].new = req[t].new /\ req[t].new \in Nat
      BY <1>3 DEF Tick, Types, ActorsType, Request
    <2> QED BY <1>1, <2>1, RequestUndisturbed, ModelAssumption DEF SafetyInv
  <1>4. ASSUME NEW w \in Workers
        PROVE  WorkerSafe(w)'
    <2>1. wrk'[w].pc = wrk[w].pc /\ wrk'[w].op = wrk[w].op
      BY <1>4 DEF Tick, Types, ActorsType, Job
    <2> QED BY <1>1, <2>1, WorkerUndisturbed, ModelAssumption DEF SafetyInv
  <1> QED BY <1>2, <1>3, <1>4 DEF SafetyInv

\* Nothing is held or promised by a process that has just started.
LEMMA DeathSafe ==
    ASSUME Types, SafetyInv, ProcessDies, fresh' = fresh, FilesSafe'
    PROVE  SafetyInv'
  BY DEF ProcessDies, IdleRequest, IdleJob, SafetyInv, RequestSafe, WorkerSafe, Holding,
         Types, OthersType

LEMMA CrashSafe ==
    ASSUME Types, SafetyInv, Crash
    PROVE  SafetyInv'
  <1>1. FilesSafe'
    BY FilesUndisturbed DEF Crash, SafetyInv
  <1> QED BY <1>1, DeathSafe DEF Crash

LEMMA PowerLossSafe ==
    ASSUME Types, SafetyInv, PowerLoss
    PROVE  SafetyInv'
  <1>1. FilesSafe'
    BY DEF PowerLoss, SafetyInv, FilesSafe, HistoryOutlivesAccount, LaterReceipts
  <1> QED BY <1>1, DeathSafe DEF PowerLoss

-----------------------------------------------------------------------------
(* The theorems.                                                             *)

LEMMA InitSafe ==
    ASSUME Init
    PROVE  SafetyInv
  <1>1. FilesSafe
    BY DEF Init, FilesSafe, HistoryOutlivesAccount, LaterReceipts
  <1> QED BY <1>1 DEF Init, IdleRequest, IdleJob, SafetyInv, RequestSafe, WorkerSafe, Holding

LEMMA StepSafe ==
    ASSUME Types, SafetyInv, [Next]_vars
    PROVE  SafetyInv'
  <1>1. ASSUME NEW t \in Threads, Begin(t)
        PROVE  SafetyInv'
    BY <1>1, SelfBeginSafe, AdminBeginSafe DEF Begin
  <1>2. ASSUME NEW t \in Threads, RequestStep(t)
        PROVE  SafetyInv'
    BY <1>2, LockTimedOutSafe, LockSafe, PrepareFreshReceiptSafe, RefreshReceiptSafe,
       PrepareTaskSafe, CommitUsersSafe, ConflictSafe, DiscardReceiptSafe, DiscardTaskSafe,
       SyncStaticSafe, PurgeSafe, StaticEffectsSafe, RecordStaticRetrySafe, KickUserSafe,
       RecordKickAttemptSafe, MintSessionSafe, BindReplacementSafe DEF RequestStep
  <1>3. ASSUME NEW w \in Workers, WorkerStep(w)
        PROVE  SafetyInv'
    <2>1. \A outcome \in Outcomes : outcome \in SaveOutcome
      BY ModelAssumption
    <2> QED
      BY <1>3, <2>1, ClaimSafe, WorkerLockSafe, WorkerLockTimedOutSafe, WorkerSaveSafe,
         WorkerPurgeSafe, WorkerSyncSafe, WorkerGiveUpSafe, WorkerPreviousSafe,
         WorkerSupersededSafe, WorkerStaticSafe, WorkerKickSafe, WorkerCompleteSafe
      DEF WorkerStep
  <1>4. CASE Environment
    BY <1>4, RenderPanelSafe, CreateUserSafe, UpdateUserSafe, AuthenticateSafe,
       EstablishSafe, ReconcileSafe, CrashSafe, PowerLossSafe DEF Environment
  <1>5. CASE UNCHANGED vars
    BY <1>5 DEF vars, SafetyInv, FilesSafe, HistoryOutlivesAccount, LaterReceipts,
                RequestSafe, WorkerSafe, JobUser
  <1> QED BY <1>1, <1>2, <1>3, <1>4, <1>5, PruneReceiptsSafe, TickSafe DEF Next

\* What holds of the files and of every actor, at any time.
LEMMA SafetyAlways == Spec => [](Types /\ SafetyInv)
  <1>1. Init => Types /\ SafetyInv
    BY InitTypes, InitSafe DEF Types
  <1>2. Types /\ SafetyInv /\ [Next]_vars => (Types /\ SafetyInv)'
    BY StepTypes, StepSafe DEF Types, TypesPrimed
  <1> QED BY <1>1, <1>2, PTL DEF Spec

\* No power loss brings back an account whose history a deletion has purged, and no
\* account created under a deleted name loses its own history to the old deletion.
THEOREM HistoryIsSafe == Spec => []HistoryOutlivesAccount
  <1>1. SafetyInv => HistoryOutlivesAccount
    BY DEF SafetyInv, FilesSafe
  <1> QED BY <1>1, SafetyAlways, PTL

\* Only a request that holds usage_lock changes a token, and to a later one.
LEMMA GenerationStep ==
    ASSUME Types, SafetyInv, [Next]_vars
    PROVE  \/ UNCHANGED users \/ undone'
           \/ \A u \in Users : users'[u].gen = 0 \/ users'[u].gen >= users[u].gen
  <1> DEFINE Later == \A u \in Users : users'[u].gen = 0 \/ users'[u].gen >= users[u].gen
  <1>1. ASSUME NEW t \in Threads, CommitUsers(t)
        PROVE  Later
    <2> DEFINE op == req[t].op
               v == UserOf[op]
    <2>1. /\ op \in Op /\ v \in Users /\ users \in [Users -> Account]
          /\ req[t].new \in Nat /\ RequestSafe(t) /\ req[t].pc = "commit" /\ ~Superseded(t)
      BY <1>1, ModelAssumption DEF CommitUsers, Types, FilesType, ActorsType, Request, SafetyInv
    <2>2. users' = [users EXCEPT ![v] = Changed(t)] \/ UNCHANGED users
      BY <1>1 DEF CommitUsers, SaveUsers, Visible
    <2>3. Changed(t).gen = (IF op \in DeleteOps THEN 0 ELSE req[t].new)
      BY <2>1 DEF Changed, NoAccount, Account
    <2>4. op \in SelfOps => users[v].gen <= req[t].new
      BY <2>1 DEF Superseded, RequestSafe, Account, Types, ActorsType, Request
    <2>5. op \in AdminOps => users[v].gen <= req[t].new
      BY <2>1 DEF RequestSafe, Account
    <2>6. \A u \in Users : users[u].gen \in Nat
      BY <2>1 DEF Account
    <2> QED BY <2>1, <2>2, <2>3, <2>4, <2>5, <2>6 DEF Op
  <1>2. ASSUME NEW w \in Workers, NEW outcome, WorkerSave(w, outcome)
        PROVE  Later
    BY <1>2 DEF WorkerSave, SaveUsers, Visible, NoAccount, Types, FilesType, Account
  <1>3. ASSUME NEW u \in Users, CreateUser(u) \/ UpdateUser(u)
        PROVE  Later
    BY <1>3 DEF CreateUser, UpdateUser, SaveUsers, Visible, Exists, Types, FilesType,
                OthersType, Account
  <1>4. PowerLoss => UNCHANGED users \/ undone'
    BY DEF PowerLoss
  <1>5. ASSUME NEW t \in Threads, Begin(t)
        PROVE  UNCHANGED users
    BY <1>5 DEF Begin, SelfBegin, AdminBegin
  <1>6. ASSUME NEW t \in Threads, RequestStep(t)
        PROVE  UNCHANGED users \/ Later
    BY <1>1, <1>6 DEF RequestStep, LockTimedOut, Lock, PrepareFreshReceipt, RefreshReceipt,
         PrepareTask, Conflict, DiscardReceipt, DiscardTask, SyncStatic, Purge, StaticEffects,
         RecordStaticRetry, KickUser, RecordKickAttempt, MintSession, BindReplacement
  <1>7. ASSUME NEW w \in Workers, WorkerStep(w)
        PROVE  UNCHANGED users \/ Later
    BY <1>2, <1>7 DEF WorkerStep, Claim, WorkerLock, WorkerLockTimedOut, WorkerPurge,
         WorkerSync, WorkerGiveUp, WorkerPrevious, WorkerSuperseded, WorkerStatic,
         WorkerKick, WorkerComplete
  <1>8. CASE Environment
    BY <1>3, <1>4, <1>8 DEF Environment, RenderPanel, Authenticate, Establish, Reconcile, Crash
  <1>9. PruneReceipts \/ Tick \/ UNCHANGED vars => UNCHANGED users
    BY DEF PruneReceipts, Tick, vars
  <1> QED BY <1>5, <1>6, <1>7, <1>8, <1>9 DEF Next

\* As long as no power loss undoes a save, a token is only ever replaced by one
\* generated later: neither a replayed rotation nor the worker brings one back.
THEOREM GenerationsAdvance == Spec => GenerationsNeverGoBack
  <1>1. Types /\ SafetyInv /\ [Next]_vars =>
          [undone' \/ \A u \in Users : users'[u].gen = 0 \/ users'[u].gen >= users[u].gen]_users
    BY GenerationStep
  <1> QED BY <1>1, SafetyAlways, PTL DEF Spec, GenerationsNeverGoBack

-----------------------------------------------------------------------------
(* Deletions.  What deletes an account is bound to the content that was      *)
(* asked for: the request by usage_lock, the task and the worker's copy of   *)
(* it by previous_generation.                                                *)

FromAsked(q, wanted) ==
    \A id \in DOMAIN q :
        q[id].target = DeleteTarget => <<UserOf[id], q[id].previous>> \in wanted

RequestAsked(t) ==
    req[t].pc \in {"task", "commit"} /\ req[t].op \in DeleteOps =>
        <<UserOf[req[t].op], users[UserOf[req[t].op]]>> \in asked

WorkerAsked(w) ==
    /\ wrk[w].pc = "lock" /\ wrk[w].target = DeleteTarget =>
         <<JobUser(w), wrk[w].previous>> \in asked
    /\ wrk[w].pc = "save" /\ Exists(JobUser(w)) =>
         <<JobUser(w), users[JobUser(w)]>> \in asked

AskedInv ==
    /\ FromAsked(queue, asked)
    /\ \A t \in Threads : RequestAsked(t)
    /\ \A w \in Workers : WorkerAsked(w)

\* Every task of p is one of q, about the same generations.
SameTasks(p, q) ==
    \A id \in DOMAIN p : /\ id \in DOMAIN q
                         /\ p[id].previous = q[id].previous /\ p[id].target = q[id].target

LEMMA SameTasksAsked ==
    ASSUME NEW p, NEW q, NEW wanted, NEW more, SameTasks(p, q), FromAsked(q, wanted), wanted \subseteq more
    PROVE  FromAsked(p, more)
  BY DEF SameTasks, FromAsked

\* No operation on the queue but prepare binds a task.
LEMMA QueueKeepsTasks ==
    ASSUME NEW q \in Queues, NEW id
    PROVE  /\ SameTasks(q, q)
           /\ SameTasks(Drop(q, id), q)
           /\ SameTasks(Released(q, id), q)
           /\ SameTasks(QueueTick(q), q)
           /\ id \in DOMAIN q => SameTasks(Claimed(q, id), q)
           /\ \A services \in SUBSET Services : SameTasks(WithStaticServices(q, id, services), q)
  <1>1. \A i \in DOMAIN q : q[i] \in Task
    BY QueueMember
  <1>2. SameTasks(q, q) /\ SameTasks(Drop(q, id), q)
    BY DEF SameTasks, Drop
  <1>3. SameTasks(Released(q, id), q)
    BY <1>1, ReleasedType, QueueMember DEF SameTasks, Released, Task
  <1>4. SameTasks(QueueTick(q), q)
    BY <1>1 DEF SameTasks, QueueTick, Task
  <1>5. id \in DOMAIN q => SameTasks(Claimed(q, id), q)
    BY <1>1 DEF SameTasks, Claimed, Task
  <1>6. ASSUME NEW services \in SUBSET Services
        PROVE  SameTasks(WithStaticServices(q, id, services), q)
    BY <1>1 DEF SameTasks, WithStaticServices, Task
  <1> QED BY <1>2, <1>3, <1>4, <1>5, <1>6

LEMMA AttemptKeepsTasks ==
    ASSUME NEW q \in Queues, NEW id, NEW kickOk \in BOOLEAN, NEW stopped \in SUBSET Services
    PROVE  SameTasks(AttemptRecorded(q, id, kickOk, stopped), q)
  <1>1. \A i \in DOMAIN q : q[i] \in Task
    BY QueueMember
  <1>2. CASE id \notin DOMAIN q \/ Finished(q[id], kickOk, stopped)
    BY <1>2, QueueKeepsTasks DEF AttemptRecorded
  <1>3. CASE id \in DOMAIN q /\ ~Finished(q[id], kickOk, stopped)
    BY <1>1, <1>3 DEF AttemptRecorded, SameTasks, Task
  <1> QED BY <1>2, <1>3

LEMMA RequestStillAsked ==
    ASSUME NEW t \in Threads, RequestSafe(t), RequestAsked(t), NEW actor, actor # t,
           LockRespected(actor), asked \subseteq asked',
           req'[t].pc = req[t].pc, req'[t].op = req[t].op
    PROVE  RequestAsked(t)'
  <1> SUFFICES ASSUME req[t].pc \in {"task", "commit"}, req[t].op \in DeleteOps
               PROVE  <<UserOf[req[t].op], users'[UserOf[req[t].op]]>> \in asked'
    BY DEF RequestAsked
  <1>1. UNCHANGED users
    BY ModelAssumption DEF RequestSafe, Holding, LockRespected
  <1> QED BY <1>1 DEF RequestAsked

LEMMA WorkerStillAsked ==
    ASSUME NEW w \in Workers, WorkerSafe(w), WorkerAsked(w), NEW actor, actor # w,
           LockRespected(actor), asked \subseteq asked',
           wrk'[w].pc = wrk[w].pc, wrk'[w].op = wrk[w].op,
           wrk'[w].target = wrk[w].target, wrk'[w].previous = wrk[w].previous
    PROVE  WorkerAsked(w)'
  <1>1. wrk[w].pc = "save" => UNCHANGED users
    BY ModelAssumption DEF WorkerSafe, LockRespected
  <1> QED BY <1>1 DEF WorkerAsked, JobUser, Exists

\* A step of a request, one of a worker, and one that is neither.
LEMMA RequestKeepsAsked ==
    ASSUME SafetyInv, AskedInv, NEW t \in Threads, LockRespected(t), UNCHANGED wrk,
           \A other \in Threads \ {t} : req'[other] = req[other],
           asked \subseteq asked', FromAsked(queue', asked'), RequestAsked(t)'
    PROVE  AskedInv'
  <1>1. ASSUME NEW other \in Threads \ {t}
        PROVE  RequestAsked(other)'
    BY <1>1, RequestStillAsked DEF AskedInv, SafetyInv
  <1>2. ASSUME NEW w \in Workers
        PROVE  WorkerAsked(w)'
    BY <1>2, WorkerStillAsked, ModelAssumption DEF AskedInv, SafetyInv
  <1> QED BY <1>1, <1>2 DEF AskedInv

LEMMA WorkerKeepsAsked ==
    ASSUME SafetyInv, AskedInv, NEW w \in Workers, LockRespected(w), UNCHANGED <<req, asked>>,
           \A other \in Workers \ {w} : wrk'[other] = wrk[other],
           FromAsked(queue', asked), WorkerAsked(w)'
    PROVE  AskedInv'
  <1>1. ASSUME NEW other \in Workers \ {w}
        PROVE  WorkerAsked(other)'
    BY <1>1, WorkerStillAsked DEF AskedInv, SafetyInv
  <1>2. ASSUME NEW t \in Threads
        PROVE  RequestAsked(t)'
    BY <1>2, RequestStillAsked, ModelAssumption DEF AskedInv, SafetyInv
  <1> QED BY <1>1, <1>2 DEF AskedInv

LEMMA EnvironmentKeepsAsked ==
    ASSUME SafetyInv, AskedInv, LockRespected(Nobody), UNCHANGED asked,
           SameTasks(queue', queue),
           \A t \in Threads : req'[t].pc = req[t].pc /\ req'[t].op = req[t].op,
           \A w \in Workers : /\ wrk'[w].pc = wrk[w].pc /\ wrk'[w].op = wrk[w].op
                              /\ wrk'[w].target = wrk[w].target
                              /\ wrk'[w].previous = wrk[w].previous
    PROVE  AskedInv'
  <1>1. ASSUME NEW t \in Threads
        PROVE  RequestAsked(t)'
    BY <1>1, RequestStillAsked, ModelAssumption DEF AskedInv, SafetyInv
  <1>2. ASSUME NEW w \in Workers
        PROVE  WorkerAsked(w)'
    BY <1>2, WorkerStillAsked, ModelAssumption DEF AskedInv, SafetyInv
  <1> QED BY <1>1, <1>2, SameTasksAsked DEF AskedInv

-----------------------------------------------------------------------------
\* A request that begins or waits asks for nothing yet.
LEMMA BeginAsked ==
    ASSUME Types, SafetyInv, AskedInv, NEW t \in Threads, Begin(t)
    PROVE  AskedInv'
  <1>1. UNCHANGED <<users, disk, lock, wrk, queue, asked>>
        /\ \A other \in Threads \ {t} : req'[other] = req[other]
    BY DEF Begin, SelfBegin, AdminBegin, Types, ActorsType
  <1>2. req'[t].pc = "lock"
    <2>1. ASSUME NEW op \in SelfOps, NEW session \in Sessions, SelfBegin(t, op, session)
          PROVE  req'[t].pc = "lock"
      BY <2>1 DEF SelfBegin, Types, ActorsType, IdleRequest
    <2>2. ASSUME NEW op \in AdminOps \cup DeleteOps, AdminBegin(t, op)
          PROVE  req'[t].pc = "lock"
      BY <2>2 DEF AdminBegin, Types, ActorsType, IdleRequest
    <2> QED BY <2>1, <2>2 DEF Begin
  <1>3. RequestAsked(t)'
    BY <1>2 DEF RequestAsked
  <1> QED BY <1>1, <1>3, RequestKeepsAsked DEF LockRespected, AskedInv

LEMMA LockAsked ==
    ASSUME Types, SafetyInv, AskedInv, NEW t \in Threads, Lock(t)
    PROVE  AskedInv'
  <1>1. UNCHANGED <<users, disk, wrk, queue>> /\ asked \subseteq asked' /\ lock = Nobody
        /\ \A other \in Threads \ {t} : req'[other] = req[other]
    BY DEF Lock, Finish, Types, ActorsType
  <1>2. RequestAsked(t)'
    <2>1. CASE Finish(t)
      BY <2>1 DEF Finish, IdleRequest, RequestAsked, Types, ActorsType
    <2>2. CASE ~Finish(t)
      <3>1. /\ req'[t].op = req[t].op
            /\ req[t].op \in DeleteOps => <<UserOf[req[t].op], users[UserOf[req[t].op]]>> \in asked'
        BY <2>2 DEF Lock, Types, ActorsType, Request
      <3> QED BY <1>1, <3>1 DEF RequestAsked
    <2> QED BY <2>1, <2>2
  <1>3. FromAsked(queue', asked')
    BY <1>1 DEF AskedInv, FromAsked
  <1> QED BY <1>1, <1>2, <1>3, RequestKeepsAsked DEF LockRespected

\* The task of a deletion is bound to the content the request has read.
LEMMA PrepareTaskAsked ==
    ASSUME Types, SafetyInv, AskedInv, NEW t \in Threads, PrepareTask(t)
    PROVE  AskedInv'
  <1> DEFINE op == req[t].op
             new == CASE op \in SelfOps -> req[t].new
                      [] op \in AdminOps -> fresh + 1
                      [] op \in DeleteOps -> 0
             target == IF op \in DeleteOps THEN DeleteTarget ELSE TokenGeneration(new)
             previous == PreviousOf(t)
  <1>1. UNCHANGED <<users, disk, wrk, asked>> /\ req[t].pc = "task" /\ RequestAsked(t)
    BY DEF PrepareTask, AskedInv
  <1>2. LockRespected(t)
    BY <1>1 DEF SafetyInv, RequestSafe, Holding, LockRespected
  <1>3. queue' \in {queue, Prepared(queue, op, previous, target)}
    <2>1. \/ UNCHANGED queue
          \/ \E outcome \in Outcomes : SaveQueue(Prepared(queue, op, previous, target), outcome)
      BY DEF PrepareTask
    <2> HIDE DEF previous, target
    <2> QED BY <2>1 DEF SaveQueue, Visible
  <1>4. target = DeleteTarget => op \in DeleteOps
    BY DEF DeleteTarget, TokenGeneration
  <1>5. op \in DeleteOps => previous = users[UserOf[op]]
    BY ModelAssumption DEF PreviousOf, DeletePreviousGeneration
  <1>6. op \in DeleteOps => <<UserOf[op], previous>> \in asked
    BY <1>1, <1>5 DEF RequestAsked
  <1>7. FromAsked(Prepared(queue, op, previous, target), asked)
    <2> HIDE DEF previous, target, op
    <2> QED BY <1>4, <1>6 DEF AskedInv, FromAsked, Prepared, Put, NewTask
  <1>8. /\ \A other \in Threads \ {t} : req'[other] = req[other]
        /\ req'[t].op = op \/ req'[t] = IdleRequest
    BY DEF PrepareTask, Abort, Finish, Types, ActorsType, Request
  <1>9. RequestAsked(t)'
    BY <1>1, <1>8 DEF RequestAsked, IdleRequest
  <1>10. FromAsked(queue', asked)
    BY <1>3, <1>7 DEF AskedInv
  <1> QED BY <1>1, <1>2, <1>8, <1>9, <1>10, RequestKeepsAsked

LEMMA CommitUsersAsked ==
    ASSUME Types, SafetyInv, AskedInv, NEW t \in Threads, CommitUsers(t)
    PROVE  AskedInv'
  <1>1. UNCHANGED <<queue, wrk, asked>> /\ req[t].pc = "commit"
    BY DEF CommitUsers
  <1>2. LockRespected(t)
    BY <1>1 DEF SafetyInv, RequestSafe, Holding, LockRespected
  <1>3. /\ \A other \in Threads \ {t} : req'[other] = req[other]
        /\ req'[t].pc \notin {"task", "commit"}
    BY DEF CommitUsers, Abort, Finish, IdleRequest, Types, ActorsType, Request
  <1> QED BY <1>1, <1>2, <1>3, RequestKeepsAsked DEF AskedInv, RequestAsked

\* The other steps of a request ask for nothing, bind no task and leave users.json alone.
QuietRequestStep(t) ==
    \/ LockTimedOut(t) \/ PrepareFreshReceipt(t) \/ RefreshReceipt(t) \/ Conflict(t)
    \/ DiscardReceipt(t) \/ DiscardTask(t) \/ SyncStatic(t) \/ Purge(t)
    \/ StaticEffects(t) \/ RecordStaticRetry(t) \/ KickUser(t) \/ RecordKickAttempt(t)
    \/ MintSession(t) \/ BindReplacement(t)

LEMMA QuietRequestQueue ==
    ASSUME Types, NEW t \in Threads, QuietRequestStep(t)
    PROVE  SameTasks(queue', queue)
  <1>1. req[t] \in Request /\ queue \in Queues
    BY DEF Types, ActorsType, FilesType
  <1>2. SameTasks(queue, queue)
    BY <1>1, QueueKeepsTasks
  <1>3. CASE DiscardTask(t)
    BY <1>1, <1>2, <1>3, QueueKeepsTasks DEF DiscardTask, SaveQueue, Visible
  <1>4. CASE RecordStaticRetry(t)
    <2>1. req[t].retry \in SUBSET Services
      BY <1>1 DEF Request
    <2> QED BY <1>1, <1>2, <1>4, <2>1, QueueKeepsTasks DEF RecordStaticRetry, SaveQueue, Visible
  <1>5. CASE RecordKickAttempt(t)
    <2>1. req[t].kicked \in BOOLEAN /\ req[t].done \in SUBSET Services
      BY <1>1 DEF Request
    <2>2. SameTasks(AttemptRecorded(queue, req[t].op, req[t].kicked, req[t].done), queue)
      BY <1>1, <2>1, AttemptKeepsTasks
    <2> QED BY <1>2, <1>5, <2>2 DEF RecordKickAttempt, SaveQueue, Visible
  <1>6. CASE UNCHANGED queue
    BY <1>2, <1>6
  <1> QED BY <1>3, <1>4, <1>5, <1>6 DEF QuietRequestStep, LockTimedOut, PrepareFreshReceipt,
        RefreshReceipt, Conflict, DiscardReceipt, SyncStatic, Purge, StaticEffects, KickUser,
        MintSession, BindReplacement

LEMMA QuietRequestAsked ==
    ASSUME Types, SafetyInv, AskedInv, NEW t \in Threads, QuietRequestStep(t)
    PROVE  AskedInv'
  <1>1. UNCHANGED <<users, disk, wrk, asked>>
    BY DEF QuietRequestStep, LockTimedOut, PrepareFreshReceipt, RefreshReceipt, Conflict,
       DiscardReceipt, DiscardTask, SyncStatic, Purge, StaticEffects, RecordStaticRetry,
       KickUser, RecordKickAttempt, MintSession, BindReplacement
  <1>2. lock = t \/ UNCHANGED lock
    BY DEF QuietRequestStep, LockTimedOut, PrepareFreshReceipt, RefreshReceipt, Conflict,
       DiscardReceipt, DiscardTask, SyncStatic, Purge, StaticEffects, RecordStaticRetry,
       KickUser, RecordKickAttempt, MintSession, BindReplacement, SafetyInv, RequestSafe, Holding
  <1>3. \A other \in Threads \ {t} : req'[other] = req[other]
    BY DEF QuietRequestStep, LockTimedOut, PrepareFreshReceipt, RefreshReceipt, Conflict,
       DiscardReceipt, DiscardTask, SyncStatic, Purge, StaticEffects, RecordStaticRetry,
       KickUser, RecordKickAttempt, MintSession, BindReplacement, Abort, Finish, Goto,
       Types, ActorsType
  <1>4. RequestAsked(t)'
    <2>1. CASE PrepareFreshReceipt(t) \/ RefreshReceipt(t)
      <3>1. req[t].op \in SelfOps /\ req \in [Threads -> Request]
        BY <2>1 DEF PrepareFreshReceipt, RefreshReceipt, Types, ActorsType, SelfRequests
      <3>2. CASE Abort(t)
        BY <3>1, <3>2 DEF Abort, Finish, IdleRequest, RequestAsked
      <3>3. CASE ~Abort(t)
        <4>1. \E old, new : req' = [req EXCEPT ![t].pc = "task", ![t].old = old, ![t].new = new]
          BY <2>1, <3>3 DEF PrepareFreshReceipt, RefreshReceipt
        <4>2. req'[t].op = req[t].op
          BY <3>1, <4>1 DEF Request
        <4> QED BY <3>1, <4>2, ModelAssumption DEF RequestAsked
      <3> QED BY <3>2, <3>3
    <2>2. CASE ~(PrepareFreshReceipt(t) \/ RefreshReceipt(t))
      <3>1. req'[t].pc \notin {"task", "commit"}
        <4>1. req \in [Threads -> Request]
          BY DEF Types, ActorsType
        <4>2. CASE LockTimedOut(t) \/ Conflict(t) \/ DiscardReceipt(t) \/ DiscardTask(t)
                     \/ Purge(t) \/ MintSession(t) \/ BindReplacement(t)
          BY <4>1, <4>2 DEF LockTimedOut, Conflict, DiscardReceipt, DiscardTask, Purge, MintSession,
             BindReplacement, Abort, Finish, Goto, IdleRequest, Request
        <4>3. CASE SyncStatic(t)
          BY <4>1, <4>3 DEF SyncStatic, Request
        <4>4. CASE StaticEffects(t)
          BY <4>1, <4>4 DEF StaticEffects, Request
        <4>5. CASE RecordStaticRetry(t) \/ KickUser(t)
          BY <4>1, <4>5 DEF RecordStaticRetry, KickUser, Request
        <4>6. CASE RecordKickAttempt(t)
          BY <4>1, <4>6 DEF RecordKickAttempt, Finish, IdleRequest, Request
        <4> QED BY <2>2, <4>2, <4>3, <4>4, <4>5, <4>6 DEF QuietRequestStep
      <3> QED BY <3>1 DEF RequestAsked
    <2> QED BY <2>1, <2>2
  <1>5. FromAsked(queue', asked')
    BY <1>1, QuietRequestQueue, SameTasksAsked DEF AskedInv
  <1> QED BY <1>1, <1>2, <1>3, <1>4, <1>5, RequestKeepsAsked DEF LockRespected

-----------------------------------------------------------------------------
\* A worker's copy of a task carries the task's binding.
LEMMA ClaimAsked ==
    ASSUME Types, SafetyInv, AskedInv, NEW w \in Workers, NEW id \in Op, NEW outcome,
           Claim(w, id, outcome)
    PROVE  AskedInv'
  <1>1. UNCHANGED <<users, disk, lock, req, asked>> /\ id \in DOMAIN queue /\ queue \in Queues
    BY DEF Claim, Due, Types, FilesType
  <1>2. SameTasks(queue', queue)
    BY <1>1, QueueKeepsTasks DEF Claim, SaveQueue, Visible
  <1>3. FromAsked(queue', asked)
    BY <1>2, SameTasksAsked DEF AskedInv
  <1>4. \A other \in Workers \ {w} : wrk'[other] = wrk[other]
    BY DEF Claim, Types, ActorsType
  <1>5. WorkerAsked(w)'
    <2>1. CASE wrk' = wrk
      BY <1>1, <2>1 DEF AskedInv, WorkerAsked, JobUser, Exists
    <2>2. CASE wrk' = [wrk EXCEPT ![w] = ClaimedJob(id, queue[id])]
      <3>1. wrk'[w] = ClaimedJob(id, queue[id])
        BY <2>2 DEF Types, ActorsType
      <3>2. /\ wrk'[w].pc = "lock" /\ wrk'[w].op = id
            /\ wrk'[w].target = queue[id].target /\ wrk'[w].previous = queue[id].previous
        BY <3>1 DEF ClaimedJob, IdleJob
      <3> QED BY <1>1, <3>2 DEF AskedInv, FromAsked, WorkerAsked, JobUser
    <2> QED BY <2>1, <2>2 DEF Claim
  <1> QED BY <1>1, <1>3, <1>4, <1>5, WorkerKeepsAsked DEF LockRespected

\* The worker only goes on to the deletion when the account is the one its task names.
LEMMA WorkerLockAsked ==
    ASSUME Types, SafetyInv, AskedInv, NEW w \in Workers, WorkerLock(w)
    PROVE  AskedInv'
  <1>1. UNCHANGED <<users, disk, req, asked, queue>> /\ lock = Nobody /\ wrk[w].pc = "lock"
        /\ wrk[w] \in Job /\ wrk \in [Workers -> Job]
    BY DEF WorkerLock, Types, ActorsType
  <1>2. \A other \in Workers \ {w} : wrk'[other] = wrk[other]
    BY <1>1 DEF WorkerLock, WDecide, WGoto
  <1>3. WorkerAsked(w)'
    <2>1. wrk'[w].op = wrk[w].op /\ wrk'[w].pc # "lock"
      BY <1>1 DEF WorkerLock, WDecide, WGoto, Job
    <2>2. wrk'[w].pc = "save" => wrk[w].target = DeleteTarget /\ ~DeletionSuperseded(w)
      BY <1>1 DEF WorkerLock, WDecide, WGoto, Job
    <2>3. WorkerAsked(w)
      BY DEF AskedInv
    <2> QED BY <1>1, <2>1, <2>2, <2>3 DEF WorkerAsked, DeletionSuperseded, DeletePreviousGeneration,
            JobUser, Exists
  <1> QED BY <1>1, <1>2, <1>3, WorkerKeepsAsked DEF LockRespected, AskedInv

QuietWorkerStep(w) ==
    \/ WorkerLockTimedOut(w) \/ WorkerPurge(w) \/ WorkerGiveUp(w) \/ WorkerStatic(w)
    \/ \E synced \in SUBSET Services : WorkerSync(w, synced)
    \/ \E ok \in BOOLEAN : WorkerKick(w, ok)
    \/ \E outcome \in Outcomes : \/ WorkerSave(w, outcome) \/ WorkerPrevious(w, outcome)
                                 \/ WorkerSuperseded(w, outcome) \/ WorkerComplete(w, outcome)

LEMMA QuietWorkerQueue ==
    ASSUME Types, NEW w \in Workers, QuietWorkerStep(w)
    PROVE  SameTasks(queue', queue)
  <1>1. wrk[w] \in Job /\ queue \in Queues
    BY DEF Types, ActorsType, FilesType
  <1>2. SameTasks(queue, queue)
    BY <1>1, QueueKeepsTasks
  <1>3. CASE WorkerGiveUp(w)
    BY <1>1, <1>2, <1>3, QueueKeepsTasks DEF WorkerGiveUp, SaveQueue, Visible
  <1>4. ASSUME NEW outcome, WorkerPrevious(w, outcome) \/ WorkerSuperseded(w, outcome)
        PROVE  SameTasks(queue', queue)
    BY <1>1, <1>2, <1>4, QueueKeepsTasks DEF WorkerPrevious, WorkerSuperseded, SaveQueue, Visible
  <1>5. ASSUME NEW outcome, WorkerComplete(w, outcome) PROVE SameTasks(queue', queue)
    <2>1. wrk[w].kicked \in BOOLEAN /\ wrk[w].done \in SUBSET Services
      BY <1>1 DEF Job
    <2>2. SameTasks(AttemptRecorded(queue, wrk[w].op, wrk[w].kicked, wrk[w].done), queue)
      BY <1>1, <2>1, AttemptKeepsTasks
    <2> QED BY <1>2, <1>5, <2>2 DEF WorkerComplete, SaveQueue, Visible
  <1>6. CASE UNCHANGED queue
    BY <1>2, <1>6
  <1> QED BY <1>3, <1>4, <1>5, <1>6 DEF QuietWorkerStep, WorkerLockTimedOut, WorkerPurge,
        WorkerStatic, WorkerSync, WorkerKick, WorkerSave

LEMMA QuietWorkerAsked ==
    ASSUME Types, SafetyInv, AskedInv, NEW w \in Workers, QuietWorkerStep(w)
    PROVE  AskedInv'
  <1>1. UNCHANGED <<req, asked>>
    BY DEF QuietWorkerStep, WorkerLockTimedOut, WorkerPurge, WorkerGiveUp, WorkerStatic, WorkerSync,
       WorkerKick, WorkerSave, WorkerPrevious, WorkerSuperseded, WorkerComplete
  <1>2. LockRespected(w)
    BY DEF QuietWorkerStep, WorkerLockTimedOut, WorkerPurge, WorkerGiveUp, WorkerStatic, WorkerSync,
       WorkerKick, WorkerSave, WorkerPrevious, WorkerSuperseded, WorkerComplete, SafetyInv,
       WorkerSafe, LockRespected
  <1>3. \A other \in Workers \ {w} : wrk'[other] = wrk[other]
    BY DEF QuietWorkerStep, WorkerLockTimedOut, WorkerPurge, WorkerGiveUp, WorkerStatic, WorkerSync,
       WorkerKick, WorkerSave, WorkerPrevious, WorkerSuperseded, WorkerComplete, WGoto, WFinish,
       Types, ActorsType
  <1>4. wrk'[w].pc \notin {"lock", "save"}
    <2>1. wrk \in [Workers -> Job]
      BY DEF Types, ActorsType
    <2>2. CASE WorkerLockTimedOut(w) \/ WorkerPurge(w) \/ WorkerGiveUp(w)
      BY <2>1, <2>2 DEF WorkerLockTimedOut, WorkerPurge, WorkerGiveUp, WGoto, WFinish, IdleJob, Job
    <2>6. CASE WorkerStatic(w)
      BY <2>1, <2>6 DEF WorkerStatic, Job
    <2>3. ASSUME NEW synced, WorkerSync(w, synced) PROVE wrk'[w].pc \notin {"lock", "save"}
      BY <2>1, <2>3 DEF WorkerSync, Job
    <2>4. ASSUME NEW ok, WorkerKick(w, ok) PROVE wrk'[w].pc \notin {"lock", "save"}
      BY <2>1, <2>4 DEF WorkerKick, Job
    <2>5. ASSUME NEW outcome, \/ WorkerSave(w, outcome) \/ WorkerPrevious(w, outcome)
                              \/ WorkerSuperseded(w, outcome) \/ WorkerComplete(w, outcome)
          PROVE  wrk'[w].pc \notin {"lock", "save"}
      BY <2>1, <2>5 DEF WorkerSave, WorkerPrevious, WorkerSuperseded, WorkerComplete, WGoto, WFinish,
         IdleJob, Job
    <2> QED BY <2>2, <2>3, <2>4, <2>5, <2>6 DEF QuietWorkerStep
  <1>5. FromAsked(queue', asked)
    BY QuietWorkerQueue, SameTasksAsked DEF AskedInv
  <1> QED BY <1>1, <1>2, <1>3, <1>4, <1>5, WorkerKeepsAsked DEF WorkerAsked

-----------------------------------------------------------------------------
LEMMA EnvironmentAsked ==
    ASSUME Types, SafetyInv, AskedInv, Environment \/ Tick \/ PruneReceipts
    PROVE  AskedInv'
  <1>1. SameTasks(queue, queue) /\ SameTasks(QueueTick(queue), queue)
    BY QueueKeepsTasks DEF Types, FilesType
  <1>2. CASE Crash \/ PowerLoss
    BY <1>2 DEF Crash, PowerLoss, ProcessDies, IdleRequest, IdleJob, AskedInv, RequestAsked,
       WorkerAsked, FromAsked
  <1>3. CASE Tick
    <2>1. /\ \A t \in Threads : req'[t].pc = req[t].pc /\ req'[t].op = req[t].op
          /\ \A w \in Workers : /\ wrk'[w].pc = wrk[w].pc /\ wrk'[w].op = wrk[w].op
                                /\ wrk'[w].target = wrk[w].target
                                /\ wrk'[w].previous = wrk[w].previous
      BY <1>3 DEF Tick, Types, ActorsType, Request, Job
    <2> QED BY <1>1, <1>3, <2>1, EnvironmentKeepsAsked DEF Tick, LockRespected
  <1>4. CASE /\ UNCHANGED <<req, wrk, queue, asked>> /\ LockRespected(Nobody)
    BY <1>1, <1>4, EnvironmentKeepsAsked
  <1>5. Environment \/ PruneReceipts =>
          Crash \/ PowerLoss \/ (UNCHANGED <<req, wrk, queue, asked>> /\ LockRespected(Nobody))
    BY DEF Environment, PruneReceipts, RenderPanel, CreateUser, UpdateUser, Authenticate, Establish,
       Reconcile, LockRespected
  <1> QED BY <1>2, <1>3, <1>4, <1>5

LEMMA StepAsked ==
    ASSUME Types, SafetyInv, AskedInv, [Next]_vars
    PROVE  AskedInv'
  <1>1. ASSUME NEW t \in Threads, RequestStep(t)
        PROVE  AskedInv'
    BY <1>1, LockAsked, PrepareTaskAsked, CommitUsersAsked, QuietRequestAsked
      DEF RequestStep, QuietRequestStep
  <1>2. ASSUME NEW w \in Workers, WorkerStep(w)
        PROVE  AskedInv'
    BY <1>2, ClaimAsked, WorkerLockAsked, QuietWorkerAsked DEF WorkerStep, QuietWorkerStep
  <1>3. CASE UNCHANGED vars
    BY <1>3 DEF vars, AskedInv, FromAsked, RequestAsked, WorkerAsked, JobUser, Exists
  <1> QED BY <1>1, <1>2, <1>3, BeginAsked, EnvironmentAsked DEF Next

LEMMA AskedAlways == Spec => [](Types /\ SafetyInv /\ AskedInv)
  <1>1. Init => AskedInv
    BY DEF Init, AskedInv, FromAsked, RequestAsked, WorkerAsked, IdleRequest, IdleJob
  <1>2. Types /\ SafetyInv /\ AskedInv /\ [Next]_vars => AskedInv'
    BY StepAsked
  <1> QED BY <1>1, <1>2, SafetyAlways, PTL DEF Spec

\* An account goes in the content that was asked for, or with what a power loss undoes.
LEMMA DeletionStep ==
    ASSUME Types, SafetyInv, AskedInv, [Next]_vars, NEW u \in Users, Exists(u),
           users'[u].gen = 0, ~undone'
    PROVE  <<u, users[u]>> \in asked
  <1>1. ASSUME NEW t \in Threads, CommitUsers(t)
        PROVE  <<u, users[u]>> \in asked
    <2> DEFINE op == req[t].op
               v == UserOf[op]
    <2>1. /\ op \in Op /\ v \in Users /\ users \in [Users -> Account]
          /\ RequestSafe(t) /\ RequestAsked(t) /\ req[t].pc = "commit" /\ req[t].new \in Nat
          /\ req[t].old \in Nat
      BY <1>1, ModelAssumption DEF CommitUsers, Types, FilesType, ActorsType, Request, SafetyInv,
         AskedInv
    <2>2. users' = [users EXCEPT ![v] = Changed(t)] \/ UNCHANGED users
      BY <1>1 DEF CommitUsers, SaveUsers, Visible
    <2>3. u = v /\ Changed(t).gen = 0
      BY <2>1, <2>2 DEF Exists
    <2>4. op \in DeleteOps
      <3>1. op \notin DeleteOps => Changed(t).gen = req[t].new
        BY <2>1 DEF Changed, Account
      <3>2. op \notin DeleteOps => req[t].new > 0
        BY <2>1 DEF Op, RequestSafe, Account
      <3> QED BY <2>1, <2>3, <3>1, <3>2
    <2> QED BY <2>1, <2>3, <2>4 DEF RequestAsked
  <1>2. ASSUME NEW w \in Workers, NEW outcome, WorkerSave(w, outcome)
        PROVE  <<u, users[u]>> \in asked
    <2>1. WorkerAsked(w) /\ wrk[w].pc = "save" /\ users \in [Users -> Account]
          /\ users' \in {users, [users EXCEPT ![JobUser(w)] = NoAccount]}
      BY <1>2 DEF WorkerSave, SaveUsers, Visible, AskedInv, Types, FilesType
    <2>2. u = JobUser(w)
      BY <2>1 DEF Exists
    <2> QED BY <2>1, <2>2 DEF WorkerAsked
  <1>3. ~CreateUser(u) /\ \A v \in Users : ~UpdateUser(v) /\ ~CreateUser(v)
    BY DEF CreateUser, UpdateUser, SaveUsers, Visible, Exists, Types, FilesType, OthersType, Account
  <1>4. ~PowerLoss /\ ~UNCHANGED users
    BY DEF PowerLoss, Exists
  <1>5. ASSUME NEW t \in Threads, Begin(t) \/ RequestStep(t)
        PROVE  <<u, users[u]>> \in asked
    BY <1>1, <1>4, <1>5 DEF Begin, SelfBegin, AdminBegin, RequestStep, LockTimedOut, Lock,
         PrepareFreshReceipt, RefreshReceipt, PrepareTask, Conflict, DiscardReceipt, DiscardTask,
         SyncStatic, Purge, StaticEffects, RecordStaticRetry, KickUser, RecordKickAttempt,
         MintSession, BindReplacement
  <1>6. ASSUME NEW w \in Workers, WorkerStep(w)
        PROVE  <<u, users[u]>> \in asked
    BY <1>2, <1>4, <1>6 DEF WorkerStep, Claim, WorkerLock, WorkerLockTimedOut, WorkerPurge,
         WorkerSync, WorkerGiveUp, WorkerPrevious, WorkerSuperseded, WorkerStatic,
         WorkerKick, WorkerComplete
  <1>7. ~Environment
    BY <1>3, <1>4 DEF Environment, RenderPanel, Authenticate, Establish, Reconcile, Crash
  <1>8. ~(PruneReceipts \/ Tick \/ UNCHANGED vars)
    BY <1>4 DEF PruneReceipts, Tick, vars
  <1> QED BY <1>5, <1>6, <1>7, <1>8 DEF Next

\* Whatever overlaps, fails, dies or is repeated, an account disappears only in the exact
\* content an administrator asked to delete, as long as no power loss undoes a save: neither
\* the request nor the worker removes one that was changed or created since.
THEOREM DeletionsAreRequested == Spec => OnlyRequestedDeletions
  <1>1. Types /\ SafetyInv /\ AskedInv /\ [Next]_vars =>
          [\A u \in Users : Exists(u) /\ users'[u].gen = 0 /\ ~undone'
             => <<u, users[u]>> \in asked]_users
    BY DeletionStep
  <1> QED BY <1>1, AskedAlways, PTL DEF Spec, OnlyRequestedDeletions
-----------------------------------------------------------------------------
(* Receipts.  A request under usage_lock has the token of its receipt, and   *)
(* withdraws the receipt only when the account has another token.            *)

ReceiptHeld(t) ==
    LET op == req[t].op IN
    /\ req[t].pc \in {"task", "commit", "discardReceipt"} /\ op \in SelfOps /\ op \in DOMAIN receipts =>
         receipts[op].new = req[t].new
    /\ req[t].pc = "discardReceipt" => op \in SelfOps /\ users[UserOf[op]].gen # req[t].new

ReceiptsHeld == \A t \in Threads : ReceiptHeld(t)

\* Every receipt of p is one of q, with the same token.
SameReceipts(p, q) == \A id \in DOMAIN p : id \in DOMAIN q /\ p[id].new = q[id].new

\* Receipts are added under usage_lock only.
ReceiptsRespected(actor) == lock = actor \/ SameReceipts(receipts', receipts)

LEMMA ReceiptsStayTheSame ==
    ASSUME NEW store \in Stores
    PROVE  /\ SameReceipts(store, store)
           /\ SameReceipts(Live(store), store)
           /\ SameReceipts(ReceiptTick(store), store)
           /\ \A id, session, replacement : SameReceipts(ReceiptRebound(store, id, session, replacement), store)
  <1>1. \A id \in DOMAIN store : store[id] \in Receipt
    BY StoreMember
  <1>2. SameReceipts(store, store) /\ SameReceipts(Live(store), store)
    BY DEF SameReceipts, Live
  <1>3. SameReceipts(ReceiptTick(store), store)
    BY <1>1 DEF SameReceipts, ReceiptTick, Receipt
  <1>4. ASSUME NEW id, NEW session, NEW replacement
        PROVE  SameReceipts(ReceiptRebound(store, id, session, replacement), store)
    <2>1. \A i \in DOMAIN Live(store) : Live(store)[i] = store[i] /\ store[i] \in Receipt
      BY <1>1 DEF Live
    <2>2. SameReceipts([Live(store) EXCEPT ![id].sessions = @ \cup {replacement}], store)
      BY <1>2, <2>1 DEF SameReceipts, Receipt
    <2> QED BY <1>2, <2>2 DEF ReceiptRebound
  <1> QED BY <1>2, <1>3, <1>4

LEMMA ReceiptStillHeld ==
    ASSUME NEW t \in Threads, RequestSafe(t), ReceiptHeld(t), NEW actor, actor # t,
           LockRespected(actor), ReceiptsRespected(actor),
           req'[t].pc = req[t].pc, req'[t].op = req[t].op, req'[t].new = req[t].new
    PROVE  ReceiptHeld(t)'
  <1>1. CASE req[t].pc \in {"task", "commit", "discardReceipt"}
    <2>1. UNCHANGED users /\ SameReceipts(receipts', receipts)
      BY <1>1, ModelAssumption DEF RequestSafe, Holding, LockRespected, ReceiptsRespected
    <2> QED BY <2>1 DEF ReceiptHeld, SameReceipts
  <1>2. CASE req[t].pc \notin {"task", "commit", "discardReceipt"}
    BY <1>2 DEF ReceiptHeld
  <1> QED BY <1>1, <1>2

LEMMA RequestKeepsReceipts ==
    ASSUME SafetyInv, ReceiptsHeld, NEW t \in Threads, LockRespected(t), ReceiptsRespected(t),
           \A other \in Threads \ {t} : req'[other] = req[other], ReceiptHeld(t)'
    PROVE  ReceiptsHeld'
  <1>1. ASSUME NEW other \in Threads \ {t} PROVE ReceiptHeld(other)'
    BY <1>1, ReceiptStillHeld DEF ReceiptsHeld, SafetyInv
  <1> QED BY <1>1 DEF ReceiptsHeld

LEMMA OthersKeepReceipts ==
    ASSUME SafetyInv, ReceiptsHeld, NEW actor, actor \notin Threads, LockRespected(actor),
           SameReceipts(receipts', receipts),
           \A t \in Threads : /\ req'[t].pc = req[t].pc /\ req'[t].op = req[t].op
                              /\ req'[t].new = req[t].new
    PROVE  ReceiptsHeld'
  <1>1. ASSUME NEW t \in Threads PROVE ReceiptHeld(t)'
    BY <1>1, ReceiptStillHeld DEF ReceiptsHeld, SafetyInv, ReceiptsRespected
  <1> QED BY <1>1 DEF ReceiptsHeld

-----------------------------------------------------------------------------
LEMMA BeginReceipts ==
    ASSUME Types, SafetyInv, ReceiptsHeld, NEW t \in Threads, Begin(t)
    PROVE  ReceiptsHeld'
  <1>1. SameReceipts(receipts, receipts) /\ SameReceipts(Live(receipts), receipts)
    BY ReceiptsStayTheSame DEF Types, FilesType
  <1>2. UNCHANGED <<users, disk, lock>> /\ receipts' \in {receipts, Live(receipts)}
        /\ \A other \in Threads \ {t} : req'[other] = req[other]
    BY DEF Begin, SelfBegin, AdminBegin, Types, ActorsType
  <1>3. req'[t].pc = "lock"
    <2>1. ASSUME NEW op \in SelfOps, NEW session \in Sessions, SelfBegin(t, op, session)
          PROVE  req'[t].pc = "lock"
      BY <2>1 DEF SelfBegin, Types, ActorsType, IdleRequest
    <2>2. ASSUME NEW op \in AdminOps \cup DeleteOps, AdminBegin(t, op)
          PROVE  req'[t].pc = "lock"
      BY <2>2 DEF AdminBegin, Types, ActorsType, IdleRequest
    <2> QED BY <2>1, <2>2 DEF Begin
  <1>4. ReceiptHeld(t)'
    BY <1>3 DEF ReceiptHeld
  <1> QED BY <1>1, <1>2, <1>4, RequestKeepsReceipts DEF LockRespected, ReceiptsRespected

\* A new receipt has the new token.
LEMMA PrepareFreshReceiptHeld ==
    ASSUME Types, SafetyInv, ReceiptsHeld, NEW t \in Threads, PrepareFreshReceipt(t)
    PROVE  ReceiptsHeld'
  <1> DEFINE op == req[t].op
             current == users[UserOf[op]].gen
             next == fresh + 1
             store == ReceiptPrepared(receipts, op, req[t].session, current, next)
  <1>1. lock = t /\ UNCHANGED <<users, disk>>
    BY DEF PrepareFreshReceipt, SafetyInv, RequestSafe, Holding
  <1>2. \A other \in Threads \ {t} : req'[other] = req[other]
    BY DEF PrepareFreshReceipt, Abort, Finish, Types, ActorsType
  <1>3. ReceiptHeld(t)'
    <2>1. CASE Abort(t)
      BY <2>1 DEF Abort, Finish, IdleRequest, ReceiptHeld, Types, ActorsType
    <2>2. CASE ~Abort(t)
      <3>1. /\ req' = [req EXCEPT ![t].pc = "task", ![t].old = current, ![t].new = next]
            /\ receipts' = store /\ op \notin DOMAIN Live(receipts)
        BY <2>2 DEF PrepareFreshReceipt, SaveReceipts, Visible, Bound, ReceiptMismatch
      <3>2. req'[t].pc = "task" /\ req'[t].op = op /\ req'[t].new = next
        BY <3>1 DEF Types, ActorsType, Request
      <3>3. store[op].new = next
        BY <3>1 DEF ReceiptPrepared, Put
      <3> HIDE DEF store
      <3> QED BY <3>1, <3>2, <3>3 DEF ReceiptHeld
    <2> QED BY <2>1, <2>2
  <1> QED BY <1>1, <1>2, <1>3, RequestKeepsReceipts DEF LockRespected, ReceiptsRespected

\* The request takes over the token of the receipt that is stored again.
LEMMA RefreshReceiptHeld ==
    ASSUME Types, SafetyInv, ReceiptsHeld, NEW t \in Threads, RefreshReceipt(t)
    PROVE  ReceiptsHeld'
  <1>1. lock = t /\ UNCHANGED <<users, disk>>
    BY DEF RefreshReceipt, SafetyInv, RequestSafe, Holding
  <1>2. \A other \in Threads \ {t} : req'[other] = req[other]
    BY DEF RefreshReceipt, Abort, Finish, Types, ActorsType
  <1>3. ReceiptHeld(t)'
    <2>1. CASE Abort(t)
      BY <2>1 DEF Abort, Finish, IdleRequest, ReceiptHeld, Types, ActorsType
    <2>2. CASE ~Abort(t)
      <3>1. \E old : req' = [req EXCEPT ![t].pc = "task", ![t].old = old,
                                        ![t].new = receipts'[req[t].op].new]
        BY <2>2 DEF RefreshReceipt, SaveReceipts, Visible
      <3>2. /\ req'[t].pc = "task" /\ req'[t].op = req[t].op
            /\ req'[t].new = receipts'[req[t].op].new
        BY <3>1 DEF Types, ActorsType, Request
      <3> QED BY <3>2 DEF ReceiptHeld
    <2> QED BY <2>1, <2>2
  <1> QED BY <1>1, <1>2, <1>3, RequestKeepsReceipts DEF LockRespected, ReceiptsRespected

LEMMA PrepareTaskHeld ==
    ASSUME Types, SafetyInv, ReceiptsHeld, NEW t \in Threads, PrepareTask(t)
    PROVE  ReceiptsHeld'
  <1>1. lock = t /\ UNCHANGED <<users, disk, receipts>> /\ req[t].pc = "task"
    BY DEF PrepareTask, SafetyInv, RequestSafe, Holding
  <1>2. \A other \in Threads \ {t} : req'[other] = req[other]
    BY DEF PrepareTask, Abort, Finish, Types, ActorsType
  <1>3. ReceiptHeld(t)'
    <2>1. CASE Abort(t)
      BY <2>1 DEF Abort, Finish, IdleRequest, ReceiptHeld, Types, ActorsType
    <2>2. CASE ~Abort(t)
      <3>1. \E new : /\ req' = [req EXCEPT ![t].pc = "commit", ![t].new = new]
                     /\ req[t].op \in SelfOps => new = req[t].new
        BY <2>2, ModelAssumption DEF PrepareTask
      <3>2. /\ req'[t].pc = "commit" /\ req'[t].op = req[t].op
            /\ req[t].op \in SelfOps => req'[t].new = req[t].new
        BY <3>1 DEF Types, ActorsType, Request
      <3> QED BY <1>1, <3>2 DEF ReceiptHeld, ReceiptsHeld
    <2> QED BY <2>1, <2>2
  <1> QED BY <1>1, <1>2, <1>3, RequestKeepsReceipts DEF LockRespected, ReceiptsRespected

LEMMA ConflictHeld ==
    ASSUME Types, SafetyInv, ReceiptsHeld, NEW t \in Threads, Conflict(t)
    PROVE  ReceiptsHeld'
  <1>1. lock = t /\ UNCHANGED <<users, disk, receipts>> /\ req[t].pc = "commit" /\ Superseded(t)
    BY DEF Conflict, SafetyInv, RequestSafe, Holding
  <1>2. \A other \in Threads \ {t} : req'[other] = req[other]
    BY DEF Conflict, Goto, Types, ActorsType
  <1>3. /\ req'[t].pc = "discardReceipt" /\ req'[t].op = req[t].op /\ req'[t].new = req[t].new
    BY DEF Conflict, Goto, Types, ActorsType, Request
  <1>4. ReceiptHeld(t)'
    BY <1>1, <1>3 DEF ReceiptHeld, ReceiptsHeld, Superseded
  <1> QED BY <1>1, <1>2, <1>4, RequestKeepsReceipts DEF LockRespected, ReceiptsRespected

\* The other steps of a request add no receipt, and have none in hand after them.
OtherRequestStep(t) ==
    \/ LockTimedOut(t) \/ Lock(t) \/ CommitUsers(t)
    \/ DiscardReceipt(t) \/ DiscardTask(t) \/ SyncStatic(t) \/ Purge(t)
    \/ StaticEffects(t) \/ RecordStaticRetry(t) \/ KickUser(t) \/ RecordKickAttempt(t)
    \/ MintSession(t) \/ BindReplacement(t)

LEMMA OtherRequestGoes ==
    ASSUME Types, SafetyInv, NEW t \in Threads, OtherRequestStep(t)
    PROVE  /\ LockRespected(t)
           /\ \A other \in Threads \ {t} : req'[other] = req[other]
           /\ req'[t].pc = "task" => req'[t].op \notin SelfOps
           /\ req'[t].pc \notin {"commit", "discardReceipt"}
  <1>1. req \in [Threads -> Request]
    BY DEF Types, ActorsType
  <1>2. LockRespected(t)
    BY DEF OtherRequestStep, LockTimedOut, Lock, CommitUsers, DiscardReceipt, DiscardTask, SyncStatic,
       Purge, StaticEffects, RecordStaticRetry, KickUser, RecordKickAttempt, MintSession,
       BindReplacement, SafetyInv, RequestSafe, Holding, LockRespected
  <1>3. \A other \in Threads \ {t} : req'[other] = req[other]
    BY <1>1 DEF OtherRequestStep, LockTimedOut, Lock, CommitUsers, DiscardReceipt, DiscardTask,
       SyncStatic, Purge, StaticEffects, RecordStaticRetry, KickUser, RecordKickAttempt,
       MintSession, BindReplacement, Abort, Finish, Goto
  <1>4. /\ req'[t].pc = "task" => req'[t].op \notin SelfOps
        /\ req'[t].pc \notin {"commit", "discardReceipt"}
    <2>1. CASE Lock(t)
      BY <1>1, <2>1 DEF Lock, Finish, IdleRequest, Request
    <2>2. CASE CommitUsers(t)
      BY <1>1, <2>2 DEF CommitUsers, Abort, Finish, IdleRequest, Request
    <2>3. CASE LockTimedOut(t) \/ DiscardReceipt(t) \/ DiscardTask(t)
                 \/ Purge(t) \/ MintSession(t) \/ BindReplacement(t)
      BY <1>1, <2>3 DEF LockTimedOut, DiscardReceipt, DiscardTask, Purge, MintSession,
         BindReplacement, Abort, Finish, Goto, IdleRequest, Request
    <2>4. CASE SyncStatic(t)
      BY <1>1, <2>4 DEF SyncStatic, Request
    <2>5. CASE StaticEffects(t)
      BY <1>1, <2>5 DEF StaticEffects, Request
    <2>6. CASE RecordStaticRetry(t) \/ KickUser(t)
      BY <1>1, <2>6 DEF RecordStaticRetry, KickUser, Request
    <2>7. CASE RecordKickAttempt(t)
      BY <1>1, <2>7 DEF RecordKickAttempt, Finish, IdleRequest, Request
    <2> QED BY <2>1, <2>2, <2>3, <2>4, <2>5, <2>6, <2>7 DEF OtherRequestStep
  <1> QED BY <1>2, <1>3, <1>4

LEMMA OtherRequestHeld ==
    ASSUME Types, SafetyInv, ReceiptsHeld, NEW t \in Threads, OtherRequestStep(t)
    PROVE  ReceiptsHeld'
  <1>1. SameReceipts(receipts, receipts)
        /\ \A id, session, replacement :
             SameReceipts(ReceiptRebound(receipts, id, session, replacement), receipts)
    BY ReceiptsStayTheSame DEF Types, FilesType
  <1>2. ReceiptsRespected(t)
    <2>1. CASE DiscardReceipt(t)
      BY <2>1 DEF DiscardReceipt, SafetyInv, RequestSafe, Holding, ReceiptsRespected
    <2>2. CASE BindReplacement(t)
      BY <1>1, <2>2 DEF BindReplacement, SaveReceipts, Visible, ReceiptsRespected
    <2>3. CASE UNCHANGED receipts
      BY <1>1, <2>3 DEF ReceiptsRespected
    <2> QED BY <2>1, <2>2, <2>3 DEF OtherRequestStep, LockTimedOut, Lock, CommitUsers, DiscardTask,
            SyncStatic, Purge, StaticEffects, RecordStaticRetry, KickUser, RecordKickAttempt,
            MintSession
  <1> QED BY <1>2, OtherRequestGoes, RequestKeepsReceipts DEF ReceiptHeld

LEMMA OthersHeld ==
    ASSUME Types, SafetyInv, ReceiptsHeld,
           (\E w \in Workers : WorkerStep(w)) \/ Environment \/ Tick \/ PruneReceipts
    PROVE  ReceiptsHeld'
  <1>1. /\ SameReceipts(receipts, receipts)
        /\ SameReceipts(Live(receipts), receipts)
        /\ SameReceipts(ReceiptTick(receipts), receipts)
    BY ReceiptsStayTheSame DEF Types, FilesType
  <1>2. ASSUME NEW w \in Workers, WorkerStep(w)
        PROVE  ReceiptsHeld'
    <2>1. UNCHANGED <<req, receipts>> /\ LockRespected(w)
      BY <1>2 DEF WorkerStep, Claim, WorkerLock, WorkerLockTimedOut, WorkerPurge, WorkerGiveUp,
         WorkerStatic, WorkerSync, WorkerKick, WorkerSave, WorkerPrevious, WorkerSuperseded,
         WorkerComplete, SafetyInv, WorkerSafe, LockRespected
    <2> QED BY <1>1, <2>1, OthersKeepReceipts, ModelAssumption
  <1>3. CASE Tick
    <2>1. \A t \in Threads : /\ req'[t].pc = req[t].pc /\ req'[t].op = req[t].op
                             /\ req'[t].new = req[t].new
      BY <1>3 DEF Tick, Types, ActorsType, Request
    <2> QED BY <1>1, <1>3, <2>1, OthersKeepReceipts, ModelAssumption DEF Tick, LockRespected
  <1>4. CASE PruneReceipts
    BY <1>1, <1>4, OthersKeepReceipts, ModelAssumption DEF PruneReceipts, LockRespected
  <1>5. CASE Crash \/ PowerLoss
    BY <1>5 DEF Crash, PowerLoss, ProcessDies, IdleRequest, ReceiptsHeld, ReceiptHeld
  <1>6. CASE UNCHANGED <<req, receipts>> /\ LockRespected(Nobody)
    BY <1>1, <1>6, OthersKeepReceipts, ModelAssumption
  <1>7. Environment => Crash \/ PowerLoss \/ (UNCHANGED <<req, receipts>> /\ LockRespected(Nobody))
    BY DEF Environment, RenderPanel, CreateUser, UpdateUser, Authenticate, Establish, Reconcile,
       LockRespected
  <1> QED BY <1>2, <1>3, <1>4, <1>5, <1>6, <1>7

LEMMA StepHeld ==
    ASSUME Types, SafetyInv, ReceiptsHeld, [Next]_vars
    PROVE  ReceiptsHeld'
  <1>1. ASSUME NEW t \in Threads, RequestStep(t)
        PROVE  ReceiptsHeld'
    BY <1>1, PrepareFreshReceiptHeld, RefreshReceiptHeld, PrepareTaskHeld, ConflictHeld,
       OtherRequestHeld DEF RequestStep, OtherRequestStep
  <1>2. CASE UNCHANGED vars
    BY <1>2 DEF vars, ReceiptsHeld, ReceiptHeld
  <1> QED BY <1>1, <1>2, BeginReceipts, OthersHeld DEF Next

LEMMA HeldAlways == Spec => [](Types /\ SafetyInv /\ ReceiptsHeld)
  <1>1. Init => ReceiptsHeld
    BY DEF Init, ReceiptsHeld, ReceiptHeld, IdleRequest
  <1>2. Types /\ SafetyInv /\ ReceiptsHeld /\ [Next]_vars => ReceiptsHeld'
    BY StepHeld
  <1> QED BY <1>1, <1>2, SafetyAlways, PTL DEF Spec

\* Only a request that withdraws its own receipt removes a live one.
LEMMA ReceiptStep ==
    ASSUME Types, SafetyInv, ReceiptsHeld, [Next]_vars, NEW id \in DOMAIN Live(receipts),
           users[UserOf[id]].gen = receipts[id].new
    PROVE  id \in DOMAIN receipts'
  <1> DEFINE Kept == DOMAIN Live(receipts) \subseteq DOMAIN receipts'
  <1>1. DOMAIN Live(receipts) \subseteq DOMAIN receipts
        /\ DOMAIN ReceiptTick(receipts) = DOMAIN receipts
    BY DEF Live, ReceiptTick
  <1>2. ASSUME NEW i, NEW session, NEW replacement
        PROVE  DOMAIN Live(receipts) \subseteq DOMAIN ReceiptRebound(receipts, i, session, replacement)
    BY <1>1 DEF ReceiptRebound
  <1>3. ASSUME NEW i, NEW session, NEW old, NEW new
        PROVE  DOMAIN Live(receipts) \subseteq DOMAIN ReceiptPrepared(receipts, i, session, old, new)
    BY DEF ReceiptPrepared, Put
  <1>4. ASSUME NEW t \in Threads, DiscardReceipt(t)
        PROVE  id \in DOMAIN receipts'
    <2>1. id \in DOMAIN receipts /\ receipts' \in {receipts, Drop(receipts, req[t].op)}
      BY <1>1, <1>4 DEF DiscardReceipt, SaveReceipts, Visible
    <2>2. id # req[t].op
      BY <1>4, <2>1 DEF DiscardReceipt, ReceiptsHeld, ReceiptHeld
    <2> QED BY <2>1, <2>2 DEF Drop
  <1>5. ASSUME NEW t \in Threads, Begin(t) \/ PrepareFreshReceipt(t) \/ RefreshReceipt(t)
                                  \/ BindReplacement(t)
        PROVE  Kept
    <2>1. CASE Begin(t)
      BY <1>1, <2>1 DEF Begin, SelfBegin, AdminBegin
    <2>2. CASE PrepareFreshReceipt(t)
      BY <1>1, <1>3, <2>2 DEF PrepareFreshReceipt, SaveReceipts, Visible
    <2>3. CASE RefreshReceipt(t)
      BY <1>1, <1>3, <2>3 DEF RefreshReceipt, SaveReceipts, Visible
    <2>4. CASE BindReplacement(t)
      BY <1>1, <1>2, <2>4 DEF BindReplacement, SaveReceipts, Visible
    <2> QED BY <1>5, <2>1, <2>2, <2>3, <2>4
  <1>6. ASSUME NEW t \in Threads, RequestStep(t)
        PROVE  id \in DOMAIN receipts'
    BY <1>1, <1>4, <1>5, <1>6 DEF RequestStep, LockTimedOut, Lock, PrepareTask, CommitUsers, Conflict,
       DiscardTask, SyncStatic, Purge, StaticEffects, RecordStaticRetry, KickUser,
       RecordKickAttempt, MintSession
  <1>7. ASSUME NEW w \in Workers, WorkerStep(w)
        PROVE  UNCHANGED receipts
    BY <1>7 DEF WorkerStep, Claim, WorkerLock, WorkerLockTimedOut, WorkerPurge, WorkerGiveUp,
       WorkerStatic, WorkerSync, WorkerKick, WorkerSave, WorkerPrevious, WorkerSuperseded,
       WorkerComplete
  <1>8. Environment => UNCHANGED receipts
    BY DEF Environment, RenderPanel, CreateUser, UpdateUser, Authenticate, Establish, Reconcile,
       Crash, PowerLoss
  <1>9. PruneReceipts \/ Tick \/ UNCHANGED vars => Kept
    BY <1>1 DEF PruneReceipts, Tick, vars
  <1> QED BY <1>1, <1>5, <1>6, <1>7, <1>8, <1>9 DEF Next

\* As long as the account has the token of a receipt, nothing but its time removes the
\* receipt, so that the browser whose answer was lost is answered with the same token: not
\* another rotation that conflicts, not the worker, not a save of another receipt.
THEOREM ReceiptsAreKept == Spec => CommittedReceiptIsKept
  <1>1. Types /\ SafetyInv /\ ReceiptsHeld /\ [Next]_vars =>
          [\A id \in DOMAIN Live(receipts) :
             users[UserOf[id]].gen = receipts[id].new => id \in DOMAIN receipts']_receipts
    BY ReceiptStep
  <1> QED BY <1>1, HeldAlways, PTL DEF Spec, CommittedReceiptIsKept

-----------------------------------------------------------------------------
(* Kicks.  With administrators' operations, and clients that join when they  *)
(* are answered, a connection whose credential is revoked has a task that    *)
(* cannot end before another kick: Pending.  A deletion may still be ahead   *)
(* when its request has already kicked, so EarlyKicks says whose the kicks   *)
(* are until then; and what requests and workers have read of their task     *)
(* must still be so when they use it: RequestKnown, WorkerKnown.             *)

AdministratorsOnly == SelfOps = {}
AnsweredAtOnce == AuthWindow = 0

\* The pcs of a worker that has found the change of its task carried out.
Acting == {"purge", "sync", "static", "kick", "complete"}

\* An account that is now "account" will not be what "content" says after it was not.
Passed(content, account, limit) ==
    /\ content.gen \in 1 .. limit
    /\ account.gen # 0 => \/ content.gen < account.gen
                          \/ content.gen = account.gen /\ content.rev <= account.rev

TaskKnown(id) ==
    /\ id \in spent
    /\ id \in DeleteOps => /\ queue[id].target = DeleteTarget
                           /\ Passed(queue[id].previous, users[UserOf[id]], fresh)
    /\ id \in AdminOps => queue[id].target.rev = 0 /\ queue[id].target.gen \in 1 .. fresh

\* A request is the only one of its operation; nobody acts on the task before it does.
RequestKnown(t) ==
    LET op == req[t].op
        pc == req[t].pc
    IN pc # "idle" =>
         /\ op \in spent
         /\ pc \notin {"receipt", "discardReceipt", "discardTask", "mint", "bind"}
         /\ \A other \in Threads \ {t} : req[other].pc = "idle" \/ req[other].op # op
         /\ pc \in {"lock", "task"} =>
              op \notin DOMAIN queue /\ \A w \in Workers : wrk[w].pc = "idle" \/ wrk[w].op # op
         /\ pc = "commit" =>
              /\ op \in DOMAIN queue /\ queue[op].kicks = 0
              /\ \A w \in Workers : wrk[w].op = op => wrk[w].pc \in {"idle", "lock", "giveup"}
              /\ op \in AdminOps => queue[op].target = TokenGeneration(req[t].new)
              /\ \A id \in DOMAIN queue \ {op} :
                   id \in DeleteOps \/ queue[id].target.gen # req[t].new

\* What a worker has read of its task is what the task says, and a deletion ahead is
\* still to be done; the token of a task to be withdrawn is not the account's.
WorkerKnown(w) ==
    LET op == wrk[w].op
        pc == wrk[w].pc
    IN /\ pc # "idle" => op \in spent
       /\ pc \in {"save", "purge"} => op \in DeleteOps
       /\ pc = "lock" /\ op \in AdminOps =>
            /\ wrk[w].target # DeleteTarget
            /\ op \in DOMAIN queue => wrk[w].target = queue[op].target
       /\ pc = "lock" /\ op \in DeleteOps =>
            /\ wrk[w].target = DeleteTarget
            /\ Passed(wrk[w].previous, users[JobUser(w)], fresh)
            /\ op \in DOMAIN queue => wrk[w].previous = queue[op].previous
            /\ users[JobUser(w)] = wrk[w].previous => op \in DOMAIN queue
       /\ pc = "save" /\ Exists(JobUser(w)) =>
            op \in DOMAIN queue /\ queue[op].previous = users[JobUser(w)]
       /\ pc \in {"previous", "superseded"} =>
            /\ op \in AdminOps
            /\ op \in DOMAIN queue => queue[op].target.gen # users[JobUser(w)].gen

\* A task whose account is still to be deleted has been kicked for by its request only.
EarlyKick(id) ==
    id \in DeleteOps /\ users[UserOf[id]] = queue[id].previous =>
        /\ \A w \in Workers : wrk[w].op = id => wrk[w].pc \notin Acting
        /\ queue[id].kicks <= 1
        /\ queue[id].kicks = 1 => \A t \in Threads : req[t].op = id => req[t].pc = "idle"

TasksKnown == \A id \in DOMAIN queue : TaskKnown(id) /\ EarlyKick(id)
ActorsKnown == (\A t \in Threads : RequestKnown(t)) /\ (\A w \in Workers : WorkerKnown(w))
Known == TasksKnown /\ ActorsKnown

-----------------------------------------------------------------------------
(* What a step does to accounts and tasks.                                   *)

\* An account goes, gets a new token, or gets a later revision.
Advances(account, later, limit) ==
    \/ later = account \/ later.gen = 0 \/ later.gen > limit
    \/ /\ account.gen # 0
       /\ account.gen < later.gen \/ (account.gen = later.gen /\ account.rev <= later.rev)

UsersAdvance == \A u \in Users : Advances(users[u], users'[u], fresh)

\* The task of p and q is the same as far as bindings and kicks go.
SameTask(p, q, id) ==
    /\ id \in DOMAIN p <=> id \in DOMAIN q
    /\ id \in DOMAIN q => /\ p[id].previous = q[id].previous /\ p[id].target = q[id].target
                          /\ p[id].kicks = q[id].kicks

LEMMA PassedForGood ==
    ASSUME NEW content \in Digest, NEW account \in Account, NEW later \in Account,
           NEW limit \in Nat, NEW more \in Nat, limit <= more,
           Passed(content, account, limit), Advances(account, later, limit)
    PROVE  /\ Passed(content, later, more)
           /\ later = content => account = content
  <1>1. content.gen \in Nat /\ content.rev \in Nat /\ account.gen \in Nat /\ account.rev \in Nat
        /\ later.gen \in Nat /\ later.rev \in Nat
    BY DEF Digest, Account
  <1>2. Passed(content, later, more)
    BY <1>1 DEF Passed, Advances
  <1>3. ASSUME later = content PROVE account = content
    <2>1. later = account \/ (account.gen = content.gen /\ account.rev = content.rev)
      BY <1>1, <1>3 DEF Passed, Advances
    <2> QED BY <1>3, <2>1 DEF Digest, Account
  <1> QED BY <1>2, <1>3

LEMMA QueueSameTask ==
    ASSUME NEW q \in Queues, NEW id
    PROVE  /\ \A i : SameTask(q, q, i)
           /\ \A i : i # id => SameTask(Drop(q, id), q, i)
           /\ \A i : SameTask(Released(q, id), q, i)
           /\ \A i : SameTask(QueueTick(q), q, i)
           /\ id \in DOMAIN q => \A i : SameTask(Claimed(q, id), q, i)
           /\ \A services \in SUBSET Services : \A i : SameTask(WithStaticServices(q, id, services), q, i)
           /\ \A previous, target : \A i : i # id => SameTask(Prepared(q, id, previous, target), q, i)
  <1>1. \A i \in DOMAIN q : q[i] \in Task
    BY QueueMember
  <1>2. (\A i : SameTask(q, q, i)) /\ (\A i : i # id => SameTask(Drop(q, id), q, i))
    BY DEF SameTask, Drop
  <1>3. \A i : SameTask(Released(q, id), q, i)
    BY <1>1 DEF SameTask, Released, Task
  <1>4. \A i : SameTask(QueueTick(q), q, i)
    BY <1>1 DEF SameTask, QueueTick, Task
  <1>5. id \in DOMAIN q => \A i : SameTask(Claimed(q, id), q, i)
    BY <1>1 DEF SameTask, Claimed, Task
  <1>6. ASSUME NEW services \in SUBSET Services
        PROVE  \A i : SameTask(WithStaticServices(q, id, services), q, i)
    BY <1>1 DEF SameTask, WithStaticServices, Task
  <1>7. \A previous, target : \A i : i # id => SameTask(Prepared(q, id, previous, target), q, i)
    BY DEF SameTask, Prepared, Put
  <1> QED BY <1>2, <1>3, <1>4, <1>5, <1>6, <1>7

LEMMA AttemptCounts ==
    ASSUME NEW q \in Queues, NEW id, NEW kickOk \in BOOLEAN, NEW stopped \in SUBSET Services
    PROVE  LET p == AttemptRecorded(q, id, kickOk, stopped) IN
           /\ \A i : i # id => SameTask(p, q, i)
           /\ id \in DOMAIN p => id \in DOMAIN q /\ p[id].kicks = KickCount(q[id], kickOk)
           /\ id \in DOMAIN q /\ id \notin DOMAIN p => kickOk /\ q[id].kicks # 0
  <1>1. \A i \in DOMAIN q : q[i] \in Task
    BY QueueMember
  <1>2. CASE id \notin DOMAIN q
    BY <1>2, QueueSameTask DEF AttemptRecorded
  <1>3. CASE id \in DOMAIN q /\ Finished(q[id], kickOk, stopped)
    BY <1>3, QueueSameTask DEF AttemptRecorded, Finished, KickCount, Drop
  <1>4. CASE id \in DOMAIN q /\ ~Finished(q[id], kickOk, stopped)
    BY <1>1, <1>4 DEF AttemptRecorded, SameTask, Task
  <1> QED BY <1>2, <1>3, <1>4

-----------------------------------------------------------------------------
(* Who takes no step still knows.                                            *)

\* A step that binds no task, seen from the tasks.
LEMMA TaskStaysKnown ==
    ASSUME Types, Types', NEW id \in DOMAIN queue', id \in DOMAIN queue, TaskKnown(id), UsersAdvance,
           queue'[id].previous = queue[id].previous, queue'[id].target = queue[id].target,
           spent \subseteq spent', fresh <= fresh'
    PROVE  /\ TaskKnown(id)'
           /\ id \in DeleteOps /\ users'[UserOf[id]] = queue[id].previous =>
                users[UserOf[id]] = queue[id].previous
  <1>1. /\ id \in Op /\ UserOf[id] \in Users /\ queue[id] \in Task
        /\ queue[id].previous \in Digest /\ queue[id].target \in Digest
        /\ fresh \in Nat /\ fresh' \in Nat
        /\ users[UserOf[id]] \in Account /\ users'[UserOf[id]] \in Account
    BY ModelAssumption, QueueMember DEF Types, FilesType, OthersType, Task
  <1>2. id \in AdminOps => queue'[id].target.rev = 0 /\ queue'[id].target.gen \in 1 .. fresh'
    BY <1>1 DEF TaskKnown
  <1>3. CASE id \in DeleteOps
    <2>1. Passed(queue[id].previous, users[UserOf[id]], fresh)
          /\ Advances(users[UserOf[id]], users'[UserOf[id]], fresh)
      BY <1>1, <1>3 DEF TaskKnown, UsersAdvance
    <2>2. /\ Passed(queue[id].previous, users'[UserOf[id]], fresh')
          /\ users'[UserOf[id]] = queue[id].previous => users[UserOf[id]] = queue[id].previous
      BY <1>1, <2>1, PassedForGood
    <2> QED BY <1>2, <1>3, <2>2 DEF TaskKnown
  <1>4. CASE id \notin DeleteOps
    BY <1>2, <1>4 DEF TaskKnown
  <1> QED BY <1>3, <1>4

LEMMA RequestStaysKnown ==
    ASSUME NEW t \in Threads, RequestKnown(t), spent \subseteq spent',
           req'[t].pc = req[t].pc, req'[t].op = req[t].op, req'[t].new = req[t].new,
           \A other \in Threads \ {t} :
             req'[other].pc = "idle" \/ req'[other].op # req[t].op
               \/ (req[other].pc # "idle" /\ req[other].op = req[t].op),
           req[t].pc \in {"lock", "task", "commit"} =>
             /\ SameTask(queue', queue, req[t].op)
             /\ \A w \in Workers :
                  \/ wrk'[w].pc = "idle" \/ wrk'[w].op # req[t].op
                  \/ wrk[w].pc # "idle" /\ wrk[w].op = req[t].op /\ wrk'[w].pc \in {"giveup", wrk[w].pc}
                  \/ req[t].op \in DOMAIN queue /\ wrk'[w].pc = "lock",
           req[t].pc = "commit" =>
             \A id \in DOMAIN queue' \ {req[t].op} :
               id \in DOMAIN queue /\ queue'[id].target = queue[id].target
    PROVE  RequestKnown(t)'
  <1>1. CASE req[t].pc = "idle"
    BY <1>1 DEF RequestKnown
  <1>2. CASE req[t].pc \in {"lock", "task"}
    BY <1>2 DEF RequestKnown, SameTask
  <1>3. CASE req[t].pc = "commit"
    BY <1>3 DEF RequestKnown, SameTask
  <1>4. CASE req[t].pc \notin {"idle", "lock", "task", "commit"}
    BY <1>4 DEF RequestKnown
  <1> QED BY <1>1, <1>2, <1>3, <1>4

LEMMA WorkerStaysKnown ==
    ASSUME Types, Types', NEW w \in Workers, WorkerKnown(w), UsersAdvance,
           spent \subseteq spent', fresh <= fresh',
           wrk'[w].pc = wrk[w].pc, wrk'[w].op = wrk[w].op,
           wrk'[w].previous = wrk[w].previous, wrk'[w].target = wrk[w].target,
           wrk[w].pc # "idle" /\ wrk[w].op \in DOMAIN queue' =>
             /\ wrk[w].op \in DOMAIN queue
             /\ queue'[wrk[w].op].previous = queue[wrk[w].op].previous
             /\ queue'[wrk[w].op].target = queue[wrk[w].op].target,
           wrk[w].op \in DeleteOps \cap DOMAIN queue
             /\ users[JobUser(w)] = queue[wrk[w].op].previous => wrk[w].op \in DOMAIN queue',
           wrk[w].pc = "save" => UNCHANGED users,
           wrk[w].pc \in {"previous", "superseded"} /\ wrk[w].op \in DOMAIN queue =>
             queue[wrk[w].op].target.gen # users'[JobUser(w)].gen
    PROVE  WorkerKnown(w)'
  <1> DEFINE op == wrk[w].op
  <1>1. /\ op \in Op /\ JobUser(w) \in Users /\ wrk[w].previous \in Digest
        /\ fresh \in Nat /\ fresh' \in Nat /\ JobUser(w)' = JobUser(w)
        /\ users[JobUser(w)] \in Account /\ users'[JobUser(w)] \in Account
    BY ModelAssumption DEF Types, FilesType, ActorsType, OthersType, Job, JobUser
  <1>2. Advances(users[JobUser(w)], users'[JobUser(w)], fresh)
    BY <1>1 DEF UsersAdvance
  <1>3. CASE wrk[w].pc = "lock" /\ op \in DeleteOps
    <2>1. Passed(wrk[w].previous, users[JobUser(w)], fresh)
      BY <1>3 DEF WorkerKnown
    <2>2. /\ Passed(wrk[w].previous, users'[JobUser(w)], fresh')
          /\ users'[JobUser(w)] = wrk[w].previous => users[JobUser(w)] = wrk[w].previous
      BY <1>1, <1>2, <2>1, PassedForGood
    <2> QED BY <1>1, <1>3, <2>2, ModelAssumption DEF WorkerKnown
  <1>4. CASE wrk[w].pc = "lock" /\ op \notin DeleteOps
    BY <1>1, <1>4 DEF WorkerKnown
  <1>5. CASE wrk[w].pc \in {"save", "previous", "superseded"}
    BY <1>1, <1>5 DEF WorkerKnown, Exists
  <1>6. CASE wrk[w].pc \notin {"lock", "save", "previous", "superseded"}
    BY <1>6 DEF WorkerKnown
  <1> QED BY <1>3, <1>4, <1>5, <1>6

LEMMA EarlyKickStays ==
    ASSUME NEW id, EarlyKick(id),
           queue'[id].previous = queue[id].previous,
           queue'[id].kicks \in {queue[id].kicks, 0},
           id \in DeleteOps /\ users'[UserOf[id]] = queue[id].previous =>
             users[UserOf[id]] = queue[id].previous,
           id \in DeleteOps /\ users'[UserOf[id]] = queue[id].previous =>
             \A w \in Workers : wrk'[w].op = id /\ wrk'[w].pc \in Acting =>
               wrk[w].op = id /\ wrk[w].pc \in Acting,
           \A t \in Threads : req'[t].op = id /\ req'[t].pc # "idle" =>
             req[t].op = id /\ req[t].pc # "idle"
    PROVE  EarlyKick(id)'
  BY DEF EarlyKick

\* The account of a task to be withdrawn does not get the token of that task.
TokensApart(w) ==
    wrk[w].pc \in {"previous", "superseded"} /\ wrk[w].op \in DOMAIN queue =>
      queue[wrk[w].op].target.gen # users'[JobUser(w)].gen

LEMMA ApartUnlessUsersChange ==
    ASSUME NEW w \in Workers, WorkerKnown(w), UNCHANGED users
    PROVE  TokensApart(w)
  BY DEF WorkerKnown, TokensApart

\* A step of a request that binds no task.
LEMMA RequestKeepsKnown ==
    ASSUME Types, Types', SafetyInv, Known, NEW t \in Threads, req[t].pc # "idle", NEW op, op = req[t].op,
           UNCHANGED <<wrk, spent>>, fresh' \in {fresh, fresh + 1},
           \A other \in Threads \ {t} : req'[other] = req[other],
           req'[t].pc = "idle" \/ req'[t].op = op, RequestKnown(t)',
           UsersAdvance, lock = t \/ UNCHANGED users, \A w \in Workers : TokensApart(w),
           SameTasks(queue', queue), \A id : id # op => SameTask(queue', queue, id),
           EarlyKick(op) /\ op \in DeleteOps \cap DOMAIN queue
             /\ users[UserOf[op]] = queue[op].previous => op \in DOMAIN queue',
           op \in DOMAIN queue' =>
             queue'[op].kicks \in {queue[op].kicks, 0} \/ EarlyKick(op)'
    PROVE  Known'
  <1>1. ASSUME NEW id \in DOMAIN queue'
        PROVE  TaskKnown(id)' /\ EarlyKick(id)'
    <2>1. /\ id \in DOMAIN queue /\ TaskKnown(id) /\ EarlyKick(id)
          /\ queue'[id].previous = queue[id].previous /\ queue'[id].target = queue[id].target
      BY <1>1 DEF SameTasks, Known, TasksKnown
    <2>2. fresh <= fresh' /\ spent \subseteq spent'
      BY DEF Types, OthersType
    <2>3. /\ TaskKnown(id)'
          /\ id \in DeleteOps /\ users'[UserOf[id]] = queue[id].previous =>
               users[UserOf[id]] = queue[id].previous
      BY <1>1, <2>1, <2>2, TaskStaysKnown
    <2>4. queue'[id].kicks \in {queue[id].kicks, 0} \/ EarlyKick(id)'
      BY <1>1, <2>1 DEF SameTask
    <2>5. \A r \in Threads : req'[r].op = id /\ req'[r].pc # "idle" =>
             req[r].op = id /\ req[r].pc # "idle"
      OBVIOUS
    <2>6. \A w \in Workers : wrk'[w].op = id /\ wrk'[w].pc \in Acting =>
             wrk[w].op = id /\ wrk[w].pc \in Acting
      OBVIOUS
    <2> QED BY <2>1, <2>3, <2>4, <2>5, <2>6, EarlyKickStays
  <1>2. ASSUME NEW other \in Threads \ {t}
        PROVE  RequestKnown(other)'
    <2>1. RequestKnown(other)
      BY DEF Known, ActorsKnown
    <2>2. CASE req[other].pc = "idle"
      BY <2>2 DEF RequestKnown
    <2>3. CASE req[other].pc # "idle"
      <3>1. req[other].op # op
        BY <2>1, <2>3 DEF RequestKnown
      <3>2. \A third \in Threads \ {other} :
              req'[third].pc = "idle" \/ req'[third].op # req[other].op
               \/ (req[third].pc # "idle" /\ req[third].op = req[other].op)
        BY <3>1
      <3>3. SameTask(queue', queue, req[other].op)
        BY <3>1
      <3>4. \A id \in DOMAIN queue' \ {req[other].op} :
               id \in DOMAIN queue /\ queue'[id].target = queue[id].target
        BY DEF SameTasks
      <3> QED BY <2>1, <3>2, <3>3, <3>4, RequestStaysKnown
    <2> QED BY <2>2, <2>3
  <1>3. ASSUME NEW w \in Workers
        PROVE  WorkerKnown(w)'
    <2>1. WorkerKnown(w) /\ TokensApart(w)
      BY DEF Known, ActorsKnown
    <2>2. wrk[w].pc = "save" => UNCHANGED users
      BY ModelAssumption DEF SafetyInv, WorkerSafe
    <2>3. wrk[w].op \in DeleteOps \cap DOMAIN queue
             /\ users[JobUser(w)] = queue[wrk[w].op].previous => wrk[w].op \in DOMAIN queue'
      BY DEF SameTask, JobUser, Known, TasksKnown
    <2>4. fresh <= fresh' /\ spent \subseteq spent'
      BY DEF Types, OthersType
    <2> QED BY <2>1, <2>2, <2>3, <2>4, WorkerStaysKnown DEF SameTasks, TokensApart
  <1>4. ActorsKnown'
    BY <1>2, <1>3 DEF ActorsKnown
  <1> QED BY <1>1, <1>4 DEF Known, TasksKnown

\* A step of a worker.  While its request has yet to act on a task, the worker does
\* no more than claim or give up; while a deletion is ahead, it counts no kick.
LEMMA WorkerKeepsKnown ==
    ASSUME Types, Types', SafetyInv, Known, NEW w \in Workers, NEW op,
           UNCHANGED <<req, spent, fresh>>,
           \A other \in Workers \ {w} : wrk'[other] = wrk[other],
           wrk'[w].pc = "idle" \/ wrk'[w].op = op, WorkerKnown(w)',
           UsersAdvance, lock = w \/ UNCHANGED users,
           \A other \in Workers \ {w} : TokensApart(other),
           SameTasks(queue', queue), \A id : id # op => SameTask(queue', queue, id),
           (\E t \in Threads : req[t].pc \in {"lock", "task", "commit"} /\ req[t].op = op) =>
             /\ SameTask(queue', queue, op)
             /\ \/ wrk'[w].pc = "idle"
                \/ wrk[w].pc # "idle" /\ wrk[w].op = op /\ wrk'[w].pc \in {"giveup", wrk[w].pc}
                \/ op \in DOMAIN queue /\ wrk'[w].pc = "lock",
           op \in DeleteOps \cap DOMAIN queue /\ users[UserOf[op]] = queue[op].previous =>
             /\ op \in DOMAIN queue' /\ queue'[op].kicks = queue[op].kicks
             /\ wrk'[w].pc \in Acting => users'[UserOf[op]] # queue[op].previous
    PROVE  Known'
  <1>0. fresh <= fresh' /\ spent \subseteq spent'
    BY DEF Types, OthersType
  <1>1. ASSUME NEW id \in DOMAIN queue'
        PROVE  TaskKnown(id)' /\ EarlyKick(id)'
    <2>1. /\ id \in DOMAIN queue /\ TaskKnown(id) /\ EarlyKick(id)
          /\ queue'[id].previous = queue[id].previous /\ queue'[id].target = queue[id].target
      BY <1>1 DEF SameTasks, Known, TasksKnown
    <2>2. /\ TaskKnown(id)'
          /\ id \in DeleteOps /\ users'[UserOf[id]] = queue[id].previous =>
               users[UserOf[id]] = queue[id].previous
      BY <1>0, <1>1, <2>1, TaskStaysKnown
    <2>3. CASE id \in DeleteOps /\ users'[UserOf[id]] = queue[id].previous
      <3>1. users[UserOf[id]] = queue[id].previous
        BY <2>2, <2>3
      <3>2. queue'[id].kicks = queue[id].kicks
        BY <2>1, <2>3, <3>1 DEF SameTask
      <3>3. \A v \in Workers : wrk'[v].op = id /\ wrk'[v].pc \in Acting =>
               wrk[v].op = id /\ wrk[v].pc \in Acting
        BY <2>1, <2>3, <3>1 DEF Acting
      <3> QED BY <2>1, <2>2, <3>2, <3>3, EarlyKickStays
    <2>4. CASE ~(id \in DeleteOps /\ users'[UserOf[id]] = queue[id].previous)
      <3>1. ~(id \in DeleteOps /\ users'[UserOf[id]] = queue'[id].previous)
        BY <2>1, <2>4
      <3>2. EarlyKick(id)'
        BY <3>1 DEF EarlyKick
      <3> QED BY <2>2, <3>2
    <2> QED BY <2>2, <2>3, <2>4
  <1>2. ASSUME NEW t \in Threads
        PROVE  RequestKnown(t)'
    <2>1. RequestKnown(t)
      BY DEF Known, ActorsKnown
    <2>2. ASSUME req[t].pc \in {"lock", "task", "commit"}
          PROVE  /\ SameTask(queue', queue, req[t].op)
                 /\ \A v \in Workers :
                      \/ wrk'[v].pc = "idle" \/ wrk'[v].op # req[t].op
                      \/ wrk[v].pc # "idle" /\ wrk[v].op = req[t].op /\ wrk'[v].pc \in {"giveup", wrk[v].pc}
                      \/ req[t].op \in DOMAIN queue /\ wrk'[v].pc = "lock"
      <3>1. SameTask(queue', queue, req[t].op)
        BY <2>2
      <3>2. ASSUME NEW v \in Workers
            PROVE  \/ wrk'[v].pc = "idle" \/ wrk'[v].op # req[t].op
                   \/ wrk[v].pc # "idle" /\ wrk[v].op = req[t].op /\ wrk'[v].pc \in {"giveup", wrk[v].pc}
                   \/ req[t].op \in DOMAIN queue /\ wrk'[v].pc = "lock"
        BY <2>2, <3>2
      <3> QED BY <3>1, <3>2
    <2>3. \A id \in DOMAIN queue' \ {req[t].op} :
            id \in DOMAIN queue /\ queue'[id].target = queue[id].target
      BY DEF SameTasks
    <2> QED BY <1>0, <2>1, <2>2, <2>3, RequestStaysKnown
  <1>3. ASSUME NEW other \in Workers \ {w}
        PROVE  WorkerKnown(other)'
    <2>1. WorkerKnown(other) /\ TokensApart(other)
      BY DEF Known, ActorsKnown
    <2>2. wrk[other].pc = "save" => UNCHANGED users
      BY DEF SafetyInv, WorkerSafe
    <2>3. wrk[other].op \in DeleteOps \cap DOMAIN queue
            /\ users[JobUser(other)] = queue[wrk[other].op].previous => wrk[other].op \in DOMAIN queue'
      BY DEF SameTask, JobUser
    <2> QED BY <1>0, <2>1, <2>2, <2>3, WorkerStaysKnown DEF SameTasks, TokensApart
  <1>4. ActorsKnown'
    BY <1>2, <1>3 DEF ActorsKnown
  <1> QED BY <1>1, <1>4 DEF Known, TasksKnown

\* A step of neither.
LEMMA EnvironmentKeepsKnown ==
    ASSUME Types, Types', SafetyInv, Known, UNCHANGED <<spent>>, fresh <= fresh',
           \A t \in Threads : /\ req'[t].pc = req[t].pc /\ req'[t].op = req[t].op
                              /\ req'[t].new = req[t].new,
           \A w \in Workers : /\ wrk'[w].pc = wrk[w].pc /\ wrk'[w].op = wrk[w].op
                              /\ wrk'[w].previous = wrk[w].previous
                              /\ wrk'[w].target = wrk[w].target,
           UsersAdvance, lock = Nobody \/ UNCHANGED users, \A w \in Workers : TokensApart(w),
           \A id : SameTask(queue', queue, id)
    PROVE  Known'
  <1>1. ASSUME NEW id \in DOMAIN queue'
        PROVE  TaskKnown(id)' /\ EarlyKick(id)'
    <2>1. /\ id \in DOMAIN queue /\ TaskKnown(id) /\ EarlyKick(id)
          /\ queue'[id].previous = queue[id].previous /\ queue'[id].target = queue[id].target
          /\ queue'[id].kicks = queue[id].kicks
      BY <1>1 DEF SameTask, Known, TasksKnown
    <2>2. /\ TaskKnown(id)'
          /\ id \in DeleteOps /\ users'[UserOf[id]] = queue[id].previous =>
               users[UserOf[id]] = queue[id].previous
      BY <1>1, <2>1, TaskStaysKnown
    <2> QED BY <2>1, <2>2, EarlyKickStays
  <1>2. ASSUME NEW t \in Threads
        PROVE  RequestKnown(t)'
    <2>1. RequestKnown(t)
      BY DEF Known, ActorsKnown
    <2>2. \A id \in DOMAIN queue' \ {req[t].op} :
            id \in DOMAIN queue /\ queue'[id].target = queue[id].target
      BY DEF SameTask
    <2> QED BY <2>1, <2>2, RequestStaysKnown
  <1>3. ASSUME NEW w \in Workers
        PROVE  WorkerKnown(w)'
    <2>1. WorkerKnown(w) /\ TokensApart(w)
      BY DEF Known, ActorsKnown
    <2>2. wrk[w].pc = "save" => UNCHANGED users
      BY ModelAssumption DEF SafetyInv, WorkerSafe
    <2> QED BY <2>1, <2>2, WorkerStaysKnown DEF SameTask, TokensApart
  <1>4. ActorsKnown'
    BY <1>2, <1>3 DEF ActorsKnown
  <1> QED BY <1>1, <1>4 DEF Known, TasksKnown

-----------------------------------------------------------------------------
(* One lemma per kind of step.                                               *)

LEMMA NobodyAdvances ==
    ASSUME Known, UNCHANGED users
    PROVE  UsersAdvance /\ \A w \in Workers : TokensApart(w)
  <1>1. UsersAdvance
    BY DEF UsersAdvance, Advances
  <1> QED BY <1>1, ApartUnlessUsersChange DEF Known, ActorsKnown

\* The operations are administrators': rotations and deletions.
LEMMA TwoKinds ==
    ASSUME AdministratorsOnly, NEW op \in Op
    PROVE  op \in DeleteOps <=> op \notin AdminOps
  BY ModelAssumption DEF AdministratorsOnly, Op

\* A request goes from the lock to its task, or to what comes after its commit, or ends.
LEMMA RequestGoesOn ==
    ASSUME Types, Known, NEW t \in Threads, req[t].pc # "idle",
           UNCHANGED <<wrk, spent>>, \A other \in Threads \ {t} : req'[other] = req[other],
           req'[t].op = req[t].op,
           \/ req[t].pc = "lock" /\ req'[t].pc = "task"
           \/ req'[t].pc \in {"sync", "purge", "static", "record", "kick", "complete"},
           req[t].op \in DOMAIN queue' => req[t].op \in DOMAIN queue
    PROVE  RequestKnown(t)'
  BY DEF Known, ActorsKnown, RequestKnown

LEMMA LockKnown ==
    ASSUME Types, Types', SafetyInv, Known, AdministratorsOnly, NEW t \in Threads, Lock(t)
    PROVE  Known'
  <1>1. UNCHANGED <<users, queue, wrk, spent, fresh>> /\ req[t].pc = "lock"
        /\ req[t] \in Request /\ req \in [Threads -> Request]
    BY DEF Lock, Types, ActorsType
  <1>2. \A other \in Threads \ {t} : req'[other] = req[other]
    BY <1>1 DEF Lock, Finish
  <1>3. req'[t].pc = "idle" \/ (req'[t].pc = "task" /\ req'[t].op = req[t].op)
    BY <1>1 DEF Lock, Finish, IdleRequest, AdministratorsOnly, Request
  <1>4. RequestKnown(t)'
    <2>1. CASE req'[t].pc = "idle"
      BY <2>1 DEF RequestKnown
    <2>2. CASE req'[t].pc # "idle"
      BY <1>1, <1>2, <1>3, <2>2, RequestGoesOn
    <2> QED BY <2>1, <2>2
  <1>5. queue \in Queues
    BY DEF Types, FilesType
  <1>6. SameTasks(queue', queue) /\ \A id : SameTask(queue', queue, id)
    BY <1>1, <1>5, QueueKeepsTasks, QueueSameTask
  <1> QED BY <1>1, <1>2, <1>3, <1>4, <1>6, NobodyAdvances, RequestKeepsKnown DEF SameTask

\* The steps of a request that neither bind a task nor change an account or a count.
EffectStep(t) ==
    \/ LockTimedOut(t) \/ SyncStatic(t) \/ Purge(t) \/ StaticEffects(t)
    \/ RecordStaticRetry(t) \/ KickUser(t)

LEMMA EffectStepKnown ==
    ASSUME Types, Types', SafetyInv, Known, NEW t \in Threads, EffectStep(t)
    PROVE  Known'
  <1>1. UNCHANGED <<users, wrk, spent, fresh>> /\ req[t].pc # "idle"
        /\ req[t] \in Request /\ req \in [Threads -> Request] /\ queue \in Queues
    BY DEF EffectStep, LockTimedOut, SyncStatic, Purge, StaticEffects, RecordStaticRetry, KickUser,
       Types, ActorsType, FilesType
  <1>2. \A other \in Threads \ {t} : req'[other] = req[other]
    BY <1>1 DEF EffectStep, LockTimedOut, SyncStatic, Purge, StaticEffects, RecordStaticRetry, KickUser,
       Finish, Goto
  <1>3. \/ req'[t].pc = "idle"
        \/ /\ req'[t].pc \in {"sync", "purge", "static", "record", "kick", "complete"}
           /\ req'[t].op = req[t].op
    <2>1. CASE LockTimedOut(t) \/ Purge(t)
      BY <1>1, <2>1 DEF LockTimedOut, Purge, Finish, Goto, IdleRequest, Request
    <2>2. CASE SyncStatic(t)
      BY <1>1, <2>2 DEF SyncStatic, Request
    <2>3. CASE StaticEffects(t)
      BY <1>1, <2>3 DEF StaticEffects, Request
    <2>4. CASE RecordStaticRetry(t)
      BY <1>1, <2>4 DEF RecordStaticRetry, Request
    <2>5. CASE KickUser(t)
      BY <1>1, <2>5 DEF KickUser, Request
    <2> QED BY <2>1, <2>2, <2>3, <2>4, <2>5 DEF EffectStep
  <1>4. SameTasks(queue', queue) /\ \A id : SameTask(queue', queue, id)
    <2>1. CASE RecordStaticRetry(t)
      <3>1. req[t].retry \in SUBSET Services
        BY <1>1 DEF Request
      <3>2. queue' \in {queue, WithStaticServices(queue, req[t].op, req[t].retry)}
        BY <2>1 DEF RecordStaticRetry, SaveQueue, Visible
      <3>3. /\ SameTasks(queue, queue) /\ \A id : SameTask(queue, queue, id)
            /\ SameTasks(WithStaticServices(queue, req[t].op, req[t].retry), queue)
            /\ \A id : SameTask(WithStaticServices(queue, req[t].op, req[t].retry), queue, id)
        BY <1>1, <3>1, QueueKeepsTasks, QueueSameTask
      <3> QED BY <3>2, <3>3
    <2>2. CASE UNCHANGED queue
      BY <1>1, <2>2, QueueKeepsTasks, QueueSameTask
    <2> QED BY <2>1, <2>2 DEF EffectStep, LockTimedOut, SyncStatic, Purge, StaticEffects, KickUser
  <1>5. RequestKnown(t)'
    <2>1. CASE req'[t].pc = "idle"
      BY <2>1 DEF RequestKnown
    <2>2. CASE req'[t].pc # "idle"
      BY <1>1, <1>2, <1>3, <1>4, <2>2, RequestGoesOn DEF SameTask
    <2> QED BY <2>1, <2>2
  <1> QED BY <1>1, <1>2, <1>3, <1>4, <1>5, NobodyAdvances, RequestKeepsKnown DEF SameTask

\* The request is the only one of its operation, so it has not counted a kick before.
LEMMA RecordKickKnown ==
    ASSUME Types, Types', SafetyInv, Known, AdministratorsOnly, NEW t \in Threads, RecordKickAttempt(t)
    PROVE  Known'
  <1>1. UNCHANGED <<users, wrk, spent, fresh>> /\ req[t].pc = "complete"
        /\ req[t] \in Request /\ req \in [Threads -> Request] /\ queue \in Queues
    BY DEF RecordKickAttempt, Types, ActorsType, FilesType
  <1>2. req'[t].pc = "idle" /\ \A other \in Threads \ {t} : req'[other] = req[other]
    BY <1>1 DEF RecordKickAttempt, Finish, IdleRequest, AdministratorsOnly
  <1>3. PICK op \in Op : op = req[t].op
    BY <1>1 DEF Request
  <1> DEFINE counted == AttemptRecorded(queue, op, req[t].kicked, req[t].done)
  <1>4. /\ req[t].kicked \in BOOLEAN /\ req[t].done \in SUBSET Services
        /\ queue' \in {queue, counted}
    BY <1>1, <1>3 DEF RecordKickAttempt, SaveQueue, Visible, Request
  <1>5. /\ \A i : i # op => SameTask(counted, queue, i)
        /\ op \in DOMAIN counted => op \in DOMAIN queue /\ counted[op].kicks = KickCount(queue[op], req[t].kicked)
        /\ op \in DOMAIN queue /\ op \notin DOMAIN counted => queue[op].kicks # 0
        /\ SameTasks(counted, queue) /\ SameTasks(queue, queue)
        /\ \A i : SameTask(queue, queue, i)
    <2>1. SameTasks(counted, queue) /\ SameTasks(queue, queue)
      BY <1>1, <1>4, AttemptKeepsTasks, QueueKeepsTasks
    <2>2. \A i : SameTask(queue, queue, i)
      BY <1>1, QueueSameTask
    <2>3. /\ \A i : i # op => SameTask(counted, queue, i)
          /\ op \in DOMAIN counted => op \in DOMAIN queue /\ counted[op].kicks = KickCount(queue[op], req[t].kicked)
          /\ op \in DOMAIN queue /\ op \notin DOMAIN counted => queue[op].kicks # 0
      BY <1>1, <1>4, AttemptCounts
    <2> QED BY <2>1, <2>2, <2>3
  <1> HIDE DEF counted
  <1>6. /\ SameTasks(queue', queue)
        /\ \A i : i # op => SameTask(queue', queue, i)
    BY <1>4, <1>5
  <1>7. op \in DOMAIN queue /\ EarlyKick(op) /\ op \in DeleteOps
          /\ users[UserOf[op]] = queue[op].previous =>
             queue[op].kicks = 0
    <2>1. op \in DOMAIN queue => queue[op].kicks \in 0 .. 2
      BY <1>1, QueueMember DEF Task
    <2> QED BY <1>1, <1>3, <2>1 DEF EarlyKick
  <1>8. op \in DOMAIN queue /\ EarlyKick(op) /\ op \in DeleteOps
          /\ users[UserOf[op]] = queue[op].previous => op \in DOMAIN queue'
    BY <1>4, <1>5, <1>7
  <1>9. ASSUME op \in DOMAIN queue'
        PROVE  queue'[op].kicks \in {queue[op].kicks, 0} \/ EarlyKick(op)'
    <2>1. op \in DOMAIN queue /\ EarlyKick(op) /\ queue'[op].previous = queue[op].previous
      BY <1>6, <1>9 DEF SameTasks, Known, TasksKnown
    <2>2. CASE op \in DeleteOps /\ users[UserOf[op]] = queue[op].previous
      <3>1. queue[op].kicks = 0
        BY <1>7, <2>1, <2>2
      <3>2. queue'[op].kicks \in {0, 1}
        BY <1>4, <1>5, <1>9, <3>1 DEF KickCount
      <3>3. \A r \in Threads : req'[r].op = op => req'[r].pc = "idle"
        BY <1>1, <1>2, <1>3 DEF Known, ActorsKnown, RequestKnown
      <3> QED BY <1>1, <2>1, <2>2, <3>2, <3>3 DEF EarlyKick
    <2>3. CASE ~(op \in DeleteOps /\ users[UserOf[op]] = queue[op].previous)
      BY <1>1, <2>1, <2>3 DEF EarlyKick
    <2> QED BY <2>2, <2>3
  <1>10. RequestKnown(t)'
    BY <1>2 DEF RequestKnown
  <1> QED BY <1>1, <1>2, <1>3, <1>6, <1>8, <1>9, <1>10, NobodyAdvances, RequestKeepsKnown

LEMMA CommitKnown ==
    ASSUME Types, Types', SafetyInv, Known, AdministratorsOnly, NEW t \in Threads, CommitUsers(t)
    PROVE  Known'
  <1> DEFINE new == [users EXCEPT ![UserOf[req[t].op]] = Changed(t)]
  <1>1. UNCHANGED <<queue, wrk, spent, fresh>> /\ req[t].pc = "commit"
        /\ req[t] \in Request /\ req \in [Threads -> Request] /\ queue \in Queues
        /\ users \in [Users -> Account] /\ lock = t /\ RequestKnown(t) /\ RequestSafe(t)
        /\ fresh \in Nat
    BY DEF CommitUsers, Types, ActorsType, FilesType, OthersType, SafetyInv, RequestSafe, Holding,
       Known, ActorsKnown
  <1>2. PICK op \in Op : op = req[t].op /\ UserOf[op] \in Users /\ (op \in DeleteOps <=> op \notin AdminOps)
    BY <1>1, TwoKinds, ModelAssumption DEF Request
  <1>3. \A other \in Threads \ {t} : req'[other] = req[other]
    BY <1>1 DEF CommitUsers, Abort, Finish
  <1>4. req'[t].pc = "idle" \/ (req'[t].pc \in {"sync", "static"} /\ req'[t].op = op)
    BY <1>1, <1>2 DEF CommitUsers, Abort, Finish, IdleRequest, Request
  <1>5. SameTasks(queue', queue) /\ \A id : SameTask(queue', queue, id)
    BY <1>1, QueueKeepsTasks, QueueSameTask
  <1>6. RequestKnown(t)'
    <2>1. CASE req'[t].pc = "idle"
      BY <2>1 DEF RequestKnown
    <2>2. CASE req'[t].pc # "idle"
      BY <1>1, <1>2, <1>3, <1>4, <2>2, RequestGoesOn
    <2> QED BY <2>1, <2>2
  <1>7. /\ \A u \in Users \ {UserOf[op]} : new[u] = users[u]
        /\ op \in DeleteOps => new[UserOf[op]].gen = 0
        /\ op \in AdminOps => new[UserOf[op]].gen = req[t].new
    BY <1>1, <1>2 DEF Changed, NoAccount, Account
  <1>8. users' = users \/ users' = new
    BY DEF CommitUsers, SaveUsers, Visible
  <1> HIDE DEF new
  <1>9. /\ op \in AdminOps => users[UserOf[op]].gen < req[t].new
        /\ users[UserOf[op]].gen # 0
    BY <1>1, <1>2 DEF RequestSafe
  <1>10. UsersAdvance
    <2>1. ASSUME NEW u \in Users
          PROVE  Advances(users[u], users'[u], fresh)
      <3>1. CASE users'[u] = users[u]
        BY <3>1 DEF Advances
      <3>2. CASE users'[u] # users[u]
        BY <1>2, <1>7, <1>8, <1>9, <3>2 DEF Advances
      <3> QED BY <3>1, <3>2
    <2> QED BY <2>1 DEF UsersAdvance
  <1>11. ASSUME NEW w \in Workers
         PROVE  TokensApart(w)
    <2> SUFFICES ASSUME wrk[w].pc \in {"previous", "superseded"}, wrk[w].op \in DOMAIN queue
                 PROVE  queue[wrk[w].op].target.gen # users'[JobUser(w)].gen
      BY DEF TokensApart
    <2>1. /\ wrk[w].op \in AdminOps /\ wrk[w].op \notin DeleteOps
          /\ queue[wrk[w].op].target.gen # users[JobUser(w)].gen
          /\ queue[wrk[w].op].target.gen \in 1 .. fresh
          /\ JobUser(w) \in Users
      BY ModelAssumption DEF Known, ActorsKnown, TasksKnown, WorkerKnown, TaskKnown, JobUser, Op
    <2>2. wrk[w].op # op
      BY <1>1, <1>2 DEF RequestKnown
    <2>3. queue[wrk[w].op].target.gen # req[t].new
      BY <1>1, <1>2, <2>1, <2>2 DEF RequestKnown
    <2>4. users'[JobUser(w)].gen \in {users[JobUser(w)].gen, 0, req[t].new}
      BY <1>2, <1>7, <1>8, <2>1
    <2> QED BY <1>1, <2>1, <2>3, <2>4
  <1>12. op \in DOMAIN queue' => queue'[op].kicks \in {queue[op].kicks, 0}
    BY <1>1
  <1> QED BY <1>1, <1>2, <1>3, <1>4, <1>5, <1>6, <1>10, <1>11, <1>12, RequestKeepsKnown

\* A task is prepared while no other request, and no worker, knows of its operation.
LEMMA PrepareTaskKnown ==
    ASSUME Types, Types', SafetyInv, Known, AdministratorsOnly, NEW t \in Threads, PrepareTask(t)
    PROVE  Known'
  <1>1. /\ UNCHANGED <<users, wrk, spent>> /\ req[t].pc = "task"
        /\ req[t] \in Request /\ req \in [Threads -> Request] /\ queue \in Queues
        /\ users \in [Users -> Account] /\ lock = t /\ RequestKnown(t) /\ RequestSafe(t)
        /\ fresh \in Nat /\ fresh' \in Nat
    BY DEF PrepareTask, Types, ActorsType, FilesType, OthersType, SafetyInv, RequestSafe, Holding,
       Known, ActorsKnown
  <1>2. PICK op \in Op : op = req[t].op /\ UserOf[op] \in Users /\ (op \in DeleteOps <=> op \notin AdminOps)
                         /\ op \notin SelfOps
    BY <1>1, TwoKinds, ModelAssumption DEF Request, AdministratorsOnly
  <1>3. op \notin DOMAIN queue /\ \A w \in Workers : wrk[w].pc = "idle" \/ wrk[w].op # op
    BY <1>1, <1>2 DEF RequestKnown
  <1>4. \A other \in Threads \ {t} : req'[other] = req[other]
    BY <1>1 DEF PrepareTask, Abort, Finish
  <1> DEFINE new == IF op \in AdminOps THEN fresh + 1 ELSE 0
             target == IF op \in DeleteOps THEN DeleteTarget ELSE TokenGeneration(fresh + 1)
             after == Put(queue, op, NewTask(PreviousOf(t), target))
  <1>5. PreviousOf(t) = IF op \in DeleteOps THEN users[UserOf[op]]
                        ELSE CredentialGeneration(users[UserOf[op]])
    BY <1>1, <1>2 DEF PreviousOf, DeletePreviousGeneration
  <1>6. \/ queue' = queue /\ req'[t].pc = "idle" /\ fresh' \in {fresh, fresh + 1}
        \/ /\ queue' = after /\ fresh' = IF op \in AdminOps THEN fresh + 1 ELSE fresh
           /\ \/ req'[t].pc = "idle"
              \/ req'[t].pc = "commit" /\ req'[t].op = op /\ req'[t].new = new
    BY <1>1, <1>2, <1>3 DEF PrepareTask, SaveQueue, Visible, Prepared, Abort, Finish, IdleRequest, Request
  <1>7. fresh' \in {fresh, fresh + 1} /\ fresh <= fresh'
    BY <1>1, <1>6
  <1>8. CASE queue' = queue /\ req'[t].pc = "idle"
    <2>1. SameTasks(queue', queue) /\ \A id : SameTask(queue', queue, id)
      BY <1>1, <1>8, QueueKeepsTasks, QueueSameTask
    <2>2. RequestKnown(t)'
      BY <1>8 DEF RequestKnown
    <2>3. queue'[op].kicks = queue[op].kicks
      BY <1>8
    <2> QED BY <1>1, <1>2, <1>3, <1>4, <1>7, <1>8, <2>1, <2>2, <2>3, NobodyAdvances, RequestKeepsKnown
  <1>9. CASE queue' # queue \/ req'[t].pc # "idle"
    <2>1. /\ queue' = after /\ fresh' = IF op \in AdminOps THEN fresh + 1 ELSE fresh
          /\ \/ req'[t].pc = "idle"
             \/ req'[t].pc = "commit" /\ req'[t].op = op /\ req'[t].new = new
      BY <1>6, <1>9
    <2>2. /\ DOMAIN queue' = DOMAIN queue \cup {op}
          /\ \A id \in DOMAIN queue : queue'[id] = queue[id]
          /\ queue'[op].previous = PreviousOf(t) /\ queue'[op].target = target
          /\ queue'[op].kicks = 0
      BY <1>3, <2>1 DEF Put, NewTask
    <2> HIDE DEF after
    <2>3. \A id \in DOMAIN queue : TaskKnown(id) /\ EarlyKick(id)
      BY DEF Known, TasksKnown
    <2>4. ASSUME NEW id \in DOMAIN queue'
          PROVE  TaskKnown(id)' /\ EarlyKick(id)'
      <3>1. CASE id = op
        <4>1. op \in spent'
          BY <1>1, <1>2 DEF RequestKnown
        <4>2. CASE op \in DeleteOps
          <5>1. users'[UserOf[op]].gen \in 1 .. fresh'
            BY <1>1, <1>2, <1>7 DEF RequestSafe, SafetyInv, FilesSafe, Types, FilesType, Account
          <5>2. Passed(users'[UserOf[op]], users'[UserOf[op]], fresh')
            BY <1>1, <1>2, <5>1 DEF Passed, Account
          <5>3. TaskKnown(op)'
            BY <1>1, <1>2, <1>5, <2>2, <4>1, <4>2, <5>2 DEF TaskKnown
          <5>4. EarlyKick(op)'
            BY <1>1, <1>3, <2>2 DEF EarlyKick, Acting
          <5> QED BY <3>1, <5>3, <5>4
        <4>3. CASE op \in AdminOps
          <5>1. TaskKnown(op)'
            BY <1>1, <1>2, <2>1, <2>2, <4>1, <4>3 DEF TaskKnown, TokenGeneration
          <5>2. EarlyKick(op)'
            BY <1>2, <4>3 DEF EarlyKick
          <5> QED BY <3>1, <5>1, <5>2
        <4> QED BY <1>2, <4>2, <4>3
      <3>2. CASE id # op
        <4>1. id \in DOMAIN queue /\ queue'[id] = queue[id]
          BY <2>2, <3>2
        <4>2. /\ TaskKnown(id)'
              /\ id \in DeleteOps /\ users'[UserOf[id]] = queue[id].previous =>
                   users[UserOf[id]] = queue[id].previous
          BY <1>1, <1>7, <2>3, <2>4, <4>1, NobodyAdvances, TaskStaysKnown
        <4>3. \A r \in Threads : req'[r].op = id /\ req'[r].pc # "idle" =>
                 req[r].op = id /\ req[r].pc # "idle"
          BY <1>4, <2>1, <3>2
        <4> QED BY <1>1, <2>3, <4>1, <4>2, <4>3, EarlyKickStays
      <3> QED BY <3>1, <3>2
    <2>5. ASSUME NEW other \in Threads \ {t}
          PROVE  RequestKnown(other)'
      <3>1. RequestKnown(other) /\ req[other].pc # "commit"
        BY <1>1, ModelAssumption DEF Known, ActorsKnown, SafetyInv, RequestSafe, Holding
      <3>2. req[other].pc = "idle" \/ req[other].op # op
        BY <1>1, <1>2 DEF RequestKnown
      <3> QED BY <1>1, <1>4, <2>1, <2>2, <3>1, <3>2 DEF RequestKnown
    <2>6. RequestKnown(t)'
      <3> SUFFICES ASSUME req'[t].pc = "commit", req'[t].op = op, req'[t].new = new
                   PROVE  RequestKnown(t)'
        BY <2>1 DEF RequestKnown
      <3>1. op \in spent /\ \A other \in Threads \ {t} : req[other].pc = "idle" \/ req[other].op # op
        BY <1>1, <1>2 DEF RequestKnown
      <3>2. op \in AdminOps => target = TokenGeneration(new)
        BY <1>2
      <3>3. \A id \in DOMAIN queue : id \in DeleteOps \/ queue[id].target.gen \in 1 .. fresh
        <4>1. \A id \in DOMAIN queue : id \in Op
          BY <1>1, QueueMember
        <4> QED BY <2>3, <4>1, TwoKinds DEF TaskKnown
      <3>4. op \in AdminOps =>
              \A id \in DOMAIN queue : id \in DeleteOps \/ queue[id].target.gen # new
        BY <1>1, <3>3
      <3>5. op \notin AdminOps =>
              \A id \in DOMAIN queue : id \in DeleteOps \/ queue[id].target.gen # new
        BY <1>1, <3>3
      <3> QED BY <1>1, <1>3, <1>4, <2>2, <3>1, <3>2, <3>4, <3>5 DEF RequestKnown
    <2>7. ASSUME NEW w \in Workers
          PROVE  WorkerKnown(w)'
      <3>1. WorkerKnown(w) /\ (wrk[w].pc = "idle" \/ wrk[w].op # op)
        BY <1>3 DEF Known, ActorsKnown
      <3> QED BY <1>1, <1>7, <2>2, <3>1, NobodyAdvances, WorkerStaysKnown DEF TokensApart
    <2> QED BY <1>1, <2>4, <2>5, <2>6, <2>7 DEF Known, TasksKnown, ActorsKnown
  <1> QED BY <1>8, <1>9

\* An administrator's nonce is drawn once, so nothing knows of it yet.
LEMMA AdminBeginKnown ==
    ASSUME Types, Types', SafetyInv, Known, NEW t \in Threads, NEW op \in AdminOps \cup DeleteOps,
           AdminBegin(t, op)
    PROVE  Known'
  <1>1. /\ UNCHANGED <<users, queue, wrk, fresh>> /\ spent' = spent \cup {op} /\ op \notin spent
        /\ req \in [Threads -> Request] /\ req[t].pc = "idle"
    BY DEF AdminBegin, Types, ActorsType
  <1>2. /\ \A other \in Threads \ {t} : req'[other] = req[other]
        /\ req'[t].pc = "lock" /\ req'[t].op = op
    BY <1>1 DEF AdminBegin, IdleRequest
  <1>3. /\ \A id \in DOMAIN queue : id # op /\ TaskKnown(id) /\ EarlyKick(id)
        /\ \A w \in Workers : (wrk[w].pc = "idle" \/ wrk[w].op # op) /\ WorkerKnown(w)
        /\ \A other \in Threads : (req[other].pc = "idle" \/ req[other].op # op) /\ RequestKnown(other)
    BY <1>1 DEF Known, TasksKnown, ActorsKnown, TaskKnown, WorkerKnown, RequestKnown
  <1>4. TasksKnown'
    BY <1>1, <1>2, <1>3 DEF TasksKnown, TaskKnown, EarlyKick
  <1>5. ASSUME NEW other \in Threads PROVE RequestKnown(other)'
    <2>1. CASE other = t
      BY <1>1, <1>2, <1>3, <2>1 DEF RequestKnown
    <2>2. CASE other # t
      BY <1>1, <1>2, <1>3, <2>2 DEF RequestKnown
    <2> QED BY <2>1, <2>2
  <1>6. ASSUME NEW w \in Workers PROVE WorkerKnown(w)'
    BY <1>1, <1>3 DEF WorkerKnown, JobUser, Exists
  <1> QED BY <1>1, <1>4, <1>5, <1>6 DEF Known, ActorsKnown

\* The steps only a user's own rotation takes.
LEMMA NoSelfService ==
    ASSUME Types, Known, AdministratorsOnly, NEW t \in Threads
    PROVE  ~(\/ PrepareFreshReceipt(t) \/ RefreshReceipt(t) \/ Conflict(t) \/ DiscardReceipt(t)
             \/ DiscardTask(t) \/ MintSession(t) \/ BindReplacement(t))
  BY DEF Known, ActorsKnown, RequestKnown, AdministratorsOnly, PrepareFreshReceipt, RefreshReceipt,
     Conflict, Superseded, DiscardReceipt, DiscardTask, MintSession, BindReplacement

LEMMA RequestStepKnown ==
    ASSUME Types, Types', SafetyInv, Known, AdministratorsOnly, NEW t \in Threads,
           Begin(t) \/ RequestStep(t)
    PROVE  Known'
  BY AdminBeginKnown, NoSelfService, LockKnown, PrepareTaskKnown, CommitKnown, EffectStepKnown,
     RecordKickKnown DEF Begin, RequestStep, EffectStep, AdministratorsOnly

-----------------------------------------------------------------------------
\* A worker that has its task, and the lock or no longer needs it, has the task for itself.
RequestAhead(op) == \E t \in Threads : req[t].pc \in {"lock", "task", "commit"} /\ req[t].op = op

LEMMA NoRequestAhead ==
    ASSUME Types, SafetyInv, Known, NEW w \in Workers, wrk[w].pc # "idle",
           wrk[w].pc \notin {"lock", "giveup"} \/ lock \in {w, Nobody}
    PROVE  ~RequestAhead(wrk[w].op)
  <1>1. SUFFICES ASSUME NEW t \in Threads, req[t].pc \in {"lock", "task", "commit"}, req[t].op = wrk[w].op
                 PROVE  FALSE
    BY DEF RequestAhead
  <1>2. RequestKnown(t) /\ RequestSafe(t)
    BY DEF Known, ActorsKnown, SafetyInv
  <1>3. req[t].pc = "commit" /\ wrk[w].pc \in {"lock", "giveup"}
    BY <1>1, <1>2 DEF RequestKnown
  <1>4. lock = t
    BY <1>2, <1>3 DEF RequestSafe, Holding
  <1> QED BY <1>3, <1>4, ModelAssumption

LEMMA ClaimKnown ==
    ASSUME Types, Types', SafetyInv, Known, AdministratorsOnly, NEW w \in Workers, NEW id \in Op,
           NEW outcome, Claim(w, id, outcome)
    PROVE  Known'
  <1>1. /\ UNCHANGED <<users, req, spent, fresh>> /\ wrk[w].pc = "idle"
        /\ id \in DOMAIN queue /\ queue \in Queues /\ queue' \in {queue, Claimed(queue, id)}
    BY DEF Claim, Due, SaveQueue, Visible, Types, FilesType
  <1>2. \A other \in Workers \ {w} : wrk'[other] = wrk[other]
    BY DEF Claim, Types, ActorsType
  <1>3. \/ wrk'[w].pc = "idle"
        \/ /\ wrk'[w].pc = "lock" /\ wrk'[w].op = id
           /\ wrk'[w].target = queue[id].target /\ wrk'[w].previous = queue[id].previous
    BY <1>1 DEF Claim, ClaimedJob, IdleJob, Types, ActorsType
  <1>4. SameTasks(queue', queue) /\ \A i : SameTask(queue', queue, i)
    BY <1>1, QueueKeepsTasks, QueueSameTask
  <1>5. WorkerKnown(w)'
    <2>1. CASE wrk'[w].pc = "idle"
      BY <2>1 DEF WorkerKnown
    <2>2. CASE wrk'[w].pc # "idle"
      <3>1. TaskKnown(id) /\ (id \in DeleteOps <=> id \notin AdminOps)
        BY <1>1, TwoKinds DEF Known, TasksKnown
      <3>2. id \in DOMAIN queue' /\ queue'[id].target = queue[id].target
            /\ queue'[id].previous = queue[id].previous
        BY <1>1, <1>4 DEF SameTask
      <3>3. id \in AdminOps => queue[id].target # DeleteTarget
        BY <3>1 DEF TaskKnown, DeleteTarget
      <3> QED BY <1>1, <1>3, <2>2, <3>1, <3>2, <3>3 DEF WorkerKnown, TaskKnown, JobUser
    <2> QED BY <2>1, <2>2
  <1>6. wrk'[w].pc \notin Acting
    BY <1>3 DEF Acting
  <1> QED BY <1>1, <1>2, <1>3, <1>4, <1>5, <1>6, NobodyAdvances, WorkerKeepsKnown DEF SameTask

LEMMA WorkerLockKnown ==
    ASSUME Types, Types', SafetyInv, Known, AdministratorsOnly, NEW w \in Workers, WorkerLock(w)
    PROVE  Known'
  <1>1. /\ UNCHANGED <<users, queue, req, spent, fresh>> /\ lock = Nobody /\ wrk[w].pc = "lock"
        /\ wrk[w] \in Job /\ wrk \in [Workers -> Job] /\ queue \in Queues /\ WorkerKnown(w)
        /\ users \in [Users -> Account]
    BY DEF WorkerLock, Types, ActorsType, FilesType, Known, ActorsKnown
  <1>2. PICK op \in Op : /\ op = wrk[w].op /\ UserOf[op] \in Users /\ JobUser(w) = UserOf[op]
                         /\ op \in DeleteOps <=> op \notin AdminOps
    BY <1>1, TwoKinds, ModelAssumption DEF Job, JobUser
  <1>3. \A other \in Workers \ {w} : wrk'[other] = wrk[other]
    BY <1>1 DEF WorkerLock, WDecide, WGoto
  <1>4. wrk'[w].op = op
    BY <1>1, <1>2 DEF WorkerLock, WDecide, WGoto, Job
  <1>5. \/ wrk'[w].pc = "save" /\ wrk[w].target = DeleteTarget /\ ~DeletionSuperseded(w)
        \/ /\ wrk'[w].pc \in {"sync", "static"}
           /\ wrk[w].target = DeleteTarget => DeletionSuperseded(w)
        \/ /\ wrk'[w].pc \in {"previous", "superseded"} /\ wrk[w].target # DeleteTarget
           /\ CredentialGeneration(users[UserOf[op]]) # wrk[w].target
        \/ wrk'[w].pc = "giveup"
    BY <1>1, <1>2 DEF WorkerLock, WDecide, WGoto, Job
  <1>6. op \in DeleteOps <=> wrk[w].target = DeleteTarget
    BY <1>1, <1>2 DEF WorkerKnown
  <1>7. op \in DeleteOps /\ op \in DOMAIN queue => wrk[w].previous = queue[op].previous
    BY <1>1, <1>2 DEF WorkerKnown
  <1>8. WorkerKnown(w)'
    <2>1. op \in spent'
      BY <1>1, <1>2 DEF WorkerKnown
    <2>2. CASE wrk'[w].pc = "save"
      <3>1. op \in DeleteOps
        BY <1>5, <1>6, <2>2
      <3>2. Exists(UserOf[op]) => users[UserOf[op]] = wrk[w].previous
        BY <1>2, <1>5, <2>2 DEF DeletionSuperseded, DeletePreviousGeneration
      <3>3. Exists(UserOf[op]) => op \in DOMAIN queue /\ queue[op].previous = users[UserOf[op]]
        BY <1>1, <1>2, <1>7, <3>1, <3>2 DEF WorkerKnown
      <3> QED BY <1>1, <1>2, <1>4, <2>1, <2>2, <3>1, <3>3 DEF WorkerKnown, JobUser, Exists
    <2>3. CASE wrk'[w].pc \in {"previous", "superseded"}
      <3>1. op \in AdminOps /\ CredentialGeneration(users[UserOf[op]]) # wrk[w].target
        BY <1>2, <1>5, <1>6, <2>3
      <3>2. op \in DOMAIN queue => queue[op].target.gen # users[UserOf[op]].gen
        <4>1. SUFFICES ASSUME op \in DOMAIN queue PROVE queue[op].target.gen # users[UserOf[op]].gen
          OBVIOUS
        <4>2. queue[op].target = wrk[w].target /\ queue[op].target.rev = 0 /\ queue[op].target \in Digest
          BY <1>1, <1>2, <3>1, <4>1, QueueMember DEF WorkerKnown, Known, TasksKnown, TaskKnown, Task
        <4>3. queue[op].target = [gen |-> queue[op].target.gen, rev |-> 0]
          BY <4>2 DEF Digest
        <4> QED BY <3>1, <4>2, <4>3 DEF CredentialGeneration
      <3> QED BY <1>1, <1>4, <2>1, <2>3, <3>1, <3>2 DEF WorkerKnown, JobUser
    <2>4. CASE wrk'[w].pc \in {"sync", "static", "giveup"}
      BY <1>4, <2>1, <2>4 DEF WorkerKnown
    <2> QED BY <1>5, <2>2, <2>3, <2>4
  <1>9. ASSUME op \in DeleteOps \cap DOMAIN queue, users[UserOf[op]] = queue[op].previous
        PROVE  wrk'[w].pc \notin Acting
    <2>1. ~DeletionSuperseded(w)
      BY <1>2, <1>7, <1>9 DEF DeletionSuperseded, DeletePreviousGeneration
    <2> QED BY <1>5, <1>6, <1>9, <2>1 DEF Acting
  <1>10. SameTasks(queue', queue) /\ \A i : SameTask(queue', queue, i)
    BY <1>1, QueueKeepsTasks, QueueSameTask
  <1>11. ~RequestAhead(op)
    BY <1>1, <1>2, NoRequestAhead
  <1> QED BY <1>1, <1>3, <1>4, <1>8, <1>9, <1>10, <1>11, NobodyAdvances, WorkerKeepsKnown
          DEF RequestAhead, SameTask

LEMMA WorkerSaveKnown ==
    ASSUME Types, Types', SafetyInv, Known, AdministratorsOnly, NEW w \in Workers, NEW outcome,
           WorkerSave(w, outcome)
    PROVE  Known'
  <1> DEFINE without == [users EXCEPT ![JobUser(w)] = NoAccount]
  <1>1. /\ UNCHANGED <<queue, req, spent, fresh>> /\ wrk[w].pc = "save" /\ lock = w
        /\ wrk[w] \in Job /\ wrk \in [Workers -> Job] /\ queue \in Queues /\ WorkerKnown(w)
        /\ users \in [Users -> Account]
    BY DEF WorkerSave, Types, ActorsType, FilesType, Known, ActorsKnown, SafetyInv, WorkerSafe
  <1>2. PICK op \in DeleteOps : /\ op = wrk[w].op /\ UserOf[op] \in Users /\ JobUser(w) = UserOf[op]
    BY <1>1, ModelAssumption DEF JobUser, WorkerKnown, Op
  <1>3. \A other \in Workers \ {w} : wrk'[other] = wrk[other]
    BY <1>1 DEF WorkerSave, WGoto
  <1>4. /\ wrk'[w].op = op /\ wrk'[w].pc \in {"purge", "giveup"}
        /\ users' \in {users, without}
        /\ wrk'[w].pc = "purge" => users' = without
    BY <1>1, <1>2 DEF WorkerSave, WGoto, Job, SaveUsers, Visible
  <1>5. /\ without[UserOf[op]].gen = 0
        /\ \A u \in Users : without[u] = users[u] \/ without[u].gen = 0
    BY <1>1, <1>2 DEF NoAccount
  <1> HIDE DEF without
  <1>6. UsersAdvance
    BY <1>4, <1>5 DEF UsersAdvance, Advances
  <1>7. ASSUME NEW other \in Workers
        PROVE  TokensApart(other)
    <2> SUFFICES ASSUME wrk[other].pc \in {"previous", "superseded"}, wrk[other].op \in DOMAIN queue
                 PROVE  queue[wrk[other].op].target.gen # users'[JobUser(other)].gen
      BY DEF TokensApart
    <2>1. /\ queue[wrk[other].op].target.gen # users[JobUser(other)].gen
          /\ queue[wrk[other].op].target.gen \in 1 .. fresh
          /\ JobUser(other) \in Users
      BY ModelAssumption DEF Known, ActorsKnown, TasksKnown, WorkerKnown, TaskKnown, JobUser, Op
    <2> QED BY <1>4, <1>5, <2>1
  <1>8. WorkerKnown(w)'
    BY <1>1, <1>2, <1>4 DEF WorkerKnown
  <1>9. ASSUME op \in DOMAIN queue, wrk'[w].pc \in Acting
        PROVE  users'[UserOf[op]] # queue[op].previous
    <2>1. queue[op].previous.gen \in 1 .. fresh
      BY <1>2, <1>9 DEF Known, TasksKnown, TaskKnown, Passed
    <2>2. users'[UserOf[op]].gen = 0
      BY <1>4, <1>5, <1>9 DEF Acting
    <2> QED BY <2>1, <2>2
  <1>10. SameTasks(queue', queue) /\ \A i : SameTask(queue', queue, i)
    BY <1>1, QueueKeepsTasks, QueueSameTask
  <1>11. ~RequestAhead(op)
    BY <1>1, <1>2, NoRequestAhead
  <1> QED BY <1>1, <1>3, <1>4, <1>6, <1>7, <1>8, <1>9, <1>10, <1>11, WorkerKeepsKnown DEF RequestAhead

\* A worker that acts on its task, or gives it back or up.
QuietStep(w) ==
    \/ WorkerLockTimedOut(w) \/ WorkerPurge(w) \/ WorkerGiveUp(w) \/ WorkerStatic(w)
    \/ \E synced \in SUBSET Services : WorkerSync(w, synced)
    \/ \E ok \in BOOLEAN : WorkerKick(w, ok)
    \/ \E outcome \in Outcomes : \/ WorkerPrevious(w, outcome) \/ WorkerSuperseded(w, outcome)
                                 \/ WorkerComplete(w, outcome)

\* It claims to have acted, or has given up waiting, or leaves the queue's task as it is.
LEMMA QuietStepShape ==
    ASSUME Types, NEW w \in Workers, QuietStep(w)
    PROVE  /\ UNCHANGED <<users, req, spent, fresh>> /\ wrk[w].pc # "idle"
           /\ \A other \in Workers \ {w} : wrk'[other] = wrk[other]
           /\ \/ wrk'[w].pc = "idle"
              \/ /\ wrk'[w].op = wrk[w].op /\ wrk'[w].pc \in {"sync", "static", "kick", "complete", "giveup"}
                 /\ wrk'[w].pc = "giveup" \/ wrk[w].pc \in Acting
           /\ \A i : i # wrk[w].op => SameTask(queue', queue, i)
           /\ \/ wrk[w].pc \in Acting \cup {"previous", "superseded"}
              \/ wrk[w].pc \in {"lock", "giveup"} /\ \A i : SameTask(queue', queue, i)
  <1>0. wrk \in [Workers -> Job] /\ wrk[w] \in Job /\ queue \in Queues
    BY DEF Types, ActorsType, FilesType
  <1>1. \A i : SameTask(queue, queue, i)
    BY <1>0, QueueSameTask
  <1>2. CASE WorkerLockTimedOut(w)
    BY <1>0, <1>1, <1>2 DEF WorkerLockTimedOut, WGoto, Job
  <1>3. CASE WorkerPurge(w)
    BY <1>0, <1>1, <1>3 DEF WorkerPurge, WGoto, Job, Acting
  <1>4. CASE WorkerGiveUp(w)
    <2>1. queue' \in {queue, Released(queue, wrk[w].op)}
      BY <1>4 DEF WorkerGiveUp, SaveQueue, Visible
    <2>2. \A i : SameTask(queue', queue, i)
      BY <1>0, <1>1, <2>1, QueueSameTask
    <2> QED BY <1>0, <1>4, <2>2 DEF WorkerGiveUp, WFinish, IdleJob
  <1>5. CASE WorkerStatic(w)
    BY <1>0, <1>1, <1>5 DEF WorkerStatic, Job, Acting
  <1>6. ASSUME NEW synced, WorkerSync(w, synced)
        PROVE  /\ UNCHANGED <<users, queue, req, spent, fresh>> /\ wrk[w].pc = "sync"
               /\ \A other \in Workers \ {w} : wrk'[other] = wrk[other]
               /\ wrk'[w].op = wrk[w].op /\ wrk'[w].pc = "static"
    BY <1>0, <1>6 DEF WorkerSync, Job
  <1>7. ASSUME NEW ok, WorkerKick(w, ok)
        PROVE  /\ UNCHANGED <<users, queue, req, spent, fresh>> /\ wrk[w].pc = "kick"
               /\ \A other \in Workers \ {w} : wrk'[other] = wrk[other]
               /\ wrk'[w].op = wrk[w].op /\ wrk'[w].pc = "complete"
    BY <1>0, <1>7 DEF WorkerKick, Job
  <1>8. ASSUME NEW outcome, WorkerPrevious(w, outcome) \/ WorkerSuperseded(w, outcome)
        PROVE  /\ UNCHANGED <<users, req, spent, fresh>> /\ wrk[w].pc \in {"previous", "superseded"}
               /\ \A other \in Workers \ {w} : wrk'[other] = wrk[other]
               /\ wrk'[w].pc = "idle" /\ \A i : i # wrk[w].op => SameTask(queue', queue, i)
    <2>1. queue' \in {queue, Drop(queue, wrk[w].op), Released(queue, wrk[w].op)}
      BY <1>8 DEF WorkerPrevious, WorkerSuperseded, SaveQueue, Visible
    <2>2. \A i : i # wrk[w].op => SameTask(queue', queue, i)
      BY <1>0, <1>1, <2>1, QueueSameTask
    <2> QED BY <1>0, <1>8, <2>2 DEF WorkerPrevious, WorkerSuperseded, WFinish, IdleJob
  <1>9. ASSUME NEW outcome, WorkerComplete(w, outcome)
        PROVE  /\ UNCHANGED <<users, req, spent, fresh>> /\ wrk[w].pc = "complete"
               /\ \A other \in Workers \ {w} : wrk'[other] = wrk[other]
               /\ wrk'[w].pc = "idle" /\ \A i : i # wrk[w].op => SameTask(queue', queue, i)
    <2>1. queue' \in {queue, AttemptRecorded(queue, wrk[w].op, wrk[w].kicked, wrk[w].done)}
      BY <1>9 DEF WorkerComplete, SaveQueue, Visible
    <2>2. wrk[w].kicked \in BOOLEAN /\ wrk[w].done \in SUBSET Services
      BY <1>0 DEF Job
    <2>3. \A i : i # wrk[w].op => SameTask(AttemptRecorded(queue, wrk[w].op, wrk[w].kicked, wrk[w].done), queue, i)
      BY <1>0, <2>2, AttemptCounts
    <2> QED BY <1>0, <1>1, <1>9, <2>1, <2>3 DEF WorkerComplete, WFinish, IdleJob
  <1> QED BY <1>1, <1>2, <1>3, <1>4, <1>5, <1>6, <1>7, <1>8, <1>9 DEF QuietStep, Acting

LEMMA QuietStepKnown ==
    ASSUME Types, Types', SafetyInv, Known, AdministratorsOnly, NEW w \in Workers, QuietStep(w)
    PROVE  Known'
  <1>1. /\ wrk[w].op \in Op /\ WorkerKnown(w) /\ SameTasks(queue', queue)
    BY QuietWorkerQueue DEF Types, ActorsType, Job, Known, ActorsKnown, QuietStep, QuietWorkerStep
  <1>2. PICK op \in Op : op = wrk[w].op /\ (op \in DeleteOps <=> op \notin AdminOps)
    BY <1>1, TwoKinds
  <1>3. WorkerKnown(w)'
    BY <1>1, QuietStepShape DEF WorkerKnown
  <1>4. ASSUME op \in DeleteOps \cap DOMAIN queue, users[UserOf[op]] = queue[op].previous
        PROVE  wrk[w].pc \in {"lock", "giveup"}
    <2>1. EarlyKick(op)
      BY <1>4 DEF Known, TasksKnown
    <2>2. wrk[w].pc \notin Acting
      BY <1>2, <1>4, <2>1 DEF EarlyKick
    <2>3. wrk[w].pc \notin {"previous", "superseded"}
      BY <1>1, <1>2, <1>4 DEF WorkerKnown
    <2> QED BY <2>2, <2>3, QuietStepShape
  <1>5. ASSUME op \in DeleteOps \cap DOMAIN queue, users[UserOf[op]] = queue[op].previous
        PROVE  /\ op \in DOMAIN queue' /\ queue'[op].kicks = queue[op].kicks
               /\ wrk'[w].pc \notin Acting
    <2>1. SameTask(queue', queue, op)
      BY <1>4, <1>5, QuietStepShape DEF Acting
    <2>2. wrk'[w].pc \in {"idle", "giveup"}
      BY <1>4, <1>5, QuietStepShape DEF Acting
    <2> QED BY <1>5, <2>1, <2>2 DEF SameTask, Acting
  <1>6. ASSUME RequestAhead(op)
        PROVE  /\ SameTask(queue', queue, op)
               /\ \/ wrk'[w].pc = "idle"
                  \/ wrk[w].pc # "idle" /\ wrk[w].op = op /\ wrk'[w].pc \in {"giveup", wrk[w].pc}
    <2>1. wrk[w].pc \in {"lock", "giveup"}
      BY <1>2, <1>6, NoRequestAhead, QuietStepShape
    <2> QED BY <1>2, <2>1, QuietStepShape DEF Acting
  <1>7. /\ UNCHANGED <<users, req, spent, fresh>>
        /\ \A other \in Workers \ {w} : wrk'[other] = wrk[other]
        /\ wrk'[w].pc = "idle" \/ wrk'[w].op = op
        /\ \A i : i # op => SameTask(queue', queue, i)
    BY <1>2, QuietStepShape
  <1> QED BY <1>1, <1>3, <1>5, <1>6, <1>7, NobodyAdvances, WorkerKeepsKnown DEF RequestAhead

LEMMA WorkerStepKnown ==
    ASSUME Types, Types', SafetyInv, Known, AdministratorsOnly, NEW w \in Workers, WorkerStep(w)
    PROVE  Known'
  BY ClaimKnown, WorkerLockKnown, WorkerSaveKnown, QuietStepKnown DEF WorkerStep, QuietStep

-----------------------------------------------------------------------------
LEMMA CreateUserKnown ==
    ASSUME Types, Types', SafetyInv, Known, NEW u \in Users, CreateUser(u)
    PROVE  Known'
  <1> DEFINE new == [users EXCEPT ![u] = [gen |-> fresh + 1, rev |-> 1]]
  <1>1. /\ UNCHANGED <<queue, req, wrk, spent>> /\ lock = Nobody /\ fresh' = fresh + 1
        /\ queue \in Queues /\ users \in [Users -> Account] /\ fresh \in Nat
        /\ users' \in {users, new}
    BY DEF CreateUser, SaveUsers, Visible, Types, FilesType, OthersType
  <1>2. new[u].gen = fresh + 1 /\ \A v \in Users \ {u} : new[v] = users[v]
    BY <1>1
  <1> HIDE DEF new
  <1>3. UsersAdvance
    BY <1>1, <1>2 DEF UsersAdvance, Advances
  <1>4. ASSUME NEW w \in Workers
        PROVE  TokensApart(w)
    <2> SUFFICES ASSUME wrk[w].pc \in {"previous", "superseded"}, wrk[w].op \in DOMAIN queue
                 PROVE  queue[wrk[w].op].target.gen # users'[JobUser(w)].gen
      BY DEF TokensApart
    <2>1. /\ queue[wrk[w].op].target.gen # users[JobUser(w)].gen
          /\ queue[wrk[w].op].target.gen \in 1 .. fresh
          /\ JobUser(w) \in Users
      BY ModelAssumption DEF Known, ActorsKnown, TasksKnown, WorkerKnown, TaskKnown, JobUser, Op
    <2> QED BY <1>1, <1>2, <2>1
  <1>5. \A id : SameTask(queue', queue, id)
    BY <1>1, QueueSameTask
  <1> QED BY <1>1, <1>3, <1>4, <1>5, EnvironmentKeepsKnown

LEMMA UpdateUserKnown ==
    ASSUME Types, Types', SafetyInv, Known, NEW u \in Users, UpdateUser(u)
    PROVE  Known'
  <1> DEFINE new == [users EXCEPT ![u].rev = @ + 1]
  <1>1. /\ UNCHANGED <<queue, req, wrk, spent, fresh>> /\ lock = Nobody
        /\ queue \in Queues /\ users \in [Users -> Account] /\ fresh \in Nat /\ users[u].gen # 0
        /\ users' \in {users, new}
    BY DEF UpdateUser, SaveUsers, Visible, Types, FilesType, OthersType, Exists
  <1>2. /\ new[u].gen = users[u].gen /\ new[u].rev = users[u].rev + 1
        /\ \A v \in Users \ {u} : new[v] = users[v]
    BY <1>1 DEF Account
  <1>3. \A v \in Users : users[v].gen \in Nat /\ users[v].rev \in Nat
    BY <1>1 DEF Account
  <1> HIDE DEF new
  <1>4. UsersAdvance
    BY <1>1, <1>2, <1>3 DEF UsersAdvance, Advances
  <1>5. \A v \in Users : users'[v].gen = users[v].gen
    BY <1>1, <1>2
  <1>6. ASSUME NEW w \in Workers
        PROVE  TokensApart(w)
    <2>1. wrk[w].op \in Op
      BY DEF Types, ActorsType, Job
    <2> QED BY <1>5, <2>1, ModelAssumption DEF TokensApart, Known, ActorsKnown, WorkerKnown, JobUser
  <1>7. \A id : SameTask(queue', queue, id)
    BY <1>1, QueueSameTask
  <1> QED BY <1>1, <1>4, <1>6, <1>7, EnvironmentKeepsKnown

\* Time takes nothing that is known from the actors and their tasks.
LEMMA TickKnown ==
    ASSUME Types, Types', SafetyInv, Known, Tick
    PROVE  Known'
  <1>1. /\ UNCHANGED <<users, spent, fresh>> /\ queue' = QueueTick(queue)
        /\ queue \in Queues /\ fresh \in Nat
    BY DEF Tick, Types, FilesType, OthersType
  <1>2. /\ \A t \in Threads : /\ req'[t].pc = req[t].pc /\ req'[t].op = req[t].op
                              /\ req'[t].new = req[t].new
        /\ \A w \in Workers : /\ wrk'[w].pc = wrk[w].pc /\ wrk'[w].op = wrk[w].op
                              /\ wrk'[w].previous = wrk[w].previous
                              /\ wrk'[w].target = wrk[w].target
    BY DEF Tick, Types, ActorsType, Request, Job
  <1>3. \A id : SameTask(queue', queue, id)
    BY <1>1, QueueSameTask
  <1> QED BY <1>1, <1>2, <1>3, NobodyAdvances, EnvironmentKeepsKnown

\* A death takes the actors and nothing they have written; a power loss that changes users.json
\* is the one after which the question is not asked.
LEMMA DeathKnown ==
    ASSUME Types, Known, ProcessDies, UNCHANGED <<users, queue, spent, fresh>>
    PROVE  Known'
  <1>1. /\ \A t \in Threads : req'[t].pc = "idle"
        /\ \A w \in Workers : wrk'[w].pc = "idle"
    BY DEF ProcessDies, IdleRequest, IdleJob
  <1>2. ActorsKnown'
    BY <1>1 DEF ActorsKnown, RequestKnown, WorkerKnown
  <1>3. TasksKnown'
    BY <1>1 DEF Known, TasksKnown, TaskKnown, EarlyKick, Acting
  <1> QED BY <1>2, <1>3 DEF Known

LEMMA EnvironmentKnown ==
    ASSUME Types, Types', SafetyInv, Known, AdministratorsOnly,
           Environment \/ Tick \/ PruneReceipts, ~undone'
    PROVE  Known'
  <1>1. ASSUME UNCHANGED <<users, queue, req, wrk, spent, fresh>>
        PROVE  Known'
    <2>1. \A id : SameTask(queue', queue, id)
      BY <1>1, QueueSameTask DEF Types, FilesType
    <2>2. fresh <= fresh'
      BY <1>1 DEF Types, OthersType
    <2> QED BY <1>1, <2>1, <2>2, NobodyAdvances, EnvironmentKeepsKnown
  <1>2. ASSUME NEW u \in Users, Authenticate(u)
        PROVE  Known'
    BY <1>1, <1>2 DEF Authenticate
  <1>3. ASSUME NEW a, Establish(a)
        PROVE  Known'
    BY <1>1, <1>3 DEF Establish
  <1>4. CASE Reconcile \/ PruneReceipts
    BY <1>1, <1>4 DEF Reconcile, PruneReceipts
  <1>5. CASE Crash
    BY <1>5, DeathKnown DEF Crash
  <1>6. CASE PowerLoss
    BY <1>6, DeathKnown DEF PowerLoss, Types, OthersType
  <1>7. ~(\E op \in SelfOps : RenderPanel(op))
    BY DEF AdministratorsOnly
  <1> QED BY <1>2, <1>3, <1>4, <1>5, <1>6, <1>7, CreateUserKnown, UpdateUserKnown, TickKnown
          DEF Environment

LEMMA StepKnown ==
    ASSUME Types, Types', SafetyInv, Known, AdministratorsOnly, [Next]_vars, ~undone'
    PROVE  Known'
  <1>1. CASE UNCHANGED vars
    <2>1. TasksKnown'
      BY <1>1 DEF vars, Known, TasksKnown, TaskKnown, EarlyKick
    <2>2. ASSUME NEW t \in Threads PROVE RequestKnown(t)'
      BY <1>1 DEF vars, Known, ActorsKnown, RequestKnown
    <2>3. ASSUME NEW w \in Workers PROVE WorkerKnown(w)'
      BY <1>1 DEF vars, Known, ActorsKnown, WorkerKnown, JobUser, Exists
    <2> QED BY <2>1, <2>2, <2>3 DEF Known, ActorsKnown
  <1>2. CASE Next
    BY <1>2, RequestStepKnown, WorkerStepKnown, EnvironmentKnown DEF Next
  <1> QED BY <1>1, <1>2

\* A power loss that has undone a change is remembered.
LEMMA UndoneForGood ==
    ASSUME Types, undone, [Next]_vars
    PROVE  undone'
  <1>1. ASSUME NEW t \in Threads, Begin(t) \/ RequestStep(t)
        PROVE  undone'
    BY <1>1 DEF Begin, SelfBegin, AdminBegin, RequestStep, LockTimedOut, Lock, PrepareFreshReceipt,
       RefreshReceipt, PrepareTask, CommitUsers, Conflict, DiscardReceipt, DiscardTask, SyncStatic,
       Purge, StaticEffects, RecordStaticRetry, KickUser, RecordKickAttempt, MintSession, BindReplacement
  <1>2. ASSUME NEW w \in Workers, WorkerStep(w)
        PROVE  undone'
    BY <1>2 DEF WorkerStep, WorkerLock, WorkerLockTimedOut, WorkerPurge, WorkerGiveUp, WorkerStatic,
       WorkerSync, WorkerKick, Claim, WorkerSave, WorkerPrevious, WorkerSuperseded, WorkerComplete
  <1>3. CASE PruneReceipts \/ Tick \/ Environment
    BY <1>3 DEF PruneReceipts, Tick, Environment, RenderPanel, CreateUser, UpdateUser, Authenticate,
       Establish, Reconcile, Crash, PowerLoss
  <1> QED BY <1>1, <1>2, <1>3 DEF Next, vars

LEMMA InitKnown ==
    ASSUME Init
    PROVE  Known
  BY DEF Init, Known, TasksKnown, ActorsKnown, RequestKnown, WorkerKnown, IdleRequest, IdleJob

LEMMA KnownAlways ==
    ASSUME AdministratorsOnly
    PROVE  Spec => [](Types /\ SafetyInv /\ (undone \/ Known))
  <1>1. Init => undone \/ Known
    BY InitKnown
  <1>2. /\ Types /\ SafetyInv /\ (undone \/ Known) /\ [Next]_vars /\ Types'
        => (undone \/ Known)'
    BY StepKnown, UndoneForGood
  <1> QED BY <1>1, <1>2, SafetyAlways, PTL DEF Spec

-----------------------------------------------------------------------------
(* What each step does to the kicks that are still to come.                  *)

\* An actor whose kick was accepted and has yet to be counted.
Kicked(actor) == actor.pc = "complete" /\ actor.kicked

\* A task that no attempt under way can end before another kick is accepted.
Pending(id) ==
    /\ queue[id].kicks <= 1
    /\ \A w \in Workers : Kicked(wrk[w]) => wrk[w].op # id
    /\ queue[id].kicks = 1 => \A t \in Threads : Kicked(req[t]) => req[t].op # id

KicksPend ==
    \A c \in conns : Revoked(c.user, c.gen) =>
        \E id \in DOMAIN queue : Covers(id, c.user) /\ Pending(id)

\* A credential that a step leaves revoked has a task of its own, or was revoked and its tasks stay.
LEMMA KicksGoOn ==
    ASSUME KicksPend,
           \A c \in conns' : Revoked(c.user, c.gen)' =>
             \/ \E id \in DOMAIN queue' : Covers(id, c.user)' /\ Pending(id)'
             \/ /\ c \in conns /\ Revoked(c.user, c.gen)
                /\ \A id \in DOMAIN queue : Covers(id, c.user) /\ Pending(id) =>
                     id \in DOMAIN queue' /\ Covers(id, c.user)' /\ Pending(id)'
    PROVE  KicksPend'
  BY DEF KicksPend

\* Whether a credential is revoked, and a task covers an account, is a matter of generations.
LEMMA OnlyGenerationsCount ==
    ASSUME NEW u, users'[u].gen = users[u].gen, ~undone, ~undone'
    PROVE  /\ \A g : Revoked(u, g)' <=> Revoked(u, g)
           /\ \A id : queue'[id].target = queue[id].target => (Covers(id, u)' <=> Covers(id, u))
  BY DEF Revoked, Exists, Covers, IsDelete, CredentialGeneration

\* Nobody newly has a kick to count.
NoNewKick ==
    /\ \A t \in Threads : Kicked(req[t])' => Kicked(req[t]) /\ req'[t].op = req[t].op
    /\ \A w \in Workers : Kicked(wrk[w])' => Kicked(wrk[w]) /\ wrk'[w].op = wrk[w].op

LEMMA PendingStays ==
    ASSUME NEW id, Pending(id), NoNewKick, queue'[id].kicks \in {queue[id].kicks, 0}
    PROVE  Pending(id)'
  <1>1. queue'[id].kicks <= 1 /\ (queue'[id].kicks = 1 => queue[id].kicks = 1)
    BY DEF Pending
  <1>2. ASSUME NEW w \in Workers, Kicked(wrk[w])' PROVE wrk'[w].op # id
    BY <1>2 DEF Pending, NoNewKick
  <1>3. ASSUME NEW t \in Threads, Kicked(req[t])', queue'[id].kicks = 1 PROVE req'[t].op # id
    BY <1>1, <1>3 DEF Pending, NoNewKick
  <1> QED BY <1>1, <1>2, <1>3 DEF Pending

\* A step that kicks nobody, counts no kick and leaves generations alone.
LEMMA QuietKicks ==
    ASSUME Types, KicksPend, NoNewKick, ~undone, ~undone', conns' \subseteq conns,
           \A u \in Users : users'[u].gen = users[u].gen,
           \A id \in DOMAIN queue : SameTask(queue', queue, id)
    PROVE  KicksPend'
  <1>1. ASSUME NEW c \in conns', Revoked(c.user, c.gen)'
        PROVE  /\ c \in conns /\ Revoked(c.user, c.gen)
               /\ \A id \in DOMAIN queue : Covers(id, c.user) /\ Pending(id) =>
                    id \in DOMAIN queue' /\ Covers(id, c.user)' /\ Pending(id)'
    <2>1. c \in conns /\ users'[c.user].gen = users[c.user].gen
      BY DEF Types, OthersType
    <2>2. Revoked(c.user, c.gen)
      BY <1>1, <2>1, OnlyGenerationsCount
    <2>3. ASSUME NEW id \in DOMAIN queue, Covers(id, c.user), Pending(id)
          PROVE  id \in DOMAIN queue' /\ Covers(id, c.user)' /\ Pending(id)'
      <3>1. id \in DOMAIN queue' /\ queue'[id].target = queue[id].target /\ queue'[id].kicks = queue[id].kicks
        BY <2>3 DEF SameTask
      <3> QED BY <2>1, <2>3, <3>1, OnlyGenerationsCount, PendingStays
    <2> QED BY <2>1, <2>2, <2>3
  <1> QED BY <1>1, KicksGoOn

\* An accepted kick leaves no connection of its account.
LEMMA AcceptedKick ==
    ASSUME Types, KicksPend, UNCHANGED <<users, queue>>, ~undone, ~undone', NEW u \in Users,
           conns' = {c \in conns : c.user # u},
           \A t \in Threads : Kicked(req[t])' =>
             UserOf[req'[t].op] = u \/ (Kicked(req[t]) /\ req'[t].op = req[t].op),
           \A w \in Workers : Kicked(wrk[w])' =>
             UserOf[wrk'[w].op] = u \/ (Kicked(wrk[w]) /\ wrk'[w].op = wrk[w].op)
    PROVE  KicksPend'
  <1>1. ASSUME NEW c \in conns', Revoked(c.user, c.gen)'
        PROVE  /\ c \in conns /\ Revoked(c.user, c.gen)
               /\ \A id \in DOMAIN queue : Covers(id, c.user) /\ Pending(id) =>
                    id \in DOMAIN queue' /\ Covers(id, c.user)' /\ Pending(id)'
    <2>1. c \in conns /\ c.user # u
      OBVIOUS
    <2>2. Revoked(c.user, c.gen)
      BY <1>1, OnlyGenerationsCount
    <2>3. ASSUME NEW id \in DOMAIN queue, Covers(id, c.user), Pending(id)
          PROVE  id \in DOMAIN queue' /\ Covers(id, c.user)' /\ Pending(id)'
      <3>1. UserOf[id] # u
        BY <2>1, <2>3 DEF Covers
      <3>2. Covers(id, c.user)'
        BY <2>3, OnlyGenerationsCount
      <3>3. Pending(id)'
        BY <2>3, <3>1 DEF Pending
      <3> QED BY <3>2, <3>3
    <2> QED BY <2>1, <2>2, <2>3
  <1> QED BY <1>1, KicksGoOn

\* A step after which the task of op, if pending before, is still there and pending.
LEMMA CountedKick ==
    ASSUME Types, KicksPend, UNCHANGED <<users, conns>>, ~undone, ~undone', NoNewKick, NEW op,
           SameTasks(queue', queue), \A id : id # op => SameTask(queue', queue, id),
           op \in DOMAIN queue /\ (\E u \in Users : Covers(op, u)) /\ Pending(op) =>
             op \in DOMAIN queue' /\ Pending(op)'
    PROVE  KicksPend'
  <1>1. ASSUME NEW c \in conns', Revoked(c.user, c.gen)'
        PROVE  /\ c \in conns /\ Revoked(c.user, c.gen)
               /\ \A id \in DOMAIN queue : Covers(id, c.user) /\ Pending(id) =>
                    id \in DOMAIN queue' /\ Covers(id, c.user)' /\ Pending(id)'
    <2>1. c \in conns /\ c.user \in Users
      BY DEF Types, OthersType
    <2>2. Revoked(c.user, c.gen)
      BY <1>1, OnlyGenerationsCount
    <2>3. ASSUME NEW id \in DOMAIN queue, Covers(id, c.user), Pending(id)
          PROVE  id \in DOMAIN queue' /\ Covers(id, c.user)' /\ Pending(id)'
      <3>1. id \in DOMAIN queue' /\ Pending(id)'
        <4>1. CASE id = op
          BY <2>1, <2>3, <4>1
        <4>2. CASE id # op
          BY <2>3, <4>2, PendingStays DEF SameTask
        <4> QED BY <4>1, <4>2
      <3>2. queue'[id].target = queue[id].target
        BY <3>1 DEF SameTasks
      <3> QED BY <2>3, <3>1, <3>2, OnlyGenerationsCount
    <2> QED BY <2>1, <2>2, <2>3
  <1> QED BY <1>1, KicksGoOn

\* A step that gives one account another generation: a pending task of that account is there.
LEMMA NewGeneration ==
    ASSUME Types, KicksPend, UNCHANGED <<queue, conns>>, ~undone, ~undone', NoNewKick, NEW u \in Users,
           \A v \in Users \ {u} : users'[v] = users[v],
           NEW op \in DOMAIN queue, Covers(op, u)', Pending(op)
    PROVE  KicksPend'
  <1>1. Pending(op)'
    BY PendingStays
  <1>2. ASSUME NEW c \in conns', Revoked(c.user, c.gen)', c.user # u
        PROVE  /\ c \in conns /\ Revoked(c.user, c.gen)
               /\ \A id \in DOMAIN queue : Covers(id, c.user) /\ Pending(id) =>
                    id \in DOMAIN queue' /\ Covers(id, c.user)' /\ Pending(id)'
    <2>1. c \in conns /\ users'[c.user] = users[c.user]
      BY <1>2 DEF Types, OthersType
    <2> QED BY <1>2, <2>1, OnlyGenerationsCount, PendingStays
  <1>3. ASSUME NEW c \in conns', c.user = u
        PROVE  \E id \in DOMAIN queue' : Covers(id, c.user)' /\ Pending(id)'
    BY <1>1, <1>3
  <1> QED BY <1>2, <1>3, KicksGoOn

-----------------------------------------------------------------------------
(* The steps.                                                                *)

\* The steps of requests that kick nobody and leave accounts and counts alone.
LEMMA BeginPend ==
    ASSUME Types, KicksPend, ~undone, ~undone', AdministratorsOnly, NEW t \in Threads, Begin(t)
    PROVE  KicksPend'
  <1>1. PICK op \in Op : AdminBegin(t, op)
    BY DEF Begin, AdministratorsOnly, Op
  <1>2. UNCHANGED <<users, queue, conns, wrk>> /\ req \in [Threads -> Request] /\ queue \in Queues
    BY <1>1 DEF AdminBegin, Types, ActorsType, FilesType
  <1>3. NoNewKick
    BY <1>1, <1>2 DEF AdminBegin, NoNewKick, Kicked, IdleRequest
  <1> QED BY <1>2, <1>3, QuietKicks, QueueSameTask

LEMMA LockPend ==
    ASSUME Types, KicksPend, ~undone, ~undone', NEW t \in Threads, Lock(t)
    PROVE  KicksPend'
  <1>1. UNCHANGED <<users, queue, conns, wrk>> /\ req \in [Threads -> Request] /\ queue \in Queues
        /\ req[t].pc = "lock"
    BY DEF Lock, Types, ActorsType, FilesType
  <1>2. \A other \in Threads \ {t} : req'[other] = req[other]
    BY <1>1 DEF Lock, Finish
  <1>3. req'[t].pc # "complete"
    BY <1>1 DEF Lock, Finish, IdleRequest, Request
  <1> QED BY <1>1, <1>2, <1>3, QuietKicks, QueueSameTask DEF NoNewKick, Kicked

LEMMA EffectStepPend ==
    ASSUME Types, KicksPend, ~undone, ~undone', NEW t \in Threads, EffectStep(t)
    PROVE  KicksPend'
  <1>1. UNCHANGED <<users, wrk>> /\ req \in [Threads -> Request] /\ req[t] \in Request /\ queue \in Queues
        /\ users \in [Users -> Account]
    BY DEF EffectStep, LockTimedOut, SyncStatic, Purge, StaticEffects, RecordStaticRetry, KickUser,
       Types, ActorsType, FilesType
  <1>2. \A other \in Threads \ {t} : req'[other] = req[other]
    BY <1>1 DEF EffectStep, LockTimedOut, SyncStatic, Purge, StaticEffects, RecordStaticRetry, KickUser,
       Finish, Goto
  <1>3. CASE KickUser(t)
    <2>1. PICK u \in Users : u = UserOf[req[t].op]
      BY <1>1, ModelAssumption DEF Request
    <2>2. UNCHANGED queue
      BY <1>3 DEF KickUser
    <2>3. CASE conns' = {c \in conns : c.user # u}
      <3>1. req'[t].op = req[t].op
        BY <1>1, <1>3 DEF KickUser, Request
      <3> QED BY <1>1, <1>2, <2>1, <2>2, <2>3, <3>1, AcceptedKick
    <2>4. CASE conns' # {c \in conns : c.user # u}
      <3>1. conns' = conns /\ ~req'[t].kicked
        BY <1>1, <1>3, <2>1, <2>4 DEF KickUser, Kick, Request
      <3> QED BY <1>1, <1>2, <2>2, <3>1, QuietKicks, QueueSameTask DEF NoNewKick, Kicked
    <2> QED BY <2>3, <2>4
  <1>4. CASE ~KickUser(t)
    <2>1. req'[t].pc # "complete"
      <3>1. CASE LockTimedOut(t) \/ Purge(t)
        BY <1>1, <3>1 DEF LockTimedOut, Purge, Finish, Goto, IdleRequest, Request
      <3>2. CASE SyncStatic(t)
        BY <1>1, <3>2 DEF SyncStatic, Request
      <3>3. CASE StaticEffects(t)
        BY <1>1, <3>3 DEF StaticEffects, Request
      <3>4. CASE RecordStaticRetry(t)
        BY <1>1, <3>4 DEF RecordStaticRetry, Request
      <3> QED BY <1>4, <3>1, <3>2, <3>3, <3>4 DEF EffectStep
    <2>2. UNCHANGED conns
      BY <1>4 DEF EffectStep, LockTimedOut, SyncStatic, Purge, StaticEffects, RecordStaticRetry
    <2>3. NoNewKick
      BY <1>1, <1>2, <2>1 DEF NoNewKick, Kicked
    <2>4. CASE UNCHANGED queue
      BY <1>1, <2>2, <2>3, <2>4, QuietKicks, QueueSameTask
    <2>5. CASE RecordStaticRetry(t)
      <3>1. req[t].retry \in SUBSET Services
        BY <1>1 DEF Request
      <3>2. queue' \in {queue, WithStaticServices(queue, req[t].op, req[t].retry)}
        BY <2>5 DEF RecordStaticRetry, SaveQueue, Visible
      <3>3. /\ \A id : SameTask(queue, queue, id)
            /\ \A id : SameTask(WithStaticServices(queue, req[t].op, req[t].retry), queue, id)
        BY <1>1, <3>1, QueueSameTask
      <3>4. \A id : SameTask(queue', queue, id)
        BY <3>2, <3>3
      <3> QED BY <1>1, <2>2, <2>3, <3>4, QuietKicks
    <2> QED BY <1>4, <2>4, <2>5 DEF EffectStep, LockTimedOut, SyncStatic, Purge, StaticEffects
  <1> QED BY <1>3, <1>4

LEMMA PrepareTaskPend ==
    ASSUME Types, KicksPend, Known, ~undone, ~undone', AdministratorsOnly, NEW t \in Threads, PrepareTask(t)
    PROVE  KicksPend'
  <1>1. UNCHANGED <<users, wrk, conns>> /\ req \in [Threads -> Request] /\ req[t] \in Request
        /\ queue \in Queues /\ req[t].op \notin DOMAIN queue
    BY DEF PrepareTask, Types, ActorsType, FilesType, Known, ActorsKnown, RequestKnown
  <1>2. /\ \A other \in Threads \ {t} : req'[other] = req[other]
        /\ req'[t].pc # "complete"
    BY <1>1 DEF PrepareTask, Abort, Finish, IdleRequest, Request
  <1>3. \E previous, target : queue' \in {queue, Prepared(queue, req[t].op, previous, target)}
    BY DEF PrepareTask, SaveQueue, Visible
  <1>4. \A id \in DOMAIN queue : SameTask(queue', queue, id)
    BY <1>1, <1>3, QueueSameTask
  <1> QED BY <1>1, <1>2, <1>4, QuietKicks DEF NoNewKick, Kicked

\* The change of an account comes with the task that its request prepared.
LEMMA CommitPend ==
    ASSUME Types, SafetyInv, KicksPend, Known, ~undone, ~undone', AdministratorsOnly,
           NEW t \in Threads, CommitUsers(t)
    PROVE  KicksPend'
  <1> DEFINE new == [users EXCEPT ![UserOf[req[t].op]] = Changed(t)]
  <1>1. /\ UNCHANGED <<queue, wrk, conns>> /\ req[t].pc = "commit"
        /\ req[t] \in Request /\ req \in [Threads -> Request] /\ queue \in Queues
        /\ users \in [Users -> Account] /\ RequestKnown(t)
    BY DEF CommitUsers, Types, ActorsType, FilesType, Known, ActorsKnown
  <1>2. PICK op \in Op : op = req[t].op /\ UserOf[op] \in Users /\ (op \in DeleteOps <=> op \notin AdminOps)
    BY <1>1, TwoKinds, ModelAssumption DEF Request
  <1>3. /\ \A other \in Threads \ {t} : req'[other] = req[other]
        /\ req'[t].pc # "complete"
    BY <1>1 DEF CommitUsers, Abort, Finish, IdleRequest, Request
  <1>4. NoNewKick
    BY <1>1, <1>3 DEF NoNewKick, Kicked
  <1>5. /\ \A u \in Users \ {UserOf[op]} : new[u] = users[u]
        /\ op \in AdminOps => new[UserOf[op]].gen = req[t].new
    BY <1>1, <1>2 DEF Changed, Account
  <1>6. users' = users \/ users' = new
    BY DEF CommitUsers, SaveUsers, Visible
  <1> HIDE DEF new
  <1>7. CASE users' = users
    BY <1>1, <1>4, <1>7, QuietKicks, QueueSameTask
  <1>8. CASE users' = new
    <2>1. op \in DOMAIN queue /\ queue[op].kicks = 0
      BY <1>1, <1>2 DEF RequestKnown
    <2>2. Pending(op)
      BY <1>1, <1>2, <2>1 DEF RequestKnown, Pending, Kicked
    <2>3. Covers(op, UserOf[op])'
      <3>1. CASE op \in DeleteOps
        BY <1>1, <2>1, <3>1 DEF Covers, IsDelete, Known, TasksKnown, TaskKnown
      <3>2. CASE op \in AdminOps
        <4>1. queue[op].target = TokenGeneration(req[t].new)
          BY <1>1, <1>2, <3>2 DEF RequestKnown
        <4> QED BY <1>1, <1>5, <1>8, <3>2, <4>1 DEF Covers, TokenGeneration, CredentialGeneration
      <3> QED BY <1>2, <3>1, <3>2
    <2> QED BY <1>1, <1>2, <1>4, <1>5, <1>8, <2>1, <2>2, <2>3, NewGeneration
  <1> QED BY <1>6, <1>7, <1>8

\* A request is the only one that can turn the first kick of its task into the count.
LEMMA RecordKickPend ==
    ASSUME Types, KicksPend, Known, ~undone, ~undone', AdministratorsOnly,
           NEW t \in Threads, RecordKickAttempt(t)
    PROVE  KicksPend'
  <1>1. UNCHANGED <<users, wrk, conns>> /\ req[t].pc = "complete"
        /\ req[t] \in Request /\ req \in [Threads -> Request] /\ queue \in Queues
    BY DEF RecordKickAttempt, Types, ActorsType, FilesType
  <1>2. req'[t].pc = "idle" /\ \A other \in Threads \ {t} : req'[other] = req[other]
    BY <1>1 DEF RecordKickAttempt, Finish, IdleRequest, AdministratorsOnly
  <1>3. PICK op \in Op : op = req[t].op
    BY <1>1 DEF Request
  <1> DEFINE counted == AttemptRecorded(queue, op, req[t].kicked, req[t].done)
  <1>4. /\ req[t].kicked \in BOOLEAN /\ req[t].done \in SUBSET Services
        /\ queue' \in {queue, counted}
    BY <1>1, <1>3 DEF RecordKickAttempt, SaveQueue, Visible, Request
  <1>5. /\ \A i : i # op => SameTask(counted, queue, i)
        /\ op \in DOMAIN counted => op \in DOMAIN queue /\ counted[op].kicks = KickCount(queue[op], req[t].kicked)
        /\ op \in DOMAIN queue /\ op \notin DOMAIN counted => req[t].kicked /\ queue[op].kicks # 0
    BY <1>1, <1>4, AttemptCounts
  <1>6. SameTasks(counted, queue) /\ SameTasks(queue, queue) /\ \A i : SameTask(queue, queue, i)
    BY <1>1, <1>4, AttemptKeepsTasks, QueueKeepsTasks, QueueSameTask
  <1> HIDE DEF counted
  <1>7. /\ SameTasks(queue', queue)
        /\ \A i : i # op => SameTask(queue', queue, i)
    BY <1>4, <1>5, <1>6
  <1>8. NoNewKick
    BY <1>1, <1>2 DEF NoNewKick, Kicked
  <1>9. ASSUME op \in DOMAIN queue, Pending(op)
        PROVE  op \in DOMAIN queue' /\ Pending(op)'
    <2>1. queue[op].kicks \in 0 .. 1
      BY <1>1, <1>9, QueueMember DEF Pending, Task
    <2>2. req[t].kicked => queue[op].kicks = 0
      BY <1>1, <1>3, <1>9, <2>1 DEF Pending, Kicked
    <2>3. op \in DOMAIN queue'
      BY <1>4, <1>5, <1>9, <2>2
    <2>4. queue'[op].kicks \in {queue[op].kicks, 0, 1}
      BY <1>4, <1>5, <2>2, <2>3 DEF KickCount
    <2>5. \A r \in Threads : Kicked(req[r])' => req'[r].op # op
      BY <1>1, <1>2, <1>3 DEF Known, ActorsKnown, RequestKnown, Kicked
    <2>6. \A w \in Workers : Kicked(wrk[w])' => wrk'[w].op # op
      BY <1>1, <1>9 DEF Pending
    <2> QED BY <2>1, <2>3, <2>4, <2>5, <2>6 DEF Pending
  <1> QED BY <1>1, <1>7, <1>8, <1>9, CountedKick

LEMMA RequestStepPend ==
    ASSUME Types, SafetyInv, KicksPend, Known, ~undone, ~undone', AdministratorsOnly,
           NEW t \in Threads, Begin(t) \/ RequestStep(t)
    PROVE  KicksPend'
  BY BeginPend, NoSelfService, LockPend, PrepareTaskPend, CommitPend, EffectStepPend, RecordKickPend
     DEF RequestStep, EffectStep

LEMMA WorkerStaticShape ==
    ASSUME wrk \in [Workers -> Job], NEW w \in Workers, WorkerStatic(w)
    PROVE  wrk'[w].pc = "kick" /\ \A other \in Workers \ {w} : wrk'[other] = wrk[other]
  <1>1. wrk[w] \in Job
    OBVIOUS
  <1> QED BY <1>1 DEF WorkerStatic, Job

\* A worker that neither deletes, nor kicks, nor counts, nor drops its task.
LEMMA IdleWorkPend ==
    ASSUME Types, KicksPend, ~undone, ~undone', NEW w \in Workers,
           \/ \E id \in Op, outcome \in Outcomes : Claim(w, id, outcome)
           \/ WorkerLock(w) \/ WorkerLockTimedOut(w) \/ WorkerPurge(w) \/ WorkerGiveUp(w)
           \/ WorkerStatic(w) \/ (\E synced \in SUBSET Services : WorkerSync(w, synced))
    PROVE  KicksPend'
  <1>1. UNCHANGED <<users, req, conns>> /\ wrk \in [Workers -> Job] /\ wrk[w] \in Job /\ queue \in Queues
    BY DEF Claim, WorkerLock, WorkerLockTimedOut, WorkerPurge, WorkerGiveUp, WorkerStatic, WorkerSync,
       Types, ActorsType, FilesType
  <1>2. \A i : SameTask(queue, queue, i)
    BY <1>1, QueueSameTask
  <1>3. ASSUME \A other \in Workers \ {w} : wrk'[other] = wrk[other], wrk'[w].pc # "complete" \/ wrk' = wrk,
               \A i : SameTask(queue', queue, i)
        PROVE  KicksPend'
    BY <1>1, <1>3, QuietKicks DEF NoNewKick, Kicked
  <1>4. ASSUME NEW id \in Op, NEW outcome, Claim(w, id, outcome)
        PROVE  KicksPend'
    <2>1. id \in DOMAIN queue /\ queue' \in {queue, Claimed(queue, id)}
      BY <1>4 DEF Claim, Due, SaveQueue, Visible
    <2>2. \A i : SameTask(queue', queue, i)
      BY <1>1, <1>2, <2>1, QueueSameTask
    <2> QED BY <1>1, <1>3, <1>4, <2>2 DEF Claim, ClaimedJob, IdleJob
  <1>5. CASE WorkerLock(w)
    BY <1>1, <1>2, <1>3, <1>5 DEF WorkerLock, WDecide, WGoto, Job
  <1>6. CASE WorkerLockTimedOut(w)
    BY <1>1, <1>2, <1>3, <1>6 DEF WorkerLockTimedOut, WGoto, Job
  <1>7. CASE WorkerPurge(w)
    BY <1>1, <1>2, <1>3, <1>7 DEF WorkerPurge, WGoto, Job
  <1>8. CASE WorkerGiveUp(w)
    <2>1. queue' \in {queue, Released(queue, wrk[w].op)}
      BY <1>8 DEF WorkerGiveUp, SaveQueue, Visible
    <2>2. \A i : SameTask(queue', queue, i)
      BY <1>1, <1>2, <2>1, QueueSameTask
    <2> QED BY <1>1, <1>3, <1>8, <2>2 DEF WorkerGiveUp, WFinish, IdleJob
  <1>9. CASE WorkerStatic(w)
    <2>1. wrk'[w].pc = "kick" /\ \A other \in Workers \ {w} : wrk'[other] = wrk[other]
      BY <1>1, <1>9, WorkerStaticShape
    <2>2. UNCHANGED queue
      BY <1>9 DEF WorkerStatic
    <2> QED BY <1>2, <1>3, <2>1, <2>2
  <1>10. ASSUME NEW synced, WorkerSync(w, synced)
         PROVE  KicksPend'
    <2>1. wrk'[w].pc = "static" /\ \A other \in Workers \ {w} : wrk'[other] = wrk[other]
      BY <1>1, <1>10 DEF WorkerSync, Job
    <2>2. UNCHANGED queue
      BY <1>10 DEF WorkerSync
    <2> QED BY <1>2, <1>3, <2>1, <2>2
  <1> QED BY <1>4, <1>5, <1>6, <1>7, <1>8, <1>9, <1>10

LEMMA WorkerKickPend ==
    ASSUME Types, KicksPend, ~undone, ~undone', NEW w \in Workers, NEW ok \in BOOLEAN, WorkerKick(w, ok)
    PROVE  KicksPend'
  <1>1. UNCHANGED <<users, queue, req>> /\ wrk \in [Workers -> Job] /\ wrk[w] \in Job /\ queue \in Queues
    BY DEF WorkerKick, Types, ActorsType, FilesType
  <1>2. /\ \A other \in Workers \ {w} : wrk'[other] = wrk[other]
        /\ wrk'[w].op = wrk[w].op /\ wrk'[w].kicked = ok
    BY <1>1 DEF WorkerKick, Job
  <1>3. PICK u \in Users : u = UserOf[wrk[w].op]
    BY <1>1, ModelAssumption DEF Job
  <1>4. conns' = IF ok THEN {c \in conns : c.user # u} ELSE conns
    BY <1>3 DEF WorkerKick, Kick, JobUser
  <1>5. CASE ok
    BY <1>1, <1>2, <1>3, <1>4, <1>5, AcceptedKick
  <1>6. CASE ~ok
    BY <1>1, <1>2, <1>4, <1>6, QuietKicks, QueueSameTask DEF NoNewKick, Kicked
  <1> QED BY <1>5, <1>6

\* A pending task has not been kicked for by its worker, so the attempt starts the count again.
LEMMA WorkerCompletePend ==
    ASSUME Types, KicksPend, ~undone, ~undone', NEW w \in Workers, NEW outcome, WorkerComplete(w, outcome)
    PROVE  KicksPend'
  <1>1. UNCHANGED <<users, req, conns>> /\ wrk[w].pc = "complete"
        /\ wrk[w] \in Job /\ wrk \in [Workers -> Job] /\ queue \in Queues
    BY DEF WorkerComplete, Types, ActorsType, FilesType
  <1>2. wrk'[w].pc = "idle" /\ \A other \in Workers \ {w} : wrk'[other] = wrk[other]
    BY <1>1 DEF WorkerComplete, WFinish, IdleJob
  <1>3. PICK op \in Op : op = wrk[w].op
    BY <1>1 DEF Job
  <1> DEFINE counted == AttemptRecorded(queue, op, wrk[w].kicked, wrk[w].done)
  <1>4. /\ wrk[w].kicked \in BOOLEAN /\ wrk[w].done \in SUBSET Services
        /\ queue' \in {queue, counted}
    BY <1>1, <1>3 DEF WorkerComplete, SaveQueue, Visible, Job
  <1>5. /\ \A i : i # op => SameTask(counted, queue, i)
        /\ op \in DOMAIN counted => op \in DOMAIN queue /\ counted[op].kicks = KickCount(queue[op], wrk[w].kicked)
        /\ op \in DOMAIN queue /\ op \notin DOMAIN counted => wrk[w].kicked
    BY <1>1, <1>4, AttemptCounts
  <1>6. SameTasks(counted, queue) /\ SameTasks(queue, queue) /\ \A i : SameTask(queue, queue, i)
    BY <1>1, <1>4, AttemptKeepsTasks, QueueKeepsTasks, QueueSameTask
  <1> HIDE DEF counted
  <1>7. /\ SameTasks(queue', queue)
        /\ \A i : i # op => SameTask(queue', queue, i)
    BY <1>4, <1>5, <1>6
  <1>8. NoNewKick
    BY <1>1, <1>2 DEF NoNewKick, Kicked
  <1>9. ASSUME op \in DOMAIN queue, Pending(op)
        PROVE  op \in DOMAIN queue' /\ Pending(op)'
    <2>1. ~wrk[w].kicked
      BY <1>1, <1>3, <1>9 DEF Pending, Kicked
    <2>2. op \in DOMAIN queue'
      BY <1>4, <1>5, <1>9, <2>1
    <2>3. queue'[op].kicks \in {queue[op].kicks, 0}
      BY <1>4, <1>5, <2>1, <2>2 DEF KickCount
    <2> QED BY <1>8, <1>9, <2>2, <2>3, PendingStays
  <1> QED BY <1>1, <1>7, <1>8, <1>9, CountedKick

\* The task that a worker withdraws is a rotation's, and not to the account's token.
LEMMA WithdrawPend ==
    ASSUME Types, KicksPend, Known, ~undone, ~undone', NEW w \in Workers, NEW outcome,
           WorkerPrevious(w, outcome) \/ WorkerSuperseded(w, outcome)
    PROVE  KicksPend'
  <1>1. UNCHANGED <<users, req, conns>> /\ wrk[w].pc \in {"previous", "superseded"}
        /\ wrk \in [Workers -> Job] /\ queue \in Queues /\ WorkerKnown(w)
    BY DEF WorkerPrevious, WorkerSuperseded, Types, ActorsType, FilesType, Known, ActorsKnown
  <1>2. wrk'[w].pc = "idle" /\ \A other \in Workers \ {w} : wrk'[other] = wrk[other]
    BY <1>1 DEF WorkerPrevious, WorkerSuperseded, WFinish, IdleJob
  <1>3. PICK op \in AdminOps : op = wrk[w].op
    BY <1>1 DEF WorkerKnown
  <1>4. queue' \in {queue, Drop(queue, op), Released(queue, op)}
    BY <1>3 DEF WorkerPrevious, WorkerSuperseded, SaveQueue, Visible
  <1>5. SameTasks(queue', queue) /\ \A i : i # op => SameTask(queue', queue, i)
    BY <1>1, <1>4, QueueKeepsTasks, QueueSameTask
  <1>6. ASSUME op \in DOMAIN queue, NEW u \in Users, Covers(op, u)
        PROVE  FALSE
    <2>1. queue[op].target.rev = 0 /\ queue[op].target.gen # users[UserOf[op]].gen
      BY <1>1, <1>3, <1>6 DEF WorkerKnown, Known, TasksKnown, TaskKnown, JobUser
    <2> QED BY <1>6, <2>1 DEF Covers, IsDelete, DeleteTarget, CredentialGeneration
  <1>7. NoNewKick
    BY <1>1, <1>2 DEF NoNewKick, Kicked
  <1> QED BY <1>1, <1>5, <1>6, <1>7, CountedKick

\* What a worker deletes is what its task says, and nobody has kicked twice for it.
LEMMA WorkerSavePend ==
    ASSUME Types, KicksPend, Known, ~undone, ~undone', NEW w \in Workers, NEW outcome,
           WorkerSave(w, outcome)
    PROVE  KicksPend'
  <1> DEFINE without == [users EXCEPT ![JobUser(w)] = NoAccount]
  <1>1. /\ UNCHANGED <<queue, req, conns>> /\ wrk[w].pc = "save"
        /\ wrk[w] \in Job /\ wrk \in [Workers -> Job] /\ queue \in Queues /\ WorkerKnown(w)
        /\ users \in [Users -> Account]
    BY DEF WorkerSave, Types, ActorsType, FilesType, Known, ActorsKnown
  <1>2. PICK op \in DeleteOps : /\ op = wrk[w].op /\ UserOf[op] \in Users /\ JobUser(w) = UserOf[op]
    BY <1>1, ModelAssumption DEF JobUser, WorkerKnown, Op
  <1>3. /\ \A other \in Workers \ {w} : wrk'[other] = wrk[other]
        /\ wrk'[w].pc # "complete"
    BY <1>1 DEF WorkerSave, WGoto, Job
  <1>4. users' = users \/ users' = without
    BY DEF WorkerSave, SaveUsers, Visible
  <1>5. without[UserOf[op]].gen = 0 /\ \A u \in Users \ {UserOf[op]} : without[u] = users[u]
    BY <1>1, <1>2 DEF NoAccount
  <1> HIDE DEF without
  <1>6. NoNewKick
    BY <1>1, <1>3 DEF NoNewKick, Kicked
  <1>7. CASE users' = without /\ users[UserOf[op]].gen # 0
    <2>1. op \in DOMAIN queue /\ queue[op].previous = users[UserOf[op]]
      BY <1>1, <1>2, <1>7 DEF WorkerKnown, Exists
    <2>2. EarlyKick(op) /\ TaskKnown(op) /\ queue[op].kicks \in 0 .. 2
      BY <1>1, <2>1, QueueMember DEF Known, TasksKnown, Task
    <2>3. Pending(op)
      BY <1>2, <2>1, <2>2 DEF EarlyKick, Pending, Kicked, Acting
    <2>4. Covers(op, UserOf[op])'
      BY <1>1, <1>2, <2>2 DEF TaskKnown, Covers, IsDelete
    <2> QED BY <1>1, <1>2, <1>5, <1>6, <1>7, <2>1, <2>3, <2>4, NewGeneration
  <1>8. CASE users' = users \/ users[UserOf[op]].gen = 0
    <2>1. \A u \in Users : users'[u].gen = users[u].gen
      BY <1>4, <1>5, <1>8
    <2> QED BY <1>1, <1>6, <2>1, QuietKicks, QueueSameTask
  <1> QED BY <1>4, <1>7, <1>8

LEMMA WorkerStepPend ==
    ASSUME Types, KicksPend, Known, ~undone, ~undone', NEW w \in Workers, WorkerStep(w)
    PROVE  KicksPend'
  BY IdleWorkPend, WorkerKickPend, WorkerCompletePend, WithdrawPend, WorkerSavePend DEF WorkerStep

\* Every credential of an absent account was revoked, and only deletions cover it.
LEMMA CreateUserPend ==
    ASSUME Types, KicksPend, Known, ~undone, ~undone', AdministratorsOnly, NEW u \in Users, CreateUser(u)
    PROVE  KicksPend'
  <1>1. /\ UNCHANGED <<queue, req, wrk, conns>> /\ users[u].gen = 0 /\ queue \in Queues
        /\ users \in [Users -> Account]
    BY DEF CreateUser, Types, FilesType, Exists
  <1>2. \A v \in Users \ {u} : users'[v] = users[v]
    BY <1>1 DEF CreateUser, SaveUsers, Visible
  <1>3. NoNewKick
    BY <1>1 DEF NoNewKick, Kicked
  <1>4. ASSUME NEW c \in conns', Revoked(c.user, c.gen)'
        PROVE  /\ c \in conns /\ Revoked(c.user, c.gen)
               /\ \A id \in DOMAIN queue : Covers(id, c.user) /\ Pending(id) =>
                    id \in DOMAIN queue' /\ Covers(id, c.user)' /\ Pending(id)'
    <2>1. c \in conns /\ c.user \in Users
      BY <1>1 DEF Types, OthersType
    <2>2. CASE c.user = u
      <3>1. Revoked(c.user, c.gen)
        BY <1>1, <1>4, <2>2 DEF Revoked, Exists
      <3>2. ASSUME NEW id \in DOMAIN queue, Covers(id, u)
            PROVE  IsDelete(queue[id])
        <4>1. id \in Op /\ TaskKnown(id) /\ (id \in DeleteOps <=> id \notin AdminOps)
          BY <1>1, QueueMember, TwoKinds DEF Known, TasksKnown
        <4> QED BY <1>1, <3>2, <4>1 DEF Covers, TaskKnown, IsDelete, CredentialGeneration
      <3>3. \A id \in DOMAIN queue : Covers(id, u) /\ Pending(id) => Covers(id, u)' /\ Pending(id)'
        BY <1>1, <1>3, <3>2, PendingStays DEF Covers, IsDelete
      <3> QED BY <1>1, <2>1, <2>2, <3>1, <3>3
    <2>3. CASE c.user # u
      BY <1>1, <1>2, <1>3, <1>4, <2>1, <2>3, OnlyGenerationsCount, PendingStays
    <2> QED BY <2>2, <2>3
  <1> QED BY <1>4, KicksGoOn

\* A client that is answered with the current credential is not one to be kicked.
LEMMA AuthenticatePend ==
    ASSUME Types, KicksPend, ~undone, ~undone', AnsweredAtOnce, NEW u \in Users, Authenticate(u)
    PROVE  KicksPend'
  <1>1. /\ UNCHANGED <<users, queue, req, wrk>> /\ users[u] \in Account
        /\ conns' = conns \cup {[user |-> u, gen |-> users[u].gen]}
    BY DEF Authenticate, AnsweredAtOnce, Types, FilesType
  <1>2. ASSUME NEW c \in conns', Revoked(c.user, c.gen)'
        PROVE  c \in conns /\ Revoked(c.user, c.gen)
    BY <1>1, <1>2 DEF Revoked, Exists, Account
  <1>3. NoNewKick
    BY <1>1 DEF NoNewKick, Kicked
  <1>4. \A c \in conns', id \in DOMAIN queue : Covers(id, c.user) /\ Pending(id) =>
          id \in DOMAIN queue' /\ Covers(id, c.user)' /\ Pending(id)'
    BY <1>1, <1>3, PendingStays, OnlyGenerationsCount
  <1> QED BY <1>2, <1>4, KicksGoOn

LEMMA EnvironmentPend ==
    ASSUME Types, KicksPend, Known, ~undone, ~undone', AdministratorsOnly, AnsweredAtOnce, approved = {},
           Environment \/ Tick \/ PruneReceipts
    PROVE  KicksPend'
  <1>1. queue \in Queues /\ users \in [Users -> Account]
    BY DEF Types, FilesType
  <1>2. ASSUME NEW u \in Users, UpdateUser(u)
        PROVE  KicksPend'
    <2>1. UNCHANGED <<queue, req, wrk, conns>> /\ users' \in {users, [users EXCEPT ![u].rev = @ + 1]}
      BY <1>2 DEF UpdateUser, SaveUsers, Visible
    <2>2. \A v \in Users : users'[v].gen = users[v].gen
      BY <1>1, <2>1 DEF Account
    <2> QED BY <1>1, <2>1, <2>2, QuietKicks, QueueSameTask DEF NoNewKick, Kicked
  <1>3. CASE Reconcile \/ PruneReceipts
    BY <1>1, <1>3, QuietKicks, QueueSameTask DEF NoNewKick, Kicked, Reconcile, PruneReceipts
  <1>4. CASE Tick
    <2>1. /\ UNCHANGED <<users, conns>> /\ queue' = QueueTick(queue)
          /\ \A t \in Threads : req'[t].pc = req[t].pc /\ req'[t].op = req[t].op
                                /\ req'[t].kicked = req[t].kicked
          /\ \A w \in Workers : wrk'[w].pc = wrk[w].pc /\ wrk'[w].op = wrk[w].op
                                /\ wrk'[w].kicked = wrk[w].kicked
      BY <1>4 DEF Tick, Types, ActorsType, Request, Job
    <2> QED BY <1>1, <2>1, QuietKicks, QueueSameTask DEF NoNewKick, Kicked
  <1>5. CASE Crash
    BY <1>1, <1>5, QuietKicks, QueueSameTask DEF NoNewKick, Kicked, Crash, ProcessDies, IdleRequest, IdleJob
  <1>6. CASE PowerLoss
    BY <1>6 DEF PowerLoss, KicksPend
  <1>7. ~(\E op \in SelfOps : RenderPanel(op)) /\ ~(\E a \in approved : Establish(a))
    BY DEF AdministratorsOnly
  <1> QED BY <1>2, <1>3, <1>4, <1>5, <1>6, <1>7, CreateUserPend, AuthenticatePend DEF Environment

\* Nobody waits between the answer and the connection.
LEMMA NobodyWaits ==
    ASSUME approved = {}, AnsweredAtOnce, [Next]_vars
    PROVE  approved' = {}
  <1>1. ASSUME NEW t \in Threads, Begin(t) \/ RequestStep(t)
        PROVE  UNCHANGED approved
    BY <1>1 DEF Begin, SelfBegin, AdminBegin, RequestStep, LockTimedOut, Lock, PrepareFreshReceipt,
       RefreshReceipt, PrepareTask, CommitUsers, Conflict, DiscardReceipt, DiscardTask, SyncStatic,
       Purge, StaticEffects, RecordStaticRetry, KickUser, RecordKickAttempt, MintSession, BindReplacement
  <1>2. ASSUME NEW w \in Workers, WorkerStep(w)
        PROVE  UNCHANGED approved
    BY <1>2 DEF WorkerStep, WorkerLock, WorkerLockTimedOut, WorkerPurge, WorkerGiveUp, WorkerStatic,
       WorkerSync, WorkerKick, Claim, WorkerSave, WorkerPrevious, WorkerSuperseded, WorkerComplete
  <1>3. CASE PruneReceipts \/ Tick \/ Environment
    BY <1>3 DEF PruneReceipts, Tick, Environment, RenderPanel, CreateUser, UpdateUser, Authenticate,
       Establish, Reconcile, Crash, PowerLoss, AnsweredAtOnce
  <1> QED BY <1>1, <1>2, <1>3 DEF Next, vars

LEMMA StepPend ==
    ASSUME Types, SafetyInv, undone \/ Known, KicksPend, approved = {}, AdministratorsOnly,
           AnsweredAtOnce, [Next]_vars
    PROVE  KicksPend'
  <1>1. CASE undone'
    BY <1>1 DEF KicksPend, Revoked
  <1>2. CASE ~undone'
    <2>1. ~undone /\ Known
      BY <1>2, UndoneForGood
    <2>2. CASE UNCHANGED vars
      BY <2>2 DEF vars, KicksPend, Revoked, Exists, Covers, IsDelete, Pending, CredentialGeneration
    <2> QED BY <1>2, <2>1, <2>2, RequestStepPend, WorkerStepPend, EnvironmentPend DEF Next
  <1> QED BY <1>1, <1>2

\* Where only administrators replace credentials and a client joins when it is answered, a
\* Hysteria connection whose credential was revoked always has a task that covers its account:
\* whatever failed, crashed or overlapped, the queue gives no revocation up before its kick.
THEOREM RevocationsAreOwed ==
    ASSUME AdministratorsOnly, AnsweredAtOnce
    PROVE  Spec => []RevokedConnectionIsOwedAKick
  <1>1. Init => KicksPend /\ approved = {}
    BY DEF Init, KicksPend
  <1>2. /\ Types /\ SafetyInv /\ (undone \/ Known) /\ KicksPend /\ approved = {} /\ [Next]_vars
        => (KicksPend /\ approved = {})'
    BY StepPend, NobodyWaits
  <1>3. KicksPend => RevokedConnectionIsOwedAKick
    BY DEF KicksPend, RevokedConnectionIsOwedAKick
  <1> QED BY <1>1, <1>2, <1>3, KnownAlways, PTL DEF Spec

-----------------------------------------------------------------------------
(* Static services.  While nothing but administrators' rotations has been    *)
(* asked for, a service that admits a revoked credential is still listed by  *)
(* the task that covers it.  The list is shortened by attempts, each of      *)
(* which says which services it has settled; Shut says they are.             *)

\* The service admits a revoked credential of the account.
Open(s, u) == Revoked(u, accepts[s][u])

\* While op is the task that covers its account, the services are settled.
Shut(op, services) ==
    op \in DOMAIN queue /\ Covers(op, UserOf[op]) => \A s \in services : ~Open(s, UserOf[op])

RequestShut(t) ==
    LET op == req[t].op
        pc == req[t].pc
    IN /\ pc # "purge"
       /\ pc = "commit" => queue[op].static = Services
       /\ pc = "static" /\ ~req[t].unsynced => Shut(op, Services)
       /\ pc \in {"record", "kick", "complete"} => Shut(op, req[t].done)

WorkerShut(w) ==
    /\ wrk[w].pc = "static" /\ ~wrk[w].unsynced => Shut(wrk[w].op, wrk[w].static)
    /\ wrk[w].pc \in {"kick", "complete"} => Shut(wrk[w].op, wrk[w].done)

StaticOwed ==
    \A s \in Services, u \in Users : Open(s, u) =>
        \E id \in DOMAIN queue : Covers(id, u) /\ s \in queue[id].static

StopKnown ==
    /\ \A u \in Users : Exists(u)
    /\ StaticOwed
    /\ \A t \in Threads : RequestShut(t)
    /\ \A w \in Workers : WorkerShut(w)

\* No service admits a revoked credential anew, no task covers its account anew, and a
\* task that covers its account goes on to list the services that do.
NothingOpens == \A s \in Services, u \in Users : Open(s, u)' => Open(s, u)

CoversNoMore ==
    \A id \in DOMAIN queue' : Covers(id, UserOf[id])' => id \in DOMAIN queue /\ Covers(id, UserOf[id])

KeepsOwing ==
    \A id \in DOMAIN queue : Covers(id, UserOf[id]) =>
        \A s \in queue[id].static : Open(s, UserOf[id])' =>
            id \in DOMAIN queue' /\ Covers(id, UserOf[id])' /\ s \in queue'[id].static

RequestAsBefore(t) ==
    /\ req'[t].pc = req[t].pc /\ req'[t].op = req[t].op
    /\ req'[t].unsynced = req[t].unsynced /\ req'[t].done = req[t].done

\* The list of a task whose request is about to change its account stays what it is.
CommitsKeepList ==
    \A t \in Threads : req[t].pc = "commit" => queue'[req[t].op].static = queue[req[t].op].static

WorkerAsBefore(w) ==
    /\ wrk'[w].pc = wrk[w].pc /\ wrk'[w].op = wrk[w].op
    /\ wrk'[w].unsynced = wrk[w].unsynced
    /\ wrk'[w].done = wrk[w].done /\ wrk'[w].static = wrk[w].static

LEMMA ShutStays ==
    ASSUME NEW op \in Op, NEW services \in SUBSET Services, Shut(op, services), NothingOpens, CoversNoMore
    PROVE  Shut(op, services)'
  BY ModelAssumption DEF Shut, NothingOpens, CoversNoMore

LEMMA StopsGoOn ==
    ASSUME Types, StopKnown, NothingOpens, CoversNoMore, KeepsOwing, CommitsKeepList,
           \A u \in Users : Exists(u)', \A t \in Threads : RequestShut(t)' \/ RequestAsBefore(t),
           \A w \in Workers : WorkerShut(w)' \/ WorkerAsBefore(w)
    PROVE  StopKnown'
  <1>1. ASSUME NEW s \in Services, NEW u \in Users, Open(s, u)'
        PROVE  \E id \in DOMAIN queue' : Covers(id, u)' /\ s \in queue'[id].static
    <2>1. PICK id \in DOMAIN queue : Covers(id, u) /\ s \in queue[id].static
      BY <1>1 DEF NothingOpens, StopKnown, StaticOwed
    <2>2. UserOf[id] = u
      BY <2>1 DEF Covers
    <2> QED BY <1>1, <2>1, <2>2 DEF KeepsOwing
  <1>2. ASSUME NEW t \in Threads, RequestAsBefore(t)
        PROVE  RequestShut(t)'
    <2>1. /\ RequestShut(t) /\ req[t].op \in Op
          /\ Services \in SUBSET Services /\ req[t].done \in SUBSET Services
      BY DEF StopKnown, Types, ActorsType, Request
    <2>2. CASE req[t].pc = "commit"
      BY <1>2, <2>1, <2>2 DEF RequestAsBefore, RequestShut, CommitsKeepList
    <2>3. CASE req[t].pc = "static" /\ ~req[t].unsynced
      <3>1. Shut(req[t].op, Services)'
        <4>1. PICK op \in Op : op = req[t].op
          BY <2>1
        <4>2. Shut(op, Services)
          BY <2>1, <2>3, <4>1 DEF RequestShut
        <4>3. Shut(op, Services)'
          BY <2>1, <4>2, ShutStays
        <4> QED BY <1>2, <4>1, <4>3 DEF RequestAsBefore
      <3> QED BY <1>2, <2>3, <3>1 DEF RequestAsBefore, RequestShut
    <2>4. CASE req[t].pc \in {"record", "kick", "complete"}
      <3>1. Shut(req[t].op, req[t].done)'
        <4>1. PICK op \in Op, done \in SUBSET Services : op = req[t].op /\ done = req[t].done
          BY <2>1
        <4>2. Shut(op, done)
          BY <2>1, <2>4, <4>1 DEF RequestShut
        <4>3. Shut(op, done)'
          BY <4>2, ShutStays
        <4> QED BY <1>2, <4>1, <4>3 DEF RequestAsBefore
      <3> QED BY <1>2, <2>4, <3>1 DEF RequestAsBefore, RequestShut
    <2> QED BY <1>2, <2>1, <2>2, <2>3, <2>4 DEF RequestAsBefore, RequestShut
  <1>3. ASSUME NEW w \in Workers, WorkerAsBefore(w)
        PROVE  WorkerShut(w)'
    <2>1. /\ WorkerShut(w)
          /\ wrk[w].op \in Op /\ wrk[w].done \in SUBSET Services /\ wrk[w].static \in SUBSET Services
      BY DEF StopKnown, Types, ActorsType, Job
    <2>2. PICK op \in Op, done \in SUBSET Services, static \in SUBSET Services :
            op = wrk[w].op /\ done = wrk[w].done /\ static = wrk[w].static
      BY <2>1
    <2>3. wrk[w].pc = "static" /\ ~wrk[w].unsynced => Shut(op, static)
      BY <2>1, <2>2 DEF WorkerShut
    <2>4. wrk[w].pc \in {"kick", "complete"} => Shut(op, done)
      BY <2>1, <2>2 DEF WorkerShut
    <2>5. wrk[w].pc = "static" /\ ~wrk[w].unsynced => Shut(op, static)'
      BY <2>3, ShutStays
    <2>6. wrk[w].pc \in {"kick", "complete"} => Shut(op, done)'
      BY <2>4, ShutStays
    <2> QED BY <1>3, <2>2, <2>5, <2>6 DEF WorkerAsBefore, WorkerShut
  <1> QED BY <1>1, <1>2, <1>3 DEF StopKnown, StaticOwed

-----------------------------------------------------------------------------
(* What steps do to services and to the lists of tasks.                      *)

LEMMA SettledAccepts ==
    ASSUME Types, ~undone, ~undone', \A u \in Users : users'[u].gen = users[u].gen,
           \A s \in Services, u \in Users : accepts'[s][u] \in {accepts[s][u], users[u].gen, 0}
    PROVE  NothingOpens
  <1>1. \A u \in Users : users[u].gen \in Nat
    BY DEF Types, FilesType, Account
  <1> QED BY <1>1 DEF NothingOpens, Open, Revoked, Exists

LEMMA SyncSettles ==
    ASSUME Types, ~undone, ~undone', \A u \in Users : Exists(u),
           \A u \in Users : users'[u].gen = users[u].gen, NEW synced, Sync(synced)
    PROVE  /\ NothingOpens
           /\ synced = Services => \A s \in Services, u \in Users : ~Open(s, u)'
  <1>1. \A u \in Users : users[u].gen \in Nat /\ users[u].gen # 0
    BY DEF Types, FilesType, Account, Exists
  <1>2. \A s \in Services, u \in Users :
          accepts'[s][u] = IF s \in synced THEN users[u].gen ELSE accepts[s][u]
    BY DEF Sync
  <1>3. NothingOpens
    BY <1>2, SettledAccepts
  <1> QED BY <1>1, <1>2, <1>3 DEF Open, Revoked, Exists

LEMMA StopSettles ==
    ASSUME Types, ~undone, ~undone', UNCHANGED users, NEW stopped, Stop(stopped)
    PROVE  /\ NothingOpens
           /\ \A s \in Services \cap stopped, u \in Users : ~Open(s, u)'
  <1>1. \A s \in Services, u \in Users :
          accepts'[s][u] = IF s \in stopped THEN 0 ELSE accepts[s][u]
    BY DEF Stop
  <1>2. NothingOpens
    BY <1>1, SettledAccepts
  <1> QED BY <1>1, <1>2 DEF Open, Revoked

SameList(p, q, id) == id \in DOMAIN q => id \in DOMAIN p /\ p[id].static = q[id].static

LEMMA QueueSameList ==
    ASSUME NEW q \in Queues, NEW id
    PROVE  /\ \A i : SameList(q, q, i)
           /\ \A i : i # id => SameList(Drop(q, id), q, i)
           /\ \A i : SameList(Released(q, id), q, i)
           /\ \A i : SameList(QueueTick(q), q, i)
           /\ id \in DOMAIN q => \A i : SameList(Claimed(q, id), q, i)
           /\ \A services \in SUBSET Services : \A i : i # id =>
                SameList(WithStaticServices(q, id, services), q, i)
           /\ \A previous, target : id \notin DOMAIN q =>
                \A i : SameList(Prepared(q, id, previous, target), q, i)
  <1>1. \A i \in DOMAIN q : q[i] \in Task
    BY QueueMember
  <1>2. (\A i : SameList(q, q, i)) /\ (\A i : i # id => SameList(Drop(q, id), q, i))
    BY DEF SameList, Drop
  <1>3. \A i : SameList(Released(q, id), q, i)
    BY <1>1 DEF SameList, Released, Task
  <1>4. \A i : SameList(QueueTick(q), q, i)
    BY <1>1 DEF SameList, QueueTick, Task
  <1>5. id \in DOMAIN q => \A i : SameList(Claimed(q, id), q, i)
    BY <1>1 DEF SameList, Claimed, Task
  <1>6. ASSUME NEW services \in SUBSET Services
        PROVE  \A i : i # id => SameList(WithStaticServices(q, id, services), q, i)
    BY <1>1 DEF SameList, WithStaticServices, Task
  <1>7. ASSUME NEW previous, NEW target, id \notin DOMAIN q
        PROVE  \A i : SameList(Prepared(q, id, previous, target), q, i)
    BY <1>7 DEF SameList, Prepared, Put
  <1> QED BY <1>2, <1>3, <1>4, <1>5, <1>6, <1>7

\* An attempt takes off the list, or out of the queue, what it has settled.
LEMMA AttemptLists ==
    ASSUME NEW q \in Queues, NEW id, NEW kickOk \in BOOLEAN, NEW stopped \in SUBSET Services
    PROVE  LET p == AttemptRecorded(q, id, kickOk, stopped) IN
           /\ \A i : i # id => SameList(p, q, i)
           /\ id \in DOMAIN q => \A s \in q[id].static \ stopped : id \in DOMAIN p /\ s \in p[id].static
  <1>1. \A i \in DOMAIN q : q[i] \in Task
    BY QueueMember
  <1>2. CASE id \notin DOMAIN q
    BY <1>2, QueueSameList DEF AttemptRecorded
  <1>3. CASE id \in DOMAIN q /\ Finished(q[id], kickOk, stopped)
    BY <1>3, QueueSameList DEF AttemptRecorded, Finished
  <1>4. CASE id \in DOMAIN q /\ ~Finished(q[id], kickOk, stopped)
    BY <1>1, <1>4 DEF AttemptRecorded, SameList, Task
  <1> QED BY <1>2, <1>3, <1>4

\* A step that leaves generations and bindings alone, and every list but that of op.
LEMMA ListsKeep ==
    ASSUME Types, Types', ~undone, ~undone', \A u \in Users : users'[u].gen = users[u].gen,
           SameTasks(queue', queue), NEW op, \A id : id # op => SameList(queue', queue, id),
           op \in DOMAIN queue /\ Covers(op, UserOf[op]) =>
             \A s \in queue[op].static : Open(s, UserOf[op])' =>
               op \in DOMAIN queue' /\ s \in queue'[op].static
    PROVE  CoversNoMore /\ KeepsOwing
  <1>1. \A id \in Op : UserOf[id] \in Users
    BY ModelAssumption
  <1>2. (\A id \in DOMAIN queue : id \in Op) /\ (\A id \in DOMAIN queue' : id \in Op)
    BY QueueMember DEF Types, FilesType
  <1>3. ASSUME NEW id \in DOMAIN queue'
        PROVE  id \in DOMAIN queue /\ (Covers(id, UserOf[id])' <=> Covers(id, UserOf[id]))
    BY <1>1, <1>2, OnlyGenerationsCount DEF SameTasks
  <1>4. CoversNoMore
    BY <1>3 DEF CoversNoMore
  <1>5. KeepsOwing
    <2> SUFFICES ASSUME NEW id \in DOMAIN queue, Covers(id, UserOf[id]), NEW s \in queue[id].static,
                        Open(s, UserOf[id])'
                 PROVE  id \in DOMAIN queue' /\ Covers(id, UserOf[id])' /\ s \in queue'[id].static
      BY DEF KeepsOwing
    <2>1. id \in DOMAIN queue' /\ s \in queue'[id].static
      BY DEF SameList
    <2> QED BY <1>3, <2>1
  <1> QED BY <1>4, <1>5

OnlyRotations == spent \subseteq AdminOps

LEMMA RotationsOnly ==
    ASSUME Known, OnlyRotations
    PROVE  /\ \A id \in DOMAIN queue : id \in AdminOps /\ id \notin DeleteOps /\ ~IsDelete(queue[id])
           /\ \A t \in Threads : req[t].pc # "idle" => req[t].op \in AdminOps /\ req[t].op \notin DeleteOps
           /\ \A w \in Workers : wrk[w].pc # "idle" => wrk[w].op \in AdminOps /\ wrk[w].op \notin DeleteOps
  <1>1. AdminOps \cap DeleteOps = {}
    BY ModelAssumption
  <1>2. ASSUME NEW id \in DOMAIN queue
        PROVE  id \in AdminOps /\ id \notin DeleteOps /\ ~IsDelete(queue[id])
    BY <1>1 DEF Known, TasksKnown, TaskKnown, OnlyRotations, IsDelete, DeleteTarget
  <1>3. ASSUME NEW t \in Threads, req[t].pc # "idle"
        PROVE  req[t].op \in AdminOps /\ req[t].op \notin DeleteOps
    BY <1>1, <1>3 DEF Known, ActorsKnown, RequestKnown, OnlyRotations
  <1>4. ASSUME NEW w \in Workers, wrk[w].pc # "idle"
        PROVE  wrk[w].op \in AdminOps /\ wrk[w].op \notin DeleteOps
    BY <1>1, <1>4 DEF Known, ActorsKnown, WorkerKnown, OnlyRotations
  <1> QED BY <1>2, <1>3, <1>4

\* A step that adds no task, and takes no service off a list that is not settled.
ListsKept(op) ==
    /\ SameTasks(queue', queue)
    /\ \A id : id # op => SameList(queue', queue, id)
    /\ op \in DOMAIN queue /\ Covers(op, UserOf[op]) =>
         \A s \in queue[op].static : Open(s, UserOf[op])' =>
           op \in DOMAIN queue' /\ s \in queue'[op].static
    /\ \A t \in Threads : req[t].pc = "commit" => SameList(queue', queue, req[t].op)

LEMMA ListStepStops ==
    ASSUME Types, Types', Known, StopKnown, ~undone, ~undone', NothingOpens,
           \A u \in Users : users'[u].gen = users[u].gen, NEW op, ListsKept(op),
           \A t \in Threads : RequestShut(t)' \/ RequestAsBefore(t),
           \A w \in Workers : WorkerShut(w)' \/ WorkerAsBefore(w)
    PROVE  StopKnown'
  <1>1. CoversNoMore /\ KeepsOwing
    BY ListsKeep DEF ListsKept
  <1>2. CommitsKeepList
    BY DEF ListsKept, CommitsKeepList, SameList, Known, ActorsKnown, RequestKnown
  <1>3. \A u \in Users : Exists(u)'
    BY DEF StopKnown, Exists
  <1> QED BY <1>1, <1>2, <1>3, StopsGoOn

LEMMA SameQueueStops ==
    ASSUME Types, Types', Known, StopKnown, ~undone, ~undone', NothingOpens,
           \A u \in Users : users'[u].gen = users[u].gen, UNCHANGED queue,
           \A t \in Threads : RequestShut(t)' \/ RequestAsBefore(t),
           \A w \in Workers : WorkerShut(w)' \/ WorkerAsBefore(w)
    PROVE  StopKnown'
  <1>1. queue \in Queues
    BY DEF Types, FilesType
  <1>2. SameTasks(queue', queue) /\ \A id : SameList(queue', queue, id)
    BY <1>1, QueueKeepsTasks, QueueSameList
  <1>3. PICK op : op = 0
    OBVIOUS
  <1>4. ListsKept(op)
    BY <1>2 DEF ListsKept
  <1> QED BY <1>4, ListStepStops

-----------------------------------------------------------------------------
(* The steps.                                                                *)

LEMMA BeginStops ==
    ASSUME Types, Types', Known, StopKnown, ~undone, ~undone', NEW t \in Threads,
           (\E op \in AdminOps \cup DeleteOps : AdminBegin(t, op)) \/ LockTimedOut(t) \/ Lock(t)
    PROVE  StopKnown'
  <1>1. UNCHANGED <<users, queue, wrk>> /\ req \in [Threads -> Request] /\ req[t] \in Request
    BY DEF AdminBegin, LockTimedOut, Lock, Types, ActorsType
  <1>2. \A other \in Threads \ {t} : req'[other] = req[other]
    BY <1>1 DEF AdminBegin, LockTimedOut, Lock, Finish
  <1>3. req'[t].pc \in {"idle", "lock", "receipt", "task"}
    <2>1. CASE LockTimedOut(t) \/ Lock(t)
      BY <1>1, <2>1 DEF LockTimedOut, Lock, Finish, IdleRequest, Request
    <2>2. ASSUME NEW op, AdminBegin(t, op) PROVE req'[t].pc = "lock"
      BY <1>1, <2>2 DEF AdminBegin, IdleRequest
    <2> QED BY <2>1, <2>2
  <1>4. NothingOpens
    <2>1. CASE UNCHANGED accepts
      BY <1>1, <2>1, SettledAccepts
    <2>2. CASE Lock(t)
      BY <1>1, <2>1, <2>2, StopSettles DEF Lock
    <2> QED BY <2>1, <2>2 DEF AdminBegin, LockTimedOut
  <1>5. \A r \in Threads : RequestShut(r)' \/ RequestAsBefore(r)
    BY <1>2, <1>3 DEF RequestShut, RequestAsBefore
  <1>6. \A w \in Workers : WorkerAsBefore(w)
    BY <1>1 DEF WorkerAsBefore
  <1> QED BY <1>1, <1>4, <1>5, <1>6, SameQueueStops

\* A prepared task is for a token that no account has yet, and lists every service.
LEMMA PrepareTaskStops ==
    ASSUME Types, Types', SafetyInv, Known, StopKnown, ~undone, ~undone', AdministratorsOnly, OnlyRotations,
           NEW t \in Threads, PrepareTask(t)
    PROVE  StopKnown'
  <1>1. /\ UNCHANGED <<users, accepts, wrk>> /\ req[t].pc = "task"
        /\ req[t] \in Request /\ req \in [Threads -> Request] /\ queue \in Queues /\ queue' \in Queues
        /\ users \in [Users -> Account] /\ lock = t /\ RequestKnown(t) /\ fresh \in Nat
    BY DEF PrepareTask, Types, ActorsType, FilesType, OthersType, SafetyInv, RequestSafe, Holding,
       Known, ActorsKnown
  <1>2. PICK op \in AdminOps : op = req[t].op /\ UserOf[op] \in Users /\ op \notin DeleteOps /\ op \notin SelfOps
    BY <1>1, RotationsOnly, ModelAssumption DEF AdministratorsOnly, Op
  <1>3. op \notin DOMAIN queue
    BY <1>1, <1>2 DEF RequestKnown
  <1>4. \A other \in Threads \ {t} : req'[other] = req[other]
    BY <1>1 DEF PrepareTask, Abort, Finish
  <1> DEFINE after == Put(queue, op, NewTask(PreviousOf(t), TokenGeneration(fresh + 1)))
  <1>5. \/ queue' = queue /\ req'[t].pc = "idle"
        \/ queue' = after /\ (req'[t].pc = "idle" \/ (req'[t].pc = "commit" /\ req'[t].op = op))
    BY <1>1, <1>2, <1>3 DEF PrepareTask, SaveQueue, Visible, Prepared, Abort, Finish, IdleRequest, Request
  <1>6. NothingOpens
    BY <1>1, SettledAccepts
  <1>7. \A w \in Workers : WorkerAsBefore(w)
    BY <1>1 DEF WorkerAsBefore
  <1>8. CASE queue' = queue /\ req'[t].pc = "idle"
    <2>1. \A r \in Threads : RequestShut(r)' \/ RequestAsBefore(r)
      BY <1>4, <1>8 DEF RequestShut, RequestAsBefore
    <2> QED BY <1>1, <1>6, <1>7, <1>8, <2>1, SameQueueStops
  <1>9. CASE /\ queue' = after
             /\ (req'[t].pc = "idle" \/ (req'[t].pc = "commit" /\ req'[t].op = op))
    <2>1. /\ DOMAIN queue' = DOMAIN queue \cup {op}
          /\ \A id \in DOMAIN queue : queue'[id] = queue[id]
          /\ queue'[op].target = TokenGeneration(fresh + 1) /\ queue'[op].static = Services
      BY <1>3, <1>9 DEF Put, NewTask
    <2> HIDE DEF after
    <2>2. users[UserOf[op]].gen # fresh + 1
      <3>1. users[UserOf[op]].gen \in Nat /\ users[UserOf[op]].gen <= fresh
        BY <1>1, <1>2 DEF SafetyInv, FilesSafe, Types, FilesType, Account
      <3> QED BY <1>1, <3>1
    <2>3. ~Covers(op, UserOf[op])'
      BY <1>1, <2>1, <2>2 DEF Covers, IsDelete, DeleteTarget, TokenGeneration, CredentialGeneration
    <2>4. \A id \in DOMAIN queue : Covers(id, UserOf[id])' <=> Covers(id, UserOf[id])
      BY <1>1, <2>1 DEF Covers, IsDelete, CredentialGeneration
    <2>5. CoversNoMore
      BY <2>1, <2>3, <2>4 DEF CoversNoMore
    <2>6. KeepsOwing
      BY <2>1, <2>4 DEF KeepsOwing
    <2>7. CommitsKeepList
      BY <2>1 DEF CommitsKeepList, Known, ActorsKnown, RequestKnown
    <2>8. \A u \in Users : Exists(u)'
      BY <1>1 DEF StopKnown, Exists
    <2>9. \A r \in Threads : RequestShut(r)' \/ RequestAsBefore(r)
      BY <1>4, <1>9, <2>1 DEF RequestShut, RequestAsBefore
    <2> QED BY <1>6, <1>7, <2>5, <2>6, <2>7, <2>8, <2>9, StopsGoOn
  <1> QED BY <1>5, <1>8, <1>9

\* The steps of a request after the change of its account, up to the count of its kick.
LEMMA SyncStaticStops ==
    ASSUME Types, Types', Known, StopKnown, ~undone, ~undone', OnlyRotations,
           NEW t \in Threads, SyncStatic(t) \/ Purge(t)
    PROVE  StopKnown'
  <1>1. UNCHANGED <<users, queue, wrk>> /\ req \in [Threads -> Request] /\ req[t] \in Request
        /\ req[t].pc \in {"sync", "purge"}
    BY DEF SyncStatic, Purge, Types, ActorsType
  <1>2. \A other \in Threads \ {t} : req'[other] = req[other]
    BY <1>1 DEF SyncStatic, Purge, Goto
  <1>3. \A w \in Workers : WorkerAsBefore(w)
    BY <1>1 DEF WorkerAsBefore
  <1>4. PICK op \in AdminOps : op = req[t].op /\ UserOf[op] \in Users /\ op \notin DeleteOps
    BY <1>1, RotationsOnly, ModelAssumption DEF Op
  <1>5. NothingOpens /\ RequestShut(t)'
    <2>1. SyncStatic(t)
      BY <1>1 DEF Purge, StopKnown, RequestShut
    <2>2. PICK synced \in SUBSET Services :
            /\ Sync(synced)
            /\ req' = [req EXCEPT ![t].pc = "static", ![t].unsynced = (synced # Services)]
      BY <1>4, <2>1 DEF SyncStatic
    <2>3. req'[t].pc = "static" /\ req'[t].op = op /\ (req'[t].unsynced <=> synced # Services)
      BY <1>1, <1>4, <2>2 DEF Request
    <2>4. /\ NothingOpens
          /\ synced = Services => \A s \in Services, u \in Users : ~Open(s, u)'
      BY <1>1, <2>2, SyncSettles DEF StopKnown
    <2> QED BY <1>4, <2>3, <2>4 DEF RequestShut, Shut
  <1>6. \A r \in Threads : RequestShut(r)' \/ RequestAsBefore(r)
    BY <1>2, <1>5 DEF RequestAsBefore
  <1> QED BY <1>1, <1>3, <1>5, <1>6, SameQueueStops

\* Every service that a request takes for settled has been, and a failed one is listed again.
LEMMA StaticEffectsStops ==
    ASSUME Types, Types', Known, StopKnown, ~undone, ~undone', OnlyRotations,
           NEW t \in Threads, StaticEffects(t)
    PROVE  StopKnown'
  <1>1. UNCHANGED <<users, queue, wrk>> /\ req \in [Threads -> Request] /\ req[t] \in Request
        /\ req[t].pc = "static" /\ RequestShut(t)
    BY DEF StaticEffects, Types, ActorsType, StopKnown
  <1>2. \A other \in Threads \ {t} : req'[other] = req[other]
    BY <1>1 DEF StaticEffects
  <1>3. \A w \in Workers : WorkerAsBefore(w)
    BY <1>1 DEF WorkerAsBefore
  <1>4. PICK op \in AdminOps : op = req[t].op /\ UserOf[op] \in Users
    BY <1>1, RotationsOnly, ModelAssumption DEF Op
  <1>5. PICK scheduled \in SUBSET Services, stopped \in SUBSET Services :
          /\ req[t].unsynced => scheduled = {}
          /\ Stop(stopped)
          /\ req'[t].op = op /\ req'[t].done = scheduled \cup stopped
          /\ req'[t].pc \in {"kick", "record"}
    <2>1. PICK scheduled \in SUBSET Services : \E stopped \in SUBSET (Services \ scheduled) :
            /\ req[t].unsynced => scheduled = {}
            /\ Stop(stopped)
            /\ LET failed == Services \ (scheduled \cup stopped)
               IN req' = [req EXCEPT ![t].done = scheduled \cup stopped, ![t].unsynced = FALSE,
                                     ![t].retry = failed,
                                     ![t].pc = IF failed = {} THEN "kick" ELSE "record"]
      BY DEF StaticEffects
    <2>2. PICK stopped \in SUBSET (Services \ scheduled) :
            /\ req[t].unsynced => scheduled = {}
            /\ Stop(stopped)
            /\ LET failed == Services \ (scheduled \cup stopped)
               IN req' = [req EXCEPT ![t].done = scheduled \cup stopped, ![t].unsynced = FALSE,
                                     ![t].retry = failed,
                                     ![t].pc = IF failed = {} THEN "kick" ELSE "record"]
      BY <2>1
    <2>3. /\ req'[t].op = op /\ req'[t].done = scheduled \cup stopped
          /\ req'[t].pc \in {"kick", "record"}
      BY <1>1, <1>4, <2>2 DEF Request
    <2> QED BY <2>2, <2>3
  <1>6. NothingOpens /\ \A s \in Services \cap stopped, u \in Users : ~Open(s, u)'
    BY <1>1, <1>5, StopSettles
  <1>7. Shut(op, Services)' \/ scheduled = {}
    <2>1. CASE ~req[t].unsynced
      <3>1. Shut(op, Services)
        BY <1>1, <1>4, <2>1 DEF RequestShut
      <3>2. op \in DOMAIN queue' /\ Covers(op, UserOf[op])' => op \in DOMAIN queue /\ Covers(op, UserOf[op])
        BY <1>1, <1>4, OnlyGenerationsCount
      <3> QED BY <1>4, <1>6, <3>1, <3>2 DEF Shut, NothingOpens
    <2>2. CASE req[t].unsynced
      BY <1>5, <2>2
    <2> QED BY <2>1, <2>2
  <1>8. PICK done \in SUBSET Services : done = scheduled \cup stopped
    OBVIOUS
  <1>9. RequestShut(t)'
    <2>1. Shut(op, done)'
      BY <1>4, <1>6, <1>7, <1>8 DEF Shut
    <2> QED BY <1>5, <1>8, <2>1 DEF RequestShut
  <1>10. \A r \in Threads : RequestShut(r)' \/ RequestAsBefore(r)
    BY <1>2, <1>9 DEF RequestAsBefore
  <1> QED BY <1>1, <1>3, <1>6, <1>10, SameQueueStops

LEMMA RecordStaticRetryStops ==
    ASSUME Types, Types', SafetyInv, Known, StopKnown, ~undone, ~undone', OnlyRotations,
           NEW t \in Threads, RecordStaticRetry(t)
    PROVE  StopKnown'
  <1>1. UNCHANGED <<users, accepts, wrk>> /\ req \in [Threads -> Request] /\ req[t] \in Request
        /\ req[t].pc = "record" /\ RequestShut(t) /\ RequestKnown(t) /\ queue \in Queues
    BY DEF RecordStaticRetry, Types, ActorsType, FilesType, StopKnown, Known, ActorsKnown
  <1>2. PICK op \in AdminOps, retry \in SUBSET Services :
          op = req[t].op /\ UserOf[op] \in Users /\ retry = req[t].retry
    BY <1>1, RotationsOnly, ModelAssumption DEF Op, Request
  <1>3. /\ \A other \in Threads \ {t} : req'[other] = req[other]
        /\ req'[t].pc = "kick" /\ req'[t].op = op /\ req'[t].done = req[t].done
    BY <1>1, <1>2 DEF RecordStaticRetry, Request
  <1>4. queue' \in {queue, WithStaticServices(queue, op, retry)}
    BY <1>2 DEF RecordStaticRetry, SaveQueue, Visible
  <1>5. NothingOpens
    BY <1>1, SettledAccepts
  <1>6. \A w \in Workers : WorkerAsBefore(w)
    BY <1>1 DEF WorkerAsBefore
  <1>7. ListsKept(op)
    <2>1. SameTasks(queue', queue) /\ \A id : id # op => SameList(queue', queue, id)
      <3>1. /\ SameTasks(queue, queue) /\ SameTasks(WithStaticServices(queue, op, retry), queue)
            /\ \A id : id # op => /\ SameList(queue, queue, id)
                                 /\ SameList(WithStaticServices(queue, op, retry), queue, id)
        BY <1>1, <1>2, QueueKeepsTasks, QueueSameList
      <3> QED BY <1>4, <3>1
    <2>2. \A r \in Threads : req[r].pc = "commit" => req[r].op # op
      BY <1>1, <1>2 DEF RequestKnown
    <2>3. ASSUME op \in DOMAIN queue, NEW s \in queue[op].static
          PROVE  op \in DOMAIN queue' /\ s \in queue'[op].static
      <3>1. queue[op] \in Task
        BY <1>1, <2>3, QueueMember
      <3> QED BY <1>2, <1>4, <2>3, <3>1 DEF WithStaticServices, Task
    <2> QED BY <2>1, <2>2, <2>3 DEF ListsKept
  <1>8. RequestShut(t)'
    <2>1. PICK done \in SUBSET Services : done = req[t].done
      BY <1>1 DEF Request
    <2>2. Shut(op, done)
      BY <1>1, <1>2, <2>1 DEF RequestShut
    <2>3. Shut(op, done)'
      <3>1. CoversNoMore
        BY <1>1, <1>7, ListsKeep DEF ListsKept
      <3>2. op \in Op
        BY DEF Op
      <3> QED BY <1>5, <2>2, <3>1, <3>2, ShutStays
    <2> QED BY <1>3, <2>1, <2>3 DEF RequestShut
  <1>9. \A r \in Threads : RequestShut(r)' \/ RequestAsBefore(r)
    BY <1>3, <1>8 DEF RequestAsBefore
  <1> QED BY <1>1, <1>5, <1>6, <1>7, <1>9, ListStepStops

LEMMA KickUserStops ==
    ASSUME Types, Types', Known, StopKnown, ~undone, ~undone', OnlyRotations,
           NEW t \in Threads, KickUser(t)
    PROVE  StopKnown'
  <1>1. UNCHANGED <<users, accepts, queue, wrk>> /\ req \in [Threads -> Request] /\ req[t] \in Request
        /\ req[t].pc = "kick" /\ RequestShut(t) /\ queue \in Queues
    BY DEF KickUser, Types, ActorsType, FilesType, StopKnown
  <1>2. PICK op \in AdminOps, done \in SUBSET Services :
          op = req[t].op /\ UserOf[op] \in Users /\ done = req[t].done
    BY <1>1, RotationsOnly, ModelAssumption DEF Op, Request
  <1>3. /\ \A other \in Threads \ {t} : req'[other] = req[other]
        /\ req'[t].pc = "complete" /\ req'[t].op = op /\ req'[t].done = done
    BY <1>1, <1>2 DEF KickUser, Request
  <1>4. NothingOpens
    BY <1>1, SettledAccepts
  <1>5. \A w \in Workers : WorkerAsBefore(w)
    BY <1>1 DEF WorkerAsBefore
  <1>6. Shut(op, done)'
    <2>1. Shut(op, done)
      BY <1>1, <1>2 DEF RequestShut
    <2> QED BY <1>1, <1>2, <2>1, OnlyGenerationsCount DEF Shut, Open
  <1>7. \A r \in Threads : RequestShut(r)' \/ RequestAsBefore(r)
    BY <1>3, <1>6 DEF RequestShut, RequestAsBefore
  <1> QED BY <1>1, <1>4, <1>5, <1>7, SameQueueStops

\* What an attempt takes off the list is settled.
LEMMA AttemptKeepsLists ==
    ASSUME Types, Known, OnlyRotations, ~undone, ~undone', UNCHANGED <<users, accepts>>,
           NEW op \in AdminOps, NEW done \in SUBSET Services, NEW kicked \in BOOLEAN, Shut(op, done),
           queue' \in {queue, AttemptRecorded(queue, op, kicked, done)},
           \A t \in Threads : req[t].pc = "commit" => req[t].op # op
    PROVE  ListsKept(op)
  <1>1. queue \in Queues /\ accepts \in [Services -> [Users -> Nat]]
    BY DEF Types, FilesType
  <1> DEFINE counted == AttemptRecorded(queue, op, kicked, done)
  <1>2. /\ \A i : i # op => SameList(counted, queue, i) /\ SameList(queue, queue, i)
        /\ op \in DOMAIN queue => \A s \in queue[op].static \ done :
             op \in DOMAIN counted /\ s \in counted[op].static
    BY <1>1, AttemptLists, QueueSameList
  <1>3. SameTasks(counted, queue) /\ SameTasks(queue, queue)
    BY <1>1, AttemptKeepsTasks, QueueKeepsTasks
  <1>5. queue' \in {queue, counted}
    OBVIOUS
  <1> HIDE DEF counted
  <1>4. ASSUME op \in DOMAIN queue, Covers(op, UserOf[op]), NEW s \in queue[op].static, Open(s, UserOf[op])'
        PROVE  op \in DOMAIN queue' /\ s \in queue'[op].static
    <2>1. Open(s, UserOf[op])
      BY <1>4, OnlyGenerationsCount DEF Open
    <2>2. s \notin done
      BY <1>4, <2>1 DEF Shut
    <2> QED BY <1>2, <1>4, <1>5, <2>2
  <1>6. /\ SameTasks(queue', queue)
        /\ \A i : i # op => SameList(queue', queue, i)
    BY <1>2, <1>3, <1>5
  <1> QED BY <1>4, <1>6 DEF ListsKept

LEMMA RecordKickStops ==
    ASSUME Types, Types', Known, StopKnown, ~undone, ~undone', AdministratorsOnly, OnlyRotations,
           NEW t \in Threads, RecordKickAttempt(t)
    PROVE  StopKnown'
  <1>1. UNCHANGED <<users, accepts, wrk>> /\ req \in [Threads -> Request] /\ req[t] \in Request
        /\ req[t].pc = "complete" /\ RequestShut(t) /\ RequestKnown(t)
    BY DEF RecordKickAttempt, Types, ActorsType, StopKnown, Known, ActorsKnown
  <1>2. PICK op \in AdminOps, done \in SUBSET Services, kicked \in BOOLEAN :
          op = req[t].op /\ done = req[t].done /\ (kicked = req[t].kicked)
    BY <1>1, RotationsOnly DEF Request
  <1>3. /\ \A other \in Threads \ {t} : req'[other] = req[other]
        /\ req'[t].pc = "idle"
    BY <1>1 DEF RecordKickAttempt, Finish, IdleRequest, AdministratorsOnly
  <1>4. queue' \in {queue, AttemptRecorded(queue, op, kicked, done)}
    BY <1>2 DEF RecordKickAttempt, SaveQueue, Visible
  <1>5. ListsKept(op)
    BY <1>1, <1>2, <1>4, AttemptKeepsLists DEF RequestShut, RequestKnown
  <1>6. NothingOpens
    BY <1>1, SettledAccepts
  <1>7. \A w \in Workers : WorkerAsBefore(w)
    BY <1>1 DEF WorkerAsBefore
  <1>8. \A r \in Threads : RequestShut(r)' \/ RequestAsBefore(r)
    BY <1>3 DEF RequestShut, RequestAsBefore
  <1> QED BY <1>1, <1>5, <1>6, <1>7, <1>8, ListStepStops

\* The change of an account opens what its own task lists, and no other task covers the account.
NewToken(u, op) ==
    /\ UNCHANGED queue
    /\ op \in DOMAIN queue /\ UserOf[op] = u /\ queue[op].static = Services /\ Covers(op, u)'
    /\ \A id \in DOMAIN queue \ {op} : UserOf[id] = u => ~Covers(id, u)'
    /\ \A v \in Users \ {u} : users'[v] = users[v]
    /\ \A s \in Services, v \in Users \ {u} : Open(s, v)' => Open(s, v)

LEMMA NewTokenShut ==
    ASSUME NEW u \in Users, NEW op, NewToken(u, op), NEW id \in Op, id # op,
           NEW services \in SUBSET Services, Shut(id, services)
    PROVE  Shut(id, services)'
  <1>1. UserOf[id] \in Users
    BY ModelAssumption
  <1>2. ASSUME id \in DOMAIN queue', Covers(id, UserOf[id])', NEW s \in services
        PROVE  ~Open(s, UserOf[id])'
    <2>1. UserOf[id] # u /\ id \in DOMAIN queue
      BY <1>2 DEF NewToken
    <2>2. users'[UserOf[id]] = users[UserOf[id]]
      BY <1>1, <2>1 DEF NewToken
    <2>3. Covers(id, UserOf[id])
      BY <1>2, <2>2 DEF Covers, NewToken, IsDelete, CredentialGeneration
    <2>4. ~Open(s, UserOf[id])
      BY <2>1, <2>3 DEF Shut
    <2> QED BY <1>1, <2>1, <2>4 DEF NewToken
  <1> QED BY <1>2 DEF Shut

LEMMA NewTokenOwed ==
    ASSUME StaticOwed, NEW u \in Users, NEW op, NewToken(u, op)
    PROVE  StaticOwed'
  <1>1. ASSUME NEW s \in Services, NEW v \in Users, Open(s, v)'
        PROVE  \E id \in DOMAIN queue' : Covers(id, v)' /\ s \in queue'[id].static
    <2>1. CASE v = u
      BY <2>1 DEF NewToken
    <2>2. CASE v # u
      <3>1. PICK id \in DOMAIN queue : Covers(id, v) /\ s \in queue[id].static
        BY <1>1, <2>2 DEF NewToken, StaticOwed
      <3>2. Covers(id, v)'
        BY <2>2, <3>1 DEF NewToken, Covers, IsDelete, CredentialGeneration
      <3> QED BY <3>1, <3>2 DEF NewToken
    <2> QED BY <2>1, <2>2
  <1> QED BY <1>1 DEF StaticOwed

\* An actor that is on no step of op does not see the change of the account.
LEMMA NewTokenActors ==
    ASSUME Types, StopKnown, NEW u \in Users, NEW op, NewToken(u, op)
    PROVE  /\ \A t \in Threads : req'[t] = req[t] /\ (req[t].pc = "idle" \/ req[t].op # op) => RequestShut(t)'
           /\ \A w \in Workers : wrk'[w] = wrk[w]
                /\ (wrk[w].pc \in {"idle", "lock", "giveup"} \/ wrk[w].op # op) => WorkerShut(w)'
  <1>1. ASSUME NEW t \in Threads, req'[t] = req[t], req[t].pc = "idle" \/ req[t].op # op
        PROVE  RequestShut(t)'
    <2>1. CASE req[t].pc = "idle"
      BY <1>1, <2>1 DEF RequestShut
    <2>2. CASE req[t].op # op
      <3>1. PICK id \in Op, done \in SUBSET Services : id = req[t].op /\ done = req[t].done
        BY DEF Types, ActorsType, Request
      <3>2. Services \in SUBSET Services /\ RequestShut(t)
        BY DEF StopKnown
      <3>3. Shut(id, Services) => Shut(id, Services)'
        BY <2>2, <3>1, <3>2, NewTokenShut
      <3>4. Shut(id, done) => Shut(id, done)'
        BY <2>2, <3>1, NewTokenShut
      <3>5. req[t].pc = "static" /\ ~req[t].unsynced => Shut(id, Services)
        BY <3>1, <3>2 DEF RequestShut
      <3>6. req[t].pc \in {"record", "kick", "complete"} => Shut(id, done)
        BY <3>1, <3>2 DEF RequestShut
      <3> QED BY <1>1, <3>1, <3>2, <3>3, <3>4, <3>5, <3>6 DEF RequestShut, NewToken
    <2> QED BY <1>1, <2>1, <2>2
  <1>2. ASSUME NEW w \in Workers, wrk'[w] = wrk[w], wrk[w].pc \in {"idle", "lock", "giveup"} \/ wrk[w].op # op
        PROVE  WorkerShut(w)'
    <2>1. CASE wrk[w].pc \in {"idle", "lock", "giveup"}
      BY <1>2, <2>1 DEF WorkerShut
    <2>2. CASE wrk[w].op # op
      <3>1. PICK id \in Op, done \in SUBSET Services, static \in SUBSET Services :
              id = wrk[w].op /\ done = wrk[w].done /\ static = wrk[w].static
        BY DEF Types, ActorsType, Job
      <3>2. WorkerShut(w)
        BY DEF StopKnown
      <3>3. Shut(id, static) => Shut(id, static)'
        BY <2>2, <3>1, NewTokenShut
      <3>4. Shut(id, done) => Shut(id, done)'
        BY <2>2, <3>1, NewTokenShut
      <3>5. wrk[w].pc = "static" /\ ~wrk[w].unsynced => Shut(id, static)
        BY <3>1, <3>2 DEF WorkerShut
      <3>6. wrk[w].pc \in {"kick", "complete"} => Shut(id, done)
        BY <3>1, <3>2 DEF WorkerShut
      <3> QED BY <1>2, <3>1, <3>3, <3>4, <3>5, <3>6 DEF WorkerShut
    <2> QED BY <1>2, <2>1, <2>2
  <1> QED BY <1>1, <1>2

LEMMA CommitStops ==
    ASSUME Types, Types', SafetyInv, Known, StopKnown, ~undone, ~undone', OnlyRotations,
           NEW t \in Threads, CommitUsers(t)
    PROVE  StopKnown'
  <1> DEFINE new == [users EXCEPT ![UserOf[req[t].op]] = Changed(t)]
  <1>1. /\ UNCHANGED <<queue, wrk>> /\ req[t].pc = "commit"
        /\ req[t] \in Request /\ req \in [Threads -> Request] /\ queue \in Queues
        /\ users \in [Users -> Account] /\ RequestKnown(t) /\ RequestSafe(t) /\ RequestShut(t)
    BY DEF CommitUsers, Types, ActorsType, FilesType, Known, ActorsKnown, SafetyInv, StopKnown
  <1>2. PICK op \in AdminOps : op = req[t].op /\ UserOf[op] \in Users /\ op \notin DeleteOps /\ op \in Op
    BY <1>1, RotationsOnly, ModelAssumption DEF Op
  <1>3. /\ \A other \in Threads \ {t} : req'[other] = req[other]
        /\ \/ req'[t].pc \in {"idle", "sync"}
           \/ req'[t].pc = "static" /\ req'[t].unsynced
    <2>1. \/ req' = [req EXCEPT ![t].pc = "sync", ![t].old = 0]
          \/ req' = [req EXCEPT ![t].pc = "static", ![t].old = 0, ![t].unsynced = TRUE]
          \/ req' = [req EXCEPT ![t] = IdleRequest]
      BY DEF CommitUsers, Abort, Finish
    <2>2. CASE req' = [req EXCEPT ![t].pc = "sync", ![t].old = 0]
      BY <1>1, <2>2 DEF Request
    <2>3. CASE req' = [req EXCEPT ![t].pc = "static", ![t].old = 0, ![t].unsynced = TRUE]
      BY <1>1, <2>3 DEF Request
    <2>4. CASE req' = [req EXCEPT ![t] = IdleRequest]
      BY <1>1, <2>4 DEF IdleRequest
    <2> QED BY <2>1, <2>2, <2>3, <2>4
  <1>4. RequestShut(t)'
    BY <1>3 DEF RequestShut
  <1>5. \/ UNCHANGED accepts
        \/ \E stopped \in SUBSET Services : Stop(stopped)
    BY DEF CommitUsers
  <1>6. \A s \in Services, u \in Users : accepts'[s][u] \in {accepts[s][u], 0}
    BY <1>5 DEF Stop
  <1>7. /\ \A u \in Users \ {UserOf[op]} : new[u] = users[u]
        /\ new[UserOf[op]].gen = req[t].new
    BY <1>1, <1>2 DEF Changed, Account
  <1>8. users' = users \/ users' = new
    BY DEF CommitUsers, SaveUsers, Visible
  <1> HIDE DEF new
  <1>9. CASE users' = users
    <2>1. NothingOpens
      BY <1>6, <1>9, SettledAccepts
    <2>2. \A r \in Threads : RequestShut(r)' \/ RequestAsBefore(r)
      BY <1>3, <1>4 DEF RequestAsBefore
    <2>3. \A w \in Workers : WorkerAsBefore(w)
      BY <1>1 DEF WorkerAsBefore
    <2> QED BY <1>1, <1>9, <2>1, <2>2, <2>3, SameQueueStops
  <1>10. CASE users' = new
    <2>1. op \in DOMAIN queue /\ queue[op].static = Services /\ queue[op].target = TokenGeneration(req[t].new)
      BY <1>1, <1>2 DEF RequestKnown, RequestShut
    <2>2. Covers(op, UserOf[op])'
      BY <1>1, <1>7, <1>10, <2>1 DEF Covers, TokenGeneration, CredentialGeneration
    <2>3. ASSUME NEW id \in DOMAIN queue \ {op}, UserOf[id] = UserOf[op]
          PROVE  ~Covers(id, UserOf[op])'
      <3>1. queue[id].target.gen # req[t].new /\ ~IsDelete(queue[id])
        BY <1>1, <1>2, RotationsOnly DEF RequestKnown
      <3> QED BY <1>1, <1>7, <1>10, <3>1 DEF Covers, CredentialGeneration, IsDelete
    <2>4. \A u \in Users \ {UserOf[op]} : users'[u] = users[u]
      BY <1>7, <1>10
    <2>5. \A s \in Services, u \in Users \ {UserOf[op]} : Open(s, u)' => Open(s, u)
      BY <1>6, <2>4 DEF Open, Revoked, Exists
    <2>6. NewToken(UserOf[op], op)
      BY <1>1, <2>1, <2>2, <2>3, <2>4, <2>5 DEF NewToken
    <2>7. \A other \in Threads \ {t} : RequestShut(other)'
      BY <1>1, <1>2, <1>3, <2>6, NewTokenActors DEF RequestKnown
    <2>8. \A w \in Workers : WorkerShut(w)'
      BY <1>1, <1>2, <2>6, NewTokenActors DEF RequestKnown
    <2>9. \A u \in Users : Exists(u)'
      <3>1. req[t].new \in Nat /\ users[UserOf[op]].gen \in Nat /\ users[UserOf[op]].gen < req[t].new
        BY <1>1, <1>2 DEF RequestSafe, Request, Account
      <3> QED BY <1>7, <2>4, <1>10, <3>1 DEF StopKnown, Exists
    <2> QED BY <1>2, <1>4, <2>6, <2>7, <2>8, <2>9, NewTokenOwed DEF StopKnown
  <1> QED BY <1>8, <1>9, <1>10

LEMMA RequestStops ==
    ASSUME Types, Types', SafetyInv, Known, StopKnown, ~undone, ~undone', AdministratorsOnly, OnlyRotations,
           NEW t \in Threads, Begin(t) \/ RequestStep(t)
    PROVE  StopKnown'
  BY BeginStops, NoSelfService, PrepareTaskStops, CommitStops, SyncStaticStops, StaticEffectsStops,
     RecordStaticRetryStops, KickUserStops, RecordKickStops
     DEF Begin, RequestStep, EffectStep, AdministratorsOnly

\* The steps of a worker that settle nothing and count nothing.
LEMMA IdleWorkStops ==
    ASSUME Types, Types', Known, StopKnown, ~undone, ~undone', OnlyRotations, NEW w \in Workers,
           WorkerLock(w) \/ WorkerLockTimedOut(w) \/ (\E ok \in BOOLEAN : WorkerKick(w, ok))
    PROVE  StopKnown'
  <1>1. UNCHANGED <<users, accepts, queue, req>> /\ wrk \in [Workers -> Job] /\ wrk[w] \in Job
        /\ WorkerShut(w) /\ wrk[w].pc # "idle"
    BY DEF WorkerLock, WorkerLockTimedOut, WorkerKick, Types, ActorsType, StopKnown
  <1>2. \A other \in Workers \ {w} : wrk'[other] = wrk[other]
    BY <1>1 DEF WorkerLock, WorkerLockTimedOut, WorkerKick, WDecide, WGoto
  <1>3. PICK op \in AdminOps, done \in SUBSET Services :
          op = wrk[w].op /\ UserOf[op] \in Users /\ done = wrk[w].done
    BY <1>1, RotationsOnly, ModelAssumption DEF Op, Job
  <1>4. WorkerShut(w)'
    <2>1. CASE WorkerLock(w)
      <3>1. wrk[w].pc = "lock" /\ wrk[w].target # DeleteTarget
        BY <1>1, <1>3, <2>1 DEF WorkerLock, Known, ActorsKnown, WorkerKnown
      <3>2. \/ wrk'[w].pc \in {"sync", "previous", "superseded", "giveup"}
            \/ wrk'[w].pc = "static" /\ wrk'[w].static = {}
        BY <1>1, <2>1, <3>1 DEF WorkerLock, WDecide, WGoto, Job
      <3> QED BY <3>2 DEF WorkerShut, Shut
    <2>2. CASE WorkerLockTimedOut(w)
      BY <1>1, <2>2 DEF WorkerLockTimedOut, WGoto, WorkerShut, Job
    <2>3. ASSUME NEW ok \in BOOLEAN, WorkerKick(w, ok) PROVE WorkerShut(w)'
      <3>1. wrk'[w].pc = "complete" /\ wrk'[w].op = op /\ wrk'[w].done = done /\ wrk[w].pc = "kick"
        BY <1>1, <1>3, <2>3 DEF WorkerKick, Job
      <3>2. Shut(op, done)
        BY <1>1, <1>3, <3>1 DEF WorkerShut
      <3>3. Shut(op, done)'
        BY <1>1, <1>3, <3>2, OnlyGenerationsCount DEF Shut, Open
      <3> QED BY <3>1, <3>3 DEF WorkerShut
    <2> QED BY <2>1, <2>2, <2>3
  <1>5. NothingOpens
    BY <1>1, SettledAccepts
  <1>6. \A t \in Threads : RequestAsBefore(t)
    BY <1>1 DEF RequestAsBefore
  <1>7. \A other \in Workers : WorkerShut(other)' \/ WorkerAsBefore(other)
    BY <1>2, <1>4 DEF WorkerAsBefore
  <1> QED BY <1>1, <1>5, <1>6, <1>7, SameQueueStops

LEMMA ClaimStops ==
    ASSUME Types, Types', Known, StopKnown, ~undone, ~undone', NEW w \in Workers, NEW id, NEW outcome,
           Claim(w, id, outcome)
    PROVE  StopKnown'
  <1>1. /\ UNCHANGED <<users, accepts, req>> /\ wrk \in [Workers -> Job] /\ queue \in Queues
        /\ id \in DOMAIN queue /\ queue' \in {queue, Claimed(queue, id)}
    BY DEF Claim, Due, SaveQueue, Visible, Types, ActorsType, FilesType
  <1>2. \A i : SameList(queue', queue, i)
    BY <1>1, QueueSameList
  <1>3. SameTasks(queue', queue)
    BY <1>1, QueueKeepsTasks
  <1>4. ListsKept(id)
    BY <1>2, <1>3 DEF ListsKept, SameList
  <1>5. \A other \in Workers : WorkerShut(other)' \/ WorkerAsBefore(other)
    <2>1. \A other \in Workers : wrk'[other] = wrk[other] \/ wrk'[other].pc = "lock"
      BY <1>1 DEF Claim, ClaimedJob, IdleJob
    <2> QED BY <2>1 DEF WorkerShut, WorkerAsBefore
  <1>6. NothingOpens
    BY <1>1, SettledAccepts
  <1>7. \A t \in Threads : RequestAsBefore(t)
    BY <1>1 DEF RequestAsBefore
  <1> QED BY <1>1, <1>4, <1>5, <1>6, <1>7, ListStepStops

LEMMA WorkerGiveUpStops ==
    ASSUME Types, Types', Known, StopKnown, ~undone, ~undone', NEW w \in Workers, WorkerGiveUp(w)
    PROVE  StopKnown'
  <1>1. /\ UNCHANGED <<users, req>> /\ wrk \in [Workers -> Job] /\ queue \in Queues
        /\ queue' \in {queue, Released(queue, wrk[w].op)}
    BY DEF WorkerGiveUp, SaveQueue, Visible, Types, ActorsType, FilesType
  <1>2. \A i : SameList(queue', queue, i)
    BY <1>1, QueueSameList
  <1>3. SameTasks(queue', queue)
    BY <1>1, QueueKeepsTasks
  <1>4. ListsKept(wrk[w].op)
    BY <1>2, <1>3 DEF ListsKept, SameList
  <1>5. \A other \in Workers : WorkerShut(other)' \/ WorkerAsBefore(other)
    <2>1. \A other \in Workers : wrk'[other] = wrk[other] \/ wrk'[other].pc = "idle"
      BY <1>1 DEF WorkerGiveUp, WFinish, IdleJob
    <2> QED BY <2>1 DEF WorkerShut, WorkerAsBefore
  <1>6. NothingOpens
    BY <1>1, StopSettles DEF WorkerGiveUp
  <1>7. \A t \in Threads : RequestAsBefore(t)
    BY <1>1 DEF RequestAsBefore
  <1> QED BY <1>1, <1>4, <1>5, <1>6, <1>7, ListStepStops

LEMMA WorkerSyncStops ==
    ASSUME Types, Types', Known, StopKnown, ~undone, ~undone', OnlyRotations, NEW w \in Workers,
           NEW synced \in SUBSET Services, WorkerSync(w, synced)
    PROVE  StopKnown'
  <1>1. /\ UNCHANGED <<users, queue, req>> /\ wrk \in [Workers -> Job] /\ wrk[w] \in Job
        /\ wrk[w].pc = "sync"
    BY DEF WorkerSync, Types, ActorsType
  <1>2. PICK op \in AdminOps, static \in SUBSET Services :
          op = wrk[w].op /\ UserOf[op] \in Users /\ static = wrk[w].static
    BY <1>1, RotationsOnly, ModelAssumption DEF Op, Job
  <1>3. wrk' = [wrk EXCEPT ![w].pc = "static", ![w].unsynced = (synced # Services)]
    BY DEF WorkerSync
  <1>4. /\ wrk'[w].pc = "static" /\ wrk'[w].op = op /\ wrk'[w].static = static
        /\ wrk'[w].unsynced <=> synced # Services
    BY <1>1, <1>2, <1>3 DEF Job
  <1>5. NothingOpens /\ (synced = Services => \A s \in Services, u \in Users : ~Open(s, u)')
    BY <1>1, SyncSettles DEF WorkerSync, StopKnown
  <1>6. WorkerShut(w)'
    BY <1>2, <1>4, <1>5 DEF WorkerShut, Shut
  <1>7. \A other \in Workers : WorkerShut(other)' \/ WorkerAsBefore(other)
    BY <1>1, <1>3, <1>6 DEF WorkerAsBefore
  <1>8. \A t \in Threads : RequestAsBefore(t)
    BY <1>1 DEF RequestAsBefore
  <1> QED BY <1>1, <1>5, <1>7, <1>8, SameQueueStops

LEMMA WorkerStaticStops ==
    ASSUME Types, Types', Known, StopKnown, ~undone, ~undone', OnlyRotations, NEW w \in Workers,
           WorkerStatic(w)
    PROVE  StopKnown'
  <1>1. /\ UNCHANGED <<users, queue, req>> /\ wrk \in [Workers -> Job] /\ wrk[w] \in Job
        /\ wrk[w].pc = "static" /\ WorkerShut(w)
    BY DEF WorkerStatic, Types, ActorsType, StopKnown
  <1>2. PICK op \in AdminOps, static \in SUBSET Services :
          op = wrk[w].op /\ UserOf[op] \in Users /\ static = wrk[w].static
    BY <1>1, RotationsOnly, ModelAssumption DEF Op, Job
  <1>3. PICK scheduled \in SUBSET static, stopped \in SUBSET Services :
          /\ wrk[w].unsynced => scheduled = {}
          /\ Stop(stopped)
          /\ wrk' = [wrk EXCEPT ![w].pc = "kick",
                                ![w].done = (scheduled \cup stopped) \cap static,
                                ![w].static = {}, ![w].unsynced = FALSE]
    BY <1>2 DEF WorkerStatic
  <1>4. PICK done \in SUBSET Services : done = (scheduled \cup stopped) \cap static
    OBVIOUS
  <1>5. wrk'[w].pc = "kick" /\ wrk'[w].op = op /\ wrk'[w].done = done
    BY <1>1, <1>2, <1>3, <1>4 DEF Job
  <1>6. NothingOpens /\ \A s \in Services \cap stopped, u \in Users : ~Open(s, u)'
    BY <1>1, <1>3, StopSettles
  <1>7. Shut(op, static)' \/ scheduled = {}
    <2>1. CASE ~wrk[w].unsynced
      <3>1. Shut(op, static)
        BY <1>1, <1>2, <2>1 DEF WorkerShut
      <3>2. op \in DOMAIN queue' /\ Covers(op, UserOf[op])' => op \in DOMAIN queue /\ Covers(op, UserOf[op])
        BY <1>1, <1>2, OnlyGenerationsCount
      <3> QED BY <1>2, <1>6, <3>1, <3>2 DEF Shut, NothingOpens
    <2>2. CASE wrk[w].unsynced
      BY <1>3, <2>2
    <2> QED BY <2>1, <2>2
  <1>8. Shut(op, done)'
    BY <1>2, <1>4, <1>6, <1>7 DEF Shut
  <1>9. WorkerShut(w)'
    BY <1>5, <1>8 DEF WorkerShut
  <1>10. \A other \in Workers : WorkerShut(other)' \/ WorkerAsBefore(other)
    BY <1>1, <1>3, <1>9 DEF WorkerAsBefore
  <1>11. \A t \in Threads : RequestAsBefore(t)
    BY <1>1 DEF RequestAsBefore
  <1> QED BY <1>1, <1>6, <1>10, <1>11, SameQueueStops

LEMMA WorkerCompleteStops ==
    ASSUME Types, Types', Known, StopKnown, ~undone, ~undone', OnlyRotations, NEW w \in Workers,
           NEW outcome, WorkerComplete(w, outcome)
    PROVE  StopKnown'
  <1>1. /\ UNCHANGED <<users, accepts, req>> /\ wrk \in [Workers -> Job] /\ wrk[w] \in Job
        /\ wrk[w].pc = "complete" /\ WorkerShut(w)
    BY DEF WorkerComplete, Types, ActorsType, StopKnown
  <1>2. PICK op \in AdminOps, done \in SUBSET Services, kicked \in BOOLEAN :
          op = wrk[w].op /\ done = wrk[w].done /\ kicked = wrk[w].kicked
    BY <1>1, RotationsOnly DEF Job
  <1>3. queue' \in {queue, AttemptRecorded(queue, op, kicked, done)}
    BY <1>2 DEF WorkerComplete, SaveQueue, Visible
  <1>4. \A t \in Threads : req[t].pc = "commit" => req[t].op # op
    BY <1>1, <1>2 DEF Known, ActorsKnown, RequestKnown
  <1>5. ListsKept(op)
    BY <1>1, <1>2, <1>3, <1>4, AttemptKeepsLists DEF WorkerShut
  <1>6. NothingOpens
    BY <1>1, SettledAccepts
  <1>7. \A other \in Workers : WorkerShut(other)' \/ WorkerAsBefore(other)
    <2>1. \A other \in Workers : wrk'[other] = wrk[other] \/ wrk'[other].pc = "idle"
      BY <1>1 DEF WorkerComplete, WFinish, IdleJob
    <2> QED BY <2>1 DEF WorkerShut, WorkerAsBefore
  <1>8. \A t \in Threads : RequestAsBefore(t)
    BY <1>1 DEF RequestAsBefore
  <1> QED BY <1>1, <1>5, <1>6, <1>7, <1>8, ListStepStops

\* The task that a worker withdraws does not cover the account.
LEMMA WithdrawStops ==
    ASSUME Types, Types', Known, StopKnown, ~undone, ~undone', OnlyRotations, NEW w \in Workers,
           NEW outcome, WorkerPrevious(w, outcome) \/ WorkerSuperseded(w, outcome)
    PROVE  StopKnown'
  <1>1. /\ UNCHANGED <<users, accepts, req>> /\ wrk \in [Workers -> Job] /\ wrk[w] \in Job
        /\ wrk[w].pc \in {"previous", "superseded"} /\ WorkerKnown(w) /\ queue \in Queues
    BY DEF WorkerPrevious, WorkerSuperseded, Types, ActorsType, FilesType, Known, ActorsKnown
  <1>2. PICK op \in AdminOps : op = wrk[w].op
    BY <1>1 DEF WorkerKnown
  <1>3. queue' \in {queue, Drop(queue, op), Released(queue, op)}
    BY <1>2 DEF WorkerPrevious, WorkerSuperseded, SaveQueue, Visible
  <1>4. SameTasks(queue', queue) /\ \A id : id # op => SameList(queue', queue, id)
    BY <1>1, <1>3, QueueKeepsTasks, QueueSameList
  <1>5. ~(op \in DOMAIN queue /\ Covers(op, UserOf[op]))
    BY <1>1, <1>2, RotationsOnly DEF WorkerKnown, JobUser, Covers, CredentialGeneration
  <1>6. \A t \in Threads : req[t].pc = "commit" => req[t].op # op
    BY <1>1, <1>2 DEF Known, ActorsKnown, RequestKnown
  <1>7. ListsKept(op)
    BY <1>4, <1>5, <1>6 DEF ListsKept
  <1>8. NothingOpens
    BY <1>1, SettledAccepts
  <1>9. \A other \in Workers : WorkerShut(other)' \/ WorkerAsBefore(other)
    <2>1. \A other \in Workers : wrk'[other] = wrk[other] \/ wrk'[other].pc = "idle"
      BY <1>1 DEF WorkerPrevious, WorkerSuperseded, WFinish, IdleJob
    <2> QED BY <2>1 DEF WorkerShut, WorkerAsBefore
  <1>10. \A t \in Threads : RequestAsBefore(t)
    BY <1>1 DEF RequestAsBefore
  <1> QED BY <1>1, <1>7, <1>8, <1>9, <1>10, ListStepStops

LEMMA WorkerStops ==
    ASSUME Types, Types', Known, StopKnown, ~undone, ~undone', OnlyRotations, NEW w \in Workers,
           WorkerStep(w)
    PROVE  StopKnown'
  <1>1. ~WorkerPurge(w) /\ \A outcome : ~WorkerSave(w, outcome)
    BY RotationsOnly DEF WorkerPurge, WorkerSave, Known, ActorsKnown, WorkerKnown
  <1> QED BY <1>1, IdleWorkStops, ClaimStops, WorkerGiveUpStops, WorkerSyncStops, WorkerStaticStops,
             WorkerCompleteStops, WithdrawStops DEF WorkerStep

LEMMA EnvironmentStops ==
    ASSUME Types, Types', Known, StopKnown, ~undone, ~undone', AdministratorsOnly,
           Environment \/ Tick \/ PruneReceipts
    PROVE  StopKnown'
  <1>1. queue \in Queues /\ users \in [Users -> Account]
    BY DEF Types, FilesType
  <1>2. ASSUME \A t \in Threads : req'[t].pc = "idle"
        PROVE  \A t \in Threads : RequestShut(t)'
    BY <1>2 DEF RequestShut
  <1>3. ASSUME \A w \in Workers : wrk'[w].pc = "idle"
        PROVE  \A w \in Workers : WorkerShut(w)'
    BY <1>3 DEF WorkerShut
  <1>4. ASSUME UNCHANGED <<req, wrk>>
        PROVE  /\ \A t \in Threads : RequestAsBefore(t)
               /\ \A w \in Workers : WorkerAsBefore(w)
    BY <1>4 DEF RequestAsBefore, WorkerAsBefore
  <1>5. ASSUME NEW u \in Users, UpdateUser(u)
        PROVE  StopKnown'
    <2>1. UNCHANGED <<queue, req, wrk>> /\ users' \in {users, [users EXCEPT ![u].rev = @ + 1]}
      BY <1>5 DEF UpdateUser, SaveUsers, Visible
    <2>2. \A v \in Users : users'[v].gen = users[v].gen
      BY <1>1, <2>1 DEF Account
    <2>3. UNCHANGED accepts \/ \E synced : Sync(synced)
      BY <1>5 DEF UpdateUser
    <2>4. NothingOpens
      BY <2>2, <2>3, SettledAccepts, SyncSettles DEF StopKnown
    <2> QED BY <1>4, <2>1, <2>2, <2>4, SameQueueStops
  <1>6. CASE Reconcile
    <2>1. UNCHANGED <<users, queue, req, wrk>> /\ \E services : Sync(services) \/ Stop(services)
      BY <1>6 DEF Reconcile
    <2>2. NothingOpens
      BY <2>1, SyncSettles, StopSettles DEF StopKnown
    <2> QED BY <1>4, <2>1, <2>2, SameQueueStops
  <1>7. CASE PruneReceipts \/ \E u \in Users : Authenticate(u)
    <2>1. UNCHANGED <<users, queue, accepts, req, wrk>>
      BY <1>7 DEF PruneReceipts, Authenticate
    <2> QED BY <1>4, <2>1, SettledAccepts, SameQueueStops
  <1>8. CASE Tick
    <2>1. /\ UNCHANGED <<users, accepts>> /\ queue' = QueueTick(queue)
      BY <1>8 DEF Tick
    <2>2. \A t \in Threads : RequestAsBefore(t)
      BY <1>8 DEF Tick, Types, ActorsType, Request, RequestAsBefore
    <2>3. \A w \in Workers : WorkerAsBefore(w)
      BY <1>8 DEF Tick, Types, ActorsType, Job, WorkerAsBefore
    <2>4. SameTasks(queue', queue) /\ \A i : SameList(queue', queue, i)
      BY <1>1, <2>1, QueueKeepsTasks, QueueSameList
    <2>5. PICK op : op = 0
      OBVIOUS
    <2>6. ListsKept(op)
      BY <2>4 DEF ListsKept, SameList
    <2> QED BY <2>1, <2>2, <2>3, <2>6, SettledAccepts, ListStepStops
  <1>9. CASE Crash \/ PowerLoss
    <2>1. UNCHANGED <<users, queue, accepts>>
      BY <1>9 DEF Crash, PowerLoss
    <2>2. /\ \A t \in Threads : req'[t].pc = "idle"
          /\ \A w \in Workers : wrk'[w].pc = "idle"
      BY <1>9 DEF Crash, PowerLoss, ProcessDies, IdleRequest, IdleJob
    <2> QED BY <1>2, <1>3, <2>1, <2>2, SettledAccepts, SameQueueStops
  <1>10. ASSUME NEW a \in approved, Establish(a)
         PROVE  StopKnown'
    <2>1. UNCHANGED <<users, queue, accepts, req, wrk>>
      BY <1>10 DEF Establish
    <2> QED BY <1>4, <2>1, SettledAccepts, SameQueueStops
  <1>11. /\ ~(\E op \in SelfOps : RenderPanel(op))
         /\ ~(\E u \in Users : CreateUser(u))
    BY DEF AdministratorsOnly, StopKnown, CreateUser
  <1> QED BY <1>5, <1>6, <1>7, <1>8, <1>9, <1>10, <1>11 DEF Environment

\* A nonce that was drawn stays drawn.
LEMMA SpentForGood ==
    ASSUME [Next]_vars
    PROVE  spent \subseteq spent'
  <1>1. ASSUME NEW t \in Threads, Begin(t) \/ RequestStep(t)
        PROVE  spent \subseteq spent'
    BY <1>1 DEF Begin, SelfBegin, AdminBegin, RequestStep, LockTimedOut, Lock, PrepareFreshReceipt,
       RefreshReceipt, PrepareTask, CommitUsers, Conflict, DiscardReceipt, DiscardTask, SyncStatic,
       Purge, StaticEffects, RecordStaticRetry, KickUser, RecordKickAttempt, MintSession, BindReplacement
  <1>2. ASSUME NEW w \in Workers, WorkerStep(w)
        PROVE  UNCHANGED spent
    BY <1>2 DEF WorkerStep, WorkerLock, WorkerLockTimedOut, WorkerPurge, WorkerGiveUp, WorkerStatic,
       WorkerSync, WorkerKick, Claim, WorkerSave, WorkerPrevious, WorkerSuperseded, WorkerComplete
  <1>3. CASE PruneReceipts \/ Tick \/ Environment
    BY <1>3 DEF PruneReceipts, Tick, Environment, RenderPanel, CreateUser, UpdateUser, Authenticate,
       Establish, Reconcile, Crash, PowerLoss
  <1> QED BY <1>1, <1>2, <1>3 DEF Next, vars

LEMMA StepStops ==
    ASSUME Types, Types', SafetyInv, undone \/ Known, OnlyRotations => undone \/ StopKnown,
           AdministratorsOnly, [Next]_vars
    PROVE  (OnlyRotations => undone \/ StopKnown)'
  <1> SUFFICES ASSUME OnlyRotations', ~undone' PROVE StopKnown'
    OBVIOUS
  <1>1. ~undone /\ Known /\ OnlyRotations /\ StopKnown
    BY UndoneForGood, SpentForGood DEF OnlyRotations
  <1>2. CASE UNCHANGED vars
    <2>1. (\A u \in Users : Exists(u))'
      BY <1>1, <1>2 DEF vars, StopKnown, Exists
    <2>2. StaticOwed'
      BY <1>1, <1>2 DEF vars, StopKnown, StaticOwed, Open, Revoked, Exists, Covers, IsDelete,
                        CredentialGeneration
    <2>3. ASSUME NEW t \in Threads PROVE RequestShut(t)'
      BY <1>1, <1>2 DEF vars, StopKnown, RequestShut, Shut, Open, Revoked, Exists, Covers, IsDelete,
                        CredentialGeneration
    <2>4. ASSUME NEW w \in Workers PROVE WorkerShut(w)'
      BY <1>1, <1>2 DEF vars, StopKnown, WorkerShut, Shut, Open, Revoked, Exists, Covers, IsDelete,
                        CredentialGeneration
    <2> QED BY <2>1, <2>2, <2>3, <2>4 DEF StopKnown
  <1> QED BY <1>1, <1>2, RequestStops, WorkerStops, EnvironmentStops DEF Next

\* Where administrators only rotate tokens, a static service that still admits a replaced token is
\* listed by the task that covers its account, whatever failed, crashed or overlapped: no attempt
\* takes a service off the list that was neither rewritten and reloaded nor stopped.
THEOREM RotationsAreStopped ==
    ASSUME AdministratorsOnly
    PROVE  Spec => []RotationsOweAStop
  <1>1. Init => (OnlyRotations => undone \/ StopKnown)
    BY DEF Init, OnlyRotations, StopKnown, StaticOwed, RequestShut, WorkerShut, IdleRequest, IdleJob,
       Exists, Open, Revoked
  <1>2. /\ Types /\ SafetyInv /\ (undone \/ Known) /\ (OnlyRotations => undone \/ StopKnown)
        /\ [Next]_vars /\ Types'
        => (OnlyRotations => undone \/ StopKnown)'
    BY StepStops
  <1>3. (OnlyRotations => undone \/ StopKnown) => RotationsOweAStop
    BY DEF OnlyRotations, StopKnown, StaticOwed, Open, Revoked, RotationsOweAStop,
       RevokedStaticAccessIsOwedAStop
  <1> QED BY <1>1, <1>2, <1>3, KnownAlways, PTL DEF Spec
=============================================================================
