--------------------- MODULE CredentialRevocationProofs ---------------------
(***************************************************************************)
(* Theorems about CredentialRevocation, for any accounts, operations,      *)
(* threads, workers, services and bounds.                                  *)
(***************************************************************************)
EXTENDS CredentialRevocation, TLAPS

-----------------------------------------------------------------------------
(* The operators on the queue and on the receipts keep their types.        *)

Queues == UNION {[ids -> Task] : ids \in SUBSET Op}
Stores == UNION {[ids -> Receipt] : ids \in SUBSET SelfOps}

LEMMA QueueMember ==
    ASSUME NEW q
    PROVE  q \in Queues <=> DOMAIN q \subseteq Op /\ q \in [DOMAIN q -> Task]
  BY DEF Queues

LEMMA StoreMember ==
    ASSUME NEW store
    PROVE  store \in Stores <=> DOMAIN store \subseteq SelfOps /\ store \in [DOMAIN store -> Receipt]
  BY DEF Stores

LEMMA PreparedType ==
    ASSUME NEW q \in Queues, NEW id \in Op, NEW previous \in Digest, NEW target \in Digest
    PROVE  Prepared(q, id, previous, target) \in Queues
  <1>1. NewTask(previous, target) \in Task
    BY QueueAssumption DEF NewTask, Task
  <1> QED BY <1>1, QueueMember DEF Prepared, Put

LEMMA DropType ==
    ASSUME NEW q \in Queues, NEW id
    PROVE  Drop(q, id) \in Queues
  BY QueueMember DEF Drop

LEMMA DropReceiptType ==
    ASSUME NEW store \in Stores, NEW id
    PROVE  Drop(store, id) \in Stores
  BY StoreMember DEF Drop

LEMMA WithStaticServicesType ==
    ASSUME NEW q \in Queues, NEW id, NEW services \in SUBSET Services
    PROVE  WithStaticServices(q, id, services) \in Queues
  BY QueueMember DEF WithStaticServices, Task

LEMMA ClaimedType ==
    ASSUME NEW q \in Queues, NEW id \in DOMAIN q
    PROVE  Claimed(q, id) \in Queues
  <1>1. q[id] \in Task
    BY QueueMember
  <1>2. [q[id] EXCEPT !.lease = ClaimLease] \in Task
    BY <1>1, QueueAssumption DEF Task
  <1> QED BY <1>2, QueueMember DEF Claimed

LEMMA ReleasedType ==
    ASSUME NEW q \in Queues, NEW id
    PROVE  Released(q, id) \in Queues
  <1> DEFINE delay == IF RetryDelay > 1 THEN RetryDelay ELSE 1
  <1>1. CASE id \in DOMAIN q
    <2>1. q[id] \in Task
      BY <1>1, QueueMember
    <2>2. delay \in Nat
      BY QueueAssumption
    <2>3. [[q[id] EXCEPT !.lease = 0] EXCEPT !.wait = delay] \in Task
      BY <2>1, <2>2 DEF Task
    <2>4. Released(q, id) = [q EXCEPT ![id] = [[q[id] EXCEPT !.lease = 0] EXCEPT !.wait = delay]]
      BY <1>1 DEF Released
    <2> QED BY <1>1, <2>3, <2>4, QueueMember
  <1>2. CASE id \notin DOMAIN q
    BY <1>2 DEF Released
  <1> QED BY <1>1, <1>2

LEMMA AttemptRecordedType ==
    ASSUME NEW q \in Queues, NEW id, NEW kickOk \in BOOLEAN, NEW stopped \in SUBSET Services
    PROVE  AttemptRecorded(q, id, kickOk, stopped) \in Queues
  <1> DEFINE delay == IF kickOk THEN SecondKickDelay ELSE RetryDelay
             kept == [[[[q[id] EXCEPT !.kicks = KickCount(q[id], kickOk)]
                          EXCEPT !.static = q[id].static \ stopped]
                         EXCEPT !.lease = 0]
                        EXCEPT !.wait = delay]
  <1>1. CASE id \notin DOMAIN q
    BY <1>1 DEF AttemptRecorded
  <1>2. CASE id \in DOMAIN q /\ Finished(q[id], kickOk, stopped)
    BY <1>2, DropType DEF AttemptRecorded
  <1>3. CASE id \in DOMAIN q /\ ~Finished(q[id], kickOk, stopped)
    <2>1. q[id] \in Task
      BY <1>3, QueueMember
    <2>2. KickCount(q[id], kickOk) \in 0..2 /\ delay \in Nat
      BY QueueAssumption DEF KickCount
    <2>3. kept \in Task
      BY <2>1, <2>2 DEF Task
    <2>4. AttemptRecorded(q, id, kickOk, stopped) = [q EXCEPT ![id] = kept]
      BY <1>3, <2>1 DEF AttemptRecorded, Task
    <2> QED BY <1>3, <2>3, <2>4, QueueMember
  <1> QED BY <1>1, <1>2, <1>3

LEMMA QueueTickType ==
    ASSUME NEW q \in Queues
    PROVE  QueueTick(q) \in Queues
  <1>1. ASSUME NEW id \in DOMAIN q
        PROVE  [q[id] EXCEPT !.wait = Elapse(@), !.lease = Elapse(@),
                             !.ttl = Elapse(@)] \in Task
    <2>1. q[id] \in Task
      BY <1>1, QueueMember
    <2>2. /\ Elapse(q[id].wait) \in Nat
          /\ Elapse(q[id].lease) \in Nat
          /\ Elapse(q[id].ttl) \in Nat
      BY <2>1 DEF Task, Elapse
    <2> QED BY <2>1, <2>2 DEF Task
  <1> QED BY <1>1, QueueMember DEF QueueTick

LEMMA LiveType ==
    ASSUME NEW store \in Stores
    PROVE  Live(store) \in Stores
  BY StoreMember DEF Live

LEMMA ReceiptPreparedType ==
    ASSUME NEW store \in Stores, NEW id \in SelfOps, NEW session \in Sessions,
           NEW old \in Nat, NEW new \in Nat
    PROVE  /\ ReceiptPrepared(store, id, session, old, new) \in Stores
           /\ id \in DOMAIN ReceiptPrepared(store, id, session, old, new)
  <1>1. [old |-> old, new |-> new, sessions |-> {session}, ttl |-> ReceiptTTL] \in Receipt
    BY ReceiptAssumption DEF Receipt
  <1> QED BY <1>1, LiveType, StoreMember DEF ReceiptPrepared, Put

LEMMA ReceiptReboundType ==
    ASSUME NEW store \in Stores, NEW id, NEW session, NEW replacement \in Sessions
    PROVE  ReceiptRebound(store, id, session, replacement) \in Stores
  BY LiveType, StoreMember DEF ReceiptRebound, Receipt

LEMMA ReceiptTickType ==
    ASSUME NEW store \in Stores
    PROVE  ReceiptTick(store) \in Stores
  <1>1. ASSUME NEW id \in DOMAIN store
        PROVE  [store[id] EXCEPT !.ttl = Elapse(@)] \in Receipt
    <2>1. store[id] \in Receipt
      BY <1>1, StoreMember
    <2> QED BY <2>1 DEF Receipt, Elapse
  <1> QED BY <1>1, StoreMember DEF ReceiptTick

-----------------------------------------------------------------------------
(* Type correctness.  TypeOK is not inductive: a receipt is written for the  *)
(* session of a request, so the request must be a panel's and have one.      *)

SelfRequests ==
    \A t \in Threads :
        /\ req[t].pc = "receipt" => req[t].op \in SelfOps
        /\ req[t].pc # "idle" /\ req[t].op \in SelfOps => req[t].session \in Sessions

TypeInv == TypeOK /\ SelfRequests

\* The steps of TypeOK, with the files as members of Queues and Stores.
FilesType ==
    /\ users \in [Users -> Account]
    /\ disk \in SUBSET [Users -> Account] /\ users \in disk
    /\ queue \in Queues
    /\ receipts \in Stores
    /\ history \subseteq Users
    /\ accepts \in [Services -> [Users -> Nat]]

ActorsType ==
    /\ lock \in Threads \cup Workers \cup {Nobody}
    /\ req \in [Threads -> Request]
    /\ wrk \in [Workers -> Job]
    /\ SelfRequests

OthersType ==
    /\ conns \subseteq [user : Users, gen : Nat]
    /\ approved \subseteq [user : Users, gen : Nat, left : Nat]
    /\ page \in [SelfOps -> Nat]
    /\ fresh \in Nat
    /\ spent \subseteq Op
    /\ asked \subseteq Users \X Account
    /\ undone \in BOOLEAN

LEMMA TypeParts == TypeInv <=> FilesType /\ ActorsType /\ OthersType
  BY QueueMember, StoreMember DEF TypeInv, TypeOK, FilesType, ActorsType, OthersType

LEMMA TypePartsPrimed == TypeInv' <=> FilesType' /\ ActorsType' /\ OthersType'
  BY TypeParts, PTL

LEMMA IdleTypes == IdleRequest \in Request /\ IdleJob \in Job
  <1>1. (CHOOSE o \in Op : TRUE) \in Op
    BY ModelAssumption
  <1> QED BY <1>1 DEF IdleRequest, IdleJob, Request, Job, RequestPc, WorkerPc, NoAccount, Digest

LEMMA SaveUsersType ==
    ASSUME FilesType, NEW new \in [Users -> Account], NEW outcome \in SaveOutcome,
           SaveUsers(new, outcome)
    PROVE  /\ users' \in [Users -> Account]
           /\ disk' \in SUBSET [Users -> Account] /\ users' \in disk'
  BY DEF FilesType, SaveUsers, Visible, OnDisk, SaveOutcome

LEMMA SaveQueueType ==
    ASSUME queue \in Queues, NEW new \in Queues, NEW outcome, SaveQueue(new, outcome)
    PROVE  queue' \in Queues
  BY DEF SaveQueue, Visible

LEMMA SaveReceiptsType ==
    ASSUME receipts \in Stores, NEW new \in Stores, NEW outcome, SaveReceipts(new, outcome)
    PROVE  receipts' \in Stores
  BY DEF SaveReceipts, Visible

LEMMA SyncType ==
    ASSUME FilesType, NEW synced, Sync(synced)
    PROVE  accepts' \in [Services -> [Users -> Nat]]
  BY DEF FilesType, Sync, Account

LEMMA StopType ==
    ASSUME FilesType, NEW stopped, Stop(stopped)
    PROVE  accepts' \in [Services -> [Users -> Nat]]
  BY DEF FilesType, Stop

LEMMA FinishType ==
    ASSUME ActorsType, NEW t \in Threads, Finish(t)
    PROVE  req' \in [Threads -> Request] /\ SelfRequests'
  <1>1. req' \in [Threads -> Request]
    BY IdleTypes DEF ActorsType, Finish
  <1>2. IdleRequest.pc = "idle"
    BY DEF IdleRequest
  <1> QED BY <1>1, <1>2 DEF ActorsType, SelfRequests, Finish

LEMMA GotoType ==
    ASSUME ActorsType, NEW t \in Threads, NEW pc \in RequestPc \ {"receipt"}, 
           req[t].pc # "idle", Goto(t, pc)
    PROVE  req' \in [Threads -> Request] /\ SelfRequests'
  <1>1. req' \in [Threads -> Request]
    BY DEF ActorsType, Goto, Request
  <1> QED BY <1>1 DEF ActorsType, SelfRequests, Goto, Request

LEMMA WFinishType ==
    ASSUME ActorsType, NEW w \in Workers, WFinish(w)
    PROVE  wrk' \in [Workers -> Job]
  BY IdleTypes DEF ActorsType, WFinish

LEMMA WGotoType ==
    ASSUME ActorsType, NEW w \in Workers, NEW pc \in WorkerPc, WGoto(w, pc)
    PROVE  wrk' \in [Workers -> Job]
  BY DEF ActorsType, WGoto, Job

-----------------------------------------------------------------------------
(* One lemma per action: it keeps the types of what it changes.              *)

USE DEF stateVars, proxyVars, ghostVars

TypesPrimed == FilesType' /\ ActorsType' /\ OthersType'

LEMMA AdvanceType ==
    ASSUME ActorsType, NEW t \in Threads, NEW r \in Request,
           r.pc = "receipt" => r.op \in SelfOps,
           r.op \in SelfOps => r.session \in Sessions,
           req' = [req EXCEPT ![t] = r]
    PROVE  req' \in [Threads -> Request] /\ SelfRequests'
  BY DEF ActorsType, SelfRequests

LEMMA RenderPanelTypes ==
    ASSUME FilesType, ActorsType, OthersType, NEW op \in SelfOps, RenderPanel(op)
    PROVE  TypesPrimed
  <1>1. FilesType'
    BY DEF RenderPanel, FilesType
  <1>2. ActorsType'
    BY DEF RenderPanel, ActorsType, SelfRequests
  <1>3. OthersType'
    BY ModelAssumption DEF RenderPanel, OthersType, FilesType, Account, Op
  <1> QED BY <1>1, <1>2, <1>3 DEF TypesPrimed

LEMMA SelfBeginTypes ==
    ASSUME FilesType, ActorsType, OthersType, NEW t \in Threads, NEW op \in SelfOps, NEW session \in Sessions, SelfBegin(t, op, session)
    PROVE  TypesPrimed
  <1>1. FilesType'
    BY LiveType DEF SelfBegin, FilesType
  <1>2. ActorsType'
    <2>1. op \in Op
      BY DEF Op
    <2>2. ASSUME Bound(receipts, op, session)
          PROVE  receipts[op].old \in Nat /\ receipts[op].new \in Nat
      BY <2>2, StoreMember DEF FilesType, Bound, Live, Receipt
    <2> DEFINE next(old, new) ==
                 [[[[[IdleRequest EXCEPT !.pc = "lock"] EXCEPT !.op = op]
                       EXCEPT !.session = session] EXCEPT !.left = LockTimeout]
                    EXCEPT !.old = old, !.new = new]
    <2>3. ASSUME NEW old \in Nat, NEW new \in Nat
          PROVE  /\ next(old, new) \in Request
                 /\ next(old, new).pc = "lock" /\ next(old, new).session = session
      BY <2>1, IdleTypes, ModelAssumption DEF Request, RequestPc
    <2>4. PICK old \in Nat, new \in Nat : req' = [req EXCEPT ![t] = next(old, new)]
      BY <2>2 DEF SelfBegin
    <2> HIDE DEF next
    <2>5. req' \in [Threads -> Request] /\ SelfRequests'
      BY <2>3, <2>4, AdvanceType
    <2> QED BY <2>5 DEF SelfBegin, ActorsType
  <1>3. OthersType'
    BY DEF SelfBegin, OthersType
  <1> QED BY <1>1, <1>2, <1>3 DEF TypesPrimed

LEMMA AdminBeginTypes ==
    ASSUME FilesType, ActorsType, OthersType, NEW t \in Threads, NEW op \in AdminOps \cup DeleteOps, AdminBegin(t, op)
    PROVE  TypesPrimed
  <1>1. FilesType'
    BY DEF AdminBegin, FilesType
  <1>2. ActorsType'
    <2>1. op \in Op /\ op \notin SelfOps
      BY ModelAssumption DEF Op
    <2>2. [IdleRequest EXCEPT !.pc = "lock", !.op = op, !.left = LockTimeout] \in
            {r \in Request : r.pc = "lock" /\ r.op = op}
      BY <2>1, IdleTypes, ModelAssumption DEF Request, RequestPc
    <2> QED BY <2>1, <2>2 DEF AdminBegin, ActorsType, SelfRequests
  <1>3. OthersType'
    BY DEF AdminBegin, OthersType, Op
  <1> QED BY <1>1, <1>2, <1>3 DEF TypesPrimed

LEMMA LockTimedOutTypes ==
    ASSUME FilesType, ActorsType, OthersType, NEW t \in Threads, LockTimedOut(t)
    PROVE  TypesPrimed
  <1>1. FilesType'
    BY DEF LockTimedOut, FilesType
  <1>2. ActorsType'
    BY FinishType DEF LockTimedOut, ActorsType, SelfRequests
  <1>3. OthersType'
    BY DEF LockTimedOut, OthersType
  <1> QED BY <1>1, <1>2, <1>3 DEF TypesPrimed

LEMMA LockTypes ==
    ASSUME FilesType, ActorsType, OthersType, NEW t \in Threads, Lock(t)
    PROVE  TypesPrimed
  <1>1. FilesType'
    BY StopType DEF Lock, FilesType
  <1>2. ActorsType'
    BY FinishType DEF Lock, ActorsType, SelfRequests, Request, RequestPc
  <1>3. OthersType'
    BY ModelAssumption DEF Lock, OthersType, FilesType, Account, ActorsType, Request
  <1> QED BY <1>1, <1>2, <1>3 DEF TypesPrimed

LEMMA PrepareFreshReceiptTypes ==
    ASSUME FilesType, ActorsType, OthersType, NEW t \in Threads, PrepareFreshReceipt(t)
    PROVE  TypesPrimed
  <1>1. FilesType'
    <2> DEFINE op == req[t].op
               session == req[t].session
               current == users[UserOf[op]].gen
    <2>1. op \in SelfOps /\ session \in Sessions
      BY DEF PrepareFreshReceipt, ActorsType, SelfRequests
    <2>2. current \in Nat /\ fresh + 1 \in Nat
      BY <2>1, ModelAssumption DEF FilesType, OthersType, Account, Op
    <2>3. ReceiptPrepared(receipts, op, session, current, fresh + 1) \in Stores
      BY <2>1, <2>2, ReceiptPreparedType DEF FilesType
    <2>4. receipts' \in Stores
      BY <2>3, SaveReceiptsType DEF PrepareFreshReceipt, FilesType
    <2> QED BY <2>4 DEF PrepareFreshReceipt, FilesType
  <1>2. ActorsType'
    <2> DEFINE current == users[UserOf[req[t].op]].gen
               next == [[[req[t] EXCEPT !.pc = "task"] EXCEPT !.old = current] EXCEPT !.new = fresh']
    <2>1. current \in Nat /\ fresh' \in Nat
      BY ModelAssumption DEF PrepareFreshReceipt, FilesType, ActorsType, OthersType, Account, Request
    <2>2. /\ next \in Request
          /\ next.pc = "task" /\ next.op = req[t].op /\ next.session = req[t].session
      <3>1. req[t] \in Request
        BY DEF ActorsType
      <3> QED BY <3>1, <2>1 DEF Request, RequestPc
    <2>3. CASE Abort(t)
      BY <2>3, FinishType DEF PrepareFreshReceipt, ActorsType, Abort, Release
    <2>4. CASE req' = [req EXCEPT ![t] = next] /\ UNCHANGED lock
      <3>1. req[t].pc = "receipt" /\ UNCHANGED wrk
        BY DEF PrepareFreshReceipt
      <3> QED BY <2>2, <2>4, <3>1, AdvanceType DEF ActorsType, SelfRequests
    <2> QED BY <2>3, <2>4 DEF PrepareFreshReceipt
  <1>3. OthersType'
    <2>1. UNCHANGED <<conns, approved, page, spent, asked, undone>>
      BY DEF PrepareFreshReceipt, proxyVars
    <2>2. fresh' = fresh \/ fresh' = fresh + 1
      BY DEF PrepareFreshReceipt
    <2>3. fresh' \in Nat
      BY <2>2 DEF OthersType
    <2> QED BY <2>1, <2>3 DEF OthersType
  <1> QED BY <1>1, <1>2, <1>3 DEF TypesPrimed

LEMMA RefreshReceiptTypes ==
    ASSUME FilesType, ActorsType, OthersType, NEW t \in Threads, RefreshReceipt(t)
    PROVE  TypesPrimed
  <1>1. FilesType'
    <2> DEFINE op == req[t].op
               session == req[t].session
               old == IF req[t].new # 0 THEN req[t].old ELSE receipts[op].old
               new == IF req[t].new # 0 THEN req[t].new ELSE receipts[op].new
    <2>1. op \in SelfOps /\ session \in Sessions
      BY DEF RefreshReceipt, ActorsType, SelfRequests
    <2>2. old \in Nat /\ new \in Nat
      <3>1. CASE req[t].new # 0
        <4>1. req[t] \in Request
          BY DEF ActorsType
        <4> QED BY <3>1, <4>1 DEF Request
      <3>2. CASE req[t].new = 0
        <4>1. op \in DOMAIN receipts
          BY <3>2 DEF RefreshReceipt, Bound, Live
        <4>2. receipts[op] \in Receipt
          BY <4>1, StoreMember DEF FilesType
        <4> QED BY <3>2, <4>2 DEF Receipt
      <3> QED BY <3>1, <3>2
    <2>3. ReceiptPrepared(receipts, op, session, old, new) \in Stores
      BY <2>1, <2>2, ReceiptPreparedType DEF FilesType
    <2>4. receipts' \in Stores
      BY <2>3, SaveReceiptsType DEF RefreshReceipt, FilesType
    <2> QED BY <2>4 DEF RefreshReceipt, FilesType
  <1>2. ActorsType'
    <2> DEFINE op == req[t].op
               session == req[t].session
               old == IF req[t].new # 0 THEN req[t].old ELSE receipts[op].old
               new == IF req[t].new # 0 THEN req[t].new ELSE receipts[op].new
               store == ReceiptPrepared(receipts, op, session, old, new)
               next == [[[req[t] EXCEPT !.pc = "task"] EXCEPT !.old = store[op].old]
                                 EXCEPT !.new = store[op].new]
    <2>1. op \in SelfOps /\ session \in Sessions
      BY DEF RefreshReceipt, ActorsType, SelfRequests
    <2>2. old \in Nat /\ new \in Nat
      <3>1. CASE req[t].new # 0
        <4>1. req[t] \in Request
          BY DEF ActorsType
        <4> QED BY <3>1, <4>1 DEF Request
      <3>2. CASE req[t].new = 0
        <4>1. op \in DOMAIN receipts
          BY <3>2 DEF RefreshReceipt, Bound, Live
        <4>2. receipts[op] \in Receipt
          BY <4>1, StoreMember DEF FilesType
        <4> QED BY <3>2, <4>2 DEF Receipt
      <3> QED BY <3>1, <3>2
    <2>3. store \in Stores /\ op \in DOMAIN store
      BY <2>1, <2>2, ReceiptPreparedType DEF FilesType
    <2>4. store[op].old \in Nat /\ store[op].new \in Nat
      BY <2>3, StoreMember DEF Receipt
    <2> HIDE DEF store
    <2>5. /\ next \in Request
          /\ next.pc = "task" /\ next.op = req[t].op /\ next.session = req[t].session
      <3>1. req[t] \in Request
        BY DEF ActorsType
      <3> QED BY <3>1, <2>4 DEF Request, RequestPc
    <2>6. req[t].pc = "receipt" /\ UNCHANGED wrk
      BY DEF RefreshReceipt
    <2>7. Abort(t) \/ (req' = [req EXCEPT ![t] = next] /\ UNCHANGED lock)
      BY DEF RefreshReceipt, store
    <2>8. CASE Abort(t)
      BY <2>6, <2>8, FinishType DEF ActorsType, Abort, Release
    <2>9. CASE req' = [req EXCEPT ![t] = next] /\ UNCHANGED lock
      BY <2>1, <2>5, <2>6, <2>9, AdvanceType DEF ActorsType
    <2> QED BY <2>7, <2>8, <2>9
  <1>3. OthersType'
    BY DEF RefreshReceipt, OthersType
  <1> QED BY <1>1, <1>2, <1>3 DEF TypesPrimed

LEMMA PrepareTaskTypes ==
    ASSUME FilesType, ActorsType, OthersType, NEW t \in Threads, PrepareTask(t)
    PROVE  TypesPrimed
  <1>1. FilesType'
    <2> DEFINE op == req[t].op
               new == CASE op \in SelfOps -> req[t].new
                        [] op \in AdminOps -> fresh + 1
                        [] op \in DeleteOps -> 0
               target == IF op \in DeleteOps THEN DeleteTarget ELSE TokenGeneration(new)
    <2>1. op \in Op /\ users[UserOf[op]] \in Account /\ req[t].old \in Nat /\ new \in Nat
      BY ModelAssumption DEF FilesType, ActorsType, OthersType, Request, Op
    <2>2. PreviousOf(t) \in Digest
      BY <2>1 DEF PreviousOf, TokenGeneration, CredentialGeneration, DeletePreviousGeneration,
                  Account, Digest, Op
    <2>3. target \in Digest
      BY <2>1 DEF DeleteTarget, TokenGeneration, Digest
    <2>4. Prepared(queue, op, PreviousOf(t), target) \in Queues
      BY <2>1, <2>2, <2>3, PreparedType DEF FilesType
    <2>5. queue' \in Queues
      BY <2>4, SaveQueueType DEF PrepareTask, FilesType
    <2> QED BY <2>5 DEF PrepareTask, FilesType
  <1>2. ActorsType'
    <2> DEFINE new == CASE req[t].op \in SelfOps -> req[t].new
                        [] req[t].op \in AdminOps -> fresh + 1
                        [] req[t].op \in DeleteOps -> 0
               next == [[req[t] EXCEPT !.pc = "commit"] EXCEPT !.new = new]
    <2>1. new \in Nat
      BY DEF ActorsType, OthersType, Request, Op
    <2>2. /\ next \in Request
          /\ next.pc = "commit" /\ next.op = req[t].op /\ next.session = req[t].session
      <3>1. req[t] \in Request
        BY DEF ActorsType
      <3> QED BY <3>1, <2>1 DEF Request, RequestPc
    <2>3. req[t].pc = "task" /\ UNCHANGED wrk
      BY DEF PrepareTask
    <2>4. Abort(t) \/ (req' = [req EXCEPT ![t] = next] /\ UNCHANGED lock)
      BY DEF PrepareTask
    <2> HIDE DEF next
    <2>5. CASE Abort(t)
      BY <2>3, <2>5, FinishType DEF ActorsType, Abort, Release
    <2>6. CASE req' = [req EXCEPT ![t] = next] /\ UNCHANGED lock
      BY <2>2, <2>3, <2>6, AdvanceType DEF ActorsType, SelfRequests
    <2> QED BY <2>4, <2>5, <2>6
  <1>3. OthersType'
    BY DEF PrepareTask, OthersType, ActorsType, Request, Op
  <1> QED BY <1>1, <1>2, <1>3 DEF TypesPrimed

LEMMA CommitUsersTypes ==
    ASSUME FilesType, ActorsType, OthersType, NEW t \in Threads, CommitUsers(t)
    PROVE  TypesPrimed
  <1>1. FilesType'
    <2> DEFINE new == [users EXCEPT ![UserOf[req[t].op]] = Changed(t)]
    <2>1. new \in [Users -> Account]
      BY ModelAssumption DEF FilesType, ActorsType, Changed, NoAccount, Account, Request
    <2>2. PICK outcome \in SaveOutcome : SaveUsers(new, outcome)
      BY ModelAssumption DEF CommitUsers
    <2>3. users' \in [Users -> Account] /\ disk' \in SUBSET [Users -> Account] /\ users' \in disk'
      BY <2>1, <2>2, SaveUsersType
    <2>4. accepts' \in [Services -> [Users -> Nat]]
      BY StopType DEF CommitUsers, FilesType
    <2> QED BY <2>3, <2>4 DEF CommitUsers, FilesType
  <1>2. ActorsType'
    BY FinishType DEF CommitUsers, ActorsType, SelfRequests, Request, RequestPc, Abort, Release
  <1>3. OthersType'
    BY DEF CommitUsers, OthersType
  <1> QED BY <1>1, <1>2, <1>3 DEF TypesPrimed

LEMMA ConflictTypes ==
    ASSUME FilesType, ActorsType, OthersType, NEW t \in Threads, Conflict(t)
    PROVE  TypesPrimed
  <1>1. FilesType'
    BY DEF Conflict, FilesType
  <1>2. ActorsType'
    BY GotoType DEF Conflict, ActorsType, SelfRequests, Request, RequestPc
  <1>3. OthersType'
    BY DEF Conflict, OthersType
  <1> QED BY <1>1, <1>2, <1>3 DEF TypesPrimed

LEMMA DiscardReceiptTypes ==
    ASSUME FilesType, ActorsType, OthersType, NEW t \in Threads, DiscardReceipt(t)
    PROVE  TypesPrimed
  <1>1. FilesType'
    BY DropReceiptType, SaveReceiptsType DEF DiscardReceipt, FilesType
  <1>2. ActorsType'
    BY FinishType, GotoType DEF DiscardReceipt, ActorsType, SelfRequests, Request, RequestPc, Abort, Release
  <1>3. OthersType'
    BY DEF DiscardReceipt, OthersType
  <1> QED BY <1>1, <1>2, <1>3 DEF TypesPrimed

LEMMA DiscardTaskTypes ==
    ASSUME FilesType, ActorsType, OthersType, NEW t \in Threads, DiscardTask(t)
    PROVE  TypesPrimed
  <1>1. FilesType'
    BY DropType, SaveQueueType DEF DiscardTask, FilesType
  <1>2. ActorsType'
    BY FinishType DEF DiscardTask, ActorsType, SelfRequests, Abort, Release
  <1>3. OthersType'
    BY DEF DiscardTask, OthersType
  <1> QED BY <1>1, <1>2, <1>3 DEF TypesPrimed

LEMMA SyncStaticTypes ==
    ASSUME FilesType, ActorsType, OthersType, NEW t \in Threads, SyncStatic(t)
    PROVE  TypesPrimed
  <1>1. FilesType'
    BY SyncType DEF SyncStatic, FilesType
  <1>2. ActorsType'
    <2>1. PICK pc \in {"purge", "static"}, unsynced \in BOOLEAN :
            req' = [req EXCEPT ![t] = [[req[t] EXCEPT !.pc = pc] EXCEPT !.unsynced = unsynced]]
      BY DEF SyncStatic
    <2>2. [[req[t] EXCEPT !.pc = pc] EXCEPT !.unsynced = unsynced] \in Request
      <3>1. req[t] \in Request
        BY DEF ActorsType
      <3> QED BY <3>1 DEF Request, RequestPc
    <2>3. req' \in [Threads -> Request] /\ SelfRequests'
      BY <2>1, <2>2, AdvanceType DEF SyncStatic, ActorsType, SelfRequests, Request
    <2> QED BY <2>3 DEF SyncStatic, ActorsType, Release
  <1>3. OthersType'
    BY DEF SyncStatic, OthersType
  <1> QED BY <1>1, <1>2, <1>3 DEF TypesPrimed

LEMMA PurgeTypes ==
    ASSUME FilesType, ActorsType, OthersType, NEW t \in Threads, Purge(t)
    PROVE  TypesPrimed
  <1>1. FilesType'
    BY DEF Purge, FilesType
  <1>2. ActorsType'
    BY GotoType DEF Purge, ActorsType, SelfRequests, Request, RequestPc, Release
  <1>3. OthersType'
    BY DEF Purge, OthersType
  <1> QED BY <1>1, <1>2, <1>3 DEF TypesPrimed

LEMMA StaticEffectsTypes ==
    ASSUME FilesType, ActorsType, OthersType, NEW t \in Threads, StaticEffects(t)
    PROVE  TypesPrimed
  <1>1. FilesType'
    BY StopType DEF StaticEffects, FilesType
  <1>2. ActorsType'
    <2>1. PICK scheduled \in SUBSET Services, stopped \in SUBSET Services :
            LET failed == Services \ (scheduled \cup stopped)
            IN req' = [req EXCEPT ![t].done = scheduled \cup stopped, ![t].unsynced = FALSE,
                                  ![t].retry = failed,
                                  ![t].pc = IF failed = {} THEN "kick" ELSE "record"]
      BY DEF StaticEffects
    <2> DEFINE failed == Services \ (scheduled \cup stopped)
               done == scheduled \cup stopped
               pc == IF failed = {} THEN "kick" ELSE "record"
               next == [[[[req[t] EXCEPT !.done = done] EXCEPT !.unsynced = FALSE]
                           EXCEPT !.retry = failed] EXCEPT !.pc = pc]
    <2>2. /\ failed \in SUBSET Services /\ done \in SUBSET Services /\ pc \in {"kick", "record"}
          /\ req' = [req EXCEPT ![t].done = done, ![t].unsynced = FALSE,
                                ![t].retry = failed, ![t].pc = pc]
      BY <2>1
    <2> HIDE DEF failed, done, pc
    <2>3. req' = [req EXCEPT ![t] = next]
      BY <2>2
    <2>4. /\ next \in Request
          /\ next.pc # "receipt" /\ next.op = req[t].op /\ next.session = req[t].session
      <3>1. req[t] \in Request
        BY DEF ActorsType
      <3> QED BY <3>1, <2>2 DEF Request, RequestPc
    <2> HIDE DEF next
    <2>5. req' \in [Threads -> Request] /\ SelfRequests'
      BY <2>3, <2>4, AdvanceType DEF StaticEffects, ActorsType, SelfRequests
    <2> QED BY <2>5 DEF StaticEffects, ActorsType
  <1>3. OthersType'
    BY DEF StaticEffects, OthersType
  <1> QED BY <1>1, <1>2, <1>3 DEF TypesPrimed

LEMMA RecordStaticRetryTypes ==
    ASSUME FilesType, ActorsType, OthersType, NEW t \in Threads, RecordStaticRetry(t)
    PROVE  TypesPrimed
  <1>1. FilesType'
    BY WithStaticServicesType, SaveQueueType DEF RecordStaticRetry, FilesType, ActorsType, Request
  <1>2. ActorsType'
    <2> DEFINE next == [[req[t] EXCEPT !.pc = "kick"] EXCEPT !.retry = {}]
    <2>1. /\ next \in Request
          /\ next.pc = "kick" /\ next.op = req[t].op /\ next.session = req[t].session
      <3>1. req[t] \in Request
        BY DEF ActorsType
      <3> QED BY <3>1 DEF Request, RequestPc
    <2>2. req' = [req EXCEPT ![t] = next] /\ req[t].pc = "record"
      BY DEF RecordStaticRetry
    <2> HIDE DEF next
    <2>3. req' \in [Threads -> Request] /\ SelfRequests'
      BY <2>1, <2>2, AdvanceType DEF ActorsType, SelfRequests
    <2> QED BY <2>3 DEF RecordStaticRetry, ActorsType
  <1>3. OthersType'
    BY DEF RecordStaticRetry, OthersType
  <1> QED BY <1>1, <1>2, <1>3 DEF TypesPrimed

LEMMA KickUserTypes ==
    ASSUME FilesType, ActorsType, OthersType, NEW t \in Threads, KickUser(t)
    PROVE  TypesPrimed
  <1>1. FilesType'
    BY DEF KickUser, FilesType
  <1>2. ActorsType'
    BY DEF KickUser, ActorsType, SelfRequests, Request, RequestPc
  <1>3. OthersType'
    BY DEF KickUser, OthersType, Kick
  <1> QED BY <1>1, <1>2, <1>3 DEF TypesPrimed

LEMMA RecordKickAttemptTypes ==
    ASSUME FilesType, ActorsType, OthersType, NEW t \in Threads, RecordKickAttempt(t)
    PROVE  TypesPrimed
  <1>1. FilesType'
    BY AttemptRecordedType, SaveQueueType DEF RecordKickAttempt, FilesType, ActorsType, Request
  <1>2. ActorsType'
    BY FinishType DEF RecordKickAttempt, ActorsType, SelfRequests, Request, RequestPc
  <1>3. OthersType'
    BY DEF RecordKickAttempt, OthersType
  <1> QED BY <1>1, <1>2, <1>3 DEF TypesPrimed

LEMMA MintSessionTypes ==
    ASSUME FilesType, ActorsType, OthersType, NEW t \in Threads, MintSession(t)
    PROVE  TypesPrimed
  <1>1. FilesType'
    BY DEF MintSession, FilesType
  <1>2. ActorsType'
    BY FinishType, GotoType DEF MintSession, ActorsType, SelfRequests, Request, RequestPc
  <1>3. OthersType'
    BY DEF MintSession, OthersType
  <1> QED BY <1>1, <1>2, <1>3 DEF TypesPrimed

LEMMA BindReplacementTypes ==
    ASSUME FilesType, ActorsType, OthersType, NEW t \in Threads, BindReplacement(t)
    PROVE  TypesPrimed
  <1>1. FilesType'
    BY ReceiptReboundType, SaveReceiptsType DEF BindReplacement, FilesType
  <1>2. ActorsType'
    BY FinishType DEF BindReplacement, ActorsType, SelfRequests
  <1>3. OthersType'
    BY DEF BindReplacement, OthersType
  <1> QED BY <1>1, <1>2, <1>3 DEF TypesPrimed

LEMMA ClaimTypes ==
    ASSUME FilesType, ActorsType, OthersType, NEW w \in Workers, NEW id \in Op, NEW outcome, Claim(w, id, outcome)
    PROVE  TypesPrimed
  <1>1. FilesType'
    BY ClaimedType, SaveQueueType DEF Claim, FilesType, Due
  <1>2. ActorsType'
    <2>1. queue[id] \in Task
      BY QueueMember DEF Claim, Due, FilesType
    <2> DEFINE job == [[[[[[IdleJob EXCEPT !.pc = "lock"] EXCEPT !.op = id]
                            EXCEPT !.previous = queue[id].previous]
                           EXCEPT !.target = queue[id].target]
                          EXCEPT !.static = queue[id].static] EXCEPT !.ttl = queue[id].ttl]
    <2>2. job \in Job
      BY <2>1, IdleTypes DEF Job, WorkerPc, Task
    <2>3. ClaimedJob(id, queue[id]) = job
      BY DEF ClaimedJob
    <2>4. wrk' \in [Workers -> Job]
      BY <2>2, <2>3 DEF Claim, ActorsType
    <2> QED BY <2>4 DEF Claim, ActorsType, SelfRequests
  <1>3. OthersType'
    BY DEF Claim, OthersType
  <1> QED BY <1>1, <1>2, <1>3 DEF TypesPrimed

LEMMA WorkerLockTypes ==
    ASSUME FilesType, ActorsType, OthersType, NEW w \in Workers, WorkerLock(w)
    PROVE  TypesPrimed
  <1>1. FilesType'
    BY DEF WorkerLock, FilesType
  <1>2. ActorsType'
    <2>1. UNCHANGED req /\ lock' \in {lock, w}
      BY DEF WorkerLock
    <2>2. PICK pc \in WorkerPc : WDecide(w, pc) \/ WGoto(w, pc)
      BY DEF WorkerLock, WorkerPc
    <2>3. NoAccount \in Digest
      BY DEF Digest, NoAccount
    <2>4. CASE WDecide(w, pc)
      <3>1. ASSUME NEW job \in Job
            PROVE  [job EXCEPT !.pc = pc, !.previous = NoAccount, !.target = NoAccount, !.ttl = 0] \in Job
        BY <2>3 DEF Job
      <3>2. wrk' = [wrk EXCEPT ![w] = [wrk[w] EXCEPT !.pc = pc, !.previous = NoAccount,
                                                     !.target = NoAccount, !.ttl = 0]]
        BY <2>4 DEF WDecide, ActorsType
      <3>3. wrk' \in [Workers -> Job]
        BY <3>1, <3>2 DEF ActorsType
      <3> QED BY <2>1, <3>3 DEF ActorsType, SelfRequests
    <2>5. CASE WGoto(w, pc)
      BY <2>1, <2>5, WGotoType DEF ActorsType, SelfRequests
    <2> QED BY <2>2, <2>4, <2>5
  <1>3. OthersType'
    BY DEF WorkerLock, OthersType
  <1> QED BY <1>1, <1>2, <1>3 DEF TypesPrimed

LEMMA WorkerLockTimedOutTypes ==
    ASSUME FilesType, ActorsType, OthersType, NEW w \in Workers, WorkerLockTimedOut(w)
    PROVE  TypesPrimed
  <1>1. FilesType'
    BY DEF WorkerLockTimedOut, FilesType
  <1>2. ActorsType'
    BY WGotoType DEF WorkerLockTimedOut, ActorsType, SelfRequests, Job, WorkerPc
  <1>3. OthersType'
    BY DEF WorkerLockTimedOut, OthersType
  <1> QED BY <1>1, <1>2, <1>3 DEF TypesPrimed

LEMMA WorkerSaveTypes ==
    ASSUME FilesType, ActorsType, OthersType, NEW w \in Workers, NEW outcome \in SaveOutcome, WorkerSave(w, outcome)
    PROVE  TypesPrimed
  <1>1. FilesType'
    <2> DEFINE new == [users EXCEPT ![JobUser(w)] = NoAccount]
    <2>1. new \in [Users -> Account]
      BY DEF FilesType, NoAccount, Account
    <2>2. users' \in [Users -> Account] /\ disk' \in SUBSET [Users -> Account] /\ users' \in disk'
      BY <2>1, SaveUsersType DEF WorkerSave
    <2> QED BY <2>2 DEF WorkerSave, FilesType
  <1>2. ActorsType'
    BY WGotoType DEF WorkerSave, ActorsType, SelfRequests, Job, WorkerPc, Release
  <1>3. OthersType'
    BY DEF WorkerSave, OthersType
  <1> QED BY <1>1, <1>2, <1>3 DEF TypesPrimed

LEMMA WorkerPurgeTypes ==
    ASSUME FilesType, ActorsType, OthersType, NEW w \in Workers, WorkerPurge(w)
    PROVE  TypesPrimed
  <1>1. FilesType'
    BY DEF WorkerPurge, FilesType
  <1>2. ActorsType'
    BY WGotoType DEF WorkerPurge, ActorsType, SelfRequests, Job, WorkerPc, Release
  <1>3. OthersType'
    BY DEF WorkerPurge, OthersType
  <1> QED BY <1>1, <1>2, <1>3 DEF TypesPrimed

LEMMA WorkerSyncTypes ==
    ASSUME FilesType, ActorsType, OthersType, NEW w \in Workers, NEW synced \in SUBSET Services, WorkerSync(w, synced)
    PROVE  TypesPrimed
  <1>1. FilesType'
    BY SyncType DEF WorkerSync, FilesType
  <1>2. ActorsType'
    <2> DEFINE next == [[wrk[w] EXCEPT !.pc = "static"] EXCEPT !.unsynced = (synced # Services)]
    <2>1. next \in Job
      BY DEF ActorsType, Job, WorkerPc
    <2>2. wrk' = [wrk EXCEPT ![w] = next]
      BY DEF WorkerSync
    <2> QED BY <2>1, <2>2 DEF WorkerSync, ActorsType, SelfRequests, Release
  <1>3. OthersType'
    BY DEF WorkerSync, OthersType
  <1> QED BY <1>1, <1>2, <1>3 DEF TypesPrimed

LEMMA WorkerGiveUpTypes ==
    ASSUME FilesType, ActorsType, OthersType, NEW w \in Workers, WorkerGiveUp(w)
    PROVE  TypesPrimed
  <1>1. FilesType'
    BY ReleasedType, SaveQueueType, StopType DEF WorkerGiveUp, FilesType
  <1>2. ActorsType'
    BY WFinishType DEF WorkerGiveUp, ActorsType, SelfRequests
  <1>3. OthersType'
    BY DEF WorkerGiveUp, OthersType
  <1> QED BY <1>1, <1>2, <1>3 DEF TypesPrimed

LEMMA WorkerPreviousTypes ==
    ASSUME FilesType, ActorsType, OthersType, NEW w \in Workers, NEW outcome, WorkerPrevious(w, outcome)
    PROVE  TypesPrimed
  <1>1. FilesType'
    BY ReleasedType, DropType, SaveQueueType DEF WorkerPrevious, FilesType
  <1>2. ActorsType'
    BY WFinishType DEF WorkerPrevious, ActorsType, SelfRequests
  <1>3. OthersType'
    BY DEF WorkerPrevious, OthersType
  <1> QED BY <1>1, <1>2, <1>3 DEF TypesPrimed

LEMMA WorkerSupersededTypes ==
    ASSUME FilesType, ActorsType, OthersType, NEW w \in Workers, NEW outcome, WorkerSuperseded(w, outcome)
    PROVE  TypesPrimed
  <1>1. FilesType'
    BY DropType, SaveQueueType DEF WorkerSuperseded, FilesType
  <1>2. ActorsType'
    BY WFinishType DEF WorkerSuperseded, ActorsType, SelfRequests
  <1>3. OthersType'
    BY DEF WorkerSuperseded, OthersType
  <1> QED BY <1>1, <1>2, <1>3 DEF TypesPrimed

LEMMA WorkerStaticTypes ==
    ASSUME FilesType, ActorsType, OthersType, NEW w \in Workers, WorkerStatic(w)
    PROVE  TypesPrimed
  <1>1. FilesType'
    BY StopType DEF WorkerStatic, FilesType
  <1>2. ActorsType'
    <2>1. PICK done \in SUBSET Services :
            wrk' = [wrk EXCEPT ![w].pc = "kick", ![w].done = done,
                               ![w].static = {}, ![w].unsynced = FALSE]
      <3>1. ASSUME NEW scheduled \in SUBSET wrk[w].static
            PROVE  \A stopped : (scheduled \cup stopped) \cap wrk[w].static \in SUBSET Services
        BY DEF ActorsType, Job
      <3> QED BY <3>1 DEF WorkerStatic
    <2> DEFINE next == [[[[wrk[w] EXCEPT !.pc = "kick"] EXCEPT !.done = done]
                           EXCEPT !.static = {}] EXCEPT !.unsynced = FALSE]
    <2>2. next \in Job
      BY DEF ActorsType, Job, WorkerPc
    <2>3. wrk' = [wrk EXCEPT ![w] = next]
      BY <2>1
    <2>4. wrk' \in [Workers -> Job]
      BY <2>2, <2>3 DEF ActorsType
    <2> QED BY <2>4 DEF WorkerStatic, ActorsType, SelfRequests
  <1>3. OthersType'
    BY DEF WorkerStatic, OthersType
  <1> QED BY <1>1, <1>2, <1>3 DEF TypesPrimed

LEMMA WorkerKickTypes ==
    ASSUME FilesType, ActorsType, OthersType, NEW w \in Workers, NEW ok \in BOOLEAN, WorkerKick(w, ok)
    PROVE  TypesPrimed
  <1>1. FilesType'
    BY DEF WorkerKick, FilesType
  <1>2. ActorsType'
    BY DEF WorkerKick, ActorsType, SelfRequests, Job, WorkerPc
  <1>3. OthersType'
    BY DEF WorkerKick, OthersType, Kick
  <1> QED BY <1>1, <1>2, <1>3 DEF TypesPrimed

LEMMA WorkerCompleteTypes ==
    ASSUME FilesType, ActorsType, OthersType, NEW w \in Workers, NEW outcome, WorkerComplete(w, outcome)
    PROVE  TypesPrimed
  <1>1. FilesType'
    BY AttemptRecordedType, SaveQueueType DEF WorkerComplete, FilesType, ActorsType, Job
  <1>2. ActorsType'
    BY WFinishType DEF WorkerComplete, ActorsType, SelfRequests
  <1>3. OthersType'
    BY DEF WorkerComplete, OthersType
  <1> QED BY <1>1, <1>2, <1>3 DEF TypesPrimed

LEMMA PruneReceiptsTypes ==
    ASSUME FilesType, ActorsType, OthersType, PruneReceipts
    PROVE  TypesPrimed
  <1>1. FilesType'
    BY LiveType DEF PruneReceipts, FilesType
  <1>2. ActorsType'
    BY DEF PruneReceipts, ActorsType, SelfRequests
  <1>3. OthersType'
    BY DEF PruneReceipts, OthersType
  <1> QED BY <1>1, <1>2, <1>3 DEF TypesPrimed

LEMMA CreateUserTypes ==
    ASSUME FilesType, ActorsType, OthersType, NEW u \in Users, CreateUser(u)
    PROVE  TypesPrimed
  <1>1. FilesType'
    <2> DEFINE new == [users EXCEPT ![u] = [gen |-> fresh + 1, rev |-> 1]]
    <2>1. new \in [Users -> Account] /\ users \in [Users -> Account]
      BY DEF FilesType, OthersType, Account
    <2>2. /\ users' \in [Users -> Account]
          /\ disk' \in SUBSET [Users -> Account] /\ users' \in disk'
          /\ accepts' \in [Services -> [Users -> Nat]]
      <3>1. CASE SaveUsers(new, "ok") /\ accepts' = [s \in Services |-> [v \in Users |-> new[v].gen]]
        BY <2>1, <3>1, SaveUsersType DEF SaveOutcome, Account
      <3>2. CASE SaveUsers(new, "uncertain") /\ UNCHANGED accepts
        BY <2>1, <3>2, SaveUsersType DEF SaveOutcome, FilesType
      <3>3. ASSUME NEW rollback \in Outcomes, NEW touched \in SUBSET Services,
                   users' = Visible(new, users, rollback),
                   disk' = OnDisk({new}, users, rollback),
                   accepts' = [s \in Services |->
                                 IF s \in touched THEN [accepts[s] EXCEPT ![u] = users'[u].gen]
                                 ELSE accepts[s]]
            PROVE  /\ users' \in [Users -> Account]
                   /\ disk' \in SUBSET [Users -> Account] /\ users' \in disk'
                   /\ accepts' \in [Services -> [Users -> Nat]]
        <4>1. rollback \in SaveOutcome
          BY ModelAssumption
        <4> HIDE DEF new
        <4>2. users' \in [Users -> Account]
          BY <2>1, <3>3 DEF Visible
        <4>3. disk' \in SUBSET [Users -> Account] /\ users' \in disk'
          BY <2>1, <3>3, <4>1 DEF Visible, OnDisk, SaveOutcome
        <4>4. accepts' \in [Services -> [Users -> Nat]]
          BY <3>3, <4>2 DEF FilesType, Account
        <4> QED BY <4>2, <4>3, <4>4
      <3> QED BY <3>1, <3>2, <3>3 DEF CreateUser
    <2> QED BY <2>2 DEF CreateUser, FilesType
  <1>2. ActorsType'
    BY DEF CreateUser, ActorsType, SelfRequests
  <1>3. OthersType'
    BY DEF CreateUser, OthersType
  <1> QED BY <1>1, <1>2, <1>3 DEF TypesPrimed

LEMMA UpdateUserTypes ==
    ASSUME FilesType, ActorsType, OthersType, NEW u \in Users, UpdateUser(u)
    PROVE  TypesPrimed
  <1>1. FilesType'
    <2> DEFINE new == [users EXCEPT ![u].rev = @ + 1]
    <2>1. new \in [Users -> Account]
      BY DEF FilesType, Account
    <2>2. PICK outcome \in SaveOutcome : SaveUsers(new, outcome)
      BY ModelAssumption DEF UpdateUser
    <2>3. users' \in [Users -> Account] /\ disk' \in SUBSET [Users -> Account] /\ users' \in disk'
      BY <2>1, <2>2, SaveUsersType
    <2>4. accepts' \in [Services -> [Users -> Nat]]
      BY SyncType DEF UpdateUser, FilesType
    <2> QED BY <2>3, <2>4 DEF UpdateUser, FilesType
  <1>2. ActorsType'
    BY DEF UpdateUser, ActorsType, SelfRequests
  <1>3. OthersType'
    BY DEF UpdateUser, OthersType
  <1> QED BY <1>1, <1>2, <1>3 DEF TypesPrimed

LEMMA ReconcileTypes ==
    ASSUME FilesType, ActorsType, OthersType, Reconcile
    PROVE  TypesPrimed
  <1>1. FilesType'
    BY SyncType, StopType DEF Reconcile, FilesType
  <1>2. ActorsType'
    BY DEF Reconcile, ActorsType, SelfRequests
  <1>3. OthersType'
    BY DEF Reconcile, OthersType
  <1> QED BY <1>1, <1>2, <1>3 DEF TypesPrimed

LEMMA AuthenticateTypes ==
    ASSUME FilesType, ActorsType, OthersType, NEW u \in Users, Authenticate(u)
    PROVE  TypesPrimed
  <1>1. FilesType'
    BY DEF Authenticate, FilesType
  <1>2. ActorsType'
    BY DEF Authenticate, ActorsType, SelfRequests
  <1>3. OthersType'
    BY ModelAssumption DEF Authenticate, OthersType, FilesType, Account
  <1> QED BY <1>1, <1>2, <1>3 DEF TypesPrimed

LEMMA EstablishTypes ==
    ASSUME FilesType, ActorsType, OthersType, NEW a \in approved, Establish(a)
    PROVE  TypesPrimed
  <1>1. FilesType'
    BY DEF Establish, FilesType
  <1>2. ActorsType'
    BY DEF Establish, ActorsType, SelfRequests
  <1>3. OthersType'
    BY DEF Establish, OthersType
  <1> QED BY <1>1, <1>2, <1>3 DEF TypesPrimed

LEMMA TickTypes ==
    ASSUME FilesType, ActorsType, OthersType, Tick
    PROVE  TypesPrimed
  <1>1. FilesType'
    BY QueueTickType, ReceiptTickType DEF Tick, FilesType
  <1>2. ActorsType'
    <2>1. \A t \in Threads : /\ [req[t] EXCEPT !.left = Elapse(@)] \in Request
                               /\ [req[t] EXCEPT !.left = Elapse(@)].op = req[t].op
                               /\ [req[t] EXCEPT !.left = Elapse(@)].pc = req[t].pc
                               /\ [req[t] EXCEPT !.left = Elapse(@)].session = req[t].session
      BY DEF ActorsType, Request, Elapse
    <2>2. \A w \in Workers : [wrk[w] EXCEPT !.ttl = Elapse(@)] \in Job
      BY DEF ActorsType, Job, Elapse
    <2>3. req' \in [Threads -> Request] /\ wrk' \in [Workers -> Job]
      BY <2>1, <2>2 DEF Tick
    <2>4. SelfRequests'
      BY <2>1 DEF Tick, ActorsType, SelfRequests
    <2> QED BY <2>3, <2>4 DEF Tick, ActorsType
  <1>3. OthersType'
    BY DEF Tick, OthersType
  <1> QED BY <1>1, <1>2, <1>3 DEF TypesPrimed

LEMMA CrashTypes ==
    ASSUME FilesType, ActorsType, OthersType, Crash
    PROVE  TypesPrimed
  <1>1. FilesType'
    BY DEF Crash, FilesType
  <1>2. ActorsType'
    BY IdleTypes DEF Crash, ActorsType, SelfRequests, ProcessDies, IdleRequest
  <1>3. OthersType'
    BY DEF Crash, OthersType
  <1> QED BY <1>1, <1>2, <1>3 DEF TypesPrimed

LEMMA PowerLossTypes ==
    ASSUME FilesType, ActorsType, OthersType, PowerLoss
    PROVE  TypesPrimed
  <1>1. FilesType'
    BY DEF PowerLoss, FilesType
  <1>2. ActorsType'
    BY IdleTypes DEF PowerLoss, ActorsType, SelfRequests, ProcessDies, IdleRequest
  <1>3. OthersType'
    BY DEF PowerLoss, OthersType
  <1> QED BY <1>1, <1>2, <1>3 DEF TypesPrimed

LEMMA InitTypes ==
    ASSUME Init
    PROVE  FilesType /\ ActorsType /\ OthersType
  <1>1. users \in [Users -> Account] /\ \A u \in Users : users[u].gen = 1
    BY DEF Init, Account
  <1>2. queue \in Queues /\ receipts \in Stores
    BY QueueMember, StoreMember DEF Init
  <1>3. FilesType
    BY <1>1, <1>2 DEF Init, FilesType
  <1>4. ActorsType
    BY IdleTypes DEF Init, ActorsType, SelfRequests, IdleRequest
  <1>5. OthersType
    BY DEF Init, OthersType
  <1> QED BY <1>3, <1>4, <1>5

LEMMA RequestStepTypes ==
    ASSUME FilesType, ActorsType, OthersType, NEW t \in Threads, RequestStep(t)
    PROVE  TypesPrimed
  BY LockTimedOutTypes, LockTypes, PrepareFreshReceiptTypes, RefreshReceiptTypes,
     PrepareTaskTypes, CommitUsersTypes, ConflictTypes, DiscardReceiptTypes,
     DiscardTaskTypes, SyncStaticTypes, PurgeTypes, StaticEffectsTypes,
     RecordStaticRetryTypes, KickUserTypes, RecordKickAttemptTypes, MintSessionTypes,
     BindReplacementTypes DEF RequestStep

LEMMA WorkerStepTypes ==
    ASSUME FilesType, ActorsType, OthersType, NEW w \in Workers, WorkerStep(w)
    PROVE  TypesPrimed
  <1>1. \A outcome \in Outcomes : outcome \in SaveOutcome
    BY ModelAssumption
  <1> QED
    BY <1>1, ClaimTypes, WorkerLockTypes, WorkerLockTimedOutTypes, WorkerSaveTypes,
       WorkerPurgeTypes, WorkerSyncTypes, WorkerGiveUpTypes, WorkerPreviousTypes,
       WorkerSupersededTypes, WorkerStaticTypes, WorkerKickTypes,
       WorkerCompleteTypes DEF WorkerStep

LEMMA EnvironmentTypes ==
    ASSUME FilesType, ActorsType, OthersType, Environment
    PROVE  TypesPrimed
  BY RenderPanelTypes, CreateUserTypes, UpdateUserTypes, AuthenticateTypes,
     EstablishTypes, ReconcileTypes, CrashTypes, PowerLossTypes DEF Environment

LEMMA StutterTypes ==
    ASSUME FilesType, ActorsType, OthersType, UNCHANGED vars
    PROVE  TypesPrimed
  BY DEF vars, TypesPrimed, FilesType, ActorsType, OthersType, SelfRequests

LEMMA StepTypes ==
    ASSUME FilesType, ActorsType, OthersType, [Next]_vars
    PROVE  TypesPrimed
  <1>1. ASSUME NEW t \in Threads, Begin(t)
        PROVE  TypesPrimed
    BY <1>1, SelfBeginTypes, AdminBeginTypes DEF Begin
  <1>2. CASE Next
    BY <1>1, <1>2, RequestStepTypes, WorkerStepTypes, PruneReceiptsTypes, TickTypes,
       EnvironmentTypes DEF Next
  <1>3. CASE UNCHANGED vars
    BY <1>3, StutterTypes
  <1> QED BY <1>2, <1>3

\* Whatever the handlers, the workers, the clients and the crashes do, every file,
\* request and job keeps the form the code writes it in.
THEOREM TypeCorrect == Spec => []TypeOK
  <1>1. Init => TypeInv
    BY InitTypes, TypeParts
  <1>2. TypeInv /\ [Next]_vars => TypeInv'
    BY StepTypes, TypeParts, TypePartsPrimed DEF TypesPrimed
  <1>3. TypeInv => TypeOK
    BY DEF TypeInv
  <1> QED BY <1>1, <1>2, <1>3, PTL DEF Spec
=============================================================================
