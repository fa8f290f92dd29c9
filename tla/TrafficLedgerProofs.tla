------------------------- MODULE TrafficLedgerProofs -------------------------
(***************************************************************************)
(* Theorems about TrafficLedger, for any number of cycles, bytes, runs and *)
(* failures: a pending journal can always be carried out, the quota ledger *)
(* leads, a settlement day takes nothing back, a refresh loses nothing,    *)
(* and the three files of TUIC implement AtomicCredit.                     *)
(***************************************************************************)
EXTENDS TrafficLedger, TLAPS

-----------------------------------------------------------------------------
(* The inductive invariant: what holds of every directory that a power loss  *)
(* may leave, and what the holder of usage.lock relies on.                   *)

Balanced(files) == files.daily.tuic = files.usage.tuic /\ files.usage.tuic = files.source.seen
Leads(usage, daily) == \A c \in Cycles : usage.total[c] <= daily.total[c]
Credits(usage) == \A c \in Cycles : usage.total[c] = usage.credited[c]
Kept(preserved, daily) == \A c \in Cycles : preserved[c] + daily.total[c] >= daily.owed[c]

\* The images of a pending journal: either file of the one may meet either file
\* of the other on the way.
ImagesSound(d) ==
    /\ Fits(d)
    /\ Balanced(d.journal.after)
    /\ Leads(d.journal.before.usage, d.journal.after.daily)
    /\ Leads(d.journal.after.usage, d.journal.after.daily)
    /\ Credits(d.journal.after.usage)
    /\ Kept(d.preserved, d.journal.after.daily)

Sound(d) ==
    /\ Leads(d.usage, d.daily)
    /\ Credits(d.usage)
    /\ Kept(d.preserved, d.daily)
    /\ IF d.journal = None THEN Balanced(d) ELSE ImagesSound(d)

\* Times are ordered: a cycle opens on its settlement day.
NotAfter(a, b) == a.cycle < b.cycle \/ (a.cycle = b.cycle /\ (a.settling \/ ~b.settling))

\* At time t, a reset that takes a credit back is not due any more.
Timely(credited, reset, t) ==
    \A c \in Cycles : credited[c] # 0 =>
        c < t.cycle \/ (c = t.cycle /\ (t.settling => reset = c))
InTime(d, t) ==
    /\ Timely(d.usage.credited, d.reset, t)
    /\ d.journal # None => Timely(d.journal.after.usage.credited, d.reset, t)

TickJob(j) == j.pc # "idle" /\ j.kind = "tick"
AlwaysInTime(d, j) ==
    /\ InTime(d, today)
    /\ tick # None => InTime(d, tick)
    /\ TickJob(j) => InTime(d, j.now)

\* Checkpoints are of samples that were taken.
Earlier(gen, count, run) == gen <= run.gen /\ (gen = run.gen => count <= run.count)
Sampled(d) ==
    /\ Earlier(d.source.gen, d.source.count, counter)
    /\ d.journal # None =>
        Earlier(d.journal.after.source.gen, d.journal.after.source.count, counter)

Replaying == {"redaily", "reusage", "resource", "unlink"}
HasSample(j) == j.pc = "credit" \/ (j.pc \in {"reset", "mark"} /\ j.next = "credit")
Forgiven(d, j) == j.kind # "reset" => d.preserved[j.now.cycle] >= d.daily.owed[j.now.cycle]

\* What the holder of the lock relies on.
Holder(d, j) ==
    /\ j.pc \in Replaying => d.journal # None
    /\ j.pc \notin Replaying \cup {"idle", "recover"} => d.journal = None
    /\ j.pc \in {"reusage", "resource", "unlink"} => d.daily = d.journal.after.daily
    /\ j.pc \in {"resource", "unlink"} => d.usage = d.journal.after.usage
    /\ j.pc = "unlink" => d.source = d.journal.after.source
    /\ j.pc \in Replaying \cup {"recover"} =>
        /\ j.next \in {"collect", "clear", "preserve", "zerousage"}
        /\ j.next \in {"collect", "clear"} => j.kind = "tick"
        /\ j.next \in {"preserve", "zerousage"} => j.kind # "tick"
        /\ j.next = "zerousage" => j.kind = "reset"
    /\ j.pc \in {"collect", "reset", "mark", "credit", "clear", "daily", "usage"} => j.kind = "tick"
    /\ j.pc \in {"preserve", "zerousage", "zerodaily"} => j.kind # "tick"
    /\ j.pc \in {"reset", "mark"} => j.next \in {"credit", "daily"}
    /\ j.pc \in {"credit", "daily", "usage"} => (j.now.settling => d.reset = j.now.cycle)
    /\ HasSample(j) =>
        /\ Earlier(j.gen, j.count, counter)
        /\ Earlier(d.source.gen, d.source.count, [gen |-> j.gen, count |-> j.count])
    /\ j.pc = "usage" =>
        d.usage.total[j.now.cycle] + j.taken <= d.daily.total[j.now.cycle]
    /\ j.pc \in {"zerousage", "zerodaily"} => Forgiven(d, j)
    /\ j.pc = "zerodaily" => d.usage.total[j.now.cycle] = 0

DiskInv == \A d \in disk :
    /\ Sound(d) /\ AlwaysInTime(d, job) /\ Sampled(d)
    /\ Settled(d).source.seen <= Settled(dir).source.seen

TimeInv ==
    /\ tick # None => NotAfter(tick, today)
    /\ TickJob(job) => NotAfter(job.now, today) /\ tick = None

Inv == TypeOK /\ DiskInv /\ TimeInv /\ Holder(dir, job)
-----------------------------------------------------------------------------
(* The kinds of steps. *)

\* What a save can come to.
LEMMA SaveOutcomes ==
  ASSUME NEW new \in Directory, NEW following \in Job, SaveThen(new, following), TypeOK
  PROVE  /\ dir' \in disk' /\ disk' \subseteq disk \cup {new}
         /\ dir' = new \/ (dir' = dir /\ disk' = disk)
         /\ \/ job' = following /\ dir' = new /\ disk' = {new}
            \/ job' = IdleJob
         /\ faults' \in 0..MaxFaults
  <1>1. PICK outcome \in Outcomes :
          /\ dir' = Visible(dir, new, outcome)
          /\ disk' = OnDisk(disk, new, outcome)
          /\ IF outcome = "ok" THEN job' = following /\ UNCHANGED faults ELSE Abort
    BY DEF SaveThen
  <1>2. outcome \in SaveOutcome
    BY LedgerAssumption
  <1>3. CASE outcome = "ok"
    BY <1>1, <1>3 DEF Visible, OnDisk, TypeOK
  <1>4. CASE outcome = "uncertain"
    BY <1>1, <1>4, LedgerAssumption DEF Visible, OnDisk, TypeOK, Abort, Fault
  <1>5. CASE outcome = "failed"
    BY <1>1, <1>5, LedgerAssumption DEF Visible, OnDisk, TypeOK, Abort, Fault
  <1> QED BY <1>2, <1>3, <1>4, <1>5 DEF SaveOutcome

LEMMA IdleJobIsJob == IdleJob \in Job
  <1>1. 1 \in Cycles
    BY LedgerAssumption DEF Cycles
  <1> QED BY <1>1 DEF IdleJob, Job, Pc, Day

\* Nobody relies on anything while the lock is free.
LEMMA NobodyHolds == ASSUME NEW d, NEW j, j.pc = "idle" PROVE Holder(d, j)
  BY DEF Holder, HasSample, Replaying

\* A save of a sound directory, by a holder that goes on or gives up.
LEMMA SaveKeepsInv ==
  ASSUME Inv, NEW new \in Directory, NEW following \in Job,
         SaveThen(new, following), KeepWorld, job.pc # "idle",
         following.pc # "idle" => following.kind = job.kind /\ following.now = job.now,
         Sound(new), AlwaysInTime(new, job), Sampled(new),
         Settled(new).source.seen >= Settled(dir).source.seen,
         Holder(new, following)
  PROVE  Inv'
  <1>1. /\ dir' \in disk' /\ disk' \subseteq disk \cup {new}
        /\ dir' = new \/ (dir' = dir /\ disk' = disk)
        /\ \/ job' = following /\ dir' = new /\ disk' = {new}
           \/ job' = IdleJob
        /\ faults' \in 0..MaxFaults
    BY SaveOutcomes DEF Inv
  <1>2. IdleJob \in Job /\ IdleJob.pc = "idle"
    BY IdleJobIsJob DEF Inv, IdleJob
  <1>3. TypeOK'
    BY <1>1, <1>2 DEF Inv, TypeOK, KeepWorld
  <1>4. TickJob(job') => TickJob(job) /\ job'.now = job.now
    BY <1>1, <1>2 DEF TickJob
  <1>5. TimeInv'
    BY <1>4 DEF Inv, TimeInv, KeepWorld
  <1>6. ASSUME NEW d \in disk'
        PROVE  (/\ Sound(d) /\ AlwaysInTime(d, job) /\ Sampled(d)
                /\ Settled(d).source.seen <= Settled(dir).source.seen)'
    <2>1. /\ Sound(d) /\ AlwaysInTime(d, job) /\ Sampled(d)
          /\ d \in {new} \cup disk
      BY <1>1 DEF Inv, DiskInv
    <2>2. AlwaysInTime(d, job)'
      BY <2>1, <1>4 DEF AlwaysInTime, KeepWorld
    <2>3. Sampled(d)'
      BY <2>1 DEF Sampled, KeepWorld
    <2>4. Settled(d).source.seen <= Settled(dir').source.seen
      <3>1. d \in Directory /\ dir \in Directory
        BY <2>1 DEF Inv, TypeOK
      <3>2. \A e \in Directory : Settled(e).source.seen \in Nat
        BY DEF Settled, Current, Directory, Journal, Ledgers, SourceFile
      <3>3. CASE dir' = new
        BY <3>1, <3>2, <3>3, <2>1 DEF Inv, DiskInv
      <3>4. CASE dir' = dir /\ disk' = disk
        BY <3>4 DEF Inv, DiskInv
      <3> QED BY <1>1, <3>3, <3>4
    <2> QED BY <2>1, <2>2, <2>3, <2>4
  <1>7. Holder(dir, job)'
    <2>1. CASE job' = following /\ dir' = new
      BY <2>1 DEF Holder, Forgiven, HasSample, KeepWorld
    <2>2. CASE job' = IdleJob
      BY <2>2, <1>2 DEF Holder, HasSample, Replaying
    <2> QED BY <1>1, <2>1, <2>2
  <1> QED BY <1>3, <1>5, <1>6, <1>7 DEF Inv, DiskInv

\* A step of the holder that writes no file.
LEMMA StepKeepsInv ==
  ASSUME Inv, NEW following \in Job, job' = following, job.pc # "idle",
         following.pc # "idle" => following.kind = job.kind /\ following.now = job.now,
         Holder(dir, following),
         KeepFiles, UNCHANGED <<tick, today, counter>>,
         waiting' \in Nat, drained' \in Nat, faults' \in 0..MaxFaults
  PROVE  Inv'
  <1>1. TypeOK'
    BY DEF Inv, TypeOK, KeepFiles
  <1>2. TickJob(job') => TickJob(job) /\ job'.now = job.now
    BY DEF TickJob
  <1>3. TimeInv'
    BY <1>2 DEF Inv, TimeInv
  <1>4. DiskInv'
    BY <1>2 DEF Inv, DiskInv, AlwaysInTime, Sampled, KeepFiles
  <1>5. Holder(dir, job)'
    BY DEF Holder, Forgiven, HasSample, KeepFiles
  <1> QED BY <1>1, <1>3, <1>4, <1>5 DEF Inv

LEMMA AbortKeepsInv ==
  ASSUME Inv, job.pc # "idle", Abort, KeepFiles, KeepWorld
  PROVE  Inv'
  <1>1. IdleJob \in Job /\ IdleJob.pc = "idle"
    BY IdleJobIsJob DEF Inv, IdleJob
  <1>2. Holder(dir, IdleJob)
    BY <1>1, NobodyHolds
  <1>3. waiting' \in Nat /\ drained' \in Nat /\ faults' \in 0..MaxFaults
    BY LedgerAssumption DEF Inv, TypeOK, KeepWorld, Abort, Fault
  <1> QED BY <1>1, <1>2, <1>3, StepKeepsInv DEF Abort, KeepWorld

LEMMA GotoKeepsInv ==
  ASSUME Inv, NEW pc \in Pc, job.pc # "idle", Goto(pc), KeepFiles, KeepWorld,
         Holder(dir, [job EXCEPT !.pc = pc])
  PROVE  Inv'
  <1>1. [job EXCEPT !.pc = pc] \in Job
    BY DEF Inv, TypeOK, Job
  <1>2. waiting' \in Nat /\ drained' \in Nat /\ faults' \in 0..MaxFaults
    BY DEF Inv, TypeOK, KeepWorld, Goto
  <1>3. [job EXCEPT !.pc = pc].kind = job.kind /\ [job EXCEPT !.pc = pc].now = job.now
    BY DEF Inv, TypeOK, Job
  <1> QED BY <1>1, <1>2, <1>3, StepKeepsInv DEF Goto, KeepWorld

-----------------------------------------------------------------------------
(* Recovery. *)

LEMMA RecoverKeepsInv == ASSUME Inv, Recover PROVE Inv'
  <1>1. job.pc = "recover" /\ job \in Job /\ dir \in Directory /\ dir \in disk /\ Holder(dir, job)
    BY DEF Recover, At, Inv, TypeOK
  <1>2. CASE dir.journal = None
    <2>1. job.next \in {"collect", "clear", "preserve", "zerousage"}
      BY <1>1 DEF Holder
    <2>2. Holder(dir, [job EXCEPT !.pc = job.next])
      BY <1>1, <1>2, <2>1 DEF Holder, HasSample, Replaying, Forgiven, Job
    <2> QED BY <1>1, <1>2, <2>1, <2>2, GotoKeepsInv DEF Recover, Pc
  <1>3. CASE dir.journal # None /\ Fits(dir)
    <2>1. Holder(dir, [job EXCEPT !.pc = "redaily"])
      BY <1>1, <1>3 DEF Holder, HasSample, Replaying, Job
    <2> QED BY <1>1, <1>3, <2>1, GotoKeepsInv DEF Recover, Pc
  <1>4. CASE dir.journal # None /\ ~Fits(dir)
    BY <1>1, <1>4, AbortKeepsInv DEF Recover
  <1> QED BY <1>2, <1>3, <1>4

\* What is known of the holder while it carries out a journal.
LEMMA JournalIsSound ==
  ASSUME Inv, dir.journal # None
  PROVE  /\ dir \in Directory /\ dir.journal \in Journal
         /\ ImagesSound(dir) /\ AlwaysInTime(dir, job) /\ Sampled(dir)
  BY DEF Inv, TypeOK, DiskInv, Sound, Directory

LEMMA RecoverDailyKeepsInv == ASSUME Inv, RecoverDaily PROVE Inv'
  <1> DEFINE new == [dir EXCEPT !.daily = dir.journal.after.daily]
             following == [job EXCEPT !.pc = "reusage"]
  <1>1. /\ job.pc = "redaily" /\ job \in Job /\ Holder(dir, job) /\ dir.journal # None
        /\ dir \in disk
    BY DEF RecoverDaily, At, Inv, TypeOK, Holder, Replaying
  <1>2. /\ dir \in Directory /\ dir.journal \in Journal
        /\ ImagesSound(dir) /\ AlwaysInTime(dir, job) /\ Sampled(dir)
    BY <1>1, JournalIsSound
  <1>3. new \in Directory
    BY <1>2 DEF Directory, Journal, Ledgers
  <1>4. /\ new.daily = dir.journal.after.daily /\ new.usage = dir.usage
        /\ new.source = dir.source /\ new.journal = dir.journal
        /\ new.reset = dir.reset /\ new.preserved = dir.preserved
    BY <1>2 DEF Directory
  <1>5. Fits(new)
    BY <1>2, <1>4 DEF ImagesSound, Fits, Current
  <1>6. Leads(new.usage, new.daily)
    <2>1. new.usage \in {dir.journal.before.usage, dir.journal.after.usage}
      BY <1>2, <1>4 DEF ImagesSound, Fits, Current
    <2> QED BY <2>1, <1>2, <1>4 DEF ImagesSound
  <1>7. Sound(new)
    BY <1>1, <1>2, <1>4, <1>5, <1>6 DEF Sound, ImagesSound, Inv, DiskInv
  <1>8. AlwaysInTime(new, job) /\ Sampled(new)
    BY <1>2, <1>4 DEF AlwaysInTime, InTime, Sampled
  <1>9. Settled(new).source.seen >= Settled(dir).source.seen
    <2>1. Settled(new) = Settled(dir)
      BY <1>1, <1>4 DEF Settled
    <2>2. Settled(dir).source.seen \in Nat
      BY <1>1, <1>2 DEF Settled, Journal, Ledgers, SourceFile
    <2> QED BY <2>1, <2>2
  <1>10. following \in Job /\ following.kind = job.kind /\ following.now = job.now
    BY <1>1 DEF Job, Pc
  <1>11. Holder(new, following)
    BY <1>1, <1>4 DEF Holder, HasSample, Replaying, Job
  <1> HIDE DEF new, following
  <1>12. SaveThen(new, following) /\ KeepWorld
    BY DEF RecoverDaily, new, following
  <1> QED BY <1>1, <1>3, <1>7, <1>8, <1>9, <1>10, <1>11, <1>12, SaveKeepsInv

LEMMA RecoverUsageKeepsInv == ASSUME Inv, RecoverUsage PROVE Inv'
  <1> DEFINE new == [dir EXCEPT !.usage = dir.journal.after.usage]
             following == [job EXCEPT !.pc = "resource"]
  <1>1. /\ job.pc = "reusage" /\ job \in Job /\ Holder(dir, job) /\ dir.journal # None
        /\ dir \in disk /\ dir.daily = dir.journal.after.daily
    BY DEF RecoverUsage, At, Inv, TypeOK, Holder, Replaying
  <1>2. /\ dir \in Directory /\ dir.journal \in Journal
        /\ ImagesSound(dir) /\ AlwaysInTime(dir, job) /\ Sampled(dir)
    BY <1>1, JournalIsSound
  <1>3. new \in Directory
    BY <1>2 DEF Directory, Journal, Ledgers
  <1>4. /\ new.daily = dir.daily /\ new.usage = dir.journal.after.usage
        /\ new.source = dir.source /\ new.journal = dir.journal
        /\ new.reset = dir.reset /\ new.preserved = dir.preserved
    BY <1>2 DEF Directory
  <1>5. Fits(new)
    BY <1>2, <1>4 DEF ImagesSound, Fits, Current
  <1>6. Sound(new)
    BY <1>1, <1>2, <1>4, <1>5 DEF Sound, ImagesSound, Inv, DiskInv
  <1>7. AlwaysInTime(new, job) /\ Sampled(new)
    BY <1>1, <1>2, <1>4 DEF AlwaysInTime, InTime, Sampled
  <1>8. Settled(new).source.seen >= Settled(dir).source.seen
    <2>1. Settled(new) = Settled(dir)
      BY <1>1, <1>4 DEF Settled
    <2>2. Settled(dir).source.seen \in Nat
      BY <1>1, <1>2 DEF Settled, Journal, Ledgers, SourceFile
    <2> QED BY <2>1, <2>2
  <1>9. following \in Job /\ following.kind = job.kind /\ following.now = job.now
    BY <1>1 DEF Job, Pc
  <1>10. Holder(new, following)
    BY <1>1, <1>4 DEF Holder, HasSample, Replaying, Job
  <1> HIDE DEF new, following
  <1>11. SaveThen(new, following) /\ KeepWorld
    BY DEF RecoverUsage, new, following
  <1> QED BY <1>1, <1>3, <1>6, <1>7, <1>8, <1>9, <1>10, <1>11, SaveKeepsInv

LEMMA RecoverSourceKeepsInv == ASSUME Inv, RecoverSource PROVE Inv'
  <1> DEFINE new == [dir EXCEPT !.source = dir.journal.after.source]
             following == [job EXCEPT !.pc = "unlink"]
  <1>1. /\ job.pc = "resource" /\ job \in Job /\ Holder(dir, job) /\ dir.journal # None
        /\ dir \in disk /\ dir.daily = dir.journal.after.daily
        /\ dir.usage = dir.journal.after.usage
    BY DEF RecoverSource, At, Inv, TypeOK, Holder, Replaying
  <1>2. /\ dir \in Directory /\ dir.journal \in Journal
        /\ ImagesSound(dir) /\ AlwaysInTime(dir, job) /\ Sampled(dir)
    BY <1>1, JournalIsSound
  <1>3. new \in Directory
    BY <1>2 DEF Directory, Journal, Ledgers
  <1>4. /\ new.daily = dir.daily /\ new.usage = dir.usage
        /\ new.source = dir.journal.after.source /\ new.journal = dir.journal
        /\ new.reset = dir.reset /\ new.preserved = dir.preserved
    BY <1>2 DEF Directory
  <1>5. Fits(new)
    BY <1>2, <1>4 DEF ImagesSound, Fits, Current
  <1>6. Sound(new)
    BY <1>1, <1>2, <1>4, <1>5 DEF Sound, ImagesSound, Inv, DiskInv
  <1>7. AlwaysInTime(new, job) /\ Sampled(new)
    BY <1>1, <1>2, <1>4 DEF AlwaysInTime, InTime, Sampled
  <1>8. Settled(new).source.seen >= Settled(dir).source.seen
    <2>1. Settled(new) = Settled(dir)
      BY <1>1, <1>4 DEF Settled
    <2>2. Settled(dir).source.seen \in Nat
      BY <1>1, <1>2 DEF Settled, Journal, Ledgers, SourceFile
    <2> QED BY <2>1, <2>2
  <1>9. following \in Job /\ following.kind = job.kind /\ following.now = job.now
    BY <1>1 DEF Job, Pc
  <1>10. Holder(new, following)
    BY <1>1, <1>4 DEF Holder, HasSample, Replaying, Job
  <1> HIDE DEF new, following
  <1>11. SaveThen(new, following) /\ KeepWorld
    BY DEF RecoverSource, new, following
  <1> QED BY <1>1, <1>3, <1>6, <1>7, <1>8, <1>9, <1>10, <1>11, SaveKeepsInv

\* The journal goes when the three files are its images after.
LEMMA UnlinkKeepsInv == ASSUME Inv, Unlink PROVE Inv'
  <1> DEFINE new == [dir EXCEPT !.journal = None]
             following == [job EXCEPT !.pc = job.next]
  <1>1. /\ job.pc = "unlink" /\ job \in Job /\ Holder(dir, job) /\ dir.journal # None
        /\ dir \in disk /\ dir.daily = dir.journal.after.daily
        /\ dir.usage = dir.journal.after.usage /\ dir.source = dir.journal.after.source
    BY DEF Unlink, At, Inv, TypeOK, Holder, Replaying
  <1>2. /\ dir \in Directory /\ dir.journal \in Journal
        /\ ImagesSound(dir) /\ AlwaysInTime(dir, job) /\ Sampled(dir)
    BY <1>1, JournalIsSound
  <1>3. new \in Directory
    BY <1>2 DEF Directory
  <1>4. /\ new.daily = dir.daily /\ new.usage = dir.usage
        /\ new.source = dir.source /\ new.journal = None
        /\ new.reset = dir.reset /\ new.preserved = dir.preserved
    BY <1>2 DEF Directory
  <1>5. Sound(new)
    BY <1>1, <1>2, <1>4 DEF Sound, ImagesSound, Balanced, Inv, DiskInv
  <1>6. AlwaysInTime(new, job) /\ Sampled(new)
    BY <1>1, <1>2, <1>4 DEF AlwaysInTime, InTime, Sampled
  <1>7. Settled(new).source.seen >= Settled(dir).source.seen
    <2>1. Settled(new).source = Settled(dir).source
      BY <1>1, <1>4 DEF Settled, Current
    <2>2. Settled(dir).source.seen \in Nat
      BY <1>1, <1>2 DEF Settled, Journal, Ledgers, SourceFile
    <2> QED BY <2>1, <2>2
  <1>8. job.next \in {"collect", "clear", "preserve", "zerousage"}
    BY <1>1 DEF Holder, Replaying
  <1>9. following \in Job /\ following.kind = job.kind /\ following.now = job.now
    BY <1>1 DEF Job
  <1>10. Holder(new, following)
    BY <1>1, <1>4, <1>8 DEF Holder, HasSample, Forgiven, Replaying, Job
  <1> HIDE DEF new, following
  <1>11. SaveThen(new, following) /\ KeepWorld
    BY DEF Unlink, new, following
  <1> QED BY <1>1, <1>3, <1>5, <1>6, <1>7, <1>9, <1>10, <1>11, SaveKeepsInv

-----------------------------------------------------------------------------
(* The tick and the corrections: nothing is pending while they write. *)

LEMMA NothingPending ==
  ASSUME Inv, job.pc \notin Replaying \cup {"idle", "recover"}
  PROVE  /\ dir \in Directory /\ dir.journal = None /\ dir \in disk /\ job \in Job
         /\ Holder(dir, job) /\ AlwaysInTime(dir, job) /\ Sampled(dir)
         /\ Leads(dir.usage, dir.daily) /\ Credits(dir.usage)
         /\ Kept(dir.preserved, dir.daily) /\ Balanced(dir)
         /\ job.now.cycle \in Cycles /\ job.now.settling \in BOOLEAN /\ job.taken \in Nat
  <1>1. /\ dir \in Directory /\ dir \in disk /\ job \in Job /\ Holder(dir, job)
        /\ Sound(dir) /\ AlwaysInTime(dir, job) /\ Sampled(dir)
    BY DEF Inv, TypeOK, DiskInv
  <1>2. dir.journal = None
    BY <1>1 DEF Holder
  <1>3. job.now \in Day /\ job.taken \in Nat
    BY <1>1 DEF Job
  <1> QED BY <1>1, <1>2, <1>3 DEF Sound, Day

LEMMA FileTypes ==
  ASSUME NEW d \in Directory
  PROVE  /\ d.daily \in DailyFile /\ d.usage \in UsageFile /\ d.source \in SourceFile
         /\ d.daily.total \in [Cycles -> Nat] /\ d.daily.owed \in [Cycles -> Nat]
         /\ d.daily.tuic \in Nat /\ d.daily.core \in Nat
         /\ d.usage.total \in [Cycles -> Nat] /\ d.usage.credited \in [Cycles -> Nat]
         /\ d.usage.tuic \in Nat
         /\ d.source.gen \in Nat /\ d.source.count \in Nat /\ d.source.seen \in Nat
         /\ d.reset \in Nat /\ d.preserved \in [Cycles -> Nat]
  BY DEF Directory, DailyFile, UsageFile, SourceFile

\* A save of the holder that leaves the checkpoint and the journal alone.
LEMMA LedgerSaveKeepsInv ==
  ASSUME Inv, job.pc \notin Replaying \cup {"idle", "recover"},
         NEW new \in Directory, new.journal = None, new.source = dir.source,
         NEW following \in Job, SaveThen(new, following), KeepWorld,
         following.pc # "idle" => following.kind = job.kind /\ following.now = job.now,
         Leads(new.usage, new.daily), Credits(new.usage), Kept(new.preserved, new.daily),
         new.daily.tuic = dir.daily.tuic, new.usage.tuic = dir.usage.tuic,
         AlwaysInTime(new, job), Holder(new, following)
  PROVE  Inv'
  <1>1. dir \in Directory /\ dir.journal = None /\ Sampled(dir) /\ Balanced(dir)
    BY NothingPending
  <1>2. Sound(new)
    BY <1>1 DEF Sound, Balanced
  <1>3. Sampled(new)
    BY <1>1 DEF Sampled
  <1>4. Settled(new).source.seen >= Settled(dir).source.seen
    BY <1>1, FileTypes DEF Settled, Current
  <1> QED BY <1>2, <1>3, <1>4, SaveKeepsInv

LEMMA CollectKeepsInv == ASSUME Inv, Collect PROVE Inv'
  <1>1. job.pc = "collect" /\ KeepFiles /\ KeepWorld
    BY DEF Collect, At
  <1>2. /\ dir \in Directory /\ dir.journal = None /\ job \in Job /\ Holder(dir, job)
        /\ Sampled(dir) /\ counter \in [gen : Nat, count : Nat]
    BY <1>1, NothingPending DEF Replaying, Inv, TypeOK
  <1>3. CASE Goto("clear")
    <2>1. Holder(dir, [job EXCEPT !.pc = "clear"])
      BY <1>1, <1>2 DEF Holder, HasSample, Replaying, Job
    <2> QED BY <1>1, <1>3, <2>1, GotoKeepsInv DEF Pc
  <1>4. CASE job' = [job EXCEPT !.pc = "reset", !.next = "credit",
                                !.gen = counter.gen, !.count = counter.count]
             /\ UNCHANGED faults
    <2> DEFINE following == [job EXCEPT !.pc = "reset", !.next = "credit",
                                        !.gen = counter.gen, !.count = counter.count]
    <2>1. following \in Job /\ following.kind = job.kind /\ following.now = job.now
      BY <1>2 DEF Job, Pc
    <2>2. Holder(dir, following)
      BY <1>1, <1>2 DEF Holder, HasSample, Replaying, Sampled, Earlier, Job
    <2>3. waiting' \in Nat /\ drained' \in Nat /\ faults' \in 0..MaxFaults
      BY <1>1, <1>4 DEF Inv, TypeOK, KeepWorld
    <2> HIDE DEF following
    <2>4. job' = following
      BY <1>4 DEF following
    <2> QED BY <1>1, <2>1, <2>2, <2>3, <2>4, StepKeepsInv DEF KeepWorld
  <1> QED BY <1>3, <1>4 DEF Collect

\* The reset is due only when nothing was credited to the cycle that it opens.
LEMMA ResetKeepsInv == ASSUME Inv, Reset PROVE Inv'
  <1> DEFINE c == job.now.cycle
             new == [dir EXCEPT !.usage.total[job.now.cycle] = 0]
             following == [job EXCEPT !.pc = "mark"]
  <1>1. job.pc = "reset" /\ KeepWorld
    BY DEF Reset, At
  <1>2. /\ dir \in Directory /\ dir.journal = None /\ job \in Job /\ Holder(dir, job)
        /\ AlwaysInTime(dir, job)
        /\ Leads(dir.usage, dir.daily) /\ Credits(dir.usage) /\ Kept(dir.preserved, dir.daily)
        /\ c \in Cycles /\ job.next \in {"credit", "daily"} /\ job.kind = "tick"
    BY <1>1, NothingPending DEF Replaying, Holder
  <1>3. CASE ~ResetDue(dir, job.now)
    <2>1. Holder(dir, [job EXCEPT !.pc = job.next])
      BY <1>1, <1>2, <1>3 DEF Holder, HasSample, Replaying, ResetDue, Job
    <2> QED BY <1>1, <1>2, <1>3, <2>1, GotoKeepsInv DEF Reset, Pc
  <1>4. CASE ResetDue(dir, job.now)
    <2>1. /\ dir.usage.total \in [Cycles -> Nat] /\ dir.usage.credited \in [Cycles -> Nat]
          /\ dir.daily.total \in [Cycles -> Nat] /\ dir.usage \in UsageFile
      BY <1>2, FileTypes
    <2>2. new.usage = [dir.usage EXCEPT !.total = [dir.usage.total EXCEPT ![c] = 0]]
      BY <1>2 DEF Directory
    <2>3. /\ new.usage.total = [dir.usage.total EXCEPT ![c] = 0]
          /\ new.usage.credited = dir.usage.credited /\ new.usage.tuic = dir.usage.tuic
          /\ new.usage \in UsageFile
      BY <2>1, <2>2 DEF UsageFile
    <2>4. /\ new.daily = dir.daily /\ new.source = dir.source /\ new.journal = None
          /\ new.reset = dir.reset /\ new.preserved = dir.preserved
          /\ new \in Directory
      BY <1>2, <2>3 DEF Directory
    <2>5. dir.usage.credited[c] = 0
      <3>1. Timely(dir.usage.credited, dir.reset, job.now)
        BY <1>1, <1>2 DEF AlwaysInTime, TickJob, InTime
      <3>2. ~(c < c)
        BY <1>2 DEF Cycles
      <3> QED BY <1>2, <1>4, <3>1, <3>2 DEF Timely, ResetDue
    <2>6. Leads(new.usage, new.daily)
      BY <1>2, <2>1, <2>3, <2>4 DEF Leads
    <2>7. Credits(new.usage)
      BY <1>2, <2>1, <2>3, <2>5 DEF Credits
    <2>8. AlwaysInTime(new, job)
      BY <1>2, <2>3, <2>4 DEF AlwaysInTime, InTime
    <2>9. following \in Job /\ following.kind = job.kind /\ following.now = job.now
      BY <1>2 DEF Job, Pc
    <2>10. Holder(new, following)
      BY <1>1, <1>2, <2>4 DEF Holder, HasSample, Replaying, Job
    <2>11. SaveThen(new, following)
      BY <1>4 DEF Reset
    <2> HIDE DEF new, following
    <2> QED BY <1>1, <1>2, <2>3, <2>4, <2>6, <2>7, <2>8, <2>9, <2>10, <2>11, LedgerSaveKeepsInv
               DEF Replaying
  <1> QED BY <1>3, <1>4

LEMMA MarkResetKeepsInv == ASSUME Inv, MarkReset PROVE Inv'
  <1> DEFINE new == [dir EXCEPT !.reset = job.now.cycle]
             following == [job EXCEPT !.pc = job.next]
  <1>1. job.pc = "mark" /\ KeepWorld /\ SaveThen(new, following)
    BY DEF MarkReset, At
  <1>2. /\ dir \in Directory /\ dir.journal = None /\ job \in Job /\ Holder(dir, job)
        /\ AlwaysInTime(dir, job)
        /\ Leads(dir.usage, dir.daily) /\ Credits(dir.usage) /\ Kept(dir.preserved, dir.daily)
        /\ job.now.cycle \in Cycles /\ job.next \in {"credit", "daily"} /\ job.kind = "tick"
    BY <1>1, NothingPending DEF Replaying, Holder
  <1>3. /\ new.daily = dir.daily /\ new.usage = dir.usage
        /\ new.source = dir.source /\ new.journal = None
        /\ new.reset = job.now.cycle /\ new.preserved = dir.preserved
        /\ new \in Directory
    BY <1>2 DEF Directory, Cycles
  <1>4. NotAfter(job.now, today) /\ tick = None /\ today.cycle \in Cycles
    BY <1>1, <1>2 DEF Inv, TimeInv, TickJob, TypeOK, Day
  <1>5. Timely(dir.usage.credited, dir.reset, job.now)
    BY <1>1, <1>2 DEF AlwaysInTime, TickJob, InTime
  <1>6. Timely(new.usage.credited, new.reset, job.now)
    BY <1>3, <1>5 DEF Timely
  <1>7. Timely(new.usage.credited, new.reset, today)
    BY <1>2, <1>3, <1>4, <1>5 DEF Timely, NotAfter, Cycles
  <1>8. AlwaysInTime(new, job)
    BY <1>3, <1>4, <1>6, <1>7 DEF AlwaysInTime, InTime
  <1>9. following \in Job /\ following.kind = job.kind /\ following.now = job.now
    BY <1>2 DEF Job
  <1>10. Holder(new, following)
    BY <1>1, <1>2, <1>3 DEF Holder, HasSample, Replaying, Job
  <1> HIDE DEF new, following
  <1> QED BY <1>1, <1>2, <1>3, <1>8, <1>9, <1>10, LedgerSaveKeepsInv DEF Replaying

LEMMA ClearKeepsInv == ASSUME Inv, Clear PROVE Inv'
  <1>1. job.pc = "clear" /\ KeepFiles /\ UNCHANGED <<tick, today, counter>>
    BY DEF Clear, At
  <1>2. /\ dir.journal = None /\ job \in Job /\ Holder(dir, job)
        /\ waiting \in Nat /\ drained \in Nat /\ faults \in 0..MaxFaults
    BY <1>1, NothingPending DEF Replaying, Inv, TypeOK
  <1>3. CASE /\ job' = [job EXCEPT !.pc = "reset", !.next = "daily", !.taken = waiting]
             /\ waiting' = 0 /\ drained' = drained + waiting /\ UNCHANGED faults
    <2> DEFINE following == [job EXCEPT !.pc = "reset", !.next = "daily", !.taken = waiting]
    <2>1. following \in Job /\ following.kind = job.kind /\ following.now = job.now
      BY <1>2 DEF Job, Pc
    <2>2. Holder(dir, following)
      BY <1>1, <1>2 DEF Holder, HasSample, Replaying, Job
    <2>3. waiting' \in Nat /\ drained' \in Nat /\ faults' \in 0..MaxFaults
      BY <1>2, <1>3
    <2>4. job' = following
      BY <1>3
    <2> HIDE DEF following
    <2> QED BY <1>1, <2>1, <2>2, <2>3, <2>4, StepKeepsInv
  <1>4. CASE /\ job' = [job EXCEPT !.pc = "reset", !.next = "daily"]
             /\ waiting' \in {0, waiting} /\ drained' = drained + (waiting - waiting') /\ Fault
    <2> DEFINE following == [job EXCEPT !.pc = "reset", !.next = "daily"]
    <2>1. following \in Job /\ following.kind = job.kind /\ following.now = job.now
      BY <1>2 DEF Job, Pc
    <2>2. Holder(dir, following)
      BY <1>1, <1>2 DEF Holder, HasSample, Replaying, Job
    <2>3. waiting' \in Nat /\ drained' \in Nat /\ faults' \in 0..MaxFaults
      BY <1>2, <1>4, LedgerAssumption DEF Fault
    <2>4. job' = following
      BY <1>4
    <2> HIDE DEF following
    <2> QED BY <1>1, <2>1, <2>2, <2>3, <2>4, StepKeepsInv
  <1> QED BY <1>3, <1>4 DEF Clear

LEMMA CommitDailyKeepsInv == ASSUME Inv, CommitDaily PROVE Inv'
  <1> DEFINE c == job.now.cycle
             n == job.taken
             new == [dir EXCEPT !.daily.total[c] = @ + n, !.daily.owed[c] = @ + n,
                                !.daily.core = @ + n]
             following == [job EXCEPT !.pc = "usage"]
  <1>1. job.pc = "daily" /\ KeepWorld /\ SaveThen(new, following)
    BY DEF CommitDaily, At
  <1>2. /\ dir \in Directory /\ dir.journal = None /\ job \in Job /\ Holder(dir, job)
        /\ AlwaysInTime(dir, job)
        /\ Leads(dir.usage, dir.daily) /\ Credits(dir.usage) /\ Kept(dir.preserved, dir.daily)
        /\ c \in Cycles /\ n \in Nat /\ job.kind = "tick"
    BY <1>1, NothingPending DEF Replaying, Holder
  <1>3. /\ dir.daily.total \in [Cycles -> Nat] /\ dir.daily.owed \in [Cycles -> Nat]
        /\ dir.usage.total \in [Cycles -> Nat] /\ dir.preserved \in [Cycles -> Nat]
        /\ dir.daily \in DailyFile /\ dir.daily.core \in Nat
    BY <1>2, FileTypes
  <1>4. new.daily = [total |-> [dir.daily.total EXCEPT ![c] = @ + n],
                     owed |-> [dir.daily.owed EXCEPT ![c] = @ + n],
                     tuic |-> dir.daily.tuic, core |-> dir.daily.core + n]
    BY <1>2, <1>3 DEF Directory, DailyFile
  <1>5. new.daily \in DailyFile
    <2>1. /\ [dir.daily.total EXCEPT ![c] = @ + n] \in [Cycles -> Nat]
          /\ [dir.daily.owed EXCEPT ![c] = @ + n] \in [Cycles -> Nat]
      BY <1>2, <1>3
    <2>2. dir.daily.tuic \in Nat /\ dir.daily.core + n \in Nat
      BY <1>2, <1>3 DEF DailyFile
    <2> HIDE DEF c, n, new
    <2> QED BY <1>4, <2>1, <2>2 DEF DailyFile
  <1>6. /\ new.usage = dir.usage /\ new.source = dir.source /\ new.journal = None
        /\ new.reset = dir.reset /\ new.preserved = dir.preserved /\ new \in Directory
    BY <1>2, <1>5 DEF Directory
  <1> HIDE DEF new
  <1>7. Leads(new.usage, new.daily)
    BY <1>2, <1>3, <1>4, <1>6 DEF Leads
  <1>8. Kept(new.preserved, new.daily)
    BY <1>2, <1>3, <1>4, <1>6 DEF Kept
  <1>9. AlwaysInTime(new, job)
    BY <1>2, <1>6 DEF AlwaysInTime, InTime
  <1>10. following \in Job /\ following.kind = job.kind /\ following.now = job.now
    BY <1>2 DEF Job, Pc
  <1>11. dir.usage.total[c] + n <= new.daily.total[c]
    BY <1>2, <1>3, <1>4 DEF Leads
  <1>12. Holder(new, following)
    BY <1>1, <1>2, <1>6, <1>11 DEF Holder, HasSample, Replaying, Job
  <1>13. new.daily.tuic = dir.daily.tuic /\ new.usage.tuic = dir.usage.tuic /\ Credits(new.usage)
    BY <1>2, <1>4, <1>6
  <1> HIDE DEF following
  <1> QED BY <1>1, <1>6, <1>7, <1>8, <1>9, <1>10, <1>12, <1>13, LedgerSaveKeepsInv DEF Replaying

\* What a tick has credited cannot be reset any more.
LEMMA CreditsAreInTime ==
  ASSUME Inv, job.pc \in {"credit", "usage"}, NEW credited \in [Cycles -> Nat],
         \A c \in Cycles : c # job.now.cycle => credited[c] = dir.usage.credited[c]
  PROVE  /\ Timely(credited, dir.reset, today) /\ Timely(credited, dir.reset, job.now)
         /\ tick = None
  <1>1. /\ Holder(dir, job) /\ AlwaysInTime(dir, job)
        /\ job.now.cycle \in Cycles /\ job.now.settling \in BOOLEAN
    BY NothingPending DEF Replaying
  <1>2. TickJob(job) /\ (job.now.settling => dir.reset = job.now.cycle)
    BY <1>1 DEF Holder, TickJob
  <1>3. NotAfter(job.now, today) /\ tick = None /\ today.cycle \in Cycles
    BY <1>2 DEF Inv, TimeInv, TypeOK, Day
  <1>4. Timely(dir.usage.credited, dir.reset, job.now) /\ Timely(dir.usage.credited, dir.reset, today)
    BY <1>1, <1>2 DEF AlwaysInTime, InTime
  <1>5. Timely(credited, dir.reset, job.now)
    BY <1>1, <1>2, <1>4 DEF Timely
  <1>6. Timely(credited, dir.reset, today)
    BY <1>1, <1>2, <1>3, <1>4 DEF Timely, NotAfter, Cycles
  <1> QED BY <1>3, <1>5, <1>6

LEMMA CommitUsageKeepsInv == ASSUME Inv, CommitUsage PROVE Inv'
  <1> DEFINE c == job.now.cycle
             n == job.taken
             new == [dir EXCEPT !.usage.total[c] = @ + n, !.usage.credited[c] = @ + n]
  <1>1. job.pc = "usage" /\ KeepWorld /\ SaveThen(new, IdleJob)
    BY DEF CommitUsage, At
  <1>2. /\ dir \in Directory /\ dir.journal = None /\ job \in Job /\ Holder(dir, job)
        /\ Leads(dir.usage, dir.daily) /\ Credits(dir.usage) /\ Kept(dir.preserved, dir.daily)
        /\ c \in Cycles /\ n \in Nat
    BY <1>1, NothingPending DEF Replaying
  <1>3. /\ dir.usage.total \in [Cycles -> Nat] /\ dir.usage.credited \in [Cycles -> Nat]
        /\ dir.daily.total \in [Cycles -> Nat] /\ dir.usage \in UsageFile
    BY <1>2, FileTypes
  <1>4. new.usage = [total |-> [dir.usage.total EXCEPT ![c] = @ + n],
                     credited |-> [dir.usage.credited EXCEPT ![c] = @ + n],
                     tuic |-> dir.usage.tuic]
    BY <1>2, <1>3 DEF Directory, UsageFile
  <1>5. new.usage \in UsageFile
    <2>1. /\ [dir.usage.total EXCEPT ![c] = @ + n] \in [Cycles -> Nat]
          /\ [dir.usage.credited EXCEPT ![c] = @ + n] \in [Cycles -> Nat]
      BY <1>2, <1>3
    <2>2. dir.usage.tuic \in Nat
      BY <1>3 DEF UsageFile
    <2> HIDE DEF c, n, new
    <2> QED BY <1>4, <2>1, <2>2 DEF UsageFile
  <1>6. /\ new.daily = dir.daily /\ new.source = dir.source /\ new.journal = None
        /\ new.reset = dir.reset /\ new.preserved = dir.preserved /\ new \in Directory
    BY <1>2, <1>5 DEF Directory
  <1> HIDE DEF new
  <1>7. Leads(new.usage, new.daily)
    <2>1. dir.usage.total[c] + n <= dir.daily.total[c]
      BY <1>1, <1>2 DEF Holder
    <2> QED BY <2>1, <1>2, <1>3, <1>4, <1>6 DEF Leads
  <1>8. Credits(new.usage)
    BY <1>2, <1>3, <1>4 DEF Credits
  <1>9. AlwaysInTime(new, job)
    <2>1. \A k \in Cycles : k # c => new.usage.credited[k] = dir.usage.credited[k]
      BY <1>3, <1>4
    <2>2. new.usage.credited \in [Cycles -> Nat]
      BY <1>5 DEF UsageFile
    <2> QED BY <1>1, <1>6, <2>1, <2>2, CreditsAreInTime DEF AlwaysInTime, InTime
  <1>10. IdleJob \in Job /\ IdleJob.pc = "idle" /\ Holder(new, IdleJob)
    BY IdleJobIsJob, NobodyHolds DEF Inv, IdleJob
  <1>11. new.daily.tuic = dir.daily.tuic /\ new.usage.tuic = dir.usage.tuic
         /\ Kept(new.preserved, new.daily)
    BY <1>2, <1>4, <1>6
  <1> QED BY <1>1, <1>6, <1>7, <1>8, <1>9, <1>10, <1>11, LedgerSaveKeepsInv DEF Replaying

LEMMA PreserveKeepsInv == ASSUME Inv, Preserve PROVE Inv'
  <1> DEFINE c == job.now.cycle
             n == dir.daily.total[c]
             new == [dir EXCEPT !.preserved[c] = @ + n]
             following == [job EXCEPT !.pc = "zerousage"]
  <1>1. job.pc = "preserve" /\ KeepWorld
    BY DEF Preserve, At
  <1>2. /\ dir \in Directory /\ dir.journal = None /\ job \in Job /\ Holder(dir, job)
        /\ AlwaysInTime(dir, job)
        /\ Leads(dir.usage, dir.daily) /\ Credits(dir.usage) /\ Kept(dir.preserved, dir.daily)
        /\ c \in Cycles /\ job.kind # "tick"
    BY <1>1, NothingPending DEF Replaying, Holder
  <1>3. /\ dir.daily.total \in [Cycles -> Nat] /\ dir.daily.owed \in [Cycles -> Nat]
        /\ dir.preserved \in [Cycles -> Nat] /\ n \in Nat
    BY <1>2, FileTypes
  <1>4. CASE n = 0
    <2>1. dir.preserved[c] >= dir.daily.owed[c]
      BY <1>2, <1>3, <1>4 DEF Kept
    <2>2. Holder(dir, following)
      BY <1>1, <1>2, <2>1 DEF Holder, HasSample, Forgiven, Replaying, Job
    <2> QED BY <1>1, <1>4, <2>2, GotoKeepsInv DEF Preserve, Pc
  <1>5. CASE n # 0
    <2>1. new.preserved = [dir.preserved EXCEPT ![c] = @ + n]
      BY <1>2 DEF Directory
    <2>2. /\ new.preserved \in [Cycles -> Nat]
          /\ \A k \in Cycles : new.preserved[k] >= dir.preserved[k]
          /\ new.preserved[c] = dir.preserved[c] + n
      BY <1>2, <1>3, <2>1
    <2>3. /\ new.daily = dir.daily /\ new.usage = dir.usage /\ new.source = dir.source
          /\ new.journal = None /\ new.reset = dir.reset /\ new \in Directory
      BY <1>2, <2>2 DEF Directory
    <2>4. Kept(new.preserved, new.daily)
      BY <1>2, <1>3, <2>2, <2>3 DEF Kept
    <2>5. AlwaysInTime(new, job)
      BY <1>2, <2>3 DEF AlwaysInTime, InTime
    <2>6. following \in Job /\ following.kind = job.kind /\ following.now = job.now
      BY <1>2 DEF Job, Pc
    <2>7. new.preserved[c] >= new.daily.owed[c]
      BY <1>2, <1>3, <2>2, <2>3 DEF Kept
    <2>8. Holder(new, following)
      BY <1>1, <1>2, <2>3, <2>7 DEF Holder, HasSample, Forgiven, Replaying, Job
    <2>9. SaveThen(new, following)
      BY <1>5 DEF Preserve
    <2> HIDE DEF new, following
    <2> QED BY <1>1, <1>2, <2>3, <2>4, <2>5, <2>6, <2>8, <2>9, LedgerSaveKeepsInv DEF Replaying
  <1> QED BY <1>4, <1>5

LEMMA ZeroUsageKeepsInv == ASSUME Inv, ZeroUsage PROVE Inv'
  <1> DEFINE c == job.now.cycle
             new == [dir EXCEPT !.usage.total[c] = 0, !.usage.credited[c] = 0]
             following == [job EXCEPT !.pc = "zerodaily"]
  <1>1. job.pc = "zerousage" /\ KeepWorld /\ SaveThen(new, following)
    BY DEF ZeroUsage, At
  <1>2. /\ dir \in Directory /\ dir.journal = None /\ job \in Job /\ Holder(dir, job)
        /\ AlwaysInTime(dir, job)
        /\ Leads(dir.usage, dir.daily) /\ Credits(dir.usage) /\ Kept(dir.preserved, dir.daily)
        /\ c \in Cycles /\ job.kind # "tick"
    BY <1>1, NothingPending DEF Replaying, Holder
  <1>3. /\ dir.usage.total \in [Cycles -> Nat] /\ dir.usage.credited \in [Cycles -> Nat]
        /\ dir.daily.total \in [Cycles -> Nat] /\ dir.usage \in UsageFile
    BY <1>2, FileTypes
  <1>4. new.usage = [total |-> [dir.usage.total EXCEPT ![c] = 0],
                     credited |-> [dir.usage.credited EXCEPT ![c] = 0],
                     tuic |-> dir.usage.tuic]
    BY <1>2, <1>3 DEF Directory, UsageFile
  <1>5. new.usage \in UsageFile
    BY <1>2, <1>3, <1>4 DEF UsageFile
  <1>6. /\ new.daily = dir.daily /\ new.source = dir.source /\ new.journal = None
        /\ new.reset = dir.reset /\ new.preserved = dir.preserved /\ new \in Directory
    BY <1>2, <1>5 DEF Directory
  <1> HIDE DEF new
  <1>7. Leads(new.usage, new.daily)
    BY <1>2, <1>3, <1>4, <1>6 DEF Leads
  <1>8. Credits(new.usage)
    BY <1>2, <1>3, <1>4 DEF Credits
  <1>9. AlwaysInTime(new, job)
    <2>1. \A k \in Cycles : new.usage.credited[k] # 0 => dir.usage.credited[k] # 0
      BY <1>3, <1>4
    <2> QED BY <1>2, <1>6, <2>1 DEF AlwaysInTime, InTime, Timely
  <1>10. following \in Job /\ following.kind = job.kind /\ following.now = job.now
    BY <1>2 DEF Job, Pc
  <1>11. new.usage.total[c] = 0
    BY <1>2, <1>3, <1>4
  <1>12. Holder(new, following)
    BY <1>1, <1>2, <1>6, <1>11 DEF Holder, HasSample, Forgiven, Replaying, Job
  <1>13. new.daily.tuic = dir.daily.tuic /\ new.usage.tuic = dir.usage.tuic
         /\ Kept(new.preserved, new.daily)
    BY <1>2, <1>4, <1>6
  <1> HIDE DEF following
  <1> QED BY <1>1, <1>6, <1>7, <1>8, <1>9, <1>10, <1>12, <1>13, LedgerSaveKeepsInv DEF Replaying

LEMMA ZeroDailyKeepsInv == ASSUME Inv, ZeroDaily PROVE Inv'
  <1> DEFINE c == job.now.cycle
             owed == IF job.kind = "reset" THEN 0 ELSE dir.daily.owed[c]
             new == [dir EXCEPT !.daily.total[c] = 0, !.daily.owed[c] = owed]
  <1>1. job.pc = "zerodaily" /\ KeepWorld /\ SaveThen(new, IdleJob)
    BY DEF ZeroDaily, At
  <1>2. /\ dir \in Directory /\ dir.journal = None /\ job \in Job /\ Holder(dir, job)
        /\ AlwaysInTime(dir, job)
        /\ Leads(dir.usage, dir.daily) /\ Credits(dir.usage) /\ Kept(dir.preserved, dir.daily)
        /\ c \in Cycles
    BY <1>1, NothingPending DEF Replaying
  <1>3. /\ dir.daily.total \in [Cycles -> Nat] /\ dir.daily.owed \in [Cycles -> Nat]
        /\ dir.usage.total \in [Cycles -> Nat] /\ dir.preserved \in [Cycles -> Nat]
        /\ dir.daily \in DailyFile /\ owed \in Nat
    BY <1>2, FileTypes
  <1>4. new.daily = [total |-> [dir.daily.total EXCEPT ![c] = 0],
                     owed |-> [dir.daily.owed EXCEPT ![c] = owed],
                     tuic |-> dir.daily.tuic, core |-> dir.daily.core]
    BY <1>2, <1>3 DEF Directory, DailyFile
  <1>5. new.daily \in DailyFile
    <2>1. /\ [dir.daily.total EXCEPT ![c] = 0] \in [Cycles -> Nat]
          /\ [dir.daily.owed EXCEPT ![c] = owed] \in [Cycles -> Nat]
      BY <1>3
    <2>2. dir.daily.tuic \in Nat /\ dir.daily.core \in Nat
      BY <1>3 DEF DailyFile
    <2> HIDE DEF new, owed
    <2> QED BY <1>4, <2>1, <2>2 DEF DailyFile
  <1>6. /\ new.usage = dir.usage /\ new.source = dir.source /\ new.journal = None
        /\ new.reset = dir.reset /\ new.preserved = dir.preserved /\ new \in Directory
    BY <1>2, <1>5 DEF Directory
  <1> HIDE DEF new
  <1>7. Leads(new.usage, new.daily)
    <2>1. dir.usage.total[c] = 0
      BY <1>1, <1>2 DEF Holder
    <2> QED BY <2>1, <1>2, <1>3, <1>4, <1>6 DEF Leads
  <1>8. Kept(new.preserved, new.daily)
    <2>1. dir.preserved[c] >= owed
      BY <1>1, <1>2, <1>3 DEF Holder, Forgiven
    <2> QED BY <2>1, <1>2, <1>3, <1>4, <1>6 DEF Kept
  <1>9. AlwaysInTime(new, job)
    BY <1>2, <1>6 DEF AlwaysInTime, InTime
  <1>10. IdleJob \in Job /\ IdleJob.pc = "idle" /\ Holder(new, IdleJob)
    BY IdleJobIsJob, NobodyHolds DEF Inv, IdleJob
  <1>11. new.daily.tuic = dir.daily.tuic /\ new.usage.tuic = dir.usage.tuic /\ Credits(new.usage)
    BY <1>2, <1>4, <1>6
  <1> QED BY <1>1, <1>6, <1>7, <1>8, <1>9, <1>10, <1>11, LedgerSaveKeepsInv DEF Replaying

\* What a credit of n bytes adds, and to what: to every ledger the same.
Adds(d, after, c, n, gen, count) ==
    /\ n \in Nat /\ after \in Ledgers
    /\ after.daily.total = [d.daily.total EXCEPT ![c] = @ + n]
    /\ after.daily.owed = [d.daily.owed EXCEPT ![c] = @ + n]
    /\ after.daily.tuic = d.daily.tuic + n
    /\ after.usage.total = [d.usage.total EXCEPT ![c] = @ + n]
    /\ after.usage.credited = [d.usage.credited EXCEPT ![c] = @ + n]
    /\ after.usage.tuic = d.usage.tuic + n
    /\ after.source = [gen |-> gen, count |-> count, seen |-> d.source.seen + n]

LEMMA CreditedAdds ==
  ASSUME NEW d \in Directory, NEW c \in Cycles, NEW gen \in Nat, NEW count \in Nat,
         Earlier(d.source.gen, d.source.count, [gen |-> gen, count |-> count])
  PROVE  Adds(d, Credited(d, c, gen, count), c, Delta(d.source, gen, count), gen, count)
  <1> DEFINE n == Delta(d.source, gen, count)
             after == Credited(d, c, gen, count)
  <1>1. /\ d.daily \in DailyFile /\ d.usage \in UsageFile /\ d.source \in SourceFile
        /\ d.daily.total \in [Cycles -> Nat] /\ d.daily.owed \in [Cycles -> Nat]
        /\ d.daily.tuic \in Nat /\ d.daily.core \in Nat
        /\ d.usage.total \in [Cycles -> Nat] /\ d.usage.credited \in [Cycles -> Nat]
        /\ d.usage.tuic \in Nat
        /\ d.source.gen \in Nat /\ d.source.count \in Nat /\ d.source.seen \in Nat
    BY FileTypes
  <1>2. n \in Nat
    BY <1>1 DEF Delta, Earlier
  <1> HIDE DEF n
  <1>3. after = [daily |-> [d.daily EXCEPT !.total[c] = @ + n, !.owed[c] = @ + n, !.tuic = @ + n],
                 usage |-> [d.usage EXCEPT !.total[c] = @ + n, !.credited[c] = @ + n, !.tuic = @ + n],
                 source |-> [gen |-> gen, count |-> count, seen |-> d.source.seen + n]]
    BY DEF Credited, n
  <1> HIDE DEF after
  <1>4. after.daily = [total |-> [d.daily.total EXCEPT ![c] = @ + n],
                       owed |-> [d.daily.owed EXCEPT ![c] = @ + n],
                       tuic |-> d.daily.tuic + n, core |-> d.daily.core]
    BY <1>1, <1>3 DEF DailyFile
  <1>5. after.usage = [total |-> [d.usage.total EXCEPT ![c] = @ + n],
                       credited |-> [d.usage.credited EXCEPT ![c] = @ + n],
                       tuic |-> d.usage.tuic + n]
    BY <1>1, <1>3 DEF UsageFile
  <1>6. after.source = [gen |-> gen, count |-> count, seen |-> d.source.seen + n]
    BY <1>3
  <1>7. after.daily \in DailyFile
    BY <1>1, <1>2, <1>4 DEF DailyFile
  <1>8. after.usage \in UsageFile
    BY <1>1, <1>2, <1>5 DEF UsageFile
  <1>9. after.source \in SourceFile
    BY <1>1, <1>2, <1>6 DEF SourceFile
  <1>10. after = [daily |-> after.daily, usage |-> after.usage, source |-> after.source]
    BY <1>3
  <1>11. after \in Ledgers
    BY <1>7, <1>8, <1>9, <1>10 DEF Ledgers
  <1>12. Adds(d, after, c, n, gen, count)
    BY <1>2, <1>4, <1>5, <1>6, <1>11 DEF Adds
  <1> QED BY <1>12 DEF n, after

LEMMA CreditKeepsInv == ASSUME Inv, Credit PROVE Inv'
  <1> DEFINE c == job.now.cycle
             n == Delta(dir.source, job.gen, job.count)
             after == Credited(dir, job.now.cycle, job.gen, job.count)
             new == [dir EXCEPT !.journal = [before |-> Current(dir), after |-> after]]
             following == [job EXCEPT !.pc = "recover", !.next = "clear"]
  <1>1. job.pc = "credit" /\ KeepWorld
    BY DEF Credit, At
  <1>2. /\ dir \in Directory /\ dir.journal = None /\ job \in Job /\ Holder(dir, job)
        /\ AlwaysInTime(dir, job) /\ Sampled(dir) /\ Balanced(dir)
        /\ Leads(dir.usage, dir.daily) /\ Credits(dir.usage) /\ Kept(dir.preserved, dir.daily)
        /\ c \in Cycles /\ job.kind = "tick"
    BY <1>1, NothingPending DEF Replaying, Holder
  <1>3. /\ Earlier(job.gen, job.count, counter) /\ job.gen \in Nat /\ job.count \in Nat
        /\ Earlier(dir.source.gen, dir.source.count, [gen |-> job.gen, count |-> job.count])
    BY <1>1, <1>2 DEF Holder, HasSample, Job
  <1>31. Adds(dir, after, c, n, job.gen, job.count)
    BY <1>2, <1>3, CreditedAdds
  <1> HIDE DEF n, after
  <1>4. /\ n \in Nat /\ after \in Ledgers
        /\ after.daily.total = [dir.daily.total EXCEPT ![c] = @ + n]
        /\ after.daily.owed = [dir.daily.owed EXCEPT ![c] = @ + n]
        /\ after.daily.tuic = dir.daily.tuic + n
        /\ after.usage.total = [dir.usage.total EXCEPT ![c] = @ + n]
        /\ after.usage.credited = [dir.usage.credited EXCEPT ![c] = @ + n]
        /\ after.usage.tuic = dir.usage.tuic + n
        /\ after.source = [gen |-> job.gen, count |-> job.count, seen |-> dir.source.seen + n]
    BY <1>31 DEF Adds
  <1>5. CASE after = Current(dir)
    <2>1. Holder(dir, [job EXCEPT !.pc = "clear"])
      BY <1>1, <1>2 DEF Holder, HasSample, Replaying, Job
    <2> QED BY <1>1, <1>5, <2>1, GotoKeepsInv DEF Credit, Pc, after
  <1>6. CASE after # Current(dir)
    <2>1. SaveThen(new, following)
      BY <1>6 DEF Credit, after
    <2>2. Current(dir) \in Ledgers
      BY <1>2 DEF Current, Directory, Ledgers
    <2>3. [before |-> Current(dir), after |-> after] \in Journal
      BY <1>4, <2>2 DEF Journal
    <2>4. /\ new.daily = dir.daily /\ new.usage = dir.usage /\ new.source = dir.source
          /\ new.reset = dir.reset /\ new.preserved = dir.preserved
          /\ new.journal = [before |-> Current(dir), after |-> after]
          /\ new.journal # None /\ new \in Directory
      BY <1>2, <2>3, NoneAssumption DEF Directory
    <2> HIDE DEF new
    <2>5. /\ new.journal.before = Current(dir) /\ new.journal.after = after
          /\ Current(new) = Current(dir) /\ Current(dir).usage = dir.usage
      BY <2>4 DEF Current
    <2>6. /\ dir.daily.total \in [Cycles -> Nat] /\ dir.daily.owed \in [Cycles -> Nat]
          /\ dir.daily.tuic \in Nat /\ dir.usage.tuic \in Nat /\ dir.source.seen \in Nat
          /\ dir.usage.total \in [Cycles -> Nat] /\ dir.usage.credited \in [Cycles -> Nat]
          /\ dir.preserved \in [Cycles -> Nat]
      BY <1>2, FileTypes
    <2>7. Leads(dir.usage, after.daily) /\ Leads(after.usage, after.daily) /\ Credits(after.usage)
          /\ Kept(dir.preserved, after.daily)
      <3>1. Leads(dir.usage, dir.daily) /\ Credits(dir.usage) /\ Kept(dir.preserved, dir.daily)
        BY <1>2
      <3>2. Leads(dir.usage, after.daily)
        BY <1>4, <2>6, <3>1 DEF Leads
      <3>3. Leads(after.usage, after.daily)
        BY <1>4, <2>6, <3>1 DEF Leads
      <3>4. Credits(after.usage)
        BY <1>4, <2>6, <3>1 DEF Credits
      <3>5. Kept(dir.preserved, after.daily)
        BY <1>4, <2>6, <3>1 DEF Kept
      <3> QED BY <3>2, <3>3, <3>4, <3>5
    <2>8. Balanced(after)
      BY <1>2, <1>4, <2>6 DEF Balanced
    <2>9. Fits(new)
      BY <2>5 DEF Fits
    <2>10. Sound(new)
      BY <1>2, <2>4, <2>5, <2>7, <2>8, <2>9 DEF Sound, ImagesSound
    <2>11. AlwaysInTime(new, job)
      <3>1. \A k \in Cycles : k # c => after.usage.credited[k] = dir.usage.credited[k]
        BY <1>4, <2>6
      <3>2. after.usage.credited \in [Cycles -> Nat]
        BY <1>2, <1>4, <2>6
      <3>3. /\ Timely(after.usage.credited, dir.reset, today)
            /\ Timely(after.usage.credited, dir.reset, job.now) /\ tick = None
        BY <1>1, <3>1, <3>2, CreditsAreInTime
      <3> QED BY <1>2, <2>4, <2>5, <3>3 DEF AlwaysInTime, InTime
    <2>12. Sampled(new)
      <3>1. Earlier(after.source.gen, after.source.count, counter)
        BY <1>3, <1>4
      <3> QED BY <1>2, <2>4, <2>5, <3>1 DEF Sampled
    <2>13. Settled(new).source.seen >= Settled(dir).source.seen
      BY <1>2, <1>4, <2>4, <2>5, <2>6 DEF Settled, Current
    <2>14. following \in Job /\ following.kind = job.kind /\ following.now = job.now
      BY <1>2 DEF Job, Pc
    <2>15. Holder(new, following)
      BY <1>2 DEF Holder, HasSample, Replaying, Job
    <2> HIDE DEF following
    <2> QED BY <1>1, <2>1, <2>4, <2>10, <2>11, <2>12, <2>13, <2>14, <2>15, SaveKeepsInv
  <1> QED BY <1>5, <1>6

-----------------------------------------------------------------------------
(* The lock, and the world. *)

LEMMA IdleKeepsInv ==
  ASSUME Inv, NEW following \in Job, job.pc = "idle", following.pc = "recover",
         following.next \in {"collect", "preserve", "zerousage"},
         following.kind = "tick" <=> following.next = "collect",
         following.next = "zerousage" => following.kind = "reset",
         job' = following,
         following.kind = "tick" => tick # None /\ following.now = tick /\ tick' = None,
         following.kind # "tick" => tick' = tick,
         KeepFiles, UNCHANGED <<today, counter, waiting, drained, faults>>
  PROVE  Inv'
  <1>1. TypeOK'
    BY DEF Inv, TypeOK, KeepFiles
  <1>2. TimeInv'
    BY DEF Inv, TimeInv, TickJob
  <1>3. DiskInv'
    BY DEF Inv, DiskInv, AlwaysInTime, TickJob, Sampled, KeepFiles
  <1>4. Holder(dir, job)'
    BY DEF Holder, HasSample, Replaying
  <1> QED BY <1>1, <1>2, <1>3, <1>4 DEF Inv

LEMMA LockKeepsInv ==
  ASSUME Inv, TickLock \/ \E kind \in {"refresh", "reset"} : Correct(kind)
  PROVE  Inv'
  <1>1. IdleJob \in Job
    BY IdleJobIsJob DEF Inv
  <1>2. CASE TickLock
    <2> DEFINE following == [IdleJob EXCEPT !.pc = "recover", !.next = "collect", !.now = tick]
    <2>1. tick \in Day /\ job.pc = "idle"
      BY <1>2 DEF TickLock, At, Inv, TypeOK
    <2>2. /\ following \in Job /\ following.pc = "recover" /\ following.next = "collect"
          /\ following.kind = "tick" /\ following.now = tick
      BY <1>1, <2>1 DEF Job, Pc, IdleJob
    <2>3. /\ job' = following /\ tick # None /\ tick' = None /\ KeepFiles
          /\ UNCHANGED <<today, counter, waiting, drained, faults>>
      BY <1>2 DEF TickLock
    <2> HIDE DEF following
    <2> QED BY <2>1, <2>2, <2>3, IdleKeepsInv
  <1>3. ASSUME NEW kind \in {"refresh", "reset"}, Correct(kind)
        PROVE  Inv'
    <2> DEFINE following == [IdleJob EXCEPT !.pc = "recover", !.now = today, !.kind = kind,
                               !.next = IF kind = "refresh" THEN "preserve" ELSE "zerousage"]
    <2>1. today \in Day /\ job.pc = "idle"
      BY <1>3 DEF Correct, At, Inv, TypeOK
    <2>2. /\ following \in Job /\ following.pc = "recover" /\ following.kind = kind
          /\ following.next = (IF kind = "refresh" THEN "preserve" ELSE "zerousage")
      BY <1>1, <2>1 DEF Job, Pc, IdleJob
    <2>3. /\ job' = following /\ tick' = tick /\ KeepFiles
          /\ UNCHANGED <<today, counter, waiting, drained, faults>>
      BY <1>3 DEF Correct, KeepWorld
    <2> HIDE DEF following
    <2> QED BY <2>1, <2>2, <2>3, IdleKeepsInv
  <1> QED BY <1>2, <1>3

LEMMA TickKeepsInv == ASSUME Inv, StartTick \/ TickTimeout PROVE Inv'
  <1>1. tick' \in {None, today} /\ KeepFiles /\ UNCHANGED <<job, today, counter, waiting, drained, faults>>
    BY DEF StartTick, TickTimeout
  <1>2. TickJob(job) => tick' = None
    BY DEF StartTick, TickTimeout, TickJob
  <1>3. TypeOK'
    BY <1>1 DEF Inv, TypeOK, KeepFiles
  <1>4. TimeInv'
    BY <1>1, <1>2 DEF Inv, TimeInv, NotAfter, TypeOK, Day
  <1>5. DiskInv'
    BY <1>1 DEF Inv, DiskInv, AlwaysInTime, Sampled, KeepFiles
  <1>6. Holder(dir, job)'
    BY <1>1 DEF Inv, Holder, HasSample, Forgiven, KeepFiles
  <1> QED BY <1>3, <1>4, <1>5, <1>6 DEF Inv

\* A run of tuic-server goes on, or another begins.
LEMMA CounterKeepsInv ==
  ASSUME Inv, KeepFiles, UNCHANGED <<job, tick, today, faults>>,
         waiting' \in Nat, drained' = drained, counter' \in [gen : Nat, count : Nat],
         \/ counter'.gen = counter.gen /\ counter'.count >= counter.count
         \/ counter'.gen > counter.gen
  PROVE  Inv'
  <1>1. TypeOK'
    BY DEF Inv, TypeOK, KeepFiles
  <1>2. TimeInv'
    BY DEF Inv, TimeInv
  <1>3. ASSUME NEW gen \in Nat, NEW count \in Nat, Earlier(gen, count, counter)
        PROVE  Earlier(gen, count, counter')
    BY <1>3 DEF Earlier, Inv, TypeOK
  <1>4. ASSUME NEW d \in disk PROVE Sampled(d)'
    <2>1. d \in Directory /\ Sampled(d)
      BY DEF Inv, TypeOK, DiskInv
    <2>2. /\ d.source.gen \in Nat /\ d.source.count \in Nat
          /\ d.journal # None =>
                d.journal.after.source.gen \in Nat /\ d.journal.after.source.count \in Nat
      BY <2>1 DEF Directory, SourceFile, Journal, Ledgers
    <2> QED BY <1>3, <2>1, <2>2 DEF Sampled
  <1>5. DiskInv'
    BY <1>4 DEF Inv, DiskInv, AlwaysInTime, KeepFiles
  <1>6. Holder(dir, job)'
    <2>1. job.gen \in Nat /\ job.count \in Nat
      BY DEF Inv, TypeOK, Job
    <2>2. HasSample(job) => Earlier(job.gen, job.count, counter')
      BY <1>3, <2>1 DEF Inv, Holder
    <2> QED BY <2>2 DEF Inv, Holder, HasSample, Forgiven, KeepFiles
  <1> QED BY <1>1, <1>2, <1>5, <1>6 DEF Inv

LEMMA MidnightKeepsInv == ASSUME Inv, Midnight PROVE Inv'
  <1>1. KeepFiles /\ UNCHANGED <<job, tick, counter, waiting, drained, faults>> /\ today \in Day
    BY DEF Midnight, Inv, TypeOK
  <1>2. today' \in Day
    <2>1. today.cycle \in 1..MaxCycle /\ today.settling \in BOOLEAN
      BY <1>1 DEF Day, Cycles
    <2>2. CASE today.settling \/ today.cycle = MaxCycle
      BY <1>1, <2>2 DEF Midnight, Day
    <2>3. CASE ~(today.settling \/ today.cycle = MaxCycle)
      <3>1. today.cycle + 1 \in Cycles
        BY <2>1, <2>3, LedgerAssumption DEF Cycles
      <3> QED BY <2>3, <3>1 DEF Midnight, Day
    <2> QED BY <2>2, <2>3
  <1>3. NotAfter(today, today')
    BY <1>1 DEF Midnight, NotAfter, Day, Cycles
  <1>4. ASSUME NEW t \in Day, NotAfter(t, today) PROVE NotAfter(t, today')
    BY <1>1, <1>2, <1>3, <1>4 DEF NotAfter, Day, Cycles
  <1>5. ASSUME NEW credited \in [Cycles -> Nat], NEW reset, Timely(credited, reset, today)
        PROVE  Timely(credited, reset, today')
    BY <1>1, <1>2, <1>3, <1>5 DEF Timely, NotAfter, Day, Cycles
  <1>6. TypeOK'
    BY <1>1, <1>2 DEF Inv, TypeOK, KeepFiles
  <1>7. TimeInv'
    BY <1>1, <1>4 DEF Inv, TimeInv, TickJob, TypeOK, Job
  <1>8. ASSUME NEW d \in disk PROVE AlwaysInTime(d, job)'
    <2>1. d \in Directory /\ AlwaysInTime(d, job)
      BY DEF Inv, TypeOK, DiskInv
    <2>2. /\ d.usage.credited \in [Cycles -> Nat]
          /\ d.journal # None => d.journal.after.usage.credited \in [Cycles -> Nat]
      BY <2>1 DEF Directory, UsageFile, Journal, Ledgers
    <2>3. InTime(d, today')
      BY <1>5, <2>1, <2>2 DEF AlwaysInTime, InTime
    <2> QED BY <1>1, <2>1, <2>3 DEF AlwaysInTime
  <1>9. DiskInv'
    BY <1>1, <1>8 DEF Inv, DiskInv, Sampled, KeepFiles
  <1>10. Holder(dir, job)'
    BY <1>1 DEF Inv, Holder, HasSample, Forgiven, KeepFiles
  <1> QED BY <1>6, <1>7, <1>9, <1>10 DEF Inv

LEMMA PowerLossKeepsInv == ASSUME Inv, PowerLoss PROVE Inv'
  <1>1. /\ dir' \in disk /\ disk' = {dir'} /\ job' = IdleJob /\ tick' = None
        /\ counter' = [gen |-> counter.gen + 1, count |-> 0] /\ waiting' = 0
        /\ today' = today /\ drained' = drained /\ faults' = faults + 1 /\ faults < MaxFaults
    BY DEF PowerLoss, Fault
  <1>2. IdleJob \in Job /\ IdleJob.pc = "idle" /\ dir' \in Directory
    BY <1>1, IdleJobIsJob DEF Inv, TypeOK, IdleJob
  <1>3. TypeOK'
    BY <1>1, <1>2, LedgerAssumption DEF Inv, TypeOK
  <1>4. TimeInv'
    BY <1>1, <1>2 DEF TimeInv, TickJob
  <1>5. Sound(dir') /\ AlwaysInTime(dir', job) /\ Sampled(dir')
    BY <1>1 DEF Inv, DiskInv
  <1>6. (AlwaysInTime(dir, job))'
    BY <1>1, <1>2, <1>5 DEF AlwaysInTime, TickJob
  <1>7. Sampled(dir)'
    <2>1. /\ dir'.source.gen \in Nat
          /\ dir'.journal # None => dir'.journal.after.source.gen \in Nat
      BY <1>2 DEF Directory, SourceFile, Journal, Ledgers
    <2>2. counter.gen \in Nat
      BY DEF Inv, TypeOK
    <2> QED BY <1>1, <1>5, <2>1, <2>2 DEF Sampled, Earlier
  <1>8. Settled(dir').source.seen <= Settled(dir').source.seen
    <2>1. Settled(dir').source.seen \in Nat
      BY <1>2 DEF Settled, Current, Directory, SourceFile, Journal, Ledgers
    <2> QED BY <2>1
  <1>9. DiskInv'
    BY <1>1, <1>5, <1>6, <1>7, <1>8 DEF DiskInv
  <1>10. Holder(dir, job)'
    BY <1>1, <1>2, NobodyHolds DEF Holder, HasSample, Replaying
  <1> QED BY <1>3, <1>4, <1>9, <1>10 DEF Inv

-----------------------------------------------------------------------------
(* The theorems. *)

LEMMA InitInv == Init => Inv
  <1> SUFFICES ASSUME Init PROVE Inv
    OBVIOUS
  <1>1. /\ dir = EmptyDirectory /\ disk = {EmptyDirectory} /\ job = IdleJob /\ tick = None
        /\ today \in [cycle : {1}, settling : BOOLEAN] /\ counter = [gen |-> 1, count |-> 0]
        /\ waiting = 0 /\ drained = 0 /\ faults = 0
    BY DEF Init
  <1>2. Zeroes \in [Cycles -> Nat] /\ \A c \in Cycles : Zeroes[c] = 0
    BY DEF Zeroes
  <1> DEFINE daily == [total |-> Zeroes, owed |-> Zeroes, tuic |-> 0, core |-> 0]
             usage == [total |-> Zeroes, credited |-> Zeroes, tuic |-> 0]
             source == [gen |-> 0, count |-> 0, seen |-> 0]
  <1>3. daily \in DailyFile /\ usage \in UsageFile /\ source \in SourceFile
    BY <1>2 DEF DailyFile, UsageFile, SourceFile
  <1>4. /\ dir \in Directory /\ dir.daily = daily /\ dir.usage = usage /\ dir.source = source
        /\ dir.journal = None /\ dir.reset = 0 /\ dir.preserved = Zeroes
    BY <1>1, <1>2, <1>3 DEF EmptyDirectory, Directory
  <1>5. today \in Day /\ IdleJob \in Job
    BY <1>1, LedgerAssumption, IdleJobIsJob DEF Day, Cycles
  <1>6. TypeOK
    BY <1>1, <1>4, <1>5, LedgerAssumption DEF TypeOK
  <1>7. Sound(dir)
    BY <1>2, <1>4 DEF Sound, Leads, Credits, Kept, Balanced
  <1>8. AlwaysInTime(dir, job) /\ Sampled(dir)
    BY <1>1, <1>2, <1>4 DEF AlwaysInTime, InTime, Timely, TickJob, IdleJob, Sampled, Earlier
  <1>9. Settled(dir).source.seen <= Settled(dir).source.seen
    BY <1>4 DEF Settled, Current
  <1>10. DiskInv
    BY <1>1, <1>7, <1>8, <1>9 DEF DiskInv
  <1>11. TimeInv /\ Holder(dir, job)
    BY <1>1, NobodyHolds DEF TimeInv, TickJob, IdleJob
  <1> QED BY <1>6, <1>10, <1>11 DEF Inv

LEMMA NextKeepsInv == Inv /\ [Next]_vars => Inv'
  <1> SUFFICES ASSUME Inv, [Next]_vars PROVE Inv'
    OBVIOUS
  <1>1. CASE UNCHANGED vars
    BY <1>1 DEF vars, Inv, TypeOK, DiskInv, Sound, ImagesSound, AlwaysInTime, Sampled, Settled,
                Current, Fits, TimeInv, TickJob, Holder, HasSample, Forgiven
  <1>2. CASE StartTick \/ TickLock \/ TickTimeout
    BY <1>2, TickKeepsInv, LockKeepsInv
  <1>3. CASE Recovery
    BY <1>3, RecoverKeepsInv, RecoverDailyKeepsInv, RecoverUsageKeepsInv, RecoverSourceKeepsInv,
       UnlinkKeepsInv DEF Recovery
  <1>4. CASE TickStep
    BY <1>4, CollectKeepsInv, ResetKeepsInv, MarkResetKeepsInv, CreditKeepsInv, ClearKeepsInv,
       CommitDailyKeepsInv, CommitUsageKeepsInv DEF TickStep
  <1>5. CASE Correction
    BY <1>5, LockKeepsInv, PreserveKeepsInv, ZeroUsageKeepsInv, ZeroDailyKeepsInv DEF Correction
  <1>6. CASE MoveTuic \/ MoveCore \/ RestartTuic
    BY <1>6, CounterKeepsInv DEF MoveTuic, MoveCore, RestartTuic, Inv, TypeOK
  <1>7. CASE Crash
    BY <1>7, AbortKeepsInv DEF Crash, At
  <1>8. CASE Midnight \/ PowerLoss
    BY <1>8, MidnightKeepsInv, PowerLossKeepsInv
  <1> QED BY <1>1, <1>2, <1>3, <1>4, <1>5, <1>6, <1>7, <1>8 DEF Next, World

THEOREM InvAlways == Spec => []Inv
  BY InitInv, NextKeepsInv, PTL DEF Spec

\* Every file, image and job is of the form the code writes.
THEOREM TypesHold == Spec => []TypeOK
  BY InvAlways, PTL DEF Inv

\* usage.lock can be taken again after any failure: recover_locked never finds a
\* file that its journal does not know.
THEOREM JournalsFit == Spec => []JournalNeverConflicts
  <1>1. Inv => JournalNeverConflicts
    BY DEF Inv, DiskInv, Sound, ImagesSound, JournalNeverConflicts
  <1> QED BY <1>1, InvAlways, PTL

\* The ledger that the quota is decided on is never behind the monthly summary.
THEOREM QuotaLeads == Spec => []QuotaLedgerLeads
  <1>1. Inv => QuotaLedgerLeads
    BY DEF Inv, DiskInv, Sound, Leads, QuotaLedgerLeads
  <1> QED BY <1>1, InvAlways, PTL

\* The reset of a settlement day takes back no credit of the cycle it opens.
THEOREM ResetsKeepCredits == Spec => []ResetKeepsCredits
  <1>1. Inv => ResetKeepsCredits
    BY DEF Inv, DiskInv, TypeOK, Sound, Credits, ResetKeepsCredits
  <1> QED BY <1>1, InvAlways, PTL

\* A refresh loses no byte of the server's total, wherever it dies.
THEOREM RefreshesKeepTotals == Spec => []RefreshKeepsTotals
  <1>1. Inv => RefreshKeepsTotals
    BY DEF Inv, DiskInv, Sound, Kept, RefreshKeepsTotals
  <1> QED BY <1>1, InvAlways, PTL

-----------------------------------------------------------------------------
(* The bytes of Hysteria and Xray: what was read and cleared is in the quota *)
(* ledger, or in the hands of the holder that has yet to write it.           *)

Hand(j) == IF j.pc \in {"reset", "mark", "daily"} THEN j.taken ELSE 0

\* Only a holder on its way to the ledgers has bytes in its hands.
Carries(j) ==
    j.taken # 0 => \/ j.pc \in {"daily", "usage"}
                   \/ j.pc \in {"reset", "mark"} /\ j.next = "daily"

\* A journal of TUIC's does not touch the other sources' bytes.
CoreKept(d) == d.journal # None => d.journal.after.daily.core = d.daily.core

BytesInv ==
    /\ \A d \in disk : d.daily.core <= drained /\ CoreKept(d)
    /\ Carries(job) /\ CoreBytesOnce

\* What the steps need to know of the numbers.
LEMMA BytesTypes ==
  ASSUME Inv
  PROVE  /\ dir \in Directory /\ dir \in disk /\ job \in Job /\ disk \subseteq Directory
         /\ dir.daily.core \in Nat /\ drained \in Nat /\ waiting \in Nat /\ faults \in Nat
         /\ job.taken \in Nat /\ Hand(job) \in Nat /\ InHand = Hand(job)
         /\ \A j \in Job : j.taken \in Nat /\ Hand(j) \in Nat
  <1>1. /\ dir \in Directory /\ dir \in disk /\ job \in Job /\ drained \in Nat
        /\ waiting \in Nat /\ faults \in Nat /\ disk \subseteq Directory
    BY LedgerAssumption DEF Inv, TypeOK
  <1>2. \A j \in Job : j.taken \in Nat /\ Hand(j) \in Nat
    BY DEF Job, Hand
  <1> QED BY <1>1, <1>2, FileTypes DEF Hand, InHand

\* A save that changes where the bytes are and not how many there are.
LEMMA SaveKeepsBytes ==
  ASSUME Inv, BytesInv, NEW new \in Directory, NEW following \in Job,
         SaveThen(new, following), KeepWorld, CoreKept(new), Carries(following),
         new.daily.core + Hand(following) = dir.daily.core + Hand(job),
         new.daily.core >= dir.daily.core
  PROVE  BytesInv'
  <1>1. PICK outcome \in Outcomes :
          /\ dir' = Visible(dir, new, outcome)
          /\ disk' = OnDisk(disk, new, outcome)
          /\ IF outcome = "ok" THEN job' = following /\ UNCHANGED faults ELSE Abort
    BY DEF SaveThen
  <1>2. new.daily.core \in Nat /\ Hand(following) \in Nat /\ Hand(IdleJob) = 0 /\ Carries(IdleJob)
    BY BytesTypes, FileTypes DEF Hand, Carries, IdleJob
  <1>3. new.daily.core + Hand(following) <= drained /\ new.daily.core <= drained
        /\ dir.daily.core <= drained /\ drained' = drained
    BY <1>2, BytesTypes DEF BytesInv, CoreBytesOnce, KeepWorld
  <1>4. CASE outcome = "ok"
    <2>1. dir' = new /\ disk' = {new} /\ job' = following /\ faults' = faults
      BY <1>1, <1>4 DEF Visible, OnDisk
    <2>2. InHand' = Hand(following)
      BY <2>1 DEF InHand, Hand
    <2>3. CoreBytesOnce'
      BY <1>2, <1>3, <2>1, <2>2, BytesTypes DEF BytesInv, CoreBytesOnce
    <2> QED BY <1>3, <2>1, <2>3 DEF BytesInv
  <1>5. CASE outcome # "ok"
    <2>1. /\ dir' \in {dir, new} /\ disk' \subseteq disk \cup {new}
          /\ job' = IdleJob /\ faults' = faults + 1
      BY <1>1, <1>5, LedgerAssumption DEF Visible, OnDisk, Abort, Fault, SaveOutcome
    <2>2. InHand' = 0 /\ faults' # 0
      BY <2>1, BytesTypes DEF InHand, IdleJob
    <2>3. CoreBytesOnce'
      <3>1. dir'.daily.core \in Nat /\ dir'.daily.core <= drained'
        BY <1>2, <1>3, <2>1, BytesTypes
      <3> QED BY <3>1, <2>2 DEF CoreBytesOnce
    <2>4. \A d \in disk' : d.daily.core <= drained' /\ CoreKept(d)
      BY <1>3, <2>1 DEF BytesInv
    <2> QED BY <1>2, <2>1, <2>3, <2>4 DEF BytesInv
  <1> QED BY <1>4, <1>5

\* A step that writes no file.
LEMMA WaitKeepsBytes ==
  ASSUME Inv, BytesInv, NEW following \in Job, job' = following, KeepFiles, Carries(following),
         drained' \in Nat, drained' >= drained, faults' \in Nat,
         dir.daily.core + Hand(following) <= drained',
         faults' = 0 => dir.daily.core + Hand(following) = drained'
  PROVE  BytesInv'
  <1>1. InHand' = Hand(following)
    BY DEF InHand, Hand
  <1>2. CoreBytesOnce'
    BY <1>1 DEF CoreBytesOnce, KeepFiles
  <1>3. \A d \in disk : d.daily.core \in Nat
    BY BytesTypes, FileTypes
  <1>4. \A d \in disk' : d.daily.core <= drained' /\ CoreKept(d)
    BY <1>3, BytesTypes DEF BytesInv, KeepFiles
  <1> QED BY <1>2, <1>4 DEF BytesInv

\* The holder goes on with what it has in its hands, or without anything.
LEMMA GoingKeepsBytes ==
  ASSUME Inv, BytesInv, NEW following \in Job, KeepFiles, UNCHANGED drained,
         Carries(following), Hand(following) = Hand(job),
         job' = following /\ UNCHANGED faults
  PROVE  BytesInv'
  BY WaitKeepsBytes, BytesTypes DEF BytesInv, CoreBytesOnce

\* Whoever is stopped counts as a fault, and leaves less than was drained.
LEMMA AbortKeepsBytes ==
  ASSUME Inv, BytesInv, KeepFiles, UNCHANGED drained, Abort PROVE BytesInv'
  <1>1. IdleJob \in Job /\ Hand(IdleJob) = 0 /\ Carries(IdleJob)
    BY IdleJobIsJob DEF Hand, Carries, IdleJob
  <1>2. faults' = faults + 1 /\ faults' \in Nat /\ faults' # 0
    BY BytesTypes DEF Abort, Fault
  <1>3. dir.daily.core + Hand(IdleJob) <= drained
    BY <1>1, BytesTypes DEF BytesInv, CoreBytesOnce
  <1> QED BY <1>1, <1>2, <1>3, WaitKeepsBytes, BytesTypes DEF Abort

\* A save of the holder that adds no byte to the quota ledger.
LEMMA OtherSavesKeepBytes ==
  ASSUME Inv, BytesInv, NEW new \in Directory, NEW pc \in Pc, NEW following \in Job,
         following = IdleJob \/ following = [job EXCEPT !.pc = pc],
         SaveThen(new, following), KeepWorld,
         new.daily.core = dir.daily.core, CoreKept(new),
         Hand(following) = Hand(job), Carries(following)
  PROVE  BytesInv'
  BY SaveKeepsBytes, BytesTypes

LEMMA RecoveryKeepsBytes == ASSUME Inv, BytesInv, Recovery PROVE BytesInv'
  <1>1. /\ job.pc \in Replaying \cup {"recover"} /\ job \in Job /\ dir \in Directory /\ KeepWorld
        /\ Holder(dir, job) /\ dir \in disk
    BY BytesTypes DEF Recovery, Recover, RecoverDaily, RecoverUsage, RecoverSource, Unlink, At,
                      Replaying, Inv
  <1>2. job.taken = 0 /\ job.next \in {"collect", "clear", "preserve", "zerousage"}
    BY <1>1 DEF BytesInv, Carries, Replaying, Holder
  <1>3. ASSUME NEW pc \in {"redaily", "reusage", "resource", "unlink", "collect", "clear",
                           "preserve", "zerousage"}
        PROVE  /\ [job EXCEPT !.pc = pc] \in Job
               /\ Hand([job EXCEPT !.pc = pc]) = Hand(job) /\ Carries([job EXCEPT !.pc = pc])
    BY <1>1, <1>2 DEF Hand, Carries, Job, Pc
  <1>4. CASE Recover
    <2>1. \/ Goto(job.next) \/ Goto("redaily") \/ Abort
      BY <1>4 DEF Recover
    <2>2. KeepFiles /\ UNCHANGED drained
      BY <1>4 DEF Recover, KeepWorld
    <2>3. ASSUME NEW pc \in {"redaily", "collect", "clear", "preserve", "zerousage"}, Goto(pc)
          PROVE  BytesInv'
      BY <1>3, <2>2, <2>3, GoingKeepsBytes DEF Goto
    <2> QED BY <1>2, <2>1, <2>2, <2>3, AbortKeepsBytes
  <1>5. CASE RecoverDaily \/ RecoverUsage \/ RecoverSource
    <2>1. dir.journal # None /\ dir.journal \in Journal
          /\ dir.journal.after.daily.core = dir.daily.core
      BY <1>1, <1>5, JournalIsSound
         DEF RecoverDaily, RecoverUsage, RecoverSource, At, Replaying, Holder, BytesInv, CoreKept
    <2>2. ASSUME NEW new, \/ new = [dir EXCEPT !.daily = dir.journal.after.daily]
                          \/ new = [dir EXCEPT !.usage = dir.journal.after.usage]
                          \/ new = [dir EXCEPT !.source = dir.journal.after.source]
          PROVE  new \in Directory /\ new.daily.core = dir.daily.core /\ CoreKept(new)
      <3>1. new \in Directory /\ new.journal = dir.journal
            /\ new.daily \in {dir.daily, dir.journal.after.daily}
        BY <1>1, <2>1, <2>2 DEF Directory, Journal, Ledgers
      <3> QED BY <2>1, <3>1 DEF CoreKept
    <2>3. ASSUME NEW pc \in {"reusage", "resource", "unlink"}, NEW new \in Directory,
                 new.daily.core = dir.daily.core, CoreKept(new),
                 SaveThen(new, [job EXCEPT !.pc = pc])
          PROVE  BytesInv'
      BY <1>1, <1>3, <2>3, OtherSavesKeepBytes DEF Pc
    <2> QED BY <1>5, <2>2, <2>3 DEF RecoverDaily, RecoverUsage, RecoverSource
  <1>6. CASE Unlink
    <2> DEFINE new == [dir EXCEPT !.journal = None]
    <2>1. new \in Directory /\ new.daily = dir.daily /\ new.journal = None
      BY <1>1 DEF Directory
    <2>2. SaveThen(new, [job EXCEPT !.pc = job.next])
      BY <1>6 DEF Unlink
    <2> HIDE DEF new
    <2> QED BY <1>1, <1>2, <1>3, <2>1, <2>2, OtherSavesKeepBytes DEF CoreKept, Pc
  <1> QED BY <1>4, <1>5, <1>6 DEF Recovery

\* The answer that clears a counter is in the holder's hands, or lost.
LEMMA ClearKeepsBytes == ASSUME Inv, BytesInv, Clear PROVE BytesInv'
  <1>1. job.pc = "clear" /\ KeepFiles /\ job \in Job /\ job.taken = 0 /\ Hand(job) = 0
    BY BytesTypes DEF Clear, At, BytesInv, Carries, Hand
  <1>2. CASE /\ job' = [job EXCEPT !.pc = "reset", !.next = "daily", !.taken = waiting]
             /\ drained' = drained + waiting /\ UNCHANGED faults
    <2> DEFINE following == [job EXCEPT !.pc = "reset", !.next = "daily", !.taken = waiting]
    <2>1. following \in Job /\ Carries(following) /\ Hand(following) = waiting
      BY <1>1, BytesTypes DEF Job, Pc, Carries, Hand
    <2>2. job' = following
      BY <1>2
    <2> HIDE DEF following
    <2>3. dir.daily.core + Hand(following) <= drained'
      BY <1>1, <1>2, <2>1, BytesTypes DEF BytesInv, CoreBytesOnce
    <2>4. faults' = 0 => dir.daily.core + Hand(following) = drained'
      BY <1>1, <1>2, <2>1, BytesTypes DEF BytesInv, CoreBytesOnce
    <2>5. drained' \in Nat /\ drained' >= drained /\ faults' \in Nat
      BY <1>2, BytesTypes
    <2> QED BY <1>1, <2>1, <2>2, <2>3, <2>4, <2>5, WaitKeepsBytes
  <1>3. CASE /\ job' = [job EXCEPT !.pc = "reset", !.next = "daily"]
             /\ waiting' \in {0, waiting} /\ drained' = drained + (waiting - waiting') /\ Fault
    <2> DEFINE following == [job EXCEPT !.pc = "reset", !.next = "daily"]
    <2>1. following \in Job /\ Carries(following) /\ Hand(following) = 0
      BY <1>1, BytesTypes DEF Job, Pc, Carries, Hand
    <2>2. job' = following
      BY <1>3
    <2> HIDE DEF following
    <2>3. drained' \in Nat /\ drained' >= drained /\ faults' \in Nat /\ faults' # 0
      BY <1>3, BytesTypes DEF Fault
    <2>4. dir.daily.core + Hand(following) <= drained'
      BY <1>1, <2>1, <2>3, BytesTypes DEF BytesInv, CoreBytesOnce
    <2> QED BY <1>1, <2>1, <2>2, <2>3, <2>4, WaitKeepsBytes
  <1> QED BY <1>2, <1>3 DEF Clear

\* The files that the holder writes are of the form of the others.
LEMMA CommitIsTyped ==
  ASSUME NEW d \in Directory, NEW c \in Cycles, NEW n \in Nat
  PROVE  [d EXCEPT !.daily.total[c] = @ + n, !.daily.owed[c] = @ + n, !.daily.core = @ + n]
           \in Directory
  <1> DEFINE new == [d EXCEPT !.daily.total[c] = @ + n, !.daily.owed[c] = @ + n,
                              !.daily.core = @ + n]
  <1>1. d.daily \in DailyFile /\ d.daily.core + n \in Nat /\ d.daily.tuic \in Nat
        /\ [d.daily.total EXCEPT ![c] = @ + n] \in [Cycles -> Nat]
        /\ [d.daily.owed EXCEPT ![c] = @ + n] \in [Cycles -> Nat]
    BY FileTypes
  <1>2. new.daily = [total |-> [d.daily.total EXCEPT ![c] = @ + n],
                     owed |-> [d.daily.owed EXCEPT ![c] = @ + n],
                     tuic |-> d.daily.tuic, core |-> d.daily.core + n]
    BY <1>1 DEF Directory, DailyFile
  <1>3. new.daily \in DailyFile
    BY <1>1, <1>2 DEF DailyFile
  <1>4. /\ new.usage = d.usage /\ new.source = d.source /\ new.journal = d.journal
        /\ new.reset = d.reset /\ new.preserved = d.preserved
    BY DEF Directory
  <1>5. new \in Directory
    BY <1>3, <1>4 DEF Directory
  <1> QED BY <1>5

LEMMA UsageIsTyped ==
  ASSUME NEW d \in Directory, NEW c \in Cycles, NEW n \in Nat
  PROVE  LET new == [d EXCEPT !.usage.total[c] = @ + n, !.usage.credited[c] = @ + n]
         IN new \in Directory /\ new.daily = d.daily /\ new.journal = d.journal
  <1> DEFINE new == [d EXCEPT !.usage.total[c] = @ + n, !.usage.credited[c] = @ + n]
  <1>1. /\ d.usage \in UsageFile /\ d.usage.tuic \in Nat
        /\ [d.usage.total EXCEPT ![c] = @ + n] \in [Cycles -> Nat]
        /\ [d.usage.credited EXCEPT ![c] = @ + n] \in [Cycles -> Nat]
    BY FileTypes
  <1>2. new.usage = [total |-> [d.usage.total EXCEPT ![c] = @ + n],
                     credited |-> [d.usage.credited EXCEPT ![c] = @ + n], tuic |-> d.usage.tuic]
    BY <1>1 DEF Directory, UsageFile
  <1>3. new.usage \in UsageFile
    BY <1>1, <1>2 DEF UsageFile
  <1>4. new = [d EXCEPT !.usage = new.usage]
    BY DEF Directory
  <1> HIDE DEF new
  <1>5. new \in Directory /\ new.daily = d.daily /\ new.journal = d.journal
    BY <1>3, <1>4 DEF Directory
  <1> QED BY <1>5 DEF new

\* A tick before it clears and after it: its saves, and the two of the ledgers.
LEMMA TickKeepsBytes == ASSUME Inv, BytesInv, TickStep PROVE BytesInv'
  <1>1. /\ job.pc \in {"collect", "reset", "mark", "credit", "clear", "daily", "usage"}
        /\ job \in Job /\ dir \in Directory /\ Carries(job)
    BY BytesTypes DEF TickStep, Collect, Reset, MarkReset, Credit, Clear, CommitDaily, CommitUsage,
                      At, BytesInv
  <1>2. /\ dir.journal = None /\ job.now.cycle \in Cycles /\ job.now.settling \in BOOLEAN
        /\ Holder(dir, job)
    BY <1>1, NothingPending DEF Replaying
  <1>3. /\ dir.daily \in DailyFile /\ dir.usage \in UsageFile /\ job.taken \in Nat
        /\ dir.daily.core \in Nat
    BY <1>1, FileTypes, BytesTypes
  <1>4. CASE Collect
    <2>1. job.taken = 0 /\ job.pc = "collect"
      BY <1>1, <1>4 DEF Collect, At, Carries
    <2>2. CASE Goto("clear")
      <3>1. [job EXCEPT !.pc = "clear"] \in Job /\ Hand([job EXCEPT !.pc = "clear"]) = Hand(job)
            /\ Carries([job EXCEPT !.pc = "clear"])
        BY <1>1, <2>1 DEF Job, Pc, Hand, Carries
      <3> QED BY <1>4, <2>2, <3>1, GoingKeepsBytes DEF Collect, Goto, KeepWorld
    <2>3. CASE job' = [job EXCEPT !.pc = "reset", !.next = "credit",
                                  !.gen = counter.gen, !.count = counter.count]
               /\ UNCHANGED faults
      <3> DEFINE following == [job EXCEPT !.pc = "reset", !.next = "credit",
                                          !.gen = counter.gen, !.count = counter.count]
      <3>1. counter.gen \in Nat /\ counter.count \in Nat
        BY DEF Inv, TypeOK
      <3>2. following \in Job /\ Hand(following) = Hand(job) /\ Carries(following)
        BY <1>1, <2>1, <3>1 DEF Job, Pc, Hand, Carries
      <3>3. job' = following
        BY <2>3
      <3> HIDE DEF following
      <3> QED BY <1>4, <2>3, <3>2, <3>3, GoingKeepsBytes DEF Collect, KeepWorld
    <2> QED BY <1>4, <2>2, <2>3 DEF Collect
  <1>5. CASE Reset
    <2> DEFINE new == [dir EXCEPT !.usage.total[job.now.cycle] = 0]
    <2>1. job.pc = "reset" /\ job.next \in {"credit", "daily"} /\ KeepWorld
      BY <1>2, <1>5 DEF Reset, At, Holder
    <2>2. ASSUME NEW pc \in {"mark", job.next}
          PROVE  /\ [job EXCEPT !.pc = pc] \in Job /\ pc \in Pc
                 /\ Hand([job EXCEPT !.pc = pc]) = Hand(job) /\ Carries([job EXCEPT !.pc = pc])
      BY <1>1, <2>1 DEF Job, Pc, Hand, Carries
    <2>3. new \in Directory /\ new.daily = dir.daily /\ new.journal = None
      BY <1>1, <1>2, <1>3 DEF Directory, UsageFile
    <2>4. \/ SaveThen(new, [job EXCEPT !.pc = "mark"])
          \/ Goto(job.next) /\ KeepFiles
      BY <1>5 DEF Reset
    <2> HIDE DEF new
    <2>5. CASE SaveThen(new, [job EXCEPT !.pc = "mark"])
      BY <2>1, <2>2, <2>3, <2>5, OtherSavesKeepBytes DEF CoreKept
    <2>6. CASE Goto(job.next) /\ KeepFiles
      BY <2>1, <2>2, <2>6, GoingKeepsBytes DEF Goto, KeepWorld
    <2> QED BY <2>4, <2>5, <2>6
  <1>6. CASE MarkReset
    <2> DEFINE new == [dir EXCEPT !.reset = job.now.cycle]
    <2>1. job.pc = "mark" /\ job.next \in {"credit", "daily"} /\ KeepWorld
          /\ SaveThen(new, [job EXCEPT !.pc = job.next])
      BY <1>2, <1>6 DEF MarkReset, At, Holder
    <2>2. /\ [job EXCEPT !.pc = job.next] \in Job /\ job.next \in Pc
          /\ Hand([job EXCEPT !.pc = job.next]) = Hand(job) /\ Carries([job EXCEPT !.pc = job.next])
      BY <1>1, <2>1 DEF Job, Pc, Hand, Carries
    <2>3. new \in Directory /\ new.daily = dir.daily /\ new.journal = None
      BY <1>1, <1>2 DEF Directory, Cycles
    <2> HIDE DEF new
    <2> QED BY <2>1, <2>2, <2>3, OtherSavesKeepBytes DEF CoreKept
  <1>7. CASE Credit
    <2> DEFINE after == Credited(dir, job.now.cycle, job.gen, job.count)
               new == [dir EXCEPT !.journal = [before |-> Current(dir), after |-> after]]
               following == [job EXCEPT !.pc = "recover", !.next = "clear"]
    <2>1. job.pc = "credit" /\ job.taken = 0 /\ KeepWorld
      BY <1>1, <1>7 DEF Credit, At, Carries
    <2>2. after.daily.core = dir.daily.core /\ after \in Ledgers
      <3>1. /\ job.gen \in Nat /\ job.count \in Nat
            /\ Earlier(dir.source.gen, dir.source.count, [gen |-> job.gen, count |-> job.count])
        BY <1>1, <1>2, <2>1 DEF Holder, HasSample, Job
      <3>2. after \in Ledgers
        BY <1>1, <1>2, <3>1, CreditedAdds DEF Adds
      <3> QED BY <1>3, <3>2 DEF Credited, DailyFile
    <2> HIDE DEF after
    <2>3. new \in Directory /\ new.daily = dir.daily /\ new.journal.after = after
      BY <1>1, <2>2 DEF Directory, Journal, Current, Ledgers
    <2>4. following \in Job /\ Hand(following) = Hand(job) /\ Carries(following)
      BY <1>1, <2>1 DEF Job, Pc, Hand, Carries
    <2>5. [job EXCEPT !.pc = "clear"] \in Job /\ Hand([job EXCEPT !.pc = "clear"]) = Hand(job)
          /\ Carries([job EXCEPT !.pc = "clear"])
      BY <1>1, <2>1 DEF Job, Pc, Hand, Carries
    <2>6. (Goto("clear") /\ KeepFiles) \/ SaveThen(new, following)
      BY <1>7 DEF Credit, after
    <2> HIDE DEF new, following
    <2>7. CASE SaveThen(new, following)
      BY <2>1, <2>2, <2>3, <2>4, <2>7, SaveKeepsBytes, <1>3 DEF CoreKept
    <2>8. CASE Goto("clear") /\ KeepFiles
      BY <2>1, <2>5, <2>8, GoingKeepsBytes DEF Goto, KeepWorld
    <2> QED BY <2>6, <2>7, <2>8
  <1>8. CASE CommitDaily
    <2> DEFINE n == job.taken
               new == [dir EXCEPT !.daily.total[job.now.cycle] = @ + n,
                                  !.daily.owed[job.now.cycle] = @ + n, !.daily.core = @ + n]
               following == [job EXCEPT !.pc = "usage"]
    <2>1. job.pc = "daily" /\ KeepWorld /\ SaveThen(new, following)
      BY <1>8 DEF CommitDaily, At
    <2>2. /\ new.daily.core = dir.daily.core + n /\ new.journal = None
          /\ new.usage = dir.usage /\ new.source = dir.source
          /\ new.reset = dir.reset /\ new.preserved = dir.preserved
      BY <1>1, <1>2, <1>3 DEF Directory, DailyFile
    <2>3. new \in Directory
      <3>1. dir \in Directory /\ job.now.cycle \in Cycles /\ job.taken \in Nat
        BY <1>1, <1>2, <1>3
      <3> QED BY <3>1, CommitIsTyped, Zenon
    <2>4. following \in Job /\ Carries(following) /\ Hand(following) = 0 /\ Hand(job) = n
      BY <1>1, <2>1 DEF Job, Pc, Hand, Carries
    <2> HIDE DEF new, following, n
    <2>5. new.daily.core + Hand(following) = dir.daily.core + Hand(job)
          /\ new.daily.core >= dir.daily.core
      BY <1>3, <2>2, <2>4 DEF n
    <2> QED BY <2>1, <2>2, <2>3, <2>4, <2>5, SaveKeepsBytes DEF CoreKept
  <1>9. CASE CommitUsage
    <2> DEFINE new == [dir EXCEPT !.usage.total[job.now.cycle] = @ + job.taken,
                                  !.usage.credited[job.now.cycle] = @ + job.taken]
    <2>1. job.pc = "usage" /\ KeepWorld /\ SaveThen(new, IdleJob)
      BY <1>9 DEF CommitUsage, At
    <2>2. new.daily = dir.daily /\ new.journal = None /\ new \in Directory
      <3>1. dir \in Directory /\ job.now.cycle \in Cycles /\ job.taken \in Nat
        BY <1>1, <1>2, <1>3
      <3>2. new.daily = dir.daily /\ new.journal = dir.journal /\ new \in Directory
        BY <3>1, UsageIsTyped, Zenon
      <3> QED BY <1>2, <3>2
    <2>3. IdleJob \in Job /\ Hand(IdleJob) = Hand(job) /\ Carries(IdleJob) /\ "idle" \in Pc
      BY <2>1, IdleJobIsJob DEF Hand, Carries, IdleJob, Pc
    <2> HIDE DEF new
    <2> QED BY <2>1, <2>2, <2>3, OtherSavesKeepBytes DEF CoreKept
  <1> QED BY <1>4, <1>5, <1>6, <1>7, <1>8, <1>9, ClearKeepsBytes DEF TickStep

\* A correction carries no bytes and takes none from the other sources' count.
LEMMA CorrectionKeepsBytes == ASSUME Inv, BytesInv, Correction PROVE BytesInv'
  <1>1. job \in Job /\ dir \in Directory /\ Carries(job) /\ KeepWorld /\ 1 \in Cycles
    BY BytesTypes, LedgerAssumption DEF Correction, Correct, Preserve, ZeroUsage, ZeroDaily, BytesInv,
                                        Cycles
  <1>2. ASSUME NEW kind \in {"refresh", "reset"}, Correct(kind) PROVE BytesInv'
    <2> DEFINE next == IF kind = "refresh" THEN "preserve" ELSE "zerousage"
               following == [IdleJob EXCEPT !.pc = "recover", !.now = today, !.kind = kind,
                                            !.next = next]
    <2>1. today \in Day /\ IdleJob \in Job
      BY IdleJobIsJob DEF Inv, TypeOK
    <2>2. following \in Job /\ following.taken = 0
      BY <2>1 DEF Job, Pc, IdleJob
    <2>3. following \in Job /\ Hand(following) = 0 /\ Carries(following)
      BY <2>2 DEF Hand, Carries
    <2>4. Hand(job) = 0 /\ job' = following /\ KeepFiles /\ UNCHANGED <<drained, faults>>
      BY <1>2 DEF Correct, At, Hand, KeepWorld
    <2> HIDE DEF following
    <2> QED BY <2>3, <2>4, GoingKeepsBytes
  <1>3. CASE Preserve \/ ZeroUsage \/ ZeroDaily
    <2>1. /\ job.pc \in {"preserve", "zerousage", "zerodaily"} /\ job.taken = 0
          /\ dir.journal = None /\ job.now.cycle \in Cycles
      BY <1>1, <1>3, NothingPending DEF Preserve, ZeroUsage, ZeroDaily, At, Carries, Replaying
    <2>2. ASSUME NEW pc \in {"zerousage", "zerodaily"}
          PROVE  /\ [job EXCEPT !.pc = pc] \in Job
                 /\ Hand([job EXCEPT !.pc = pc]) = Hand(job) /\ Carries([job EXCEPT !.pc = pc])
      BY <1>1, <2>1 DEF Job, Pc, Hand, Carries
    <2>3. IdleJob \in Job /\ Hand(IdleJob) = Hand(job) /\ Carries(IdleJob)
      BY <2>1, IdleJobIsJob DEF Hand, Carries, IdleJob
    <2>4. /\ dir.daily \in DailyFile /\ dir.daily.total \in [Cycles -> Nat]
          /\ dir.daily.owed \in [Cycles -> Nat] /\ dir.usage \in UsageFile
          /\ dir.preserved \in [Cycles -> Nat]
      BY <1>1, FileTypes
    <2>5. CASE Preserve
      <3> DEFINE n == dir.daily.total[job.now.cycle]
                 new == [dir EXCEPT !.preserved[job.now.cycle] = @ + n]
      <3>1. new \in Directory /\ new.daily = dir.daily /\ new.journal = None
        <4>1. n \in Nat /\ new.preserved = [dir.preserved EXCEPT ![job.now.cycle] = @ + n]
          BY <1>1, <2>1, <2>4 DEF Directory
        <4>2. new.preserved \in [Cycles -> Nat]
          BY <2>1, <2>4, <4>1
        <4> QED BY <1>1, <2>1, <4>2 DEF Directory
      <3>2. (Goto("zerousage") /\ KeepFiles) \/ SaveThen(new, [job EXCEPT !.pc = "zerousage"])
        BY <2>5 DEF Preserve
      <3> HIDE DEF new
      <3>3. CASE SaveThen(new, [job EXCEPT !.pc = "zerousage"])
        BY <1>1, <2>2, <3>1, <3>3, OtherSavesKeepBytes DEF CoreKept, Pc
      <3>4. CASE Goto("zerousage") /\ KeepFiles
        BY <1>1, <2>2, <3>4, GoingKeepsBytes DEF Goto, KeepWorld
      <3> QED BY <3>2, <3>3, <3>4
    <2>6. CASE ZeroUsage
      <3> DEFINE new == [dir EXCEPT !.usage.total[job.now.cycle] = 0,
                                    !.usage.credited[job.now.cycle] = 0]
      <3>1. new \in Directory /\ new.daily = dir.daily /\ new.journal = None
        BY <1>1, <2>1, <2>4 DEF Directory, UsageFile
      <3>2. SaveThen(new, [job EXCEPT !.pc = "zerodaily"])
        BY <2>6 DEF ZeroUsage
      <3> HIDE DEF new
      <3> QED BY <1>1, <2>2, <3>1, <3>2, OtherSavesKeepBytes DEF CoreKept, Pc
    <2>7. CASE ZeroDaily
      <3> DEFINE owed == IF job.kind = "reset" THEN 0 ELSE dir.daily.owed[job.now.cycle]
                 new == [dir EXCEPT !.daily.total[job.now.cycle] = 0,
                                    !.daily.owed[job.now.cycle] = owed]
      <3>1. new.daily = [total |-> [dir.daily.total EXCEPT ![job.now.cycle] = 0],
                         owed |-> [dir.daily.owed EXCEPT ![job.now.cycle] = owed],
                         tuic |-> dir.daily.tuic, core |-> dir.daily.core]
        BY <1>1, <2>4 DEF Directory, DailyFile
      <3>2. owed \in Nat
        BY <2>1, <2>4
      <3>3. new.daily \in DailyFile /\ new.daily.core = dir.daily.core
        BY <2>1, <2>4, <3>1, <3>2 DEF DailyFile
      <3>4. new \in Directory /\ new.journal = None
        BY <1>1, <2>1, <3>3 DEF Directory
      <3>5. SaveThen(new, IdleJob)
        BY <2>7 DEF ZeroDaily
      <3> HIDE DEF new
      <3> QED BY <1>1, <2>3, <3>3, <3>4, <3>5, OtherSavesKeepBytes DEF CoreKept, Pc
    <2> QED BY <1>3, <2>5, <2>6, <2>7
  <1> QED BY <1>2, <1>3 DEF Correction

\* The world: only a power loss touches the files, and it brings an earlier one back.
LEMMA WorldKeepsBytes ==
  ASSUME Inv, BytesInv, StartTick \/ TickLock \/ TickTimeout \/ World \/ UNCHANGED vars
  PROVE  BytesInv'
  <1>1. job \in Job /\ Carries(job)
    BY BytesTypes DEF BytesInv
  <1>2. CASE /\ UNCHANGED <<job, drained, faults>> /\ KeepFiles
    BY <1>1, <1>2, GoingKeepsBytes
  <1>3. CASE TickLock
    <2> DEFINE following == [IdleJob EXCEPT !.pc = "recover", !.next = "collect", !.now = tick]
    <2>1. tick \in Day /\ IdleJob \in Job
      BY <1>3, IdleJobIsJob DEF TickLock, Inv, TypeOK
    <2>2. following \in Job /\ following.taken = 0
      BY <2>1 DEF Job, Pc, IdleJob
    <2>3. following \in Job /\ Hand(following) = 0 /\ Carries(following)
      BY <2>2 DEF Hand, Carries
    <2>4. Hand(job) = 0 /\ job' = following /\ KeepFiles /\ UNCHANGED <<drained, faults>>
      BY <1>3 DEF TickLock, At, Hand
    <2> HIDE DEF following
    <2> QED BY <2>3, <2>4, GoingKeepsBytes
  <1>4. CASE Crash
    BY <1>4, AbortKeepsBytes DEF Crash, KeepWorld
  <1>5. CASE PowerLoss
    <2>1. /\ dir' \in disk /\ disk' = {dir'} /\ job' = IdleJob /\ drained' = drained
          /\ faults' = faults + 1
      BY <1>5 DEF PowerLoss, Fault
    <2>2. InHand' = 0 /\ Carries(job') /\ faults' # 0 /\ dir'.daily.core \in Nat
      BY <2>1, BytesTypes, FileTypes DEF InHand, IdleJob, Carries
    <2>3. dir'.daily.core <= drained' /\ CoreKept(dir')
      BY <2>1 DEF BytesInv
    <2> QED BY <2>1, <2>2, <2>3 DEF BytesInv, CoreBytesOnce
  <1>6. CASE StartTick \/ TickTimeout \/ MoveTuic \/ MoveCore \/ RestartTuic \/ Midnight
               \/ UNCHANGED vars
    BY <1>2, <1>6 DEF StartTick, TickTimeout, MoveTuic, MoveCore, RestartTuic, Midnight, vars,
                      KeepFiles
  <1> QED BY <1>3, <1>4, <1>5, <1>6 DEF World

LEMMA BytesHold == Spec => []BytesInv
  <1>1. Init => BytesInv
    <2> SUFFICES ASSUME Init PROVE BytesInv
      OBVIOUS
    <2>1. /\ dir = EmptyDirectory /\ disk = {EmptyDirectory} /\ job = IdleJob
          /\ drained = 0 /\ faults = 0
      BY DEF Init
    <2> QED BY <2>1 DEF BytesInv, CoreKept, Carries, CoreBytesOnce, InHand, IdleJob, EmptyDirectory
  <1>2. Inv /\ BytesInv /\ [Next]_vars => BytesInv'
    BY RecoveryKeepsBytes, TickKeepsBytes, CorrectionKeepsBytes, WorldKeepsBytes DEF Next
  <1> QED BY <1>1, <1>2, InvAlways, PTL DEF Spec

\* Whatever fails between two saves, no byte is counted where the quota does not see it,
\* lost by a refresh, or counted twice; without a failure, every byte is counted.
THEOREM BytesAreKept == Spec => []LedgersKeepBytes
  <1>1. BytesInv => CoreBytesOnce
    BY DEF BytesInv
  <1> QED BY <1>1, BytesHold, QuotaLeads, RefreshesKeepTotals, PTL DEF LedgersKeepBytes

-----------------------------------------------------------------------------
(* AtomicCredit: what the journal stands for changes in one step.            *)

SameCredits(d, e) ==
    /\ Settled(d).daily.tuic = Settled(e).daily.tuic
    /\ Settled(d).usage.tuic = Settled(e).usage.tuic
    /\ Settled(d).source.seen = Settled(e).source.seen

\* A journal that is carried out stands for the same credits all along.
LEMMA RecoveryKeepsCredits ==
  ASSUME Inv, Recovery PROVE SameCredits(dir', dir)
  <1>1. dir \in Directory
    BY DEF Inv, TypeOK
  <1>2. ASSUME NEW new \in Directory, NEW following, SaveThen(new, following),
               SameCredits(new, dir)
        PROVE  SameCredits(dir', dir)
    BY <1>2 DEF SaveThen, Visible, SameCredits
  <1>3. CASE Recover
    BY <1>3 DEF Recover, KeepFiles, SameCredits
  <1>4. CASE RecoverDaily \/ RecoverUsage \/ RecoverSource
    <2>1. dir.journal # None
      BY <1>4 DEF RecoverDaily, RecoverUsage, RecoverSource, At, Inv, Holder, Replaying
    <2>2. dir.journal \in Journal
      BY <2>1, JournalIsSound
    <2>3. ASSUME NEW new,
                 \/ new = [dir EXCEPT !.daily = dir.journal.after.daily]
                 \/ new = [dir EXCEPT !.usage = dir.journal.after.usage]
                 \/ new = [dir EXCEPT !.source = dir.journal.after.source]
          PROVE  new \in Directory /\ SameCredits(new, dir)
      <3>1. new \in Directory /\ new.journal = dir.journal
        BY <1>1, <2>2, <2>3 DEF Directory, Journal, Ledgers
      <3> QED BY <2>1, <3>1 DEF SameCredits, Settled
    <2> QED BY <1>2, <1>4, <2>3 DEF RecoverDaily, RecoverUsage, RecoverSource
  <1>5. CASE Unlink
    <2> DEFINE new == [dir EXCEPT !.journal = None]
    <2>1. /\ dir.journal # None /\ dir.daily = dir.journal.after.daily
          /\ dir.usage = dir.journal.after.usage /\ dir.source = dir.journal.after.source
      BY <1>5 DEF Unlink, At, Inv, Holder, Replaying
    <2>2. /\ new \in Directory /\ new.journal = None /\ new.daily = dir.daily
          /\ new.usage = dir.usage /\ new.source = dir.source
      BY <1>1 DEF Directory
    <2> HIDE DEF new
    <2>3. SameCredits(new, dir)
      BY <2>1, <2>2 DEF SameCredits, Settled, Current
    <2> QED BY <1>2, <1>5, <2>2, <2>3 DEF Unlink, new
  <1> QED BY <1>3, <1>4, <1>5 DEF Recovery

\* The other sources and the corrections leave TUIC's credits alone.
LEMMA OthersKeepCredits ==
  ASSUME Inv, (TickStep /\ ~Credit) \/ Correction
  PROVE  SameCredits(dir', dir)
  <1>1. dir \in Directory
    BY DEF Inv, TypeOK
  <1>2. CASE KeepFiles
    BY <1>2 DEF KeepFiles, SameCredits
  <1>3. ASSUME NEW new, NEW following, SaveThen(new, following),
               new.journal = None, dir.journal = None,
               new.daily.tuic = dir.daily.tuic, new.usage.tuic = dir.usage.tuic,
               new.source = dir.source
        PROVE  SameCredits(dir', dir)
    BY <1>3 DEF SaveThen, Visible, SameCredits, Settled, Current
  <1>4. job.pc \in {"reset", "mark", "daily", "usage", "preserve", "zerousage", "zerodaily"}
          => dir.journal = None
    BY DEF Inv, Holder, Replaying
  <1>5. dir.daily \in DailyFile /\ dir.usage \in UsageFile
    BY <1>1, FileTypes
  <1>6. CASE Collect \/ Clear \/ \E kind \in {"refresh", "reset"} : Correct(kind)
    BY <1>2, <1>6 DEF Collect, Clear, Correct
  <1>7. CASE Reset
    <2> DEFINE new == [dir EXCEPT !.usage.total[job.now.cycle] = 0]
    <2>1. /\ new.journal = dir.journal /\ new.daily = dir.daily /\ new.source = dir.source
          /\ new.usage.tuic = dir.usage.tuic
      BY <1>1, <1>5 DEF Directory, UsageFile
    <2> QED BY <1>2, <1>3, <1>4, <1>7, <2>1 DEF Reset, At
  <1>8. CASE MarkReset
    <2> DEFINE new == [dir EXCEPT !.reset = job.now.cycle]
    <2>1. /\ new.journal = dir.journal /\ new.daily = dir.daily /\ new.source = dir.source
          /\ new.usage = dir.usage
      BY <1>1 DEF Directory
    <2> QED BY <1>3, <1>4, <1>8, <2>1 DEF MarkReset, At
  <1>9. CASE CommitDaily
    <2> DEFINE new == [dir EXCEPT !.daily.total[job.now.cycle] = @ + job.taken,
                                  !.daily.owed[job.now.cycle] = @ + job.taken,
                                  !.daily.core = @ + job.taken]
    <2>1. /\ new.journal = dir.journal /\ new.usage = dir.usage /\ new.source = dir.source
          /\ new.daily.tuic = dir.daily.tuic
      BY <1>1, <1>5 DEF Directory, DailyFile
    <2> QED BY <1>3, <1>4, <1>9, <2>1 DEF CommitDaily, At
  <1>10. CASE CommitUsage
    <2> DEFINE new == [dir EXCEPT !.usage.total[job.now.cycle] = @ + job.taken,
                                  !.usage.credited[job.now.cycle] = @ + job.taken]
    <2>1. /\ new.journal = dir.journal /\ new.daily = dir.daily /\ new.source = dir.source
          /\ new.usage.tuic = dir.usage.tuic
      BY <1>1, <1>5 DEF Directory, UsageFile
    <2> QED BY <1>3, <1>4, <1>10, <2>1 DEF CommitUsage, At
  <1>11. CASE Preserve
    <2> DEFINE new == [dir EXCEPT !.preserved[job.now.cycle] = @ + dir.daily.total[job.now.cycle]]
    <2>1. /\ new.journal = dir.journal /\ new.daily = dir.daily /\ new.source = dir.source
          /\ new.usage = dir.usage
      BY <1>1 DEF Directory
    <2> QED BY <1>2, <1>3, <1>4, <1>11, <2>1 DEF Preserve, At
  <1>12. CASE ZeroUsage
    <2> DEFINE new == [dir EXCEPT !.usage.total[job.now.cycle] = 0,
                                  !.usage.credited[job.now.cycle] = 0]
    <2>1. /\ new.journal = dir.journal /\ new.daily = dir.daily /\ new.source = dir.source
          /\ new.usage.tuic = dir.usage.tuic
      BY <1>1, <1>5 DEF Directory, UsageFile
    <2> QED BY <1>3, <1>4, <1>12, <2>1 DEF ZeroUsage, At
  <1>13. CASE ZeroDaily
    <2> DEFINE owed == IF job.kind = "reset" THEN 0 ELSE dir.daily.owed[job.now.cycle]
               new == [dir EXCEPT !.daily.total[job.now.cycle] = 0,
                                  !.daily.owed[job.now.cycle] = owed]
    <2>1. /\ new.journal = dir.journal /\ new.usage = dir.usage /\ new.source = dir.source
          /\ new.daily.tuic = dir.daily.tuic
      BY <1>1, <1>5 DEF Directory, DailyFile
    <2> QED BY <1>3, <1>4, <1>13, <2>1 DEF ZeroDaily, At
  <1> QED BY <1>6, <1>7, <1>8, <1>9, <1>10, <1>11, <1>12, <1>13 DEF TickStep, Correction

\* The save of the journal is the step that credits.
LEMMA CreditImplementsCredit ==
  ASSUME Inv, Credit PROVE Abstract!Credit \/ SameCredits(dir', dir)
  <1> DEFINE n == Delta(dir.source, job.gen, job.count)
             after == Credited(dir, job.now.cycle, job.gen, job.count)
             new == [dir EXCEPT !.journal = [before |-> Current(dir), after |-> after]]
  <1>1. job.pc = "credit"
    BY DEF Credit, At
  <1>2. /\ dir \in Directory /\ dir.journal = None /\ job \in Job /\ Holder(dir, job)
        /\ job.now.cycle \in Cycles
    BY <1>1, NothingPending DEF Replaying
  <1>3. /\ job.gen \in Nat /\ job.count \in Nat
        /\ Earlier(dir.source.gen, dir.source.count, [gen |-> job.gen, count |-> job.count])
    BY <1>1, <1>2 DEF Holder, HasSample, Job
  <1>4. Adds(dir, after, job.now.cycle, n, job.gen, job.count)
    BY <1>2, <1>3, CreditedAdds
  <1>5. dir' = dir \/ dir' = new
    BY DEF Credit, KeepFiles, SaveThen, Visible
  <1> HIDE DEF n, after
  <1>6. CASE dir' = dir
    BY <1>6 DEF SameCredits
  <1>7. CASE dir' = new
    <2>1. [before |-> Current(dir), after |-> after] # None
      <3>1. [before |-> Current(dir), after |-> after] \in Journal
        BY <1>2, <1>4 DEF Adds, Current, Directory, Ledgers, Journal
      <3> QED BY <3>1, NoneAssumption
    <2>2. Settled(dir') = after /\ Settled(dir) = Current(dir)
      BY <1>2, <1>7, <2>1 DEF Settled, Directory
    <2>3. /\ dir.daily.tuic \in Nat /\ dir.usage.tuic \in Nat /\ dir.source.seen \in Nat
      BY <1>2, FileTypes
    <2>4. /\ Settled(dir').daily.tuic = Settled(dir).daily.tuic + n
          /\ Settled(dir').usage.tuic = Settled(dir).usage.tuic + n
          /\ Settled(dir').source.seen = Settled(dir).source.seen + n
          /\ n \in Nat
      BY <1>4, <2>2 DEF Adds, Current
    <2>5. /\ Settled(dir).daily.tuic \in Nat /\ Settled(dir).usage.tuic \in Nat
          /\ Settled(dir).source.seen \in Nat
      BY <2>2, <2>3 DEF Current
    <2>6. CASE n = 0
      BY <2>4, <2>5, <2>6 DEF SameCredits
    <2>7. CASE n # 0
      BY <2>4, <2>5, <2>7 DEF Abstract!Credit
    <2> QED BY <2>6, <2>7
  <1> QED BY <1>5, <1>6, <1>7

\* A power loss takes the same credits back from the three files.
LEMMA PowerLossForgets ==
  ASSUME Inv, PowerLoss PROVE Abstract!Forget
  <1>1. dir' \in disk /\ dir' \in Directory
    BY DEF PowerLoss, Inv, TypeOK
  <1>2. Settled(dir').source.seen <= Settled(dir).source.seen /\ Sound(dir')
    BY <1>1 DEF Inv, DiskInv
  <1>3. Balanced(Settled(dir'))
    BY <1>2 DEF Sound, ImagesSound, Settled, Current, Balanced
  <1>4. Settled(dir').source.seen \in Nat /\ Settled(dir).source.seen \in Nat
    <2>1. dir \in Directory
      BY DEF Inv, TypeOK
    <2> QED BY <1>1, <2>1 DEF Settled, Current, Directory, Journal, Ledgers, SourceFile
  <1> QED BY <1>2, <1>3, <1>4 DEF Balanced, Abstract!Forget

\* The three files implement AtomicCredit: daily, monthly and checkpoint change
\* together, whatever dies between their saves.
THEOREM CreditsAreAtomic == Spec => CreditIsAtomic
  <1>1. Init => Abstract!Init
    BY DEF Init, Abstract!Init, EmptyDirectory, Settled, Current
  <1>2. Inv /\ [Next]_vars =>
          [Abstract!Next]_<<Settled(dir).daily.tuic, Settled(dir).usage.tuic,
                            Settled(dir).source.seen>>
    <2> SUFFICES ASSUME Inv, [Next]_vars
                 PROVE  Abstract!Next \/ SameCredits(dir', dir)
      BY DEF SameCredits
    <2>1. CASE UNCHANGED vars
      BY <2>1 DEF vars, SameCredits
    <2>2. CASE Credit
      BY <2>2, CreditImplementsCredit DEF Abstract!Next
    <2>3. CASE PowerLoss
      BY <2>3, PowerLossForgets DEF Abstract!Next
    <2>4. CASE Recovery
      BY <2>4, RecoveryKeepsCredits
    <2>5. CASE (TickStep /\ ~Credit) \/ Correction
      BY <2>5, OthersKeepCredits
    <2>6. CASE \/ StartTick \/ TickLock \/ TickTimeout
               \/ MoveTuic \/ MoveCore \/ RestartTuic \/ Midnight \/ Crash
      BY <2>6 DEF StartTick, TickLock, TickTimeout, MoveTuic, MoveCore, RestartTuic, Midnight,
                  Crash, KeepFiles, SameCredits
    <2> QED BY <2>1, <2>2, <2>3, <2>4, <2>5, <2>6 DEF Next, World
  <1> QED BY <1>1, <1>2, InvAlways, PTL DEF Spec, CreditIsAtomic, Abstract!Spec

=============================================================================
