---------------------------- MODULE TrafficLedger ----------------------------
(***************************************************************************)
(* hysteria/traffic_limiter.py, tuic_user_meter.py, billing_service.py and *)
(* traffic_mutation_service.py: the files a user's bytes are counted in,   *)
(* the journal that keeps three of them together, and who writes them      *)
(* under usage.lock - the timer's tick and the panel's corrections.        *)
(*                                                                         *)
(* One user, and one bucket per billing cycle in each ledger.  The fields  *)
(* owed, credited, tuic, core and seen exist in the model only: inside a   *)
(* file's content they remember which bytes made it what it is.            *)
(***************************************************************************)
EXTENDS StateStore

CONSTANTS MaxCycle,     \* cycles are 1..MaxCycle
          MaxTuic,      \* bytes a run of tuic-server moves
          MaxCore,      \* bytes Hysteria and Xray move
          MaxGen,       \* runs of tuic-server
          MaxFaults,    \* failures, crashes and power losses
          Corrections,  \* of {"refresh", "reset"}: what the panel may ask for
          Outcomes,     \* of SaveOutcome: how a save may end
          None

ASSUME LedgerAssumption ==
    /\ MaxCycle \in Nat \ {0} /\ MaxTuic \in Nat /\ MaxCore \in Nat /\ MaxGen \in Nat /\ MaxFaults \in Nat
    /\ Corrections \subseteq {"refresh", "reset"}
    /\ Outcomes \subseteq SaveOutcome

VARIABLES dir,          \* the state directory as every process reads it
          disk,         \* the directories a power loss may leave: the files share one, a
                        \* sync of it keeps every earlier rename, and renames reach it in order
          job,          \* the holder of usage.lock: where it is, what it holds
          tick,         \* None, or the time at which a tick began that waits for the lock
          today,        \* the billing cycle, and whether this is its settlement day
          counter,      \* tuic-server: the run, and its cumulative counter
          waiting,      \* bytes Hysteria and Xray hold until they are read and cleared
          drained,      \* ghost: bytes that were ever read and cleared
          faults

vars == <<dir, disk, job, tick, today, counter, waiting, drained, faults>>

Cycles == 1..MaxCycle

DailyFile == [total : [Cycles -> Nat], owed : [Cycles -> Nat], tuic : Nat, core : Nat]
UsageFile == [total : [Cycles -> Nat], credited : [Cycles -> Nat], tuic : Nat]
SourceFile == [gen : Nat, count : Nat, seen : Nat]
Ledgers == [daily : DailyFile, usage : UsageFile, source : SourceFile]
Journal == [before : Ledgers, after : Ledgers]
Directory == [daily : DailyFile, usage : UsageFile, source : SourceFile,
              journal : Journal \cup {None}, reset : Nat, preserved : [Cycles -> Nat]]

ASSUME NoneAssumption == None \notin Journal

Day == [cycle : Cycles, settling : BOOLEAN]
Pc == {"idle", "recover", "redaily", "reusage", "resource", "unlink", "collect", "reset",
       "mark", "credit", "clear", "daily", "usage", "preserve", "zerousage", "zerodaily"}
Job == [pc : Pc, next : Pc, now : Day, kind : {"tick", "refresh", "reset"},
        gen : Nat, count : Nat, taken : Nat]

IdleJob == [pc |-> "idle", next |-> "idle", now |-> [cycle |-> 1, settling |-> FALSE],
            kind |-> "tick", gen |-> 0, count |-> 0, taken |-> 0]

Zeroes == [c \in Cycles |-> 0]
EmptyDirectory ==
    [daily |-> [total |-> Zeroes, owed |-> Zeroes, tuic |-> 0, core |-> 0],
     usage |-> [total |-> Zeroes, credited |-> Zeroes, tuic |-> 0],
     source |-> [gen |-> 0, count |-> 0, seen |-> 0],
     journal |-> None, reset |-> 0, preserved |-> Zeroes]

Init ==
    /\ dir = EmptyDirectory /\ disk = {EmptyDirectory}
    /\ job = IdleJob /\ tick = None
    /\ today \in [cycle : {1}, settling : BOOLEAN]
    /\ counter = [gen |-> 1, count |-> 0]
    /\ waiting = 0 /\ drained = 0 /\ faults = 0

-----------------------------------------------------------------------------
(* Steps of the lock's holder. *)

At(pc) == job.pc = pc
Goto(pc) == job' = [job EXCEPT !.pc = pc] /\ UNCHANGED faults
Fault == faults < MaxFaults /\ faults' = faults + 1

\* An exception leaves the with block: the lock is released, the files stay.
Abort == job' = IdleJob /\ Fault

\* A save of the directory with one file changed: the holder goes on only if
\* the save is durable, any other outcome is an exception.
SaveThen(new, following) ==
    \E outcome \in Outcomes :
      /\ dir' = Visible(dir, new, outcome)
      /\ disk' = OnDisk(disk, new, outcome)
      /\ IF outcome = "ok" THEN job' = following /\ UNCHANGED faults ELSE Abort

KeepFiles == UNCHANGED <<dir, disk>>
KeepWorld == UNCHANGED <<tick, today, counter, waiting, drained>>

Current(d) == [daily |-> d.daily, usage |-> d.usage, source |-> d.source]

\* recover_locked refuses a file that is neither the image before nor the image after.
Fits(d) == \A file \in DOMAIN Current(d) :
    Current(d)[file] \in {d.journal.before[file], d.journal.after[file]}

\* Mutant: the lock is granted whatever journal is there.
RecoverNothing ==
    /\ At("recover") /\ Goto(job.next) /\ KeepFiles /\ KeepWorld

\* usage_lock() runs recover_locked before it yields.
Recover ==
    /\ At("recover")
    /\ IF dir.journal = None THEN Goto(job.next)
       ELSE IF Fits(dir) THEN Goto("redaily") ELSE Abort
    /\ KeepFiles /\ KeepWorld

RecoverDaily ==
    /\ At("redaily")
    /\ SaveThen([dir EXCEPT !.daily = dir.journal.after.daily], [job EXCEPT !.pc = "reusage"])
    /\ KeepWorld

RecoverUsage ==
    /\ At("reusage")
    /\ SaveThen([dir EXCEPT !.usage = dir.journal.after.usage], [job EXCEPT !.pc = "resource"])
    /\ KeepWorld

\* Mutant: the checkpoint is not one of the journal's targets.
RecoverLedgersOnly ==
    /\ At("resource") /\ Goto("unlink") /\ KeepFiles /\ KeepWorld

RecoverSource ==
    /\ At("resource")
    /\ SaveThen([dir EXCEPT !.source = dir.journal.after.source], [job EXCEPT !.pc = "unlink"])
    /\ KeepWorld

Unlink ==
    /\ At("unlink")
    /\ SaveThen([dir EXCEPT !.journal = None], [job EXCEPT !.pc = job.next])
    /\ KeepWorld

-----------------------------------------------------------------------------
(* The tick: main(). *)

\* main() reads the clock before it asks for the lock.
StartTick ==
    /\ tick = None /\ ~(job.pc # "idle" /\ job.kind = "tick")
    /\ tick' = today
    /\ KeepFiles /\ UNCHANGED <<job, today, counter, waiting, drained, faults>>

TickLock ==
    /\ At("idle") /\ tick # None
    /\ job' = [IdleJob EXCEPT !.pc = "recover", !.next = "collect", !.now = tick]
    /\ tick' = None
    /\ KeepFiles /\ UNCHANGED <<today, counter, waiting, drained, faults>>

\* LockTimeout: the tick is skipped.
TickTimeout ==
    /\ ~At("idle") /\ tick # None
    /\ tick' = None
    /\ KeepFiles /\ UNCHANGED <<job, today, counter, waiting, drained, faults>>

\* _collect_tuic_users_locked: TUIC is not metered by user, its sample is
\* deferred or it is stopped; or there is a sample to credit.
Collect ==
    /\ At("collect")
    /\ \/ Goto("clear")
       \/ /\ job' = [job EXCEPT !.pc = "reset", !.next = "credit",
                                !.gen = counter.gen, !.count = counter.count]
          /\ UNCHANGED faults
    /\ KeepFiles /\ KeepWorld

\* Mutant: the month of the last reset is not looked at.
ResetDueAlways(d, now) == now.settling

ResetDue(d, now) == now.settling /\ d.reset # now.cycle

\* maybe_reset_all_usage_on_day_21, called before TUIC's credit and before the
\* credit of the other sources.
Reset ==
    /\ At("reset")
    /\ IF ResetDue(dir, job.now)
       THEN SaveThen([dir EXCEPT !.usage.total[job.now.cycle] = 0], [job EXCEPT !.pc = "mark"])
       ELSE Goto(job.next) /\ KeepFiles
    /\ KeepWorld

MarkReset ==
    /\ At("mark")
    /\ SaveThen([dir EXCEPT !.reset = job.now.cycle], [job EXCEPT !.pc = job.next])
    /\ KeepWorld

\* Mutant: a restart of tuic-server is not noticed, the old baseline is taken.
DeltaOfOneRun(source, gen, count) == count - source.count

\* calculate_delta: a new run counts from zero, nothing else is ever subtracted.
Delta(source, gen, count) == IF source.gen = gen THEN count - source.count ELSE count

\* What credit_locked writes in the three files for one sample.
Credited(d, cycle, gen, count) ==
    LET n == Delta(d.source, gen, count) IN
    [daily  |-> [d.daily EXCEPT !.total[cycle] = @ + n, !.owed[cycle] = @ + n, !.tuic = @ + n],
     usage  |-> [d.usage EXCEPT !.total[cycle] = @ + n, !.credited[cycle] = @ + n, !.tuic = @ + n],
     source |-> [gen |-> gen, count |-> count, seen |-> d.source.seen + n]]

\* credit_locked: the journal, then recover_locked, which carries it out.
Credit ==
    LET after == Credited(dir, job.now.cycle, job.gen, job.count)
    IN /\ At("credit")
       /\ IF after = Current(dir) THEN Goto("clear") /\ KeepFiles
          ELSE SaveThen([dir EXCEPT !.journal = [before |-> Current(dir), after |-> after]],
                        [job EXCEPT !.pc = "recover", !.next = "clear"])
       /\ KeepWorld

\* Mutant: Hysteria is asked for its counters without clearing them.
ClearNothing ==
    /\ At("clear")
    /\ job' = [job EXCEPT !.pc = "reset", !.next = "daily", !.taken = waiting]
    /\ KeepFiles /\ UNCHANGED <<tick, today, counter, waiting, drained, faults>>

\* /traffic?clear=1 and statsquery -reset: read and cleared, not reached, or
\* cleared and the answer lost.
Clear ==
    /\ At("clear")
    /\ \/ /\ job' = [job EXCEPT !.pc = "reset", !.next = "daily", !.taken = waiting]
          /\ waiting' = 0 /\ drained' = drained + waiting /\ UNCHANGED faults
       \/ /\ job' = [job EXCEPT !.pc = "reset", !.next = "daily"]
          /\ waiting' \in {0, waiting} /\ drained' = drained + (waiting - waiting') /\ Fault
    /\ KeepFiles /\ UNCHANGED <<tick, today, counter>>

\* accumulate_daily, in _commit_core_and_enforce_locked: the quota ledger first.
CommitDaily ==
    LET c == job.now.cycle
        n == job.taken
    IN /\ At("daily")
       /\ SaveThen([dir EXCEPT !.daily.total[c] = @ + n, !.daily.owed[c] = @ + n,
                               !.daily.core = @ + n],
                   [job EXCEPT !.pc = "usage"])
       /\ KeepWorld

CommitUsage ==
    LET c == job.now.cycle
        n == job.taken
    IN /\ At("usage")
       /\ SaveThen([dir EXCEPT !.usage.total[c] = @ + n, !.usage.credited[c] = @ + n], IdleJob)
       /\ KeepWorld

-----------------------------------------------------------------------------
(* The panel's corrections: _mutate_user_usage and reset_all. *)

Correct(kind) ==
    /\ At("idle") /\ kind \in Corrections
    /\ job' = [IdleJob EXCEPT !.pc = "recover", !.now = today, !.kind = kind,
                              !.next = IF kind = "refresh" THEN "preserve" ELSE "zerousage"]
    /\ KeepFiles /\ KeepWorld /\ UNCHANGED faults

\* Mutant: a refresh zeroes like a reset.
PreserveNothing ==
    /\ At("preserve") /\ Goto("zerousage") /\ KeepFiles /\ KeepWorld

\* add_preserved_for_user: what a refresh takes from the ledger stays in the
\* server's total.
Preserve ==
    LET c == job.now.cycle
        n == dir.daily.total[c]
    IN /\ At("preserve")
       /\ IF n = 0 THEN Goto("zerousage") /\ KeepFiles
          ELSE SaveThen([dir EXCEPT !.preserved[c] = @ + n], [job EXCEPT !.pc = "zerousage"])
       /\ KeepWorld

\* Mutant: the quota ledger is zeroed before the legacy summary.
ZeroDailyFirst ==
    LET c == job.now.cycle
    IN /\ At("zerousage")
       /\ SaveThen([dir EXCEPT !.daily.total[c] = 0], [job EXCEPT !.pc = "zerodaily"])
       /\ KeepWorld

ZeroUsage ==
    LET c == job.now.cycle
    IN /\ At("zerousage")
       /\ SaveThen([dir EXCEPT !.usage.total[c] = 0, !.usage.credited[c] = 0],
                   [job EXCEPT !.pc = "zerodaily"])
       /\ KeepWorld

\* _zero_cycle_daily_hourly_for.  Only a reset forgives the bytes.
ZeroDaily ==
    LET c == job.now.cycle
        owed == IF job.kind = "reset" THEN 0 ELSE dir.daily.owed[c]
    IN /\ At("zerodaily")
       /\ SaveThen([dir EXCEPT !.daily.total[c] = 0, !.daily.owed[c] = owed], IdleJob)
       /\ KeepWorld

-----------------------------------------------------------------------------
(* The world. *)

MoveTuic ==
    /\ counter.count < MaxTuic
    /\ counter' = [counter EXCEPT !.count = @ + 1]
    /\ KeepFiles /\ UNCHANGED <<job, tick, today, waiting, drained, faults>>

MoveCore ==
    /\ waiting + drained < MaxCore
    /\ waiting' = waiting + 1
    /\ KeepFiles /\ UNCHANGED <<job, tick, today, counter, drained, faults>>

\* A new run of tuic-server: the bytes it did not report are gone.
RestartTuic ==
    /\ counter.gen < MaxGen
    /\ counter' = [gen |-> counter.gen + 1, count |-> 0]
    /\ KeepFiles /\ UNCHANGED <<job, tick, today, waiting, drained, faults>>

Midnight ==
    /\ today' = IF today.settling \/ today.cycle = MaxCycle
                THEN [today EXCEPT !.settling = FALSE]
                ELSE [cycle |-> today.cycle + 1, settling |-> TRUE]
    /\ KeepFiles /\ UNCHANGED <<job, tick, counter, waiting, drained, faults>>

\* The process that holds the lock dies; flock releases it.
Crash ==
    /\ ~At("idle") /\ Abort
    /\ KeepFiles /\ KeepWorld

\* Power fails: whatever was not synced may be gone, and every counter is.
PowerLoss ==
    /\ Fault /\ counter.gen < MaxGen
    /\ dir' \in disk /\ disk' = {dir'}
    /\ job' = IdleJob /\ tick' = None
    /\ counter' = [gen |-> counter.gen + 1, count |-> 0]
    /\ waiting' = 0
    /\ UNCHANGED <<today, drained>>

-----------------------------------------------------------------------------

Recovery == Recover \/ RecoverDaily \/ RecoverUsage \/ RecoverSource \/ Unlink
TickStep == Collect \/ Reset \/ MarkReset \/ Credit \/ Clear \/ CommitDaily \/ CommitUsage
Correction == (\E kind \in {"refresh", "reset"} : Correct(kind)) \/ Preserve \/ ZeroUsage \/ ZeroDaily
World == MoveTuic \/ MoveCore \/ RestartTuic \/ Midnight \/ Crash \/ PowerLoss

Next == StartTick \/ TickLock \/ TickTimeout \/ Recovery \/ TickStep \/ Correction \/ World

Spec == Init /\ [][Next]_vars

-----------------------------------------------------------------------------
(* Properties *)

\* Every file, image and job is of the form the code writes.
TypeOK ==
    /\ dir \in Directory /\ disk \in SUBSET Directory /\ dir \in disk
    /\ job \in Job /\ tick \in Day \cup {None} /\ today \in Day
    /\ counter \in [gen : Nat, count : Nat]
    /\ waiting \in Nat /\ drained \in Nat /\ faults \in 0..MaxFaults

\* Whatever a crash or a power loss leaves, the files a pending journal finds
\* are images of its own: usage.lock can always be taken again.
\* (recover_locked, "pending journal conflicts with another ledger writer".)
JournalNeverConflicts == \A d \in disk : d.journal # None => Fits(d)

\* TUIC's credits are atomic and happen once: see AtomicCredit.
Settled(d) == IF d.journal = None THEN Current(d) ELSE d.journal.after
Abstract == INSTANCE AtomicCredit
    WITH daily <- Settled(dir).daily.tuic,
         usage <- Settled(dir).usage.tuic,
         seen  <- Settled(dir).source.seen
CreditIsAtomic == Abstract!Spec

\* The quota is decided on the daily ledger: no failure between two saves leaves
\* a byte in the monthly summary that the quota does not count.
QuotaLedgerLeads == \A d \in disk : \A c \in Cycles : d.usage.total[c] <= d.daily.total[c]

\* The settlement day's reset never takes back a credit of the cycle it opens,
\* also when it is repeated because its month was not recorded.
ResetKeepsCredits == \A c \in Cycles : dir.usage.total[c] = dir.usage.credited[c]

\* A refresh that dies anywhere leaves every byte of the cycle in the ledger, in
\* the preserved file, or in both.
RefreshKeepsTotals ==
    \A d \in disk : \A c \in Cycles : d.preserved[c] + d.daily.total[c] >= d.daily.owed[c]

\* Bytes that were read and cleared are counted once; without a failure, all are.
InHand == IF job.pc \in {"reset", "mark", "daily"} THEN job.taken ELSE 0
CoreBytesOnce ==
    /\ dir.daily.core + InHand <= drained
    /\ faults = 0 => dir.daily.core + InHand = drained

\* The three ledgers together: whatever fails between two saves, no byte is counted
\* where the quota does not see it, lost by a refresh, or counted twice.
LedgersKeepBytes == QuotaLedgerLeads /\ RefreshKeepsTotals /\ CoreBytesOnce
=============================================================================
