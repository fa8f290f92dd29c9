---------------------------- MODULE HysteriaUpdate ----------------------------
(***************************************************************************)
(* hysteria/hysteria_update.py: the binary of the proxy is checked,        *)
(* replaced and rolled back by a process that holds the deployment lock -  *)
(* the daily timer's, or a transient unit that the panel asked systemd for *)
(* - while the panel's threads write the same state file.                  *)
(*                                                                         *)
(* A binary is its release, 0 the one that was installed by hand.  What    *)
(* the policy, the release listing, the checksums and the probes answer is *)
(* a choice.  A delivery's generation and an operation's id are only       *)
(* compared for equality.                                                  *)
(***************************************************************************)
EXTENDS Naturals, Sequences

CONSTANTS Threads,      \* threads of the panel
          MaxOps,       \* operations
          MaxRelease,   \* releases are 0..MaxRelease
          MaxMishaps    \* saves that fail, processes that die, probes that fail in a rollback

VARIABLES file,         \* hysteria-update.json
          live,         \* /usr/local/bin/hysteria
          lastGood,     \* hysteria.binary.last-good
          good,         \* ghost: releases that passed the probes, and the first one
          asked,        \* ghost: operations that an administrator asked for
          units,        \* operations whose transient unit waits for the deployment lock
          cli,          \* the process that holds that lock
          panel,        \* schedule_apply_async in the panel's threads
          claim,        \* the claim of the first event that is still to be told
          mishaps

updateVars == <<file, live, lastGood, good, asked, units, cli, panel, claim, mishaps>>

Releases == 0..MaxRelease
Pending == {"scheduled", "downloading", "applying", "verifying"}
\* Mutant: an operation that was interrupted early is not one.
InterruptedLate == {"applying", "verifying"}
\* _interrupted_apply.
Interrupted == Pending \ {"scheduled"}
Terminal == {"done", "failed", "rolled_back", "rollback_failed"}

\* op 0: none yet; candidate 0: the state names no checksum.
IdleState == [status |-> "idle", op |-> 0, mode |-> "auto", candidate |-> 0,
              liveReplaced |-> FALSE, ownsLastGood |-> FALSE, owed |-> <<>>, told |-> {}]
IdleCli == [pc |-> "idle", unit |-> 0, after |-> "idle", gated |-> FALSE, mem |-> IdleState]
IdleThread == [pc |-> "idle", op |-> 0, newest |-> FALSE]

Init ==
    /\ file = IdleState /\ live = 0 /\ lastGood = 0 /\ good = {0} /\ asked = {}
    /\ units = {} /\ cli = IdleCli /\ panel = [t \in Threads |-> IdleThread]
    /\ claim = "none" /\ mishaps = 0

-----------------------------------------------------------------------------

Mishap == mishaps < MaxMishaps /\ mishaps' = mishaps + 1
KeepBinaries == UNCHANGED <<live, lastGood, good>>
KeepPanel == UNCHANGED <<asked, panel>>

At(pc) == cli.pc = pc
\* systemd restarts a unit that ends with an error (Restart=on-failure).
Retried == IF cli.unit = 0 THEN units ELSE units \cup {cli.unit}
Fails == cli' = IdleCli /\ units' = Retried
Goes(following) == cli' = following /\ UNCHANGED units
Tells == [IdleCli EXCEPT !.pc = "tell", !.unit = cli.unit]

\* save_state: done, or an exception before or after the rename.
Save(new, following) == file' = new /\ Goes(following) /\ UNCHANGED mishaps
SaveRaises(new) == file' \in {file, new} /\ Mishap

\* Mutant: only the last event is kept.
QueueLast(state, status) == [state EXCEPT !.status = status, !.owed = <<<<state.op, status>>>>]

\* _terminal_update and _queue_terminal_notification: one event for each
\* operation and end.
Ended(state, status) ==
    LET event == <<state.op, status>>
        known == event \in state.told \/ \E i \in DOMAIN state.owed : state.owed[i] = event
    IN [state EXCEPT !.status = status, !.owed = IF known THEN @ ELSE Append(@, event)]

\* Mutant: the flag decides alone whether the candidate is live.
FlagOnly(state) == state.ownsLastGood /\ state.liveReplaced

\* _rollback_context_owned: the last good binary is this operation's and its
\* candidate is live, by the flag or, where a crash kept the flag from being
\* saved, by its checksum.
Eligible(state) ==
    /\ state.ownsLastGood
    /\ state.liveReplaced \/ (state.candidate # 0 /\ live = state.candidate)

-----------------------------------------------------------------------------
(* schedule_apply_async: the operation is saved, then its unit is delivered  *)
(* outside the lock.                                                         *)

\* The update lock is held from the reading of the state to the last save.
LockFree == cli.pc \in {"idle", "tell", "telling", "deliver", "refused"}

Scheduled(op, mode) ==
    [file EXCEPT !.status = "scheduled", !.op = op, !.mode = mode,
                 !.candidate = IF op = file.op THEN @ ELSE 0,
                 !.liveReplaced = FALSE, !.ownsLastGood = FALSE]

\* A later delivery makes every earlier one's answer void.
Overtaken == [t \in Threads |-> [panel[t] EXCEPT !.newest = FALSE]]

Ask(t) ==
    /\ panel[t].pc = "idle" /\ LockFree /\ file.op < MaxOps
    /\ file.status \notin Pending \cup {"rollback_failed"}
    /\ file' = Scheduled(file.op + 1, "manual") /\ asked' = asked \cup {file.op + 1}
    /\ panel' = [Overtaken EXCEPT ![t] = [pc |-> "deliver", op |-> file.op + 1, newest |-> TRUE]]
    /\ KeepBinaries /\ UNCHANGED <<units, cli, claim, mishaps>>

\* systemd-run: accepted; no answer in time, accepted or not; refused.
Deliver(t) ==
    /\ panel[t].pc = "deliver"
    /\ \/ panel' = [panel EXCEPT ![t] = IdleThread] /\ units' = units \cup {panel[t].op}
          /\ UNCHANGED mishaps
       \/ panel' = [panel EXCEPT ![t] = IdleThread] /\ UNCHANGED units /\ Mishap
       \/ panel' = [panel EXCEPT ![t].pc = "refused"] /\ UNCHANGED units /\ Mishap
    /\ KeepBinaries /\ UNCHANGED <<file, asked, cli, claim>>

\* Mutant: the refusal is recorded for whatever delivery it answers.
WithdrawAny(t) ==
    /\ panel[t].pc = "refused"
    /\ LockFree /\ file' = Ended(file, "failed")
    /\ panel' = [panel EXCEPT ![t] = IdleThread]
    /\ KeepBinaries /\ UNCHANGED <<asked, units, cli, claim, mishaps>>

\* A refusal is recorded only if nothing happened to this delivery since.
Withdraw(t) ==
    /\ panel[t].pc = "refused"
    /\ IF LockFree /\ panel[t].newest /\ file.op = panel[t].op /\ file.status = "scheduled"
       THEN file' = Ended(file, "failed") ELSE UNCHANGED file
    /\ panel' = [panel EXCEPT ![t] = IdleThread]
    /\ KeepBinaries /\ UNCHANGED <<asked, units, cli, claim, mishaps>>

ThreadDies(t) ==
    /\ panel[t].pc # "idle" /\ panel' = [panel EXCEPT ![t] = IdleThread] /\ Mishap
    /\ KeepBinaries /\ UNCHANGED <<file, asked, units, cli, claim>>

\* check_and_record.
RecordCheck ==
    /\ LockFree /\ file.status \notin Pending \cup {"rollback_failed"}
    /\ file' = [file EXCEPT !.status = "checked"]
    /\ KeepBinaries /\ KeepPanel /\ UNCHANGED <<units, cli, claim, mishaps>>

-----------------------------------------------------------------------------
(* The process: _main, under the deployment lock. *)

StartTimer ==
    /\ At("idle") /\ cli' = [IdleCli EXCEPT !.pc = "tell", !.after = "begin"]
    /\ KeepBinaries /\ KeepPanel /\ UNCHANGED <<file, units, claim, mishaps>>

StartUnit ==
    /\ At("idle")
    /\ \E op \in units :
         /\ units' = units \ {op}
         /\ cli' = [IdleCli EXCEPT !.pc = "tell", !.unit = op, !.after = "begin"]
    /\ KeepBinaries /\ KeepPanel /\ UNCHANGED <<file, claim, mishaps>>

\* _dispatch_pending_alert: the first event that was not told is claimed, unless
\* a claim of the last minute holds it.
Tell ==
    /\ At("tell")
    /\ IF file.owed = <<>> \/ claim = "fresh"
       THEN Goes([cli EXCEPT !.pc = cli.after]) /\ UNCHANGED claim
       ELSE Goes([cli EXCEPT !.pc = "telling"]) /\ claim' = "fresh"
    /\ KeepBinaries /\ KeepPanel /\ UNCHANGED <<file, mishaps>>

\* The event is sent outside the lock, and its outcome saved.
Telling ==
    /\ At("telling") /\ Goes([cli EXCEPT !.pc = cli.after]) /\ claim' = "none"
    /\ \/ /\ file' = [file EXCEPT !.owed = Tail(@), !.told = @ \cup {Head(file.owed)}]
          /\ UNCHANGED mishaps
       \/ UNCHANGED file /\ Mishap
    /\ KeepBinaries /\ KeepPanel

ClaimAges ==
    /\ claim = "fresh" /\ ~At("telling") /\ claim' = "stale"
    /\ KeepBinaries /\ KeepPanel /\ UNCHANGED <<file, units, cli, mishaps>>

\* apply_update(operation_id=...): only the operation that is still scheduled.
BeginUnit ==
    /\ At("begin") /\ cli.unit # 0
    /\ IF file.status = "scheduled" /\ file.op = cli.unit
       THEN Goes([cli EXCEPT !.pc = "check", !.mem = Scheduled(file.op, file.mode)])
       ELSE Goes(IdleCli)
    /\ KeepBinaries /\ KeepPanel /\ UNCHANGED <<file, claim, mishaps>>

\* --auto: reconcile first.
Reconcile ==
    /\ At("begin") /\ cli.unit = 0
    /\ file.status \in Interrupted \cup {"rollback_failed"}
    /\ Goes([cli EXCEPT !.pc = IF Eligible(file) THEN "restore"
                               ELSE IF file.status = "rollback_failed" THEN "tell" ELSE "giveup",
                        !.after = "idle", !.mem = file])
    /\ KeepBinaries /\ KeepPanel /\ UNCHANGED <<file, claim, mishaps>>

\* Mutant: a redelivered operation is an administrator's.
RedeliverAsManual ==
    /\ At("begin") /\ cli.unit = 0 /\ file.status = "scheduled"
    /\ file' = Scheduled(file.op, "manual") /\ panel' = Overtaken
    /\ Goes([cli EXCEPT !.pc = "deliver"])
    /\ KeepBinaries /\ UNCHANGED <<asked, claim, mishaps>>

\* An operation that is still scheduled is delivered again.
Redeliver ==
    /\ At("begin") /\ cli.unit = 0 /\ file.status = "scheduled"
    /\ file' = Scheduled(file.op, file.mode) /\ panel' = Overtaken
    /\ Goes([cli EXCEPT !.pc = "deliver"])
    /\ KeepBinaries /\ UNCHANGED <<asked, claim, mishaps>>

DeliverAgain ==
    /\ At("deliver")
    /\ \/ cli' = IdleCli /\ units' = units \cup {file.op} /\ UNCHANGED mishaps
       \/ cli' \in {IdleCli, [cli EXCEPT !.pc = "refused"]} /\ UNCHANGED units /\ Mishap
    /\ KeepBinaries /\ KeepPanel /\ UNCHANGED <<file, claim>>

WithdrawAgain ==
    /\ At("refused") /\ Goes(IdleCli)
    /\ file' = IF file.status = "scheduled" THEN Ended(file, "failed") ELSE file
    /\ KeepBinaries /\ KeepPanel /\ UNCHANGED <<claim, mishaps>>

\* apply_update() of the timer's own operation.
BeginAuto ==
    /\ At("begin") /\ cli.unit = 0
    /\ file.status \notin Pending \cup {"rollback_failed"}
    /\ IF file.op = MaxOps THEN Goes(IdleCli) /\ UNCHANGED file
       ELSE LET new == Scheduled(file.op + 1, "auto")
            IN file' = new /\ Goes([cli EXCEPT !.pc = "check", !.mem = new])
    /\ KeepBinaries /\ KeepPanel /\ UNCHANGED <<claim, mishaps>>

-----------------------------------------------------------------------------
(* apply_update. *)

Mem == cli.mem
Manual == Mem.mode = "manual"

\* Mutant: an update that a gate held back is told like one that ended.
CheckEndsTold ==
    /\ At("check")
    /\ \E status \in {"failed", "skipped", "done"} : Save(Ended(Mem, status), Tells)
    /\ KeepBinaries /\ KeepPanel /\ UNCHANGED claim

\* The check fails, a gate blocks an automatic update, there is nothing newer,
\* the backup is stale, the release has no asset or no checksum.
CheckEnds ==
    /\ At("check")
    /\ \E status \in {"failed", "skipped", "done"} :
         LET new == IF status = "skipped" THEN [Mem EXCEPT !.status = status]
                    ELSE Ended(Mem, status)
         IN Save(new, Tells) \/ (SaveRaises(new) /\ Fails)
    /\ KeepBinaries /\ KeepPanel /\ UNCHANGED claim

CheckPasses ==
    /\ At("check") /\ live < MaxRelease
    /\ LET new == [Mem EXCEPT !.status = "downloading"]
           following == [cli EXCEPT !.gated = ~Manual, !.mem = new]
       IN \/ Save(new, [following EXCEPT !.pc = "backup"])
          \/ SaveRaises(new) /\ Goes([following EXCEPT !.pc = "fail"])
    /\ KeepBinaries /\ KeepPanel /\ UNCHANGED claim

\* The download, its checksum and its version; then the live binary is copied.
Backup ==
    /\ At("backup")
    /\ \/ Goes([cli EXCEPT !.pc = "fail"]) /\ UNCHANGED lastGood
       \/ lastGood' = live /\ Goes([cli EXCEPT !.pc = "applying", !.mem.ownsLastGood = TRUE])
    /\ KeepPanel /\ UNCHANGED <<file, live, good, claim, mishaps>>

\* Mutant: the state does not name the candidate before it is installed.
SaveApplyingUnnamed ==
    /\ At("applying")
    /\ \E release \in live + 1..MaxRelease :
         LET new == [Mem EXCEPT !.status = "applying"]
         IN Save(new, [cli EXCEPT !.pc = "replace", !.mem = [new EXCEPT !.candidate = release]])
    /\ KeepBinaries /\ KeepPanel /\ UNCHANGED claim

SaveApplying ==
    /\ At("applying")
    /\ \E release \in live + 1..MaxRelease :
         LET new == [Mem EXCEPT !.status = "applying", !.candidate = release]
         IN \/ Save(new, [cli EXCEPT !.pc = "replace", !.mem = new])
            \/ SaveRaises(new) /\ Goes([cli EXCEPT !.pc = "fail", !.mem = new])
    /\ KeepBinaries /\ KeepPanel /\ UNCHANGED claim

\* _atomic_install: replaced, not replaced, or replaced and not synced.
Replace ==
    /\ At("replace")
    /\ \/ live' = Mem.candidate /\ Goes([cli EXCEPT !.pc = "verifying"]) /\ UNCHANGED mishaps
       \/ live' \in {live, Mem.candidate} /\ Goes([cli EXCEPT !.pc = "fail"]) /\ Mishap
    /\ KeepPanel /\ UNCHANGED <<file, lastGood, good, claim>>

SaveVerifying ==
    /\ At("verifying")
    /\ LET new == [Mem EXCEPT !.status = "verifying", !.liveReplaced = TRUE]
       IN \/ Save(new, [cli EXCEPT !.pc = "probe", !.mem = new])
          \/ SaveRaises(new) /\ Goes([cli EXCEPT !.pc = "fail", !.mem = new])
    /\ KeepBinaries /\ KeepPanel /\ UNCHANGED claim

\* The restart and the probes: _restart, _ready.
Probe ==
    /\ At("probe")
    /\ \/ Goes([cli EXCEPT !.pc = "done"]) /\ good' = good \cup {live}
       \/ Goes([cli EXCEPT !.pc = "fail"]) /\ UNCHANGED good
    /\ KeepPanel /\ UNCHANGED <<file, live, lastGood, claim, mishaps>>

SaveDone ==
    /\ At("done")
    /\ LET new == Ended(Mem, "done")
       IN \/ Save(new, Tells)
          \/ SaveRaises(new) /\ Goes([cli EXCEPT !.pc = "fail", !.mem = new])
    /\ KeepBinaries /\ KeepPanel /\ UNCHANGED claim

\* except Exception: whether there is something to roll back.
Fail ==
    /\ At("fail")
    /\ Goes([cli EXCEPT !.pc = IF Eligible(Mem) THEN "restore" ELSE "giveup"])
    /\ KeepBinaries /\ KeepPanel /\ UNCHANGED <<file, claim, mishaps>>

\* _restore_last_good: installed, restarted and ready, or any of them not.
Restore ==
    /\ At("restore")
    /\ \/ live' = lastGood /\ Goes([cli EXCEPT !.pc = "rolled"]) /\ UNCHANGED mishaps
       \/ live' \in {live, lastGood} /\ Goes([cli EXCEPT !.pc = "barrier"]) /\ Mishap
    /\ KeepPanel /\ UNCHANGED <<file, lastGood, good, claim>>

SaveEnd(pc, status) ==
    /\ At(pc)
    /\ LET new == Ended(Mem, status)
       IN Save(new, Tells) \/ (SaveRaises(new) /\ Fails)
    /\ KeepBinaries /\ KeepPanel /\ UNCHANGED claim

-----------------------------------------------------------------------------
(* The world. *)

CliDies ==
    /\ ~At("idle") /\ Fails /\ Mishap
    /\ KeepBinaries /\ KeepPanel /\ UNCHANGED <<file, claim>>

\* Transient units do not survive a boot.
PowerLoss ==
    /\ Mishap /\ cli' = IdleCli /\ units' = {} /\ panel' = [t \in Threads |-> IdleThread]
    /\ KeepBinaries /\ UNCHANGED <<file, asked, claim>>

-----------------------------------------------------------------------------

ApplyStep == \/ CheckEnds \/ CheckPasses \/ Backup \/ SaveApplying \/ Replace \/ SaveVerifying
             \/ Probe \/ SaveDone \/ Fail \/ Restore
             \/ SaveEnd("rolled", "rolled_back") \/ SaveEnd("barrier", "rollback_failed")
             \/ SaveEnd("giveup", "failed")
CliStep == \/ Tell \/ Telling \/ BeginUnit \/ Reconcile \/ Redeliver \/ DeliverAgain
           \/ WithdrawAgain \/ BeginAuto \/ ApplyStep

Next == \/ \E t \in Threads : Ask(t) \/ Deliver(t) \/ Withdraw(t) \/ ThreadDies(t)
        \/ RecordCheck \/ StartTimer \/ StartUnit \/ CliStep \/ ClaimAges \/ CliDies \/ PowerLoss

\* The timer fires every day and waits for the lock; processes run.
Fairness == WF_updateVars(CliStep) /\ SF_updateVars(StartTimer) /\ SF_updateVars(StartUnit)
            /\ WF_updateVars(ClaimAges)

Spec == Init /\ [][Next]_updateVars /\ Fairness

-----------------------------------------------------------------------------
(* Properties *)

State == [status : Pending \cup Terminal \cup {"idle", "checked", "skipped"}, op : 0..MaxOps,
          mode : {"auto", "manual"}, candidate : Releases, liveReplaced : BOOLEAN,
          ownsLastGood : BOOLEAN, owed : Seq((0..MaxOps) \X Terminal),
          told : SUBSET ((0..MaxOps) \X Terminal)]

TypeOK ==
    /\ file \in State /\ cli.mem \in State /\ live \in Releases /\ lastGood \in Releases
    /\ units \subseteq 1..MaxOps /\ mishaps \in 0..MaxMishaps

\* A binary that never passed its probes is live only while the state on disk
\* leads the next reconcile to restore one that did, whatever dies where.
CandidateCanBeUndone ==
    live \notin good =>
        /\ file.status \in Interrupted \cup {"rollback_failed"}
        /\ Eligible(file) /\ lastGood \in good

\* The gates of the policy are passed over only for an operation that an
\* administrator asked for, however often it is delivered.
OnlyAskedSkipsPolicy == At("replace") => cli.gated \/ Mem.op \in asked

\* An operation does not stay pending, which would bar every later one, and every
\* end is told: no event is dropped before it was sent, and none waits for ever.
Owed == {file.owed[i] : i \in DOMAIN file.owed}
UpdatesEnd ==
    /\ []<>(file.status \notin Pending /\ file.owed = <<>>)
    /\ [][\A event \in Owed : event \in Owed' \cup file'.told]_updateVars
=============================================================================
