---------------------------- MODULE StaticReload ----------------------------
(***************************************************************************)
(* A static proxy service and its generated configuration: xray_config     *)
(* (tuic_config repeats it line by line), static_access and the callers    *)
(* that apply an authorization plan.                                       *)
(*                                                                         *)
(* A caller applies the plan under usage_lock, recovers the service if it  *)
(* was stopped, releases the lock and only then asks for a reload, which   *)
(* a transient systemd unit performs later.  Two files say what is left    *)
(* to do: the reload marker (pending, a unique token) and the fail-closed  *)
(* marker (closed).  Plans are numbered; a configuration is the number of  *)
(* the plan it was generated from.                                         *)
(***************************************************************************)
EXTENDS Integers

CONSTANTS
    Handlers,    \* request handlers, revocation workers and limiter passes
    Units,       \* bound: transient reload units that exist at the same time
    Nobody,      \* usage_lock is free
    Kinds,       \* the callers that occur in a run
    FaultKinds,  \* the failures that occur in a run
    SlowTimer,   \* a unit ends before the limiter's timer fires again
    MaxFaults,   \* bound: failures in a run
    MaxPlan      \* bound: changes of the plan in a run

Kind == {"rotation", "edit", "tick"}
FaultKind == {"plan", "save", "marker", "restart", "stop", "schedule", "death"}

ASSUME ReloadAssumption ==
    /\ Nobody \notin Handlers
    /\ Handlers \cap Units = {}
    /\ Kinds \subseteq Kind
    /\ FaultKinds \subseteq FaultKind
    /\ SlowTimer \in BOOLEAN
    /\ MaxFaults \in Nat
    /\ MaxPlan \in Nat \ {0}

VARIABLES
    plan,     \* the plan that the canonical state asks for
    config,   \* the configuration file
    pending,  \* the token in the reload marker, 0 when there is none
    closed,   \* the fail-closed marker exists
    service,  \* the configuration the running service has loaded, 0 when it is stopped
    lock,     \* holder of usage_lock
    hnd,      \* the pass in hand of each caller
    unit,     \* the transient units
    tokens,   \* number of tokens written so far
    loadedAt, \* observed: that number when the service last loaded its configuration
    faults    \* number of failures so far

fileVars == <<plan, config, pending, closed, tokens>>
svcVars == <<service, loadedAt>>
vars == <<plan, config, pending, closed, service, lock, hnd, unit, tokens, loadedAt, faults>>

HandlerPc == {"idle", "apply", "save", "recover", "start", "probe", "unlink",
              "reload", "mark", "stop"}

\* needs: the result of apply_user_plan; again: reload_async has stopped the
\* service and its caller will do it once more.
Pass == [pc : HandlerPc, kind : Kind, needs : BOOLEAN, again : BOOLEAN]
IdlePass == [pc |-> "idle", kind |-> "tick", needs |-> FALSE, again |-> FALSE]

UnitPc == {"idle", "restart", "probe", "clear", "mark", "stop"}
Unit == [pc : UnitPc, token : Nat]
IdleUnit == [pc |-> "idle", token |-> 0]

TypeOK ==
    /\ plan \in 1 .. MaxPlan
    /\ config \in 1 .. MaxPlan
    /\ pending \in 0 .. tokens
    /\ closed \in BOOLEAN
    /\ service \in 0 .. MaxPlan
    /\ lock \in Handlers \cup {Nobody}
    /\ hnd \in [Handlers -> Pass]
    /\ unit \in [Units -> Unit]
    /\ tokens \in Nat
    /\ loadedAt \in 0 .. tokens
    /\ faults \in 0 .. MaxFaults

Init ==
    /\ plan = 1 /\ config = 1 /\ service = 1
    /\ pending = 0 /\ closed = FALSE
    /\ lock = Nobody
    /\ hnd = [h \in Handlers |-> IdlePass]
    /\ unit = [u \in Units |-> IdleUnit]
    /\ tokens = 0 /\ loadedAt = 0 /\ faults = 0

Fault(kind) ==
    /\ kind \in FaultKinds
    /\ faults < MaxFaults
    /\ faults' = faults + 1

NoFault == UNCHANGED faults

\* The service is stopped, left alone, or loads the configuration.
Stops == service' = 0 /\ UNCHANGED loadedAt
Loads == service' = config /\ loadedAt' = tokens

AtStep(h, pc) == hnd[h].pc = pc
Goto(h, pc) == hnd' = [hnd EXCEPT ![h].pc = pc]
UnitAt(u, pc) == unit[u].pc = pc
UnitGoto(u, pc) == unit' = [unit EXCEPT ![u].pc = pc]

\* The configuration's own lock: held from the marker to the new file.
ConfigLocked == \E h \in Handlers : AtStep(h, "save")

Done(h) ==
    /\ hnd' = [hnd EXCEPT ![h] = IdlePass]
    /\ lock' = IF lock = h THEN Nobody ELSE lock

-----------------------------------------------------------------------------
(* Applying a plan, under usage_lock.                                      *)

\* systemd does not start the limiter twice at a time.
TimerFires ==
    /\ \A h \in Handlers : hnd[h].kind = "tick" => AtStep(h, "idle")
    /\ SlowTimer => \A u \in Units : UnitAt(u, "idle")

\* A rotation always changes the plan, other callers may have nothing new.
Begin(h, kind) ==
    /\ AtStep(h, "idle")
    /\ lock = Nobody
    /\ kind \in Kinds
    /\ kind = "tick" => TimerFires
    /\ lock' = h
    /\ plan' \in IF kind = "rotation" THEN {plan + 1} ELSE {plan, plan + 1}
    /\ plan' <= MaxPlan
    /\ hnd' = [hnd EXCEPT ![h] = [IdlePass EXCEPT !.pc = "apply", !.kind = kind]]
    /\ UNCHANGED <<config, pending, closed, svcVars, unit, tokens, faults>>

\* What a caller does when the plan could not be applied: it stops the service,
\* the limiter within usage_lock, the others after its release.
Refused(h) ==
    /\ hnd' = [hnd EXCEPT ![h] = [@ EXCEPT !.pc = "mark", !.needs = FALSE]]
    /\ lock' = IF hnd[h].kind = "tick" THEN lock ELSE Nobody

PlanRefused(h) ==
    /\ AtStep(h, "apply")
    /\ Fault("plan")
    /\ Refused(h)
    /\ UNCHANGED <<plan, config, pending, closed, svcVars, unit, tokens>>

\* Mutant of ApplyUnchanged: only a changed configuration asks for a reload.
ApplyIgnoresMarker(h) ==
    /\ AtStep(h, "apply")
    /\ config = plan
    /\ Goto(h, "recover")
    /\ UNCHANGED <<plan, config, pending, closed, svcVars, lock, unit, tokens, faults>>

\* apply_user_plan returns "changed or the marker exists".
ApplyUnchanged(h) ==
    /\ AtStep(h, "apply")
    /\ config = plan
    /\ hnd' = [hnd EXCEPT ![h] = [@ EXCEPT !.pc = "recover", !.needs = (pending # 0)]]
    /\ UNCHANGED <<plan, config, pending, closed, svcVars, lock, unit, tokens, faults>>

\* Mutants of MarkReloadPending: the token of a marker that is still there is kept;
\* tokens repeat.
MarkOncePending(h) ==
    /\ AtStep(h, "apply")
    /\ config # plan
    /\ tokens' = IF pending = 0 THEN tokens + 1 ELSE tokens
    /\ pending' = IF pending = 0 THEN tokens + 1 ELSE pending
    /\ Goto(h, "save")
    /\ UNCHANGED <<plan, config, closed, svcVars, lock, unit, faults>>

MarkWithoutCounting(h) ==
    /\ AtStep(h, "apply")
    /\ config # plan
    /\ pending' = tokens + 1
    /\ Goto(h, "save")
    /\ UNCHANGED <<plan, config, closed, tokens, svcVars, lock, unit, faults>>

\* A marker whose fsync failed is there for every reader, and an error for the
\* caller; one that could not be written at all is PlanRefused.
MarkReloadPending(h) ==
    /\ AtStep(h, "apply")
    /\ config # plan
    /\ tokens' = tokens + 1
    /\ pending' = tokens + 1
    /\ \/ Goto(h, "save") /\ UNCHANGED lock /\ NoFault
       \/ Fault("marker") /\ Refused(h)
    /\ UNCHANGED <<plan, config, closed, svcVars, unit>>

SaveConfig(h) ==
    /\ AtStep(h, "save")
    /\ \/ /\ config' = plan
          /\ hnd' = [hnd EXCEPT ![h] = [@ EXCEPT !.pc = "recover", !.needs = TRUE]]
          /\ UNCHANGED lock /\ NoFault
       \/ config' \in {config, plan} /\ Fault("save") /\ Refused(h)
    /\ UNCHANGED <<plan, pending, closed, svcVars, unit, tokens>>

-----------------------------------------------------------------------------
(* recover_if_pending, still under usage_lock; Release ends it.            *)

Release(h) == Goto(h, "reload") /\ lock' = Nobody

NothingToRecover(h) ==
    /\ AtStep(h, "recover")
    /\ ~ closed
    /\ Release(h)
    /\ UNCHANGED <<fileVars, svcVars, unit, faults>>

\* Mutant of RecoverStop: the marker is removed before the service is back.
RecoverForgets(h) ==
    /\ AtStep(h, "recover")
    /\ closed
    /\ closed' = FALSE
    /\ Stops
    /\ Goto(h, "start")
    /\ UNCHANGED <<plan, config, pending, tokens, lock, unit, faults>>

RecoverStop(h) ==
    /\ AtStep(h, "recover")
    /\ closed
    /\ \/ Stops /\ NoFault /\ Goto(h, "start") /\ UNCHANGED lock
       \/ (Stops \/ UNCHANGED svcVars) /\ Fault("stop") /\ Release(h)
    /\ UNCHANGED <<fileVars, unit>>

\* Starting a service that something else has started meanwhile does nothing.
Starts == IF service = 0 THEN Loads ELSE UNCHANGED svcVars

RecoverStart(h) ==
    /\ AtStep(h, "start")
    /\ \/ Starts /\ NoFault /\ Goto(h, "probe") /\ UNCHANGED lock
       \/ (Starts \/ UNCHANGED svcVars) /\ Fault("restart") /\ Release(h)
    /\ UNCHANGED <<fileVars, unit>>

RecoverProbe(h) ==
    /\ AtStep(h, "probe")
    /\ \/ service # 0 /\ NoFault /\ Goto(h, "unlink") /\ UNCHANGED lock
       \/ service = 0 /\ NoFault /\ Release(h)
       \/ Fault("restart") /\ Release(h)
    /\ UNCHANGED <<fileVars, svcVars, unit>>

RecoverUnlink(h) ==
    /\ AtStep(h, "unlink")
    /\ \/ closed' = FALSE /\ NoFault
       \/ UNCHANGED closed /\ Fault("marker")
    /\ Release(h)
    /\ UNCHANGED <<plan, config, pending, tokens, svcVars, unit>>

-----------------------------------------------------------------------------
(* reload_async and what its callers do with the answer, without the lock. *)

\* A revocation also looks for a marker that an earlier pass has left.
Reloads(h) == hnd[h].needs \/ (hnd[h].kind = "rotation" /\ pending # 0)

NoReload(h) ==
    /\ AtStep(h, "reload")
    /\ ~ Reloads(h)
    /\ Done(h)
    /\ UNCHANGED <<fileVars, svcVars, unit, faults>>

\* The marker is gone: reload_async returns False, which only a revocation
\* that changed the configuration takes for a failure.
ReloadAcknowledged(h) ==
    /\ AtStep(h, "reload")
    /\ Reloads(h)
    /\ pending = 0
    /\ IF hnd[h].kind = "rotation"
       THEN Goto(h, "mark") /\ UNCHANGED lock
       ELSE Done(h)
    /\ UNCHANGED <<fileVars, svcVars, unit, faults>>

\* systemd-run: the unit gets the token that the marker holds now.
StartUnit(u) ==
    /\ UnitAt(u, "idle")
    /\ unit' = [unit EXCEPT ![u] = [pc |-> "restart", token |-> pending]]

ScheduleReload(h, u) ==
    /\ AtStep(h, "reload")
    /\ Reloads(h)
    /\ pending # 0
    /\ StartUnit(u)
    /\ Done(h)
    /\ UNCHANGED <<fileVars, svcVars, faults>>

\* A call that times out may have started the unit all the same.
ScheduleFails(h, u) ==
    /\ AtStep(h, "reload")
    /\ Reloads(h)
    /\ pending # 0
    /\ Fault("schedule")
    /\ hnd' = [hnd EXCEPT ![h] = [@ EXCEPT !.pc = "mark", !.again = (hnd[h].kind = "rotation")]]
    /\ StartUnit(u) \/ UNCHANGED unit
    /\ UNCHANGED <<fileVars, svcVars, lock>>

-----------------------------------------------------------------------------
(* stop_fail_closed: the marker, then the stop, whatever became of it.     *)

WriteClosed ==
    \/ closed' = TRUE /\ NoFault
    \/ closed' \in {closed, TRUE} /\ Fault("marker")

StopService ==
    \/ Stops /\ NoFault
    \/ (Stops \/ UNCHANGED svcVars) /\ Fault("stop")

MarkFailClosed(h) ==
    /\ AtStep(h, "mark")
    /\ WriteClosed
    /\ Goto(h, "stop")
    /\ UNCHANGED <<plan, config, pending, tokens, svcVars, lock, unit>>

StopFailClosed(h) ==
    /\ AtStep(h, "stop")
    /\ StopService
    /\ IF hnd[h].again
       THEN hnd' = [hnd EXCEPT ![h] = [@ EXCEPT !.pc = "mark", !.again = FALSE]] /\ UNCHANGED lock
       ELSE Done(h)
    /\ UNCHANGED <<fileVars, unit>>

-----------------------------------------------------------------------------
(* _run_reload_worker, in a transient unit.                                *)

Restart(u) ==
    /\ UnitAt(u, "restart")
    /\ \/ Loads /\ NoFault /\ UnitGoto(u, "probe")
       \/ /\ Loads \/ Stops \/ UNCHANGED svcVars
          /\ Fault("restart") /\ UnitGoto(u, "mark")
    /\ UNCHANGED <<fileVars, lock, hnd>>

Probe(u) ==
    /\ UnitAt(u, "probe")
    /\ \/ service # 0 /\ NoFault /\ UnitGoto(u, "clear")
       \/ service = 0 /\ NoFault /\ UnitGoto(u, "mark")
       \/ Fault("restart") /\ UnitGoto(u, "mark")
    /\ UNCHANGED <<fileVars, svcVars, lock, hnd>>

\* Mutant of ClearReloadPending: whatever marker is there is removed.
ClearAnyPending(u) ==
    /\ UnitAt(u, "clear")
    /\ ~ ConfigLocked
    /\ pending' = 0
    /\ unit' = [unit EXCEPT ![u] = IdleUnit]
    /\ UNCHANGED <<plan, config, closed, tokens, svcVars, lock, hnd, faults>>

ClearReloadPending(u) ==
    /\ UnitAt(u, "clear")
    /\ ~ ConfigLocked
    /\ pending' = IF pending = unit[u].token THEN 0 ELSE pending
    /\ unit' = [unit EXCEPT ![u] = IdleUnit]
    /\ UNCHANGED <<plan, config, closed, tokens, svcVars, lock, hnd, faults>>

\* The lock is held for longer than its timeout: the unit ends, the marker stays.
ClearTimesOut(u) ==
    /\ UnitAt(u, "clear")
    /\ ConfigLocked
    /\ unit' = [unit EXCEPT ![u] = IdleUnit]
    /\ UNCHANGED <<fileVars, svcVars, lock, hnd, faults>>

UnitMarksFailClosed(u) ==
    /\ UnitAt(u, "mark")
    /\ WriteClosed
    /\ UnitGoto(u, "stop")
    /\ UNCHANGED <<plan, config, pending, tokens, svcVars, lock, hnd>>

UnitStopsFailClosed(u) ==
    /\ UnitAt(u, "stop")
    /\ StopService
    /\ unit' = [unit EXCEPT ![u] = IdleUnit]
    /\ UNCHANGED <<fileVars, lock, hnd>>

-----------------------------------------------------------------------------
(* The surroundings: a process dies with the locks it holds, systemd       *)
(* restarts a service that crashed.                                        *)

HandlerDies(h) ==
    /\ ~ AtStep(h, "idle")
    /\ Fault("death")
    /\ Done(h)
    /\ UNCHANGED <<fileVars, svcVars, unit>>

UnitDies(u) ==
    /\ ~ UnitAt(u, "idle")
    /\ Fault("death")
    /\ unit' = [unit EXCEPT ![u] = IdleUnit]
    /\ UNCHANGED <<fileVars, svcVars, lock, hnd>>

ServiceRestarts ==
    /\ service # 0
    /\ Loads
    /\ UNCHANGED <<fileVars, lock, hnd, unit, faults>>

Schedule(h) == \E u \in Units : ScheduleReload(h, u)

HandlerStep(h) ==
    \/ PlanRefused(h) \/ ApplyUnchanged(h) \/ MarkReloadPending(h) \/ SaveConfig(h)
    \/ NothingToRecover(h) \/ RecoverStop(h) \/ RecoverStart(h) \/ RecoverProbe(h)
    \/ RecoverUnlink(h)
    \/ NoReload(h) \/ ReloadAcknowledged(h) \/ Schedule(h)
    \/ \E u \in Units : ScheduleFails(h, u)
    \/ MarkFailClosed(h) \/ StopFailClosed(h)

UnitStep(u) ==
    \/ Restart(u) \/ Probe(u) \/ ClearReloadPending(u) \/ ClearTimesOut(u)
    \/ UnitMarksFailClosed(u) \/ UnitStopsFailClosed(u)

Next ==
    \/ \E h \in Handlers :
         \/ \E kind \in Kind : Begin(h, kind)
         \/ HandlerStep(h)
         \/ HandlerDies(h)
    \/ \E u \in Units : UnitStep(u) \/ UnitDies(u)
    \/ ServiceRestarts

Spec == Init /\ [][Next]_vars

\* The limiter's timer keeps firing, and whoever has begun goes on.
Fairness ==
    /\ WF_vars(\E h \in Handlers : Begin(h, "tick"))
    /\ \A h \in Handlers : WF_vars(HandlerStep(h))
    /\ \A u \in Units : WF_vars(UnitStep(u))

FairSpec == Spec /\ Fairness

-----------------------------------------------------------------------------
(* Properties.                                                             *)

\* A service that does not run the configuration on disk has a reload marker:
\* whatever fails or dies, someone knows that a reload is still due
\* (_mark_reload_pending, _clear_reload_pending).
StaleServiceIsMarked == service \in {0, config} \/ pending # 0

\* A marker is only removed once the service has loaded its configuration after
\* that marker was written: a reload that finishes late does not acknowledge a newer
\* change (_clear_reload_pending).
AckFollowsReload == [][pending # 0 /\ pending' = 0 => pending <= loadedAt]_vars

\* A stopped service has a marker of either kind, or somebody is busy with it:
\* no reconciliation would start it otherwise (stop_fail_closed, recover_if_pending).
Busy == \/ \E h \in Handlers : hnd[h].pc \in {"start", "mark", "stop"}
        \/ \E u \in Units : unit[u].pc \in {"mark", "stop"}
StoppedServiceIsMarked == service # 0 \/ closed \/ pending # 0 \/ Busy

\* Passes keep coming, failures do not: the service ends up running the plan.
EventuallyServesPlan == <>[](service = plan)

\* A marker is acted on in the end, whoever wrote it and whatever failed.
IntentIsSettled == pending # 0 ~> pending = 0
=============================================================================
