-------------------------- MODULE StaticReloadProofs --------------------------
(***************************************************************************)
(* Theorems about the two sides of MCStaticProxies, for any callers,       *)
(* units, failures and bounds.  The reload: types, what is acknowledged,   *)
(* and that a caller alone never loses a reload nor, with a unit alone, a  *)
(* service it has stopped.  The meter: what is charged has moved.          *)
(***************************************************************************)
EXTENDS MCStaticProxies, TLAPS

\* The tokens that units carry were written before, and a unit that is past its
\* restart carries one that the service has seen.
UnitsSeen ==
    \A u \in Units :
        /\ unit[u].token \in 0 .. tokens
        /\ unit[u].pc \in {"probe", "clear"} => unit[u].token <= loadedAt

AckInv == TypeOK /\ UnitsSeen

\* The service is untouched, stopped, or loads the configuration.
ServiceStep == UNCHANGED svcVars \/ Stops \/ Loads

\* Whatever happens to the service, it has loaded a configuration that was written.
LEMMA ServiceType ==
  ASSUME TypeOK, ServiceStep, tokens' \in Nat, tokens' >= tokens
  PROVE  service' \in 0 .. MaxPlan /\ loadedAt' \in 0 .. tokens' /\ loadedAt' >= loadedAt
  <1>1. CASE UNCHANGED svcVars
    BY <1>1, ReloadAssumption DEF TypeOK, svcVars
  <1>2. CASE Stops
    BY <1>2, ReloadAssumption DEF TypeOK, Stops
  <1>3. CASE Loads
    BY <1>3, ReloadAssumption DEF TypeOK, Loads
  <1> QED BY <1>1, <1>2, <1>3 DEF ServiceStep

\* A step of a caller, given what it does to its own pass.
LEMMA HandlerKeepsAck ==
  ASSUME AckInv, NEW h \in Handlers, NEW pass \in Pass,
         hnd' = [hnd EXCEPT ![h] = pass], lock' \in {h, lock, Nobody},
         plan' \in 1 .. MaxPlan, config' \in {config, plan}, closed' \in BOOLEAN,
         \/ tokens' = tokens /\ pending' = pending
         \/ tokens' = tokens + 1 /\ pending' = tokens + 1,
         faults' \in 0 .. MaxFaults,
         ServiceStep,
         unit' = unit \/ \E u \in Units :
            unit' = [unit EXCEPT ![u] = [pc |-> "restart", token |-> pending]]
  PROVE  AckInv'
  <1>1. tokens' \in Nat /\ tokens' >= tokens
    BY DEF AckInv, TypeOK
  <1>2. service' \in 0 .. MaxPlan /\ loadedAt' \in 0 .. tokens' /\ loadedAt' >= loadedAt
    BY <1>1, ServiceType DEF AckInv
  <1>3. hnd' \in [Handlers -> Pass]
    BY DEF AckInv, TypeOK
  <1>4. unit' \in [Units -> Unit]
    BY DEF AckInv, TypeOK, Unit, UnitPc
  <1>5. TypeOK'
    BY <1>1, <1>2, <1>3, <1>4 DEF AckInv, TypeOK
  <1>6. ASSUME NEW u \in Units
        PROVE  /\ unit'[u].token \in 0 .. tokens'
               /\ unit'[u].pc \in {"probe", "clear"} => unit'[u].token <= loadedAt'
    <2>1. CASE unit'[u] = unit[u]
      BY <2>1, <1>1, <1>2 DEF AckInv, TypeOK, UnitsSeen, Unit
    <2>2. CASE unit'[u] = [pc |-> "restart", token |-> pending]
      BY <2>2, <1>1 DEF AckInv, TypeOK
    <2> QED BY <2>1, <2>2 DEF AckInv, TypeOK
  <1> QED BY <1>5, <1>6 DEF AckInv, UnitsSeen

\* A step of a unit: its token stays or goes, and only a restart that succeeded
\* takes it to its probe.
LEMMA UnitKeepsAck ==
  ASSUME AckInv, NEW u \in Units, NEW job \in Unit,
         unit' = [unit EXCEPT ![u] = job],
         job.token = unit[u].token \/ job.token = 0,
         \/ job.pc \notin {"probe", "clear"}
         \/ unit[u].pc \in {"probe", "clear"}
         \/ Loads,
         pending' \in {pending, 0}, closed' \in BOOLEAN,
         faults' \in 0 .. MaxFaults,
         ServiceStep,
         UNCHANGED <<plan, config, tokens, lock, hnd>>
  PROVE  AckInv'
  <1>1. service' \in 0 .. MaxPlan /\ loadedAt' \in 0 .. tokens' /\ loadedAt' >= loadedAt
    BY ServiceType DEF AckInv, TypeOK
  <1>2. TypeOK'
    BY <1>1 DEF AckInv, TypeOK
  <1>3. ASSUME NEW v \in Units
        PROVE  /\ unit'[v].token \in 0 .. tokens'
               /\ unit'[v].pc \in {"probe", "clear"} => unit'[v].token <= loadedAt'
    <2>1. CASE v = u
      <3>1. unit'[v] = job
        BY <2>1 DEF AckInv, TypeOK
      <3>2. job.token \in 0 .. tokens'
        BY DEF AckInv, TypeOK, UnitsSeen
      <3>3. CASE Loads
        BY <3>1, <3>2, <3>3 DEF Loads
      <3>4. CASE job.pc \notin {"probe", "clear"}
        BY <3>1, <3>2, <3>4
      <3>5. CASE unit[u].pc \in {"probe", "clear"}
        BY <3>1, <3>2, <3>5, <1>1 DEF AckInv, TypeOK, UnitsSeen, Unit
      <3> QED BY <3>3, <3>4, <3>5
    <2>2. CASE v # u
      BY <2>2, <1>1 DEF AckInv, TypeOK, UnitsSeen, Unit
    <2> QED BY <2>1, <2>2
  <1> QED BY <1>2, <1>3 DEF AckInv, UnitsSeen

\* What the steps do to a pass leaves a pass.
LEMMA PassUpdate ==
  ASSUME NEW pass \in Pass, NEW pc \in HandlerPc, NEW flag \in BOOLEAN
  PROVE  /\ [pass EXCEPT !.pc = pc] \in Pass
         /\ [pass EXCEPT !.pc = pc, !.needs = flag] \in Pass
         /\ [pass EXCEPT !.pc = pc, !.again = flag] \in Pass
  BY DEF Pass

\* Every step of a caller.
LEMMA BeginAck ==
  ASSUME AckInv, NEW h \in Handlers, NEW kind \in Kind, Begin(h, kind)
  PROVE  AckInv'
  <1>1. [IdlePass EXCEPT !.pc = "apply", !.kind = kind] \in Pass
    BY DEF IdlePass, Pass, HandlerPc, Kind
  <1>2. plan' \in 1 .. MaxPlan
    BY ReloadAssumption DEF Begin, AckInv, TypeOK
  <1> QED BY <1>1, <1>2, HandlerKeepsAck
          DEF Begin, AckInv, TypeOK, ServiceStep

LEMMA HandlerAck ==
  ASSUME AckInv, NEW h \in Handlers, HandlerStep(h) \/ HandlerDies(h)
  PROVE  AckInv'
  <1> DEFINE At(pc) == [hnd[h] EXCEPT !.pc = pc]
  <1>a. /\ hnd[h] \in Pass /\ IdlePass \in Pass
        /\ \A pc \in HandlerPc : At(pc) \in Pass
        /\ plan \in 1 .. MaxPlan /\ closed \in BOOLEAN /\ faults \in 0 .. MaxFaults
        /\ TRUE \in BOOLEAN /\ FALSE \in BOOLEAN
    BY DEF AckInv, TypeOK, Pass, IdlePass, HandlerPc, Kind
  <1>b. ASSUME NEW kind, Fault(kind) PROVE faults' \in 0 .. MaxFaults
    BY <1>b, ReloadAssumption DEF Fault, AckInv, TypeOK
  <1>c. ASSUME Done(h) PROVE hnd' = [hnd EXCEPT ![h] = IdlePass] /\ lock' \in {h, lock, Nobody}
    BY <1>c DEF Done
  <1>1. CASE PlanRefused(h)
    <2>1. [hnd[h] EXCEPT !.pc = "mark", !.needs = FALSE] \in Pass
      BY <1>a, PassUpdate DEF HandlerPc
    <2> QED BY <1>1, <2>1, <1>a, <1>b, HandlerKeepsAck
            DEF PlanRefused, Refused, ServiceStep
  <1>2. CASE ApplyUnchanged(h)
    <2>1. [hnd[h] EXCEPT !.pc = "recover", !.needs = (pending # 0)] \in Pass
      BY <1>a, PassUpdate DEF HandlerPc
    <2> QED BY <1>2, <2>1, <1>a, HandlerKeepsAck
            DEF ApplyUnchanged, ServiceStep
  <1>3. CASE MarkReloadPending(h)
    <2>1. [hnd[h] EXCEPT !.pc = "mark", !.needs = FALSE] \in Pass /\ At("save") \in Pass
      BY <1>a, PassUpdate DEF HandlerPc
    <2>2. CASE Goto(h, "save") /\ UNCHANGED lock /\ NoFault
      BY <1>3, <2>2, <2>1, <1>a, HandlerKeepsAck
      DEF MarkReloadPending, Goto, NoFault, ServiceStep
    <2>3. CASE Fault("marker") /\ Refused(h)
      BY <1>3, <2>3, <2>1, <1>a, <1>b, HandlerKeepsAck
      DEF MarkReloadPending, Refused, ServiceStep
    <2> QED BY <1>3, <2>2, <2>3 DEF MarkReloadPending
  <1>4. CASE SaveConfig(h)
    <2>1. [hnd[h] EXCEPT !.pc = "mark", !.needs = FALSE] \in Pass
          /\ [hnd[h] EXCEPT !.pc = "recover", !.needs = TRUE] \in Pass
      BY <1>a, PassUpdate DEF HandlerPc
    <2>2. CASE config' = plan /\ UNCHANGED lock /\ NoFault
               /\ hnd' = [hnd EXCEPT ![h].pc = "recover", ![h].needs = TRUE]
      BY <1>4, <2>2, <2>1, <1>a, HandlerKeepsAck
      DEF SaveConfig, NoFault, ServiceStep
    <2>3. CASE config' \in {config, plan} /\ Fault("save") /\ Refused(h)
      BY <1>4, <2>3, <2>1, <1>a, <1>b, HandlerKeepsAck
      DEF SaveConfig, Refused, ServiceStep
    <2> QED BY <1>4, <2>2, <2>3 DEF SaveConfig
  <1>d. ASSUME Release(h)
        PROVE  hnd' = [hnd EXCEPT ![h] = At("reload")] /\ lock' = Nobody /\ At("reload") \in Pass
    BY <1>a, <1>d DEF Release, Goto, HandlerPc
  <1>e. ASSUME NEW pc \in HandlerPc, Goto(h, pc)
        PROVE  hnd' = [hnd EXCEPT ![h] = At(pc)] /\ At(pc) \in Pass
    BY <1>a, <1>e DEF Goto
  <1>f. /\ {"start", "probe", "unlink", "reload", "mark", "stop"} \subseteq HandlerPc
        /\ NoFault => faults' \in 0 .. MaxFaults
    BY <1>a DEF HandlerPc, NoFault
  <1>5. CASE NothingToRecover(h)
    BY <1>5, <1>a, <1>d, HandlerKeepsAck
    DEF NothingToRecover, fileVars, ServiceStep
  <1>6. CASE RecoverStop(h)
    <2>1. faults' \in 0 .. MaxFaults /\ ServiceStep /\ lock' \in {h, lock, Nobody}
      BY <1>6, <1>b, <1>d, <1>f DEF RecoverStop, ServiceStep
    <2>2. PICK pass \in Pass : hnd' = [hnd EXCEPT ![h] = pass]
      BY <1>6, <1>d, <1>e, <1>f DEF RecoverStop
    <2> QED BY <1>6, <2>1, <2>2, <1>a, HandlerKeepsAck DEF RecoverStop, fileVars
  <1>7. CASE RecoverStart(h)
    <2>1. faults' \in 0 .. MaxFaults /\ ServiceStep /\ lock' \in {h, lock, Nobody}
      BY <1>7, <1>b, <1>d, <1>f DEF RecoverStart, Starts, ServiceStep
    <2>2. PICK pass \in Pass : hnd' = [hnd EXCEPT ![h] = pass]
      BY <1>7, <1>d, <1>e, <1>f DEF RecoverStart
    <2> QED BY <1>7, <2>1, <2>2, <1>a, HandlerKeepsAck DEF RecoverStart, fileVars
  <1>8. CASE RecoverProbe(h)
    <2>1. faults' \in 0 .. MaxFaults /\ ServiceStep /\ lock' \in {h, lock, Nobody}
      BY <1>8, <1>b, <1>d, <1>f DEF RecoverProbe, ServiceStep
    <2>2. PICK pass \in Pass : hnd' = [hnd EXCEPT ![h] = pass]
      BY <1>8, <1>d, <1>e, <1>f DEF RecoverProbe
    <2> QED BY <1>8, <2>1, <2>2, <1>a, HandlerKeepsAck DEF RecoverProbe, fileVars
  <1>9. CASE RecoverUnlink(h)
    <2>1. faults' \in 0 .. MaxFaults /\ closed' \in BOOLEAN
      BY <1>9, <1>a, <1>b, <1>f DEF RecoverUnlink
    <2> QED BY <1>9, <2>1, <1>a, <1>d, HandlerKeepsAck DEF RecoverUnlink, ServiceStep
  <1>10. CASE NoReload(h)
    BY <1>10, <1>a, <1>c, HandlerKeepsAck DEF NoReload, fileVars, ServiceStep
  <1>11. CASE ReloadAcknowledged(h)
    <2>1. lock' \in {h, lock, Nobody} /\ \E pass \in Pass : hnd' = [hnd EXCEPT ![h] = pass]
      BY <1>11, <1>a, <1>c, <1>e, <1>f DEF ReloadAcknowledged
    <2> QED BY <1>11, <2>1, <1>a, HandlerKeepsAck
            DEF ReloadAcknowledged, fileVars, ServiceStep
  <1>12. CASE Schedule(h)
    <2>1. PICK u \in Units : ScheduleReload(h, u)
      BY <1>12 DEF Schedule
    <2> QED BY <2>1, <1>a, <1>c, HandlerKeepsAck
            DEF ScheduleReload, StartUnit, fileVars, ServiceStep
  <1>13. ASSUME NEW u \in Units, ScheduleFails(h, u) PROVE AckInv'
    <2>1. [hnd[h] EXCEPT !.pc = "mark", !.again = (hnd[h].kind = "rotation")] \in Pass
      BY <1>a, PassUpdate DEF HandlerPc
    <2> QED BY <1>13, <2>1, <1>a, <1>b, HandlerKeepsAck
            DEF ScheduleFails, StartUnit, fileVars, ServiceStep
  <1>14. CASE MarkFailClosed(h)
    <2>1. faults' \in 0 .. MaxFaults /\ closed' \in BOOLEAN
      BY <1>14, <1>a, <1>b, <1>f DEF MarkFailClosed, WriteClosed
    <2> QED BY <1>14, <2>1, <1>a, <1>e, <1>f, HandlerKeepsAck DEF MarkFailClosed, ServiceStep
  <1>15. CASE StopFailClosed(h)
    <2>1. faults' \in 0 .. MaxFaults /\ ServiceStep
      BY <1>15, <1>b, <1>f DEF StopFailClosed, StopService, ServiceStep
    <2>2. [hnd[h] EXCEPT !.pc = "mark", !.again = FALSE] \in Pass
      BY <1>a, PassUpdate DEF HandlerPc
    <2>3. lock' \in {h, lock, Nobody} /\ \E pass \in Pass : hnd' = [hnd EXCEPT ![h] = pass]
      BY <1>15, <2>2, <1>a, <1>c DEF StopFailClosed
    <2> QED BY <1>15, <2>1, <2>3, <1>a, HandlerKeepsAck DEF StopFailClosed, fileVars
  <1>16. CASE HandlerDies(h)
    BY <1>16, <1>a, <1>b, <1>c, HandlerKeepsAck DEF HandlerDies, fileVars, ServiceStep
  <1> QED BY <1>1, <1>2, <1>3, <1>4, <1>5, <1>6, <1>7, <1>8, <1>9, <1>10, <1>11, <1>12,
             <1>13, <1>14, <1>15, <1>16 DEF HandlerStep

\* Every step of a unit.
LEMMA UnitAck ==
  ASSUME AckInv, NEW u \in Units, UnitStep(u) \/ UnitDies(u)
  PROVE  AckInv'
  <1> DEFINE At(pc) == [unit[u] EXCEPT !.pc = pc]
  <1>a. /\ IdleUnit \in Unit /\ IdleUnit.token = 0 /\ IdleUnit.pc = "idle"
        /\ \A pc \in UnitPc : At(pc) \in Unit /\ At(pc).token = unit[u].token /\ At(pc).pc = pc
        /\ closed \in BOOLEAN /\ faults \in 0 .. MaxFaults
        /\ TRUE \in BOOLEAN /\ FALSE \in BOOLEAN
        /\ {"probe", "clear", "mark", "stop"} \subseteq UnitPc
    BY DEF AckInv, TypeOK, Unit, IdleUnit, UnitPc
  <1>b. /\ \A kind : Fault(kind) => faults' \in 0 .. MaxFaults
        /\ NoFault => faults' \in 0 .. MaxFaults
    BY ReloadAssumption DEF Fault, NoFault, AckInv, TypeOK
  <1>1. CASE Restart(u)
    <2>1. faults' \in 0 .. MaxFaults /\ ServiceStep
      BY <1>1, <1>b DEF Restart, ServiceStep
    <2>2. CASE Loads /\ UnitGoto(u, "probe")
      BY <1>1, <2>1, <2>2, <1>a, UnitKeepsAck DEF Restart, UnitGoto, fileVars
    <2>3. CASE UnitGoto(u, "mark")
      BY <1>1, <2>1, <2>3, <1>a, UnitKeepsAck DEF Restart, UnitGoto, fileVars
    <2> QED BY <1>1, <2>2, <2>3 DEF Restart
  <1>2. CASE Probe(u)
    <2>1. faults' \in 0 .. MaxFaults /\ unit[u].pc \in {"probe", "clear"}
      BY <1>2, <1>b DEF Probe, UnitAt
    <2>2. PICK pc \in {"clear", "mark"} : UnitGoto(u, pc)
      BY <1>2 DEF Probe
    <2> QED BY <1>2, <2>1, <2>2, <1>a, UnitKeepsAck DEF Probe, UnitGoto, fileVars, ServiceStep
  <1>3. CASE ClearReloadPending(u)
    BY <1>3, <1>a, UnitKeepsAck DEF ClearReloadPending, ServiceStep
  <1>4. CASE ClearTimesOut(u)
    BY <1>4, <1>a, UnitKeepsAck DEF ClearTimesOut, fileVars, ServiceStep
  <1>5. CASE UnitMarksFailClosed(u)
    <2>1. faults' \in 0 .. MaxFaults /\ closed' \in BOOLEAN
      BY <1>5, <1>a, <1>b DEF UnitMarksFailClosed, WriteClosed
    <2> QED BY <1>5, <2>1, <1>a, UnitKeepsAck DEF UnitMarksFailClosed, UnitGoto, ServiceStep
  <1>6. CASE UnitStopsFailClosed(u)
    <2>1. faults' \in 0 .. MaxFaults /\ ServiceStep
      BY <1>6, <1>b DEF UnitStopsFailClosed, StopService, ServiceStep
    <2> QED BY <1>6, <2>1, <1>a, UnitKeepsAck DEF UnitStopsFailClosed, fileVars
  <1>7. CASE UnitDies(u)
    BY <1>7, <1>a, <1>b, UnitKeepsAck DEF UnitDies, fileVars, ServiceStep
  <1> QED BY <1>1, <1>2, <1>3, <1>4, <1>5, <1>6, <1>7 DEF UnitStep

\* The invariant of every behaviour.
LEMMA AckInvariant == Spec => []AckInv
  <1>1. Init => AckInv
    <2> SUFFICES ASSUME Init PROVE AckInv
      OBVIOUS
    <2>1. IdlePass \in Pass /\ IdleUnit \in Unit /\ IdleUnit.token = 0 /\ IdleUnit.pc = "idle"
      BY DEF IdlePass, Pass, HandlerPc, Kind, IdleUnit, Unit, UnitPc
    <2>2. TypeOK
      <3>1. 1 \in 1 .. MaxPlan /\ 1 \in 0 .. MaxPlan /\ 0 \in 0 .. MaxFaults /\ 0 \in 0 .. 0
        BY ReloadAssumption
      <3>2. hnd \in [Handlers -> Pass] /\ unit \in [Units -> Unit]
        BY <2>1 DEF Init
      <3> QED BY <3>1, <3>2 DEF Init, TypeOK
    <2>3. UnitsSeen
      BY <2>1 DEF Init, UnitsSeen
    <2> QED BY <2>2, <2>3 DEF AckInv
  <1>2. AckInv /\ [Next]_vars => AckInv'
    <2> SUFFICES ASSUME AckInv, [Next]_vars PROVE AckInv'
      OBVIOUS
    <2>1. CASE \E h \in Handlers : \E kind \in Kind : Begin(h, kind)
      BY <2>1, BeginAck
    <2>2. CASE \E h \in Handlers : HandlerStep(h) \/ HandlerDies(h)
      BY <2>2, HandlerAck
    <2>3. CASE \E u \in Units : UnitStep(u) \/ UnitDies(u)
      BY <2>3, UnitAck
    <2>4. CASE ServiceRestarts
      <3>1. service' \in 0 .. MaxPlan /\ loadedAt' \in 0 .. tokens' /\ loadedAt' >= loadedAt
        BY <2>4, ServiceType DEF ServiceRestarts, ServiceStep, AckInv, TypeOK, fileVars
      <3> QED BY <2>4, <3>1 DEF ServiceRestarts, AckInv, TypeOK, UnitsSeen, fileVars
    <2>5. CASE UNCHANGED vars
      BY <2>5 DEF vars, AckInv, TypeOK, UnitsSeen
    <2> QED BY <2>1, <2>2, <2>3, <2>4, <2>5 DEF Next
  <1> QED BY <1>1, <1>2, PTL DEF Spec

\* The files, the service, the passes and the units keep the form that the code
\* gives them, for any callers, units, failures and bounds.
THEOREM TypeCorrect == Spec => []TypeOK
  <1>1. AckInv => TypeOK
    BY DEF AckInv
  <1> QED BY <1>1, AckInvariant, PTL

\* A step that removes the marker is that of a unit whose token it holds, and that
\* unit's restart came after the marker: AckFollowsReload, for any number of callers
\* and units (_clear_reload_pending).
THEOREM AcksFollowReloads == Spec => AckFollowsReload
  <1>1. AckInv /\ [Next]_vars => [pending # 0 /\ pending' = 0 => pending <= loadedAt]_vars
    <2> SUFFICES ASSUME AckInv, Next, pending # 0, pending' = 0
                 PROVE  pending <= loadedAt
      BY DEF vars
    <2>1. ASSUME NEW u \in Units, ClearReloadPending(u) PROVE pending <= loadedAt
      <3>1. pending = unit[u].token /\ unit[u].pc = "clear"
        BY <2>1 DEF ClearReloadPending, UnitAt
      <3> QED BY <3>1 DEF AckInv, UnitsSeen
    <2>2. ASSUME NEW u \in Units, UnitStep(u) \/ UnitDies(u), ~ ClearReloadPending(u)
          PROVE  pending' = pending
      BY <2>2 DEF UnitStep, Restart, Probe, ClearTimesOut, UnitMarksFailClosed,
                  UnitStopsFailClosed, UnitDies, fileVars
    <2>3. ASSUME NEW h \in Handlers, NEW kind \in Kind, Begin(h, kind) PROVE pending' = pending
      BY <2>3 DEF Begin
    <2>4. ASSUME NEW h \in Handlers, HandlerStep(h) \/ HandlerDies(h)
          PROVE  pending' = pending \/ pending' = tokens + 1
      BY <2>4 DEF HandlerStep, PlanRefused, ApplyUnchanged, MarkReloadPending, SaveConfig,
                  NothingToRecover, RecoverStop, RecoverStart, RecoverProbe, RecoverUnlink,
                  NoReload, ReloadAcknowledged, Schedule, ScheduleReload, ScheduleFails,
                  MarkFailClosed, StopFailClosed, HandlerDies, fileVars
    <2>5. CASE ServiceRestarts
      BY <2>5 DEF ServiceRestarts, fileVars
    <2>6. tokens + 1 # 0
      BY DEF AckInv, TypeOK
    <2> QED BY <2>1, <2>2, <2>3, <2>4, <2>5, <2>6 DEF Next
  <1> QED BY <1>1, AckInvariant, PTL DEF Spec, AckFollowsReload

-----------------------------------------------------------------------------
(* A caller alone: between its marker and its new file nobody asks for a    *)
(* reload, so no unit carries a token whose file is not there yet.          *)

OneCaller == \A g, h \in Handlers : g = h

\* While the file is being replaced its token is the newest and no unit has it;
\* a unit that is past its restart and may still remove the marker has reloaded
\* what is in the file.
TokensMatch ==
    /\ \A h \in Handlers :
         hnd[h].pc = "save" =>
            pending # 0 /\ pending = tokens /\ \A u \in Units : unit[u].token # tokens
    /\ \A u \in Units :
         unit[u].pc \in {"probe", "clear"} /\ unit[u].token = pending
            => service \in {0, config}

StaleInv == AckInv /\ TokensMatch /\ StaleServiceIsMarked

\* Steps that touch neither the marker nor the configuration.
LEMMA QuietStep ==
  ASSUME StaleInv, UNCHANGED <<config, pending, tokens>>, ServiceStep,
         \A h \in Handlers : hnd'[h].pc = "save" =>
            hnd[h].pc = "save" /\ \A u \in Units : unit'[u].token \in {unit[u].token, 0},
         \A u \in Units : unit'[u].pc \in {"probe", "clear"} =>
            Loads \/ (unit[u].pc \in {"probe", "clear"} /\ unit'[u].token = unit[u].token)
  PROVE  TokensMatch' /\ StaleServiceIsMarked'
  <1>1. service' = service \/ service' \in {0, config}
    BY DEF ServiceStep, svcVars, Stops, Loads
  <1>2. StaleServiceIsMarked'
    BY <1>1 DEF StaleInv, StaleServiceIsMarked
  <1>3. ASSUME NEW h \in Handlers, hnd'[h].pc = "save"
        PROVE  /\ pending' # 0 /\ pending' = tokens'
               /\ \A u \in Units : unit'[u].token # tokens'
    <2>1. pending # 0 /\ pending = tokens /\ \A u \in Units : unit[u].token # tokens
      BY <1>3 DEF StaleInv, TokensMatch
    <2> QED BY <1>3, <2>1
  <1>4. ASSUME NEW u \in Units, unit'[u].pc \in {"probe", "clear"}, unit'[u].token = pending'
        PROVE  service' \in {0, config'}
    <2>1. CASE Loads
      BY <2>1 DEF Loads
    <2>2. CASE unit[u].pc \in {"probe", "clear"} /\ unit'[u].token = unit[u].token
      BY <1>1, <1>4, <2>2 DEF StaleInv, TokensMatch
    <2> QED BY <1>4, <2>1, <2>2
  <1> QED BY <1>2, <1>3, <1>4 DEF TokensMatch

\* Steps of the caller: only its marker and its new file are not quiet.
LEMMA HandlerStale ==
  ASSUME StaleInv, OneCaller, NEW h \in Handlers,
         (\E kind \in Kind : Begin(h, kind)) \/ HandlerStep(h) \/ HandlerDies(h)
  PROVE  TokensMatch' /\ StaleServiceIsMarked'
  <1>t. /\ hnd \in [Handlers -> Pass] /\ unit \in [Units -> Unit] /\ tokens \in Nat
        /\ \A u \in Units : unit[u].token \in 0 .. tokens
    BY DEF StaleInv, AckInv, TypeOK, UnitsSeen
  <1>p. /\ hnd[h] \in Pass
        /\ \A pass : hnd' = [hnd EXCEPT ![h] = pass] => hnd'[h] = pass
    BY <1>t
  <1>q. \A pc, flag : /\ [hnd[h] EXCEPT !.pc = pc].pc = pc
                      /\ [hnd[h] EXCEPT !.pc = pc, !.needs = flag].pc = pc
                      /\ [hnd[h] EXCEPT !.pc = pc, !.again = flag].pc = pc
    BY <1>p DEF Pass
  <1>g. \A pc : Goto(h, pc) => hnd'[h].pc = pc
    BY <1>p, <1>q DEF Goto
  <1>r. Refused(h) => hnd'[h].pc = "mark"
    <2>1. Refused(h) => hnd'[h] = [hnd[h] EXCEPT !.pc = "mark", !.needs = FALSE]
      BY <1>t DEF Refused
    <2> QED BY <2>1, <1>q
  <1>d. Done(h) => hnd'[h].pc = "idle"
    BY <1>t DEF Done, IdlePass
  <1>e. Release(h) => hnd'[h].pc = "reload"
    BY <1>g DEF Release
  <1>1. CASE MarkReloadPending(h)
    <2>1. /\ pending' = tokens' /\ tokens' = tokens + 1 /\ pending' # 0
          /\ UNCHANGED <<config, service, unit>>
      BY <1>1, <1>t DEF MarkReloadPending, svcVars
    <2>2. \A u \in Units : unit'[u].token # tokens'
      BY <2>1, <1>t
    <2> QED BY <2>1, <2>2 DEF TokensMatch, StaleServiceIsMarked
  <1>2. CASE SaveConfig(h)
    <2>1. /\ pending # 0 /\ UNCHANGED <<pending, tokens, unit>>
          /\ \A u \in Units : unit[u].token # pending
      BY <1>2 DEF SaveConfig, AtStep, StaleInv, TokensMatch
    <2>2. hnd'[h].pc # "save"
      <3>1. CASE hnd' = [hnd EXCEPT ![h] = [@ EXCEPT !.pc = "recover", !.needs = TRUE]]
        <4>1. hnd'[h] = [hnd[h] EXCEPT !.pc = "recover", !.needs = TRUE]
          BY <3>1, <1>t
        <4> QED BY <4>1, <1>q
      <3> QED BY <1>2, <3>1, <1>r DEF SaveConfig
    <2> QED BY <2>1, <2>2 DEF TokensMatch, StaleServiceIsMarked, OneCaller
  <1>3. ASSUME UNCHANGED <<config, pending, tokens>>, ServiceStep, hnd'[h].pc # "save",
               unit' = unit \/ \E u \in Units : StartUnit(u)
        PROVE  TokensMatch' /\ StaleServiceIsMarked'
    <2>1. \A g \in Handlers : hnd'[g].pc # "save"
      BY <1>3 DEF OneCaller
    <2>2. \A u \in Units : unit'[u].pc \in {"probe", "clear"} =>
            unit[u].pc \in {"probe", "clear"} /\ unit'[u].token = unit[u].token
      BY <1>3, <1>t DEF StartUnit
    <2> QED BY <1>3, <2>1, <2>2, QuietStep
  <1>4. CASE \E kind \in Kind : Begin(h, kind)
    <2>1. hnd'[h].pc = "apply"
      BY <1>4, <1>p DEF Begin, IdlePass
    <2> QED BY <1>4, <2>1, <1>3 DEF Begin, ServiceStep
  <1>5. CASE PlanRefused(h) \/ ApplyUnchanged(h) \/ NothingToRecover(h) \/ HandlerDies(h)
    <2>1. hnd'[h].pc # "save"
      <3>1. CASE ApplyUnchanged(h)
        <4>1. hnd'[h] = [hnd[h] EXCEPT !.pc = "recover", !.needs = (pending # 0)]
          BY <3>1, <1>t DEF ApplyUnchanged
        <4> QED BY <4>1, <1>q
      <3> QED BY <1>5, <3>1, <1>r, <1>d, <1>e DEF PlanRefused, NothingToRecover, HandlerDies
    <2> QED BY <1>5, <2>1, <1>3
            DEF PlanRefused, ApplyUnchanged, NothingToRecover, HandlerDies, ServiceStep, fileVars
  <1>6. CASE RecoverStop(h) \/ RecoverStart(h) \/ RecoverProbe(h) \/ RecoverUnlink(h)
    <2>1. ServiceStep /\ UNCHANGED <<config, pending, tokens, unit>>
      BY <1>6 DEF RecoverStop, RecoverStart, Starts, RecoverProbe, RecoverUnlink, ServiceStep, fileVars
    <2>2. hnd'[h].pc # "save"
      BY <1>6, <1>g, <1>e DEF RecoverStop, RecoverStart, RecoverProbe, RecoverUnlink
    <2> QED BY <2>1, <2>2, <1>3
  <1>7. CASE NoReload(h) \/ ReloadAcknowledged(h)
    <2>1. hnd'[h].pc # "save"
      BY <1>7, <1>g, <1>d DEF NoReload, ReloadAcknowledged
    <2> QED BY <1>7, <2>1, <1>3 DEF NoReload, ReloadAcknowledged, ServiceStep, fileVars
  <1>8. CASE Schedule(h) \/ \E u \in Units : ScheduleFails(h, u)
    <2>1. /\ ServiceStep /\ UNCHANGED <<config, pending, tokens>>
          /\ unit' = unit \/ \E u \in Units : StartUnit(u)
      BY <1>8 DEF Schedule, ScheduleReload, ScheduleFails, ServiceStep, fileVars
    <2>2. hnd'[h].pc # "save"
      <3>1. ASSUME NEW u \in Units, ScheduleFails(h, u) PROVE hnd'[h].pc # "save"
        <4>1. hnd'[h] = [hnd[h] EXCEPT !.pc = "mark", !.again = (hnd[h].kind = "rotation")]
          BY <3>1, <1>t DEF ScheduleFails
        <4> QED BY <4>1, <1>q
      <3> QED BY <1>8, <3>1, <1>d DEF Schedule, ScheduleReload
    <2> QED BY <2>1, <2>2, <1>3
  <1>9. CASE MarkFailClosed(h) \/ StopFailClosed(h)
    <2>1. ServiceStep /\ UNCHANGED <<config, pending, tokens, unit>>
      BY <1>9 DEF MarkFailClosed, StopFailClosed, StopService, ServiceStep, fileVars
    <2>2. hnd'[h].pc # "save"
      <3>1. CASE MarkFailClosed(h)
        BY <3>1, <1>p, <1>q, <1>g, <1>d DEF MarkFailClosed
      <3>2. CASE StopFailClosed(h)
        <4>1. hnd[h].again => hnd'[h] = [hnd[h] EXCEPT !.pc = "mark", !.again = FALSE]
          BY <3>2, <1>t DEF StopFailClosed
        <4>2. ~hnd[h].again => Done(h)
          BY <3>2 DEF StopFailClosed
        <4> QED BY <4>1, <4>2, <1>q, <1>d
      <3> QED BY <1>9, <3>1, <3>2
    <2> QED BY <2>1, <2>2, <1>3
  <1> QED BY <1>1, <1>2, <1>4, <1>5, <1>6, <1>7, <1>8, <1>9 DEF HandlerStep

\* A quiet step of a unit.
LEMMA QuietUnitStep ==
  ASSUME StaleInv, NEW u \in Units, NEW job \in Unit,
         unit' = [unit EXCEPT ![u] = job],
         UNCHANGED <<config, pending, tokens, hnd>>, ServiceStep,
         job.token = unit[u].token \/ job.token = 0,
         \/ job.pc \notin {"probe", "clear"}
         \/ unit[u].pc \in {"probe", "clear"} /\ job.token = unit[u].token
         \/ Loads
  PROVE  TokensMatch' /\ StaleServiceIsMarked'
  <1>1. unit \in [Units -> Unit]
    BY DEF StaleInv, AckInv, TypeOK
  <1>2. \A v \in Units : unit'[v] = IF v = u THEN job ELSE unit[v]
    BY <1>1
  <1>3. \A h \in Handlers : hnd'[h].pc = "save" =>
            hnd[h].pc = "save" /\ \A v \in Units : unit'[v].token \in {unit[v].token, 0}
    BY <1>2
  <1>4. \A v \in Units : unit'[v].pc \in {"probe", "clear"} =>
            Loads \/ (unit[v].pc \in {"probe", "clear"} /\ unit'[v].token = unit[v].token)
    BY <1>2
  <1> QED BY <1>3, <1>4, QuietStep

\* Steps of a unit: only the removal of the marker is not quiet.
LEMMA UnitStale ==
  ASSUME StaleInv, NEW u \in Units, UnitStep(u) \/ UnitDies(u)
  PROVE  TokensMatch' /\ StaleServiceIsMarked'
  <1>t. /\ unit \in [Units -> Unit]
        /\ IdleUnit \in Unit /\ IdleUnit.token = 0 /\ IdleUnit.pc = "idle"
        /\ \A pc \in UnitPc : /\ [unit[u] EXCEPT !.pc = pc] \in Unit
                             /\ [unit[u] EXCEPT !.pc = pc].pc = pc
                             /\ [unit[u] EXCEPT !.pc = pc].token = unit[u].token
        /\ {"probe", "clear", "mark", "stop"} \subseteq UnitPc
    BY DEF StaleInv, AckInv, TypeOK, IdleUnit, Unit, UnitPc
  <1>2. CASE Restart(u)
    <2>1. PICK pc \in {"probe", "mark"} : UnitGoto(u, pc) /\ (pc = "probe" => Loads)
      BY <1>2 DEF Restart
    <2>2. ServiceStep /\ UNCHANGED <<config, pending, tokens, hnd>>
      BY <1>2 DEF Restart, ServiceStep, fileVars
    <2>3. unit' = [unit EXCEPT ![u] = [unit[u] EXCEPT !.pc = pc]]
      BY <2>1 DEF UnitGoto
    <2> QED BY <2>1, <2>2, <2>3, <1>t, QuietUnitStep
  <1>3. CASE Probe(u)
    <2>1. PICK pc \in {"clear", "mark"} : UnitGoto(u, pc)
      BY <1>3 DEF Probe
    <2>2. /\ ServiceStep /\ UNCHANGED <<config, pending, tokens, hnd>>
          /\ unit[u].pc \in {"probe", "clear"}
      BY <1>3 DEF Probe, UnitAt, ServiceStep, fileVars
    <2>3. unit' = [unit EXCEPT ![u] = [unit[u] EXCEPT !.pc = pc]]
      BY <2>1 DEF UnitGoto
    <2> QED BY <2>2, <2>3, <1>t, QuietUnitStep
  <1>4. CASE ClearReloadPending(u) /\ pending # unit[u].token
    BY <1>4, <1>t, QuietUnitStep DEF ClearReloadPending, ServiceStep
  <1>5. CASE ClearReloadPending(u) /\ pending = unit[u].token
    <2>1. /\ service \in {0, config} /\ pending' = 0
          /\ UNCHANGED <<service, config, tokens, hnd>>
      BY <1>5 DEF ClearReloadPending, UnitAt, StaleInv, TokensMatch, svcVars
    <2>2. \A h \in Handlers : hnd'[h].pc # "save"
      BY <1>5, <2>1 DEF ClearReloadPending, ConfigLocked, AtStep
    <2> QED BY <2>1, <2>2 DEF TokensMatch, StaleServiceIsMarked
  <1>6. CASE ClearTimesOut(u) \/ UnitDies(u)
    BY <1>6, <1>t, QuietUnitStep DEF ClearTimesOut, UnitDies, ServiceStep, fileVars
  <1>7. CASE UnitMarksFailClosed(u)
    <2>1. unit' = [unit EXCEPT ![u] = [unit[u] EXCEPT !.pc = "stop"]]
      BY <1>7 DEF UnitMarksFailClosed, UnitGoto
    <2> QED BY <1>7, <2>1, <1>t, QuietUnitStep DEF UnitMarksFailClosed, ServiceStep
  <1>8. CASE UnitStopsFailClosed(u)
    <2>1. ServiceStep /\ UNCHANGED <<config, pending, tokens, hnd>>
      BY <1>8 DEF UnitStopsFailClosed, StopService, ServiceStep, fileVars
    <2> QED BY <1>8, <2>1, <1>t, QuietUnitStep DEF UnitStopsFailClosed
  <1> QED BY <1>2, <1>3, <1>4, <1>5, <1>6, <1>7, <1>8 DEF UnitStep

\* With one caller at a time, a service that does not run the configuration on disk
\* has its marker, whatever fails and dies and however late units run
\* (_mark_reload_pending, _clear_reload_pending).
THEOREM NoReloadIsLost ==
  ASSUME OneCaller
  PROVE  Spec => []StaleServiceIsMarked
  <1>1. Init => TokensMatch /\ StaleServiceIsMarked
    BY DEF Init, TokensMatch, StaleServiceIsMarked, IdlePass, IdleUnit
  <1>2. ASSUME StaleInv, [Next]_vars PROVE TokensMatch' /\ StaleServiceIsMarked'
    <2>1. ASSUME NEW h \in Handlers,
                 (\E kind \in Kind : Begin(h, kind)) \/ HandlerStep(h) \/ HandlerDies(h)
          PROVE  TokensMatch' /\ StaleServiceIsMarked'
      BY <1>2, <2>1, HandlerStale
    <2>2. ASSUME NEW u \in Units, UnitStep(u) \/ UnitDies(u)
          PROVE  TokensMatch' /\ StaleServiceIsMarked'
      BY <1>2, <2>2, UnitStale
    <2>3. CASE ServiceRestarts
      BY <1>2, <2>3, QuietStep DEF ServiceRestarts, ServiceStep, fileVars
    <2>4. CASE UNCHANGED vars
      BY <1>2, <2>4 DEF vars, StaleInv, TokensMatch, StaleServiceIsMarked
    <2> QED BY <1>2, <2>1, <2>2, <2>3, <2>4 DEF Next
  <1>3. AckInv /\ TokensMatch /\ StaleServiceIsMarked /\ [Next]_vars
          => (TokensMatch /\ StaleServiceIsMarked)'
    BY <1>2 DEF StaleInv
  <1> QED BY <1>1, <1>3, AckInvariant, PTL DEF Spec

-----------------------------------------------------------------------------
(* A caller and a unit alone, and markers that can be written: a stopped    *)
(* service is marked.  A second unit may acknowledge the reload that failed *)
(* in the first, and a second caller may remove the fail-closed marker      *)
(* between its writing and the stop.                                        *)

OneUnit == \A u, v \in Units : u = v
MarkersAreWritten == "marker" \notin FaultKinds

HandlerAt(pc) == \E h \in Handlers : hnd[h].pc = pc

\* While a unit is at work its marker is there, a stop comes after the fail-closed
\* marker, and that marker only goes, as a reload is only acknowledged, while
\* something else speaks for a service that was stopped meanwhile.
StoppedInv ==
    /\ service # 0 \/ closed \/ pending # 0
    /\ \A u \in Units : unit[u].pc # "idle" => pending # 0
    /\ HandlerAt("stop") => closed
    /\ HandlerAt("unlink") => service # 0 \/ pending # 0
    /\ \A u \in Units :
         unit[u].pc = "clear" => service # 0 \/ (closed /\ ~HandlerAt("unlink"))

\* Where the steps of a caller lead.
LEMMA NextPc ==
  ASSUME hnd \in [Handlers -> Pass], NEW h \in Handlers
  PROVE  /\ \A pc : Goto(h, pc) => hnd'[h].pc = pc
         /\ Refused(h) => hnd'[h].pc = "mark"
         /\ Done(h) => hnd'[h].pc = "idle"
         /\ Release(h) => hnd'[h].pc = "reload"
         /\ \A kind \in Kind : Begin(h, kind) => hnd'[h].pc = "apply"
         /\ ApplyUnchanged(h) => hnd'[h].pc = "recover"
         /\ SaveConfig(h) => hnd'[h].pc \in {"recover", "mark"}
         /\ \A u \in Units : ScheduleFails(h, u) => hnd'[h].pc = "mark"
         /\ StopFailClosed(h) => hnd'[h].pc \in {"mark", "idle"}
  <1>1. /\ hnd[h] \in Pass
        /\ \A pass : hnd' = [hnd EXCEPT ![h] = pass] => hnd'[h] = pass
    OBVIOUS
  <1>2. \A pc, flag : /\ [hnd[h] EXCEPT !.pc = pc].pc = pc
                      /\ [hnd[h] EXCEPT !.pc = pc, !.needs = flag].pc = pc
                      /\ [hnd[h] EXCEPT !.pc = pc, !.again = flag].pc = pc
    BY <1>1 DEF Pass
  <1>3. \A pc : Goto(h, pc) => hnd'[h].pc = pc
    BY <1>1, <1>2 DEF Goto
  <1>4. Refused(h) => hnd'[h].pc = "mark"
    <2>1. Refused(h) => hnd'[h] = [hnd[h] EXCEPT !.pc = "mark", !.needs = FALSE]
      BY DEF Refused
    <2> QED BY <2>1, <1>2
  <1>5. Done(h) => hnd'[h].pc = "idle"
    BY <1>1 DEF Done, IdlePass
  <1>6. Release(h) => hnd'[h].pc = "reload"
    BY <1>3 DEF Release
  <1>7. ASSUME NEW kind \in Kind, Begin(h, kind) PROVE hnd'[h].pc = "apply"
    BY <1>7, <1>1 DEF Begin, IdlePass
  <1>8. ApplyUnchanged(h) => hnd'[h].pc = "recover"
    <2>1. ApplyUnchanged(h)
            => hnd'[h] = [hnd[h] EXCEPT !.pc = "recover", !.needs = (pending # 0)]
      BY DEF ApplyUnchanged
    <2>2. \A flag : [hnd[h] EXCEPT !.pc = "recover", !.needs = flag].pc = "recover"
      BY <1>2
    <2> QED BY <2>1, <2>2
  <1>9. ASSUME SaveConfig(h) PROVE hnd'[h].pc \in {"recover", "mark"}
    <2>1. CASE hnd' = [hnd EXCEPT ![h] = [@ EXCEPT !.pc = "recover", !.needs = TRUE]]
      <3>1. hnd'[h] = [hnd[h] EXCEPT !.pc = "recover", !.needs = TRUE]
        BY <2>1
      <3> QED BY <3>1, <1>2
    <2> QED BY <1>9, <2>1, <1>4 DEF SaveConfig
  <1>10. ASSUME NEW u \in Units, ScheduleFails(h, u) PROVE hnd'[h].pc = "mark"
    <2>1. hnd'[h] = [hnd[h] EXCEPT !.pc = "mark", !.again = (hnd[h].kind = "rotation")]
      BY <1>10 DEF ScheduleFails
    <2> QED BY <2>1, <1>2
  <1>11. StopFailClosed(h) => hnd'[h].pc \in {"mark", "idle"}
    <2>1. ASSUME StopFailClosed(h), hnd[h].again PROVE hnd'[h].pc = "mark"
      <3>1. hnd'[h] = [hnd[h] EXCEPT !.pc = "mark", !.again = FALSE]
        BY <2>1 DEF StopFailClosed
      <3> QED BY <3>1, <1>2
    <2>2. ASSUME StopFailClosed(h), ~hnd[h].again PROVE hnd'[h].pc = "idle"
      BY <2>2, <1>5 DEF StopFailClosed
    <2> QED BY <2>1, <2>2
  <1> QED BY <1>3, <1>4, <1>5, <1>6, <1>7, <1>8, <1>9, <1>10, <1>11

\* Steps of a caller that stop nothing and remove neither marker.
LEMMA CalmStep ==
  ASSUME StoppedInv, OneCaller, NEW h \in Handlers, hnd'[h].pc \notin {"stop", "unlink"},
         service' = service \/ service' # 0,
         pending' = pending \/ pending' # 0,
         closed' = closed,
         \A u \in Units : /\ unit'[u].pc # "idle" => unit[u].pc # "idle" \/ pending' # 0
                          /\ unit'[u].pc = "clear" => unit[u].pc = "clear"
  PROVE  StoppedInv'
  <1>1. ~HandlerAt("stop")' /\ ~HandlerAt("unlink")'
    BY DEF HandlerAt, OneCaller
  <1> QED BY <1>1 DEF StoppedInv

LEMMA HandlerStopped ==
  ASSUME AckInv, StoppedInv, OneCaller, MarkersAreWritten, NEW h \in Handlers,
         (\E kind \in Kind : Begin(h, kind)) \/ HandlerStep(h) \/ HandlerDies(h)
  PROVE  StoppedInv'
  <1>t. hnd \in [Handlers -> Pass] /\ unit \in [Units -> Unit] /\ config # 0 /\ tokens + 1 # 0
    BY DEF AckInv, TypeOK
  <1>h. \A pc : HandlerAt(pc) <=> hnd[h].pc = pc
    BY DEF HandlerAt, OneCaller
  <1>n. \A pc : HandlerAt(pc)' <=> hnd'[h].pc = pc
    BY DEF HandlerAt, OneCaller
  <1>1. CASE \E kind \in Kind : Begin(h, kind)
    <2>1. UNCHANGED <<pending, closed, service, unit>> /\ hnd'[h].pc = "apply"
      BY <1>1, <1>t, NextPc DEF Begin, svcVars
    <2> QED BY <2>1, CalmStep
  <1>2. CASE PlanRefused(h) \/ ApplyUnchanged(h) \/ NothingToRecover(h) \/ HandlerDies(h)
    <2>1. UNCHANGED <<pending, closed, service, unit>>
      BY <1>2 DEF PlanRefused, ApplyUnchanged, NothingToRecover, HandlerDies, svcVars, fileVars
    <2>2. hnd'[h].pc \in {"mark", "recover", "reload", "idle"}
      BY <1>2, <1>t, NextPc DEF PlanRefused, NothingToRecover, HandlerDies
    <2> QED BY <2>1, <2>2, CalmStep
  <1>3. CASE MarkReloadPending(h)
    <2>1. UNCHANGED <<closed, service, unit>> /\ pending' # 0
      BY <1>3, <1>t DEF MarkReloadPending, svcVars
    <2>2. hnd'[h].pc \in {"save", "mark"}
      BY <1>3, <1>t, NextPc DEF MarkReloadPending
    <2> QED BY <2>1, <2>2, CalmStep
  <1>4. CASE SaveConfig(h)
    <2>1. UNCHANGED <<pending, closed, service, unit>>
      BY <1>4 DEF SaveConfig, svcVars
    <2>2. hnd'[h].pc \in {"recover", "mark"}
      BY <1>4, <1>t, NextPc
    <2> QED BY <2>1, <2>2, CalmStep
  <1>5. CASE RecoverStop(h)
    <2>1. closed' /\ UNCHANGED <<pending, unit>>
      BY <1>5 DEF RecoverStop, fileVars
    <2>2. hnd'[h].pc \in {"start", "reload"}
      BY <1>5, <1>t, NextPc DEF RecoverStop
    <2> QED BY <2>1, <2>2, <1>n DEF StoppedInv
  <1>6. CASE RecoverStart(h)
    <2>1. /\ UNCHANGED <<pending, closed, unit>>
          /\ service' = service \/ service' # 0
      BY <1>6, <1>t DEF RecoverStart, Starts, Loads, svcVars, fileVars
    <2>2. hnd'[h].pc \in {"probe", "reload"}
      BY <1>6, <1>t, NextPc DEF RecoverStart
    <2> QED BY <2>1, <2>2, CalmStep
  <1>7. CASE RecoverProbe(h)
    <2>1. UNCHANGED <<pending, closed, service, unit>>
      BY <1>7 DEF RecoverProbe, fileVars, svcVars
    <2>2. hnd'[h].pc = "reload" \/ (hnd'[h].pc = "unlink" /\ service # 0)
      BY <1>7, <1>t, NextPc DEF RecoverProbe
    <2> QED BY <2>1, <2>2, <1>n DEF StoppedInv
  <1>8. CASE RecoverUnlink(h)
    <2>1. UNCHANGED <<pending, service, unit>> /\ hnd[h].pc = "unlink"
      BY <1>8 DEF RecoverUnlink, AtStep, svcVars
    <2>2. hnd'[h].pc = "reload"
      BY <1>8, <1>t, NextPc DEF RecoverUnlink
    <2> QED BY <2>1, <2>2, <1>h, <1>n DEF StoppedInv
  <1>9. CASE NoReload(h) \/ ReloadAcknowledged(h)
    <2>1. UNCHANGED <<pending, closed, service, unit>>
      BY <1>9 DEF NoReload, ReloadAcknowledged, svcVars, fileVars
    <2>2. hnd'[h].pc \in {"mark", "idle"}
      BY <1>9, <1>t, NextPc DEF NoReload, ReloadAcknowledged
    <2> QED BY <2>1, <2>2, CalmStep
  <1>10. CASE Schedule(h) \/ \E u \in Units : ScheduleFails(h, u)
    <2>1. /\ UNCHANGED <<pending, closed, service>> /\ pending # 0
          /\ unit' = unit \/ \E u \in Units : StartUnit(u)
      BY <1>10 DEF Schedule, ScheduleReload, ScheduleFails, svcVars, fileVars
    <2>2. hnd'[h].pc \in {"mark", "idle"}
      BY <1>10, <1>t, NextPc DEF Schedule, ScheduleReload
    <2>3. \A u \in Units : unit'[u].pc = "clear" => unit[u].pc = "clear"
      BY <2>1, <1>t DEF StartUnit
    <2> QED BY <2>1, <2>2, <2>3, CalmStep
  <1>11. CASE MarkFailClosed(h)
    <2>1. closed' /\ UNCHANGED <<pending, unit>>
      BY <1>11 DEF MarkFailClosed, WriteClosed, Fault, MarkersAreWritten
    <2>2. hnd'[h].pc = "stop"
      BY <1>11, <1>t, NextPc DEF MarkFailClosed
    <2> QED BY <2>1, <2>2, <1>n DEF StoppedInv
  <1>12. CASE StopFailClosed(h)
    <2>1. closed' /\ UNCHANGED <<pending, unit>>
      BY <1>12, <1>h DEF StopFailClosed, AtStep, fileVars, StoppedInv
    <2>2. hnd'[h].pc \in {"mark", "idle"}
      BY <1>12, <1>t, NextPc
    <2> QED BY <2>1, <2>2, <1>n DEF StoppedInv
  <1> QED BY <1>1, <1>2, <1>3, <1>4, <1>5, <1>6, <1>7, <1>8, <1>9, <1>10, <1>11, <1>12
          DEF HandlerStep

\* The unit is the only one: nobody else acknowledges the reload it is to make.
LEMMA UnitStopped ==
  ASSUME AckInv, StoppedInv, OneUnit, MarkersAreWritten, NEW u \in Units,
         UnitStep(u) \/ UnitDies(u)
  PROVE  StoppedInv'
  <1>t. unit \in [Units -> Unit] /\ config # 0 /\ \A v \in Units : v = u
    BY DEF AckInv, TypeOK, OneUnit
  <1>g. \A pc : UnitGoto(u, pc) => unit'[u].pc = pc
    BY <1>t DEF UnitGoto, Unit
  <1>i. unit' = [unit EXCEPT ![u] = IdleUnit] => unit'[u].pc = "idle"
    BY <1>t DEF IdleUnit
  <1>h. hnd' = hnd => \A pc : HandlerAt(pc)' <=> HandlerAt(pc)
    BY DEF HandlerAt
  <1>1. CASE Restart(u)
    <2>1. UNCHANGED <<pending, closed, hnd>> /\ pending # 0
      BY <1>1 DEF Restart, UnitAt, fileVars, StoppedInv
    <2>2. unit'[u].pc \in {"probe", "mark"}
      BY <1>1, <1>g DEF Restart
    <2> QED BY <2>1, <2>2, <1>t, <1>h DEF StoppedInv
  <1>2. CASE Probe(u)
    <2>1. UNCHANGED <<pending, closed, service, hnd>> /\ pending # 0
      BY <1>2 DEF Probe, UnitAt, fileVars, svcVars, StoppedInv
    <2>2. unit'[u].pc = "mark" \/ (unit'[u].pc = "clear" /\ service # 0)
      BY <1>2, <1>g DEF Probe
    <2> QED BY <2>1, <2>2, <1>t, <1>h DEF StoppedInv
  <1>3. CASE ClearReloadPending(u)
    <2>1. /\ UNCHANGED <<closed, service, hnd>>
          /\ service # 0 \/ (closed /\ ~HandlerAt("unlink"))
      BY <1>3 DEF ClearReloadPending, UnitAt, svcVars, StoppedInv
    <2>2. unit'[u].pc = "idle"
      BY <1>3, <1>i DEF ClearReloadPending
    <2> QED BY <2>1, <2>2, <1>t, <1>h DEF StoppedInv
  <1>4. CASE ClearTimesOut(u) \/ UnitDies(u)
    <2>1. UNCHANGED <<pending, closed, service, hnd>> /\ unit'[u].pc = "idle"
      BY <1>4, <1>i DEF ClearTimesOut, UnitDies, fileVars, svcVars
    <2> QED BY <2>1, <1>t, <1>h DEF StoppedInv
  <1>5. CASE UnitMarksFailClosed(u)
    <2>1. closed' /\ UNCHANGED <<pending, service, hnd>> /\ pending # 0
      BY <1>5 DEF UnitMarksFailClosed, UnitAt, WriteClosed, Fault, MarkersAreWritten, svcVars,
                  StoppedInv
    <2>2. unit'[u].pc = "stop"
      BY <1>5, <1>g DEF UnitMarksFailClosed
    <2> QED BY <2>1, <2>2, <1>t, <1>h DEF StoppedInv
  <1>6. CASE UnitStopsFailClosed(u)
    <2>1. UNCHANGED <<pending, closed, hnd>> /\ pending # 0 /\ unit'[u].pc = "idle"
      BY <1>6, <1>i DEF UnitStopsFailClosed, UnitAt, fileVars, StoppedInv
    <2> QED BY <2>1, <1>t, <1>h DEF StoppedInv
  <1> QED BY <1>1, <1>2, <1>3, <1>4, <1>5, <1>6 DEF UnitStep

\* With one caller, one unit and markers that can be written, a stopped service always
\* has a marker of either kind, whatever else fails and whoever dies between the marker
\* and the stop, so that the next pass starts it (stop_fail_closed, recover_if_pending,
\* _run_reload_worker).
THEOREM StopsAreMarked ==
  ASSUME OneCaller, OneUnit, MarkersAreWritten
  PROVE  Spec => []StoppedServiceIsMarked
  <1>1. Init => StoppedInv
    BY DEF Init, StoppedInv, HandlerAt, IdlePass, IdleUnit
  <1>2. ASSUME AckInv, StoppedInv, [Next]_vars PROVE StoppedInv'
    <2>1. ASSUME NEW h \in Handlers,
                 (\E kind \in Kind : Begin(h, kind)) \/ HandlerStep(h) \/ HandlerDies(h)
          PROVE  StoppedInv'
      BY <1>2, <2>1, HandlerStopped
    <2>2. ASSUME NEW u \in Units, UnitStep(u) \/ UnitDies(u) PROVE StoppedInv'
      BY <1>2, <2>2, UnitStopped
    <2>3. CASE ServiceRestarts
      <3>1. UNCHANGED <<pending, closed, hnd, unit>> /\ service' # 0
        BY <1>2, <2>3 DEF ServiceRestarts, Loads, fileVars, AckInv, TypeOK
      <3> QED BY <1>2, <3>1 DEF StoppedInv, HandlerAt
    <2>4. CASE UNCHANGED vars
      BY <1>2, <2>4 DEF vars, StoppedInv, HandlerAt
    <2> QED BY <1>2, <2>1, <2>2, <2>3, <2>4 DEF Next
  <1>3. StoppedInv => StoppedServiceIsMarked
    BY DEF StoppedInv, StoppedServiceIsMarked
  <1>4. AckInv /\ StoppedInv /\ [Next]_vars => StoppedInv'
    BY <1>2
  <1> QED BY <1>1, <1>3, <1>4, AckInvariant, PTL DEF Spec

-----------------------------------------------------------------------------
(* The meter of TUIC, on its side of MCStaticProxies.                        *)

MeterPc == {"idle", "observe", "decide", "mark", "save", "start", "reload"}
Sample == [pc : MeterPc, conf : Int, intent : BOOLEAN, live : BOOLEAN, same : BOOLEAN, count : Nat]
WorkerPc == {"idle", "check", "restart", "probe", "ack"}

MeterTyped ==
    /\ canonical \in Int /\ conf \in Int /\ intent \in BOOLEAN
    /\ server \in [up : BOOLEAN, cred : Int, count : Nat]
    /\ check \in [live : BOOLEAN, cred : Int, count : Nat, left : Int]
    /\ meter \in Sample
    /\ worker \in [Units -> [pc : WorkerPc, mine : BOOLEAN]]
    /\ charged \in [Meter!Creds -> Nat] /\ moved \in [Meter!Creds -> Nat]

\* A file about to be written has its intent on record, and no worker under way holds
\* that intent.
SavesAreAsked ==
    edit = "save" \/ meter.pc = "save" => intent /\ \A u \in Units : ~worker[u].mine
\* A request writes the file while the limiter is at rest.
EditsAlone == edit \in {"mark", "save"} => meter.pc = "idle"
\* The run serves what the file names when no reload is asked for, and when the worker
\* that is about to acknowledge one has restarted it.
RunServesConf ==
    ~intent \/ (\E u \in Units : worker[u].mine /\ worker[u].pc \in {"probe", "ack"}) =>
        server.cred = conf
\* While the limiter samples, the file it has read stands, and no reload is asked for anew.
ReadingHolds ==
    meter.pc \in {"observe", "decide"} => meter.conf = conf /\ (intent => meter.intent)

\* The bytes of the run that the checkpoint, or the sample, has not seen.
Uncounted(seen, count) == server.count - (IF seen THEN count ELSE 0)
Of(c, cred, n) == IF c = cred THEN n ELSE 0

\* What was charged, with what the run has moved since the checkpoint, has moved.
CheckCounts ==
    /\ check.live => check.cred = server.cred /\ check.count <= server.count
    /\ \A c \in Meter!Creds :
         charged[c] + Of(c, server.cred, Uncounted(check.live, check.count)) <= moved[c]
\* So it has with what the sample brings, and what the run has moved since the sample.
SampleCounts ==
    meter.pc = "decide" /\ (meter.same \/ ~meter.intent) =>
        /\ meter.same => check.count <= meter.count
        /\ meter.live => meter.count <= server.count /\ Meter!Bound = server.cred
        /\ \A c \in Meter!Creds : charged[c] + Of(c, Meter!Bound, Meter!NewBytes)
             + Of(c, server.cred, Uncounted(meter.live, meter.count)) <= moved[c]

FileInv == SavesAreAsked /\ EditsAlone /\ RunServesConf /\ ReadingHolds
CountInv == CheckCounts /\ SampleCounts
MeterInv == MeterTyped /\ FileInv /\ CountInv

\* systemd starts a run, on the configuration that is there; the checkpoint's run and
\* the sample's are over.
LEMMA StartsAreTyped ==
  ASSUME MeterTyped, NEW following \in Sample, Meter!Start(following)
  PROVE  /\ server' = [up |-> TRUE, cred |-> conf, count |-> 0]
         /\ server' \in [up : BOOLEAN, cred : Int, count : Nat]
         /\ check' \in [live : BOOLEAN, cred : Int, count : Nat, left : Int]
         /\ ~check'.live /\ check'.cred = check.cred /\ check'.count = check.count
         /\ meter' \in Sample
         /\ meter'.pc = following.pc /\ meter'.conf = following.conf
         /\ meter'.intent = following.intent /\ ~meter'.live
         /\ meter'.same = following.same /\ meter'.count = following.count
  BY DEF MeterTyped, Meter!Start, Sample

LEMMA StartsKeepCounts ==
  ASSUME MeterTyped, CountInv, NEW following \in Sample, Meter!Start(following),
         following = meter \/ following.pc = "reload",
         UNCHANGED <<charged, moved>>
  PROVE  CountInv'
  <1>1. server'.cred = conf /\ server'.count = 0 /\ ~check'.live
        /\ check'.cred = check.cred /\ check'.count = check.count
        /\ meter'.pc = following.pc /\ meter'.conf = following.conf
        /\ meter'.intent = following.intent /\ ~meter'.live
        /\ meter'.same = following.same /\ meter'.count = following.count
    BY StartsAreTyped
  <1>2. Meter!Creds' = Meter!Creds
    BY DEF Meter!Creds
  <1>3. \A c \in Meter!Creds : charged[c] \in Nat /\ moved[c] \in Nat
    BY DEF MeterTyped
  <1>4. server.count \in Nat /\ check.count \in Nat /\ meter.count \in Nat
    BY DEF MeterTyped, Sample
  <1>5. CheckCounts'
    <2>1. ASSUME NEW c \in Meter!Creds PROVE charged[c] <= moved[c]
      BY <1>3, <1>4, <2>1 DEF CountInv, CheckCounts, Of, Uncounted
    <2> QED BY <1>1, <1>2, <1>3, <2>1 DEF CheckCounts, Of, Uncounted
  <1>6. SampleCounts'
    <2> SUFFICES ASSUME meter'.pc = "decide", meter'.same \/ ~meter'.intent
                 PROVE  /\ meter'.same => check'.count <= meter'.count
                        /\ \A c \in Meter!Creds : charged[c] + Of(c, Meter!Bound', Meter!NewBytes')
                             + Of(c, conf, 0) <= moved[c]
      BY <1>1, <1>2 DEF SampleCounts, Of, Uncounted
    <2>1. following = meter
      BY <1>1
    <2>2. Meter!Bound' = Meter!Bound /\ Meter!NewBytes' = Meter!NewBytes
      BY <1>1, <2>1 DEF Meter!Bound, Meter!NewBytes, Meter!SameRun
    <2>3. /\ meter.same => check.count <= meter.count
          /\ meter.live => meter.count <= server.count
          /\ \A c \in Meter!Creds : charged[c] + Of(c, Meter!Bound, Meter!NewBytes)
               + Of(c, server.cred, Uncounted(meter.live, meter.count)) <= moved[c]
      BY <1>1, <2>1 DEF CountInv, SampleCounts
    <2>4. Meter!NewBytes \in Nat
      BY <2>3, <1>4 DEF Meter!NewBytes, Meter!SameRun
    <2>5. Uncounted(meter.live, meter.count) \in Nat
      BY <2>3, <1>4 DEF Uncounted
    <2>6. ASSUME NEW c \in Meter!Creds
          PROVE  charged[c] + Of(c, Meter!Bound, Meter!NewBytes) + 0 <= moved[c]
      BY <2>3, <2>4, <2>5, <1>3 DEF Of
    <2> QED BY <1>1, <2>1, <2>2, <2>3, <2>6, <1>3 DEF Of
  <1> QED BY <1>5, <1>6 DEF CountInv

\* A step that leaves the run, the checkpoint's run and the ghosts alone, and whose sample
\* is the one there was or none.
LEMMA KeptCounts ==
  ASSUME CountInv,
         server'.cred = server.cred, server'.count = server.count,
         check'.live = check.live, check'.cred = check.cred, check'.count = check.count,
         meter' = meter \/ meter'.pc # "decide",
         UNCHANGED <<charged, moved>>
  PROVE  CountInv'
  <1>1. Meter!Creds' = Meter!Creds
    BY DEF Meter!Creds
  <1>2. CheckCounts'
    BY <1>1 DEF CountInv, CheckCounts, Uncounted, Of
  <1>3. CASE meter' = meter
    <2>1. Meter!Bound' = Meter!Bound /\ Meter!NewBytes' = Meter!NewBytes
      BY <1>3 DEF Meter!Bound, Meter!NewBytes, Meter!SameRun
    <2> QED BY <1>1, <1>2, <1>3, <2>1 DEF CountInv, SampleCounts, Uncounted, Of
  <1>4. CASE meter'.pc # "decide"
    BY <1>2, <1>4 DEF CountInv, SampleCounts
  <1> QED BY <1>3, <1>4

LEMMA IdleSample ==
  Meter!IdleMeter \in Sample /\ Meter!IdleMeter.pc = "idle"
  BY DEF Meter!IdleMeter, Sample, MeterPc

\* A worker goes on: it holds what it held, or nothing once it is done.
LEMMA UnitMoves ==
  ASSUME MeterTyped, NEW u \in Units, NEW pc \in WorkerPc, Meter!UnitGoto(u, pc)
  PROVE  /\ worker' \in [Units -> [pc : WorkerPc, mine : BOOLEAN]]
         /\ worker'[u].pc = pc
         /\ \A v \in Units : worker'[v].mine => worker[v].mine
         /\ \A v \in Units : v # u => worker'[v] = worker[v]
  BY DEF MeterTyped, Meter!UnitGoto, Meter!IdleUnit, WorkerPc

\* A step that leaves the file and its intent alone, and takes no file to be written.
LEMMA KeptFiles ==
  ASSUME FileInv, UNCHANGED <<conf, intent>>,
         edit' = "save" \/ meter'.pc = "save" =>
           /\ edit = "save" \/ meter.pc = "save"
           /\ \A v \in Units : worker'[v].mine => worker[v].mine,
         edit' \in {"mark", "save"} => meter'.pc = "idle",
         \/ server'.cred = conf
         \/ /\ server'.cred = server.cred
            /\ \A v \in Units : worker'[v].mine /\ worker'[v].pc \in {"probe", "ack"} =>
                                  worker[v].mine /\ worker[v].pc \in {"probe", "ack"},
         meter'.pc \in {"observe", "decide"} => meter'.conf = conf /\ (intent => meter'.intent)
  PROVE  FileInv'
  BY DEF FileInv, SavesAreAsked, EditsAlone, RunServesConf, ReadingHolds

\* A request that begins, and one that dies.
LEMMA EditEndsKeep ==
  ASSUME MeterInv, Meter!BeginEdit \/ Meter!EditDies
  PROVE  MeterInv'
  <1>1. UNCHANGED <<conf, intent, server, check, meter, worker, charged, moved>>
        /\ edit' # "save" /\ (edit' = "mark" => meter.pc = "idle") /\ canonical' \in Int
    BY DEF MeterInv, MeterTyped, Meter!BeginEdit, Meter!EditDies, Meter!KeepConf,
       Meter!KeepPlan, Meter!KeepGhosts
  <1>2. MeterTyped'
    BY <1>1 DEF MeterInv, MeterTyped, Meter!Creds
  <1>3. FileInv'
    BY <1>1, KeptFiles DEF MeterInv, FileInv, SavesAreAsked, ReadingHolds
  <1>4. CountInv'
    BY <1>1, KeptCounts DEF MeterInv
  <1> QED BY <1>2, <1>3, <1>4 DEF MeterInv

\* Asking for a reload takes the intent from the workers.
LEMMA AskTakes ==
  ASSUME MeterTyped, Meter!Ask
  PROVE  /\ intent'
         /\ worker' \in [Units -> [pc : WorkerPc, mine : BOOLEAN]]
         /\ \A v \in Units : ~worker'[v].mine
  BY DEF MeterTyped, Meter!Ask

LEMMA DesiredIsInt ==
  ASSUME MeterTyped PROVE Meter!Desired \in Int
  BY DEF MeterTyped, Meter!Desired

LEMMA EditMarkKeeps ==
  ASSUME MeterInv, Meter!EditMark
  PROVE  MeterInv'
  <1>1. UNCHANGED <<canonical, conf, server, check, meter, charged, moved>>
        /\ meter.pc = "idle" /\ edit' \in {"save", "reload"}
    BY DEF Meter!EditMark, Meter!KeepPlan, Meter!KeepGhosts, MeterInv, FileInv, EditsAlone
  <1>2. CASE edit' = "reload" /\ UNCHANGED <<intent, worker>>
    <2>1. MeterTyped'
      BY <1>1, <1>2 DEF MeterInv, MeterTyped, Meter!Creds
    <2>2. FileInv'
      BY <1>1, <1>2, KeptFiles DEF MeterInv, FileInv, SavesAreAsked, ReadingHolds
    <2> QED BY <1>1, <2>1, <2>2, KeptCounts DEF MeterInv
  <1>3. CASE Meter!Ask /\ edit' = "save"
    <2>1. /\ intent' /\ worker' \in [Units -> [pc : WorkerPc, mine : BOOLEAN]]
          /\ \A v \in Units : ~worker'[v].mine
      BY <1>3, AskTakes DEF MeterInv
    <2>2. MeterTyped'
      BY <1>1, <1>3, <2>1 DEF MeterInv, MeterTyped, Meter!Creds, Meter!Ask
    <2>3. FileInv'
      BY <1>1, <1>3, <2>1 DEF FileInv, SavesAreAsked, EditsAlone, RunServesConf, ReadingHolds
    <2> QED BY <1>1, <2>2, <2>3, KeptCounts DEF MeterInv
  <1> QED BY <1>2, <1>3 DEF Meter!EditMark

LEMMA EditSaveKeeps ==
  ASSUME MeterInv, Meter!EditSave
  PROVE  MeterInv'
  <1>1. UNCHANGED <<canonical, intent, server, check, meter, worker, charged, moved>>
        /\ conf' = Meter!Desired /\ edit = "save" /\ edit' = "reload"
    BY DEF Meter!EditSave, Meter!KeepPlan, Meter!KeepGhosts
  <1>2. MeterTyped'
    BY <1>1, DesiredIsInt DEF MeterInv, MeterTyped, Meter!Creds
  <1>3. FileInv'
    BY <1>1 DEF MeterInv, FileInv, SavesAreAsked, EditsAlone, RunServesConf, ReadingHolds
  <1> QED BY <1>1, <1>2, <1>3, KeptCounts DEF MeterInv

\* The reload that a request or the tick asks for: a worker may take the intent.
LEMMA ReloadTakes ==
  ASSUME MeterTyped, Meter!Reload
  PROVE  /\ edit # "save" /\ meter.pc # "save"
         /\ server' \in [up : BOOLEAN, cred : Int, count : Nat]
         /\ server'.cred = server.cred /\ server'.count = server.count
         /\ worker' \in [Units -> [pc : WorkerPc, mine : BOOLEAN]]
         /\ \A v \in Units : worker'[v].mine /\ worker'[v].pc \in {"probe", "ack"} =>
                               worker[v].mine /\ worker[v].pc \in {"probe", "ack"}
  <1>1. CASE UNCHANGED <<worker, server>>
    BY <1>1 DEF MeterTyped, Meter!Reload
  <1>2. CASE Meter!Stop /\ UNCHANGED worker
    BY <1>2 DEF MeterTyped, Meter!Reload, Meter!Stop
  <1>3. ASSUME NEW u \in Units, worker[u].pc = "idle",
               worker' = [worker EXCEPT ![u] = [pc |-> "check", mine |-> TRUE]],
               UNCHANGED server
        PROVE  /\ worker' \in [Units -> [pc : WorkerPc, mine : BOOLEAN]]
               /\ \A v \in Units : worker'[v].mine /\ worker'[v].pc \in {"probe", "ack"} =>
                                     worker[v].mine /\ worker[v].pc \in {"probe", "ack"}
    BY <1>3 DEF MeterTyped, WorkerPc
  <1> QED BY <1>1, <1>2, <1>3 DEF MeterTyped, Meter!Reload

LEMMA ReloadKeeps ==
  ASSUME MeterInv, Meter!EditReload \/ Meter!TickReload
  PROVE  MeterInv'
  <1>1. UNCHANGED <<canonical, conf, intent, check, charged, moved>>
    BY DEF Meter!EditReload, Meter!TickReload, Meter!KeepConf, Meter!KeepPlan, Meter!KeepGhosts
  <1>2. /\ server' \in [up : BOOLEAN, cred : Int, count : Nat]
        /\ server'.cred = server.cred /\ server'.count = server.count
        /\ worker' \in [Units -> [pc : WorkerPc, mine : BOOLEAN]]
        /\ \A v \in Units : worker'[v].mine /\ worker'[v].pc \in {"probe", "ack"} =>
                              worker[v].mine /\ worker[v].pc \in {"probe", "ack"}
    BY ReloadTakes DEF MeterInv, MeterTyped, Meter!EditReload, Meter!TickReload
  <1>3. meter' = meter \/ meter' = Meter!IdleMeter
    BY DEF Meter!EditReload, Meter!TickReload
  <1>4. meter' \in Sample
    BY <1>3, IdleSample DEF MeterInv, MeterTyped
  <1>5. /\ edit' = "save" \/ meter'.pc = "save" =>
             /\ edit = "save" \/ meter.pc = "save"
             /\ \A v \in Units : worker'[v].mine => worker[v].mine
        /\ edit' \in {"mark", "save"} => meter'.pc = "idle"
    BY ReloadTakes DEF Meter!EditReload, Meter!TickReload, Meter!IdleMeter, MeterInv
  <1>6. meter'.pc \in {"observe", "decide"} => meter' = meter
    BY <1>3 DEF Meter!IdleMeter
  <1>7. MeterTyped'
    BY <1>1, <1>2, <1>4 DEF MeterInv, MeterTyped, Meter!Creds
  <1>8. FileInv'
    BY <1>1, <1>2, <1>5, <1>6, KeptFiles DEF MeterInv, FileInv, ReadingHolds
  <1>9. CountInv'
    BY <1>1, <1>2, <1>3, KeptCounts DEF MeterInv, Meter!IdleMeter
  <1> QED BY <1>7, <1>8, <1>9 DEF MeterInv

\* A worker that goes on without touching the intent.
LEMMA WorkerKeeps ==
  ASSUME MeterInv, NEW u \in Units,
         Meter!WorkerCheck(u) \/ Meter!WorkerProbe(u) \/ Meter!WorkerDies(u)
  PROVE  MeterInv'
  <1>1. UNCHANGED <<canonical, conf, intent, check, meter, edit, charged, moved>>
    BY DEF Meter!WorkerCheck, Meter!WorkerProbe, Meter!WorkerDies, Meter!KeepConf,
       Meter!KeepPlan, Meter!KeepGhosts
  <1>2. /\ server' \in [up : BOOLEAN, cred : Int, count : Nat]
        /\ server'.cred = server.cred /\ server'.count = server.count
    BY DEF MeterInv, MeterTyped, Meter!WorkerCheck, Meter!WorkerProbe, Meter!WorkerDies,
       Meter!Stop
  <1>3. PICK pc \in {"idle", "restart", "ack"} :
          Meter!UnitGoto(u, pc) /\ (pc = "ack" => worker[u].pc = "probe")
    BY DEF Meter!WorkerCheck, Meter!WorkerProbe, Meter!WorkerDies, Meter!UnitAt
  <1>4. /\ worker' \in [Units -> [pc : WorkerPc, mine : BOOLEAN]]
        /\ worker'[u].pc = pc
        /\ \A v \in Units : worker'[v].mine => worker[v].mine
        /\ \A v \in Units : v # u => worker'[v] = worker[v]
    BY <1>3, UnitMoves DEF MeterInv, WorkerPc
  <1>5. \A v \in Units : worker'[v].mine /\ worker'[v].pc \in {"probe", "ack"} =>
                           worker[v].mine /\ worker[v].pc \in {"probe", "ack"}
    BY <1>3, <1>4
  <1>6. MeterTyped'
    BY <1>1, <1>2, <1>4 DEF MeterInv, MeterTyped, Meter!Creds
  <1>7. FileInv'
    BY <1>1, <1>2, <1>4, <1>5, KeptFiles DEF MeterInv, FileInv, EditsAlone, ReadingHolds
  <1> QED BY <1>1, <1>2, <1>6, <1>7, KeptCounts DEF MeterInv

\* The limiter's sample is what it was, but that its run may be over.
LEMMA OverdueSample ==
  ASSUME MeterInv, Meter!Start(meter), UNCHANGED <<canonical, conf, intent, edit, charged, moved>>,
         worker' \in [Units -> [pc : WorkerPc, mine : BOOLEAN]],
         \A v \in Units : worker'[v].mine => worker[v].mine
  PROVE  MeterInv'
  <1>1. meter \in Sample
    BY DEF MeterInv, MeterTyped
  <1>2. /\ server'.cred = conf
        /\ server' \in [up : BOOLEAN, cred : Int, count : Nat]
        /\ check' \in [live : BOOLEAN, cred : Int, count : Nat, left : Int]
        /\ meter' \in Sample
        /\ meter'.pc = meter.pc /\ meter'.conf = meter.conf /\ meter'.intent = meter.intent
    BY <1>1, StartsAreTyped DEF MeterInv
  <1>3. MeterTyped'
    BY <1>2 DEF MeterInv, MeterTyped, Meter!Creds
  <1>4. FileInv'
    BY <1>2, KeptFiles DEF MeterInv, FileInv, EditsAlone, ReadingHolds
  <1> QED BY <1>1, <1>3, <1>4, StartsKeepCounts DEF MeterInv

LEMMA WorkerRestartKeeps ==
  ASSUME MeterInv, NEW u \in Units, Meter!WorkerRestart(u)
  PROVE  MeterInv'
  <1>1. UNCHANGED <<canonical, conf, intent, edit, charged, moved>>
    BY DEF Meter!WorkerRestart, Meter!KeepConf, Meter!KeepPlan, Meter!KeepGhosts
  <1>2. CASE Meter!Start(meter) /\ Meter!UnitGoto(u, "probe")
    BY <1>1, <1>2, UnitMoves, OverdueSample DEF MeterInv, WorkerPc
  <1>3. CASE Meter!Stop /\ Meter!UnitGoto(u, "idle") /\ UNCHANGED <<check, meter>>
    <2>1. /\ server' \in [up : BOOLEAN, cred : Int, count : Nat]
          /\ server'.cred = server.cred /\ server'.count = server.count
      BY <1>3 DEF MeterInv, MeterTyped, Meter!Stop
    <2>2. /\ worker' \in [Units -> [pc : WorkerPc, mine : BOOLEAN]]
          /\ worker'[u].pc = "idle"
          /\ \A v \in Units : worker'[v].mine => worker[v].mine
          /\ \A v \in Units : v # u => worker'[v] = worker[v]
      BY <1>3, UnitMoves DEF MeterInv, WorkerPc
    <2>3. \A v \in Units : worker'[v].mine /\ worker'[v].pc \in {"probe", "ack"} =>
                             worker[v].mine /\ worker[v].pc \in {"probe", "ack"}
      BY <2>2
    <2>4. MeterTyped'
      BY <1>1, <1>3, <2>1, <2>2 DEF MeterInv, MeterTyped, Meter!Creds
    <2>5. FileInv'
      BY <1>1, <1>3, <2>1, <2>2, <2>3, KeptFiles DEF MeterInv, FileInv, EditsAlone, ReadingHolds
    <2> QED BY <1>1, <1>3, <2>1, <2>4, <2>5, KeptCounts DEF MeterInv
  <1> QED BY <1>2, <1>3 DEF Meter!WorkerRestart

LEMMA ServerRestartsKeeps ==
  ASSUME MeterInv, Meter!ServerRestarts
  PROVE  MeterInv'
  BY OverdueSample
     DEF Meter!ServerRestarts, Meter!KeepConf, Meter!KeepPlan, Meter!KeepGhosts, MeterInv,
         MeterTyped

\* A worker acknowledges the intent it holds: the run it has restarted serves the file.
LEMMA AckKeeps ==
  ASSUME MeterInv, NEW u \in Units, Meter!Ack(u)
  PROVE  MeterInv'
  <1>1. UNCHANGED <<canonical, conf, server, check, meter, edit, charged, moved>>
        /\ worker[u].pc = "ack" /\ edit # "save" /\ meter.pc # "save"
        /\ intent' = (intent /\ ~worker[u].mine)
    BY DEF Meter!Ack, Meter!UnitAt, Meter!KeepPlan, Meter!KeepGhosts
  <1>2. /\ worker' \in [Units -> [pc : WorkerPc, mine : BOOLEAN]]
        /\ worker'[u].pc = "idle"
        /\ \A v \in Units : worker'[v].mine => worker[v].mine
        /\ \A v \in Units : v # u => worker'[v] = worker[v]
    BY UnitMoves DEF MeterInv, Meter!Ack, WorkerPc
  <1>3. \A v \in Units : worker'[v].mine /\ worker'[v].pc \in {"probe", "ack"} =>
                           worker[v].mine /\ worker[v].pc \in {"probe", "ack"}
    BY <1>2
  <1>4. intent' \in BOOLEAN /\ (intent' => intent)
    BY <1>1 DEF MeterInv, MeterTyped
  <1>5. MeterTyped'
    BY <1>1, <1>2, <1>4 DEF MeterInv, MeterTyped, Meter!Creds
  <1>6. RunServesConf'
    <2>1. CASE intent /\ worker[u].mine
      BY <1>1, <2>1 DEF MeterInv, FileInv, RunServesConf
    <2>2. CASE ~intent \/ ~worker[u].mine
      BY <1>1, <1>3, <2>2 DEF MeterInv, FileInv, RunServesConf
    <2> QED BY <2>1, <2>2
  <1>7. FileInv'
    BY <1>1, <1>4, <1>6 DEF MeterInv, FileInv, SavesAreAsked, EditsAlone, ReadingHolds
  <1> QED BY <1>1, <1>5, <1>7, KeptCounts DEF MeterInv

\* A tick that only goes on to its next step, or stops, or marks a failure.
LEMMA GoneOn ==
  ASSUME MeterInv, UNCHANGED <<canonical, conf, intent, edit, worker, charged, moved>>,
         server' \in [up : BOOLEAN, cred : Int, count : Nat],
         server'.cred = server.cred, server'.count = server.count,
         check' \in [live : BOOLEAN, cred : Int, count : Nat, left : Int],
         check'.live = check.live, check'.cred = check.cred, check'.count = check.count,
         meter' \in Sample, meter'.pc \notin {"decide", "save"},
         edit \in {"mark", "save"} => meter'.pc = "idle",
         meter'.pc = "observe" => meter'.conf = conf /\ (intent => meter'.intent)
  PROVE  MeterInv'
  <1>1. MeterTyped'
    BY DEF MeterInv, MeterTyped, Meter!Creds
  <1>2. FileInv'
    BY KeptFiles DEF MeterInv, FileInv, SavesAreAsked
  <1>3. CountInv'
    BY KeptCounts DEF MeterInv
  <1> QED BY <1>1, <1>2, <1>3 DEF MeterInv

LEMMA MarkSample ==
  /\ [Meter!IdleMeter EXCEPT !.pc = "mark"] \in Sample
  /\ [Meter!IdleMeter EXCEPT !.pc = "mark"].pc = "mark"
  <1> DEFINE m == [pc |-> "mark", conf |-> 0, intent |-> FALSE, live |-> FALSE, same |-> FALSE,
                   count |-> 0]
  <1>1. m \in Sample /\ m.pc = "mark"
    BY DEF Sample, MeterPc
  <1>2. [Meter!IdleMeter EXCEPT !.pc = "mark"] = m
    <2>1. ASSUME NEW k, k = [Meter!IdleMeter EXCEPT !.pc = "mark"] PROVE k = m
      BY <2>1 DEF Meter!IdleMeter
    <2> QED BY <2>1, Zenon
  <1> HIDE DEF m
  <1> QED BY <1>1, <1>2

\* The wait for a reload is the checkpoint's, not its counters'.
LEMMA WaitingIsTyped ==
  ASSUME MeterTyped
  PROVE  /\ Meter!Waiting \in [live : BOOLEAN, cred : Int, count : Nat, left : Int]
         /\ Meter!Waiting.live = check.live /\ Meter!Waiting.cred = check.cred
         /\ Meter!Waiting.count = check.count
  BY MeterAssumption DEF MeterTyped, Meter!Waiting

LEMMA RefuseIsTyped ==
  ASSUME MeterTyped, Meter!Refuse
  PROVE  /\ server' \in [up : BOOLEAN, cred : Int, count : Nat]
         /\ server'.cred = server.cred /\ server'.count = server.count
         /\ meter' \in Sample /\ meter'.pc = "mark"
  BY MarkSample DEF MeterTyped, Meter!Refuse, Meter!Stop

LEMMA DeferIsTyped ==
  ASSUME MeterTyped, Meter!Defer
  PROVE  /\ UNCHANGED server
         /\ check' \in [live : BOOLEAN, cred : Int, count : Nat, left : Int]
         /\ check'.live = check.live /\ check'.cred = check.cred
         /\ check'.count = check.count
         /\ meter' \in Sample /\ meter'.pc = "mark"
  <1>1. meter' \in Sample /\ meter'.pc = "mark"
    BY MarkSample DEF Meter!Defer
  <1> QED BY <1>1, WaitingIsTyped DEF Meter!Defer

LEMMA TickReadKeeps ==
  ASSUME MeterInv, Meter!TickRead
  PROVE  MeterInv'
  <1>1. UNCHANGED <<canonical, conf, intent, edit, worker, charged, moved>>
        /\ edit \notin {"mark", "save"}
    BY DEF Meter!TickRead, Meter!KeepConf, Meter!KeepPlan, Meter!KeepGhosts, Meter!UsageLockFree
  <1>2. CASE Meter!Refuse /\ UNCHANGED check
    BY <1>1, <1>2, RefuseIsTyped, GoneOn DEF MeterInv, MeterTyped
  <1>3. CASE /\ check' = IF intent THEN Meter!Waiting ELSE check
             /\ meter' = [Meter!IdleMeter EXCEPT !.pc = "observe", !.conf = conf, !.intent = intent]
             /\ UNCHANGED server
    <2>1. meter' = [pc |-> "observe", conf |-> conf, intent |-> intent, live |-> FALSE,
                    same |-> FALSE, count |-> 0]
      BY <1>3 DEF Meter!IdleMeter
    <2>2. meter' \in Sample /\ meter'.pc = "observe" /\ meter'.conf = conf /\ meter'.intent = intent
      BY <2>1 DEF Sample, MeterPc, MeterInv, MeterTyped
    <2>3. check' \in [live : BOOLEAN, cred : Int, count : Nat, left : Int]
          /\ check'.live = check.live /\ check'.cred = check.cred /\ check'.count = check.count
      BY <1>3, WaitingIsTyped DEF MeterInv, MeterTyped
    <2> QED BY <1>1, <1>3, <2>2, <2>3, GoneOn DEF MeterInv, MeterTyped
  <1> QED BY <1>2, <1>3 DEF Meter!TickRead

LEMMA TickObserveKeeps ==
  ASSUME MeterInv, Meter!TickObserve
  PROVE  MeterInv'
  <1>1. UNCHANGED <<canonical, conf, intent, edit, worker, charged, moved>>
        /\ edit \notin {"mark", "save"} /\ meter.pc = "observe"
    BY DEF Meter!TickObserve, Meter!MeterAt, Meter!KeepConf, Meter!KeepPlan, Meter!KeepGhosts,
       MeterInv, FileInv, EditsAlone
  <1>2. CASE Meter!Refuse /\ UNCHANGED check
    BY <1>1, <1>2, RefuseIsTyped, GoneOn DEF MeterInv, MeterTyped
  <1>3. CASE Meter!Defer
    BY <1>1, <1>3, DeferIsTyped, GoneOn DEF MeterInv, MeterTyped
  <1>4. CASE /\ meter' = [meter EXCEPT !.pc = "decide", !.live = TRUE, !.same = check.live,
                                       !.count = server.count]
             /\ UNCHANGED <<check, server>>
    <2>1. meter' = [pc |-> "decide", conf |-> meter.conf, intent |-> meter.intent, live |-> TRUE,
                    same |-> check.live, count |-> server.count]
      BY <1>4 DEF MeterInv, MeterTyped, Sample
    <2>2. /\ meter' \in Sample /\ meter'.pc = "decide" /\ meter'.conf = meter.conf
          /\ (meter'.intent <=> meter.intent) /\ meter'.live /\ (meter'.same <=> check.live)
          /\ meter'.count = server.count
      BY <2>1 DEF Sample, MeterPc, MeterInv, MeterTyped
    <2> HIDE <1>4, <2>1
    <2>3. UNCHANGED <<check, server>>
      BY <1>4
    <2>4. MeterTyped'
      BY <1>1, <2>2, <2>3 DEF MeterInv, MeterTyped, Meter!Creds
    <2>5. FileInv'
      BY <1>1, <2>2, <2>3, KeptFiles DEF MeterInv, FileInv, ReadingHolds
    <2>6. CheckCounts'
      BY <1>1, <2>3 DEF MeterInv, CountInv, CheckCounts, Of, Uncounted, Meter!Creds
    <2>7. server.count \in Nat /\ check.count \in Nat
          /\ (\A c \in Meter!Creds : charged[c] \in Nat /\ moved[c] \in Nat)
      BY DEF MeterInv, MeterTyped
    <2>8. SampleCounts'
      <3>1. CASE check.live
        <4>1. Meter!Bound' = server.cred /\ Meter!NewBytes' = server.count - check.count
              /\ check.count <= server.count
          BY <2>2, <2>3, <3>1
             DEF Meter!Bound, Meter!NewBytes, Meter!SameRun, MeterInv, CountInv, CheckCounts
        <4>2. \A c \in Meter!Creds :
                charged[c] + Of(c, server.cred, server.count - check.count) <= moved[c]
          BY <3>1 DEF MeterInv, CountInv, CheckCounts, Uncounted
        <4> QED BY <1>1, <2>2, <2>3, <2>7, <4>1, <4>2
                   DEF SampleCounts, Of, Uncounted, Meter!Creds
      <3>2. CASE ~check.live /\ ~meter.intent
        <4>1. server.cred = conf /\ meter.conf = conf
          BY <1>1, <3>2 DEF MeterInv, FileInv, ReadingHolds, RunServesConf
        <4>2. Meter!Bound' = server.cred /\ Meter!NewBytes' = server.count
          BY <2>2, <2>3, <3>2, <4>1 DEF Meter!Bound, Meter!NewBytes, Meter!SameRun
        <4>3. \A c \in Meter!Creds : charged[c] + Of(c, server.cred, server.count) <= moved[c]
          BY <2>7, <3>2 DEF MeterInv, CountInv, CheckCounts, Uncounted
        <4> QED BY <1>1, <2>2, <2>3, <2>7, <3>2, <4>2, <4>3
                   DEF SampleCounts, Of, Uncounted, Meter!Creds
      <3>3. CASE ~check.live /\ meter.intent
        BY <2>2, <3>3 DEF SampleCounts
      <3> QED BY <3>1, <3>2, <3>3
    <2> QED BY <2>4, <2>5, <2>6, <2>8 DEF MeterInv, CountInv
  <1> QED BY <1>2, <1>3, <1>4 DEF Meter!TickObserve

\* A credit adds to the entry of its credential, and to no other.
LEMMA CreditedFunction ==
  \A f \in [Meter!Creds -> Nat], n \in Nat : \A b, g :
     g = [f EXCEPT ![b] = @ + n] =>
        g \in [Meter!Creds -> Nat] /\ \A c \in Meter!Creds : g[c] = f[c] + Of(c, b, n)
  <1> SUFFICES ASSUME NEW f \in [Meter!Creds -> Nat], NEW n \in Nat, NEW b, NEW g,
                      g = [f EXCEPT ![b] = @ + n]
               PROVE  g \in [Meter!Creds -> Nat] /\ \A c \in Meter!Creds : g[c] = f[c] + Of(c, b, n)
    OBVIOUS
  <1>1. ASSUME NEW c \in Meter!Creds PROVE g[c] \in Nat /\ g[c] = f[c] + Of(c, b, n)
    <2>1. CASE c = b
      BY <2>1 DEF Of
    <2>2. CASE c # b
      BY <2>2 DEF Of
    <2> QED BY <2>1, <2>2
  <1>2. g = [c \in Meter!Creds |-> g[c]]
    OBVIOUS
  <1> QED BY <1>1, <1>2

\* The sample is credited and becomes the checkpoint.
LEMMA CreditKeeps ==
  ASSUME MeterInv, meter.pc = "decide", ~Meter!MustDefer,
         UNCHANGED <<canonical, conf, intent, edit, worker, server, moved>>,
         charged' = IF Meter!Bound # 0 /\ Meter!Bound = canonical
                    THEN [charged EXCEPT ![Meter!Bound] = @ + Meter!NewBytes] ELSE charged,
         check' = [live |-> meter.live, cred |-> Meter!Bound, count |-> meter.count,
                   left |-> IF meter.intent THEN check.left ELSE Meter!Unknown],
         meter' \in Sample, meter'.pc = "mark"
  PROVE  MeterInv'
  <1>1. meter.same \/ ~meter.intent
    BY DEF Meter!MustDefer, Meter!SameRun
  <1>2. /\ meter.same => check.count <= meter.count
        /\ meter.live => meter.count <= server.count /\ Meter!Bound = server.cred
        /\ \A c \in Meter!Creds : charged[c] + Of(c, Meter!Bound, Meter!NewBytes)
             + Of(c, server.cred, Uncounted(meter.live, meter.count)) <= moved[c]
    BY <1>1 DEF MeterInv, CountInv, SampleCounts
  <1>3. server.count \in Nat /\ check.count \in Nat /\ meter.count \in Nat
        /\ (\A c \in Meter!Creds : charged[c] \in Nat /\ moved[c] \in Nat)
        /\ meter.live \in BOOLEAN /\ meter.same \in BOOLEAN /\ Meter!Bound \in Int
        /\ check.left \in Int /\ charged \in [Meter!Creds -> Nat]
    BY DEF MeterInv, MeterTyped, Sample, Meter!Bound
  <1>4. Meter!NewBytes \in Nat
    BY <1>2, <1>3 DEF Meter!NewBytes, Meter!SameRun
  <1>5. charged' \in [Meter!Creds -> Nat]
        /\ \A c \in Meter!Creds : charged'[c] <= charged[c] + Of(c, Meter!Bound, Meter!NewBytes)
    <2>1. CASE charged' = charged
      <3>1. ASSUME NEW c \in Meter!Creds
            PROVE  charged[c] <= charged[c] + Of(c, Meter!Bound, Meter!NewBytes)
        BY <1>3, <1>4, Of(c, Meter!Bound, Meter!NewBytes) \in Nat DEF Of
      <3> QED BY <1>3, <2>1, <3>1
    <2>2. CASE charged' = [charged EXCEPT ![Meter!Bound] = @ + Meter!NewBytes]
      <3>1. charged \in [Meter!Creds -> Nat] /\ Meter!NewBytes \in Nat
        BY <1>3, <1>4
      <3>2. \A b, g : g = [charged EXCEPT ![b] = @ + Meter!NewBytes] =>
              /\ g \in [Meter!Creds -> Nat]
              /\ \A c \in Meter!Creds : g[c] = charged[c] + Of(c, b, Meter!NewBytes)
        BY <3>1, CreditedFunction, Zenon
      <3>3. /\ charged' \in [Meter!Creds -> Nat]
            /\ \A c \in Meter!Creds : charged'[c] = charged[c] + Of(c, Meter!Bound, Meter!NewBytes)
        BY <2>2, <3>2, Zenon
      <3>4. \A c \in Meter!Creds : charged'[c] <= charged[c] + Of(c, Meter!Bound, Meter!NewBytes)
        <4>1. ASSUME NEW c \in Meter!Creds
              PROVE  charged'[c] <= charged[c] + Of(c, Meter!Bound, Meter!NewBytes)
          <5>1. charged'[c] \in Nat /\ charged'[c] = charged[c] + Of(c, Meter!Bound, Meter!NewBytes)
            BY <3>3
          <5> QED BY <5>1
        <4> QED BY <4>1
      <3> QED BY <3>3, <3>4
    <2> QED BY <2>1, <2>2
  <1>6. Meter!Unknown \in Int
    BY MeterAssumption DEF Meter!Unknown
  <1>7. /\ check' \in [live : BOOLEAN, cred : Int, count : Nat, left : Int]
        /\ (check'.live <=> meter.live) /\ check'.cred = Meter!Bound /\ check'.count = meter.count
    BY <1>3, <1>6
  <1>8. MeterTyped'
    BY <1>5, <1>7 DEF MeterInv, MeterTyped, Meter!Creds
  <1>9. FileInv'
    BY KeptFiles DEF MeterInv, FileInv, SavesAreAsked, EditsAlone
  <1>10. CheckCounts'
    <2>1. check'.live => check'.cred = server'.cred /\ check'.count <= server'.count
      BY <1>2, <1>7
    <2>2. ASSUME NEW c \in Meter!Creds
          PROVE  charged'[c] + Of(c, server.cred, Uncounted(meter.live, meter.count)) <= moved[c]
      <3>1. charged'[c] \in Nat /\ Of(c, Meter!Bound, Meter!NewBytes) \in Nat
            /\ Of(c, server.cred, Uncounted(meter.live, meter.count)) \in Int
        BY <1>3, <1>4, <1>5 DEF Of, Uncounted
      <3>2. /\ charged'[c] <= charged[c] + Of(c, Meter!Bound, Meter!NewBytes)
            /\ charged[c] + Of(c, Meter!Bound, Meter!NewBytes)
                 + Of(c, server.cred, Uncounted(meter.live, meter.count)) <= moved[c]
        BY <1>2, <1>5
      <3> HIDE DEF Of, Uncounted, Meter!NewBytes
      <3> QED BY <1>3, <3>1, <3>2
    <2>3. Uncounted(check.live, check.count)' = Uncounted(meter.live, meter.count)
      BY <1>7 DEF Uncounted
    <2> QED BY <2>1, <2>2, <2>3 DEF CheckCounts, Of, Meter!Creds
  <1>11. SampleCounts'
    BY DEF SampleCounts
  <1> QED BY <1>8, <1>9, <1>10, <1>11 DEF MeterInv, CountInv

LEMMA TickDecideKeeps ==
  ASSUME MeterInv, Meter!TickDecide
  PROVE  MeterInv'
  <1>1. UNCHANGED <<canonical, conf, intent, edit, worker, moved>>
        /\ edit \notin {"mark", "save"} /\ meter.pc = "decide"
    BY DEF Meter!TickDecide, Meter!MeterAt, Meter!KeepConf, Meter!KeepPlan, MeterInv, FileInv,
       EditsAlone
  <1>2. CASE Meter!Refuse /\ UNCHANGED <<check, charged>>
    BY <1>1, <1>2, RefuseIsTyped, GoneOn DEF MeterInv, MeterTyped
  <1>3. CASE Meter!Defer /\ UNCHANGED charged
    BY <1>1, <1>3, DeferIsTyped, GoneOn DEF MeterInv, MeterTyped
  <1>4. CASE ~Meter!MustDefer /\ ~Meter!MustRefuse
    <2>1. meter' \in Sample /\ meter'.pc = "mark"
      BY <1>4, MarkSample DEF Meter!TickDecide
    <2> QED BY <1>1, <1>4, <2>1, CreditKeeps DEF Meter!TickDecide
  <1> QED BY <1>2, <1>3, <1>4 DEF Meter!TickDecide

LEMMA NextSample ==
  ASSUME MeterTyped, NEW pc \in MeterPc, NEW m, m = [meter EXCEPT !.pc = pc]
  PROVE  m \in Sample /\ m.pc = pc
  BY DEF MeterTyped, Sample

LEMMA TickMarkKeeps ==
  ASSUME MeterInv, Meter!TickMark
  PROVE  MeterInv'
  <1>1. UNCHANGED <<canonical, conf, server, check, edit, charged, moved>>
        /\ edit \notin {"mark", "save"}
    BY DEF Meter!TickMark, Meter!MeterAt, Meter!KeepPlan, Meter!KeepGhosts, MeterInv, FileInv,
       EditsAlone
  <1>2. CASE meter' = [meter EXCEPT !.pc = "start"] /\ UNCHANGED <<intent, worker>>
    <2>1. meter' \in Sample /\ meter'.pc = "start"
      BY <1>2, NextSample DEF MeterInv, MeterPc
    <2> QED BY <1>1, <1>2, <2>1, GoneOn DEF MeterInv, MeterTyped
  <1>3. CASE Meter!Ask /\ meter' = [meter EXCEPT !.pc = "save"]
    <2>1. meter' \in Sample /\ meter'.pc = "save"
      BY <1>3, NextSample DEF MeterInv, MeterPc
    <2>2. /\ intent' /\ worker' \in [Units -> [pc : WorkerPc, mine : BOOLEAN]]
          /\ \A v \in Units : ~worker'[v].mine
      BY <1>3, AskTakes DEF MeterInv
    <2>3. intent' \in BOOLEAN
      BY <1>3 DEF Meter!Ask
    <2>4. MeterTyped'
      BY <1>1, <2>1, <2>2, <2>3 DEF MeterInv, MeterTyped, Meter!Creds
    <2>5. FileInv'
      BY <1>1, <2>1, <2>2 DEF FileInv, SavesAreAsked, EditsAlone, RunServesConf, ReadingHolds
    <2> QED BY <1>1, <2>1, <2>4, <2>5, KeptCounts DEF MeterInv
  <1> QED BY <1>2, <1>3 DEF Meter!TickMark

LEMMA TickSaveKeeps ==
  ASSUME MeterInv, Meter!TickSave
  PROVE  MeterInv'
  <1>1. UNCHANGED <<canonical, intent, server, check, edit, worker, charged, moved>>
        /\ conf' = Meter!Desired /\ meter.pc = "save" /\ edit \notin {"mark", "save"}
    BY DEF Meter!TickSave, Meter!MeterAt, Meter!KeepPlan, Meter!KeepGhosts, MeterInv, FileInv,
       EditsAlone
  <1>2. meter' \in Sample /\ meter'.pc = "start"
    BY NextSample DEF MeterInv, MeterPc, Meter!TickSave
  <1>3. MeterTyped'
    BY <1>1, <1>2, DesiredIsInt DEF MeterInv, MeterTyped, Meter!Creds
  <1>4. FileInv'
    BY <1>1, <1>2 DEF MeterInv, FileInv, SavesAreAsked, EditsAlone, RunServesConf, ReadingHolds
  <1> QED BY <1>1, <1>2, <1>3, <1>4, KeptCounts DEF MeterInv

LEMMA TickStartKeeps ==
  ASSUME MeterInv, Meter!TickStart
  PROVE  MeterInv'
  <1>1. UNCHANGED <<canonical, conf, intent, edit, worker, charged, moved>>
        /\ edit \notin {"mark", "save"}
    BY DEF Meter!TickStart, Meter!MeterAt, Meter!KeepConf, Meter!KeepPlan, Meter!KeepGhosts,
       MeterInv, FileInv, EditsAlone
  <1>2. [meter EXCEPT !.pc = "reload"] \in Sample /\ [meter EXCEPT !.pc = "reload"].pc = "reload"
    BY NextSample DEF MeterInv, MeterPc
  <1>3. CASE Meter!Start([meter EXCEPT !.pc = "reload"])
    <2> DEFINE following == [meter EXCEPT !.pc = "reload"]
    <2>1. following \in Sample /\ following.pc = "reload" /\ Meter!Start(following)
      BY <1>2, <1>3
    <2> HIDE DEF following
    <2>2. /\ server'.cred = conf
          /\ server' \in [up : BOOLEAN, cred : Int, count : Nat]
          /\ check' \in [live : BOOLEAN, cred : Int, count : Nat, left : Int]
          /\ meter' \in Sample /\ meter'.pc = "reload"
      BY <2>1, StartsAreTyped DEF MeterInv
    <2>3. MeterTyped'
      BY <1>1, <2>2 DEF MeterInv, MeterTyped, Meter!Creds
    <2>4. FileInv'
      BY <1>1, <2>2, KeptFiles DEF MeterInv
    <2> QED BY <1>1, <2>1, <2>3, <2>4, StartsKeepCounts DEF MeterInv
  <1>4. CASE /\ meter' = [meter EXCEPT !.pc = "reload"] /\ UNCHANGED check
             /\ server' \in {server, [server EXCEPT !.up = FALSE]}
    <2>1. /\ server' \in [up : BOOLEAN, cred : Int, count : Nat]
          /\ server'.cred = server.cred /\ server'.count = server.count
      BY <1>4 DEF MeterInv, MeterTyped
    <2> QED BY <1>1, <1>2, <1>4, <2>1, GoneOn DEF MeterInv, MeterTyped
  <1> QED BY <1>3, <1>4 DEF Meter!TickStart

LEMMA TickDiesKeeps ==
  ASSUME MeterInv, Meter!TickDies
  PROVE  MeterInv'
  BY IdleSample, GoneOn
     DEF Meter!TickDies, Meter!KeepConf, Meter!KeepPlan, Meter!KeepGhosts, MeterInv,
         MeterTyped

LEMMA ClockKeeps ==
  ASSUME MeterInv, Meter!Clock
  PROVE  MeterInv'
  <1>1. UNCHANGED <<canonical, conf, intent, server, meter, edit, worker, charged, moved>>
    BY DEF Meter!Clock, Meter!KeepConf, Meter!KeepPlan, Meter!KeepGhosts
  <1>2. /\ check' \in [live : BOOLEAN, cred : Int, count : Nat, left : Int]
        /\ check'.live = check.live /\ check'.cred = check.cred /\ check'.count = check.count
    BY DEF MeterInv, MeterTyped, Meter!Clock
  <1>3. MeterTyped'
    BY <1>1, <1>2 DEF MeterInv, MeterTyped, Meter!Creds
  <1>4. FileInv'
    BY <1>1, KeptFiles DEF MeterInv, FileInv, EditsAlone, ReadingHolds
  <1> QED BY <1>1, <1>2, <1>3, <1>4, KeptCounts DEF MeterInv

\* Bytes move under the credential of the run, and are not counted yet.
LEMMA MoveKeeps ==
  ASSUME MeterInv, Meter!Move
  PROVE  MeterInv'
  <1>1. UNCHANGED <<canonical, conf, intent, check, meter, edit, worker, charged>>
    BY DEF Meter!Move, Meter!KeepConf, Meter!KeepPlan
  <1>2. /\ server' \in [up : BOOLEAN, cred : Int, count : Nat]
        /\ server'.cred = server.cred /\ server'.count = server.count + 1
    BY DEF MeterInv, MeterTyped, Meter!Move
  <1>3. moved' \in [Meter!Creds -> Nat]
        /\ \A c \in Meter!Creds : moved'[c] = moved[c] + Of(c, server.cred, 1)
    <2>1. moved \in [Meter!Creds -> Nat] /\ server.cred \in Int
          /\ moved' = [moved EXCEPT ![server.cred] = @ + 1]
      BY DEF MeterInv, MeterTyped, Meter!Move
    <2>2. \A b, g : g = [moved EXCEPT ![b] = @ + 1] =>
            g \in [Meter!Creds -> Nat] /\ \A c \in Meter!Creds : g[c] = moved[c] + Of(c, b, 1)
      BY <2>1, CreditedFunction
    <2>3. /\ moved' \in [Meter!Creds -> Nat]
          /\ \A c \in Meter!Creds : moved'[c] = moved[c] + Of(c, server.cred, 1)
      BY <2>1, <2>2, Zenon
    <2> QED BY <2>3
  <1>4. server.count \in Nat /\ check.count \in Nat /\ meter.count \in Nat
        /\ (\A c \in Meter!Creds : charged[c] \in Nat /\ moved[c] \in Nat)
    BY DEF MeterInv, MeterTyped, Sample
  <1>5. MeterTyped'
    BY <1>1, <1>2, <1>3 DEF MeterInv, MeterTyped, Meter!Creds
  <1>6. FileInv'
    BY <1>1, <1>2, KeptFiles DEF MeterInv, FileInv, EditsAlone, ReadingHolds
  <1>7. CheckCounts'
    <2>1. /\ check.live => check.cred = server.cred /\ check.count <= server.count
          /\ \A c \in Meter!Creds : charged[c]
               + Of(c, server.cred, Uncounted(check.live, check.count)) <= moved[c]
      BY DEF MeterInv, CountInv, CheckCounts
    <2>2. Uncounted(check.live, check.count)' = Uncounted(check.live, check.count) + 1
          /\ Uncounted(check.live, check.count) \in Int
      BY <1>1, <1>2, <1>4 DEF Uncounted
    <2>3. ASSUME NEW c \in Meter!Creds
          PROVE  charged[c] + Of(c, server.cred, Uncounted(check.live, check.count)') <= moved'[c]
      BY <1>3, <1>4, <2>1, <2>2 DEF Of
    <2>4. check'.live => check'.cred = server'.cred /\ check'.count <= server'.count
      BY <1>1, <1>2, <1>4, <2>1
    <2> QED BY <1>1, <1>2, <2>3, <2>4 DEF CheckCounts, Of, Meter!Creds
  <1>8. SampleCounts'
    <2> SUFFICES ASSUME meter.pc = "decide", meter.same \/ ~meter.intent
                 PROVE  /\ meter.same => check.count <= meter.count
                        /\ meter.live => meter.count <= server'.count /\ Meter!Bound' = server'.cred
                        /\ \A c \in Meter!Creds : charged[c] + Of(c, Meter!Bound', Meter!NewBytes')
                             + Of(c, server'.cred, Uncounted(meter.live, meter.count)') <= moved'[c]
      BY <1>1 DEF SampleCounts, Meter!Creds, Of, Uncounted
    <2>1. /\ meter.same => check.count <= meter.count
          /\ meter.live => meter.count <= server.count /\ Meter!Bound = server.cred
          /\ \A c \in Meter!Creds : charged[c] + Of(c, Meter!Bound, Meter!NewBytes)
               + Of(c, server.cred, Uncounted(meter.live, meter.count)) <= moved[c]
      BY DEF MeterInv, CountInv, SampleCounts
    <2>2. Meter!Bound' = Meter!Bound /\ Meter!NewBytes' = Meter!NewBytes
      BY <1>1 DEF Meter!Bound, Meter!NewBytes, Meter!SameRun
    <2>3. Meter!NewBytes \in Int
      BY <1>4 DEF Meter!NewBytes
    <2>4. Uncounted(meter.live, meter.count)' = Uncounted(meter.live, meter.count) + 1
          /\ Uncounted(meter.live, meter.count) \in Int
      BY <1>1, <1>2, <1>4 DEF Uncounted
    <2>5. ASSUME NEW c \in Meter!Creds
          PROVE  charged[c] + Of(c, Meter!Bound, Meter!NewBytes)
                   + Of(c, server.cred, Uncounted(meter.live, meter.count)') <= moved'[c]
      BY <1>3, <1>4, <2>1, <2>3, <2>4 DEF Of
    <2> QED BY <1>2, <1>4, <2>1, <2>2, <2>5
  <1> QED BY <1>5, <1>6, <1>7, <1>8 DEF MeterInv, CountInv

LEMMA MeterStarts == Meter!MeterInit => MeterInv
  <1> SUFFICES ASSUME Meter!MeterInit PROVE MeterInv
    OBVIOUS
  <1>1. MeterTyped
    <2>1. /\ server \in [up : BOOLEAN, cred : Int, count : Nat]
          /\ check \in [live : BOOLEAN, cred : Int, count : Nat, left : Int]
      BY MeterAssumption DEF Meter!MeterInit, Meter!Unknown
    <2>2. worker \in [Units -> [pc : WorkerPc, mine : BOOLEAN]]
      BY DEF Meter!MeterInit, Meter!IdleUnit, WorkerPc
    <2>3. charged \in [Meter!Creds -> Nat] /\ moved \in [Meter!Creds -> Nat]
      BY DEF Meter!MeterInit
    <2> QED BY <2>1, <2>2, <2>3, IdleSample DEF Meter!MeterInit, MeterTyped
  <1>2. FileInv
    BY IdleSample
       DEF Meter!MeterInit, FileInv, SavesAreAsked, EditsAlone, RunServesConf, ReadingHolds,
           Meter!IdleUnit
  <1>3. CountInv
    BY IdleSample DEF Meter!MeterInit, CountInv, CheckCounts, SampleCounts, Of, Uncounted
  <1> QED BY <1>1, <1>2, <1>3 DEF MeterInv

LEMMA MeterSteps ==
  ASSUME MeterInv, Meter!MeterNext
  PROVE  MeterInv'
  BY EditEndsKeep, EditMarkKeeps, EditSaveKeeps, ReloadKeeps, WorkerKeeps, WorkerRestartKeeps,
     ServerRestartsKeeps, AckKeeps, TickReadKeeps, TickObserveKeeps, TickDecideKeeps,
     TickMarkKeeps, TickSaveKeeps, TickStartKeeps, TickDiesKeeps, ClockKeeps, MoveKeeps
  DEF Meter!MeterNext, Meter!EditStep, Meter!WorkerStep, Meter!TickStep

LEMMA MeterStutters ==
  ASSUME MeterInv, UNCHANGED Meter!meterVars
  PROVE  MeterInv'
  <1>1. UNCHANGED <<canonical, conf, intent, server, check, meter, edit, worker, charged, moved>>
    BY DEF Meter!meterVars
  <1>2. MeterTyped'
    BY <1>1 DEF MeterInv, MeterTyped, Meter!Creds
  <1>3. FileInv'
    BY <1>1, KeptFiles DEF MeterInv, FileInv, EditsAlone, ReadingHolds
  <1> QED BY <1>1, <1>2, <1>3, KeptCounts DEF MeterInv

LEMMA MeterInvSays ==
  ASSUME MeterInv PROVE Meter!ChargesAreMoved
  BY DEF MeterInv, MeterTyped, CountInv, CheckCounts, Meter!ChargesAreMoved, Of, Uncounted

\* The user is never charged for more bytes of a credential than moved under it, for any
\* workers, grace and bounds: restarts, rotations, acknowledgements and deaths fall
\* anywhere between the reading of the file, the sample and the credit
\* (_collect_tuic_users_locked, bind_observation, calculate_delta).
THEOREM ChargesHaveMoved == ProxySpec => []ChargesAreMoved
  <1>1. ProxyInit => MeterInv
    BY MeterStarts DEF ProxyInit
  <1>2. MeterInv /\ [ReloadMoves \/ MeterMoves]_<<subject, vars, meterVars>> => MeterInv'
    <2>1. ASSUME MeterInv, UNCHANGED meterVars PROVE MeterInv'
      BY <2>1, MeterStutters DEF meterVars, Meter!meterVars
    <2> QED BY <2>1, MeterSteps DEF ReloadMoves, MeterMoves
  <1>3. MeterInv => ChargesAreMoved
    BY MeterInvSays DEF ChargesAreMoved
  <1> QED BY <1>1, <1>2, <1>3, PTL DEF ProxySpec
=============================================================================
