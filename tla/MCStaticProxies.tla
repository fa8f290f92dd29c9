--------------------------- MODULE MCStaticProxies ---------------------------
(***************************************************************************)
(* The two sides of a static proxy, each on a small instance and by        *)
(* itself: the reload of its configuration (StaticReload), and the meter   *)
(* of TUIC that shares its unit with reloads (TuicMeter).  subject names   *)
(* the one that moves.                                                     *)
(***************************************************************************)
EXTENDS StaticReload

CONSTANTS MaxCred, MaxMoved, MaxTrouble, Grace

ASSUME MeterAssumption == Grace \in Nat

VARIABLES subject,
          canonical, allowed, conf, intent, failedMark, stopMark, server, check,
          meter, edit, worker, moved, charged, trouble

meterVars == <<canonical, allowed, conf, intent, failedMark, stopMark, server, check,
               meter, edit, worker, moved, charged, trouble>>

Meter == INSTANCE TuicMeter WITH unit <- worker

ProxyInit == subject \in {"reload", "meter"} /\ Init /\ Meter!MeterInit

ReloadMoves == subject = "reload" /\ Next /\ UNCHANGED <<subject, meterVars>>
MeterMoves == subject = "meter" /\ Meter!MeterNext /\ UNCHANGED <<subject, vars>>

\* The fairness of each, for the behaviours it is the subject of.
ProxyFairness ==
    /\ WF_vars(subject = "reload" /\ \E h \in Handlers : Begin(h, "tick"))
    /\ \A h \in Handlers : WF_vars(subject = "reload" /\ HandlerStep(h))
    /\ \A u \in Units : WF_vars(subject = "reload" /\ UnitStep(u))
    /\ WF_meterVars(subject = "meter" /\ Meter!EditStep)
    /\ SF_meterVars(subject = "meter" /\ Meter!TickRead)
    /\ WF_meterVars(subject = "meter" /\ Meter!TickStep)
    /\ WF_meterVars(subject = "meter" /\ Meter!Clock)
    /\ \A u \in Units : WF_meterVars(subject = "meter" /\ Meter!WorkerStep(u))

ProxySpec ==
    /\ ProxyInit /\ [][ReloadMoves \/ MeterMoves]_<<subject, vars, meterVars>>
    /\ ProxyFairness

-----------------------------------------------------------------------------

\* TuicMeter's properties, under the names they have there.
ChargesAreMoved == Meter!ChargesAreMoved
OverdueAccessEnds == Meter!OverdueAccessEnds
=============================================================================
