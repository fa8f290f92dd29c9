---------------------------- MODULE AtomicCredit ----------------------------
(***************************************************************************)
(* What the accounting of TUIC promises: the daily ledger, the monthly     *)
(* ledger and the checkpoint of the counters always name the same bytes,   *)
(* as if one assignment changed the three.  Nothing else is promised: a    *)
(* power loss may take the last credits back, from all three together.     *)
(***************************************************************************)
EXTENDS Integers

VARIABLES daily,        \* TUIC bytes ever credited to usage_daily.json
          usage,        \* TUIC bytes ever credited to usage.json
          seen          \* TUIC bytes the checkpoint stands for

Init == daily = 0 /\ usage = 0 /\ seen = 0

Credit ==
    /\ daily' > daily
    /\ usage' - usage = daily' - daily
    /\ seen' - seen = daily' - daily

Forget == seen' \in 0..seen /\ daily' = seen' /\ usage' = seen'

Next == Credit \/ Forget

Spec == Init /\ [][Next]_<<daily, usage, seen>>
=============================================================================
