--------------------------- MODULE MCTrafficLedger ---------------------------
(* Instances of TrafficLedger for TLC.                                       *)
EXTENDS TrafficLedger
=============================================================================
