--------------------------- MODULE MCStaticReload ---------------------------
(* Instances of StaticReload for TLC.                                        *)
EXTENDS StaticReload, TLC

Symmetry == Permutations(Handlers) \cup Permutations(Units)
=============================================================================
