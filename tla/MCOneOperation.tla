--------------------------- MODULE MCOneOperation ---------------------------
(* One operation of CredentialRevocation, a rotation or a deletion, and      *)
(* everything that may befall it.                                            *)
EXTENDS MCCredentialRevocation

VARIABLE chosen

OneOperation ==
    /\ Init /\ chosen \in Op
    /\ [][Next /\ spent' \subseteq {chosen} /\ UNCHANGED chosen]_<<vars, chosen>>
    /\ Fairness
=============================================================================
