----------------------- MODULE MCCredentialRevocation -----------------------
(* Instances of CredentialRevocation for TLC: one account, so every          *)
(* operation is about the same user and they contend for it.                 *)
EXTENDS CredentialRevocation, TLC

CONSTANTS u1

OneUser == {u1}
AboutOneUser == [op \in Op |-> u1]
ThreadSymmetry == Permutations(Threads) \cup Permutations(Sessions)

\* The states of a run of operations of one kind: rotations, without edits and saves in
\* doubt, with clients of the first credential; or deletions, without clients.
OneKind ==
    \/ /\ spent \subseteq AdminOps
       /\ disk = {users} /\ \A u \in Users : users[u].rev <= 1
       /\ \A c \in approved \cup conns : c.gen = 1
    \/ /\ spent \subseteq DeleteOps
       /\ approved = {} /\ fresh <= 2
=============================================================================
