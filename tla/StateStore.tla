----------------------------- MODULE StateStore -----------------------------
(***************************************************************************)
(* What the modules need of hysteria/state_store.py: a JSON object is a    *)
(* function on the keys it holds, and an atomic save (temporary file,      *)
(* fsync, rename, fsync of the directory) has one of three outcomes.       *)
(***************************************************************************)
EXTENDS Integers

\* _write_atomic: "ok" is durable; "uncertain" is a rename that happened and
\* whose directory fsync failed (AtomicReplaceDurabilityUncertain): every reader
\* sees the new content, a power loss may bring the old one back; "failed" left
\* the file as it was.
SaveOutcome == {"ok", "uncertain", "failed"}

\* What readers see after a save of new over old.
Visible(old, new, outcome) == IF outcome = "failed" THEN old ELSE new

\* What a power loss may leave, from what it might have left before the save.
OnDisk(disk, new, outcome) ==
    CASE outcome = "ok"        -> {new}
      [] outcome = "uncertain" -> disk \cup {new}
      [] outcome = "failed"    -> disk

\* dict assignment and dict.pop(key, None) on a loaded JSON object.
Put(d, key, item) == [k \in DOMAIN d \cup {key} |-> IF k = key THEN item ELSE d[k]]
Drop(d, key) == [k \in DOMAIN d \ {key} |-> d[k]]

\* Deadlines are kept as the time left before them: the code only ever compares
\* a stored deadline with the clock.
Elapse(left) == IF left = 0 THEN 0 ELSE left - 1
=============================================================================
