--------------------------- MODULE RotationRecovery ---------------------------
(***************************************************************************)
(* hysteria/rotation_recovery.py: the session-bound receipts that let the  *)
(* browser that asked for a rotation ask again and get the same token.  A  *)
(* store is a function from request ids to receipts; "ttl" is the time     *)
(* left before expires_at, and a receipt with none left is no longer read  *)
(* and is erased by the next save.  The token and uuid of a receipt are    *)
(* the generation "new".                                                   *)
(***************************************************************************)
EXTENDS StateStore, FiniteSets

CONSTANTS
    ReceiptMaxEntries,   \* RECEIPT_MAX_ENTRIES
    ReceiptTTL,          \* RECEIPT_TTL_SECONDS
    Sessions             \* browser sessions (the values of the usid cookie)

ASSUME ReceiptAssumption ==
    /\ ReceiptMaxEntries \in Nat
    /\ ReceiptTTL \in Nat \ {0}

Receipt == [old : Nat, new : Nat, sessions : SUBSET Sessions, ttl : Nat]

\* _prune
Live(store) == [id \in {i \in DOMAIN store : store[i].ttl > 0} |-> store[id]]

\* lookup_bound returns a live receipt to a session it is bound to, only.
Bound(store, id, session) ==
    id \in DOMAIN Live(store) /\ session \in store[id].sessions

\* prepare: an existing live receipt must be bound to this session and name the
\* same old generation (else PermissionError); it is kept as it is.
ReceiptMismatch(store, id, session, old) ==
    id \in DOMAIN Live(store)
      /\ (session \notin store[id].sessions \/ store[id].old # old)

ReceiptsFull(store, id) ==
    id \notin DOMAIN Live(store)
      /\ Cardinality(DOMAIN Live(store)) >= ReceiptMaxEntries

ReceiptPrepared(store, id, session, old, new) ==
    IF id \in DOMAIN Live(store) THEN Live(store)
    ELSE Put(Live(store), id,
             [old |-> old, new |-> new, sessions |-> {session}, ttl |-> ReceiptTTL])

\* bind_replacement_session (the code keeps the last four sessions).
ReceiptRebound(store, id, session, replacement) ==
    IF Bound(store, id, session)
      THEN [Live(store) EXCEPT ![id].sessions = @ \cup {replacement}]
      ELSE store

ReceiptTick(store) ==
    [id \in DOMAIN store |-> [store[id] EXCEPT !.ttl = Elapse(@)]]
=============================================================================
