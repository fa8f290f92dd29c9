---------------------------- MODULE PanelSessions ----------------------------
(***************************************************************************)
(* Sessions of the panel: hysteria/session_store.py with the logins        *)
(* (login_service.py), the check of a request (identity_service.py), and   *)
(* what replaces or withdraws a credential (password_change_service.py,    *)
(* user_status_service.py, account_mutation_service.py).                   *)
(*                                                                         *)
(* The account is saved under the lock of its file and the sessions under  *)
(* theirs: each action is one such section, and requests overlap between   *)
(* them.  A credential is a number that is never used again, as a new hash *)
(* or token is never one that was there before, and stands for its         *)
(* generation as well.  A session's number gives its age.                  *)
(***************************************************************************)
EXTENDS FiniteSetsExt, Integers

CONSTANTS Users, Requests,
          MaxOwn,       \* SESSION_MAX_PER_IDENTITY
          MaxGlobal,    \* SESSION_MAX_GLOBAL
          MaxSecret, MaxSession

VARIABLES account,      \* users.json, and subscription_meta.json for "admin"
          sessions,     \* user_sessions.json and sessions.json
          request,      \* the requests under way
          lastSecret, lastSession

panelVars == <<account, sessions, request, lastSecret, lastSession>>

Admin == "admin"
Names == Users \cup {Admin}
Kinds == {"password", "token"}

\* secret[kind] is 0 where there is none; off: disabled or past its expiry.
NoAccount == [there |-> FALSE, off |-> FALSE,
              secret |-> [k \in Kinds |-> 0]]
\* current: the administrator's secret as it was read.  Ghosts: by, the secret that
\* opened the session, and since, that of its account when the request arrived.
NoRequest == [pc |-> "idle", who |-> Admin, kind |-> "password", session |-> 0,
              secret |-> 0, current |-> 0, by |-> 0, since |-> 0]

PanelInit ==
    /\ account = [x \in Names |-> [NoAccount EXCEPT !.there = TRUE, !.secret = [k \in Kinds |-> 1]]]
    /\ sessions = {} /\ request = [r \in Requests |-> NoRequest]
    /\ lastSecret = 1 /\ lastSession = 0

-----------------------------------------------------------------------------

At(r, pc) == request[r].pc = pc
Goto(r, pc) == request' = [request EXCEPT ![r].pc = pc]
Ends(r) == request' = [request EXCEPT ![r] = NoRequest]
KeepAccounts == UNCHANGED <<account, lastSecret>>
KeepSessions == UNCHANGED <<sessions, lastSession>>

SameFile(x, y) == (x = Admin) = (y = Admin)
File(x) == {s \in sessions : SameFile(s.who, x)}
Newest(S, n) == {s \in S : Cardinality({t \in S : t.id > s.id}) < n}

NewSession(x, kind, secret, by) ==
    [id |-> lastSession + 1, who |-> x, kind |-> kind, secret |-> secret, by |-> by]

\* _create_session: room is made among the identity's sessions, then in the file.
WithNew(x, new) ==
    LET own == {s \in File(x) : s.who = x}
        kept == (File(x) \ own) \cup Newest(own, MaxOwn - 1)
        room == IF Cardinality(kept) >= MaxGlobal THEN Newest(kept, MaxGlobal - 1) ELSE kept
    IN (sessions \ File(x)) \cup room \cup {new}

\* _delete_sessions_for.
WithoutOwn(x) == {s \in sessions : s.who # x}

-----------------------------------------------------------------------------
(* Logins. *)

\* submit_login: meta is read before a verification slot is reserved.
StartLogin(r, x, secret) ==
    /\ At(r, "idle")
    /\ request' = [request EXCEPT ![r] = [NoRequest EXCEPT !.pc = "verify", !.who = x,
                                          !.secret = secret, !.current = account[Admin].secret["password"]]]
    /\ KeepAccounts /\ KeepSessions

\* The hash the offered password was verified against names the session's
\* generation: it is read once.  A throttled login ends here too.
Verify(r) ==
    /\ At(r, "verify")
    /\ LET x == request[r].who
           stored == IF x = Admin THEN request[r].current ELSE account[x].secret["password"]
       IN \/ stored # 0 /\ request[r].secret = stored /\ ~account[x].off /\ Goto(r, "open")
          \/ Ends(r)
    /\ KeepAccounts /\ KeepSessions

\* The exchange of a subscription token, and of the administrator's, which opens
\* a session of the password there is.
Exchange(r, x, secret) ==
    /\ At(r, "idle") /\ account[x].there /\ ~account[x].off
    /\ LET kind == IF x = Admin THEN "password" ELSE "token"
       IN /\ secret = account[x].secret[kind] /\ secret # 0
          /\ request' = [request EXCEPT ![r] = [NoRequest EXCEPT !.pc = "open", !.who = x,
                                                !.kind = kind, !.secret = secret]]
    /\ KeepAccounts /\ KeepSessions

\* Mutant: the generation is that of the account when the session is opened.
OpenCurrent(r) ==
    /\ At(r, "open") /\ lastSession < MaxSession
    /\ LET req == request[r]
       IN sessions' = WithNew(req.who, NewSession(req.who, req.kind, account[req.who].secret[req.kind], req.secret))
    /\ lastSession' = lastSession + 1
    /\ Ends(r) /\ KeepAccounts

Open(r) ==
    /\ At(r, "open") /\ lastSession < MaxSession
    /\ LET req == request[r] IN sessions' = WithNew(req.who, NewSession(req.who, req.kind, req.secret, req.secret))
    /\ lastSession' = lastSession + 1
    /\ Ends(r) /\ KeepAccounts

-----------------------------------------------------------------------------
(* A request with a session.  The administrator's account is read before   *)
(* the sessions, a user's after them.                                      *)

Arrive(r, s) ==
    /\ At(r, "idle") /\ s \in sessions
    /\ request' = [request EXCEPT ![r] =
                    [pc |-> "check", who |-> s.who, kind |-> s.kind, session |-> s.id, secret |-> 0,
                     current |-> account[Admin].secret["password"], by |-> 0,
                     since |-> account[s.who].secret[s.kind]]]
    /\ KeepAccounts /\ KeepSessions

\* _get_sessions, which drops what has expired.
FindSession(r) ==
    /\ At(r, "check")
    /\ \/ \E s \in sessions : /\ s.id = request[r].session
                              /\ request' = [request EXCEPT ![r].pc = "compare", ![r].secret = s.secret, ![r].by = s.by]
       \/ (\A s \in sessions : s.id # request[r].session) /\ Ends(r)
    /\ KeepAccounts /\ KeepSessions

\* get_logged_in_user_context, is_logged_in.
Compare(r) ==
    /\ At(r, "compare")
    /\ LET req == request[r]
           current == IF req.who = Admin THEN req.current ELSE account[req.who].secret[req.kind]
       IN Goto(r, IF current # 0 /\ current = req.secret THEN "served" ELSE "expel")
    /\ KeepAccounts /\ KeepSessions

\* A session that was refused is deleted, and one that is logged out.
Expel(r) ==
    /\ At(r, "expel") \/ At(r, "served")
    /\ sessions' = {s \in sessions : s.id # request[r].session}
    /\ Ends(r) /\ KeepAccounts /\ UNCHANGED lastSession

Expire(s) ==
    /\ s \in sessions /\ \A t \in File(s.who) : s.id <= t.id
    /\ sessions' = sessions \ {s}
    /\ KeepAccounts /\ UNCHANGED <<request, lastSession>>

\* The answer, whatever it is, an error, or the end of the process.
Finish(r) == ~At(r, "idle") /\ Ends(r) /\ KeepAccounts /\ KeepSessions

-----------------------------------------------------------------------------
(* Operations of a request that is served. *)

NewSecret(x, kinds) ==
    /\ lastSecret < MaxSecret /\ lastSecret' = lastSecret + 1
    /\ account' = [account EXCEPT ![x].there = TRUE,
                                  ![x].secret = [k \in Kinds |-> IF k \in kinds THEN lastSecret + 1 ELSE @[k]]]

\* change_user and change_admin: who knows the password replaces it, and then
\* has the only session.
ChangePassword(r) ==
    /\ At(r, "served") /\ request[r].kind = "password"
    /\ LET x == request[r].who
       IN /\ account[x].there /\ ~account[x].off /\ account[x].secret["password"] # 0
          /\ NewSecret(x, {"password"})
    /\ request' = [request EXCEPT ![r].pc = "replace", ![r].secret = lastSecret + 1]
    /\ KeepSessions

\* _replace_sessions_with_new.
Replace(r) ==
    /\ At(r, "replace") /\ lastSession < MaxSession
    /\ LET x == request[r].who
       IN sessions' = WithoutOwn(x) \cup {NewSession(x, "password", request[r].secret, request[r].secret)}
    /\ lastSession' = lastSession + 1
    /\ Ends(r) /\ KeepAccounts

AdminServed(r) == At(r, "served") /\ request[r].who = Admin
ThenRevoke(r, x) == request' = [request EXCEPT ![r] = [NoRequest EXCEPT !.pc = "revoke", !.who = x]]

\* create and update, with a password or without.
Create(r, x, kinds) ==
    /\ AdminServed(r) /\ ~account[x].there /\ "token" \in kinds /\ NewSecret(x, kinds)
    /\ (IF "password" \in kinds THEN ThenRevoke(r, x) ELSE Ends(r)) /\ KeepSessions

SetPassword(r, x) ==
    /\ AdminServed(r) /\ account[x].there /\ NewSecret(x, {"password"})
    /\ ThenRevoke(r, x) /\ KeepSessions

\* rotate: the sessions of the token are left to their generation.
RotateToken(r, x) ==
    /\ AdminServed(r) /\ account[x].there /\ NewSecret(x, {"token"})
    /\ Ends(r) /\ KeepSessions

\* pause and toggle.
Disable(r, x) ==
    /\ AdminServed(r) /\ account[x].there
    /\ account' = [account EXCEPT ![x].off = TRUE]
    /\ ThenRevoke(r, x) /\ KeepSessions /\ UNCHANGED lastSecret

Enable(r, x) ==
    /\ AdminServed(r) /\ account[x].there
    /\ account' = [account EXCEPT ![x].off = FALSE]
    /\ Ends(r) /\ KeepSessions /\ UNCHANGED lastSecret

Revoke(r) ==
    /\ At(r, "revoke") /\ sessions' = WithoutOwn(request[r].who)
    /\ Ends(r) /\ KeepAccounts /\ UNCHANGED lastSession

\* The deletion purges the sessions while it holds the lock of the accounts.
Delete(r, x) ==
    /\ AdminServed(r) /\ account[x].there
    /\ account' = [account EXCEPT ![x] = NoAccount] /\ sessions' = WithoutOwn(x)
    /\ Ends(r) /\ UNCHANGED <<lastSecret, lastSession>>

PanelNext ==
    \/ \E r \in Requests :
        \/ \E x \in Names, secret \in 1..lastSecret : StartLogin(r, x, secret) \/ Exchange(r, x, secret)
        \/ Verify(r) \/ Open(r)
        \/ \E s \in sessions : Arrive(r, s)
        \/ FindSession(r) \/ Compare(r) \/ Expel(r) \/ Finish(r)
        \/ ChangePassword(r) \/ Replace(r) \/ Revoke(r)
        \/ \E x \in Users, kinds \in SUBSET Kinds : Create(r, x, kinds)
        \/ \E x \in Users : \/ SetPassword(r, x) \/ RotateToken(r, x)
                            \/ Disable(r, x) \/ Enable(r, x) \/ Delete(r, x)
    \/ \E s \in sessions : Expire(s)

-----------------------------------------------------------------------------
(* Properties *)

PanelTypeOK ==
    /\ account \in [Names -> [there : BOOLEAN, off : BOOLEAN,
                              secret : [Kinds -> 0..MaxSecret]]]
    /\ sessions \subseteq [id : 1..lastSession, who : Names, kind : Kinds, secret : 1..MaxSecret, by : 1..MaxSecret]
    /\ \A r \in Requests : request[r].session \in 0..lastSession /\ request[r].secret \in 0..MaxSecret
    /\ \A x \in Names : Cardinality({s \in sessions : s.who = x}) <= MaxOwn

\* No request is served with a session that a password or a token opened which had
\* been replaced, or whose account had been deleted, before the request arrived:
\* neither one that was opened too late to be revoked, nor one that nobody revokes.
OldSecretsOpenNothing ==
    \A r \in Requests : At(r, "served") => request[r].by >= request[r].since /\ request[r].since # 0
=============================================================================
