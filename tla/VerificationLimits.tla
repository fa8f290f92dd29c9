-------------------------- MODULE VerificationLimits --------------------------
(***************************************************************************)
(* What bounds the verification of passwords: the reservations of the      *)
(* panel's logins (hysteria/login_throttle.py) and the limiter of the      *)
(* authorization server (auth_service.py, PasswordWorkLimiter).  Both      *)
(* count before the expensive hash runs, and neither holds its mutex while *)
(* it does.  A time is the ticks since.                                    *)
(***************************************************************************)
EXTENDS FiniteSetsExt, Sequences, SequencesExt, Integers

CONSTANTS Sources,      \* addresses
          Guessers,     \* threads
          Window, MaxGuesses, MaxTracked,
          SourceBurst, GlobalBurst, MaxConcurrent

VARIABLES failures,     \* the panel: when each address was wrong, the first inserted first
          inflight,     \* the panel: reservations
          attempts,     \* the server: when checks were admitted
          tracked,      \* the server: the same of each source, the last used at the end
          leases,       \* the server: permits taken
          guesser

limitVars == <<failures, inflight, attempts, tracked, leases, guesser>>

-----------------------------------------------------------------------------

\* Times are kept in order, so the expired ones are the first of them.
Expired(times) == {i \in DOMAIN times : times[i] >= Window}
Recent(times) == SubSeq(times, Cardinality(Expired(times)) + 1, Len(times))

\* A dict of times: its keys in the order of their insertion, and what is kept of each.
Empty == [order |-> <<>>, times |-> [ip \in Sources |-> <<>>]]
Holds(dict, ip) == ip \in ToSet(dict.order)
Only(dict, order) ==
    [order |-> order,
     times |-> [ip \in Sources |-> IF ip \in ToSet(order) THEN dict.times[ip] ELSE <<>>]]
Without(dict, ip) == Only(dict, Remove(dict.order, ip))
With(dict, ip, times) ==
    [order |-> IF Holds(dict, ip) THEN dict.order ELSE Append(dict.order, ip),
     times |-> [dict.times EXCEPT ![ip] = times]]

LimitInit ==
    /\ failures = Empty /\ inflight = [ip \in Sources |-> 0]
    /\ attempts = <<>> /\ tracked = Empty /\ leases = 0
    /\ guesser = [g \in Guessers |-> [pc |-> "idle", ip |-> CHOOSE ip \in Sources : TRUE]]

At(g, pc) == guesser[g].pc = pc
Goto(g, pc, ip) == guesser' = [guesser EXCEPT ![g] = [pc |-> pc, ip |-> ip]]
KeepPanel == UNCHANGED <<failures, inflight>>
KeepServer == UNCHANGED <<attempts, tracked, leases>>

\* _prune_failures_locked.
Pruned(ip) == LET times == Recent(failures.times[ip])
              IN IF times = <<>> THEN Without(failures, ip) ELSE With(failures, ip, times)

\* Mutant: only failures count.
BeginUnreserved(g, ip) ==
    /\ At(g, "idle") /\ failures' = Pruned(ip)
    /\ Len(failures'.times[ip]) < MaxGuesses
    /\ inflight' = [inflight EXCEPT ![ip] = @ + 1] /\ Goto(g, "panel", ip)
    /\ KeepServer

\* _begin_login_attempt.
Begin(g, ip) ==
    /\ At(g, "idle") /\ failures' = Pruned(ip)
    /\ IF Len(failures'.times[ip]) + inflight[ip] >= MaxGuesses
       THEN UNCHANGED <<inflight, guesser>>
       ELSE inflight' = [inflight EXCEPT ![ip] = @ + 1] /\ Goto(g, "panel", ip)
    /\ KeepServer

\* When too many addresses are tracked the one that was inserted first is forgotten.
Room(ip) ==
    IF ~Holds(failures, ip) /\ Len(failures.order) >= MaxTracked
    THEN Only(failures, Tail(failures.order)) ELSE failures

\* _finish_login_attempt: right, wrong or not decided.
Finish(g) ==
    /\ At(g, "panel")
    /\ LET ip == guesser[g].ip
       IN /\ inflight' = [inflight EXCEPT ![ip] = IF @ > 0 THEN @ - 1 ELSE 0]
          /\ failures' \in {Without(failures, ip), failures,
                          With(Room(ip), ip, Append(failures.times[ip], 0))}
          /\ Goto(g, "idle", ip)
    /\ KeepServer

\* _cleanup_sources: what try_acquire leaves of the other sources.  One that is new
\* looks for sources with nothing recent before it forgets the one used longest ago.
Shortened(dict) ==
    Only(dict, SubSeq(dict.order, Max({1, Len(dict.order) - MaxTracked + 2}), Len(dict.order)))
WithRecent(dict) == SelectSeq(dict.order, LAMBDA ip : Recent(dict.times[ip]) # <<>>)
Swept(dict) == Only([dict EXCEPT !.times = [ip \in Sources |-> Recent(@[ip])]], WithRecent(dict))
Others(ip) ==
    LET others == Without(tracked, ip)
    IN IF Holds(tracked, ip) \/ Len(others.order) < MaxTracked
       THEN others ELSE Shortened(Swept(others))

\* try_acquire: the source becomes the last used one even if it is refused.
TryAcquire(g, ip) ==
    /\ At(g, "idle")
    /\ LET times == Recent(tracked.times[ip])
           admitted == /\ Len(Recent(attempts)) < GlobalBurst /\ Len(times) < SourceBurst
                       /\ leases < MaxConcurrent
       IN IF admitted
          THEN /\ attempts' = Append(Recent(attempts), 0) /\ leases' = leases + 1
               /\ tracked' = With(Others(ip), ip, Append(times, 0))
               /\ Goto(g, "server", ip)
          ELSE /\ attempts' = Recent(attempts) /\ UNCHANGED <<leases, guesser>>
               /\ tracked' = With(Others(ip), ip, times)
    /\ KeepPanel

\* The lease is released whatever the verification ends with.
Release(g) ==
    /\ At(g, "server") /\ leases' = leases - 1 /\ Goto(g, "idle", guesser[g].ip)
    /\ KeepPanel /\ UNCHANGED <<attempts, tracked>>

\* Beyond the window nothing tells two times apart.
Older(times) == [i \in DOMAIN times |-> IF times[i] < Window THEN times[i] + 1 ELSE Window]
Tick ==
    /\ attempts' = Older(attempts)
    /\ failures' = [failures EXCEPT !.times = [ip \in Sources |-> Older(@[ip])]]
    /\ tracked' = [tracked EXCEPT !.times = [ip \in Sources |-> Older(@[ip])]]
    /\ UNCHANGED <<inflight, leases, guesser>>

LimitNext ==
    \/ \E g \in Guessers : \/ \E ip \in Sources : Begin(g, ip) \/ TryAcquire(g, ip)
                           \/ Finish(g) \/ Release(g)
    \/ Tick

-----------------------------------------------------------------------------
(* Properties *)

Verifying(pc, ip) == {g \in Guessers : At(g, pc) /\ guesser[g].ip = ip}
\* However the requests overlap, an address has no more than MaxGuesses passwords
\* that were wrong or are being verified within a window, and the server verifies
\* few at a time and few within a window.
GuessesAreBounded ==
    /\ \A ip \in Sources :
        /\ Len(Recent(failures.times[ip])) + Cardinality(Verifying("panel", ip)) <= MaxGuesses
        /\ Len(Recent(tracked.times[ip])) <= SourceBurst
    /\ Len(Recent(attempts)) <= GlobalBurst
    /\ Cardinality({g \in Guessers : At(g, "server")}) <= MaxConcurrent
=============================================================================
