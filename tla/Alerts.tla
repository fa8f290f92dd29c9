------------------------------- MODULE Alerts -------------------------------
(***************************************************************************)
(* One alert of one user: its quota is used up (hysteria/alerts.py, and    *)
(* check_alerts of hysteria/traffic_limiter.py).  The file of alerts holds *)
(* nothing, the month the alert was delivered for, or a claim: the month,  *)
(* the token of the run that sends it and when it was taken.  A run reads  *)
(* the usage under the usage lock, leaves the lock, claims, sends without  *)
(* any lock and completes the claim if it is still its own.  Meanwhile the *)
(* panel may reset the user, which clears the entry, another run may find  *)
(* the claim expired, and the run may die with the claim in the file.      *)
(***************************************************************************)
EXTENDS Integers

CONSTANTS Runs,         \* of the traffic limiter
          MaxMonth, MaxResets, MaxLapses,
          ClaimTTL      \* CLAIM_TTL_SECONDS in ticks

VARIABLES month, over,  \* the billing month, and whether its usage is over the quota
          channels,     \* those alerts.json configures
          entry,        \* alert_state.json
          run,
          told,       \* of the last delivery: claimed since the last clearing? which crossing?
          resets, lapses

alertVars == <<month, over, channels, entry, run, told, resets, lapses>>

Channels == {"telegram", "webhook"}
Nothing == [key |-> 0, token |-> "none", age |-> 0]
Delivered(key) == [key |-> key, token |-> "none", age |-> 0]
Claimed(key, r) == [key |-> key, token |-> r, age |-> 0]
Idle == [pc |-> "idle", key |-> 0, crossing |-> 0, config |-> {}, failed |-> FALSE, since |-> FALSE]

AlertInit ==
    /\ month = 1 /\ over = FALSE /\ channels \in SUBSET Channels
    /\ entry = Nothing /\ run = [r \in Runs |-> Idle]
    /\ told = [since |-> TRUE, crossing |-> 0] /\ resets = 0 /\ lapses = 0

-----------------------------------------------------------------------------

At(r, pc) == run[r].pc = pc
Goto(r, pc) == run' = [run EXCEPT ![r].pc = pc]
Ends(r) == run' = [run EXCEPT ![r] = Idle]
MayFail == lapses < MaxLapses /\ lapses' = lapses + 1
KeepWorld == UNCHANGED <<month, over, channels, resets>>

\* The locked part of a run of the limiter: what check_alerts is going to be given.  A
\* user below the limit gives nothing to send.
Count(r) ==
    /\ At(r, "idle") /\ over
    /\ run' = [run EXCEPT ![r] = [Idle EXCEPT !.pc = "counted", !.key = month, !.crossing = resets]]
    /\ KeepWorld /\ UNCHANGED <<entry, told, lapses>>

\* check_alerts: one configuration for all its alerts.
Load(r) ==
    /\ At(r, "counted")
    /\ IF channels = {} THEN Ends(r)
       ELSE run' = [run EXCEPT ![r].pc = "claim", ![r].config = channels]
    /\ KeepWorld /\ UNCHANGED <<entry, told, lapses>>

\* Mutant: a claim is kept until its run completes it.
PendingForever(key) == entry.key = key /\ entry.token # "none"

Pending(key) == entry.key = key /\ entry.token # "none" /\ entry.age < ClaimTTL

\* claim_alert.
Claim(r) ==
    /\ At(r, "claim")
    /\ IF entry = Delivered(run[r].key) \/ Pending(run[r].key)
       THEN Ends(r) /\ UNCHANGED entry
       ELSE /\ entry' = Claimed(run[r].key, r)
            /\ run' = [run EXCEPT ![r].pc = "telegram", ![r].since = TRUE]
    /\ KeepWorld /\ UNCHANGED <<told, lapses>>

\* dispatch: one channel after the other, each tried whatever the one before it did.
Post(r, channel, next) ==
    /\ At(r, channel) /\ KeepWorld /\ UNCHANGED <<entry, told>>
    /\ \/ Goto(r, next) /\ UNCHANGED lapses
       \/ /\ channel \in run[r].config /\ MayFail
          /\ run' = [run EXCEPT ![r].pc = next, ![r].failed = TRUE]

\* Mutant: the claim is completed whoever holds it.
OwnKey(r) == entry.token # "none" /\ entry.key = run[r].key

Own(r) == entry.token = r /\ entry.key = run[r].key

\* finish_alert_claim: a claim that was cleared or taken over stays as it is.
Complete(r) ==
    /\ At(r, "finish") /\ Ends(r) /\ KeepWorld /\ UNCHANGED lapses
    /\ IF ~Own(r) THEN UNCHANGED <<entry, told>>
       ELSE IF run[r].failed THEN entry' = Nothing /\ UNCHANGED told
       ELSE /\ entry' = Delivered(run[r].key)
            /\ told' = [since |-> run[r].since, crossing |-> run[r].crossing]

\* The lock of the file is not had in time, or the process is killed: the claim of the
\* run, if it has one, stays in the file, and no other run has its token.
Breaks(r) ==
    /\ ~At(r, "idle") /\ MayFail /\ Ends(r) /\ KeepWorld /\ UNCHANGED told
    /\ entry' = IF entry.token = r THEN [entry EXCEPT !.token = "lost"] ELSE entry

RunStep(r) ==
    \/ Load(r) \/ Claim(r) \/ Complete(r)
    \/ Post(r, "telegram", "webhook") \/ Post(r, "webhook", "finish")

-----------------------------------------------------------------------------

\* What is charged to the user crosses the quota.
Crosses == ~over /\ over' = TRUE /\ UNCHANGED <<month, channels, entry, run, told, resets, lapses>>

\* _mutate_user_usage, reset_all and _purge_user_history: the usage is zeroed and the
\* entry removed, under the usage lock; that the entry cannot be removed fails nothing.
Reset ==
    /\ resets < MaxResets /\ over' = FALSE /\ UNCHANGED <<month, channels, told>>
    /\ \/ /\ resets' = resets + 1 /\ entry' = Nothing /\ UNCHANGED lapses
          /\ run' = [r \in Runs |-> [run[r] EXCEPT !.since = FALSE]]
       \/ MayFail /\ UNCHANGED <<entry, run, resets>>

NextMonth ==
    /\ month < MaxMonth /\ month' = month + 1 /\ over' = FALSE
    /\ UNCHANGED <<channels, entry, run, told, resets, lapses>>

\* The settings of the panel replace alerts.json.
Configure ==
    /\ MayFail /\ \E c \in SUBSET Channels : channels' = c
    /\ UNCHANGED <<month, over, entry, run, told, resets>>

\* The deadlines of the two sends are shorter than ClaimTTL: a claim whose run is at work
\* expires only if something else holds the run up.
ClaimAges ==
    /\ entry.token # "none" /\ entry.age < ClaimTTL /\ entry' = [entry EXCEPT !.age = @ + 1]
    /\ IF entry.token = "lost" THEN UNCHANGED lapses ELSE MayFail
    /\ UNCHANGED <<month, over, channels, run, told, resets>>

AlertNext ==
    \/ \E r \in Runs : Count(r) \/ RunStep(r) \/ Breaks(r)
    \/ Crosses \/ Reset \/ NextMonth \/ Configure \/ ClaimAges

AlertSpec == AlertInit /\ [][AlertNext]_alertVars

\* The timer starts the limiter again and again, every call of a run is bounded by a
\* deadline, and time passes.
AlertFairness ==
    /\ \A r \in Runs : WF_alertVars(Count(r)) /\ WF_alertVars(RunStep(r))
    /\ WF_alertVars(ClaimAges)

-----------------------------------------------------------------------------

\* The file holds nothing, a delivery or a claim, and every run is at a step of the code.
AlertTypeOK ==
    /\ month \in 1..MaxMonth /\ over \in BOOLEAN /\ channels \subseteq Channels
    /\ resets \in 0..MaxResets /\ lapses \in 0..MaxLapses
    /\ entry \in [key : 0..MaxMonth, token : Runs \cup {"none", "lost"}, age : 0..ClaimTTL]
    /\ run \in [Runs -> [pc : {"idle", "counted", "claim", "finish"} \cup Channels,
                         key : 0..MaxMonth, crossing : 0..MaxResets, config : SUBSET Channels,
                         failed : BOOLEAN, since : BOOLEAN]]
    /\ told \in [since : BOOLEAN, crossing : 0..MaxResets]

HasDelivery == entry.key # 0 /\ entry.token = "none"

\* What the file records as delivered was claimed after the entry was last cleared: a run
\* that was sending when the user was reset does not silence the alerts after the reset
\* (finish_alert_claim compares the token).
ClearingIsFinal == HasDelivery => told.since

\* A user who stays over the quota, with a channel to tell it to, is recorded as told:
\* no failed send, dead run or expired claim keeps the alert from being tried again.
CrossingIsTold ==
    (over /\ channels # {}) ~> (~over \/ channels = {} \/ entry = Delivered(month))

\* docs/adr/0001-manual-reset-clears-alert-dedup.md: after a reset the next crossing of
\* the same cycle alerts again, so what is recorded is never a crossing before the reset.
ResetRearms == HasDelivery => told.crossing = resets
=============================================================================
