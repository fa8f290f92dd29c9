--------------------------- MODULE DeviceAdmission ---------------------------
(***************************************************************************)
(* The device limit of one account: auth_backend.authenticate asks         *)
(* Hysteria how many devices are online, then reserves a slot in           *)
(* device_admissions.json under its lock, then answers.                    *)
(*                                                                         *)
(* Hysteria reports a device only some time after it was admitted.  A      *)
(* reservation stands for it until then: it is used up when the reported   *)
(* number rises, and expires after TTL.  Time is counted in ticks; a       *)
(* request, which has a deadline of seconds, ends before the next tick.    *)
(***************************************************************************)
EXTENDS Integers, Sequences, FiniteSets

CONSTANTS
    Devices,       \* the clients of the account
    Limits,        \* values of max_devices that the administrator sets
    Threads,       \* worker threads of hysteria-auth.service
    TTL,           \* life of a reservation, and of a snapshot, in ticks
    MaxLag,        \* ticks within which Hysteria reports an admitted device
    FaultKinds,    \* the failures that occur in a run
    MaxFaults,     \* bound: failures in a run
    MaxDepartures, \* bound: devices that leave or never connect in a run
    MaxEdits       \* bound: changes of the limit in a run

FaultKind == {"api", "save", "deadline"}

ASSUME AdmissionAssumption ==
    /\ IsFiniteSet(Devices)
    /\ Limits \subseteq Nat \ {0} /\ Limits # {}
    /\ Threads \in Nat \ {0}
    /\ TTL \in Nat \ {0} /\ MaxLag \in Nat
    /\ FaultKinds \subseteq FaultKind
    /\ MaxFaults \in Nat /\ MaxDepartures \in Nat /\ MaxEdits \in Nat

VARIABLES
    limit,      \* max_devices of the account
    record,     \* the account's entry in device_admissions.json
    snapshot,   \* online.json: what the limiter last captured
    device,     \* where each device is
    lag,        \* ticks left until Hysteria reports an admitted device
    req,        \* the authentication in hand for each device
    faults, departures, edits,
    blind       \* ghost: a snapshot has stood in for the live count

world == <<device, lag>>
bounds == <<faults, departures, edits>>
vars == <<limit, record, snapshot, device, lag, req, bounds, blind>>

\* A record without reservations is not stored; its observed count is then 0.
Record == [observed : 0 .. Cardinality(Devices), pending : Seq(0 .. TTL)]
NoRecord == [observed |-> 0, pending |-> <<>>]

Request == [pc : {"idle", "count", "reserve", "answer"}, limit : Limits,
            count : 0 .. Cardinality(Devices)]

TypeOK ==
    /\ limit \in Limits
    /\ record \in Record
    /\ snapshot \in [count : 0 .. Cardinality(Devices), left : 0 .. TTL]
    /\ device \in [Devices -> {"away", "asking", "admitted", "online"}]
    /\ lag \in [Devices -> 0 .. MaxLag]
    /\ req \in [Devices -> Request]
    /\ faults \in 0 .. MaxFaults
    /\ departures \in 0 .. MaxDepartures
    /\ edits \in 0 .. MaxEdits
    /\ blind \in BOOLEAN

Init ==
    /\ limit \in Limits
    /\ record = NoRecord
    /\ snapshot = [count |-> 0, left |-> 0]
    /\ device = [d \in Devices |-> "away"]
    /\ lag = [d \in Devices |-> 0]
    /\ req = [d \in Devices |-> [pc |-> "idle", limit |-> limit, count |-> 0]]
    /\ faults = 0 /\ departures = 0 /\ edits = 0 /\ blind = FALSE

Fault(kind) ==
    /\ kind \in FaultKinds
    /\ faults < MaxFaults
    /\ faults' = faults + 1
    /\ UNCHANGED <<departures, edits>>

AtStep(d, pc) == req[d].pc = pc
Where(place) == {d \in Devices : device[d] = place}

\* What Hysteria's /online says of the account.
Online == Cardinality(Where("online"))

\* Devices that may be connected: told so, reported or not.
Using == Where("admitted") \cup Where("online")

Refuse(d) ==
    /\ device' = [device EXCEPT ![d] = "away"]
    /\ req' = [req EXCEPT ![d].pc = "idle", ![d].count = 0]
    /\ UNCHANGED lag

-----------------------------------------------------------------------------
(* authenticate.  Credential and quota are right here; what changes        *)
(* meanwhile is the limit, for all of the account's policy.                *)

Ask(d) ==
    /\ device[d] = "away"
    /\ Cardinality(Where("asking")) < Threads
    /\ device' = [device EXCEPT ![d] = "asking"]
    /\ req' = [req EXCEPT ![d] = [pc |-> "count", limit |-> limit, count |-> 0]]
    /\ UNCHANGED <<limit, record, snapshot, lag, bounds, blind>>

\* get_online_counts: when the live API does not answer, the snapshot serves as long
\* as it is fresh.
CountLive(d) ==
    /\ AtStep(d, "count")
    /\ req' = [req EXCEPT ![d].pc = "reserve", ![d].count = Online]
    /\ UNCHANGED <<limit, record, snapshot, world, bounds, blind>>

CountFromSnapshot(d) ==
    /\ AtStep(d, "count")
    /\ Fault("api")
    /\ IF snapshot.left > 0
       THEN /\ req' = [req EXCEPT ![d].pc = "reserve", ![d].count = snapshot.count]
            /\ blind' = TRUE /\ UNCHANGED world
       ELSE Refuse(d) /\ UNCHANGED blind
    /\ UNCHANGED <<limit, record, snapshot>>

\* Mutant of Live: reservations do not expire.
NeverExpires(pending) == pending

\* Reservations are appended as they are made, so the expired ones come first.
Live(pending) ==
    SubSeq(pending, 1 + Cardinality({i \in DOMAIN pending : pending[i] = 0}), Len(pending))

\* Mutant of Unreflected: any rise uses up all of them.
ForgetsAll(pending, before, observed) == IF observed > before THEN <<>> ELSE pending

\* The oldest reservations are used up by as much as the count has risen.
Unreflected(pending, before, observed) ==
    IF observed <= before THEN pending
    ELSE SubSeq(pending, 1 + observed - before, Len(pending))

\* Mutants of Reserved: the reservations of others are left out of the count; the
\* record keeps the count with the reservations in it.
IgnoresPending(observed, maximum) ==
    LET live == Live(record.pending)
        before == IF live = <<>> THEN observed ELSE record.observed
        rest == Unreflected(live, before, observed)
        allowed == observed < maximum
        pending == IF allowed THEN Append(rest, TTL) ELSE rest
    IN  [allowed |-> allowed,
         record |-> IF pending = <<>> THEN NoRecord
                    ELSE [observed |-> observed, pending |-> pending]]

RecordsTotal(observed, maximum) ==
    LET live == Live(record.pending)
        before == IF live = <<>> THEN observed ELSE record.observed
        rest == Unreflected(live, before, observed)
        allowed == observed + Len(rest) < maximum
        pending == IF allowed THEN Append(rest, TTL) ELSE rest
    IN  [allowed |-> allowed,
         record |-> IF pending = <<>> THEN NoRecord
                    ELSE [observed |-> observed + Len(pending), pending |-> pending]]

\* reserve_device_admission: the answer and the record it saves.
Reserved(observed, maximum) ==
    LET live == Live(record.pending)
        before == IF live = <<>> THEN observed ELSE record.observed
        rest == Unreflected(live, before, observed)
        allowed == observed + Len(rest) < maximum
        pending == IF allowed THEN Append(rest, TTL) ELSE rest
    IN  [allowed |-> allowed,
         record |-> IF pending = <<>> THEN NoRecord
                    ELSE [observed |-> observed, pending |-> pending]]

Reserve(d) ==
    LET result == Reserved(req[d].count, req[d].limit)
    IN  /\ AtStep(d, "reserve")
        /\ record' = result.record
        /\ IF result.allowed
           THEN req' = [req EXCEPT ![d].pc = "answer"] /\ UNCHANGED world
           ELSE Refuse(d)
        /\ UNCHANGED <<limit, snapshot, bounds, blind>>

\* The save fails before or after the new file is in place.
ReserveFails(d) ==
    /\ AtStep(d, "reserve")
    /\ Fault("save")
    /\ record' \in {record, Reserved(req[d].count, req[d].limit).record}
    /\ Refuse(d)
    /\ UNCHANGED <<limit, snapshot, blind>>

\* The policy is read again: a request that began under another one is refused.
\* Its reservation stays.
Answer(d) ==
    /\ AtStep(d, "answer")
    /\ IF req[d].limit = limit
       THEN /\ device' = [device EXCEPT ![d] = "admitted"]
            /\ lag' = [lag EXCEPT ![d] = MaxLag]
            /\ req' = [req EXCEPT ![d].pc = "idle", ![d].count = 0]
       ELSE Refuse(d)
    /\ UNCHANGED <<limit, record, snapshot, bounds, blind>>

\* The deadline passes, or the service dies.
TimesOut(d) ==
    /\ ~ AtStep(d, "idle")
    /\ Fault("deadline")
    /\ Refuse(d)
    /\ UNCHANGED <<limit, record, snapshot, blind>>

-----------------------------------------------------------------------------
(* Hysteria, the clients, the limiter and the administrator.               *)

Report(d) ==
    /\ device[d] = "admitted"
    /\ device' = [device EXCEPT ![d] = "online"]
    /\ lag' = [lag EXCEPT ![d] = 0]
    /\ UNCHANGED <<limit, record, snapshot, req, bounds, blind>>

\* A device disconnects, or never comes.
Leave(d) ==
    /\ d \in Using
    /\ departures < MaxDepartures
    /\ departures' = departures + 1
    /\ device' = [device EXCEPT ![d] = "away"]
    /\ lag' = [lag EXCEPT ![d] = 0]
    /\ UNCHANGED <<limit, record, snapshot, req, faults, edits, blind>>

\* refresh_online_snapshot.  Only a run whose API fails ever looks at it.
Capture ==
    /\ "api" \in FaultKinds
    /\ snapshot' = [count |-> Online, left |-> TTL]
    /\ UNCHANGED <<limit, record, world, req, bounds, blind>>

EditLimit ==
    /\ edits < MaxEdits
    /\ edits' = edits + 1
    /\ limit' \in Limits \ {limit}
    /\ UNCHANGED <<record, snapshot, world, req, faults, departures, blind>>

Less(n) == IF n = 0 THEN 0 ELSE n - 1

Tick ==
    /\ \A d \in Devices : AtStep(d, "idle")
    /\ \A d \in Where("admitted") : lag[d] > 0
    /\ record' = [record EXCEPT !.pending = [i \in 1 .. Len(@) |-> Less(@[i])]]
    /\ snapshot' = [snapshot EXCEPT !.left = Less(@)]
    /\ lag' = [d \in Devices |-> Less(lag[d])]
    /\ UNCHANGED <<limit, device, req, bounds, blind>>

RequestStep(d) ==
    \/ CountLive(d) \/ CountFromSnapshot(d)
    \/ Reserve(d) \/ ReserveFails(d)
    \/ Answer(d) \/ TimesOut(d)

Next ==
    \/ \E d \in Devices : Ask(d) \/ RequestStep(d) \/ Report(d) \/ Leave(d)
    \/ Capture \/ EditLimit \/ Tick

Spec == Init /\ [][Next]_vars

\* A device that was refused tries again, requests are served, Hysteria reports, and
\* time passes: requests are short enough to leave a moment without any.
Fairness ==
    /\ \A d \in Devices : WF_vars(Ask(d)) /\ WF_vars(RequestStep(d)) /\ WF_vars(Report(d))
    /\ SF_vars(Tick)
    /\ []<>(\A d \in Devices : AtStep(d, "idle"))

FairSpec == Spec /\ Fairness

-----------------------------------------------------------------------------
(* Properties.                                                             *)

\* Nobody is admitted beyond the limit, counting the devices that Hysteria does not
\* report yet, as long as the live count answers (reserve_device_admission).  Devices
\* admitted under a higher limit stay.
AdmissionsRespectLimit ==
    [][\A d \in Devices : device[d] # "admitted" /\ device'[d] = "admitted" /\ ~blind
         => Cardinality(Using') <= limit]_vars

\* Refusals are brief: once nobody leaves any more, every slot is taken in the end,
\* whatever reservations were left behind (DEVICE_ADMISSION_TTL_SECONDS).
SlotsFillUp == <>[](Cardinality(Where("online")) >= limit \/ Where("online") = Devices)
=============================================================================
