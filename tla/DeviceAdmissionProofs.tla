------------------------- MODULE DeviceAdmissionProofs -------------------------
(***************************************************************************)
(* The device limit, for any devices, bounds and lags: when requests are   *)
(* served in turn and reports come in time, no answer takes the devices    *)
(* that are in use beyond the limit.                                       *)
(***************************************************************************)
EXTENDS DeviceAdmission, FiniteSetTheorems, SequenceTheorems, TLAPS

\* Requests are served one at a time, and Hysteria reports a device while a reservation made with
\* it has more than half of its life to go.
InTurn == Threads = 1
ReportsInTime == 2 * MaxLag < TTL

-----------------------------------------------------------------------------
(* What is left of the reservations.                                         *)

\* The last n reservations have that many ticks to go.
Lasts(pending, n, left) ==
    /\ n <= Len(pending)
    /\ \A i \in 1 .. Len(pending) : i > Len(pending) - n => pending[i] >= left

LEMMA Interval ==
  ASSUME NEW n \in Nat PROVE IsFiniteSet(1 .. n) /\ Cardinality(1 .. n) = n
  <1>1. IsFiniteSet(1 .. n) /\ Cardinality(1 .. n) = IF 1 > n THEN 0 ELSE n - 1 + 1
    BY FS_Interval
  <1> QED BY <1>1

LEMMA LastsLess ==
  ASSUME NEW pending \in Seq(0 .. TTL), NEW n \in Int, NEW left \in Int, Lasts(pending, n, left),
         NEW m \in Int, m <= n, NEW less \in Int, less <= left
  PROVE  Lasts(pending, m, less)
  <1>1. Len(pending) \in Nat /\ \A i \in 1 .. Len(pending) : pending[i] \in Int
    BY LenProperties, ElementOfSeq, AdmissionAssumption
  <1> QED BY <1>1 DEF Lasts

LEMMA LastsNone ==
  ASSUME NEW pending \in Seq(0 .. TTL), NEW n \in Int, n <= 0, NEW left
  PROVE  Lasts(pending, n, left)
  <1>1. Len(pending) \in Nat
    BY LenProperties
  <1> QED BY <1>1 DEF Lasts

LEMMA LastsMore ==
  ASSUME NEW pending \in Seq(0 .. TTL), NEW n \in Int, NEW left \in Int, left <= TTL,
         Lasts(pending, n, left)
  PROVE  Append(pending, TTL) \in Seq(0 .. TTL) /\ Lasts(Append(pending, TTL), n + 1, left)
  <1>1. TTL \in Nat /\ TTL \in 0 .. TTL
    BY AdmissionAssumption
  <1>2. /\ Append(pending, TTL) \in Seq(0 .. TTL) /\ Len(Append(pending, TTL)) = Len(pending) + 1
        /\ \A i \in 1 .. Len(pending) : Append(pending, TTL)[i] = pending[i]
        /\ Append(pending, TTL)[Len(pending) + 1] = TTL
    BY <1>1, AppendProperties
  <1>3. Len(pending) \in Nat
    BY LenProperties
  <1> QED BY <1>1, <1>2, <1>3 DEF Lasts

\* Dropping the oldest leaves the last ones.
LEMMA LastsDropped ==
  ASSUME NEW pending \in Seq(0 .. TTL), NEW k \in Nat, NEW n \in Int, NEW left,
         Lasts(pending, n, left), n <= Len(pending) - k \/ n <= 0
  PROVE  LET rest == SubSeq(pending, 1 + k, Len(pending))
         IN  /\ rest \in Seq(0 .. TTL) /\ Lasts(rest, n, left)
             /\ Len(rest) = IF k <= Len(pending) THEN Len(pending) - k ELSE 0
  <1> DEFINE rest == SubSeq(pending, 1 + k, Len(pending))
  <1>1. Len(pending) \in Nat
    BY LenProperties
  <1>2. \A i \in 1 + k .. Len(pending) : pending[i] \in 0 .. TTL
    <2>1. 1 + k .. Len(pending) \subseteq 1 .. Len(pending)
      BY <1>1
    <2> QED BY <2>1, ElementOfSeq
  <1>3. /\ rest \in Seq(0 .. TTL)
        /\ Len(rest) = IF 1 + k <= Len(pending) THEN Len(pending) - (1 + k) + 1 ELSE 0
        /\ \A i \in 1 .. Len(pending) - (1 + k) + 1 : rest[i] = pending[1 + k + i - 1]
    BY <1>1, <1>2, SubSeqProperties
  <1> HIDE DEF rest
  <1>4. Lasts(rest, n, left)
    BY <1>1, <1>3 DEF Lasts
  <1> QED BY <1>1, <1>3, <1>4 DEF rest

\* What has ticks to go does not expire.
LEMMA LastsLive ==
  ASSUME NEW pending \in Seq(0 .. TTL), NEW n \in Int, NEW left \in Int, left > 0,
         Lasts(pending, n, left)
  PROVE  Lasts(Live(pending), n, left)
  <1> DEFINE expired == {i \in DOMAIN pending : pending[i] = 0}
  <1>1. Len(pending) \in Nat /\ DOMAIN pending = 1 .. Len(pending)
    BY LenProperties
  <1>2. IsFiniteSet(1 .. Len(pending)) /\ Cardinality(1 .. Len(pending)) = Len(pending)
    BY <1>1, Interval
  <1>3. Cardinality(expired) \in Nat
    <2>1. expired \in SUBSET (1 .. Len(pending))
      BY <1>1
    <2> QED BY <1>2, <2>1, FS_Subset, FS_CardinalityType
  <1>4. n > 0 => Cardinality(expired) <= Len(pending) - n
    <2> SUFFICES ASSUME n > 0 PROVE Cardinality(expired) <= Len(pending) - n
      OBVIOUS
    <2>1. n <= Len(pending)
      BY DEF Lasts
    <2>2. IsFiniteSet(1 .. Len(pending) - n) /\ Cardinality(1 .. Len(pending) - n) = Len(pending) - n
      <3>1. Len(pending) - n \in Nat
        BY <1>1, <2>1
      <3> QED BY <3>1, Interval
    <2>3. expired \in SUBSET (1 .. Len(pending) - n)
      BY <1>1 DEF Lasts
    <2> QED BY <2>2, <2>3, FS_Subset
  <1> HIDE DEF expired
  <1>5. Live(pending) = SubSeq(pending, 1 + Cardinality(expired), Len(pending))
    BY DEF Live, expired
  <1>6. n <= Len(pending) - Cardinality(expired) \/ n <= 0
    BY <1>1, <1>3, <1>4
  <1> QED BY <1>3, <1>5, <1>6, LastsDropped

LEMMA LiveTypes == ASSUME NEW pending \in Seq(0 .. TTL) PROVE Live(pending) \in Seq(0 .. TTL)
  <1> DEFINE expired == {i \in DOMAIN pending : pending[i] = 0}
  <1>1. Len(pending) \in Nat /\ DOMAIN pending = 1 .. Len(pending)
    BY LenProperties
  <1>2. IsFiniteSet(1 .. Len(pending)) /\ expired \in SUBSET (1 .. Len(pending))
    BY <1>1, Interval
  <1>3. Cardinality(expired) \in Nat
    BY <1>2, FS_Subset, FS_CardinalityType
  <1> HIDE DEF expired
  <1>4. Lasts(pending, 0, 0)
    BY LastsNone
  <1>5. Live(pending) = SubSeq(pending, 1 + Cardinality(expired), Len(pending))
    BY DEF Live, expired
  <1>6. SubSeq(pending, 1 + Cardinality(expired), Len(pending)) \in Seq(0 .. TTL)
    <2> DEFINE k == Cardinality(expired)
    <2> SUFFICES ASSUME k \in Nat PROVE SubSeq(pending, 1 + k, Len(pending)) \in Seq(0 .. TTL)
      BY <1>3
    <2> HIDE DEF k
    <2> QED BY <1>4, LastsDropped
  <1> QED BY <1>5, <1>6

LEMMA LastsTick ==
  ASSUME NEW pending \in Seq(0 .. TTL), NEW n \in Int, NEW left \in Nat,
         Lasts(pending, n, left + 1)
  PROVE  Lasts([i \in 1 .. Len(pending) |-> Less(pending[i])], n, left)
  <1> DEFINE later == [i \in 1 .. Len(pending) |-> Less(pending[i])]
  <1>1. Len(pending) \in Nat /\ \A i \in 1 .. Len(pending) : pending[i] \in Nat
    BY LenProperties, ElementOfSeq, AdmissionAssumption
  <1>2. Len(later) = Len(pending)
    BY <1>1
  <1>3. \A i \in 1 .. Len(pending) : pending[i] >= left + 1 => later[i] >= left
    BY <1>1 DEF Less
  <1> HIDE DEF later
  <1>4. Lasts(later, n, left)
    BY <1>1, <1>2, <1>3 DEF Lasts
  <1> QED BY <1>4 DEF later

LEMMA TickTypes ==
  ASSUME NEW pending \in Seq(0 .. TTL)
  PROVE  [i \in 1 .. Len(pending) |-> Less(pending[i])] \in Seq(0 .. TTL)
  <1>1. Len(pending) \in Nat /\ \A i \in 1 .. Len(pending) : pending[i] \in 0 .. TTL
    BY LenProperties, ElementOfSeq
  <1>2. \A i \in 1 .. Len(pending) : Less(pending[i]) \in 0 .. TTL
    BY <1>1, AdmissionAssumption DEF Less
  <1> QED BY <1>1, <1>2

-----------------------------------------------------------------------------
(* Every admitted device that is not reported yet is covered by a            *)
(* reservation that outlives its report, and the devices that are connected  *)
(* by what was observed and the reservations that outlive all of these.      *)

Unreported == Where("admitted")
Late(l) == {d \in Unreported : lag[d] >= l}
Stand(pending) == \A l \in 0 .. MaxLag : Lasts(pending, Cardinality(Late(l)), TTL - MaxLag + l)

RecordCovers ==
    /\ Stand(record.pending)
    /\ \A d \in Unreported :
         Lasts(record.pending, Cardinality(Using) - record.observed, lag[d] + 1)

\* What reserve_device_admission leaves of the reservations when it is told the count.
Rest(observed) ==
    LET live == Live(record.pending)
    IN Unreflected(live, IF live = <<>> THEN observed ELSE record.observed, observed)

CountCovers(d) ==
    AtStep(d, "reserve") =>
        /\ Stand(Rest(req[d].count))
        /\ Lasts(Rest(req[d].count), Cardinality(Using) - req[d].count, MaxLag + 1)

AnswerCovers(d) ==
    AtStep(d, "answer") =>
        /\ Cardinality(Using) + 1 <= req[d].limit
        /\ \A l \in 0 .. MaxLag :
             Lasts(record.pending, Cardinality(Late(l)) + 1, TTL - MaxLag + l)
        /\ Lasts(record.pending, Cardinality(Using) + 1 - record.observed, MaxLag + 1)

OneInHand ==
    /\ \A d \in Devices : device[d] = "asking" <=> ~AtStep(d, "idle")
    /\ \A d, e \in Devices : ~AtStep(d, "idle") /\ ~AtStep(e, "idle") => d = e

Covered == RecordCovers /\ \A d \in Devices : CountCovers(d) /\ AnswerCovers(d)

LEMMA SomeDevices ==
  ASSUME NEW place PROVE IsFiniteSet(Where(place)) /\ Cardinality(Where(place)) \in 0 .. Cardinality(Devices)
  <1>1. Where(place) \in SUBSET Devices
    BY DEF Where
  <1> QED BY <1>1, FS_Subset, FS_CardinalityType, AdmissionAssumption

LEMMA DeviceCounts ==
  /\ IsFiniteSet(Unreported) /\ IsFiniteSet(Using)
  /\ Cardinality(Unreported) \in Nat /\ Online \in Nat
  /\ Cardinality(Using) = Cardinality(Unreported) + Online
  /\ \A l \in 0 .. MaxLag : /\ IsFiniteSet(Late(l)) /\ Cardinality(Late(l)) \in Nat
                            /\ Cardinality(Late(l)) <= Cardinality(Unreported)
  <1>1. IsFiniteSet(Devices)
    BY AdmissionAssumption
  <1>2. /\ IsFiniteSet(Unreported) /\ Cardinality(Unreported) \in Nat
        /\ IsFiniteSet(Where("online")) /\ Online \in Nat
    BY <1>1, SomeDevices, FS_CardinalityType DEF Unreported, Online
  <1>3. Unreported \cap Where("online") = {}
    BY DEF Unreported, Where
  <1>4. /\ IsFiniteSet(Using)
        /\ Cardinality(Using) = Cardinality(Unreported) + Online - Cardinality({})
    BY <1>2, <1>3, FS_Union DEF Using, Online, Unreported
  <1>5. Cardinality({}) = 0
    BY FS_EmptySet
  <1>6. ASSUME NEW l \in 0 .. MaxLag
        PROVE  /\ IsFiniteSet(Late(l)) /\ Cardinality(Late(l)) \in Nat
               /\ Cardinality(Late(l)) <= Cardinality(Unreported)
    <2>1. Late(l) \in SUBSET Unreported
      BY DEF Late
    <2> QED BY <1>2, <2>1, FS_Subset, FS_CardinalityType
  <1> QED BY <1>2, <1>4, <1>5, <1>6

LEMMA OneMoreDevice ==
  ASSUME NEW S, IsFiniteSet(S), NEW x
  PROVE  /\ Cardinality(S \cup {x}) <= Cardinality(S) + 1
         /\ Cardinality(S \cup {x}) \in Nat /\ Cardinality(S) \in Nat
  <1>1. IsFiniteSet(S \cup {x}) /\ Cardinality(S \cup {x}) =
          IF x \in S THEN Cardinality(S) ELSE Cardinality(S) + 1
    BY FS_AddElement
  <1>2. Cardinality(S \cup {x}) \in Nat /\ Cardinality(S) \in Nat
    BY <1>1, FS_CardinalityType
  <1> QED BY <1>1, <1>2

\* A device that leaves or is reported needs nothing more.
LEMMA FewerDevices ==
  ASSUME TypeOK, Unreported' \subseteq Unreported, Using' \subseteq Using,
         \A d \in Unreported' : lag'[d] = lag[d]
  PROVE  /\ Cardinality(Using)' \in Nat /\ Cardinality(Using)' <= Cardinality(Using)
         /\ \A l \in 0 .. MaxLag : /\ Cardinality(Late(l))' \in Nat
                                   /\ Cardinality(Late(l))' <= Cardinality(Late(l))
  <1>1. IsFiniteSet(Using) /\ Using' \in SUBSET Using
    BY DeviceCounts
  <1>2. ASSUME NEW l \in 0 .. MaxLag
        PROVE  /\ Cardinality(Late(l))' \in Nat
               /\ Cardinality(Late(l))' <= Cardinality(Late(l))
    <2>1. Late(l)' \in SUBSET Late(l)
      BY DEF Late
    <2> QED BY <2>1, DeviceCounts, FS_Subset, FS_CardinalityType
  <1> QED BY <1>1, <1>2, FS_Subset, FS_CardinalityType

LEMMA Ticks ==
  /\ TTL \in Nat \ {0} /\ MaxLag \in Nat /\ Threads \in Nat
  /\ ReportsInTime => \A l \in 0 .. MaxLag : /\ TTL - MaxLag + l \in Nat \ {0}
                                             /\ TTL - MaxLag + l <= TTL
                                             /\ MaxLag + 1 <= TTL - MaxLag + l
                                             /\ MaxLag + 1 <= TTL
  BY AdmissionAssumption DEF ReportsInTime

LEMMA RecordTypes == 
  ASSUME TypeOK
  PROVE  /\ record.pending \in Seq(0 .. TTL) /\ record.observed \in Nat
         /\ record.observed \in 0 .. Cardinality(Devices)
         /\ \A d \in Devices : lag[d] \in 0 .. MaxLag
  BY AdmissionAssumption, FS_CardinalityType DEF TypeOK, Record

LEMMA RestTypes ==
  ASSUME TypeOK, NEW observed \in Nat PROVE Rest(observed) \in Seq(0 .. TTL)
  <1> DEFINE live == Live(record.pending)
             before == IF live = <<>> THEN observed ELSE record.observed
  <1>1. live \in Seq(0 .. TTL) /\ before \in Nat
    BY RecordTypes, LiveTypes
  <1>2. Rest(observed) = Unreflected(live, before, observed)
    BY DEF Rest
  <1> HIDE DEF live, before
  <1>3. CASE observed <= before
    BY <1>1, <1>2, <1>3 DEF Unreflected
  <1>4. CASE ~(observed <= before)
    <2>1. Rest(observed) = SubSeq(live, 1 + (observed - before), Len(live))
      BY <1>1, <1>2, <1>4 DEF Unreflected
    <2>2. observed - before \in Nat /\ Lasts(live, 0, 0)
      BY <1>1, <1>4, LastsNone
    <2> DEFINE k == observed - before
    <2> SUFFICES ASSUME k \in Nat PROVE SubSeq(live, 1 + k, Len(live)) \in Seq(0 .. TTL)
      BY <2>1, <2>2
    <2> HIDE DEF k
    <2> QED BY <1>1, <2>2, LastsDropped
  <1> QED BY <1>3, <1>4

\* The step that asks Hysteria: what the count does not show the reservations do.
LEMMA CountingCovers ==
  ASSUME TypeOK, ReportsInTime, RecordCovers
  PROVE  Stand(Rest(Online)) /\ Lasts(Rest(Online), Cardinality(Using) - Online, MaxLag + 1)
  <1> DEFINE live == Live(record.pending)
             before == IF live = <<>> THEN Online ELSE record.observed
             waiting == Cardinality(Unreported)
  <1>1. /\ Online \in Nat /\ waiting \in Nat /\ Cardinality(Using) = waiting + Online
        /\ \A l \in 0 .. MaxLag : Cardinality(Late(l)) \in Nat /\ Cardinality(Late(l)) <= waiting
    BY DeviceCounts
  <1>2. /\ record.pending \in Seq(0 .. TTL) /\ record.observed \in Nat /\ live \in Seq(0 .. TTL)
        /\ before \in Nat /\ Len(live) \in Nat
    BY <1>1, RecordTypes, LiveTypes, LenProperties
  <1>3. Rest(Online) = Unreflected(live, before, Online)
    BY DEF Rest
  <1>4. live # <<>> => before = record.observed
    OBVIOUS
  <1>5. live = <<>> => before = Online /\ Len(live) = 0
    OBVIOUS
  <1>6. \A l \in 0 .. MaxLag : Lasts(live, Cardinality(Late(l)), TTL - MaxLag + l)
    <2> SUFFICES ASSUME NEW l \in 0 .. MaxLag
                 PROVE  Lasts(live, Cardinality(Late(l)), TTL - MaxLag + l)
      OBVIOUS
    <2>1. Lasts(record.pending, Cardinality(Late(l)), TTL - MaxLag + l)
      BY DEF RecordCovers, Stand
    <2>2. TTL - MaxLag + l \in Int /\ TTL - MaxLag + l > 0
      BY Ticks
    <2> QED BY <1>1, <1>2, <2>1, <2>2, LastsLive
  <1>7. waiting > 0 => waiting <= Len(live) /\ waiting + Online - record.observed <= Len(live)
    <2> SUFFICES ASSUME waiting > 0
                 PROVE  waiting <= Len(live) /\ waiting + Online - record.observed <= Len(live)
      OBVIOUS
    <2>1. Late(0) = Unreported
      BY RecordTypes DEF Late, Unreported, Where
    <2>2. waiting <= Len(live)
      BY <1>6, <2>1, Ticks DEF Lasts
    <2>3. PICK d : d \in Unreported
      BY FS_EmptySet
    <2>4. lag[d] + 1 \in Int /\ lag[d] + 1 > 0
      BY <2>3, RecordTypes DEF Unreported, Where
    <2>5. Lasts(record.pending, waiting + Online - record.observed, lag[d] + 1)
      <3>1. Lasts(record.pending, Cardinality(Using) - record.observed, lag[d] + 1)
        BY <2>3 DEF RecordCovers
      <3>2. Cardinality(Using) - record.observed = waiting + Online - record.observed
        BY <1>1, <1>2
      <3> QED BY <3>1, <3>2
    <2>6. Lasts(live, waiting + Online - record.observed, lag[d] + 1)
      BY <1>1, <1>2, <2>4, <2>5, LastsLive
    <2> QED BY <2>2, <2>6 DEF Lasts
  <1> HIDE DEF live, before, waiting
  <1>8. ASSUME NEW l \in 0 .. MaxLag
        PROVE  Lasts(Rest(Online), Cardinality(Late(l)), TTL - MaxLag + l)
    <2>1. CASE Online <= before
      BY <1>3, <1>6, <2>1 DEF Unreflected
    <2>2. CASE ~(Online <= before)
      <3>1. Rest(Online) = SubSeq(live, 1 + (Online - before), Len(live))
        BY <1>1, <1>2, <1>3, <2>2 DEF Unreflected
      <3>2. Online - before \in Nat /\ before = record.observed
        BY <1>1, <1>2, <1>4, <1>5, <2>2
      <3>3. \/ Cardinality(Late(l)) <= Len(live) - (Online - before)
            \/ Cardinality(Late(l)) <= 0
        <4>1. CASE waiting > 0
          <5>1. waiting + Online - record.observed <= Len(live)
            BY <1>7, <4>1
          <5>2. Cardinality(Late(l)) <= waiting
            BY <1>1
          <5>3. /\ Cardinality(Late(l)) \in Nat /\ waiting \in Nat /\ Online \in Nat
                /\ before \in Nat /\ before = record.observed /\ Len(live) \in Nat
            BY <1>1, <1>2, <3>2
          <5> QED BY <5>1, <5>2, <5>3
        <4>2. CASE ~(waiting > 0)
          BY <1>1, <4>2
        <4> QED BY <4>1, <4>2
      <3> DEFINE k == Online - before
                 n == Cardinality(Late(l))
                 left == TTL - MaxLag + l
      <3>4. k \in Nat /\ n \in Int /\ Lasts(live, n, left) /\ (n <= Len(live) - k \/ n <= 0)
        BY <1>1, <1>6, <3>2, <3>3
      <3> SUFFICES Lasts(SubSeq(live, 1 + k, Len(live)), n, left)
        BY <3>1
      <3> HIDE DEF k, n, left
      <3> QED BY <1>2, <3>4, LastsDropped
    <2> QED BY <2>1, <2>2
  <1>9. Lasts(Rest(Online), waiting, MaxLag + 1)
    <2>1. Late(0) = Unreported
      BY RecordTypes DEF Late, Unreported, Where
    <2>2. Lasts(Rest(Online), waiting, TTL - MaxLag + 0)
      BY <1>8, <2>1, Ticks DEF waiting
    <2>3. MaxLag + 1 \in Int /\ TTL - MaxLag + 0 \in Int /\ MaxLag + 1 <= TTL - MaxLag + 0
      BY Ticks
    <2> QED BY <1>1, <2>2, <2>3, RestTypes, LastsLess
  <1>10. Cardinality(Using) - Online = waiting
    BY <1>1
  <1> QED BY <1>8, <1>9, <1>10 DEF Stand

-----------------------------------------------------------------------------
(* What the steps do.                                                        *)

\* While neither the record nor the request changes, fewer devices are covered as well.
LEMMA StillCovered ==
  ASSUME TypeOK, ReportsInTime, Covered, UNCHANGED record,
         Unreported' \subseteq Unreported, Using' \subseteq Using,
         \A d \in Unreported' : lag'[d] = lag[d]
  PROVE  /\ RecordCovers'
         /\ \A d \in Devices : req'[d] = req[d] => CountCovers(d)' /\ AnswerCovers(d)'
  <1>1. /\ Cardinality(Using)' \in Nat /\ Cardinality(Using) \in Nat
        /\ Cardinality(Using)' <= Cardinality(Using)
        /\ \A l \in 0 .. MaxLag : /\ Cardinality(Late(l))' \in Nat /\ Cardinality(Late(l)) \in Nat
                                  /\ Cardinality(Late(l))' <= Cardinality(Late(l))
    BY FewerDevices, DeviceCounts
  <1>2. /\ record.pending \in Seq(0 .. TTL) /\ record.observed \in Nat
        /\ \A d \in Devices : lag[d] \in Nat
    BY RecordTypes
  <1>3. ASSUME NEW pending \in Seq(0 .. TTL), Stand(pending)
        PROVE  \A l \in 0 .. MaxLag : Lasts(pending, Cardinality(Late(l))', TTL - MaxLag + l)
    <2> SUFFICES ASSUME NEW l \in 0 .. MaxLag
                 PROVE  Lasts(pending, Cardinality(Late(l))', TTL - MaxLag + l)
      OBVIOUS
    <2>1. TTL - MaxLag + l \in Int
      BY Ticks
    <2>2. Lasts(pending, Cardinality(Late(l)), TTL - MaxLag + l)
      BY <1>3 DEF Stand
    <2> QED BY <1>1, <2>1, <2>2, LastsLess
  <1>4. RecordCovers'
    <2>1. ASSUME NEW d \in Unreported'
          PROVE  Lasts(record.pending, Cardinality(Using)' - record.observed, lag'[d] + 1)
      <3>1. d \in Unreported /\ lag'[d] = lag[d] /\ lag[d] + 1 \in Int
        BY <1>2 DEF Unreported, Where
      <3>2. Lasts(record.pending, Cardinality(Using) - record.observed, lag[d] + 1)
        BY <3>1 DEF Covered, RecordCovers
      <3>3. /\ Cardinality(Using)' - record.observed \in Int
            /\ Cardinality(Using) - record.observed \in Int
            /\ Cardinality(Using)' - record.observed <= Cardinality(Using) - record.observed
        BY <1>1, <1>2
      <3> QED BY <1>2, <3>1, <3>2, <3>3, LastsLess
    <2>2. Stand(record.pending)'
      BY <1>2, <1>3 DEF Covered, RecordCovers, Stand
    <2> QED BY <2>1, <2>2 DEF RecordCovers
  <1>5. ASSUME NEW d \in Devices, req'[d] = req[d] PROVE CountCovers(d)'
    <2> SUFFICES ASSUME AtStep(d, "reserve")
                 PROVE  /\ Stand(Rest(req[d].count))'
                        /\ Lasts(Rest(req[d].count), Cardinality(Using) - req[d].count, MaxLag + 1)'
      BY <1>5 DEF CountCovers, AtStep
    <2>1. req[d].count \in Nat
      BY SomeDevices DEF TypeOK, Request
    <2>2. PICK rest \in Seq(0 .. TTL) : rest = Rest(req[d].count)
      BY <2>1, RestTypes
    <2>3. rest = Rest(req[d].count)' /\ req'[d].count = req[d].count
      BY <1>5, <2>2 DEF Rest
    <2>4. Stand(rest) /\ Lasts(rest, Cardinality(Using) - req[d].count, MaxLag + 1)
      BY <2>2 DEF Covered, CountCovers
    <2>5. /\ Cardinality(Using)' - req[d].count \in Int /\ Cardinality(Using) - req[d].count \in Int
          /\ Cardinality(Using)' - req[d].count <= Cardinality(Using) - req[d].count
          /\ MaxLag + 1 \in Int
      BY <1>1, <2>1, Ticks
    <2>6. Lasts(rest, Cardinality(Using)' - req[d].count, MaxLag + 1)
      BY <2>4, <2>5, LastsLess
    <2>7. \A l \in 0 .. MaxLag : Lasts(rest, Cardinality(Late(l))', TTL - MaxLag + l)
      BY <1>3, <2>4
    <2>8. Stand(Rest(req[d].count))'
      BY <2>3, <2>7 DEF Stand
    <2> QED BY <2>3, <2>6, <2>8
  <1>6. ASSUME NEW d \in Devices, req'[d] = req[d] PROVE AnswerCovers(d)'
    <2> SUFFICES ASSUME AtStep(d, "answer")
                 PROVE  /\ Cardinality(Using)' + 1 <= req[d].limit
                        /\ \A l \in 0 .. MaxLag :
                             Lasts(record.pending, Cardinality(Late(l))' + 1, TTL - MaxLag + l)
                        /\ Lasts(record.pending, Cardinality(Using)' + 1 - record.observed, MaxLag + 1)
      BY <1>6 DEF AnswerCovers, AtStep
    <2>1. req[d].limit \in Nat
      BY AdmissionAssumption DEF TypeOK, Request
    <2>2. /\ Cardinality(Using) + 1 <= req[d].limit
          /\ \A l \in 0 .. MaxLag :
               Lasts(record.pending, Cardinality(Late(l)) + 1, TTL - MaxLag + l)
          /\ Lasts(record.pending, Cardinality(Using) + 1 - record.observed, MaxLag + 1)
      BY DEF Covered, AnswerCovers
    <2>3. Cardinality(Using)' + 1 <= req[d].limit
      BY <1>1, <2>1, <2>2
    <2>4. ASSUME NEW l \in 0 .. MaxLag
          PROVE  Lasts(record.pending, Cardinality(Late(l))' + 1, TTL - MaxLag + l)
      <3>1. /\ Cardinality(Late(l))' + 1 \in Int /\ Cardinality(Late(l)) + 1 \in Int
            /\ Cardinality(Late(l))' + 1 <= Cardinality(Late(l)) + 1 /\ TTL - MaxLag + l \in Int
        BY <1>1, Ticks
      <3> QED BY <1>2, <2>2, <3>1, LastsLess
    <2>5. /\ Cardinality(Using)' + 1 - record.observed \in Int
          /\ Cardinality(Using) + 1 - record.observed \in Int /\ MaxLag + 1 \in Int
          /\ Cardinality(Using)' + 1 - record.observed <= Cardinality(Using) + 1 - record.observed
      BY <1>1, <1>2, Ticks
    <2>6. Lasts(record.pending, Cardinality(Using)' + 1 - record.observed, MaxLag + 1)
      BY <1>2, <2>2, <2>5, LastsLess
    <2> QED BY <2>3, <2>4, <2>6
  <1> QED BY <1>4, <1>5, <1>6

\* A request that is refused, in any way.
LEMMA Refused ==
  ASSUME TypeOK, OneInHand, NEW d \in Devices, ~AtStep(d, "idle"), Refuse(d)
  PROVE  /\ device' \in [Devices -> {"away", "asking", "admitted", "online"}]
         /\ req' \in [Devices -> Request] /\ UNCHANGED lag /\ OneInHand'
         /\ Unreported' = Unreported /\ Using' = Using
         /\ \A e \in Devices : AtStep(e, "idle")'
  <1>1. device' = [device EXCEPT ![d] = "away"] /\ UNCHANGED lag
    BY DEF Refuse
  <1>2. req' = [req EXCEPT ![d] = [@ EXCEPT !.pc = "idle", !.count = 0]]
    BY DEF Refuse, TypeOK, Request
  <1>3. 0 \in 0 .. Cardinality(Devices)
    BY AdmissionAssumption, FS_CardinalityType
  <1>4. req' \in [Devices -> Request] /\ req'[d].pc = "idle" /\ \A e \in Devices \ {d} : req'[e] = req[e]
    BY <1>2, <1>3 DEF TypeOK, Request
  <1>5. device[d] = "asking" /\ \A e \in Devices \ {d} : AtStep(e, "idle")
    BY DEF OneInHand
  <1>6. \A e \in Devices : AtStep(e, "idle")'
    BY <1>4, <1>5 DEF AtStep
  <1>7. /\ device' \in [Devices -> {"away", "asking", "admitted", "online"}] /\ device'[d] = "away"
        /\ \A e \in Devices \ {d} : device'[e] = device[e]
    BY <1>1 DEF TypeOK
  <1>8. OneInHand'
    BY <1>5, <1>6, <1>7 DEF OneInHand
  <1>9. Unreported' = Unreported /\ Using' = Using
    BY <1>5, <1>7 DEF Unreported, Using, Where
  <1> QED BY <1>1, <1>4, <1>6, <1>7, <1>8, <1>9

LEMMA IdleCovered ==
  ASSUME \A e \in Devices : AtStep(e, "idle"), RecordCovers PROVE Covered
  BY DEF Covered, CountCovers, AnswerCovers, AtStep

LEMMA RefusedCovered ==
  ASSUME TypeOK, ReportsInTime, OneInHand, Covered, NEW d \in Devices, ~AtStep(d, "idle"), Refuse(d),
         UNCHANGED record
  PROVE  Covered'
  <1>1. /\ UNCHANGED lag /\ Unreported' = Unreported /\ Using' = Using
        /\ \A e \in Devices : AtStep(e, "idle")'
    BY Refused
  <1>2. RecordCovers'
    BY <1>1, StillCovered
  <1> QED BY <1>1, <1>2 DEF Covered, CountCovers, AnswerCovers, AtStep

\* What reserve_device_admission saves.
LEMMA ReservedTypes ==
  ASSUME TypeOK, NEW observed \in 0 .. Cardinality(Devices), NEW maximum
  PROVE  LET result == Reserved(observed, maximum)
             pending == IF result.allowed THEN Append(Rest(observed), TTL) ELSE Rest(observed)
         IN  /\ (result.allowed <=> observed + Len(Rest(observed)) < maximum)
             /\ result.record = IF pending = <<>> THEN NoRecord
                                ELSE [observed |-> observed, pending |-> pending]
             /\ result.record \in Record
             /\ Rest(observed) \in Seq(0 .. TTL) /\ pending \in Seq(0 .. TTL)
  <1> DEFINE rest == Rest(observed)
             allowed == observed + Len(rest) < maximum
             pending == IF allowed THEN Append(rest, TTL) ELSE rest
  <1>1. observed \in Nat /\ 0 \in 0 .. Cardinality(Devices)
    BY AdmissionAssumption, FS_CardinalityType
  <1>2. rest \in Seq(0 .. TTL)
    BY <1>1, RestTypes
  <1>3. TTL \in 0 .. TTL
    BY AdmissionAssumption
  <1>4. Append(rest, TTL) \in Seq(0 .. TTL)
    BY <1>2, <1>3, AppendProperties
  <1>5. Reserved(observed, maximum) =
          [allowed |-> allowed, record |-> IF pending = <<>> THEN NoRecord
                                           ELSE [observed |-> observed, pending |-> pending]]
    BY DEF Reserved, Rest
  <1> HIDE DEF rest
  <1>6. pending \in Seq(0 .. TTL) /\ <<>> \in Seq(0 .. TTL)
    <2>1. <<>> \in Seq(0 .. TTL)
      BY EmptySeq
    <2>2. pending \in {rest, Append(rest, TTL)}
      OBVIOUS
    <2> QED BY <1>2, <1>4, <2>1, <2>2
  <1>7. (IF pending = <<>> THEN NoRecord ELSE [observed |-> observed, pending |-> pending]) \in Record
    BY <1>1, <1>6 DEF Record, NoRecord
  <1>8. /\ Reserved(observed, maximum).allowed = allowed
        /\ Reserved(observed, maximum).record =
             IF pending = <<>> THEN NoRecord ELSE [observed |-> observed, pending |-> pending]
    BY <1>5
  <1> QED BY <1>2, <1>6, <1>7, <1>8 DEF rest

\* The new record covers what the count and the old record cover, and with the reservation
\* of an admitted request one device more.
LEMMA ReservedCovers ==
  ASSUME TypeOK, ReportsInTime, NEW d \in Devices, AtStep(d, "reserve"), CountCovers(d)
  PROVE  LET observed == req[d].count
             result == Reserved(observed, req[d].limit)
             kept == result.record
         IN  /\ Stand(kept.pending)
             /\ \A e \in Unreported :
                  Lasts(kept.pending, Cardinality(Using) - kept.observed, lag[e] + 1)
             /\ result.allowed =>
                  /\ Cardinality(Using) + 1 <= req[d].limit
                  /\ \A l \in 0 .. MaxLag :
                       Lasts(kept.pending, Cardinality(Late(l)) + 1, TTL - MaxLag + l)
                  /\ Lasts(kept.pending, Cardinality(Using) + 1 - kept.observed, MaxLag + 1)
  <1> DEFINE observed == req[d].count
             result == Reserved(observed, req[d].limit)
             kept == result.record
             rest == Rest(observed)
             pending == IF result.allowed THEN Append(rest, TTL) ELSE rest
  <1>1. /\ observed \in 0 .. Cardinality(Devices) /\ observed \in Nat /\ req[d].limit \in Nat
    <2>1. req[d] \in Request
      BY DEF TypeOK
    <2>2. req[d].count \in 0 .. Cardinality(Devices) /\ req[d].limit \in Limits
      BY <2>1 DEF Request
    <2>3. Cardinality(Devices) \in Nat /\ req[d].limit \in Nat
      BY <2>2, AdmissionAssumption, FS_CardinalityType
    <2> QED BY <2>2, <2>3
  <1>2. /\ (result.allowed <=> observed + Len(rest) < req[d].limit)
        /\ kept = IF pending = <<>> THEN NoRecord ELSE [observed |-> observed, pending |-> pending]
        /\ rest \in Seq(0 .. TTL) /\ pending \in Seq(0 .. TTL)
    BY <1>1, ReservedTypes
  <1>3. Stand(rest) /\ Lasts(rest, Cardinality(Using) - observed, MaxLag + 1)
    BY DEF CountCovers
  <1>4. /\ Cardinality(Using) \in Nat /\ Cardinality(Unreported) \in Nat
        /\ \A l \in 0 .. MaxLag : Cardinality(Late(l)) \in Nat
    BY DeviceCounts
  <1>5. Len(rest) \in Nat
    BY <1>2, LenProperties
  <1>6. \A e \in Devices : lag[e] + 1 \in Int /\ lag[e] + 1 <= MaxLag + 1
    BY RecordTypes, Ticks
  <1> HIDE DEF observed, result, kept, rest, pending
  <1>7. CASE result.allowed
    <2>1. pending = Append(rest, TTL)
      BY <1>7 DEF pending
    <2>2. kept.pending = pending /\ kept.observed = observed
      <3>1. pending # <<>>
        BY <1>2, <2>1, AdmissionAssumption, AppendProperties
      <3> QED BY <1>2, <3>1
    <2>3. ASSUME NEW l \in 0 .. MaxLag
          PROVE  Lasts(pending, Cardinality(Late(l)) + 1, TTL - MaxLag + l)
      <3>1. Lasts(rest, Cardinality(Late(l)), TTL - MaxLag + l)
        BY <1>3 DEF Stand
      <3>2. Cardinality(Late(l)) \in Int /\ TTL - MaxLag + l \in Int /\ TTL - MaxLag + l <= TTL
        BY <1>4, Ticks
      <3> QED BY <1>2, <2>1, <3>1, <3>2, LastsMore
    <2>4. Lasts(pending, Cardinality(Using) - observed + 1, MaxLag + 1)
      <3>1. Cardinality(Using) - observed \in Int /\ MaxLag + 1 \in Int /\ MaxLag + 1 <= TTL
        BY <1>1, <1>4, Ticks
      <3> QED BY <1>2, <1>3, <2>1, <3>1, LastsMore
    <2>5. Cardinality(Using) - observed + 1 = Cardinality(Using) + 1 - observed
      BY <1>1, <1>4
    <2>6. Stand(pending)
      <3> SUFFICES ASSUME NEW l \in 0 .. MaxLag
                   PROVE  Lasts(pending, Cardinality(Late(l)), TTL - MaxLag + l)
        BY DEF Stand
      <3>1. /\ Cardinality(Late(l)) \in Int /\ Cardinality(Late(l)) + 1 \in Int
            /\ Cardinality(Late(l)) <= Cardinality(Late(l)) + 1 /\ TTL - MaxLag + l \in Int
        BY <1>4, Ticks
      <3> QED BY <1>2, <2>3, <3>1, LastsLess
    <2>7. ASSUME NEW e \in Unreported
          PROVE  Lasts(pending, Cardinality(Using) - observed, lag[e] + 1)
      <3>1. e \in Devices
        BY DEF Unreported, Where
      <3>2. /\ Cardinality(Using) - observed \in Int /\ Cardinality(Using) - observed + 1 \in Int
            /\ Cardinality(Using) - observed <= Cardinality(Using) - observed + 1
            /\ MaxLag + 1 \in Int
        BY <1>1, <1>4, Ticks
      <3> QED BY <1>2, <1>6, <2>4, <3>1, <3>2, LastsLess
    <2>8. Cardinality(Using) + 1 <= req[d].limit
      <3>1. Cardinality(Using) - observed <= Len(rest)
        BY <1>3 DEF Lasts
      <3> QED BY <1>1, <1>2, <1>4, <1>5, <1>7, <3>1
    <2> QED BY <2>2, <2>3, <2>4, <2>5, <2>6, <2>7, <2>8 DEF observed, result, kept
  <1>8. CASE ~result.allowed
    <2>1. pending = rest
      BY <1>8 DEF pending
    <2>2. ASSUME NEW e \in Unreported
          PROVE  Lasts(rest, Cardinality(Using) - observed, lag[e] + 1)
      <3>1. e \in Devices
        BY DEF Unreported, Where
      <3>2. Cardinality(Using) - observed \in Int /\ MaxLag + 1 \in Int
        BY <1>1, <1>4, Ticks
      <3> QED BY <1>2, <1>3, <1>6, <3>1, <3>2, LastsLess
    <2>3. CASE rest # <<>>
      <3>1. kept.pending = rest /\ kept.observed = observed
        BY <1>2, <2>1, <2>3
      <3> QED BY <1>3, <1>8, <2>2, <3>1 DEF observed, result, kept
    \* Nothing is left of the reservations, so nobody needed one.
    <2>4. CASE rest = <<>>
      <3>1. kept.pending = rest
        BY <1>2, <2>1, <2>4 DEF NoRecord
      <3>2. Unreported = {}
        <4>1. Late(0) = Unreported
          BY RecordTypes DEF Late, Unreported, Where
        <4>2. Cardinality(Unreported) <= Len(rest) /\ Len(rest) = 0
          BY <1>3, <2>4, <4>1, Ticks DEF Stand, Lasts
        <4> QED BY <1>4, <4>2, DeviceCounts, FS_EmptySet
      <3> QED BY <1>3, <1>8, <3>1, <3>2 DEF observed, result, kept
    <2> QED BY <2>3, <2>4
  <1> QED BY <1>7, <1>8

AdmissionInv == TypeOK /\ OneInHand /\ (~blind => Covered)

LEMMA ReplaceRequest ==
  ASSUME TypeOK, NEW d \in Devices, NEW new \in Request, req' = [req EXCEPT ![d] = new]
  PROVE  req' \in [Devices -> Request] /\ req'[d] = new /\ \A e \in Devices \ {d} : req'[e] = req[e]
  BY DEF TypeOK

LEMMA Zero == 0 \in 0 .. Cardinality(Devices) /\ Online \in 0 .. Cardinality(Devices)
  BY SomeDevices, AdmissionAssumption, FS_CardinalityType DEF Online

LEMMA AskSafe ==
  ASSUME AdmissionInv, InTurn, ReportsInTime, NEW d \in Devices, Ask(d)
  PROVE  AdmissionInv'
  <1> DEFINE new == [pc |-> "count", limit |-> limit, count |-> 0]
  <1>1. /\ device[d] = "away" /\ device' = [device EXCEPT ![d] = "asking"]
        /\ req' = [req EXCEPT ![d] = new]
        /\ UNCHANGED <<limit, record, snapshot, lag, faults, departures, edits, blind>>
    BY DEF Ask, bounds
  <1>2. new \in Request
    BY Zero DEF AdmissionInv, TypeOK, Request
  <1>3. req' \in [Devices -> Request] /\ req'[d] = new /\ \A e \in Devices \ {d} : req'[e] = req[e]
    BY <1>1, <1>2, ReplaceRequest DEF AdmissionInv
  <1>4. /\ device' \in [Devices -> {"away", "asking", "admitted", "online"}] /\ device'[d] = "asking"
        /\ \A e \in Devices \ {d} : device'[e] = device[e]
    BY <1>1 DEF AdmissionInv, TypeOK
  <1>5. TypeOK'
    BY <1>1, <1>3, <1>4 DEF AdmissionInv, TypeOK
  <1>6. \A e \in Devices : AtStep(e, "idle")
    <2>1. Where("asking") = {}
      <3>1. Cardinality(Where("asking")) < 1
        BY DEF Ask, InTurn
      <3> QED BY <3>1, SomeDevices, FS_EmptySet
    <2> QED BY <2>1 DEF Where, AdmissionInv, OneInHand
  <1>7. OneInHand'
    BY <1>3, <1>4, <1>6 DEF AdmissionInv, OneInHand, AtStep
  <1>8. Unreported' = Unreported /\ Using' = Using
    BY <1>1, <1>4 DEF Unreported, Using, Where
  <1>9. ~blind' => Covered'
    <2> SUFFICES ASSUME ~blind' PROVE Covered'
      OBVIOUS
    <2>1. /\ RecordCovers'
          /\ \A e \in Devices : req'[e] = req[e] => CountCovers(e)' /\ AnswerCovers(e)'
      BY <1>1, <1>8, StillCovered DEF AdmissionInv
    <2>2. CountCovers(d)' /\ AnswerCovers(d)'
      BY <1>3 DEF CountCovers, AnswerCovers, AtStep
    <2> QED BY <1>3, <2>1, <2>2 DEF Covered
  <1> QED BY <1>5, <1>7, <1>9 DEF AdmissionInv

LEMMA CountSafe ==
  ASSUME AdmissionInv, ReportsInTime, NEW d \in Devices, CountLive(d)
  PROVE  AdmissionInv'
  <1> DEFINE new == [req[d] EXCEPT !.pc = "reserve", !.count = Online]
  <1>1. /\ req' = [req EXCEPT ![d] = new] /\ AtStep(d, "count")
        /\ UNCHANGED <<limit, record, snapshot, device, lag, faults, departures, edits, blind>>
    BY DEF CountLive, bounds, world, AdmissionInv, TypeOK, Request
  <1>2. new \in Request /\ new.pc = "reserve" /\ new.count = Online
    <2>1. req[d] \in Request
      BY DEF AdmissionInv, TypeOK
    <2> QED BY <2>1, Zero DEF Request
  <1>3. req' \in [Devices -> Request] /\ req'[d] = new /\ \A e \in Devices \ {d} : req'[e] = req[e]
    BY <1>1, <1>2, ReplaceRequest DEF AdmissionInv
  <1> HIDE DEF new
  <1>4. TypeOK'
    BY <1>1, <1>3 DEF AdmissionInv, TypeOK
  <1>5. OneInHand'
    BY <1>1, <1>2, <1>3 DEF AdmissionInv, OneInHand, AtStep
  <1>6. Unreported' = Unreported /\ Using' = Using
    BY <1>1 DEF Unreported, Using, Where
  <1>7. ~blind' => Covered'
    <2> SUFFICES ASSUME ~blind' PROVE Covered'
      OBVIOUS
    <2>1. /\ RecordCovers'
          /\ \A e \in Devices : req'[e] = req[e] => CountCovers(e)' /\ AnswerCovers(e)'
      BY <1>1, <1>6, StillCovered DEF AdmissionInv
    <2>2. Stand(Rest(Online)) /\ Lasts(Rest(Online), Cardinality(Using) - Online, MaxLag + 1)
      BY <1>1, CountingCovers DEF AdmissionInv, Covered
    <2>3. \A l \in 0 .. MaxLag : Late(l)' = Late(l)
      BY <1>1, <1>6 DEF Late
    <2>4. Rest(Online)' = Rest(Online) /\ req'[d].count = Online /\ Online' = Online
      BY <1>1, <1>2, <1>3 DEF Rest, Online, Where
    <2>5. CountCovers(d)'
      <3>1. Rest(req[d].count)' = Rest(Online)
        BY <2>4 DEF Rest
      <3>2. Stand(Rest(req[d].count))'
        BY <2>2, <2>3, <3>1 DEF Stand
      <3>3. Lasts(Rest(req[d].count), Cardinality(Using) - req[d].count, MaxLag + 1)'
        BY <1>6, <2>2, <2>4, <3>1
      <3> QED BY <3>2, <3>3 DEF CountCovers
    <2>6. AnswerCovers(d)'
      BY <1>2, <1>3 DEF AnswerCovers, AtStep
    <2> QED BY <1>3, <2>1, <2>5, <2>6 DEF Covered
  <1> QED BY <1>4, <1>5, <1>7 DEF AdmissionInv

LEMMA SnapshotSafe ==
  ASSUME AdmissionInv, ReportsInTime, NEW d \in Devices, CountFromSnapshot(d)
  PROVE  AdmissionInv'
  <1>1. /\ AtStep(d, "count") /\ faults' \in 0 .. MaxFaults
        /\ UNCHANGED <<limit, record, snapshot, departures, edits>>
    BY AdmissionAssumption DEF CountFromSnapshot, Fault, AdmissionInv, TypeOK
  <1>2. CASE snapshot.left > 0
    <2> DEFINE new == [req[d] EXCEPT !.pc = "reserve", !.count = snapshot.count]
    <2>1. /\ req' = [req EXCEPT ![d] = new] /\ blind' = TRUE /\ UNCHANGED <<device, lag>>
      BY <1>2 DEF CountFromSnapshot, world, AdmissionInv, TypeOK, Request
    <2>2. new \in Request /\ new.pc = "reserve"
      <3>1. req[d] \in Request /\ snapshot.count \in 0 .. Cardinality(Devices)
        BY DEF AdmissionInv, TypeOK
      <3> QED BY <3>1 DEF Request
    <2>3. req' \in [Devices -> Request] /\ req'[d] = new /\ \A e \in Devices \ {d} : req'[e] = req[e]
      BY <2>1, <2>2, ReplaceRequest DEF AdmissionInv
    <2> HIDE DEF new
    <2>4. TypeOK'
      BY <1>1, <2>1, <2>3 DEF AdmissionInv, TypeOK
    <2>5. OneInHand'
      BY <1>1, <2>1, <2>2, <2>3 DEF AdmissionInv, OneInHand, AtStep
    <2> QED BY <2>1, <2>4, <2>5 DEF AdmissionInv
  <1>3. CASE ~(snapshot.left > 0)
    <2>1. Refuse(d) /\ UNCHANGED blind /\ ~AtStep(d, "idle")
      BY <1>1, <1>3 DEF CountFromSnapshot, AtStep
    <2>2. TypeOK' /\ OneInHand'
      BY <1>1, <2>1, Refused DEF AdmissionInv, TypeOK
    <2>3. ~blind' => Covered'
      BY <1>1, <2>1, RefusedCovered DEF AdmissionInv
    <2> QED BY <2>2, <2>3 DEF AdmissionInv
  <1> QED BY <1>2, <1>3

\* A request that saves its record and is refused, or goes on to answer.
LEMMA SavedCovered ==
  ASSUME AdmissionInv, ReportsInTime, ~blind, NEW d \in Devices, AtStep(d, "reserve"),
         record' = Reserved(req[d].count, req[d].limit).record,
         UNCHANGED lag, Unreported' = Unreported, Using' = Using
  PROVE  /\ RecordCovers'
         /\ req'[d] = [req[d] EXCEPT !.pc = "answer"] /\ Reserved(req[d].count, req[d].limit).allowed
              => AnswerCovers(d)'
  <1> DEFINE result == Reserved(req[d].count, req[d].limit)
  <1>1. /\ Stand(result.record.pending)
        /\ \A e \in Unreported :
             Lasts(result.record.pending, Cardinality(Using) - result.record.observed, lag[e] + 1)
        /\ result.allowed =>
             /\ Cardinality(Using) + 1 <= req[d].limit
             /\ \A l \in 0 .. MaxLag :
                  Lasts(result.record.pending, Cardinality(Late(l)) + 1, TTL - MaxLag + l)
             /\ Lasts(result.record.pending, Cardinality(Using) + 1 - result.record.observed,
                      MaxLag + 1)
    BY ReservedCovers DEF AdmissionInv, Covered
  <1>2. \A l \in 0 .. MaxLag : Late(l)' = Late(l)
    BY DEF Late
  <1> HIDE DEF result
  <1>3. record' = result.record
    BY DEF result
  <1>4. RecordCovers'
    BY <1>1, <1>2, <1>3 DEF RecordCovers, Stand
  <1>5. ASSUME req'[d] = [req[d] EXCEPT !.pc = "answer"], result.allowed PROVE AnswerCovers(d)'
    <2>1. req'[d].limit = req[d].limit
      <3>1. req[d] \in Request
        BY DEF AdmissionInv, TypeOK
      <3> QED BY <1>5, <3>1 DEF Request
    <2> QED BY <1>1, <1>2, <1>3, <1>5, <2>1 DEF AnswerCovers
  <1> QED BY <1>4, <1>5 DEF result

LEMMA ReserveSafe ==
  ASSUME AdmissionInv, ReportsInTime, NEW d \in Devices, Reserve(d)
  PROVE  AdmissionInv'
  <1> DEFINE result == Reserved(req[d].count, req[d].limit)
             new == [req[d] EXCEPT !.pc = "answer"]
  <1>1. /\ AtStep(d, "reserve") /\ record' = result.record
        /\ UNCHANGED <<limit, snapshot, faults, departures, edits, blind>>
    BY DEF Reserve, bounds
  <1>2. req[d] \in Request
    BY DEF AdmissionInv, TypeOK
  <1>3. record' \in Record
    <2>1. req[d].count \in 0 .. Cardinality(Devices)
      BY <1>2 DEF Request
    <2> QED BY <1>1, <2>1, ReservedTypes DEF AdmissionInv
  <1>4. CASE result.allowed
    <2>1. req' = [req EXCEPT ![d] = new] /\ UNCHANGED <<device, lag>>
      BY <1>4 DEF Reserve, world, AdmissionInv, TypeOK, Request
    <2>2. new \in Request /\ new.pc = "answer"
      BY <1>2 DEF Request
    <2>3. req' \in [Devices -> Request] /\ req'[d] = new /\ \A e \in Devices \ {d} : req'[e] = req[e]
      BY <2>1, <2>2, ReplaceRequest DEF AdmissionInv
    <2>4. Unreported' = Unreported /\ Using' = Using
      BY <2>1 DEF Unreported, Using, Where
    <2>5. ~blind' => Covered'
      <3> SUFFICES ASSUME ~blind' PROVE Covered'
        OBVIOUS
      <3>1. RecordCovers' /\ AnswerCovers(d)'
        BY <1>1, <1>4, <2>1, <2>3, <2>4, SavedCovered
      <3>2. CountCovers(d)'
        BY <2>2, <2>3 DEF CountCovers, AtStep
      <3>3. ASSUME NEW e \in Devices \ {d} PROVE CountCovers(e)' /\ AnswerCovers(e)'
        <4>1. AtStep(e, "idle")
          BY <1>1 DEF AdmissionInv, OneInHand, AtStep
        <4> QED BY <2>3, <4>1 DEF CountCovers, AnswerCovers, AtStep
      <3> QED BY <3>1, <3>2, <3>3 DEF Covered
    <2> HIDE DEF new
    <2>6. OneInHand'
      BY <1>1, <2>1, <2>2, <2>3 DEF AdmissionInv, OneInHand, AtStep
    <2>7. TypeOK'
      BY <1>1, <1>3, <2>1, <2>3 DEF AdmissionInv, TypeOK
    <2> QED BY <2>5, <2>6, <2>7 DEF AdmissionInv
  <1>5. CASE ~result.allowed
    <2>1. Refuse(d) /\ ~AtStep(d, "idle")
      BY <1>1, <1>5 DEF Reserve, AtStep
    <2>2. /\ device' \in [Devices -> {"away", "asking", "admitted", "online"}]
          /\ req' \in [Devices -> Request] /\ UNCHANGED lag /\ OneInHand'
          /\ Unreported' = Unreported /\ Using' = Using
          /\ \A e \in Devices : AtStep(e, "idle")'
      BY <2>1, Refused DEF AdmissionInv
    <2>3. TypeOK'
      BY <1>1, <1>3, <2>2 DEF AdmissionInv, TypeOK
    <2>4. ~blind' => Covered'
      <3> SUFFICES ASSUME ~blind' PROVE Covered'
        OBVIOUS
      <3>1. RecordCovers'
        BY <1>1, <2>2, SavedCovered
      <3> QED BY <2>2, <3>1 DEF Covered, CountCovers, AnswerCovers, AtStep
    <2> QED BY <2>2, <2>3, <2>4 DEF AdmissionInv
  <1> QED BY <1>4, <1>5

LEMMA ReserveFailsSafe ==
  ASSUME AdmissionInv, ReportsInTime, NEW d \in Devices, ReserveFails(d)
  PROVE  AdmissionInv'
  <1>1. /\ AtStep(d, "reserve") /\ faults' \in 0 .. MaxFaults /\ Refuse(d) /\ ~AtStep(d, "idle")
        /\ record' \in {record, Reserved(req[d].count, req[d].limit).record}
        /\ UNCHANGED <<limit, snapshot, departures, edits, blind>>
    BY AdmissionAssumption DEF ReserveFails, Fault, AdmissionInv, TypeOK, AtStep
  <1>2. record' \in Record
    <2>1. req[d].count \in 0 .. Cardinality(Devices) /\ record \in Record
      BY DEF AdmissionInv, TypeOK, Request
    <2> QED BY <1>1, <2>1, ReservedTypes DEF AdmissionInv
  <1>3. /\ device' \in [Devices -> {"away", "asking", "admitted", "online"}]
        /\ req' \in [Devices -> Request] /\ UNCHANGED lag /\ OneInHand'
        /\ Unreported' = Unreported /\ Using' = Using
        /\ \A e \in Devices : AtStep(e, "idle")'
    BY <1>1, Refused DEF AdmissionInv
  <1>4. TypeOK'
    BY <1>1, <1>2, <1>3 DEF AdmissionInv, TypeOK
  <1>5. ~blind' => Covered'
    <2> SUFFICES ASSUME ~blind' PROVE Covered'
      OBVIOUS
    <2>1. CASE record' = record
      BY <1>1, <2>1, RefusedCovered DEF AdmissionInv
    <2>2. CASE record' = Reserved(req[d].count, req[d].limit).record
      <3>1. RecordCovers'
        BY <1>1, <1>3, <2>2, SavedCovered
      <3> QED BY <1>3, <3>1 DEF Covered, CountCovers, AnswerCovers, AtStep
    <2> QED BY <1>1, <2>1, <2>2
  <1> QED BY <1>3, <1>4, <1>5 DEF AdmissionInv

LEMMA TimesOutSafe ==
  ASSUME AdmissionInv, ReportsInTime, NEW d \in Devices, TimesOut(d)
  PROVE  AdmissionInv'
  <1>1. /\ ~AtStep(d, "idle") /\ faults' \in 0 .. MaxFaults /\ Refuse(d)
        /\ UNCHANGED <<limit, record, snapshot, departures, edits, blind>>
    BY AdmissionAssumption DEF TimesOut, Fault, AdmissionInv, TypeOK
  <1>2. TypeOK' /\ OneInHand'
    BY <1>1, Refused DEF AdmissionInv, TypeOK
  <1>3. ~blind' => Covered'
    BY <1>1, RefusedCovered DEF AdmissionInv
  <1> QED BY <1>2, <1>3 DEF AdmissionInv

\* The answer admits one device, for which the record has room.
LEMMA AnswerSafe ==
  ASSUME AdmissionInv, ReportsInTime, NEW d \in Devices, Answer(d)
  PROVE  /\ AdmissionInv'
         /\ ~blind /\ device'[d] = "admitted" => Cardinality(Using') <= limit
         /\ \A e \in Devices \ {d} : device'[e] = device[e]
  <1>1. /\ AtStep(d, "answer") /\ ~AtStep(d, "idle")
        /\ UNCHANGED <<limit, record, snapshot, faults, departures, edits, blind>>
    BY DEF Answer, bounds, AtStep
  <1>2. req[d] \in Request /\ limit \in Nat
    BY AdmissionAssumption DEF AdmissionInv, TypeOK
  <1>3. CASE req[d].limit = limit
    <2> DEFINE new == [req[d] EXCEPT !.pc = "idle", !.count = 0]
    <2>1. /\ device' = [device EXCEPT ![d] = "admitted"] /\ lag' = [lag EXCEPT ![d] = MaxLag]
          /\ req' = [req EXCEPT ![d] = new]
      BY <1>3 DEF Answer, AdmissionInv, TypeOK, Request
    <2>2. new \in Request /\ new.pc = "idle"
      BY <1>2, Zero DEF Request
    <2>3. req' \in [Devices -> Request] /\ req'[d] = new /\ \A e \in Devices \ {d} : req'[e] = req[e]
      BY <2>1, <2>2, ReplaceRequest DEF AdmissionInv
    <2> HIDE DEF new
    <2>4. /\ device' \in [Devices -> {"away", "asking", "admitted", "online"}]
          /\ device'[d] = "admitted" /\ \A e \in Devices \ {d} : device'[e] = device[e]
          /\ lag' \in [Devices -> 0 .. MaxLag] /\ lag'[d] = MaxLag
          /\ \A e \in Devices \ {d} : lag'[e] = lag[e]
      BY <2>1, Ticks DEF AdmissionInv, TypeOK
    <2>5. TypeOK'
      BY <1>1, <2>3, <2>4 DEF AdmissionInv, TypeOK
    <2>6. \A e \in Devices : AtStep(e, "idle")'
      BY <1>1, <2>2, <2>3 DEF AdmissionInv, OneInHand, AtStep
    <2>7. OneInHand'
      BY <1>1, <2>4, <2>6 DEF AdmissionInv, OneInHand
    <2>8. Unreported' = Unreported \cup {d} /\ Using' = Using \cup {d}
      BY <2>4 DEF Unreported, Using, Where
    <2>9. /\ Cardinality(Using') <= Cardinality(Using) + 1
          /\ Cardinality(Using') \in Nat /\ Cardinality(Using) \in Nat
      <3>1. IsFiniteSet(Using)
        BY DeviceCounts
      <3> QED BY <2>8, <3>1, OneMoreDevice
    <2>10. ASSUME NEW l \in 0 .. MaxLag
           PROVE  /\ Cardinality(Late(l))' <= Cardinality(Late(l)) + 1
                  /\ Cardinality(Late(l))' \in Nat /\ Cardinality(Late(l)) \in Nat
      <3>1. Late(l)' = Late(l) \cup {d}
        <4>1. d \notin Unreported
          BY <1>1 DEF Unreported, Where, AdmissionInv, OneInHand
        <4>2. MaxLag >= l
          BY Ticks
        <4> QED BY <2>4, <2>8, <4>1, <4>2 DEF Late, Unreported, Where
      <3>2. IsFiniteSet(Late(l))
        BY DeviceCounts
      <3> QED BY <3>1, <3>2, OneMoreDevice
    <2>11. ASSUME ~blind PROVE Covered' /\ Cardinality(Using') <= limit
      <3>1. /\ Cardinality(Using) + 1 <= req[d].limit
            /\ \A l \in 0 .. MaxLag :
                 Lasts(record.pending, Cardinality(Late(l)) + 1, TTL - MaxLag + l)
            /\ Lasts(record.pending, Cardinality(Using) + 1 - record.observed, MaxLag + 1)
        BY <1>1, <2>11 DEF AdmissionInv, Covered, AnswerCovers
      <3>2. Cardinality(Using') <= limit
        BY <1>2, <1>3, <2>9, <3>1
      <3>3. /\ record.pending \in Seq(0 .. TTL) /\ record.observed \in Nat
        BY RecordTypes DEF AdmissionInv
      <3>4. ASSUME NEW l \in 0 .. MaxLag
            PROVE  Lasts(record.pending, Cardinality(Late(l))', TTL - MaxLag + l)
        <4>1. Cardinality(Late(l))' \in Int /\ Cardinality(Late(l)) + 1 \in Int
              /\ TTL - MaxLag + l \in Int
          BY <2>10, Ticks
        <4> QED BY <2>10, <3>1, <3>3, <4>1, LastsLess
      <3>5. ASSUME NEW e \in Unreported'
            PROVE  Lasts(record.pending, Cardinality(Using)' - record.observed, lag'[e] + 1)
        <4>1. lag'[e] + 1 \in Int /\ MaxLag + 1 \in Int /\ lag'[e] + 1 <= MaxLag + 1
          <5>1. e \in Devices
            BY DEF Unreported, Where
          <5> QED BY <2>4, <5>1, Ticks
        <4>2. /\ Cardinality(Using)' - record.observed \in Int
              /\ Cardinality(Using) + 1 - record.observed \in Int
              /\ Cardinality(Using)' - record.observed <= Cardinality(Using) + 1 - record.observed
          BY <2>9, <3>3
        <4> QED BY <3>1, <3>3, <4>1, <4>2, LastsLess
      <3>6. RecordCovers'
        BY <1>1, <3>4, <3>5 DEF RecordCovers, Stand
      <3>7. Covered'
        BY <2>6, <3>6 DEF Covered, CountCovers, AnswerCovers, AtStep
      <3> QED BY <3>2, <3>7
    <2> QED BY <1>1, <2>4, <2>5, <2>7, <2>11 DEF AdmissionInv
  <1>4. CASE req[d].limit # limit
    <2>1. Refuse(d)
      BY <1>4 DEF Answer
    <2>2. TypeOK' /\ OneInHand'
      BY <1>1, <2>1, Refused DEF AdmissionInv, TypeOK
    <2>3. ~blind' => Covered'
      BY <1>1, <2>1, RefusedCovered DEF AdmissionInv
    <2>4. device'[d] = "away" /\ \A e \in Devices \ {d} : device'[e] = device[e]
      BY <2>1 DEF Refuse, AdmissionInv, TypeOK
    <2> QED BY <2>2, <2>3, <2>4 DEF AdmissionInv
  <1> QED BY <1>3, <1>4

LEMMA ReportSafe ==
  ASSUME AdmissionInv, ReportsInTime, NEW d \in Devices, Report(d) \/ Leave(d)
  PROVE  AdmissionInv'
  <1>1. /\ device[d] \in {"admitted", "online"} /\ lag' = [lag EXCEPT ![d] = 0]
        /\ \/ device[d] = "admitted" /\ device' = [device EXCEPT ![d] = "online"]
           \/ device' = [device EXCEPT ![d] = "away"]
        /\ departures' \in 0 .. MaxDepartures
        /\ UNCHANGED <<limit, record, snapshot, req, faults, edits, blind>>
    BY AdmissionAssumption DEF Report, Leave, Using, Where, bounds, AdmissionInv, TypeOK
  <1>2. /\ lag' \in [Devices -> 0 .. MaxLag] /\ \A e \in Devices \ {d} : lag'[e] = lag[e]
        /\ device' \in [Devices -> {"away", "asking", "admitted", "online"}]
        /\ device'[d] \in {"online", "away"}
        /\ device'[d] = "online" => device[d] = "admitted"
        /\ \A e \in Devices \ {d} : device'[e] = device[e]
    BY <1>1, Ticks DEF AdmissionInv, TypeOK
  <1>3. TypeOK'
    BY <1>1, <1>2 DEF AdmissionInv, TypeOK
  <1>4. OneInHand'
    BY <1>1, <1>2 DEF AdmissionInv, OneInHand, AtStep
  <1>5. /\ Unreported' \subseteq Unreported /\ Using' \subseteq Using
        /\ \A e \in Unreported' : lag'[e] = lag[e]
    BY <1>1, <1>2 DEF Unreported, Using, Where
  <1>6. ~blind' => Covered'
    BY <1>1, <1>5, StillCovered DEF AdmissionInv, Covered
  <1> QED BY <1>3, <1>4, <1>6 DEF AdmissionInv

LEMMA OthersSafe ==
  ASSUME AdmissionInv, ReportsInTime, Capture \/ EditLimit \/ UNCHANGED vars
  PROVE  AdmissionInv'
  <1>1. UNCHANGED <<record, device, lag, req, faults, departures, blind>>
    BY DEF Capture, EditLimit, vars, world, bounds
  <1>2. /\ limit' \in Limits /\ edits' \in 0 .. MaxEdits
        /\ snapshot' \in [count : 0 .. Cardinality(Devices), left : 0 .. TTL]
    <2>1. CASE Capture
      <3>1. TTL \in 0 .. TTL
        BY AdmissionAssumption
      <3> QED BY <2>1, <3>1, Zero DEF Capture, bounds, AdmissionInv, TypeOK
    <2>2. CASE EditLimit
      BY <2>2, AdmissionAssumption DEF EditLimit, AdmissionInv, TypeOK
    <2>3. CASE UNCHANGED vars
      BY <2>3 DEF vars, bounds, AdmissionInv, TypeOK
    <2> QED BY <2>1, <2>2, <2>3
  <1>3. TypeOK'
    BY <1>1, <1>2 DEF AdmissionInv, TypeOK
  <1>4. OneInHand'
    BY <1>1 DEF AdmissionInv, OneInHand, AtStep
  <1>5. Unreported' = Unreported /\ Using' = Using
    BY <1>1 DEF Unreported, Using, Where
  <1>6. ~blind' => Covered'
    BY <1>1, <1>5, StillCovered DEF AdmissionInv, Covered
  <1> QED BY <1>3, <1>4, <1>6 DEF AdmissionInv

\* A tick brings the reservations and the reports that they wait for nearer alike.
LEMMA TickSafe == ASSUME AdmissionInv, ReportsInTime, Tick PROVE AdmissionInv'
  <1> DEFINE later == [i \in 1 .. Len(record.pending) |-> Less(record.pending[i])]
  <1>1. /\ \A d \in Devices : AtStep(d, "idle")
        /\ \A d \in Where("admitted") : lag[d] > 0
        /\ lag' = [d \in Devices |-> Less(lag[d])]
        /\ UNCHANGED <<limit, device, req, faults, departures, edits, blind>>
    BY DEF Tick, bounds
  <1>2. record.pending \in Seq(0 .. TTL) /\ record.observed \in Nat
        /\ \A d \in Devices : lag[d] \in 0 .. MaxLag
    BY RecordTypes DEF AdmissionInv
  <1>3. record'.pending = later /\ record'.observed = record.observed /\ record' \in Record
    <2>1. record \in Record /\ later \in Seq(0 .. TTL)
      BY <1>2, TickTypes DEF AdmissionInv, TypeOK
    <2>2. record' = [record EXCEPT !.pending = later]
      BY DEF Tick
    <2> HIDE DEF later
    <2> QED BY <2>1, <2>2 DEF Record
  <1>4. snapshot' \in [count : 0 .. Cardinality(Devices), left : 0 .. TTL]
    BY AdmissionAssumption DEF Tick, Less, AdmissionInv, TypeOK
  <1>5. /\ lag' \in [Devices -> 0 .. MaxLag]
        /\ \A d \in Unreported : lag[d] \in 1 .. MaxLag /\ lag'[d] = lag[d] - 1
    BY <1>1, <1>2, Ticks DEF Less, Unreported, Where
  <1>6. TypeOK'
    BY <1>1, <1>3, <1>4, <1>5 DEF AdmissionInv, TypeOK
  <1>7. OneInHand'
    BY <1>1 DEF AdmissionInv, OneInHand, AtStep
  <1>8. Unreported' = Unreported /\ Using' = Using
    BY <1>1 DEF Unreported, Using, Where
  <1>9. ASSUME ~blind, NEW l \in 0 .. MaxLag
        PROVE  Lasts(later, Cardinality(Late(l))', TTL - MaxLag + l)
    <2>1. CASE l = MaxLag
      <3>1. Late(l)' = {}
        BY <1>5, <1>8, <2>1, Ticks DEF Late
      <3>2. Cardinality(Late(l))' = 0
        BY <3>1, FS_EmptySet
      <3>3. later \in Seq(0 .. TTL)
        BY <1>2, TickTypes
      <3> HIDE DEF later
      <3> QED BY <3>2, <3>3, LastsNone
    <2>2. CASE l # MaxLag
      <3>1. l + 1 \in 0 .. MaxLag /\ TTL - MaxLag + l \in Nat
            /\ TTL - MaxLag + (l + 1) = TTL - MaxLag + l + 1
        BY <2>2, Ticks
      <3>2. Late(l)' = Late(l + 1)
        BY <1>5, <1>8, Ticks DEF Late
      <3>3. Lasts(record.pending, Cardinality(Late(l + 1)), TTL - MaxLag + (l + 1))
        BY <1>9, <3>1 DEF AdmissionInv, Covered, RecordCovers, Stand
      <3>4. Cardinality(Late(l + 1)) \in Int
        BY <3>1, DeviceCounts
      <3> QED BY <1>2, <3>1, <3>2, <3>3, <3>4, LastsTick
    <2> QED BY <2>1, <2>2
  <1>10. ASSUME ~blind, NEW d \in Unreported
         PROVE  Lasts(later, Cardinality(Using) - record.observed, lag'[d] + 1)
    <2>1. Lasts(record.pending, Cardinality(Using) - record.observed, lag[d] + 1)
      BY <1>10 DEF AdmissionInv, Covered, RecordCovers
    <2>2. Cardinality(Using) - record.observed \in Int
      BY <1>2, DeviceCounts
    <2>3. lag[d] \in Nat /\ lag'[d] + 1 = lag[d]
      BY <1>5
    <2> QED BY <1>2, <2>1, <2>2, <2>3, LastsTick
  <1> HIDE DEF later
  <1>11. ~blind' => Covered'
    <2> SUFFICES ASSUME ~blind' PROVE Covered'
      OBVIOUS
    <2>1. RecordCovers'
      BY <1>1, <1>3, <1>8, <1>9, <1>10 DEF RecordCovers, Stand
    <2> QED BY <1>1, <2>1 DEF Covered, CountCovers, AnswerCovers, AtStep
  <1> QED BY <1>6, <1>7, <1>11 DEF AdmissionInv

LEMMA AdmissionStart == ASSUME Init PROVE AdmissionInv
  <1>1. TypeOK
    <2>1. record \in Record
      BY Zero, EmptySeq DEF Init, Record, NoRecord
    <2>2. req \in [Devices -> Request]
      BY Zero DEF Init, Request
    <2>3. 0 \in 0 .. TTL /\ 0 \in 0 .. MaxLag /\ 0 \in 0 .. MaxFaults /\ 0 \in 0 .. MaxDepartures
          /\ 0 \in 0 .. MaxEdits
      BY AdmissionAssumption
    <2> QED BY <2>1, <2>2, <2>3, Zero DEF Init, TypeOK
  <1>2. OneInHand
    BY DEF Init, OneInHand, AtStep
  <1>3. Unreported = {} /\ \A l \in 0 .. MaxLag : Cardinality(Late(l)) = 0
    BY FS_EmptySet DEF Init, Unreported, Where, Late
  <1>4. record.pending \in Seq(0 .. TTL)
    BY <1>1, RecordTypes
  <1>5. Stand(record.pending)
    BY <1>3, <1>4, LastsNone DEF Stand
  <1>6. Covered
    BY <1>3, <1>5 DEF Covered, RecordCovers, CountCovers, AnswerCovers, Init, AtStep
  <1> QED BY <1>1, <1>2, <1>6 DEF AdmissionInv

LEMMA AdmissionSteps == ASSUME AdmissionInv, InTurn, ReportsInTime, [Next]_vars PROVE AdmissionInv'
  <1>1. ASSUME NEW d \in Devices, RequestStep(d) PROVE AdmissionInv'
    BY <1>1, CountSafe, SnapshotSafe, ReserveSafe, ReserveFailsSafe, AnswerSafe, TimesOutSafe
       DEF RequestStep
  <1> QED BY <1>1, AskSafe, ReportSafe, OthersSafe, TickSafe DEF Next

\* Of the device limit with any number of devices, reservations and reports: where requests are
\* served one at a time and Hysteria reports a device within half the life of a reservation, no
\* answer admits more devices than the limit, whatever requests fail, are refused or run out of
\* time and whoever leaves meanwhile (reserve_device_admission).
THEOREM LimitsAreKept ==
  ASSUME InTurn, ReportsInTime
  PROVE  Spec => AdmissionsRespectLimit
  <1>1. Init => AdmissionInv
    BY AdmissionStart
  <1>2. AdmissionInv /\ [Next]_vars => AdmissionInv'
    BY AdmissionSteps
  <1>3. AdmissionInv /\ [Next]_vars
        => [\A d \in Devices : device[d] # "admitted" /\ device'[d] = "admitted" /\ ~blind
              => Cardinality(Using') <= limit]_vars
    <2> SUFFICES ASSUME AdmissionInv, Next, NEW d \in Devices, device[d] # "admitted",
                        device'[d] = "admitted", ~blind
                 PROVE  Cardinality(Using') <= limit
      OBVIOUS
    <2>1. ASSUME NEW e \in Devices, Answer(e) PROVE Cardinality(Using') <= limit
      BY <2>1, AnswerSafe
    <2>2. ~(Capture \/ EditLimit \/ Tick)
      BY DEF Capture, EditLimit, Tick, world
    <2>3. PICK e \in Devices : Ask(e) \/ RequestStep(e) \/ Report(e) \/ Leave(e)
      BY <2>2 DEF Next
    <2>4. Answer(e)
      BY <2>3 DEF RequestStep, Ask, CountLive, CountFromSnapshot, Reserve, ReserveFails, TimesOut,
                  Refuse, Report, Leave, world, AdmissionInv, TypeOK
    <2> QED BY <2>1, <2>4
  <1> QED BY <1>1, <1>2, <1>3, PTL DEF Spec, AdmissionsRespectLimit
================================================================================
