-------------------------- MODULE PairingRoundProofs --------------------------
(***************************************************************************)
(* A pairing attempt keeps RoundInv, for any set of endpoints, any number  *)
(* of devices and of identities; what it promises about its children, its  *)
(* attribution, its listing and its answer to a cancel follows.            *)
(***************************************************************************)
EXTENDS PairingRound, SequenceTheorems, TLAPS

-----------------------------------------------------------------------------
(* Sequences without repetition.                                           *)

LEMMA RemoveAtIs ==
  ASSUME NEW S, NEW s \in Seq(S), NEW i \in 1..Len(s)
  PROVE  /\ RemoveAt(s, i) \in Seq(S)
         /\ Len(RemoveAt(s, i)) = Len(s) - 1
         /\ \A j \in 1..(Len(s) - 1) :
              RemoveAt(s, i)[j] = IF j < i THEN s[j] ELSE s[j + 1]
<1> DEFINE a == SubSeq(s, 1, i - 1)
           b == SubSeq(s, i + 1, Len(s))
<1>1. /\ a \in Seq(S) /\ Len(a) = i - 1
      /\ \A j \in 1..(i - 1) : a[j] = s[j]
  OBVIOUS
<1>2. /\ b \in Seq(S) /\ Len(b) = Len(s) - i
      /\ \A j \in 1..(Len(s) - i) : b[j] = s[j + i]
  OBVIOUS
<1> HIDE DEF a, b
<1>3. /\ a \o b \in Seq(S) /\ Len(a \o b) = Len(s) - 1
      /\ \A j \in 1..(Len(s) - 1) :
           (a \o b)[j] = IF j < i THEN s[j] ELSE s[j + 1]
  <2>1. /\ a \o b \in Seq(S) /\ Len(a \o b) = Len(s) - 1
        /\ \A j \in 1..(Len(s) - 1) :
             (a \o b)[j] = IF j <= Len(a) THEN a[j] ELSE b[j - Len(a)]
    <3>1. /\ a \o b \in Seq(S) /\ Len(a \o b) = Len(a) + Len(b)
          /\ \A j \in 1..(Len(a) + Len(b)) :
               (a \o b)[j] = IF j <= Len(a) THEN a[j] ELSE b[j - Len(a)]
      BY <1>1, <1>2, ConcatProperties
    <3>2. Len(a) + Len(b) = Len(s) - 1
      BY <1>1, <1>2
    <3> QED BY <3>1, <3>2
  <2> SUFFICES ASSUME NEW j \in 1..(Len(s) - 1)
               PROVE  (a \o b)[j] = IF j < i THEN s[j] ELSE s[j + 1]
    BY <2>1
  <2>2. CASE j < i
    BY <1>1, <2>1, <2>2
  <2>3. CASE ~(j < i)
    <3>1. j - (i - 1) \in 1..(Len(s) - i) /\ (j - (i - 1)) + i = j + 1
      BY <2>3
    <3>2. (a \o b)[j] = b[j - (i - 1)]
      BY <1>1, <2>1, <2>3
    <3>3. b[j - (i - 1)] = s[(j - (i - 1)) + i]
      BY <1>2, <3>1
    <3> QED BY <2>3, <3>1, <3>2, <3>3
  <2> QED BY <2>2, <2>3
<1> QED BY <1>3 DEF RemoveAt, a, b

LEMMA RemoveAtInjective ==
  ASSUME NEW S, NEW s \in Seq(S), IsInjective(s), NEW i \in 1..Len(s)
  PROVE  /\ IsInjective(RemoveAt(s, i))
         /\ ToSet(RemoveAt(s, i)) = ToSet(s) \ {s[i]}
<1> DEFINE r == RemoveAt(s, i)
<1>1. /\ DOMAIN s = 1..Len(s) /\ r \in Seq(S) /\ Len(r) = Len(s) - 1
      /\ DOMAIN r = 1..(Len(s) - 1)
      /\ \A j \in 1..(Len(s) - 1) : r[j] = IF j < i THEN s[j] ELSE s[j + 1]
  BY RemoveAtIs
<1>2. \A j, k \in 1..Len(s) : s[j] = s[k] => j = k
  BY <1>1 DEF IsInjective
<1> HIDE DEF r
<1>3. IsInjective(r)
  <2> DEFINE at(j) == IF j < i THEN j ELSE j + 1
  <2>1. \A j \in 1..(Len(s) - 1) : at(j) \in 1..Len(s)
    OBVIOUS
  <2>2. \A j \in 1..(Len(s) - 1) : r[j] = s[at(j)]
    BY <1>1
  <2>3. \A j, k \in 1..(Len(s) - 1) : at(j) = at(k) => j = k
    OBVIOUS
  <2> HIDE DEF at
  <2>4. \A j, k \in 1..(Len(s) - 1) : r[j] = r[k] => j = k
    BY <1>2, <2>1, <2>2, <2>3
  <2> QED BY <1>1, <2>4 DEF IsInjective
<1>4. ToSet(r) \subseteq ToSet(s) \ {s[i]}
  <2> SUFFICES ASSUME NEW j \in 1..(Len(s) - 1)
               PROVE  \E k \in 1..Len(s) : r[j] = s[k] /\ k # i
    <3>1. ToSet(r) = {r[j] : j \in 1..(Len(s) - 1)}
      BY <1>1 DEF ToSet
    <3>2. \A k \in 1..Len(s) : k # i => s[k] \in ToSet(s) \ {s[i]}
      BY <1>1, <1>2 DEF ToSet
    <3> QED BY <3>1, <3>2
  <2>1. CASE j < i
    BY <1>1, <2>1
  <2>2. CASE ~(j < i)
    <3>1. j + 1 \in 1..Len(s) /\ j + 1 # i /\ r[j] = s[j + 1]
      BY <1>1, <2>2
    <3> QED BY <3>1
  <2> QED BY <2>1, <2>2
<1>5. ToSet(s) \ {s[i]} \subseteq ToSet(r)
  <2> SUFFICES ASSUME NEW x \in ToSet(s) \ {s[i]}
               PROVE  x \in ToSet(r)
    OBVIOUS
  <2> PICK k \in 1..Len(s) : x = s[k] /\ k # i
    BY <1>1 DEF ToSet
  <2> SUFFICES \E j \in 1..(Len(s) - 1) : r[j] = s[k]
    BY <1>1 DEF ToSet
  <2>1. CASE k < i
    BY <1>1, <2>1
  <2>2. CASE ~(k < i)
    <3>1. k - 1 \in 1..(Len(s) - 1) /\ ~(k - 1 < i) /\ r[k - 1] = s[k]
      BY <1>1, <2>2
    <3> QED BY <3>1
  <2> QED BY <2>1, <2>2
<1> QED BY <1>3, <1>4, <1>5 DEF r

LEMMA AppendInjectiveTo ==
  ASSUME NEW S, NEW s \in Seq(S), IsInjective(s), NEW e \in S, e \notin ToSet(s)
  PROVE  /\ IsInjective(Append(s, e)) /\ Append(s, e) # <<>>
         /\ ToSet(Append(s, e)) = ToSet(s) \cup {e}
<1>1. /\ DOMAIN s = 1..Len(s) /\ DOMAIN Append(s, e) = 1..(Len(s) + 1)
      /\ Append(s, e) # <<>> /\ Len(s) \in Nat
      /\ \A j \in 1..Len(s) : Append(s, e)[j] = s[j]
      /\ Append(s, e)[Len(s) + 1] = e
  OBVIOUS
<1> DEFINE r == Append(s, e)
<1> HIDE DEF r
<1>2. \A j \in 1..(Len(s) + 1) : j \in 1..Len(s) \/ j = Len(s) + 1
  BY <1>1
<1>3. \A j \in 1..Len(s) : s[j] # e
  BY <1>1 DEF ToSet
<1>4. IsInjective(Append(s, e))
  BY <1>1, <1>2, <1>3 DEF IsInjective
<1>5. ToSet(Append(s, e)) = ToSet(s) \cup {e}
  <2>1. Len(s) + 1 \in 1..(Len(s) + 1) /\ 1..Len(s) \subseteq 1..(Len(s) + 1)
    BY <1>1
  <2> QED BY <1>1, <1>2, <2>1 DEF ToSet
<1> QED BY <1>1, <1>4, <1>5

LEMMA EmptyInjective == IsInjective(<<>>) /\ ToSet(<<>>) = {}
  BY DEF IsInjective, ToSet

-----------------------------------------------------------------------------
(* What the helpers of the round return.                                   *)

(* get_or_insert keeps the first failure and everything else.              *)
LEMMA FirstFailureIs ==
  ASSUME NEW l \in LoopRec, NEW f \in Failure \ {"none"}
  PROVE  /\ FirstFailure(l, f) \in LoopRec
         /\ FirstFailure(l, f).failure = IF l.failure = "none" THEN f ELSE l.failure
         /\ FirstFailure(l, f).failure # "none"
         /\ FirstFailure(l, f).spawned = l.spawned /\ FirstFailure(l, f).todo = l.todo
         /\ FirstFailure(l, f).index = l.index
         /\ FirstFailure(l, f).service_lost = l.service_lost
         /\ FirstFailure(l, f).pair_timed_out = l.pair_timed_out
  BY DEF FirstFailure, LoopRec

LEMMA LeaveRoundIs ==
  ASSUME out = NoOut, NEW event \in Event,
         NEW error \in ErrorsOf[event], LeaveRound(event, error)
  PROVE  /\ pc' = "close" /\ out' \in OutRec
         /\ out'.event = event /\ out'.error = error /\ out'.reason = "none"
<1>1. error \in Failure \cup {"service_lost", "round_timed_out", "cancelled"}
  BY DEF ErrorsOf, Event, Failure
<1> QED BY <1>1 DEF LeaveRound, NoOut, OutRec

(* classify_round_failure: the error is one of the event's, and the event  *)
(* is the strongest thing that happened.                                   *)
LEMMA FailRoundIs ==
  ASSUME out = NoOut, NEW l \in LoopRec, l.failure # "none", FailRound(l)
  PROVE  /\ pc' = "close" /\ out' \in OutRec /\ out'.reason = "none"
         /\ out'.event \in {"ServiceLost", "PairTimedOut", "PairFailed"}
         /\ out'.error \in ErrorsOf[out'.event]
         /\ out'.event = "ServiceLost" => l.service_lost
         /\ out'.event = "PairTimedOut" => ~l.service_lost /\ l.pair_timed_out
         /\ out'.event = "PairFailed" => ~l.service_lost /\ ~l.pair_timed_out
<1>1. CASE l.service_lost
  <2>1. LeaveRound("ServiceLost", "service_lost")
    BY <1>1 DEF FailRound, ClassifyRoundFailure
  <2>2. "ServiceLost" \in Event /\ "service_lost" \in ErrorsOf["ServiceLost"]
    BY DEF Event, ErrorsOf
  <2> QED BY <1>1, <2>1, <2>2, LeaveRoundIs
<1>2. CASE ~l.service_lost /\ l.pair_timed_out
  <2>1. LeaveRound("PairTimedOut", "timed_out")
    BY <1>2 DEF FailRound, ClassifyRoundFailure
  <2>2. "PairTimedOut" \in Event /\ "timed_out" \in ErrorsOf["PairTimedOut"]
    BY DEF Event, ErrorsOf
  <2> QED BY <1>2, <2>1, <2>2, LeaveRoundIs
<1>3. CASE ~l.service_lost /\ ~l.pair_timed_out
  <2>1. LeaveRound("PairFailed", l.failure)
    BY <1>3 DEF FailRound, ClassifyRoundFailure
  <2>2. "PairFailed" \in Event /\ l.failure \in ErrorsOf["PairFailed"]
    BY <1>3 DEF Event, ErrorsOf, LoopRec
  <2> QED BY <1>3, <2>1, <2>2, LeaveRoundIs
<1> QED BY <1>1, <1>2, <1>3

LEMMA CloseRoundIs ==
  ASSUME NEW r \in RoundRec, r.id = 1
  PROVE  CloseRound(r) \in RoundRec /\ CloseRound(r).closed /\ CloseRound(r).id = 2
<1>1. r.id + 1 = 2
  OBVIOUS
<1>2. CloseRound(r) = [r EXCEPT !.pair_in_flight = FALSE, !.closed = TRUE, !.id = 2]
  BY <1>1 DEF CloseRound
<1> QED BY <1>2 DEF RoundRec

(* round_close takes the event for the reason and closes the round once.   *)
LEMMA CloseReasonIs ==
  ASSUME NEW r \in RoundRec, ~r.closed, r.id = 1, NEW event
  PROVE  /\ CloseReason(r, event).reason = event
         /\ CloseReason(r, event).round \in RoundRec
         /\ CloseReason(r, event).round.closed /\ CloseReason(r, event).round.id = 2
<1> DEFINE q == [r EXCEPT !.pair_in_flight = FALSE]
<1>1. /\ q \in RoundRec /\ ~q.closed /\ ~q.pair_in_flight /\ q.id = 1
  BY DEF RoundRec
<1>2. CloseReason(r, event) = Observe(q, event)
  BY DEF CloseReason
<1> HIDE DEF q
<1>3. CloseRound(q) \in RoundRec /\ CloseRound(q).closed /\ CloseRound(q).id = 2
  BY <1>1, CloseRoundIs
<1>4. Observe(q, event) = [round |-> CloseRound(q), reason |-> event]
  BY <1>1 DEF Observe
<1> QED BY <1>2, <1>3, <1>4

(* A failure before the first look for the service closes it as well.      *)
LEMMA ObserveCloses ==
  ASSUME NEW r \in RoundRec, ~r.closed, ~r.pair_in_flight, r.id = 1, NEW event
  PROVE  /\ Observe(r, event).round \in RoundRec
         /\ Observe(r, event).round.closed /\ Observe(r, event).round.id = 2
<1>1. CloseRound(r) \in RoundRec /\ CloseRound(r).closed /\ CloseRound(r).id = 2
  BY CloseRoundIs
<1>2. Observe(r, event).round = CloseRound(r)
  BY DEF Observe
<1> QED BY <1>1, <1>2

(* With a process in flight a lost service is only noted.                  *)
LEMMA LostIsPending ==
  ASSUME NEW r \in RoundRec, ~r.closed, r.pair_in_flight
  PROVE  /\ ObserveForRound(r, "ServiceLost") \in RoundRec
         /\ ObserveForRound(r, "ServiceLost") = [r EXCEPT !.service_lost_pending = TRUE]
  BY DEF ObserveForRound, Observe, RoundRec

(* One more command has ended, within the bound of TypeOK.                 *)
LEMMA RanIs ==
  ASSUME TypeOK, LateFits, Ran, pc \notin {"dedup", "name", "done", "wait"}
  PROVE  /\ late' \in 0..(MaxDevices + 3) /\ late' \in late..(late + 1)
         /\ ~interrupted => late' = 0
<1>1. late \in 0..2
  BY PairingRoundAssumption DEF TypeOK, LateFits, Pc
<1> QED BY <1>1, PairingRoundAssumption DEF LateFits, Ran

(* A step that leaves the listing alone keeps what is said of it.          *)
LEMMA ListingQuiet ==
  ASSUME EachDeviceOnce, UNCHANGED listVars,
         result' = "ok" => result = "ok" \/ seen = Len(listing)
  PROVE  EachDeviceOnce'
  BY DEF EachDeviceOnce, OneRowEach, Shows, listVars

(* One turn of deduplicate_devices keeps one row for each device.          *)
LEMMA AddDeviceIs ==
  ASSUME NEW l \in Seq(DeviceRec), NEW n \in Nat, n < Len(l),
         NEW acc \in Seq(Nat), OneRowEach(l, acc, n)
  PROVE  /\ AddDevice(l, acc, n + 1) \in Seq(Nat)
         /\ OneRowEach(l, AddDevice(l, acc, n + 1), n + 1)
<1> DEFINE i == n + 1
           id(j) == l[j].identity
           duplicate == {k \in DOMAIN acc : IdentityPair(l, acc[k], i)}
           index == CHOOSE k \in duplicate : \A m \in duplicate : k <= m
           Row(r, k, j) ==
             /\ \A m \in DOMAIN r : (r[m] = j \/ (id(j) # 0 /\ id(r[m]) = id(j))) <=> m = k
             /\ l[j].wireless => l[r[k]].wireless
           HasRow(r, j) == \E k \in DOMAIN r : Row(r, k, j)
<1>1. /\ DOMAIN acc = 1..Len(acc) /\ Len(acc) \in Nat
      /\ i \in Nat /\ i \notin 1..n /\ 1..i = 1..n \cup {i}
  OBVIOUS
<1>2. \A k \in DOMAIN acc : acc[k] \in 1..n /\ acc[k] # i
  BY <1>1 DEF OneRowEach
<1>3. \A k \in DOMAIN acc : k \in duplicate <=> id(acc[k]) # 0 /\ id(acc[k]) = id(i)
  BY DEF IdentityPair
<1>4. \A j \in 1..n : HasRow(acc, j)
  BY DEF OneRowEach, Shows
<1> HIDE DEF duplicate
<1>5. ASSUME NEW r, \A k \in DOMAIN r : r[k] \in 1..i,
             \A j \in 1..n : HasRow(r, j), HasRow(r, i)
      PROVE  OneRowEach(l, r, i)
  <2>1. \A j \in 1..i : HasRow(r, j)
    <3> HIDE DEF i, HasRow
    <3> QED BY <1>1, <1>5
  <2> QED BY <1>5, <2>1 DEF OneRowEach, Shows
<1> HIDE DEF i, id, HasRow
<1>6. CASE duplicate = {}
  <2> DEFINE r == Append(acc, i)
  <2>1. AddDevice(l, acc, i) = r
    BY <1>6 DEF AddDevice, duplicate
  <2>2. /\ r \in Seq(Nat) /\ DOMAIN r = 1..(Len(acc) + 1)
        /\ \A k \in DOMAIN acc : r[k] = acc[k]
        /\ r[Len(acc) + 1] = i
    BY <1>1
  <2> HIDE DEF r
  <2>3. /\ Len(acc) + 1 \in DOMAIN r /\ DOMAIN acc \subseteq DOMAIN r
        /\ \A k \in DOMAIN r : k \in DOMAIN acc \/ k = Len(acc) + 1
        /\ Len(acc) + 1 \notin DOMAIN acc
    BY <1>1, <2>2
  <2>4. \A k \in DOMAIN r : r[k] \in 1..i
    BY <1>1, <1>2, <2>2, <2>3
  <2>5. \A k \in DOMAIN acc : ~(id(acc[k]) # 0 /\ id(acc[k]) = id(i))
    BY <1>3, <1>6
  <2>6. ASSUME NEW j \in 1..n PROVE HasRow(r, j)
    <3>1. PICK k \in DOMAIN acc : Row(acc, k, j)
      BY <1>4 DEF HasRow
    <3>2. ~(id(j) # 0 /\ id(i) = id(j)) /\ i # j
      BY <1>1, <2>5, <3>1
    <3>3. k \in DOMAIN r /\ Row(r, k, j)
      BY <2>2, <2>3, <3>1, <3>2
    <3> QED BY <3>3 DEF HasRow
  <2>7. HasRow(r, i)
    <3>1. Row(r, Len(acc) + 1, i)
      BY <1>2, <2>2, <2>3, <2>5
    <3> QED BY <2>3, <3>1 DEF HasRow
  <2>8. OneRowEach(l, r, i)
    BY <1>1, <1>5, <2>2, <2>4, <2>6, <2>7
  <2> QED BY <2>1, <2>2, <2>8 DEF i
<1>7. CASE duplicate # {}
  <2>1. PICK x \in duplicate : TRUE
    BY <1>7
  <2>2. x \in DOMAIN acc /\ id(acc[x]) = id(i) /\ id(i) # 0 /\ x \in Nat
    BY <1>1, <1>3, <2>1 DEF duplicate
  <2>3. \A m \in DOMAIN acc : id(acc[m]) = id(i) => m = x
    <3>1. PICK k \in DOMAIN acc : Row(acc, k, acc[x])
      BY <1>2, <1>4, <2>2 DEF HasRow
    <3> QED BY <2>2, <3>1
  <2>4. duplicate = {x}
    BY <1>3, <2>1, <2>2, <2>3 DEF duplicate
  <2>5. index = x
    BY <2>2, <2>4
  <2> HIDE DEF index
  <2>6. CASE l[i].wireless /\ ~l[acc[x]].wireless
    <3> DEFINE r == [acc EXCEPT ![x] = i]
    <3>1. AddDevice(l, acc, i) = r
      BY <1>7, <2>5, <2>6 DEF AddDevice, duplicate, index
    <3>2. /\ r \in Seq(Nat) /\ DOMAIN r = DOMAIN acc /\ r[x] = i
          /\ \A k \in DOMAIN acc : k # x => r[k] = acc[k]
      BY <1>1, <2>2
    <3> HIDE DEF r
    <3>3. \A k \in DOMAIN r : r[k] \in 1..i
      BY <1>1, <1>2, <3>2
    <3>4. ASSUME NEW j \in 1..n PROVE HasRow(r, j)
      <4>1. PICK k \in DOMAIN acc : Row(acc, k, j)
        BY <1>4 DEF HasRow
      <4>2. i # j /\ (k = x => id(j) = id(i)) /\ (k # x => id(i) # id(j))
        BY <1>1, <2>2, <4>1
      <4>3. \A m \in DOMAIN r : (r[m] = j \/ (id(j) # 0 /\ id(r[m]) = id(j))) <=> m = k
        <5> SUFFICES ASSUME NEW m \in DOMAIN r
                     PROVE  (r[m] = j \/ (id(j) # 0 /\ id(r[m]) = id(j))) <=> m = k
          OBVIOUS
        <5>1. CASE m = x
          <6>1. r[m] = i /\ id(i) # 0
            BY <2>2, <3>2, <5>1
          <6> QED BY <4>2, <5>1, <6>1
        <5>2. CASE m # x
          <6>1. m \in DOMAIN acc /\ r[m] = acc[m]
            BY <3>2, <5>2
          <6> QED BY <4>1, <6>1
        <5> QED BY <5>1, <5>2
      <4>4. k \in DOMAIN r /\ Row(r, k, j)
        BY <2>6, <3>2, <4>1, <4>3
      <4> QED BY <4>4 DEF HasRow
    <3>5. HasRow(r, i)
      <4>1. x \in DOMAIN r /\ Row(r, x, i)
        BY <1>2, <2>2, <2>3, <3>2
      <4> QED BY <4>1 DEF HasRow
    <3>6. OneRowEach(l, r, i)
      BY <1>1, <1>5, <3>2, <3>3, <3>4, <3>5
    <3> QED BY <3>1, <3>2, <3>6 DEF i
  <2>7. CASE ~(l[i].wireless /\ ~l[acc[x]].wireless)
    <3>1. AddDevice(l, acc, i) = acc
      BY <1>7, <2>5, <2>7 DEF AddDevice, duplicate, index
    <3>2. HasRow(acc, i)
      <4>1. x \in DOMAIN acc /\ Row(acc, x, i)
        BY <1>2, <2>2, <2>3, <2>7
      <4> QED BY <4>1 DEF HasRow
    <3>3. OneRowEach(l, acc, i)
      BY <1>1, <1>2, <1>4, <1>5, <3>2
    <3> QED BY <3>1, <3>3 DEF i
  <2> QED BY <2>6, <2>7
<1> QED BY <1>6, <1>7

LEMMA ListingsAre ==
  ASSUME NEW l \in Listings
  PROVE  l \in Seq(DeviceRec) /\ Len(l) \in 0..MaxDevices
<1>1. PICK n \in 0..MaxDevices : l \in [1..n -> DeviceRec]
  BY DEF Listings
<1> QED BY <1>1, PairingRoundAssumption

-----------------------------------------------------------------------------
(* Every step keeps the invariant.                                         *)

(* The token and the clock touch none of the other variables.              *)
LEMMA InterruptInv ==
  ASSUME RoundInv, Interrupt
  PROVE  RoundInv'
<1> USE DEF RoundInv, Interrupt, childVars, listVars
<1>1. TypeOK'
  BY DEF TypeOK
<1>2. ChildrenAreHeld'
  BY DEF ChildrenAreHeld
<1>3. EndIsClean'
  BY DEF EndIsClean
<1>4. AttributionIsRight'
  BY DEF AttributionIsRight
<1>5. EachDeviceOnce'
  BY ListingQuiet
<1>6. LoopIsTracked'
  BY DEF LoopIsTracked
<1>7. RoundIsTracked'
  BY DEF RoundIsTracked
<1>8. LateFits'
  BY DEF LateFits
<1> QED BY <1>1, <1>2, <1>3, <1>4, <1>5, <1>6, <1>7, <1>8

LEMMA DeadlinePassesInv ==
  ASSUME RoundInv, DeadlinePasses
  PROVE  RoundInv'
<1> USE DEF RoundInv, DeadlinePasses, childVars, listVars
<1>1. TypeOK'
  BY DEF TypeOK
<1>2. ChildrenAreHeld'
  BY DEF ChildrenAreHeld
<1>3. EndIsClean'
  BY DEF EndIsClean
<1>4. AttributionIsRight'
  BY DEF AttributionIsRight
<1>5. EachDeviceOnce'
  BY ListingQuiet
<1>6. LoopIsTracked'
  BY DEF LoopIsTracked
<1>7. RoundIsTracked'
  BY DEF RoundIsTracked
<1>8. LateFits'
  BY DEF LateFits
<1> QED BY <1>1, <1>2, <1>3, <1>4, <1>5, <1>6, <1>7, <1>8

(* The precheck ends its two commands before the round has begun.          *)
LEMMA CheckAdbInv ==
  ASSUME RoundInv, CheckAdb
  PROVE  RoundInv'
<1> USE DEF RoundInv, CheckAdb, Return, childVars, listVars
<1>1. /\ late' \in 0..(MaxDevices + 3) /\ late' \in late..(late + 1)
      /\ ~interrupted => late' = 0
  BY RanIs
<1>2. TypeOK'
  BY <1>1 DEF TypeOK, Pc
<1>3. ChildrenAreHeld'
  BY DEF ChildrenAreHeld
<1>4. EndIsClean'
  BY DEF TypeOK, RoundRec, NoOut, EndIsClean, LoopIsTracked, RoundIsTracked, InLoop
<1>5. AttributionIsRight'
  BY DEF AttributionIsRight
<1>6. EachDeviceOnce'
  BY ListingQuiet
<1>7. LoopIsTracked'
  BY DEF LoopIsTracked, InLoop
<1>8. RoundIsTracked'
  BY DEF RoundIsTracked
<1>9. LateFits'
  BY <1>1 DEF TypeOK, LateFits
<1> QED BY <1>2, <1>3, <1>4, <1>5, <1>6, <1>7, <1>8, <1>9

(* A code that cannot be rendered closes the round, which is still fresh.  *)
LEMMA RenderQrInv ==
  ASSUME RoundInv, RenderQr
  PROVE  RoundInv'
<1> USE DEF RoundInv, RenderQr, Return, childVars, listVars
<1>1. round \in RoundRec /\ ~round.closed /\ ~round.pair_in_flight /\ round.id = 1
  BY DEF TypeOK, RoundIsTracked
<1>2. /\ round' \in RoundRec
      /\ pc' = "top" => round' = round
      /\ pc' = "done" => round'.closed /\ round'.id = 2
  BY <1>1, ObserveCloses
<1>3. /\ pairs = <<>> /\ loop = NoLoop /\ loop.spawned = {} /\ loop.failure = "none"
      /\ loop.service_lost = FALSE /\ round.service_lost_pending = FALSE
      /\ round.pair_in_flight = FALSE
  BY DEF NoLoop, LoopIsTracked, RoundIsTracked, InLoop
<1>4. TypeOK'
  BY <1>2 DEF TypeOK, Pc
<1>5. ChildrenAreHeld'
  BY DEF ChildrenAreHeld
<1>6. EndIsClean'
  BY <1>2 DEF EndIsClean, LoopIsTracked, InLoop
<1>7. AttributionIsRight'
  BY DEF AttributionIsRight
<1>8. EachDeviceOnce'
  BY ListingQuiet
<1>9. LoopIsTracked'
  BY <1>3 DEF LoopIsTracked, RoundIsTracked, InLoop
<1>10. RoundIsTracked'
  BY <1>2 DEF RoundIsTracked
<1>11. LateFits'
  BY DEF LateFits
<1> QED BY <1>4, <1>5, <1>6, <1>7, <1>8, <1>9, <1>10, <1>11

(* Cancel and timeout leave the round with their own event and error.      *)
LEMMA LoopTopInv ==
  ASSUME RoundInv, LoopTop
  PROVE  RoundInv'
<1> USE DEF RoundInv, LoopTop, childVars, listVars
<1>1. out = NoOut
  BY DEF RoundIsTracked, InLoop
<1>2. \/ /\ pc' = "query" /\ ~interrupted /\ out' = out
      \/ /\ pc' = "close" /\ out' \in OutRec /\ out'.event \in {"Cancelled", "Timeout"}
         /\ out'.error \in ErrorsOf[out'.event] /\ out'.reason = "none"
  BY <1>1, LeaveRoundIs DEF Event, ErrorsOf
<1>3. TypeOK'
  BY <1>2 DEF TypeOK, Pc
<1>4. ChildrenAreHeld'
  BY DEF ChildrenAreHeld
<1>5. EndIsClean'
  BY <1>2 DEF EndIsClean
<1>6. AttributionIsRight'
  BY <1>2 DEF AttributionIsRight
<1>7. EachDeviceOnce'
  BY ListingQuiet
<1>8. LoopIsTracked'
  BY <1>2 DEF LoopIsTracked, InLoop
<1>9. RoundIsTracked'
  BY <1>2 DEF RoundIsTracked, InLoop
<1>10. LateFits'
  BY <1>2 DEF LateFits
<1> QED BY <1>3, <1>4, <1>5, <1>6, <1>7, <1>8, <1>9, <1>10

(* A failed query ends the round only if the Vec is empty.                 *)
LEMMA QueryFailsInv ==
  ASSUME RoundInv, NEW error \in QueryError, QueryFails(error)
  PROVE  RoundInv'
<1> USE DEF RoundInv, QueryFails, childVars, listVars
<1>1. /\ late' \in 0..(MaxDevices + 3) /\ late' \in late..(late + 1)
      /\ ~interrupted => late' = 0
  BY RanIs
<1>2. out = NoOut /\ loop \in LoopRec /\ error \in Failure \ {"none"}
  BY DEF TypeOK, RoundIsTracked, InLoop, Failure, QueryError
<1>3. /\ loop' \in LoopRec /\ loop'.failure # "none"
      /\ loop'.spawned = loop.spawned /\ loop'.service_lost = loop.service_lost
      /\ loop'.pair_timed_out = loop.pair_timed_out /\ (pairs # <<>> => loop'.index = 1)
  BY <1>2, FirstFailureIs DEF LoopRec
<1>4. pairs # <<>> => pc' = "poll" /\ out' = out
  OBVIOUS
<1>5. pairs = <<>> =>
        /\ pc' = "close" /\ out' \in OutRec /\ out'.reason = "none"
        /\ out'.event \in {"ServiceLost", "PairTimedOut", "PairFailed"}
        /\ out'.error \in ErrorsOf[out'.event]
        /\ (out'.event = "ServiceLost" => loop'.service_lost)
        /\ (out'.event = "PairTimedOut" => ~loop'.service_lost /\ loop'.pair_timed_out)
        /\ (out'.event = "PairFailed" => ~loop'.service_lost /\ ~loop'.pair_timed_out)
  BY <1>2, <1>3, FailRoundIs
<1>6. pc' \in {"poll", "close"} /\ out' \in OutRec
  BY <1>5 DEF TypeOK
<1>7. TypeOK'
  BY <1>1, <1>3, <1>6 DEF TypeOK, Pc
<1>8. ChildrenAreHeld'
  BY DEF ChildrenAreHeld
<1>9. EndIsClean'
  BY <1>6 DEF EndIsClean
<1>10. AttributionIsRight'
  BY <1>3, <1>5 DEF LoopIsTracked, AttributionIsRight, InLoop
<1>11. EachDeviceOnce'
  BY ListingQuiet
<1>12. LoopIsTracked'
  BY <1>3, <1>5 DEF TypeOK, RoundRec, LoopIsTracked, InLoop
<1>13. RoundIsTracked'
  BY <1>5 DEF RoundIsTracked, InLoop
<1>14. LateFits'
  BY <1>1, <1>6 DEF LateFits
<1> QED BY <1>7, <1>8, <1>9, <1>10, <1>11, <1>12, <1>13, <1>14

(* So does a failed spawn.                                                 *)
LEMMA SpawnFailsInv ==
  ASSUME RoundInv, NEW e \in Endpoint, SpawnFails(e)
  PROVE  RoundInv'
<1> USE DEF RoundInv, SpawnFails, childVars, listVars
<1>1. out = NoOut /\ loop \in LoopRec /\ "spawn" \in Failure \ {"none"}
  BY DEF TypeOK, RoundIsTracked, InLoop, Failure
<1>2. /\ loop' \in LoopRec /\ loop'.failure # "none"
      /\ loop'.spawned = loop.spawned /\ loop'.service_lost = loop.service_lost
      /\ loop'.pair_timed_out = loop.pair_timed_out /\ loop'.index = loop.index
  BY <1>1, FirstFailureIs DEF LoopRec
<1>3. pairs # <<>> => pc' = "poll" /\ out' = out
  OBVIOUS
<1>4. pairs = <<>> =>
        /\ pc' = "close" /\ out' \in OutRec /\ out'.reason = "none"
        /\ out'.event \in {"ServiceLost", "PairTimedOut", "PairFailed"}
        /\ out'.error \in ErrorsOf[out'.event]
        /\ (out'.event = "ServiceLost" => loop'.service_lost)
        /\ (out'.event = "PairTimedOut" => ~loop'.service_lost /\ loop'.pair_timed_out)
        /\ (out'.event = "PairFailed" => ~loop'.service_lost /\ ~loop'.pair_timed_out)
  BY <1>1, <1>2, FailRoundIs
<1>5. pc' \in {"poll", "close"} /\ out' \in OutRec
  BY <1>4 DEF TypeOK
<1>6. TypeOK'
  BY <1>2, <1>5 DEF TypeOK, Pc
<1>7. ChildrenAreHeld'
  BY DEF ChildrenAreHeld
<1>8. EndIsClean'
  BY <1>5 DEF EndIsClean
<1>9. AttributionIsRight'
  BY <1>2, <1>4 DEF LoopIsTracked, AttributionIsRight, InLoop
<1>10. EachDeviceOnce'
  BY ListingQuiet
<1>11. LoopIsTracked'
  BY <1>2, <1>5 DEF TypeOK, RoundRec, LoopIsTracked, InLoop
<1>12. RoundIsTracked'
  BY <1>4 DEF RoundIsTracked, InLoop
<1>13. LateFits'
  BY <1>5 DEF TypeOK, LateFits
<1> QED BY <1>6, <1>7, <1>8, <1>9, <1>10, <1>11, <1>12, <1>13

(* A turn without a further endpoint goes on to the polls.                 *)
LEMMA SpawnsDoneInv ==
  ASSUME RoundInv, SpawnsDone
  PROVE  RoundInv'
<1> USE DEF RoundInv, SpawnsDone, childVars, listVars
<1>1. TypeOK'
  BY DEF TypeOK, Pc
<1>2. ChildrenAreHeld'
  BY DEF ChildrenAreHeld
<1>3. EndIsClean'
  BY DEF EndIsClean
<1>4. AttributionIsRight'
  BY DEF AttributionIsRight
<1>5. EachDeviceOnce'
  BY ListingQuiet
<1>6. LoopIsTracked'
  BY DEF TypeOK, RoundRec, LoopIsTracked, InLoop
<1>7. RoundIsTracked'
  BY DEF RoundIsTracked, InLoop
<1>8. LateFits'
  BY DEF LateFits
<1> QED BY <1>1, <1>2, <1>3, <1>4, <1>5, <1>6, <1>7, <1>8

(* The manual attempt has no round: it wipes the code and waits.           *)
LEMMA PairManualInv ==
  ASSUME RoundInv, PairManual
  PROVE  RoundInv'
<1> USE DEF RoundInv, PairManual, Return, childVars, listVars
<1>1. /\ late' \in 0..(MaxDevices + 3) /\ late' \in late..(late + 1)
      /\ ~interrupted => late' = 0
  BY RanIs
<1>2. TypeOK'
  BY <1>1 DEF TypeOK, Pc
<1>3. ChildrenAreHeld'
  BY DEF ChildrenAreHeld
<1>4. EndIsClean'
  BY DEF TypeOK, RoundRec, NoOut, EndIsClean, LoopIsTracked, RoundIsTracked, InLoop
<1>5. AttributionIsRight'
  BY DEF AttributionIsRight
<1>6. EachDeviceOnce'
  BY ListingQuiet
<1>7. LoopIsTracked'
  BY DEF LoopIsTracked, InLoop
<1>8. RoundIsTracked'
  BY DEF RoundIsTracked
<1>9. LateFits'
  BY <1>1 DEF LateFits
<1> QED BY <1>2, <1>3, <1>4, <1>5, <1>6, <1>7, <1>8, <1>9

(* The waits after the round touch neither its processes nor its state.    *)
LEMMA WaitTopInv ==
  ASSUME RoundInv, WaitTop
  PROVE  RoundInv'
<1> USE DEF RoundInv, WaitTop, WaitFailed, Return, Cancelled, childVars, listVars
<1>1. TypeOK'
  BY DEF TypeOK, Pc
<1>2. ChildrenAreHeld'
  BY DEF ChildrenAreHeld
<1>3. EndIsClean'
  BY DEF EndIsClean
<1>4. AttributionIsRight'
  BY DEF AttributionIsRight
<1>5. EachDeviceOnce'
  BY ListingQuiet
<1>6. LoopIsTracked'
  BY DEF LoopIsTracked, InLoop
<1>7. RoundIsTracked'
  BY DEF RoundIsTracked, InLoop
<1>8. LateFits'
  BY DEF LateFits
<1> QED BY <1>1, <1>2, <1>3, <1>4, <1>5, <1>6, <1>7, <1>8

LEMMA WaitListsInv ==
  ASSUME RoundInv, WaitLists
  PROVE  RoundInv'
<1> USE DEF RoundInv, WaitLists, WaitFailed, Return, Cancelled, childVars, listVars
<1>1. /\ late' \in 0..(MaxDevices + 3) /\ late' \in late..(late + 1)
      /\ ~interrupted => late' = 0
  BY RanIs
<1>2. TypeOK'
  BY <1>1 DEF TypeOK, Pc
<1>3. ChildrenAreHeld'
  BY DEF ChildrenAreHeld
<1>4. EndIsClean'
  BY DEF EndIsClean
<1>5. AttributionIsRight'
  BY DEF AttributionIsRight
<1>6. EachDeviceOnce'
  BY ListingQuiet DEF RoundIsTracked
<1>7. LoopIsTracked'
  BY DEF LoopIsTracked, InLoop
<1>8. RoundIsTracked'
  BY DEF RoundIsTracked, InLoop
<1>9. LateFits'
  <2>1. late' \in 0..1
    BY <1>1 DEF LateFits
  <2>2. pc' \in {"wait", "name", "devices", "fallback", "done"}
    OBVIOUS
  <2>3. pc' = "fallback" => ~Cancelled
    OBVIOUS
  <2>4. pc' = "fallback" /\ mode # "qr_cli" => late' = 0
    BY <1>1, <2>3
  <2> HIDE DEF RoundInv
  <2> QED BY <1>1, <2>1, <2>2, <2>4, PairingRoundAssumption DEF LateFits
<1> QED BY <1>2, <1>3, <1>4, <1>5, <1>6, <1>7, <1>8, <1>9

LEMMA FallbackConnectInv ==
  ASSUME RoundInv, FallbackConnect
  PROVE  RoundInv'
<1> USE DEF RoundInv, FallbackConnect, Return, Cancelled, childVars, listVars
<1>1. /\ late' \in 0..(MaxDevices + 3) /\ late' \in late..(late + 1)
      /\ ~interrupted => late' = 0
  BY RanIs
<1>2. TypeOK'
  BY <1>1 DEF TypeOK, Pc
<1>3. ChildrenAreHeld'
  BY DEF ChildrenAreHeld
<1>4. EndIsClean'
  BY DEF EndIsClean
<1>5. AttributionIsRight'
  BY DEF AttributionIsRight
<1>6. EachDeviceOnce'
  BY ListingQuiet
<1>7. LoopIsTracked'
  BY DEF LoopIsTracked, InLoop
<1>8. RoundIsTracked'
  BY DEF RoundIsTracked, InLoop
<1>9. LateFits'
  BY <1>1 DEF TypeOK, LateFits, RoundIsTracked
<1> QED BY <1>2, <1>3, <1>4, <1>5, <1>6, <1>7, <1>8, <1>9

(* A process that exits stays in the Vec until it is polled.               *)
LEMMA PairExitsInv ==
  ASSUME RoundInv, NEW e \in Endpoint, PairExits(e)
  PROVE  RoundInv'
<1> USE DEF RoundInv, PairExits
<1>1. /\ proc' \in [Endpoint -> {"none", "running"} \cup ExitOutcome]
      /\ overdue' \subseteq {f \in Endpoint : proc'[f] = "running"}
      /\ \A f \in Endpoint : proc'[f] # "none" <=> proc[f] # "none"
  BY DEF TypeOK, ExitOutcome
<1>2. TypeOK'
  BY <1>1 DEF TypeOK, listVars
<1>3. ChildrenAreHeld'
  BY <1>1 DEF ChildrenAreHeld
<1>4. EachDeviceOnce'
  BY ListingQuiet
<1>5. EndIsClean' /\ AttributionIsRight'
  BY DEF EndIsClean, AttributionIsRight
<1>6. LoopIsTracked' /\ RoundIsTracked' /\ LateFits'
  BY DEF LoopIsTracked, RoundIsTracked, LateFits, listVars
<1> QED BY <1>2, <1>3, <1>4, <1>5, <1>6

LEMMA PairIsOverdueInv ==
  ASSUME RoundInv, NEW e \in Endpoint, PairIsOverdue(e)
  PROVE  RoundInv'
<1> USE DEF RoundInv, PairIsOverdue
<1>1. TypeOK'
  BY DEF TypeOK, listVars
<1>2. ChildrenAreHeld' /\ EndIsClean' /\ AttributionIsRight'
  BY DEF ChildrenAreHeld, EndIsClean, AttributionIsRight
<1>3. EachDeviceOnce'
  BY ListingQuiet
<1>4. LoopIsTracked' /\ RoundIsTracked' /\ LateFits'
  BY DEF LoopIsTracked, RoundIsTracked, LateFits, listVars
<1> QED BY <1>1, <1>2, <1>3, <1>4

(* A query finds no endpoint although some were tried: then one of their   *)
(* processes is in flight, so the loss is only noted.                      *)
LEMMA QueryAnswersInv ==
  ASSUME RoundInv, NEW m \in SUBSET Endpoint, QueryAnswers(m)
  PROVE  RoundInv'
<1> USE DEF RoundInv, QueryAnswers
<1> DEFINE lost == m = {} /\ loop.spawned # {} /\ ~loop.service_lost
<1>1. /\ late' \in 0..(MaxDevices + 3) /\ late' \in late..(late + 1)
      /\ ~interrupted => late' = 0
  BY RanIs
<1>2. /\ loop' = [loop EXCEPT !.todo = m \ loop.spawned, !.index = 1,
                              !.service_lost = @ \/ lost]
      /\ round' = IF lost THEN ObserveForRound(round, "ServiceLost") ELSE round
  OBVIOUS
<1>3. /\ loop \in LoopRec /\ round \in RoundRec /\ ~round.closed
      /\ round.service_lost_pending = loop.service_lost
      /\ round.pair_in_flight = (pairs # <<>>)
      /\ loop.spawned # {} => pairs # <<>>
  BY DEF TypeOK, LoopIsTracked, InLoop
<1> HIDE DEF lost
<1>4. /\ loop' \in LoopRec /\ loop'.index = 1 /\ loop'.spawned = loop.spawned
      /\ loop'.todo = m \ loop.spawned /\ loop'.failure = loop.failure
      /\ loop'.pair_timed_out = loop.pair_timed_out
      /\ loop'.service_lost = (loop.service_lost \/ lost)
  <2> DEFINE s == loop.service_lost \/ lost
  <2>1. s \in BOOLEAN /\ m \ loop.spawned \in SUBSET Endpoint /\ 1 \in Nat \ {0}
    OBVIOUS
  <2>2. loop' = [loop EXCEPT !.todo = m \ loop.spawned, !.index = 1, !.service_lost = s]
    BY <1>2
  <2> HIDE DEF s, RoundInv, QueryAnswers
  <2>3. loop' \in LoopRec /\ loop'.service_lost = s /\ loop'.index = 1
    BY <1>3, <2>1, <2>2 DEF LoopRec
  <2>4. /\ loop'.spawned = loop.spawned /\ loop'.todo = m \ loop.spawned
        /\ loop'.failure = loop.failure /\ loop'.pair_timed_out = loop.pair_timed_out
    BY <1>3, <2>2 DEF LoopRec
  <2> QED BY <2>3, <2>4 DEF s
<1>5. /\ round' \in RoundRec /\ round'.closed = round.closed /\ round'.id = round.id
      /\ round'.pair_in_flight = round.pair_in_flight
      /\ round'.service_lost_pending = loop'.service_lost
  <2>1. CASE lost
    <3>1. round.pair_in_flight
      BY <1>3, <2>1 DEF lost
    <3>2. round' \in RoundRec /\ round' = [round EXCEPT !.service_lost_pending = TRUE]
      BY <1>2, <1>3, <2>1, <3>1, LostIsPending
    <3> QED BY <1>3, <1>4, <2>1, <3>2 DEF RoundRec
  <2>2. CASE ~lost
    BY <1>2, <1>3, <1>4, <2>2 DEF RoundRec, LoopRec
  <2> QED BY <2>1, <2>2
<1>6. TypeOK'
  BY <1>1, <1>4, <1>5 DEF TypeOK, Pc, childVars, listVars
<1>7. ChildrenAreHeld' /\ EndIsClean' /\ AttributionIsRight'
  BY DEF ChildrenAreHeld, EndIsClean, AttributionIsRight, childVars
<1>8. EachDeviceOnce'
  BY ListingQuiet
<1>9. LoopIsTracked'
  BY <1>3, <1>4, <1>5 DEF LoopIsTracked, InLoop, childVars
<1>10. RoundIsTracked'
  BY <1>5 DEF RoundIsTracked, InLoop, listVars
<1>11. LateFits'
  BY <1>1 DEF LateFits, TypeOK
<1> QED BY <1>6, <1>7, <1>8, <1>9, <1>10, <1>11

(* An endpoint is tried once, so it joins the Vec without repetition.      *)
LEMMA SpawnPairInv ==
  ASSUME RoundInv, NEW e \in Endpoint, SpawnPair(e)
  PROVE  RoundInv'
<1> USE DEF RoundInv, SpawnPair
<1>1. /\ pairs \in Seq(Endpoint) /\ IsInjective(pairs) /\ e \notin ToSet(pairs)
      /\ proc \in [Endpoint -> {"none", "running"} \cup ExitOutcome]
      /\ loop \in LoopRec /\ round \in RoundRec /\ ~round.closed
      /\ round.service_lost_pending = loop.service_lost
  BY DEF TypeOK, ChildrenAreHeld, LoopIsTracked, InLoop
<1>2. /\ pairs' \in Seq(Endpoint) /\ IsInjective(pairs') /\ pairs' # <<>>
      /\ ToSet(pairs') = ToSet(pairs) \cup {e}
  BY <1>1, AppendInjectiveTo
<1>3. /\ proc' \in [Endpoint -> {"none", "running"} \cup ExitOutcome]
      /\ overdue' \subseteq {f \in Endpoint : proc'[f] = "running"}
      /\ {f \in Endpoint : proc'[f] # "none"} = {f \in Endpoint : proc[f] # "none"} \cup {e}
  BY <1>1 DEF TypeOK
<1>4. /\ loop' \in LoopRec /\ loop'.spawned = loop.spawned \cup {e}
      /\ loop'.todo = loop.todo \ {e} /\ loop'.index = loop.index
      /\ loop'.failure = loop.failure /\ loop'.service_lost = loop.service_lost
      /\ loop'.pair_timed_out = loop.pair_timed_out
  BY <1>1 DEF LoopRec
<1>5. /\ round' \in RoundRec /\ round'.pair_in_flight /\ round'.id = round.id
      /\ round'.closed = round.closed
      /\ round'.service_lost_pending = round.service_lost_pending
  BY <1>1 DEF RoundRec
<1>6. TypeOK'
  BY <1>2, <1>3, <1>4, <1>5 DEF TypeOK, listVars
<1>7. ChildrenAreHeld'
  BY <1>2, <1>3 DEF ChildrenAreHeld
<1>8. EndIsClean' /\ AttributionIsRight'
  BY DEF EndIsClean, AttributionIsRight
<1>9. EachDeviceOnce'
  BY ListingQuiet
<1>10. LoopIsTracked'
  BY <1>1, <1>2, <1>4, <1>5 DEF LoopIsTracked, InLoop, RoundRec
<1>11. RoundIsTracked' /\ LateFits'
  BY <1>5 DEF RoundIsTracked, LateFits, InLoop, listVars
<1> QED BY <1>6, <1>7, <1>8, <1>9, <1>10, <1>11

(* A poll takes out the process it finds dead or overdue, or leaves all.   *)
LEMMA PollPairInv ==
  ASSUME RoundInv, PollPair
  PROVE  RoundInv'
<1> USE DEF RoundInv
<1> DEFINE e == pairs[loop.index]
<1>1. /\ pc = "poll" /\ loop.index \in 1..Len(pairs)
      /\ UNCHANGED <<mode, interrupted, late, deadline, round, secret, waited, result,
                     listVars>>
  BY DEF PollPair, TypeOK, LoopRec
<1>2. /\ pairs \in Seq(Endpoint) /\ IsInjective(pairs) /\ e \in Endpoint
      /\ e \in ToSet(pairs) /\ pairs # <<>> /\ Len(pairs) \in Nat
      /\ proc \in [Endpoint -> {"none", "running"} \cup ExitOutcome]
      /\ loop \in LoopRec /\ round \in RoundRec /\ round.pair_in_flight
      /\ out = NoOut
  BY <1>1 DEF TypeOK, ChildrenAreHeld, LoopIsTracked, RoundIsTracked, InLoop, ToSet
<1>3. EachDeviceOnce'
  BY <1>1, ListingQuiet
<1>4. CASE /\ LeaveRound("PairSucceeded", "none")
           /\ UNCHANGED <<childVars, loop>>
  <2>1. "PairSucceeded" \in Event /\ "none" \in ErrorsOf["PairSucceeded"]
    BY DEF Event, ErrorsOf
  <2>2. /\ pc' = "close" /\ out' \in OutRec /\ out'.event = "PairSucceeded"
        /\ out'.error = "none" /\ out'.reason = "none"
    BY <1>2, <1>4, <2>1, LeaveRoundIs
  <2>3. TypeOK' /\ ChildrenAreHeld'
    BY <1>1, <1>4, <2>2 DEF TypeOK, ChildrenAreHeld, Pc, childVars, listVars
  <2>4. EndIsClean' /\ AttributionIsRight'
    BY <2>1, <2>2 DEF EndIsClean, AttributionIsRight
  <2>5. LoopIsTracked' /\ RoundIsTracked' /\ LateFits'
    BY <1>1, <1>4, <2>2
    DEF LoopIsTracked, RoundIsTracked, LateFits, TypeOK, InLoop, childVars, listVars
  <2> QED BY <1>3, <2>3, <2>4, <2>5
<1>5. CASE /\ loop' = [loop EXCEPT !.index = @ + 1]
           /\ UNCHANGED <<pc, out, childVars>>
  <2>1. /\ loop' \in LoopRec /\ loop'.index = loop.index + 1
        /\ loop'.spawned = loop.spawned /\ loop'.failure = loop.failure
        /\ loop'.service_lost = loop.service_lost
        /\ loop'.pair_timed_out = loop.pair_timed_out
    BY <1>1, <1>2, <1>5 DEF LoopRec
  <2>2. TypeOK' /\ ChildrenAreHeld'
    BY <1>1, <1>5, <2>1 DEF TypeOK, ChildrenAreHeld, childVars, listVars
  <2>3. EndIsClean' /\ AttributionIsRight'
    BY <1>1, <1>5 DEF EndIsClean, AttributionIsRight
  <2>4. LoopIsTracked'
    BY <1>1, <1>2, <1>5, <2>1 DEF LoopIsTracked, InLoop, childVars
  <2>5. RoundIsTracked' /\ LateFits'
    BY <1>1, <1>5 DEF RoundIsTracked, LateFits, InLoop, childVars, listVars
  <2> QED BY <1>3, <2>2, <2>3, <2>4, <2>5
<1>6. ASSUME Forget(e), UNCHANGED <<pc, out>>, loop' \in LoopRec,
             loop'.index = loop.index, loop'.spawned = loop.spawned,
             loop'.service_lost = loop.service_lost, loop'.failure # "none"
      PROVE  RoundInv'
  <2>1. /\ pairs' \in Seq(Endpoint) /\ Len(pairs') = Len(pairs) - 1
        /\ IsInjective(pairs') /\ ToSet(pairs') = ToSet(pairs) \ {e}
    BY <1>1, <1>2, <1>6, RemoveAtIs, RemoveAtInjective DEF Forget
  <2>2. /\ proc' \in [Endpoint -> {"none", "running"} \cup ExitOutcome]
        /\ overdue' \subseteq {f \in Endpoint : proc'[f] = "running"}
        /\ {f \in Endpoint : proc'[f] # "none"}
             = {f \in Endpoint : proc[f] # "none"} \ {e}
    BY <1>2, <1>6 DEF TypeOK, Forget
  <2> HIDE DEF e
  <2>3. TypeOK' /\ ChildrenAreHeld'
    BY <1>1, <1>6, <2>1, <2>2 DEF TypeOK, ChildrenAreHeld, listVars
  <2>4. EndIsClean' /\ AttributionIsRight'
    BY <1>1, <1>6 DEF EndIsClean, AttributionIsRight
  <2>5. LoopIsTracked'
    BY <1>1, <1>2, <1>6, <2>1 DEF LoopIsTracked, InLoop
  <2>6. RoundIsTracked' /\ LateFits'
    BY <1>1, <1>6 DEF RoundIsTracked, LateFits, InLoop, listVars
  <2> QED BY <1>3, <2>3, <2>4, <2>5, <2>6
<1>7. ASSUME NEW f \in Failure \ {"none"},
             Forget(e), UNCHANGED <<pc, out>>, loop' = FirstFailure(loop, f)
      PROVE  RoundInv'
  BY <1>2, <1>6, <1>7, FirstFailureIs
<1>8. ASSUME Forget(e), UNCHANGED <<pc, out>>,
             loop' = [FirstFailure(loop, "timed_out") EXCEPT !.pair_timed_out = TRUE]
      PROVE  RoundInv'
  <2> DEFINE l == FirstFailure(loop, "timed_out")
  <2>1. /\ l \in LoopRec /\ l.failure # "none" /\ l.index = loop.index
        /\ l.spawned = loop.spawned /\ l.service_lost = loop.service_lost
    BY <1>2, FirstFailureIs DEF Failure
  <2> HIDE DEF l
  <2>2. /\ loop' \in LoopRec /\ loop'.failure # "none" /\ loop'.index = loop.index
        /\ loop'.spawned = loop.spawned /\ loop'.service_lost = loop.service_lost
    BY <1>8, <2>1 DEF LoopRec, l
  <2> QED BY <1>6, <1>8, <2>2
<1>9. {"failed", "unparseable"} \subseteq Failure \ {"none"}
  BY DEF Failure
<1> QED BY <1>4, <1>5, <1>7, <1>8, <1>9 DEF PollPair

(* The end of a turn: an empty Vec and a failure are the end of the round. *)
LEMMA PollsDoneInv ==
  ASSUME RoundInv, PollsDone
  PROVE  RoundInv'
<1> USE DEF RoundInv, PollsDone
<1>1. /\ out = NoOut /\ loop \in LoopRec /\ round \in RoundRec /\ pairs \in Seq(Endpoint)
      /\ ~round.closed /\ round.service_lost_pending = loop.service_lost
      /\ pairs # <<>> => round.pair_in_flight
      /\ loop.spawned # {} => pairs # <<>> \/ loop.failure # "none"
  BY DEF TypeOK, LoopIsTracked, RoundIsTracked, InLoop
<1>2. /\ round' \in RoundRec /\ round'.pair_in_flight = (pairs # <<>>)
      /\ round'.id = round.id /\ round'.closed = round.closed
      /\ round'.service_lost_pending = round.service_lost_pending
  BY <1>1 DEF RoundRec
<1>3. pairs = <<>> /\ loop.failure # "none" =>
        /\ pc' = "close" /\ out' \in OutRec /\ out'.reason = "none"
        /\ out'.event \in {"ServiceLost", "PairTimedOut", "PairFailed"}
        /\ out'.error \in ErrorsOf[out'.event]
        /\ out'.event = "ServiceLost" => loop.service_lost
        /\ out'.event = "PairTimedOut" => ~loop.service_lost /\ loop.pair_timed_out
        /\ out'.event = "PairFailed" => ~loop.service_lost /\ ~loop.pair_timed_out
  BY <1>1, FailRoundIs
<1>4. ~(pairs = <<>> /\ loop.failure # "none") => pc' = "top" /\ out' = out
  OBVIOUS
<1>5. pc' \in {"top", "close"} /\ out' \in OutRec
  BY <1>3, <1>4 DEF TypeOK
<1>6. TypeOK' /\ ChildrenAreHeld'
  BY <1>2, <1>5 DEF TypeOK, ChildrenAreHeld, Pc, childVars, listVars
<1>7. EndIsClean'
  BY <1>5 DEF EndIsClean
<1>8. AttributionIsRight'
  BY <1>1, <1>2, <1>3, <1>4 DEF AttributionIsRight
<1>9. EachDeviceOnce'
  BY ListingQuiet
<1>10. LoopIsTracked'
  <2>1. CASE pairs = <<>> /\ loop.failure # "none"
    BY <1>1, <1>2, <1>3, <2>1 DEF LoopIsTracked, InLoop, childVars
  <2>2. CASE ~(pairs = <<>> /\ loop.failure # "none")
    <3>1. /\ pc' = "top" /\ loop' = loop /\ pairs' = pairs
          /\ loop.spawned # {} \/ loop.failure # "none" => pairs # <<>>
      BY <1>1, <1>4, <2>2 DEF childVars
    <3>2. /\ ToSet(pairs) \subseteq loop.spawned
          /\ loop.pair_timed_out => loop.failure # "none"
      BY DEF LoopIsTracked
    <3> HIDE DEF PollsDone, RoundInv
    <3> QED BY <1>1, <1>2, <3>1, <3>2 DEF LoopIsTracked, InLoop
  <2> QED BY <2>1, <2>2
<1>11. RoundIsTracked'
  BY <1>1, <1>2, <1>3, <1>4 DEF RoundIsTracked, InLoop, childVars, listVars, Event
<1>12. LateFits'
  BY <1>3, <1>4 DEF LateFits, TypeOK
<1> QED BY <1>6, <1>7, <1>8, <1>9, <1>10, <1>11, <1>12

(* round_close empties the Vec; only a success goes on to wait.            *)
LEMMA RoundCloseInv ==
  ASSUME RoundInv, RoundClose
  PROVE  RoundInv'
<1> USE DEF RoundInv, RoundClose
<1>1. /\ round \in RoundRec /\ ~round.closed /\ round.id = 1 /\ ~waited
      /\ out \in OutRec /\ out.event \in Event /\ result = "none"
  BY DEF TypeOK, OutRec, LoopIsTracked, RoundIsTracked, InLoop
<1>2. /\ round' \in RoundRec /\ round'.closed /\ round'.id = 2
      /\ CloseReason(round, out.event).reason = out.event
  BY <1>1, CloseReasonIs
<1>3. /\ out' \in OutRec /\ out'.event = out.event /\ out'.error = out.error
      /\ out'.reason = out.event
  BY <1>1, <1>2 DEF OutRec
<1>4. /\ loop' \in LoopRec /\ loop'.spawned = {} /\ loop'.failure = "none"
      /\ ~loop'.pair_timed_out /\ pairs' = <<>> /\ pairs' \in Seq(Endpoint)
  BY DEF NoLoop, LoopRec, Failure
<1>5. pc' \in {"wait", "done"} /\ (pc' = "wait" => result' = result)
  OBVIOUS
<1>6. TypeOK'
  BY <1>2, <1>3, <1>4, <1>5 DEF TypeOK, Pc, listVars
<1>7. ChildrenAreHeld'
  BY EmptyInjective DEF ChildrenAreHeld
<1>8. EndIsClean'
  BY <1>2, <1>4 DEF EndIsClean, RoundRec
<1>9. AttributionIsRight'
  BY <1>3, <1>5 DEF AttributionIsRight
<1>10. EachDeviceOnce'
  <2>1. result' = "ok" => result = "ok"
    <3>1. out.error # "ok"
      BY <1>1 DEF OutRec, Failure
    <3> QED BY <3>1
  <2> QED BY <2>1, ListingQuiet
<1>11. LoopIsTracked'
  BY <1>4, <1>5, EmptyInjective DEF LoopIsTracked, InLoop
<1>12. RoundIsTracked'
  BY <1>1, <1>2, <1>5 DEF RoundIsTracked, InLoop, RoundRec, listVars
<1>13. LateFits'
  <2>1. pc' = "wait" => out.event = "PairSucceeded"
    BY <1>1 DEF AttributionIsRight, ErrorsOf, Event, Failure
  <2> QED BY <1>1, <1>5, <2>1 DEF LateFits, TypeOK
<1> QED BY <1>6, <1>7, <1>8, <1>9, <1>10, <1>11, <1>12, <1>13

(* The listing is read once, each getprop counted.                         *)
LEMMA ListDevicesInv ==
  ASSUME RoundInv, ListDevices
  PROVE  RoundInv'
<1> USE DEF RoundInv
<1>1. /\ pc = "devices" /\ late \in 0..1 /\ visible = <<>> /\ seen = 0 /\ listing = <<>>
      /\ result = "none"
      /\ UNCHANGED <<mode, interrupted, deadline, childVars, loop, round, out, waited,
                     visible, seen>>
  BY DEF ListDevices, TypeOK, LateFits, RoundIsTracked
<1>2. /\ late' \in 0..(MaxDevices + 3)
      /\ ~interrupted => late' = 0
      /\ pc' = "dedup" => late' <= MaxDevices + 2
      /\ listing' \in Seq(DeviceRec) /\ seen' \in 0..Len(listing')
      /\ \/ pc' = "dedup" /\ result' = result /\ secret' = secret
         \/ /\ pc' = "done" /\ result' = "failed" /\ secret' = FALSE
            /\ listing' = listing
  <2>1. CASE Ran /\ Return("failed") /\ UNCHANGED listing
    BY <1>1, <2>1, PairingRoundAssumption DEF Ran, Return, LateFits, TypeOK
  <2>2. ASSUME NEW l \in Listings,
               late' = IF interrupted THEN late + 1 + Len(l) ELSE late,
               listing' = l, pc' = "dedup", UNCHANGED <<result, secret>>
        PROVE  /\ late' \in 0..(MaxDevices + 3) /\ late' <= MaxDevices + 2
               /\ ~interrupted => late' = 0
               /\ listing' \in Seq(DeviceRec) /\ seen' \in 0..Len(listing')
    BY <1>1, <2>2, ListingsAre, PairingRoundAssumption DEF LateFits
  <2> QED BY <2>1, <2>2 DEF ListDevices, Return
<1>3. pc' \in {"dedup", "done"}
  BY <1>2
<1>4. TypeOK' /\ ChildrenAreHeld'
  BY <1>1, <1>2 DEF TypeOK, ChildrenAreHeld, Pc, childVars
<1>5. EndIsClean'
  BY <1>1, <1>2 DEF EndIsClean, childVars
<1>6. AttributionIsRight'
  BY <1>1, <1>3 DEF AttributionIsRight
<1>7. EachDeviceOnce'
  BY <1>1, <1>2 DEF EachDeviceOnce, OneRowEach
<1>8. LoopIsTracked'
  BY <1>1, <1>3 DEF LoopIsTracked, InLoop, childVars
<1>9. RoundIsTracked'
  BY <1>1, <1>2 DEF RoundIsTracked, InLoop
<1>10. LateFits'
  BY <1>1, <1>2, <1>3 DEF LateFits
<1> QED BY <1>4, <1>5, <1>6, <1>7, <1>8, <1>9, <1>10

(* The loop of deduplicate_devices goes on, or its result is complete.     *)
LEMMA DeduplicateDevicesInv ==
  ASSUME RoundInv, DeduplicateDevices
  PROVE  RoundInv'
<1> USE DEF RoundInv
<1>1. /\ pc = "dedup" /\ listing \in Seq(DeviceRec) /\ Len(listing) \in Nat
      /\ seen \in 0..Len(listing) /\ visible \in Seq(Nat)
      /\ OneRowEach(listing, visible, seen) /\ result = "none"
      /\ UNCHANGED <<mode, interrupted, late, deadline, childVars, loop, round, out,
                     waited, listing>>
  BY DEF DeduplicateDevices, TypeOK, EachDeviceOnce, RoundIsTracked
<1>2. /\ seen' \in 0..Len(listing) /\ visible' \in Seq(Nat)
      /\ OneRowEach(listing, visible', seen')
      /\ \/ pc' \in {"dedup", "name"} /\ result' = result /\ secret' = secret
         \/ pc' = "done" /\ secret' = FALSE
      /\ pc' # "dedup" => seen' = Len(listing)
  <2>1. CASE seen < Len(listing)
    <3>1. /\ seen' = seen + 1 /\ visible' = AddDevice(listing, visible, seen + 1)
          /\ pc' = "dedup" /\ result' = result /\ secret' = secret
      BY <2>1 DEF DeduplicateDevices
    <3>2. seen \in Nat /\ seen + 1 \in 0..Len(listing)
      BY <1>1, <2>1
    <3> QED BY <1>1, <2>1, <3>1, <3>2, AddDeviceIs
  <2>2. CASE ~(seen < Len(listing))
    <3>1. /\ seen' = seen /\ visible' = visible
          /\ \/ pc' = "done" /\ secret' = FALSE
             \/ pc' = "name" /\ UNCHANGED <<result, secret>>
      BY <2>2 DEF DeduplicateDevices, Return
    <3>2. seen = Len(listing)
      BY <1>1, <2>2
    <3> QED BY <1>1, <3>1, <3>2
  <2> QED BY <2>1, <2>2
<1>3. pc' \in {"dedup", "name", "done"}
  BY <1>2
<1>4. TypeOK' /\ ChildrenAreHeld'
  BY <1>1, <1>2 DEF TypeOK, ChildrenAreHeld, Pc, childVars
<1>5. EndIsClean'
  BY <1>1, <1>2 DEF EndIsClean, childVars
<1>6. AttributionIsRight'
  BY <1>1, <1>3 DEF AttributionIsRight
<1>7. EachDeviceOnce'
  BY <1>1, <1>2 DEF EachDeviceOnce
<1>8. LoopIsTracked'
  BY <1>1, <1>3 DEF LoopIsTracked, InLoop, childVars
<1>9. RoundIsTracked'
  BY <1>1, <1>2 DEF RoundIsTracked, InLoop
<1>10. LateFits'
  BY <1>1, <1>3 DEF LateFits
<1> QED BY <1>4, <1>5, <1>6, <1>7, <1>8, <1>9, <1>10

(* The look-up of the name ends the GUI's attempt; it is the last command  *)
(* that can come to its end after a cancel.                                *)
LEMMA PairedDeviceNameInv ==
  ASSUME RoundInv, PairedDeviceName
  PROVE  RoundInv'
<1> USE DEF RoundInv, PairedDeviceName, Return, childVars, listVars
<1>1. late \in Nat /\ late <= MaxDevices + 2
  BY DEF TypeOK, LateFits
<1>2. late' \in 0..(MaxDevices + 3) /\ (~interrupted => late' = 0)
  BY <1>1, PairingRoundAssumption DEF Ran, LateFits
<1>3. TypeOK'
  BY <1>2 DEF TypeOK, Pc
<1>4. ChildrenAreHeld'
  BY DEF ChildrenAreHeld
<1>5. EndIsClean'
  BY DEF EndIsClean
<1>6. AttributionIsRight'
  BY DEF AttributionIsRight
<1>7. EachDeviceOnce'
  BY ListingQuiet DEF RoundIsTracked
<1>8. LoopIsTracked'
  BY DEF LoopIsTracked, InLoop
<1>9. RoundIsTracked'
  BY DEF RoundIsTracked, InLoop
<1>10. LateFits'
  BY <1>2 DEF LateFits
<1> QED BY <1>3, <1>4, <1>5, <1>6, <1>7, <1>8, <1>9, <1>10

LEMMA InitInv == Init => RoundInv
<1> SUFFICES ASSUME Init PROVE RoundInv
  OBVIOUS
<1> USE DEF Init
<1>1. loop \in LoopRec /\ round \in RoundRec /\ out \in OutRec /\ out = NoOut
  BY DEF NoLoop, LoopRec, RoundRec, NoOut, OutRec, Failure, Event
<1>2. TypeOK
  <2>1. mode \in Mode /\ pc \in Pc /\ late \in 0..(MaxDevices + 3)
    BY PairingRoundAssumption DEF Pc, Mode
  <2>2. /\ listing \in Seq(DeviceRec) /\ visible \in Seq(Nat) /\ pairs \in Seq(Endpoint)
        /\ seen \in 0..Len(listing)
    OBVIOUS
  <2> QED BY <1>1, <2>1, <2>2 DEF TypeOK
<1>3. ChildrenAreHeld
  BY EmptyInjective DEF ChildrenAreHeld
<1>4. EndIsClean /\ LateFits
  BY DEF EndIsClean, LateFits
<1>5. AttributionIsRight
  BY <1>1 DEF AttributionIsRight, ErrorsOf, NoOut, Mode
<1>6. EachDeviceOnce
  BY DEF EachDeviceOnce, OneRowEach
<1>7. LoopIsTracked
  BY EmptyInjective DEF LoopIsTracked, NoLoop, InLoop
<1>8. RoundIsTracked
  BY <1>1 DEF RoundIsTracked, InLoop
<1> QED BY <1>2, <1>3, <1>4, <1>5, <1>6, <1>7, <1>8 DEF RoundInv

LEMMA QuietInv ==
  ASSUME RoundInv, UNCHANGED vars
  PROVE  RoundInv'
<1> USE DEF RoundInv, vars, childVars, listVars
<1>1. TypeOK' /\ ChildrenAreHeld' /\ EndIsClean' /\ AttributionIsRight'
  BY DEF TypeOK, ChildrenAreHeld, EndIsClean, AttributionIsRight
<1>2. EachDeviceOnce'
  BY ListingQuiet
<1>3. LoopIsTracked' /\ RoundIsTracked' /\ LateFits'
  BY DEF LoopIsTracked, RoundIsTracked, LateFits
<1> QED BY <1>1, <1>2, <1>3

LEMMA StepInv ==
  ASSUME RoundInv, [Next]_vars
  PROVE  RoundInv'
<1>1. CASE Worker
  <2>1. CASE CheckAdb \/ RenderQr \/ PairManual
    BY <2>1, CheckAdbInv, RenderQrInv, PairManualInv
  <2>2. CASE \/ LoopTop
             \/ \E error \in QueryError : QueryFails(error)
             \/ \E m \in SUBSET Endpoint : QueryAnswers(m)
    BY <2>2, LoopTopInv, QueryFailsInv, QueryAnswersInv
  <2>3. CASE SpawnsDone \/ \E e \in Endpoint : SpawnPair(e) \/ SpawnFails(e)
    BY <2>3, SpawnsDoneInv, SpawnPairInv, SpawnFailsInv
  <2>4. CASE PollPair \/ PollsDone \/ RoundClose
    BY <2>4, PollPairInv, PollsDoneInv, RoundCloseInv
  <2>5. CASE WaitTop \/ WaitLists \/ FallbackConnect
    BY <2>5, WaitTopInv, WaitListsInv, FallbackConnectInv
  <2>6. CASE ListDevices \/ DeduplicateDevices \/ PairedDeviceName
    BY <2>6, ListDevicesInv, DeduplicateDevicesInv, PairedDeviceNameInv
  <2> QED BY <1>1, <2>1, <2>2, <2>3, <2>4, <2>5, <2>6 DEF Worker
<1>2. CASE Interrupt \/ DeadlinePasses
  BY <1>2, InterruptInv, DeadlinePassesInv
<1>3. CASE \E e \in Endpoint : PairExits(e) \/ PairIsOverdue(e)
  BY <1>3, PairExitsInv, PairIsOverdueInv
<1>4. CASE UNCHANGED vars
  BY <1>4, QuietInv
<1> QED BY <1>1, <1>2, <1>3, <1>4 DEF Next

-----------------------------------------------------------------------------
(* RoundInv holds in every state of an attempt: run_pairing_round_with_    *)
(* cancel, round_close and the waits after them keep it.                   *)
THEOREM RoundInvHolds == Spec => []RoundInv
<1> QED BY InitInv, StepInv, PTL DEF Spec

(* No `adb pair` is out of reach, and none, no open round and no password  *)
(* is left behind when the attempt waits for its device or returns.        *)
THEOREM NothingIsLeftHolds == Spec => []NothingIsLeft
<1>1. RoundInv => NothingIsLeft
  BY DEF RoundInv, NothingIsLeft, LoopIsTracked, InLoop
<1> QED BY <1>1, RoundInvHolds, PTL

(* A round ends with the strongest event that befell it, an error of that  *)
(* event's, and is closed for no other reason (classify_round_failure,     *)
(* round_close).                                                           *)
THEOREM AttributionIsRightHolds == Spec => []AttributionIsRight
<1>1. RoundInv => AttributionIsRight
  BY DEF RoundInv
<1> QED BY <1>1, RoundInvHolds, PTL

(* deduplicate_devices shows every device once, however many there are and *)
(* whichever of them answer getprop.                                       *)
THEOREM EachDeviceOnceHolds == Spec => []EachDeviceOnce
<1>1. RoundInv => EachDeviceOnce
  BY DEF RoundInv
<1> QED BY <1>1, RoundInvHolds, PTL

(* A running `adb pair` leaves the table only by the poll of one that is   *)
(* past its 10 s or by round_close, which finds one only after a success,  *)
(* a cancel or the end of the round's time.                                *)
LEMMA KillHasCause ==
  ASSUME RoundInv, [Next]_vars, NEW e \in Endpoint,
         proc[e] = "running", proc'[e] = "none"
  PROVE  \/ e \in overdue
         \/ pc = "close" /\ out.event \in {"PairSucceeded", "Cancelled", "Timeout"}
<1> USE DEF RoundInv
<1>1. /\ proc \in [Endpoint -> {"none", "running"} \cup ExitOutcome]
      /\ "running" # "none" /\ "none" \notin ExitOutcome
  BY DEF TypeOK, ExitOutcome
<1>2. proc' # proc
  OBVIOUS
<1>3. CASE PollPair
  <2> DEFINE f == pairs[loop.index]
  <2>1. \/ UNCHANGED childVars
        \/ Forget(f) /\ proc[f] \in {"no_guid", "failed"}
        \/ Forget(f) /\ f \in overdue
    BY <1>3 DEF PollPair
  <2>2. e = f
    BY <1>1, <1>2, <2>1 DEF Forget, childVars
  <2> QED BY <1>2, <2>1, <2>2 DEF childVars
<1>4. CASE RoundClose
  <2>1. e \in ToSet(pairs)
    BY DEF ChildrenAreHeld
  <2>2. pairs # <<>>
    BY <2>1, EmptyInjective
  <2>3. out.event \in Event
    BY <1>4 DEF RoundClose, RoundIsTracked, TypeOK, OutRec
  <2> QED BY <1>4, <2>2, <2>3 DEF RoundClose, RoundIsTracked, Event
<1>5. ASSUME NEW f \in Endpoint, SpawnPair(f) \/ PairExits(f)
      PROVE  FALSE
  BY <1>1, <1>5 DEF SpawnPair, PairExits
<1>6. PollPair \/ RoundClose \/ \E f \in Endpoint : SpawnPair(f) \/ PairExits(f)
  <2>1. Next
    BY <1>2 DEF vars, childVars
  <2>2. ~(CheckAdb \/ RenderQr \/ LoopTop \/ SpawnsDone \/ PollsDone)
    BY <1>2 DEF CheckAdb, RenderQr, LoopTop, SpawnsDone, PollsDone, childVars
  <2>3. ~(PairManual \/ WaitTop \/ WaitLists \/ FallbackConnect \/ ListDevices
          \/ DeduplicateDevices \/ PairedDeviceName \/ Interrupt \/ DeadlinePasses)
    BY <1>2 DEF PairManual, WaitTop, WaitLists, FallbackConnect, ListDevices,
                DeduplicateDevices, PairedDeviceName, Interrupt, DeadlinePasses, childVars
  <2>4. /\ ~(\E m \in SUBSET Endpoint : QueryAnswers(m))
        /\ ~(\E error \in QueryError : QueryFails(error))
    BY <1>2 DEF QueryAnswers, QueryFails, childVars
  <2>5. ~(\E f \in Endpoint : SpawnFails(f) \/ PairIsOverdue(f))
    BY <1>2 DEF SpawnFails, PairIsOverdue, childVars
  <2> QED BY <2>1, <2>2, <2>3, <2>4, <2>5 DEF Next, Worker
<1> QED BY <1>3, <1>4, <1>5, <1>6

(* A pair in flight is killed only for a cause: never for a failed query,  *)
(* a failed spawn, a lost service or the failure of another.               *)
THEOREM KilledOnlyForCauseHolds == Spec => KilledOnlyForCause
<1>1. RoundInv /\ [Next]_vars =>
        [\A e \in Endpoint :
           proc[e] = "running" /\ proc'[e] = "none" =>
             \/ e \in overdue
             \/ pc = "close" /\ out.event \in {"PairSucceeded", "Cancelled", "Timeout"}]_vars
  BY KillHasCause
<1> QED BY <1>1, RoundInvHolds, PTL DEF Spec, KilledOnlyForCause

(* At a query, a pair, a list, a fallback or a connect no command has      *)
(* ended since the cancel, so what ends there is the first.                *)
LEMMA SecondCommandIsKnown ==
  ASSUME RoundInv, [Next]_vars, mode # "qr_cli", late' > late, late' > 1
  PROVE  pc \in {"version", "mdns_check", "devices", "name"}
<1> USE DEF RoundInv
<1>1. late \in Nat /\ late' # late
  BY DEF TypeOK
<1>2. late = 0 /\ Ran => FALSE
  BY <1>1 DEF Ran
<1>3. CASE CheckAdb \/ ListDevices \/ PairedDeviceName
  BY <1>3 DEF CheckAdb, ListDevices, PairedDeviceName
<1>4. CASE \/ \E error \in QueryError : QueryFails(error)
           \/ \E m \in SUBSET Endpoint : QueryAnswers(m)
           \/ PairManual \/ WaitLists \/ FallbackConnect
  <2>1. Ran /\ pc \in {"query", "pair", "list", "fallback", "connect"}
    BY <1>4 DEF QueryFails, QueryAnswers, PairManual, WaitLists, FallbackConnect
  <2>2. late = 0
    BY <2>1 DEF LateFits
  <2> QED BY <1>2, <2>1, <2>2
<1>5. Next
  BY <1>1 DEF vars
<1>6. ~(RenderQr \/ LoopTop \/ SpawnsDone \/ PollPair \/ PollsDone \/ RoundClose)
  BY <1>1 DEF RenderQr, LoopTop, SpawnsDone, PollPair, PollsDone, RoundClose
<1>7. ~(WaitTop \/ DeduplicateDevices \/ Interrupt \/ DeadlinePasses)
  BY <1>1 DEF WaitTop, DeduplicateDevices, Interrupt, DeadlinePasses
<1>8. ~(\E e \in Endpoint : SpawnPair(e) \/ SpawnFails(e) \/ PairExits(e) \/ PairIsOverdue(e))
  BY <1>1 DEF SpawnPair, SpawnFails, PairExits, PairIsOverdue
<1> QED BY <1>3, <1>4, <1>5, <1>6, <1>7, <1>8 DEF Next, Worker

(* A cancelled GUI worker lets one adb command come to its end, a second   *)
(* one only in check_adb, in the last listing and in paired_device_name.   *)
THEOREM CancelIsPromptHolds == Spec => CancelIsPrompt
<1>1. RoundInv /\ [Next]_vars =>
        [mode # "qr_cli" /\ late' > late /\ late' > 1 =>
           pc \in {"version", "mdns_check", "devices", "name"}]_vars
  BY SecondCommandIsKnown
<1> QED BY <1>1, RoundInvHolds, PTL DEF Spec, CancelIsPrompt

=============================================================================
