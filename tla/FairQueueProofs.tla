-------------------------- MODULE FairQueueProofs --------------------------
(***************************************************************************)
(* Proofs about FairQueue, for any providers, any of them added late, any  *)
(* limit, depth and number of faults, and any concession of at least one.  *)
(*                                                                         *)
(* QueueInv is what the types need: a round in progress has a tier to      *)
(* poll, and no more pulls left than free lanes, so that each pull finds   *)
(* one. OneTaskPerProvider needs that a round in progress has room, since  *)
(* only the loop spawns (TaskInv). BoundedWaiting is about a count, and    *)
(* PassInv pays it in turns: what a lane was passed by, and the turns it   *)
(* is still behind the cursor, are together less than the number of lanes. *)
(* FullTierNotStarved needs to follow a round that polls the full tier     *)
(* first because of the streak: every free full lane has had its turn in   *)
(* it and is owed nothing, or comes within the pulls that are left         *)
(* (OwedInv).                                                              *)
(***************************************************************************)
EXTENDS FairQueue, Ordered

-----------------------------------------------------------------------------
(* Turns.                                                                  *)

\* How many turns lane j is behind the cursor c, of n lanes counted from 0.
Dist(c, j, n) == IF j >= c THEN j - c ELSE j + n - c

\* The remainder of a number below twice the divisor.
LEMMA Remainder ==
    ASSUME NEW n \in Nat \ {0}, NEW x \in Nat, x < 2 * n
    PROVE  x % n = IF x < n THEN x ELSE x - n
<1>1. CASE x < n
  BY <1>1
<1>2. CASE x >= n
  BY <1>2
<1> QED
  BY <1>1, <1>2

\* Turns and distances are inverse to each other.
LEMMA TurnsAndDistances ==
    ASSUME NEW n \in Nat \ {0}, NEW c \in 0..(n - 1)
    PROVE  /\ \A j \in 0..(n - 1) : Dist(c, j, n) \in 0..(n - 1) /\ (c + Dist(c, j, n)) % n = j
           /\ \A k \in 0..(n - 1) : (c + k) % n \in 0..(n - 1) /\ Dist(c, (c + k) % n, n) = k
<1>1. ASSUME NEW j \in 0..(n - 1)
      PROVE  Dist(c, j, n) \in 0..(n - 1) /\ (c + Dist(c, j, n)) % n = j
  <2>1. Dist(c, j, n) \in 0..(n - 1)
    BY DEF Dist
  <2>2. (c + Dist(c, j, n)) % n =
            IF c + Dist(c, j, n) < n THEN c + Dist(c, j, n) ELSE c + Dist(c, j, n) - n
    BY <2>1, Remainder
  <2> QED
    BY <2>1, <2>2 DEF Dist
<1>2. ASSUME NEW k \in 0..(n - 1)
      PROVE  (c + k) % n \in 0..(n - 1) /\ Dist(c, (c + k) % n, n) = k
  <2>1. PICK x : x = (c + k) % n
    OBVIOUS
  <2>2. x = IF c + k < n THEN c + k ELSE c + k - n
    <3>1. PICK y \in Nat : y = c + k /\ y < 2 * n
      OBVIOUS
    <3>2. y % n = IF y < n THEN y ELSE y - n
      BY <3>1, Remainder
    <3> QED
      BY <2>1, <3>1, <3>2
  <2>3. CASE c + k < n
    <3>1. x \in 0..(n - 1) /\ Dist(c, x, n) = k
      BY <2>2, <2>3 DEF Dist
    <3> QED
      BY <2>1, <3>1
  <2>4. CASE ~(c + k < n)
    <3>1. x \in 0..(n - 1) /\ Dist(c, x, n) = k
      BY <2>2, <2>4 DEF Dist
    <3> QED
      BY <2>1, <3>1
  <2> QED
    BY <2>3, <2>4
<1> QED
  BY <1>1, <1>2

\* Once lane r has had its turn it is the furthest from the cursor, and what was behind it is as much
\* nearer.
LEMMA DistanceAfterTurn ==
    ASSUME NEW n \in Nat \ {0}, NEW c \in 0..(n - 1), NEW r \in 0..(n - 1), NEW j \in 0..(n - 1)
    PROVE  /\ (r + 1) % n \in 0..(n - 1)
           /\ j = r => Dist((r + 1) % n, j, n) = n - 1
           /\ Dist(c, r, n) < Dist(c, j, n) =>
                 Dist((r + 1) % n, j, n) = Dist(c, j, n) - Dist(c, r, n) - 1
           /\ Dist(c, r, n) = Dist(c, j, n) => j = r
<1>1. PICK x : x = (r + 1) % n
  OBVIOUS
<1>2. x = IF r + 1 < n THEN r + 1 ELSE 0
  <2>1. x = IF r + 1 < n THEN r + 1 ELSE r + 1 - n
    <3>1. PICK y \in Nat : y = r + 1 /\ y < 2 * n
      OBVIOUS
    <3>2. y % n = IF y < n THEN y ELSE y - n
      BY <3>1, Remainder
    <3> QED
      BY <1>1, <3>1, <3>2
  <2> QED
    BY <2>1
<1>3. x \in 0..(n - 1)
  BY <1>2
<1>4. j = r => Dist(x, j, n) = n - 1
  BY <1>2 DEF Dist
<1>5. Dist(c, r, n) < Dist(c, j, n) => Dist(x, j, n) = Dist(c, j, n) - Dist(c, r, n) - 1
  <2>1. CASE r >= c
    BY <1>2, <2>1 DEF Dist
  <2>2. CASE ~(r >= c)
    BY <1>2, <2>2 DEF Dist
  <2> QED
    BY <2>1, <2>2
<1>6. Dist(c, r, n) = Dist(c, j, n) => j = r
  BY DEF Dist
<1> QED
  BY <1>1, <1>3, <1>4, <1>5, <1>6

\* More lanes put a lane behind by at most as many turns.
LEMMA DistanceGrows ==
    ASSUME NEW n \in Nat, NEW k \in Nat, NEW c \in Nat, NEW j \in Int, n <= k
    PROVE  Dist(c, j, k) \in Int /\ Dist(c, j, n) \in Int /\ Dist(c, j, k) - Dist(c, j, n) <= k - n
<1>1. CASE j >= c
  <2>1. Dist(c, j, k) = j - c /\ Dist(c, j, n) = j - c
    BY <1>1 DEF Dist
  <2> QED
    BY <2>1
<1>2. CASE ~(j >= c)
  <2>1. Dist(c, j, k) = j + k - c /\ Dist(c, j, n) = j + n - c
    BY <1>2 DEF Dist
  <2> QED
    BY <2>1
<1> QED
  BY <1>1, <1>2

\* A tier's lanes, its cursor and what is in flight have their types.
LanesOK ==
    /\ known \in SUBSET Provider
    /\ lanes \in [Mode -> Seq(Provider)]
    /\ \A m \in Mode : \A i, j \in DOMAIN lanes[m] : i # j => lanes[m][i] # lanes[m][j]
    /\ \A m \in Mode : LaneSet(m) \subseteq known
    /\ cursor \in [Mode -> Nat]
    /\ \A m \in Mode : cursor[m] \in {0} \union 0..(Len(lanes[m]) - 1)

\* Where a tier has a lane its cursor is on one.
LEMMA CursorOnLane ==
    ASSUME LanesOK, NEW m \in Mode, NEW i \in DOMAIN lanes[m]
    PROVE  /\ Len(lanes[m]) \in Nat \ {0} /\ DOMAIN lanes[m] = 1..Len(lanes[m])
           /\ cursor[m] \in 0..(Len(lanes[m]) - 1) /\ i - 1 \in 0..(Len(lanes[m]) - 1)
<1>1. lanes[m] \in Seq(Provider) /\ cursor[m] \in {0} \union 0..(Len(lanes[m]) - 1)
  BY DEF LanesOK
<1> QED
  BY <1>1

\* next_free_lane finds the free lane that is nearest to the cursor, if there is a free one.
LEMMA NextFreeLane ==
    ASSUME LanesOK, NEW m \in Mode, FreeLanes(m) # {}
    PROVE  /\ Len(lanes[m]) \in Nat \ {0} /\ cursor[m] \in 0..(Len(lanes[m]) - 1)
           /\ next_free_lane(m) \in 0..(Len(lanes[m]) - 1)
           /\ next_free_lane(m) + 1 \in FreeLanes(m)
           /\ \A i \in FreeLanes(m) :
                 /\ i - 1 \in 0..(Len(lanes[m]) - 1)
                 /\ Dist(cursor[m], next_free_lane(m), Len(lanes[m])) <= Dist(cursor[m], i - 1, Len(lanes[m]))
<1> DEFINE n == Len(lanes[m])
           c == cursor[m]
           Free(k) == lanes[m][Turn(m, k) + 1] \notin busy
           T == {k \in 0..(n - 1) : Free(k)}
           h == CHOOSE k \in 0..(n - 1) : Free(k) /\ \A j \in 0..(k - 1) : ~Free(j)
<1>1. PICK f \in FreeLanes(m) : TRUE
  OBVIOUS
<1>2. n \in Nat \ {0} /\ c \in 0..(n - 1) /\ DOMAIN lanes[m] = 1..n
  BY <1>1, CursorOnLane DEF FreeLanes
<1>3. \A k : Turn(m, k) = (c + k) % n
  BY DEF Turn
<1>4. \A i \in FreeLanes(m) : i - 1 \in 0..(n - 1) /\ Dist(c, i - 1, n) \in T
  <2> SUFFICES ASSUME NEW i \in FreeLanes(m)
               PROVE  i - 1 \in 0..(n - 1) /\ Dist(c, i - 1, n) \in T
    OBVIOUS
  <2>1. i \in 1..n /\ lanes[m][i] \notin busy
    BY <1>2 DEF FreeLanes
  <2>2. i - 1 \in 0..(n - 1)
    BY <1>2, <2>1
  <2>3. Dist(c, i - 1, n) \in 0..(n - 1) /\ Turn(m, Dist(c, i - 1, n)) = i - 1
    BY <1>2, <1>3, <2>2, TurnsAndDistances
  <2>4. Free(Dist(c, i - 1, n))
    BY <2>1, <2>3
  <2> QED
    BY <2>2, <2>3, <2>4
<1>5. \E k \in T : \A y \in T : k <= y
  <2>1. T \in SUBSET Nat /\ T # {}
    BY <1>1, <1>2, <1>4
  <2> HIDE DEF T
  <2> QED
    BY <2>1, LeastMember
<1>6. \E k \in 0..(n - 1) : Free(k) /\ \A j \in 0..(k - 1) : ~Free(j)
  BY <1>2, <1>5
<1>7. h \in 0..(n - 1) /\ Free(h) /\ \A j \in 0..(h - 1) : ~Free(j)
  <2> HIDE DEF Free, n
  <2> QED
    BY <1>6
<1>8. next_free_lane(m) = (c + h) % n
  BY <1>3 DEF next_free_lane
<1> HIDE DEF h
<1>9. next_free_lane(m) \in 0..(n - 1) /\ Dist(c, next_free_lane(m), n) = h
  <2>1. (c + h) % n \in 0..(n - 1) /\ Dist(c, (c + h) % n, n) = h
    <3> HIDE DEF n, c
    <3> QED
      BY <1>2, <1>7, TurnsAndDistances
  <2> QED
    BY <1>8, <2>1
<1>10. next_free_lane(m) + 1 \in FreeLanes(m)
  <2>1. lanes[m][next_free_lane(m) + 1] \notin busy
    BY <1>3, <1>7, <1>8
  <2>2. next_free_lane(m) + 1 \in 1..n
    BY <1>2, <1>9
  <2> QED
    BY <1>2, <2>1, <2>2 DEF FreeLanes
<1>11. \A k \in T : h <= k
  BY <1>2, <1>7
<1> HIDE DEF T
<1> QED
  BY <1>2, <1>4, <1>9, <1>10, <1>11

-----------------------------------------------------------------------------
(* Lanes.                                                                  *)

\* The providers are finitely many, and no more than Sorted lists.
LEMMA ProvidersFinite ==
    IsFiniteSet(Provider) /\ Cardinality(Provider) \in Nat /\ Len(Sorted) \in Nat
    /\ Cardinality(Provider) <= Len(Sorted)
<1>1. Sorted \in Seq(Provider)
  BY FairQueueAssumption DEF Provider
<1>2. Len(Sorted) \in Nat /\ DOMAIN Sorted = 1..Len(Sorted)
  BY <1>1
<1>3. Sorted \in Surjection(1..Len(Sorted), Provider)
  BY <1>1, <1>2 DEF Surjection, Provider
<1>4. IsFiniteSet(1..Len(Sorted)) /\ Cardinality(1..Len(Sorted)) = Len(Sorted)
  <2>1. PICK n \in Nat : n = Len(Sorted)
    BY <1>2
  <2>2. 1 \in Int /\ n \in Int
    OBVIOUS
  <2>3. IsFiniteSet(1..n) /\ Cardinality(1..n) = IF 1 > n THEN 0 ELSE n - 1 + 1
    BY <2>2, FS_Interval
  <2>4. (IF 1 > n THEN 0 ELSE n - 1 + 1) = n
    OBVIOUS
  <2> QED
    BY <2>1, <2>3, <2>4
<1>5. IsFiniteSet(Provider) /\ Cardinality(Provider) <= Cardinality(1..Len(Sorted))
  BY <1>3, <1>4, FS_Surjection
<1>6. Cardinality(Provider) \in Nat
  BY <1>5, FS_CardinalityType
<1> QED
  BY <1>2, <1>4, <1>5, <1>6

\* A tier has no more free lanes than there are providers.
LEMMA FreeLanesBounded ==
    ASSUME NEW ls \in Seq(Provider), \A i, j \in DOMAIN ls : i # j => ls[i] # ls[j],
           NEW F \in SUBSET DOMAIN ls
    PROVE  IsFiniteSet(F) /\ Cardinality(F) \in 0..Len(Sorted) /\ (Cardinality(F) > 0 => F # {})
<1>1. ls \in [DOMAIN ls -> Provider]
  OBVIOUS
<1>2. ls \in Injection(DOMAIN ls, Provider)
  BY <1>1 DEF Injection, IsInjective
<1>3. IsFiniteSet(DOMAIN ls) /\ Cardinality(DOMAIN ls) <= Cardinality(Provider)
  BY <1>2, ProvidersFinite, FS_Injection
<1>4. IsFiniteSet(F) /\ Cardinality(F) <= Cardinality(DOMAIN ls)
  BY <1>3, FS_Subset
<1>5. Cardinality(F) \in Nat /\ Cardinality(DOMAIN ls) \in Nat
  BY <1>3, <1>4, FS_CardinalityType
<1>6. Cardinality(F) > 0 => F # {}
  <2>1. Cardinality({}) = 0
    BY FS_EmptySet
  <2> QED
    BY <2>1
<1>7. Cardinality(F) <= Len(Sorted)
  BY <1>3, <1>4, <1>5, ProvidersFinite
<1>8. Len(Sorted) \in Nat
  BY ProvidersFinite
<1> QED
  BY <1>4, <1>5, <1>6, <1>7, <1>8

\* A list in slug order is a sequence without repetition.
LEMMA SlugOrder ==
    ASSUME NEW S \in SUBSET Provider, NEW t \in InSlugOrder(S)
    PROVE  t \in Seq(S) /\ \A i, j \in DOMAIN t : i # j => t[i] # t[j]
<1>1. Cardinality(S) \in Nat
  <2>1. IsFiniteSet(S)
    BY ProvidersFinite, FS_Subset
  <2> QED
    BY <2>1, FS_CardinalityType
<1>2. t \in [1..Cardinality(S) -> S]
  BY DEF InSlugOrder
<1>3. t \in Seq(S)
  BY <1>1, <1>2
<1>4. \A i, j \in DOMAIN t : i < j => t[i] # t[j]
  <2> SUFFICES ASSUME NEW i \in DOMAIN t, NEW j \in DOMAIN t, i < j
               PROVE  t[i] # t[j]
    OBVIOUS
  <2>1. PICK a \in DOMAIN Sorted, b \in DOMAIN Sorted : a < b /\ Sorted[a] = t[i] /\ Sorted[b] = t[j]
    BY DEF InSlugOrder
  <2>2. a # b
    <3>1. a \in Nat
      BY FairQueueAssumption
    <3> QED
      BY <2>1, <3>1
  <2> QED
    BY <2>1, <2>2, FairQueueAssumption
<1>5. DOMAIN t \subseteq Nat
  BY <1>1, <1>2
<1>6. \A i, j \in DOMAIN t : i # j => i < j \/ j < i
  BY <1>5
<1> QED
  BY <1>3, <1>4, <1>6

\* A refresh opens lanes behind the ones there are, one for a provider.
LEMMA OpenLanesOK ==
    ASSUME LanesOK, NEW fast \in SUBSET known, NEW full \in SUBSET known, OpenLanes(fast, full),
           UNCHANGED <<known, cursor>>
    PROVE  /\ LanesOK'
           /\ \A m \in Mode : /\ Len(lanes[m]) \in Nat /\ Len(lanes'[m]) \in Nat /\ Len(lanes[m]) <= Len(lanes'[m])
                              /\ \A i \in DOMAIN lanes[m] : i \in DOMAIN lanes'[m] /\ lanes'[m][i] = lanes[m][i]
                              /\ \A i \in DOMAIN lanes'[m] : i \notin DOMAIN lanes[m] => lanes'[m][i] \notin LaneSet(m)
<1>1. PICK s \in InSlugOrder(fast \ LaneSet("fast")), t \in InSlugOrder(full \ LaneSet("full")) :
          lanes' = [m \in Mode |-> lanes[m] \o (IF m = "fast" THEN s ELSE t)]
  BY DEF OpenLanes
<1>2. ASSUME NEW m \in Mode
      PROVE  \E x : /\ lanes'[m] = lanes[m] \o x /\ x \in Seq(known \ LaneSet(m))
                    /\ \A i, j \in DOMAIN x : i # j => x[i] # x[j]
  <2>1. CASE m = "fast"
    <3>1. lanes'[m] = lanes[m] \o s
      BY <1>1, <2>1
    <3>2. s \in Seq(fast \ LaneSet("fast")) /\ \A i, j \in DOMAIN s : i # j => s[i] # s[j]
      BY SlugOrder DEF LanesOK
    <3>3. s \in Seq(known \ LaneSet(m))
      BY <2>1, <3>2
    <3> QED
      BY <3>1, <3>2, <3>3
  <2>2. CASE m # "fast"
    <3>0. m = "full"
      BY <2>2 DEF Mode
    <3>1. lanes'[m] = lanes[m] \o t
      BY <1>1, <2>2
    <3>2. t \in Seq(full \ LaneSet("full")) /\ \A i, j \in DOMAIN t : i # j => t[i] # t[j]
      BY SlugOrder DEF LanesOK
    <3>3. t \in Seq(known \ LaneSet(m))
      BY <3>0, <3>2
    <3> QED
      BY <3>1, <3>2, <3>3
  <2> QED
    BY <2>1, <2>2
<1>3. ASSUME NEW m \in Mode
      PROVE  /\ lanes'[m] \in Seq(Provider)
             /\ \A i, j \in DOMAIN lanes'[m] : i # j => lanes'[m][i] # lanes'[m][j]
             /\ LaneSet(m)' \subseteq known
             /\ Len(lanes[m]) \in Nat /\ Len(lanes'[m]) \in Nat /\ Len(lanes[m]) <= Len(lanes'[m])
             /\ \A i \in DOMAIN lanes[m] : i \in DOMAIN lanes'[m] /\ lanes'[m][i] = lanes[m][i]
             /\ \A i \in DOMAIN lanes'[m] : i \notin DOMAIN lanes[m] => lanes'[m][i] \notin LaneSet(m)
  <2>1. PICK x : /\ lanes'[m] = lanes[m] \o x /\ x \in Seq(known \ LaneSet(m))
                 /\ \A i, j \in DOMAIN x : i # j => x[i] # x[j]
    BY <1>2
  <2>2. PICK ls \in Seq(Provider), n \in Nat, k \in Nat :
            ls = lanes[m] /\ n = Len(ls) /\ k = Len(x) /\ DOMAIN ls = 1..n /\ DOMAIN x = 1..k
    BY <2>1 DEF LanesOK
  <2>3. known \subseteq Provider /\ LaneSet(m) \subseteq known /\ LaneSet(m) = {ls[i] : i \in 1..n}
    BY <2>2 DEF LanesOK, LaneSet
  <2>4. x \in Seq(Provider) /\ \A i \in 1..k : x[i] \in known \ LaneSet(m)
    BY <2>1, <2>2, <2>3
  <2>5. /\ lanes'[m] \in Seq(Provider) /\ Len(lanes'[m]) = n + k /\ DOMAIN lanes'[m] = 1..(n + k)
        /\ \A i \in 1..n : lanes'[m][i] = ls[i]
        /\ \A i \in 1..(n + k) : i > n => i - n \in 1..k /\ lanes'[m][i] = x[i - n]
    BY <2>1, <2>2, <2>4
  <2>6. \A i, j \in 1..n : i # j => ls[i] # ls[j]
    BY <2>2 DEF LanesOK
  <2>7. \A i \in 1..(n + k) : i > n => lanes'[m][i] \in known \ LaneSet(m)
    BY <2>4, <2>5
  <2>8. \A i \in 1..n : lanes'[m][i] \in LaneSet(m)
    BY <2>3, <2>5
  <2>9. \A i, j \in 1..(n + k) : i # j => lanes'[m][i] # lanes'[m][j]
    <3> SUFFICES ASSUME NEW i \in 1..(n + k), NEW j \in 1..(n + k), i # j
                 PROVE  lanes'[m][i] # lanes'[m][j]
      OBVIOUS
    <3>1. CASE i \in 1..n /\ j \in 1..n
      BY <2>5, <2>6, <3>1
    <3>2. CASE i \in 1..n /\ j > n
      BY <2>7, <2>8, <3>2
    <3>3. CASE i > n /\ j \in 1..n
      BY <2>7, <2>8, <3>3
    <3>4. CASE i > n /\ j > n
      <4>1. i - n \in 1..k /\ j - n \in 1..k /\ i - n # j - n
        BY <3>4
      <4>2. x[i - n] # x[j - n]
        BY <2>1, <2>2, <4>1
      <4> QED
        BY <2>5, <3>4, <4>2
    <3> QED
      BY <3>1, <3>2, <3>3, <3>4
  <2>10. LaneSet(m)' \subseteq known
    <3>1. \A i \in 1..(n + k) : lanes'[m][i] \in known
      BY <2>3, <2>7, <2>8
    <3> QED
      BY <2>5, <3>1 DEF LaneSet
  <2>11. \A i \in DOMAIN lanes'[m] : i \notin DOMAIN lanes[m] => lanes'[m][i] \notin LaneSet(m)
    BY <2>2, <2>5, <2>7
  <2> QED
    BY <2>2, <2>5, <2>9, <2>10, <2>11
<1>4. lanes' \in [Mode -> Seq(Provider)]
  BY <1>1, <1>3
<1>5. \A m \in Mode : cursor'[m] \in {0} \union 0..(Len(lanes'[m]) - 1)
  BY <1>3 DEF LanesOK
<1> QED
  BY <1>3, <1>4, <1>5 DEF LanesOK

-----------------------------------------------------------------------------
(* Types.                                                                  *)

\* A round has a tier to poll, and no more pulls left in it than the tier has free lanes.
RoundOK == pc = "poll" => order # << >> /\ free <= Cardinality(FreeLanes(order[1]))

QueueInv == LanesOK /\ TypeOK /\ RoundOK

\* The free lanes of a tier are finitely many.
LEMMA FreeLanesFinite ==
    ASSUME LanesOK, NEW m \in Mode
    PROVE  IsFiniteSet(FreeLanes(m)) /\ Cardinality(FreeLanes(m)) \in 0..Len(Sorted)
           /\ (Cardinality(FreeLanes(m)) > 0 => FreeLanes(m) # {})
<1>1. /\ lanes[m] \in Seq(Provider) /\ FreeLanes(m) \in SUBSET DOMAIN lanes[m]
      /\ \A i, j \in DOMAIN lanes[m] : i # j => lanes[m][i] # lanes[m][j]
  BY DEF LanesOK, FreeLanes
<1> QED
  BY <1>1, FreeLanesBounded

\* The first tier of a round that is not over.
LEMMA TierPolled ==
    ASSUME TypeOK, order # << >>
    PROVE  order[1] \in Mode
  BY DEF TypeOK, Mode

\* A pull has a free lane to go to.
LEMMA PollFacts ==
    ASSUME QueueInv, pc = "poll", free > 0
    PROVE  /\ order[1] \in Mode /\ FreeLanes(order[1]) # {}
           /\ Lane \in Provider /\ Lane \notin busy /\ Lane \in LaneSet(order[1])
           /\ next_free_lane(order[1]) + 1 \in DOMAIN lanes[order[1]]
<1>1. order[1] \in Mode
  BY TierPolled DEF QueueInv, RoundOK
<1>2. PICK m \in Mode : m = order[1]
  BY <1>1
<1>3. FreeLanes(m) # {}
  <2>1. Cardinality(FreeLanes(m)) \in 0..Len(Sorted) /\ free \in 0..Len(Sorted) /\ Len(Sorted) \in Nat
    BY FreeLanesFinite, ProvidersFinite DEF QueueInv, TypeOK
  <2>2. free <= Cardinality(FreeLanes(m))
    BY <1>2 DEF QueueInv, RoundOK
  <2>3. Cardinality(FreeLanes(m)) > 0
    BY <2>1, <2>2
  <2> QED
    BY <2>3, FreeLanesFinite DEF QueueInv
<1>4. next_free_lane(m) + 1 \in FreeLanes(m)
  BY <1>3, NextFreeLane DEF QueueInv
<1>5. next_free_lane(m) + 1 \in DOMAIN lanes[m] /\ lanes[m][next_free_lane(m) + 1] \notin busy
  BY <1>4 DEF FreeLanes
<1>6. Lane = lanes[m][next_free_lane(m) + 1]
  BY <1>2 DEF Lane
<1>7. Lane \in LaneSet(m) /\ Lane \notin busy
  BY <1>5, <1>6 DEF LaneSet
<1>8. Lane \in Provider
  BY <1>7 DEF QueueInv, LanesOK
<1> QED
  BY <1>2, <1>3, <1>5, <1>7, <1>8

\* The cursor stays on a lane.
LEMMA TurnKeepsLanes ==
    ASSUME QueueInv, pc = "poll", free > 0, TurnTaken, UNCHANGED <<known, lanes>>
    PROVE  LanesOK'
<1>1. PICK m \in Mode : m = order[1] /\ FreeLanes(m) # {}
  BY PollFacts
<1>2. PICK n \in Nat \ {0}, r \in Nat : n = Len(lanes[m]) /\ r = next_free_lane(m) /\ r \in 0..(n - 1)
  BY <1>1, NextFreeLane DEF QueueInv
<1>3. cursor' = [cursor EXCEPT ![m] = (r + 1) % n]
  BY <1>1, <1>2 DEF TurnTaken
<1>4. (r + 1) % n \in 0..(n - 1)
  BY DistanceAfterTurn
<1>5. cursor' \in [Mode -> Nat]
  BY <1>3, <1>4 DEF QueueInv, LanesOK
<1>6. \A l \in Mode : cursor'[l] \in {0} \union 0..(Len(lanes[l]) - 1)
  BY <1>2, <1>3, <1>4 DEF QueueInv, LanesOK
<1> QED
  BY <1>5, <1>6 DEF QueueInv, LanesOK, LaneSet

\* The lanes are what they were.
LEMMA SameLanes ==
    ASSUME LanesOK, UNCHANGED <<known, lanes, cursor>>
    PROVE  LanesOK'
  BY DEF LanesOK, LaneSet

\* A round begins with one pull for every free lane of its first tier.
LEMMA RoundBegins ==
    ASSUME LanesOK', BeginRound(lanes', tier_order, busy')
    PROVE  /\ pc' = "poll" /\ order' \in {<<"fast", "full">>, <<"full", "fast">>}
           /\ free' = Cardinality(FreeLanes(order[1])') /\ free' \in 0..Len(Sorted)
           /\ (streak >= FullTierEvery) <=> order' = <<"full", "fast">>
<1>1. /\ pc' = "poll" /\ order' = tier_order
      /\ free' = Cardinality({i \in DOMAIN lanes'[tier_order[1]] : lanes'[tier_order[1]][i] \notin busy'})
  BY DEF BeginRound
<1>2. tier_order \in {<<"fast", "full">>, <<"full", "fast">>}
  BY DEF tier_order
<1>3. PICK m \in Mode : m = tier_order[1]
  BY <1>2 DEF Mode
<1>4. FreeLanes(order[1])' = {i \in DOMAIN lanes'[m] : lanes'[m][i] \notin busy'}
  BY <1>1, <1>3 DEF FreeLanes
<1>5. /\ lanes'[m] \in Seq(Provider)
      /\ \A i, j \in DOMAIN lanes'[m] : i # j => lanes'[m][i] # lanes'[m][j]
  BY DEF LanesOK
<1>6. PICK F \in SUBSET DOMAIN lanes'[m] : F = {i \in DOMAIN lanes'[m] : lanes'[m][i] \notin busy'}
  OBVIOUS
<1>7. Cardinality(F) \in 0..Len(Sorted)
  BY <1>5, FreeLanesBounded
<1>8. (streak >= FullTierEvery) <=> order' = <<"full", "fast">>
  <2>1. <<"full", "fast">> # <<"fast", "full">>
    OBVIOUS
  <2> QED
    BY <1>1, <2>1 DEF tier_order
<1> QED
  BY <1>1, <1>2, <1>3, <1>4, <1>6, <1>7, <1>8

\* What release leaves has its type.
LEMMA ReleaseType ==
    ASSUME TypeOK, NEW S \in SUBSET Provider, release(S)
    PROVE  busy' \in SUBSET Provider /\ finished' \in [Provider -> Nat] /\ running' \in [Provider -> Nat]
  BY DEF TypeOK, release

\* The rest of TypeOK, without the lanes.
RestOK ==
    /\ depth \in [Mode -> [Provider -> 0..MaxDepth]]
    /\ streak \in 0..FullTierEvery
    /\ pc \in {"loop", "full", "poll", "idle", "drain", "stopped"}
    /\ order \in {<< >>, <<"fast">>, <<"full">>, <<"fast", "full">>, <<"full", "fast">>}
    /\ free \in 0..Len(Sorted)
    /\ busy \in SUBSET Provider
    /\ running \in [Provider -> Nat] /\ finished \in [Provider -> Nat]
    /\ faults \in 0..MaxFaults

\* TypeOK is the two together.
LEMMA TypeParts == LanesOK => (TypeOK <=> RestOK)
  BY DEF LanesOK, TypeOK, RestOK

\* Outside the rounds nothing is said of the round.
LEMMA OutsideRound ==
    ASSUME LanesOK', RestOK', pc' # "poll"
    PROVE  QueueInv'
<1>1. TypeOK'
  BY DEF LanesOK, TypeOK, RestOK
<1> QED
  BY <1>1 DEF QueueInv, RoundOK

\* A round that begins is a round.
LEMMA BeginRoundOK ==
    ASSUME RestOK, LanesOK', BeginRound(lanes', tier_order, busy'), busy' \in SUBSET Provider,
           running' \in [Provider -> Nat], finished' \in [Provider -> Nat], faults' \in 0..MaxFaults,
           UNCHANGED <<depth, streak>>
    PROVE  QueueInv'
<1>1. /\ pc' = "poll" /\ order' \in {<<"fast", "full">>, <<"full", "fast">>}
      /\ free' = Cardinality(FreeLanes(order[1])') /\ free' \in 0..Len(Sorted)
  BY RoundBegins
<1>2. RestOK'
  BY <1>1 DEF RestOK
<1>3. TypeOK'
  BY <1>2 DEF LanesOK, TypeOK, RestOK
<1>4. order' # << >> /\ free' <= Cardinality(FreeLanes(order[1])')
  <2>1. free' \in Nat
    BY <1>1, ProvidersFinite
  <2> QED
    BY <1>1, <2>1
<1> QED
  BY <1>3, <1>4 DEF QueueInv, RoundOK

\* What a pull does to its lane and to the turn has its type.
LEMMA PullType ==
    ASSUME QueueInv, pc = "poll", free > 0
    PROVE  /\ free - 1 \in 0..Len(Sorted) /\ free - 1 <= Cardinality(FreeLanes(order[1]))
           /\ StreakAfter(order[1]) \in 0..FullTierEvery
           /\ depth[order[1]][Lane] \in 0..MaxDepth
           /\ depth[order[1]][Lane] > 0 =>
                 [depth EXCEPT ![order[1]][Lane] = @ - 1] \in [Mode -> [Provider -> 0..MaxDepth]]
           /\ [running EXCEPT ![Lane] = @ + 1] \in [Provider -> Nat]
           /\ busy \union {Lane} \in SUBSET Provider
<1>1. PICK m \in Mode, q \in Provider : m = order[1] /\ q = Lane
  BY PollFacts
<1>2. /\ depth \in [Mode -> [Provider -> 0..MaxDepth]] /\ running \in [Provider -> Nat]
      /\ streak \in 0..FullTierEvery /\ busy \in SUBSET Provider /\ MaxDepth \in Nat /\ FullTierEvery \in Nat
  BY FairQueueAssumption DEF QueueInv, TypeOK
<1>3. free - 1 \in 0..Len(Sorted) /\ free - 1 <= Cardinality(FreeLanes(order[1]))
  <2>1. free \in 0..Len(Sorted) /\ Len(Sorted) \in Nat /\ Cardinality(FreeLanes(m)) \in 0..Len(Sorted)
    BY ProvidersFinite, FreeLanesFinite DEF QueueInv, TypeOK
  <2>2. free <= Cardinality(FreeLanes(m))
    BY <1>1 DEF QueueInv, RoundOK
  <2> QED
    BY <1>1, <2>1, <2>2
<1>4. StreakAfter(order[1]) \in 0..FullTierEvery
  BY <1>2 DEF StreakAfter
<1>5. depth[m][q] \in 0..MaxDepth
  BY <1>2
<1>6. ASSUME depth[m][q] > 0
      PROVE  [depth EXCEPT ![m][q] = @ - 1] \in [Mode -> [Provider -> 0..MaxDepth]]
  <2>1. depth[m][q] - 1 \in 0..MaxDepth
    BY <1>2, <1>5, <1>6
  <2> QED
    BY <1>2, <2>1
<1>7. [running EXCEPT ![q] = @ + 1] \in [Provider -> Nat] /\ busy \union {q} \in SUBSET Provider
  BY <1>2
<1> QED
  BY <1>1, <1>3, <1>4, <1>5, <1>6, <1>7

\* A failure is counted within its bound.
LEMMA FaultType ==
    ASSUME RestOK, Fault
    PROVE  faults' \in 0..MaxFaults
  BY FairQueueAssumption DEF RestOK, Fault

\* The steps of the loop keep the types.
LEMMA LoopTypes ==
    ASSUME QueueInv, Loop \/ Failures
    PROVE  QueueInv'
<1>a. LanesOK /\ TypeOK /\ RestOK
  BY TypeParts DEF QueueInv
<1>b. Ended \in SUBSET Provider
  BY DEF Ended
<1>c. Len(Sorted) \in Nat
  BY ProvidersFinite
<1>1. CASE BeginDrain
  <2>1. LanesOK' /\ pc' = "drain"
    BY <1>1, <1>a, SameLanes DEF BeginDrain, laneVars, turnVars
  <2>2. RestOK'
    BY <1>1, <1>a DEF BeginDrain, turnVars, taskVars, RestOK
  <2> QED
    BY <2>1, <2>2, OutsideRound
<1>2. CASE AwaitSlot
  <2>1. LanesOK' /\ pc' = "full" /\ release(Ended)
    BY <1>2, <1>a, SameLanes DEF AwaitSlot, laneVars, turnVars
  <2>2. busy' \in SUBSET Provider /\ finished' \in [Provider -> Nat] /\ running' \in [Provider -> Nat]
    BY <1>a, <1>b, <2>1, ReleaseType
  <2>3. RestOK'
    BY <1>2, <1>a, <2>1, <2>2 DEF AwaitSlot, turnVars, RestOK
  <2> QED
    BY <2>1, <2>3, OutsideRound
<1>3. CASE StartRound
  <2>1. LanesOK' /\ release(Ended) /\ BeginRound(lanes', tier_order, busy') /\ UNCHANGED <<depth, streak, faults>>
    BY <1>3, <1>a, SameLanes DEF StartRound, laneVars, turnVars
  <2>2. busy' \in SUBSET Provider /\ finished' \in [Provider -> Nat] /\ running' \in [Provider -> Nat]
    BY <1>a, <1>b, <2>1, ReleaseType
  <2>3. faults' \in 0..MaxFaults
    BY <1>a, <2>1 DEF RestOK
  <2> QED
    BY <1>a, <2>1, <2>2, <2>3, BeginRoundOK
<1>4. CASE RefreshAndStart
  <2>1. /\ OpenLanes(known, known) /\ release(Ended) /\ BeginRound(lanes', tier_order, busy')
        /\ UNCHANGED <<known, depth, cursor, streak, faults>>
    BY <1>4 DEF RefreshAndStart, turnVars
  <2>2. LanesOK'
    BY <1>a, <2>1, OpenLanesOK
  <2>3. busy' \in SUBSET Provider /\ finished' \in [Provider -> Nat] /\ running' \in [Provider -> Nat]
    BY <1>a, <1>b, <2>1, ReleaseType
  <2>4. faults' \in 0..MaxFaults
    BY <1>a, <2>1 DEF RestOK
  <2> QED
    BY <1>a, <2>1, <2>2, <2>3, <2>4, BeginRoundOK
<1>5. ASSUME NEW S \in SUBSET Provider, PartialRefresh(S)
      PROVE  QueueInv'
  <2>1. /\ S \in SUBSET known /\ release(Ended) /\ Fault /\ BeginRound(lanes', tier_order, busy')
        /\ UNCHANGED <<known, depth, cursor, streak>>
    BY <1>5 DEF PartialRefresh, turnVars
  <2>2. PICK T \in SUBSET known : OpenLanes(S, T)
    BY <1>5 DEF PartialRefresh
  <2>3. LanesOK'
    BY <1>a, <2>1, <2>2, OpenLanesOK
  <2>4. busy' \in SUBSET Provider /\ finished' \in [Provider -> Nat] /\ running' \in [Provider -> Nat]
    BY <1>a, <1>b, <2>1, ReleaseType
  <2> QED
    BY <1>a, <2>1, <2>3, <2>4, BeginRoundOK, FaultType
<1>6. CASE NextTier
  <2>1. LanesOK'
    BY <1>6, <1>a, SameLanes DEF NextTier, laneVars, turnVars
  <2>2. UNCHANGED <<depth, streak, busy, running, finished, faults, lanes>> /\ pc = "poll"
    BY <1>6 DEF NextTier, laneVars, turnVars, taskVars
  <2>3. CASE Len(order) > 1 /\ order' = Tail(order) /\ free' = Cardinality(FreeLanes(order[2])) /\ UNCHANGED pc
    <3>1. order \in {<<"fast", "full">>, <<"full", "fast">>}
      BY <1>a, <2>3 DEF RestOK
    <3>2. order' \in {<<"fast">>, <<"full">>} /\ order'[1] = order[2] /\ order[2] \in Mode
      <4>1. ASSUME NEW a \in Mode, NEW b \in Mode PROVE Tail(<<a, b>>) = <<b>>
        OBVIOUS
      <4>2. "fast" \in Mode /\ "full" \in Mode
        BY DEF Mode
      <4>3. Tail(<<"fast", "full">>) = <<"full">> /\ Tail(<<"full", "fast">>) = <<"fast">>
        BY <4>1, <4>2
      <4>4. CASE order = <<"fast", "full">>
        BY <2>3, <4>2, <4>3, <4>4
      <4>5. CASE order = <<"full", "fast">>
        BY <2>3, <4>2, <4>3, <4>5
      <4> QED
        BY <3>1, <4>4, <4>5
    <3>3. free' \in 0..Len(Sorted)
      BY <1>a, <2>3, <3>2, FreeLanesFinite
    <3>4. RestOK'
      BY <1>a, <2>2, <2>3, <3>2, <3>3 DEF RestOK
    <3>5. FreeLanes(order[1])' = FreeLanes(order[2])
      BY <2>2, <3>2 DEF FreeLanes
    <3>6. free' <= Cardinality(FreeLanes(order[1])')
      BY <1>c, <2>3, <3>3, <3>5
    <3>7. TypeOK'
      BY <2>1, <3>4 DEF TypeOK, RestOK, LanesOK
    <3> QED
      BY <2>1, <3>2, <3>6, <3>7 DEF QueueInv, RoundOK
  <2>4. CASE EndRound("idle")
    <3>1. RestOK' /\ pc' = "idle"
      BY <1>a, <1>c, <2>2, <2>4 DEF RestOK, EndRound
    <3> QED
      BY <2>1, <3>1, OutsideRound
  <2> QED
    BY <1>6, <2>3, <2>4 DEF NextTier
<1>7. CASE PullEmpty \/ PullFails
  <2>1. /\ pc = "poll" /\ free > 0 /\ TurnTaken /\ free' = free - 1 /\ UNCHANGED <<known, lanes>>
        /\ UNCHANGED <<pc, order, streak, depth, busy, running, finished>>
    BY <1>7 DEF PullEmpty, PullFails, laneVars, taskVars
  <2>2. LanesOK'
    BY <2>1, TurnKeepsLanes
  <2>3. free' \in 0..Len(Sorted) /\ free' <= Cardinality(FreeLanes(order[1]))
    BY <2>1, PullType
  <2>4. faults' \in 0..MaxFaults
    BY <1>7, <1>a, FaultType DEF PullEmpty, PullFails, RestOK
  <2>5. RestOK'
    BY <1>a, <2>1, <2>3, <2>4 DEF RestOK
  <2>6. TypeOK'
    BY <2>2, <2>5 DEF TypeOK, RestOK, LanesOK
  <2>7. FreeLanes(order[1])' = FreeLanes(order[1]) /\ order' # << >>
    BY <2>1 DEF FreeLanes, QueueInv, RoundOK
  <2> QED
    BY <2>2, <2>3, <2>6, <2>7 DEF QueueInv, RoundOK
<1>8. CASE Serve \/ DropUndecodable
  <2>1. /\ pc = "poll" /\ free > 0 /\ TurnTaken /\ EndRound("loop") /\ UNCHANGED <<known, lanes, finished>>
        /\ depth[order[1]][Lane] > 0 /\ streak' = StreakAfter(order[1])
        /\ depth' = [depth EXCEPT ![order[1]][Lane] = @ - 1]
    BY <1>8 DEF Serve, DropUndecodable, laneVars, taskVars
  <2>2. LanesOK'
    BY <2>1, TurnKeepsLanes
  <2>3. faults' \in 0..MaxFaults
    BY <1>8, <1>a, FaultType DEF Serve, DropUndecodable, RestOK
  <2>4. busy' \in SUBSET Provider /\ running' \in [Provider -> Nat]
    <3>1. CASE Serve
      <4>1. busy' = busy \union {Lane} /\ running' = [running EXCEPT ![Lane] = @ + 1]
        BY <3>1 DEF Serve
      <4>2. [running EXCEPT ![Lane] = @ + 1] \in [Provider -> Nat] /\ busy \union {Lane} \in SUBSET Provider
        BY <2>1, PullType
      <4> QED
        BY <4>1, <4>2
    <3>2. CASE DropUndecodable
      BY <1>a, <3>2 DEF DropUndecodable, taskVars, RestOK
    <3> QED
      BY <1>8, <3>1, <3>2
  <2>5. depth' \in [Mode -> [Provider -> 0..MaxDepth]] /\ streak' \in 0..FullTierEvery
    BY <2>1, PullType
  <2>6. pc' = "loop" /\ order' = << >> /\ free' = 0
    BY <2>1 DEF EndRound
  <2>7. RestOK'
    BY <1>a, <1>c, <2>1, <2>3, <2>4, <2>5, <2>6 DEF RestOK
  <2> QED
    BY <2>2, <2>6, <2>7, OutsideRound
<1>9. CASE IdleLapses \/ Stop
  <2>1. LanesOK' /\ pc' \in {"loop", "stopped"}
    BY <1>9, <1>a, SameLanes DEF IdleLapses, Stop, laneVars, turnVars
  <2>2. RestOK'
    BY <1>9, <1>a, <2>1 DEF IdleLapses, Stop, turnVars, taskVars, RestOK
  <2> QED
    BY <2>1, <2>2, OutsideRound
<1>10. ASSUME NEW p \in Provider, JoinOne(p)
       PROVE  QueueInv'
  <2>1. LanesOK' /\ pc' \in {"loop", "drain"} /\ release({p})
    BY <1>10, <1>a, SameLanes DEF JoinOne, laneVars, turnVars
  <2>2. busy' \in SUBSET Provider /\ finished' \in [Provider -> Nat] /\ running' \in [Provider -> Nat]
    BY <1>a, <2>1, ReleaseType
  <2>3. RestOK'
    BY <1>10, <1>a, <2>1, <2>2 DEF JoinOne, turnVars, RestOK
  <2> QED
    BY <2>1, <2>3, OutsideRound
<1> QED
  BY <1>1, <1>2, <1>3, <1>4, <1>5, <1>6, <1>7, <1>8, <1>9, <1>10 DEF Loop, Failures

\* What happens around the loop keeps the types.
LEMMA AroundTypes ==
    ASSUME QueueInv
    PROVE  /\ \A p \in Provider : Finish(p) \/ AddProvider(p) => QueueInv'
           /\ \A m \in Mode, p \in Provider : Arrive(m, p) \/ TakenElsewhere(m, p) => QueueInv'
           /\ RequestShutdown \/ UNCHANGED vars => QueueInv'
<1>a. LanesOK /\ TypeOK /\ RestOK
  BY TypeParts DEF QueueInv
<1>b. MaxDepth \in Nat
  BY FairQueueAssumption
<1>1. ASSUME LanesOK', RestOK', UNCHANGED <<pc, order, free, lanes, busy>>
      PROVE  QueueInv'
  <2>1. TypeOK'
    BY <1>1 DEF LanesOK, TypeOK, RestOK
  <2>2. \A m : FreeLanes(m)' = FreeLanes(m)
    BY <1>1 DEF FreeLanes
  <2> QED
    BY <1>1, <2>1, <2>2 DEF QueueInv, RoundOK
<1>2. ASSUME NEW p \in Provider, Finish(p) PROVE QueueInv'
  <2>1. UNCHANGED <<known, lanes, cursor, pc, order, free, busy, depth, streak, faults>>
    BY <1>2 DEF Finish, loopVars, laneVars, turnVars
  <2>2. running' \in [Provider -> Nat] /\ finished' \in [Provider -> Nat]
    BY <1>2, <1>a DEF Finish, RestOK
  <2>3. RestOK'
    BY <1>a, <2>1, <2>2 DEF RestOK
  <2> QED
    BY <1>1, <1>a, <2>1, <2>3, SameLanes
<1>3. ASSUME NEW p \in Provider, AddProvider(p) PROVE QueueInv'
  <2>1. UNCHANGED <<lanes, cursor, pc, order, free, busy, running, finished, depth, streak, faults>>
        /\ known' = known \union {p}
    BY <1>3 DEF AddProvider, loopVars, turnVars, taskVars
  <2>2. LanesOK'
    BY <1>a, <2>1 DEF LanesOK, LaneSet
  <2>3. RestOK'
    BY <1>a, <2>1 DEF RestOK
  <2> QED
    BY <1>1, <2>1, <2>2, <2>3
<1>4. ASSUME NEW m \in Mode, NEW p \in Provider, Arrive(m, p) \/ TakenElsewhere(m, p) PROVE QueueInv'
  <2>1. UNCHANGED <<known, lanes, cursor, pc, order, free, busy, running, finished, streak, faults>>
    BY <1>4 DEF Arrive, TakenElsewhere, loopVars, turnVars, taskVars
  <2>2. depth \in [Mode -> [Provider -> 0..MaxDepth]] /\ depth[m][p] \in 0..MaxDepth
    BY <1>a DEF RestOK
  <2>3. PICK x \in 0..MaxDepth : depth' = [depth EXCEPT ![m][p] = x]
    <3>1. CASE Arrive(m, p)
      <4>1. depth[m][p] + 1 \in 0..MaxDepth
        BY <1>b, <2>2, <3>1 DEF Arrive
      <4> QED
        BY <3>1, <4>1 DEF Arrive
    <3>2. CASE TakenElsewhere(m, p)
      <4>1. depth[m][p] - 1 \in 0..MaxDepth
        BY <1>b, <2>2, <3>2 DEF TakenElsewhere
      <4> QED
        BY <3>2, <4>1 DEF TakenElsewhere
    <3> QED
      BY <1>4, <3>1, <3>2
  <2>4. depth' \in [Mode -> [Provider -> 0..MaxDepth]]
    BY <2>2, <2>3
  <2>5. RestOK'
    BY <1>a, <2>1, <2>4 DEF RestOK
  <2> QED
    BY <1>1, <1>a, <2>1, <2>5, SameLanes
<1>5. ASSUME RequestShutdown \/ UNCHANGED vars PROVE QueueInv'
  <2>1. UNCHANGED <<known, lanes, cursor, pc, order, free, busy, running, finished, depth, streak, faults>>
    BY <1>5 DEF RequestShutdown, vars, loopVars, laneVars, turnVars, taskVars
  <2>2. RestOK'
    BY <1>a, <2>1 DEF RestOK
  <2> QED
    BY <1>1, <1>a, <2>1, <2>2, SameLanes
<1> QED
  BY <1>2, <1>3, <1>4, <1>5

\* The queue starts with its types.
LEMMA QueueInit ==
    ASSUME Init
    PROVE  QueueInv
<1>1. PICK fast \in SUBSET known, full \in SUBSET known :
          /\ \E s \in InSlugOrder(fast), t \in InSlugOrder(full) :
                lanes = [m \in Mode |-> IF m = "fast" THEN s ELSE t]
          /\ faults = IF fast = known /\ full = known THEN 0 ELSE 1
  BY DEF Init
<1>2. PICK s \in InSlugOrder(fast), t \in InSlugOrder(full) :
          lanes = [m \in Mode |-> IF m = "fast" THEN s ELSE t]
  BY <1>1
<1>3. known \in SUBSET Provider
  BY DEF Init
<1>4. /\ s \in Seq(fast) /\ \A i, j \in DOMAIN s : i # j => s[i] # s[j]
      /\ t \in Seq(full) /\ \A i, j \in DOMAIN t : i # j => t[i] # t[j]
  BY <1>3, SlugOrder
<1>5. s \in Seq(known) /\ t \in Seq(known) /\ s \in Seq(Provider) /\ t \in Seq(Provider)
  BY <1>3, <1>4
<1>6. \A m \in Mode : lanes[m] \in {s, t}
  BY <1>2
<1>7. lanes \in [Mode -> Seq(Provider)]
  BY <1>2, <1>5
<1>8. \A m \in Mode : /\ \A i, j \in DOMAIN lanes[m] : i # j => lanes[m][i] # lanes[m][j]
                      /\ LaneSet(m) \subseteq known
  BY <1>4, <1>5, <1>6 DEF LaneSet
<1>9. cursor \in [Mode -> Nat] /\ \A m \in Mode : cursor[m] = 0
  BY DEF Init
<1>10. LanesOK
  BY <1>3, <1>7, <1>8, <1>9 DEF LanesOK
<1>11. faults \in 0..MaxFaults
  BY <1>1, FairQueueAssumption DEF Init
<1>12. MaxDepth \in Nat /\ FullTierEvery \in Nat /\ Len(Sorted) \in Nat
  BY FairQueueAssumption, ProvidersFinite
<1>13. RestOK
  BY <1>11, <1>12 DEF Init, RestOK
<1> QED
  BY <1>10, <1>13, TypeParts DEF QueueInv, RoundOK, Init

\* The lanes, the cursors and the round have their types in every state.
LEMMA QueueHolds == Spec => []QueueInv
<1>1. Init => QueueInv
  BY QueueInit
<1>2. QueueInv /\ [Next]_vars => QueueInv'
  BY LoopTypes, AroundTypes DEF Next
<1> QED
  BY <1>1, <1>2, PTL DEF Spec

\* The state of a worker has its type: every lane belongs to a known provider and the cursor of a tier
\* is always on one of its lanes, whichever lanes a refresh opens (take_turn, refresh_lanes).
THEOREM QueueTypeCorrect == Spec => []TypeOK
<1>1. QueueInv => TypeOK
  BY DEF QueueInv
<1> QED
  BY <1>1, QueueHolds, PTL

-----------------------------------------------------------------------------
(* One task per provider.                                                  *)

\* With the room a round found: it began below the limit, and only the loop spawns.
TaskInv ==
    /\ OneTaskPerProvider
    /\ pc = "poll" => Cardinality(InflightProviders) < Limit

\* The providers in flight are finitely many.
LEMMA InflightFinite ==
    ASSUME NEW S \in SUBSET Provider
    PROVE  IsFiniteSet(S) /\ Cardinality(S) \in Nat
  BY ProvidersFinite, FS_Subset, FS_CardinalityType

\* What ended is released, and nothing else.
LEMMA ReleaseTasks ==
    ASSUME TypeOK, OneTaskPerProvider, NEW S \in SUBSET Ended, release(S)
    PROVE  /\ InflightProviders' = InflightProviders \ S
           /\ busy' = InflightProviders' /\ \A p \in Provider : Inflight(p)' <= 1
           /\ Cardinality(InflightProviders') <= Limit
<1>1. running \in [Provider -> Nat] /\ finished \in [Provider -> Nat] /\ S \subseteq Provider
  BY DEF TypeOK, Ended
<1>2. running' = running /\ busy' = busy \ S
      /\ finished' = [p \in Provider |-> IF p \in S THEN 0 ELSE finished[p]]
  BY DEF release
<1>3. \A p \in Provider : Inflight(p)' = IF p \in S THEN 0 ELSE Inflight(p)
  <2> SUFFICES ASSUME NEW p \in Provider
               PROVE  running'[p] + finished'[p] = IF p \in S THEN 0 ELSE running[p] + finished[p]
    BY DEF Inflight
  <2>1. running[p] \in Nat /\ finished[p] \in Nat /\ running[p] + finished[p] <= 1
    BY <1>1 DEF OneTaskPerProvider, Inflight
  <2>2. p \in S => finished[p] > 0
    BY DEF Ended
  <2>3. finished'[p] = IF p \in S THEN 0 ELSE finished[p]
    BY <1>2
  <2> QED
    BY <1>2, <2>1, <2>2, <2>3
<1>4. \A p \in Provider : Inflight(p) \in Nat /\ Inflight(p) <= 1
  BY <1>1 DEF OneTaskPerProvider, Inflight
<1>5. InflightProviders' = InflightProviders \ S
  BY <1>3, <1>4 DEF InflightProviders
<1>6. busy' = InflightProviders'
  BY <1>2, <1>5 DEF OneTaskPerProvider
<1>7. \A p \in Provider : Inflight(p)' <= 1
  BY <1>3, <1>4
<1>8. Cardinality(InflightProviders \ S) <= Limit
  <2>1. PICK I \in SUBSET Provider : I = InflightProviders
    BY DEF InflightProviders
  <2>2. IsFiniteSet(I) /\ Cardinality(I) \in Nat /\ Cardinality(I \ S) \in Nat
    BY InflightFinite
  <2>3. Cardinality(I \ S) <= Cardinality(I)
    BY <2>2, FS_Subset
  <2>4. Cardinality(I) <= Limit /\ Limit \in Nat
    BY <2>1, FairQueueAssumption DEF OneTaskPerProvider
  <2> QED
    BY <2>1, <2>2, <2>3, <2>4
<1> QED
  BY <1>5, <1>6, <1>7, <1>8

\* A round that begins after a release has room.
LEMMA ReleaseAndBegin ==
    ASSUME TypeOK, OneTaskPerProvider, release(Ended), Cardinality(InflightProviders \ Ended) < Limit
    PROVE  TaskInv'
<1>1. /\ InflightProviders' = InflightProviders \ Ended /\ busy' = InflightProviders'
      /\ (\A p \in Provider : Inflight(p)' <= 1) /\ Cardinality(InflightProviders') <= Limit
  BY ReleaseTasks
<1> QED
  BY <1>1 DEF TaskInv, OneTaskPerProvider

\* A task is spawned for a provider that has none.
LEMMA ServeTasks ==
    ASSUME QueueInv, TaskInv, Serve
    PROVE  TaskInv'
<1>1. PICK q \in Provider : q = Lane /\ q \notin busy
  BY PollFacts DEF Serve
<1>2. /\ busy' = busy \union {q} /\ running' = [running EXCEPT ![q] = @ + 1] /\ finished' = finished
      /\ pc = "poll" /\ pc' = "loop"
  BY <1>1 DEF Serve, EndRound
<1>3. running \in [Provider -> Nat] /\ finished \in [Provider -> Nat]
  BY DEF QueueInv, TypeOK
<1>4. busy = InflightProviders /\ \A p \in Provider : Inflight(p) \in Nat /\ Inflight(p) <= 1
  BY <1>3 DEF TaskInv, OneTaskPerProvider, Inflight
<1>5. Inflight(q) = 0
  BY <1>1, <1>4 DEF InflightProviders
<1>6. \A p \in Provider : Inflight(p)' = IF p = q THEN 1 ELSE Inflight(p)
  <2> SUFFICES ASSUME NEW p \in Provider
               PROVE  running'[p] + finished'[p] = IF p = q THEN 1 ELSE running[p] + finished[p]
    BY DEF Inflight
  <2>1. running[p] \in Nat /\ finished[p] \in Nat /\ (p = q => running[p] + finished[p] = 0)
    BY <1>3, <1>5 DEF Inflight
  <2>2. running'[p] = IF p = q THEN running[p] + 1 ELSE running[p]
    BY <1>2, <1>3
  <2> QED
    BY <1>2, <2>1, <2>2
<1>7. InflightProviders' = InflightProviders \union {q}
  BY <1>6 DEF InflightProviders
<1>8. \A p \in Provider : Inflight(p)' <= 1
  BY <1>4, <1>6
<1>9. Cardinality(InflightProviders') <= Limit
  <2>1. PICK I \in SUBSET Provider : I = InflightProviders
    BY DEF InflightProviders
  <2>2. IsFiniteSet(I) /\ Cardinality(I) \in Nat /\ q \notin I
    BY <1>1, <1>4, <2>1, InflightFinite
  <2>3. Cardinality(I \union {q}) = Cardinality(I) + 1
    BY <2>2, FS_AddElement
  <2>4. Cardinality(I) < Limit /\ Limit \in Nat
    BY <1>2, <2>1, FairQueueAssumption DEF TaskInv
  <2> QED
    BY <1>7, <2>1, <2>2, <2>3, <2>4
<1>10. busy' = InflightProviders'
  BY <1>2, <1>4, <1>7
<1> QED
  BY <1>2, <1>8, <1>9, <1>10 DEF TaskInv, OneTaskPerProvider

\* Every step keeps the accounting of tasks.
LEMMA TaskStep ==
    ASSUME QueueInv, TaskInv, [Next]_vars
    PROVE  TaskInv'
<1>a. TypeOK /\ OneTaskPerProvider
  BY DEF QueueInv, TaskInv
<1>b. ASSUME UNCHANGED <<busy, running, finished>>, pc' = "poll" => pc = "poll"
      PROVE  TaskInv'
  <2>1. InflightProviders' = InflightProviders /\ \A p \in Provider : Inflight(p)' = Inflight(p)
    BY <1>b DEF InflightProviders, Inflight
  <2> QED
    BY <1>b, <2>1 DEF TaskInv, OneTaskPerProvider
<1>1. CASE BeginDrain \/ IdleLapses \/ Stop \/ NextTier \/ PullEmpty \/ PullFails \/ DropUndecodable
  BY <1>1, <1>b DEF BeginDrain, IdleLapses, Stop, NextTier, PullEmpty, PullFails, DropUndecodable,
                    EndRound, taskVars
<1>2. CASE AwaitSlot
  <2>1. release(Ended) /\ pc' = "full"
    BY <1>2 DEF AwaitSlot
  <2> QED
    BY <1>a, <2>1, ReleaseTasks DEF TaskInv, OneTaskPerProvider
<1>3. CASE StartRound
  BY <1>3, <1>a, ReleaseAndBegin DEF StartRound
<1>4. CASE RefreshAndStart
  BY <1>4, <1>a, ReleaseAndBegin DEF RefreshAndStart
<1>5. ASSUME NEW S \in SUBSET Provider, PartialRefresh(S) PROVE TaskInv'
  BY <1>5, <1>a, ReleaseAndBegin DEF PartialRefresh
<1>6. CASE Serve
  BY <1>6, ServeTasks
<1>7. ASSUME NEW p \in Provider, JoinOne(p) PROVE TaskInv'
  <2>1. release({p}) /\ {p} \in SUBSET Ended /\ pc' # "poll"
    BY <1>7 DEF JoinOne, Ended
  <2> QED
    BY <1>a, <2>1, ReleaseTasks DEF TaskInv, OneTaskPerProvider
<1>8. ASSUME NEW p \in Provider, Finish(p) PROVE TaskInv'
  <2>1. /\ running[p] > 0 /\ running' = [running EXCEPT ![p] = @ - 1]
        /\ finished' = [finished EXCEPT ![p] = @ + 1] /\ busy' = busy /\ pc' = pc
    BY <1>8 DEF Finish, loopVars
  <2>2. running \in [Provider -> Nat] /\ finished \in [Provider -> Nat]
    BY <1>a DEF TypeOK
  <2>3. \A q \in Provider : Inflight(q)' = Inflight(q)
    BY <2>1, <2>2 DEF Inflight
  <2>4. InflightProviders' = InflightProviders
    BY <2>3 DEF InflightProviders
  <2> QED
    BY <2>1, <2>3, <2>4 DEF TaskInv, OneTaskPerProvider
<1>9. ASSUME NEW p \in Provider, AddProvider(p) PROVE TaskInv'
  BY <1>9, <1>b DEF AddProvider, loopVars, taskVars
<1>10. ASSUME NEW m \in Mode, NEW p \in Provider, Arrive(m, p) \/ TakenElsewhere(m, p) PROVE TaskInv'
  BY <1>10, <1>b DEF Arrive, TakenElsewhere, loopVars, taskVars
<1>11. CASE RequestShutdown \/ UNCHANGED vars
  BY <1>11, <1>b DEF RequestShutdown, vars, loopVars, taskVars
<1> QED
  BY <1>1, <1>2, <1>3, <1>4, <1>5, <1>6, <1>7, <1>8, <1>9, <1>10, <1>11 DEF Next, Loop, Failures

\* A worker never runs two tasks of one provider nor more than its limit, and what the loop takes for
\* busy is what is in flight, whatever ends, panics or is added between two pulls (run_consumer).
THEOREM OneTaskEach == Spec => []OneTaskPerProvider
<1>1. Init => TaskInv
  <2> SUFFICES ASSUME Init PROVE TaskInv
    OBVIOUS
  <2>1. \A p \in Provider : Inflight(p) = 0
    BY DEF Init, Inflight
  <2>2. InflightProviders = {} /\ busy = {} /\ pc = "loop"
    BY <2>1 DEF Init, InflightProviders
  <2>3. Cardinality({}) = 0 /\ Limit \in Nat
    BY FS_EmptySet, FairQueueAssumption
  <2> QED
    BY <2>1, <2>2, <2>3 DEF TaskInv, OneTaskPerProvider
<1>2. QueueInv /\ TaskInv /\ [Next]_vars => TaskInv'
  BY TaskStep
<1>3. TaskInv => OneTaskPerProvider
  BY DEF TaskInv
<1> QED
  BY <1>1, <1>2, <1>3, QueueHolds, PTL DEF Spec

-----------------------------------------------------------------------------
(* Round robin.                                                            *)

\* How many turns lane i of tier m is behind the cursor.
Behind(m, i) == Dist(cursor[m], i - 1, Len(lanes[m]))

\* No lane is further behind than the tier is long.
LEMMA DistanceRange ==
    ASSUME NEW ls \in Seq(Provider), NEW c \in {0} \union 0..(Len(ls) - 1), NEW i \in DOMAIN ls
    PROVE  Len(ls) \in Nat \ {0} /\ Dist(c, i - 1, Len(ls)) \in 0..(Len(ls) - 1)
<1>1. PICK n \in Nat \ {0} : n = Len(ls)
  OBVIOUS
<1>2. c \in 0..(n - 1) /\ i - 1 \in 0..(n - 1)
  BY <1>1
<1>3. Dist(c, i - 1, n) \in 0..(n - 1)
  BY <1>2, TurnsAndDistances
<1> QED
  BY <1>1, <1>3

\* Neither before a step nor after it.
LEMMA BehindRange ==
    /\ LanesOK => \A m \in Mode : \A i \in DOMAIN lanes[m] :
           Len(lanes[m]) \in Nat \ {0} /\ Behind(m, i) \in 0..(Len(lanes[m]) - 1)
    /\ LanesOK' => \A m \in Mode : \A i \in DOMAIN lanes'[m] :
           Len(lanes'[m]) \in Nat \ {0} /\ Behind(m, i)' \in 0..(Len(lanes'[m]) - 1)
<1>1. ASSUME LanesOK, NEW m \in Mode, NEW i \in DOMAIN lanes[m]
      PROVE  Len(lanes[m]) \in Nat \ {0} /\ Behind(m, i) \in 0..(Len(lanes[m]) - 1)
  <2>1. lanes[m] \in Seq(Provider) /\ cursor[m] \in {0} \union 0..(Len(lanes[m]) - 1)
    BY <1>1 DEF LanesOK
  <2> QED
    BY <2>1, DistanceRange DEF Behind
<1>2. ASSUME LanesOK', NEW m \in Mode, NEW i \in DOMAIN lanes'[m]
      PROVE  Len(lanes'[m]) \in Nat \ {0} /\ Behind(m, i)' \in 0..(Len(lanes'[m]) - 1)
  <2>1. lanes'[m] \in Seq(Provider) /\ cursor'[m] \in {0} \union 0..(Len(lanes'[m]) - 1)
    BY <1>2 DEF LanesOK
  <2> QED
    BY <2>1, DistanceRange DEF Behind
<1> QED
  BY <1>1, <1>2

\* A pull goes to the nearest free lane, which then is the furthest; every other free lane comes nearer.
LEMMA TurnMoves ==
    ASSUME QueueInv, pc = "poll", free > 0, TurnTaken, UNCHANGED <<known, lanes>>,
           NEW m \in Mode, m = order[1]
    PROVE  /\ \A l \in Mode : l # m => cursor'[l] = cursor[l]
           /\ \E h \in FreeLanes(m) :
                 /\ Lane = lanes[m][h]
                 /\ Behind(m, h)' = Len(lanes[m]) - 1
                 /\ \A i \in FreeLanes(m) :
                       i # h => Behind(m, h) < Behind(m, i) /\ Behind(m, i)' = Behind(m, i) - Behind(m, h) - 1
<1>1. LanesOK /\ FreeLanes(m) # {}
  BY PollFacts DEF QueueInv
<1>2. /\ Len(lanes[m]) \in Nat \ {0} /\ cursor[m] \in 0..(Len(lanes[m]) - 1)
      /\ next_free_lane(m) \in 0..(Len(lanes[m]) - 1)
      /\ next_free_lane(m) + 1 \in FreeLanes(m)
      /\ \A i \in FreeLanes(m) :
            /\ i - 1 \in 0..(Len(lanes[m]) - 1)
            /\ Dist(cursor[m], next_free_lane(m), Len(lanes[m])) <= Dist(cursor[m], i - 1, Len(lanes[m]))
  BY <1>1, NextFreeLane
<1>3. PICK n \in Nat \ {0} : n = Len(lanes[m])
  BY <1>2
<1>4. PICK c \in 0..(n - 1), r \in 0..(n - 1) : c = cursor[m] /\ r = next_free_lane(m)
  BY <1>2, <1>3
<1>5. cursor' = [cursor EXCEPT ![m] = (r + 1) % n] /\ cursor \in [Mode -> Nat]
  BY <1>1, <1>3, <1>4 DEF TurnTaken, LanesOK
<1>6. cursor'[m] = (r + 1) % n /\ \A l \in Mode : l # m => cursor'[l] = cursor[l]
  BY <1>5
<1>7. PICK x : x = (r + 1) % n
  OBVIOUS
<1>8. \A i : Behind(m, i) = Dist(c, i - 1, n) /\ Behind(m, i)' = Dist(x, i - 1, n)
  BY <1>3, <1>4, <1>6, <1>7 DEF Behind
<1>9. \A j \in 0..(n - 1) : /\ j = r => Dist(x, j, n) = n - 1
                            /\ Dist(c, r, n) < Dist(c, j, n) => Dist(x, j, n) = Dist(c, j, n) - Dist(c, r, n) - 1
                            /\ Dist(c, r, n) = Dist(c, j, n) => j = r
                            /\ Dist(c, j, n) \in Nat
  <2> SUFFICES ASSUME NEW j \in 0..(n - 1)
               PROVE  /\ j = r => Dist(x, j, n) = n - 1
                      /\ Dist(c, r, n) < Dist(c, j, n) => Dist(x, j, n) = Dist(c, j, n) - Dist(c, r, n) - 1
                      /\ Dist(c, r, n) = Dist(c, j, n) => j = r
                      /\ Dist(c, j, n) \in Nat
    OBVIOUS
  <2>1. /\ j = r => Dist((r + 1) % n, j, n) = n - 1
        /\ Dist(c, r, n) < Dist(c, j, n) => Dist((r + 1) % n, j, n) = Dist(c, j, n) - Dist(c, r, n) - 1
        /\ Dist(c, r, n) = Dist(c, j, n) => j = r
    BY DistanceAfterTurn
  <2>2. Dist(c, j, n) \in 0..(n - 1)
    BY TurnsAndDistances
  <2> QED
    BY <1>7, <2>1, <2>2
<1>10. PICK h \in FreeLanes(m) : h = r + 1 /\ h - 1 = r
  BY <1>2, <1>4
<1>11. Lane = lanes[m][h]
  BY <1>4, <1>10 DEF Lane
<1>12. Behind(m, h)' = n - 1 /\ Behind(m, h) = Dist(c, r, n)
  BY <1>8, <1>9, <1>10
<1>13. ASSUME NEW i \in FreeLanes(m), i # h
       PROVE  Behind(m, h) < Behind(m, i) /\ Behind(m, i)' = Behind(m, i) - Behind(m, h) - 1
  <2>1. i \in Nat
    <3>1. i \in DOMAIN lanes[m] /\ lanes[m] \in Seq(Provider)
      BY <1>1 DEF FreeLanes, LanesOK
    <3> QED
      BY <3>1
  <2>2. PICK j \in 0..(n - 1) : j = i - 1 /\ j # r /\ Dist(c, r, n) <= Dist(c, j, n)
    BY <1>2, <1>3, <1>4, <1>10, <1>13, <2>1
  <2>3. Dist(c, r, n) < Dist(c, j, n) /\ Dist(x, j, n) = Dist(c, j, n) - Dist(c, r, n) - 1
    <3>1. Dist(c, r, n) \in Nat /\ Dist(c, j, n) \in Nat /\ Dist(c, r, n) # Dist(c, j, n)
      BY <1>9, <2>2
    <3>2. Dist(c, r, n) < Dist(c, j, n)
      BY <2>2, <3>1
    <3> QED
      BY <1>9, <3>2
  <2>4. Behind(m, i) = Dist(c, j, n) /\ Behind(m, i)' = Dist(x, j, n)
    BY <1>8, <2>2
  <2> QED
    BY <1>12, <2>3, <2>4
<1> QED
  BY <1>3, <1>6, <1>11, <1>12, <1>13

\* A lane counts what passed it only while it could be served, and the count leaves it the turns that it
\* is still behind.
PassInv ==
    /\ passed \in [Mode -> [Provider -> Nat]]
    /\ \A m \in Mode, p \in Provider :
          (p \notin LaneSet(m) \/ depth[m][p] = 0 \/ p \in busy) => passed[m][p] = 0
    /\ \A m \in Mode : \A i \in DOMAIN lanes[m] :
          passed[m][lanes[m][i]] + Behind(m, i) <= Len(lanes[m]) - 1

\* Steps that take no turn and serve nothing.
LEMMA PassKept ==
    ASSUME PassInv, UNCHANGED <<lanes, cursor, passed>>, busy' \subseteq busy,
           \A m \in Mode, p \in Provider : depth'[m][p] = 0 => depth[m][p] = 0
    PROVE  PassInv'
<1>1. \A m, i : Behind(m, i)' = Behind(m, i) /\ LaneSet(m)' = LaneSet(m)
  BY DEF Behind, LaneSet
<1>2. \A m \in Mode, p \in Provider :
          (p \notin LaneSet(m)' \/ depth'[m][p] = 0 \/ p \in busy') => passed'[m][p] = 0
  BY <1>1 DEF PassInv
<1>3. \A m \in Mode : \A i \in DOMAIN lanes'[m] :
          passed'[m][lanes'[m][i]] + Behind(m, i)' <= Len(lanes'[m]) - 1
  BY <1>1 DEF PassInv
<1>4. passed' \in [Mode -> [Provider -> Nat]]
  BY DEF PassInv
<1> QED
  BY <1>2, <1>3, <1>4 DEF PassInv

\* Another worker takes the message of a lane, whose count starts again.
LEMMA PassTaken ==
    ASSUME QueueInv, PassInv, NEW l \in Mode, NEW q \in Provider, TakenElsewhere(l, q)
    PROVE  PassInv'
<1>1. /\ passed' = [passed EXCEPT ![l][q] = 0] /\ depth' = [depth EXCEPT ![l][q] = @ - 1]
      /\ UNCHANGED <<lanes, cursor, busy>>
  BY DEF TakenElsewhere, turnVars, taskVars
<1>2. passed \in [Mode -> [Provider -> Nat]] /\ depth \in [Mode -> [Provider -> 0..MaxDepth]]
  BY DEF PassInv, QueueInv, TypeOK
<1>3. \A m \in Mode, p \in Provider :
          passed'[m][p] = IF m = l /\ p = q THEN 0 ELSE passed[m][p]
  BY <1>1, <1>2
<1>4. \A m \in Mode, p \in Provider : ~(m = l /\ p = q) => depth'[m][p] = depth[m][p]
  BY <1>1, <1>2
<1>5. \A m, i : Behind(m, i)' = Behind(m, i) /\ LaneSet(m)' = LaneSet(m)
  BY <1>1 DEF Behind, LaneSet
<1>6. passed' \in [Mode -> [Provider -> Nat]]
  BY <1>1, <1>2
<1>7. \A m \in Mode, p \in Provider :
          (p \notin LaneSet(m)' \/ depth'[m][p] = 0 \/ p \in busy') => passed'[m][p] = 0
  BY <1>1, <1>3, <1>4, <1>5 DEF PassInv
<1>8. ASSUME NEW m \in Mode, NEW i \in DOMAIN lanes[m]
      PROVE  passed'[m][lanes[m][i]] + Behind(m, i) <= Len(lanes[m]) - 1
  <2>1. lanes[m][i] \in Provider
    BY DEF QueueInv, LanesOK
  <2>2. passed[m][lanes[m][i]] + Behind(m, i) <= Len(lanes[m]) - 1
    BY DEF PassInv
  <2>3. Len(lanes[m]) \in Nat \ {0} /\ Behind(m, i) \in 0..(Len(lanes[m]) - 1)
    BY BehindRange DEF QueueInv
  <2>4. passed'[m][lanes[m][i]] = 0 \/ passed'[m][lanes[m][i]] = passed[m][lanes[m][i]]
    BY <1>3, <2>1
  <2> QED
    BY <2>2, <2>3, <2>4
<1> QED
  BY <1>1, <1>5, <1>6, <1>7, <1>8 DEF PassInv

\* New lanes come behind the others, and nothing has passed them.
LEMMA PassRefresh ==
    ASSUME LanesOK, PassInv, NEW fast \in SUBSET known, NEW full \in SUBSET known, OpenLanes(fast, full),
           UNCHANGED <<known, cursor, depth, passed>>, busy' \subseteq busy
    PROVE  PassInv'
<1>1. /\ LanesOK'
      /\ \A m \in Mode : /\ Len(lanes[m]) \in Nat /\ Len(lanes'[m]) \in Nat /\ Len(lanes[m]) <= Len(lanes'[m])
                         /\ \A i \in DOMAIN lanes[m] : i \in DOMAIN lanes'[m] /\ lanes'[m][i] = lanes[m][i]
                         /\ \A i \in DOMAIN lanes'[m] : i \notin DOMAIN lanes[m] => lanes'[m][i] \notin LaneSet(m)
  BY OpenLanesOK
<1>2. \A m \in Mode : LaneSet(m) \subseteq LaneSet(m)'
  BY <1>1 DEF LaneSet
<1>3. \A m \in Mode, p \in Provider :
          (p \notin LaneSet(m)' \/ depth'[m][p] = 0 \/ p \in busy') => passed'[m][p] = 0
  BY <1>2 DEF PassInv
<1>4. ASSUME NEW m \in Mode, NEW i \in DOMAIN lanes'[m]
      PROVE  passed[m][lanes'[m][i]] + Behind(m, i)' <= Len(lanes'[m]) - 1
  <2>1. Len(lanes'[m]) \in Nat \ {0} /\ Behind(m, i)' \in 0..(Len(lanes'[m]) - 1)
    BY <1>1, BehindRange
  <2>2. lanes'[m][i] \in Provider
    BY <1>1 DEF LanesOK
  <2>3. CASE i \notin DOMAIN lanes[m]
    <3>1. passed[m][lanes'[m][i]] = 0
      BY <1>1, <2>2, <2>3 DEF PassInv
    <3> QED
      BY <2>1, <3>1
  <2>4. CASE i \in DOMAIN lanes[m]
    <3>1. lanes'[m][i] = lanes[m][i] /\ passed[m][lanes[m][i]] + Behind(m, i) <= Len(lanes[m]) - 1
      BY <1>1, <2>4 DEF PassInv
    <3>2. passed[m][lanes[m][i]] \in Nat
      BY <2>2, <3>1 DEF PassInv
    <3>3. PICK n \in Nat, k \in Nat, c \in Nat, j \in Int :
              n = Len(lanes[m]) /\ k = Len(lanes'[m]) /\ c = cursor[m] /\ j = i - 1 /\ n <= k
      <4>1. i \in Nat /\ cursor[m] \in Nat
        BY <2>4 DEF LanesOK
      <4> QED
        BY <1>1, <4>1
    <3>4. Behind(m, i) = Dist(c, j, n) /\ Behind(m, i)' = Dist(c, j, k)
      <4>1. /\ Behind(m, i) = Dist(cursor[m], i - 1, Len(lanes[m]))
            /\ Behind(m, i)' = Dist(cursor'[m], i - 1, Len(lanes'[m]))
        BY DEF Behind
      <4>2. cursor'[m] = cursor[m]
        OBVIOUS
      <4> QED
        BY <3>3, <4>1, <4>2
    <3>5. Dist(c, j, k) - Dist(c, j, n) <= k - n /\ Dist(c, j, k) \in Int /\ Dist(c, j, n) \in Int
      BY <3>3, DistanceGrows
    <3>6. PICK v \in Nat, x \in Int, y \in Int :
              v = passed[m][lanes[m][i]] /\ x = Dist(c, j, n) /\ y = Dist(c, j, k)
      BY <3>2, <3>5
    <3>7. v + x <= n - 1 /\ y - x <= k - n
      BY <3>1, <3>3, <3>4, <3>5, <3>6
    <3>8. v + y <= k - 1
      BY <3>7
    <3> QED
      BY <3>1, <3>3, <3>4, <3>6, <3>8
  <2> QED
    BY <2>3, <2>4
<1> QED
  BY <1>3, <1>4 DEF PassInv

\* A turn keeps the count within what the lane is behind: only the nearest free lane gets ahead, and it
\* goes to the end.
LEMMA PassTurn ==
    ASSUME QueueInv, PassInv, pc = "poll", free > 0, TurnTaken, UNCHANGED <<known, lanes>>,
           NEW m \in Mode, m = order[1],
           \A l \in Mode, p \in Provider : l # m => passed'[l][p] \in {0, passed[l][p]},
           \A p \in Provider : passed'[m][p] \in {0, passed[m][p], passed[m][p] + 1},
           \A p \in Provider : p \in busy \union {Lane} => passed'[m][p] = 0
    PROVE  \A l \in Mode : \A i \in DOMAIN lanes[l] :
               passed'[l][lanes[l][i]] + Behind(l, i)' <= Len(lanes[l]) - 1
<1>1. LanesOK /\ LanesOK'
  BY TurnKeepsLanes DEF QueueInv
<1>2. PICK h \in FreeLanes(m) :
          /\ Lane = lanes[m][h]
          /\ \A i \in FreeLanes(m) :
                i # h => Behind(m, h) < Behind(m, i) /\ Behind(m, i)' = Behind(m, i) - Behind(m, h) - 1
  BY TurnMoves
<1>3. \A l \in Mode : l # m => cursor'[l] = cursor[l]
  BY TurnMoves
<1> SUFFICES ASSUME NEW l \in Mode, NEW i \in DOMAIN lanes[l]
             PROVE  passed'[l][lanes[l][i]] + Behind(l, i)' <= Len(lanes[l]) - 1
  OBVIOUS
<1>4. PICK n \in Nat \ {0} : n = Len(lanes[l])
  BY <1>1, BehindRange
<1>5. PICK x \in 0..(n - 1), y \in 0..(n - 1) : x = Behind(l, i) /\ y = Behind(l, i)'
  BY <1>1, <1>4, BehindRange
<1>6. PICK p \in Provider : p = lanes[l][i]
  BY <1>1 DEF LanesOK
<1>7. PICK v \in Nat : v = passed[l][p] /\ v + x <= n - 1
  BY <1>4, <1>5, <1>6 DEF PassInv
<1>8. CASE passed'[l][p] = 0
  BY <1>4, <1>5, <1>6, <1>8
<1>9. CASE l # m
  <2>1. Behind(l, i)' = Behind(l, i)
    BY <1>3, <1>9 DEF Behind
  <2>2. passed'[l][p] = 0 \/ passed'[l][p] = v
    BY <1>7, <1>9
  <2> QED
    BY <1>4, <1>5, <1>6, <1>7, <1>8, <2>1, <2>2
<1>10. CASE l = m /\ i \notin FreeLanes(m)
  <2>1. p \in busy
    BY <1>6, <1>10 DEF FreeLanes
  <2> QED
    BY <1>8, <1>10, <2>1
<1>11. CASE l = m /\ i = h
  BY <1>2, <1>6, <1>8, <1>11
<1>12. CASE l = m /\ i \in FreeLanes(m) /\ i # h
  <2>1. h \in DOMAIN lanes[m]
    BY DEF FreeLanes
  <2>2. PICK z \in 0..(n - 1) : z = Behind(m, h)
    BY <1>1, <1>4, <1>12, <2>1, BehindRange
  <2>3. y = x - z - 1
    BY <1>2, <1>5, <1>12, <2>2
  <2>4. passed'[l][p] \in {0, v, v + 1}
    BY <1>7, <1>12
  <2>5. PICK w \in Nat : w = passed'[l][p] /\ w <= v + 1
    BY <2>4
  <2>6. w + y <= n - 1
    BY <1>7, <2>3, <2>5
  <2> QED
    BY <1>4, <1>5, <1>6, <2>5, <2>6
<1> QED
  BY <1>9, <1>10, <1>11, <1>12

\* A pull that finds nothing, or fails.
LEMMA PassPull ==
    ASSUME QueueInv, PassInv, PullEmpty \/ PullFails
    PROVE  PassInv'
<1>1. /\ pc = "poll" /\ free > 0 /\ TurnTaken /\ UNCHANGED <<known, lanes, busy, depth>>
      /\ \/ depth[order[1]][Lane] = 0 /\ passed' = passed
         \/ passed' = [passed EXCEPT ![order[1]][Lane] = 0]
  BY DEF PullEmpty, PullFails, laneVars, taskVars, history
<1>2. PICK m \in Mode, q \in Provider : m = order[1] /\ q = Lane
  BY <1>1, PollFacts
<1>3. passed \in [Mode -> [Provider -> Nat]]
  BY DEF PassInv
<1>4. \A l \in Mode, p \in Provider : passed'[l][p] = IF l = m /\ p = q THEN 0 ELSE passed[l][p]
  <2>1. CASE depth[m][q] = 0 /\ passed' = passed
    BY <2>1 DEF PassInv
  <2>2. CASE passed' = [passed EXCEPT ![m][q] = 0]
    BY <1>3, <2>2
  <2> QED
    BY <1>1, <1>2, <2>1, <2>2
<1>5. passed' \in [Mode -> [Provider -> Nat]]
  BY <1>1, <1>2, <1>3
<1>6. LaneSet(m)' = LaneSet(m) /\ \A l : LaneSet(l)' = LaneSet(l)
  BY <1>1 DEF LaneSet
<1>7. \A l \in Mode, p \in Provider :
          (p \notin LaneSet(l)' \/ depth'[l][p] = 0 \/ p \in busy') => passed'[l][p] = 0
  BY <1>1, <1>4, <1>6 DEF PassInv
<1>8. \A p \in Provider : p \in busy \union {Lane} => passed'[m][p] = 0
  BY <1>2, <1>4 DEF PassInv
<1>9. \A l \in Mode : \A i \in DOMAIN lanes[l] :
          passed'[l][lanes[l][i]] + Behind(l, i)' <= Len(lanes[l]) - 1
  BY <1>1, <1>2, <1>4, <1>8, PassTurn
<1> QED
  BY <1>1, <1>5, <1>7, <1>9 DEF PassInv

\* A lane is served: it starts again, and every other lane of the tier that waits has been passed once
\* more.
LEMMA PassServe ==
    ASSUME QueueInv, PassInv, Serve \/ DropUndecodable
    PROVE  PassInv'
<1>1. /\ pc = "poll" /\ free > 0 /\ TurnTaken /\ UNCHANGED <<known, lanes>>
      /\ depth' = [depth EXCEPT ![order[1]][Lane] = @ - 1] /\ Recorded(order[1], Lane)
      /\ busy' \subseteq busy \union {Lane}
  BY DEF Serve, DropUndecodable, laneVars, taskVars
<1>2. PICK m \in Mode, q \in Provider : m = order[1] /\ q = Lane
  BY <1>1, PollFacts
<1>3. passed \in [Mode -> [Provider -> Nat]] /\ depth \in [Mode -> [Provider -> 0..MaxDepth]]
  BY DEF PassInv, QueueInv, TypeOK
<1>4. passed' = [n \in Mode |-> [p \in Provider |->
          IF p = q \/ ~Waiting(n, p) THEN 0 ELSE IF n = m THEN passed[n][p] + 1 ELSE passed[n][p]]]
  BY <1>1, <1>2 DEF Recorded
<1>5. \A l \in Mode, p \in Provider : passed'[l][p] =
          IF p = q \/ ~Waiting(l, p) THEN 0 ELSE IF l = m THEN passed[l][p] + 1 ELSE passed[l][p]
  BY <1>4
<1>6. passed' \in [Mode -> [Provider -> Nat]]
  <2>1. \A l \in Mode, p \in Provider : passed[l][p] \in Nat /\ passed[l][p] + 1 \in Nat
    BY <1>3
  <2>2. \A l \in Mode, p \in Provider :
            (IF p = q \/ ~Waiting(l, p) THEN 0 ELSE IF l = m THEN passed[l][p] + 1 ELSE passed[l][p]) \in Nat
    BY <2>1
  <2> QED
    BY <1>4, <2>2
<1>7. \A l \in Mode, p \in Provider : p # q => depth'[l][p] = depth[l][p]
  BY <1>1, <1>2, <1>3
<1>8. \A l : LaneSet(l)' = LaneSet(l)
  BY <1>1 DEF LaneSet
<1>9. \A l \in Mode, p \in Provider :
          (p \notin LaneSet(l)' \/ depth'[l][p] = 0 \/ p \in busy') => passed'[l][p] = 0
  <2> SUFFICES ASSUME NEW l \in Mode, NEW p \in Provider, p # q,
                      p \notin LaneSet(l)' \/ depth'[l][p] = 0 \/ p \in busy'
               PROVE  ~Waiting(l, p)
    BY <1>5
  <2>1. CASE p \notin LaneSet(l)'
    BY <1>8, <2>1 DEF Waiting
  <2>2. CASE depth'[l][p] = 0
    <3>1. depth[l][p] = 0
      BY <1>7, <2>2
    <3> QED
      BY <3>1 DEF Waiting
  <2>3. CASE p \in busy'
    BY <1>1, <1>2, <2>3 DEF Waiting
  <2> QED
    BY <2>1, <2>2, <2>3
<1>10. \A p \in Provider : p \in busy \union {Lane} => passed'[m][p] = 0
  BY <1>2, <1>5 DEF Waiting
<1>11. \A l \in Mode : \A i \in DOMAIN lanes[l] :
          passed'[l][lanes[l][i]] + Behind(l, i)' <= Len(lanes[l]) - 1
  <2>1. \A l \in Mode, p \in Provider : l # m => passed'[l][p] \in {0, passed[l][p]}
    BY <1>5
  <2>2. \A p \in Provider : passed'[m][p] \in {0, passed[m][p], passed[m][p] + 1}
    BY <1>5
  <2> QED
    BY <1>1, <1>2, <1>10, <2>1, <2>2, PassTurn
<1> QED
  BY <1>1, <1>6, <1>9, <1>11 DEF PassInv

\* Every step keeps the counts.
LEMMA PassStep ==
    ASSUME QueueInv, PassInv, [Next]_vars
    PROVE  PassInv'
<1>a. LanesOK
  BY DEF QueueInv
<1>1. CASE BeginDrain \/ NextTier \/ IdleLapses \/ Stop \/ RequestShutdown \/ UNCHANGED vars
  BY <1>1, PassKept DEF BeginDrain, NextTier, IdleLapses, Stop, RequestShutdown, vars,
                        laneVars, turnVars, taskVars, history
<1>2. CASE AwaitSlot \/ StartRound
  BY <1>2, PassKept DEF AwaitSlot, StartRound, release, laneVars, turnVars, history
<1>3. CASE RefreshAndStart
  <2>1. OpenLanes(known, known) /\ UNCHANGED <<known, cursor, depth, passed>> /\ busy' \subseteq busy
    BY <1>3 DEF RefreshAndStart, release, turnVars, history
  <2> QED
    BY <1>a, <2>1, PassRefresh
<1>4. ASSUME NEW S \in SUBSET Provider, PartialRefresh(S) PROVE PassInv'
  <2>1. S \in SUBSET known /\ UNCHANGED <<known, cursor, depth, passed>> /\ busy' \subseteq busy
    BY <1>4 DEF PartialRefresh, release, turnVars, history
  <2>2. PICK T \in SUBSET known : OpenLanes(S, T)
    BY <1>4 DEF PartialRefresh
  <2> QED
    BY <1>a, <2>1, <2>2, PassRefresh
<1>5. CASE PullEmpty \/ PullFails
  BY <1>5, PassPull
<1>6. CASE Serve \/ DropUndecodable
  BY <1>6, PassServe
<1>7. ASSUME NEW p \in Provider, JoinOne(p) PROVE PassInv'
  BY <1>7, PassKept DEF JoinOne, release, laneVars, turnVars, history
<1>8. ASSUME NEW p \in Provider, Finish(p) \/ AddProvider(p) PROVE PassInv'
  BY <1>8, PassKept DEF Finish, AddProvider, laneVars, turnVars, taskVars, history
<1>9. ASSUME NEW m \in Mode, NEW p \in Provider, Arrive(m, p) PROVE PassInv'
  <2>1. /\ depth' = [depth EXCEPT ![m][p] = @ + 1] /\ UNCHANGED <<lanes, cursor, passed, busy>>
    BY <1>9 DEF Arrive, turnVars, taskVars, history
  <2>2. depth \in [Mode -> [Provider -> 0..MaxDepth]]
    BY DEF QueueInv, TypeOK
  <2>3. ASSUME NEW l \in Mode, NEW q \in Provider, depth'[l][q] = 0
        PROVE  depth[l][q] = 0
    <3>1. depth[l][q] \in Nat
      BY <2>2, FairQueueAssumption
    <3>2. depth'[l][q] = IF l = m /\ q = p THEN depth[l][q] + 1 ELSE depth[l][q]
      BY <2>1, <2>2
    <3> QED
      BY <2>3, <3>1, <3>2
  <2> QED
    BY <2>1, <2>3, PassKept
<1>10. ASSUME NEW m \in Mode, NEW p \in Provider, TakenElsewhere(m, p) PROVE PassInv'
  BY <1>10, PassTaken
<1> QED
  BY <1>1, <1>2, <1>3, <1>4, <1>5, <1>6, <1>7, <1>8, <1>9, <1>10 DEF Next, Loop, Failures

\* Round robin: while a lane could be served all along, its tier serves the other lanes, all together,
\* less often than it has lanes (next_free_lane, take_turn), for any number of lanes and whatever is
\* opened meanwhile.
THEOREM RoundRobin == Spec => []BoundedWaiting
<1>1. Init => PassInv
  <2> SUFFICES ASSUME Init PROVE PassInv
    OBVIOUS
  <2>1. LanesOK
    BY QueueInit DEF QueueInv
  <2>2. passed = [m \in Mode |-> [p \in Provider |-> 0]]
    BY DEF Init
  <2>3. ASSUME NEW m \in Mode, NEW i \in DOMAIN lanes[m]
        PROVE  passed[m][lanes[m][i]] + Behind(m, i) <= Len(lanes[m]) - 1
    <3>1. Len(lanes[m]) \in Nat \ {0} /\ Behind(m, i) \in 0..(Len(lanes[m]) - 1)
      BY <2>1, BehindRange
    <3>2. lanes[m][i] \in Provider
      BY <2>1 DEF LanesOK
    <3>3. passed[m][lanes[m][i]] = 0
      BY <2>2, <3>2
    <3> QED
      BY <3>1, <3>3
  <2> QED
    BY <2>2, <2>3 DEF PassInv
<1>2. QueueInv /\ PassInv /\ [Next]_vars => PassInv'
  BY PassStep
<1>3. QueueInv /\ PassInv => BoundedWaiting
  <2> SUFFICES ASSUME QueueInv, PassInv, NEW m \in Mode, NEW p \in LaneSet(m)
               PROVE  passed[m][p] < Len(lanes[m])
    BY DEF BoundedWaiting
  <2>1. PICK i \in DOMAIN lanes[m] : p = lanes[m][i]
    BY DEF LaneSet
  <2>2. Len(lanes[m]) \in Nat \ {0} /\ Behind(m, i) \in 0..(Len(lanes[m]) - 1)
    BY BehindRange DEF QueueInv
  <2>3. passed[m][p] \in Nat
    BY DEF PassInv, QueueInv, LanesOK
  <2>4. passed[m][p] + Behind(m, i) <= Len(lanes[m]) - 1
    BY <2>1 DEF PassInv
  <2> QED
    BY <2>2, <2>3, <2>4
<1> QED
  BY <1>1, <1>2, <1>3, QueueHolds, PTL DEF Spec

-----------------------------------------------------------------------------
(* The full tier.                                                          *)

\* Free full lanes that come before lane i.
Nearer(i) == {j \in FreeLanes("full") : Behind("full", j) < Behind("full", i)}

\* A round that owes the full tier polls it first: every free full lane has either had its turn, and
\* is owed nothing, or comes within the pulls that are left.
RoundOwes ==
    pc = "poll" =>
        /\ order = <<"fast", "full">> => streak < FullTierEvery
        /\ order = <<"full", "fast">> =>
              \A i \in FreeLanes("full") : owed[lanes["full"][i]] = 0 \/ Cardinality(Nearer(i)) < free
        /\ order = <<"fast">> /\ streak >= FullTierEvery =>
              \A i \in FreeLanes("full") : owed[lanes["full"][i]] = 0

\* The streak counts at least what a full lane is owed, and only a lane that could be served is owed.
OwedInv ==
    /\ owed \in [Provider -> Nat]
    /\ \A p \in Provider : owed[p] <= streak
    /\ \A p \in Provider : (p \notin LaneSet("full") \/ depth["full"][p] = 0 \/ p \in busy) => owed[p] = 0
    /\ RoundOwes

\* The debts of a step that serves nothing.
LEMMA DebtsKept ==
    ASSUME OwedInv, \A p \in Provider : owed'[p] \in {0, owed[p]}, owed' \in [Provider -> Nat],
           streak' = streak, busy' \subseteq busy, LaneSet("full") \subseteq LaneSet("full")',
           \A p \in Provider : depth'["full"][p] = 0 => depth["full"][p] = 0 \/ owed'[p] = 0,
           QueueInv
    PROVE  /\ \A p \in Provider : owed'[p] <= streak'
           /\ \A p \in Provider :
                 (p \notin LaneSet("full")' \/ depth'["full"][p] = 0 \/ p \in busy') => owed'[p] = 0
<1>1. \A p \in Provider : owed[p] <= streak /\ owed[p] \in Nat /\ streak \in Nat
  BY FairQueueAssumption DEF OwedInv, QueueInv, TypeOK
<1>2. \A p \in Provider : owed'[p] <= streak'
  BY <1>1
<1>3. \A p \in Provider :
          (p \notin LaneSet("full")' \/ depth'["full"][p] = 0 \/ p \in busy') => owed'[p] = 0
  <2> SUFFICES ASSUME NEW p \in Provider, owed'[p] # 0,
                      p \notin LaneSet("full")' \/ depth'["full"][p] = 0 \/ p \in busy'
               PROVE  FALSE
    OBVIOUS
  <2>1. owed[p] # 0
    OBVIOUS
  <2>2. p \notin LaneSet("full") \/ depth["full"][p] = 0 \/ p \in busy
    OBVIOUS
  <2> QED
    BY <2>1, <2>2 DEF OwedInv
<1> QED
  BY <1>2, <1>3

\* A round leaves the debts as they are while neither its lanes nor its pulls change.
LEMMA RoundKept ==
    ASSUME RoundOwes, UNCHANGED <<pc, order, free, lanes, cursor, busy, streak>>,
           \A p \in Provider : owed'[p] \in {0, owed[p]}, LanesOK
    PROVE  RoundOwes'
<1>1. /\ FreeLanes("full")' = FreeLanes("full") /\ \A i : Behind("full", i)' = Behind("full", i)
      /\ \A i : Nearer(i)' = Nearer(i)
  BY DEF FreeLanes, Behind, Nearer
<1>2. \A i \in FreeLanes("full") : lanes["full"][i] \in Provider
  BY DEF FreeLanes, LanesOK, Mode
<1>3. \A i \in FreeLanes("full") : owed[lanes["full"][i]] = 0 => owed'[lanes["full"][i]] = 0
  BY <1>2
<1> QED
  BY <1>1, <1>3 DEF RoundOwes

\* A round that begins has a pull for every free lane.
LEMMA RoundOwesBegins ==
    ASSUME LanesOK', BeginRound(lanes', tier_order, busy'), streak' = streak, streak \in Nat
    PROVE  RoundOwes'
<1>1. /\ pc' = "poll" /\ order' \in {<<"fast", "full">>, <<"full", "fast">>}
      /\ free' = Cardinality(FreeLanes(order[1])') /\ ((streak >= FullTierEvery) <=> order' = <<"full", "fast">>)
  BY RoundBegins
<1>2. order' = <<"fast", "full">> => streak' < FullTierEvery
  <2>1. order' = <<"fast", "full">> => ~(streak >= FullTierEvery)
    BY <1>1
  <2> QED
    BY <2>1, FairQueueAssumption
<1>3. ASSUME order' = <<"full", "fast">>, NEW i \in FreeLanes("full")'
      PROVE  Cardinality(Nearer(i)') < free'
  <2>1. PICK F : F = FreeLanes("full")'
    OBVIOUS
  <2>2. free' = Cardinality(F)
    BY <1>1, <1>3, <2>1 DEF FreeLanes
  <2>3. IsFiniteSet(F)
    <3>1. "full" \in Mode
      BY DEF Mode
    <3>2. /\ lanes'["full"] \in Seq(Provider)
          /\ \A a, b \in DOMAIN lanes'["full"] : a # b => lanes'["full"][a] # lanes'["full"][b]
      BY <3>1 DEF LanesOK
    <3>3. F \in SUBSET DOMAIN lanes'["full"]
      BY <2>1 DEF FreeLanes
    <3> QED
      BY <3>2, <3>3, FreeLanesBounded
  <2>4. Nearer(i)' \in SUBSET (F \ {i})
    <3>1. Behind("full", i)' \in Int
      <4>1. i \in DOMAIN lanes'["full"] /\ "full" \in Mode
        BY DEF FreeLanes, Mode
      <4>2. Behind("full", i)' \in 0..(Len(lanes'["full"]) - 1) /\ Len(lanes'["full"]) \in Nat \ {0}
        BY <4>1, BehindRange
      <4> QED
        BY <4>2
    <3>2. i \notin Nearer(i)'
      BY <3>1 DEF Nearer
    <3> QED
      BY <2>1, <3>2 DEF Nearer
  <2>5. IsFiniteSet(F \ {i}) /\ Cardinality(F \ {i}) = Cardinality(F) - 1
    BY <1>3, <2>1, <2>3, FS_RemoveElement
  <2>6. PICK N : N = Nearer(i)' /\ N \in SUBSET (F \ {i})
    BY <2>4
  <2>7. IsFiniteSet(N) /\ Cardinality(N) <= Cardinality(F \ {i})
    BY <2>5, <2>6, FS_Subset
  <2>8. Cardinality(N) \in Nat /\ Cardinality(F) \in Nat
    BY <2>3, <2>7, FS_CardinalityType
  <2>9. Cardinality(N) < Cardinality(F)
    BY <2>5, <2>7, <2>8
  <2> QED
    BY <2>2, <2>6, <2>9
<1>4. order' # <<"fast">>
  BY <1>1
<1> QED
  BY <1>2, <1>3, <1>4 DEF RoundOwes

\* A pull in a round that owes the full tier: the lane that has its turn is owed nothing any more, and
\* one fewer comes before each of the others.
LEMMA RoundOwesPull ==
    ASSUME QueueInv, OwedInv, pc = "poll", free > 0, TurnTaken, UNCHANGED <<known, lanes, busy, pc, order, streak>>,
           free' = free - 1, \A p \in Provider : owed'[p] \in {0, owed[p]},
           order[1] = "full" => owed'[Lane] = 0
    PROVE  RoundOwes'
<1>a. LanesOK /\ "full" \in Mode /\ FreeLanes("full")' = FreeLanes("full")
  BY DEF QueueInv, FreeLanes, Mode
<1>b. \A i \in FreeLanes("full") : i \in DOMAIN lanes["full"] /\ lanes["full"][i] \in Provider
  BY <1>a DEF FreeLanes, LanesOK
<1>c. \A i \in FreeLanes("full") : owed[lanes["full"][i]] = 0 => owed'[lanes["full"][i]] = 0
  BY <1>b
<1>1. CASE order # <<"full", "fast">>
  BY <1>1, <1>a, <1>c DEF RoundOwes, OwedInv
<1>2. CASE order = <<"full", "fast">>
  <2>1. order[1] = "full"
    BY <1>2
  <2>2. PICK h \in FreeLanes("full") :
            /\ Lane = lanes["full"][h]
            /\ \A i \in FreeLanes("full") :
                  i # h => /\ Behind("full", h) < Behind("full", i)
                           /\ Behind("full", i)' = Behind("full", i) - Behind("full", h) - 1
            /\ Behind("full", h)' = Len(lanes["full"]) - 1
    BY <1>a, <2>1, TurnMoves
  <2>3. ASSUME NEW i \in FreeLanes("full"), owed'[lanes["full"][i]] # 0
        PROVE  Cardinality(Nearer(i)') < free'
    <3>1. i # h
      BY <2>1, <2>2, <2>3
    <3>2. owed[lanes["full"][i]] # 0
      BY <1>c, <2>3
    <3>3. Cardinality(Nearer(i)) < free
      BY <1>2, <3>2 DEF OwedInv, RoundOwes
    <3>4. Nearer(i)' = Nearer(i) \ {h}
      <4>1. \A j \in FreeLanes("full") : Behind("full", j) \in Int
        <5>1. \A j \in FreeLanes("full") : Behind("full", j) \in 0..(Len(lanes["full"]) - 1) /\ Len(lanes["full"]) \in Nat
          BY <1>a, <1>b, BehindRange
        <5> QED
          BY <5>1
      <4>2. Behind("full", i)' = Behind("full", i) - Behind("full", h) - 1
        BY <2>2, <3>1
      <4>3. ASSUME NEW j \in FreeLanes("full"), j # h
            PROVE  Behind("full", j)' < Behind("full", i)' <=> Behind("full", j) < Behind("full", i)
        <5>1. Behind("full", j)' = Behind("full", j) - Behind("full", h) - 1
          BY <2>2, <4>3
        <5> QED
          BY <4>1, <4>2, <5>1
      <4>4. ~(Behind("full", h)' < Behind("full", i)')
        <5>1. i \in DOMAIN lanes'["full"]
          BY <1>b
        <5>2. LanesOK'
          BY TurnKeepsLanes
        <5>3. Behind("full", i)' \in 0..(Len(lanes["full"]) - 1) /\ Len(lanes["full"]) \in Nat \ {0}
          BY <1>a, <5>1, <5>2, BehindRange
        <5> QED
          BY <2>2, <5>3
      <4>5. Nearer(i)' = {j \in FreeLanes("full") : Behind("full", j)' < Behind("full", i)'}
        BY <1>a DEF Nearer
      <4>6. Nearer(i) = {j \in FreeLanes("full") : Behind("full", j) < Behind("full", i)}
        BY DEF Nearer
      <4> QED
        BY <4>3, <4>4, <4>5, <4>6
    <3>5. h \in Nearer(i)
      BY <2>2, <3>1 DEF Nearer
    <3>6. IsFiniteSet(Nearer(i)) /\ Cardinality(Nearer(i)) \in Nat
      <4>1. Nearer(i) \in SUBSET FreeLanes("full")
        BY DEF Nearer
      <4>2. IsFiniteSet(Nearer(i))
        BY <1>a, <4>1, FreeLanesFinite, FS_Subset
      <4> QED
        BY <4>2, FS_CardinalityType
    <3>7. Cardinality(Nearer(i) \ {h}) = Cardinality(Nearer(i)) - 1
      BY <3>5, <3>6, FS_RemoveElement
    <3>8. free \in Nat
      BY ProvidersFinite DEF QueueInv, TypeOK
    <3>9. Cardinality(Nearer(i)) - 1 < free - 1
      BY <3>3, <3>6, <3>8
    <3> QED
      BY <3>4, <3>7, <3>9
  <2> QED
    BY <1>2, <1>a, <2>3 DEF RoundOwes
<1> QED
  BY <1>1, <1>2

\* The full tier has had all its pulls before the fast tier of such a round is polled.
LEMMA RoundOwesNext ==
    ASSUME QueueInv, OwedInv, NextTier
    PROVE  RoundOwes'
<1>1. UNCHANGED <<lanes, cursor, busy, streak, owed>> /\ pc = "poll" /\ free = 0
  BY DEF NextTier, laneVars, turnVars, taskVars, history
<1>2. CASE pc' # "poll"
  BY <1>2 DEF RoundOwes
<1>3. CASE pc' = "poll"
  <2>1. Len(order) > 1 /\ order' = Tail(order)
    BY <1>3 DEF NextTier, EndRound
  <2>a. order \in {<< >>, <<"fast">>, <<"full">>, <<"fast", "full">>, <<"full", "fast">>}
    BY DEF QueueInv, TypeOK
  <2>2. order \in {<<"fast", "full">>, <<"full", "fast">>}
    BY <2>1, <2>a
  <2>4. Tail(<<"fast", "full">>) = <<"full">> /\ Tail(<<"full", "fast">>) = <<"fast">>
    BY Z3
  <2>5. order' \in {<<"fast">>, <<"full">>} /\ (order' = <<"fast">> => order = <<"full", "fast">>)
    <3>1. CASE order = <<"fast", "full">>
      <4>1. order' = <<"full">> /\ <<"full">> # <<"fast">>
        BY <2>1, <2>4, <3>1
      <4> QED
        BY <4>1
    <3>2. CASE order = <<"full", "fast">>
      BY <2>1, <2>4, <3>2
    <3> QED
      BY <2>2, <3>1, <3>2
  <2>6. ASSUME order = <<"full", "fast">>, NEW i \in FreeLanes("full")
        PROVE  owed[lanes["full"][i]] = 0
    <3>1. owed[lanes["full"][i]] = 0 \/ Cardinality(Nearer(i)) < free
      BY <1>1, <2>6 DEF OwedInv, RoundOwes
    <3>2. Cardinality(Nearer(i)) \in Nat
      <4>1. Nearer(i) \in SUBSET FreeLanes("full") /\ "full" \in Mode
        BY DEF Nearer, Mode
      <4>2. IsFiniteSet(Nearer(i))
        BY <4>1, FreeLanesFinite, FS_Subset DEF QueueInv
      <4> QED
        BY <4>2, FS_CardinalityType
    <3> QED
      BY <1>1, <3>1, <3>2
  <2>7. FreeLanes("full")' = FreeLanes("full")
    BY <1>1 DEF FreeLanes
  <2> QED
    BY <1>1, <2>5, <2>6, <2>7 DEF RoundOwes
<1> QED
  BY <1>2, <1>3

\* A step between two rounds, or one that a round does not see, serves nothing.
LEMMA OwedQuiet ==
    ASSUME QueueInv, OwedInv, UNCHANGED <<lanes, streak, owed>>, busy' \subseteq busy,
           \A p \in Provider : depth'["full"][p] = 0 => depth["full"][p] = 0,
           RoundOwes'
    PROVE  OwedInv'
<1>1. owed \in [Provider -> Nat] /\ LaneSet("full") \subseteq LaneSet("full")'
  BY DEF OwedInv, LaneSet
<1>2. /\ \A p \in Provider : owed'[p] <= streak'
      /\ \A p \in Provider :
            (p \notin LaneSet("full")' \/ depth'["full"][p] = 0 \/ p \in busy') => owed'[p] = 0
  BY <1>1, DebtsKept
<1> QED
  BY <1>1, <1>2 DEF OwedInv

\* New lanes are owed nothing, and the round that begins has a pull for each of them.
LEMMA OwedRefresh ==
    ASSUME QueueInv, OwedInv, NEW fast \in SUBSET known, NEW full \in SUBSET known, OpenLanes(fast, full),
           UNCHANGED <<known, cursor, depth, streak, owed>>, busy' \subseteq busy,
           BeginRound(lanes', tier_order, busy')
    PROVE  OwedInv'
<1>a. LanesOK /\ "full" \in Mode /\ streak \in Nat
  BY FairQueueAssumption DEF QueueInv, TypeOK, Mode
<1>1. /\ LanesOK'
      /\ \A i \in DOMAIN lanes["full"] : i \in DOMAIN lanes'["full"] /\ lanes'["full"][i] = lanes["full"][i]
  BY <1>a, OpenLanesOK
<1>2. LaneSet("full") \subseteq LaneSet("full")' /\ owed' \in [Provider -> Nat]
  BY <1>1 DEF LaneSet, OwedInv
<1>3. /\ \A p \in Provider : owed'[p] <= streak'
      /\ \A p \in Provider :
            (p \notin LaneSet("full")' \/ depth'["full"][p] = 0 \/ p \in busy') => owed'[p] = 0
  BY <1>2, DebtsKept
<1>4. RoundOwes'
  BY <1>1, <1>a, RoundOwesBegins
<1> QED
  BY <1>2, <1>3, <1>4 DEF OwedInv

\* A pull that finds nothing found nothing owed; one that fails has had its turn.
LEMMA OwedPull ==
    ASSUME QueueInv, OwedInv, PullEmpty \/ PullFails
    PROVE  OwedInv'
<1>1. /\ pc = "poll" /\ free > 0 /\ TurnTaken /\ UNCHANGED <<known, lanes, busy, pc, order, streak, depth>>
      /\ free' = free - 1
      /\ \/ depth[order[1]][Lane] = 0 /\ owed' = owed
         \/ owed' = IF order[1] = "full" THEN [owed EXCEPT ![Lane] = 0] ELSE owed
  BY DEF PullEmpty, PullFails, laneVars, taskVars, history
<1>2. PICK q \in Provider : q = Lane
  BY <1>1, PollFacts
<1>3. owed \in [Provider -> Nat]
  BY DEF OwedInv
<1>4. owed' = owed \/ owed' = [owed EXCEPT ![q] = 0]
  BY <1>1, <1>2
<1>5. owed' \in [Provider -> Nat] /\ \A p \in Provider : owed'[p] \in {0, owed[p]}
  BY <1>3, <1>4
<1>6. order[1] = "full" => owed'[q] = 0
  <2>1. CASE depth[order[1]][Lane] = 0 /\ owed' = owed
    BY <1>2, <2>1 DEF OwedInv
  <2>2. CASE owed' = IF order[1] = "full" THEN [owed EXCEPT ![Lane] = 0] ELSE owed
    BY <1>2, <1>3, <2>2
  <2> QED
    BY <1>1, <2>1, <2>2
<1>7. LaneSet("full") \subseteq LaneSet("full")'
  BY <1>1 DEF LaneSet
<1>8. /\ \A p \in Provider : owed'[p] <= streak'
      /\ \A p \in Provider :
            (p \notin LaneSet("full")' \/ depth'["full"][p] = 0 \/ p \in busy') => owed'[p] = 0
  BY <1>1, <1>5, <1>7, DebtsKept
<1>9. RoundOwes'
  BY <1>1, <1>2, <1>5, <1>6, RoundOwesPull
<1> QED
  BY <1>5, <1>8, <1>9 DEF OwedInv

\* A task is taken: a full one settles every debt; a fast one adds to the streak whatever it adds to a
\* debt, and finds no debt left when the streak can count no further.
LEMMA OwedServe ==
    ASSUME QueueInv, OwedInv, Serve \/ DropUndecodable
    PROVE  OwedInv'
<1>1. /\ pc = "poll" /\ free > 0 /\ TurnTaken /\ UNCHANGED <<known, lanes>> /\ pc' = "loop"
      /\ streak' = StreakAfter(order[1])
      /\ depth' = [depth EXCEPT ![order[1]][Lane] = @ - 1] /\ Recorded(order[1], Lane)
      /\ busy' \subseteq busy \union {Lane}
  BY DEF Serve, DropUndecodable, laneVars, taskVars, EndRound
<1>2. PICK m \in Mode, q \in Provider : m = order[1] /\ q = Lane
  BY <1>1, PollFacts
<1>3. /\ owed \in [Provider -> Nat] /\ depth \in [Mode -> [Provider -> 0..MaxDepth]]
      /\ streak \in Nat /\ streak <= FullTierEvery /\ FullTierEvery \in Nat \ {0}
  BY FairQueueAssumption DEF OwedInv, QueueInv, TypeOK
<1>4. owed' = [p \in Provider |-> IF m = "full" \/ p = q \/ ~Waiting("full", p) THEN 0 ELSE owed[p] + 1]
  BY <1>1, <1>2 DEF Recorded
<1>5. \A p \in Provider : owed'[p] = IF m = "full" \/ p = q \/ ~Waiting("full", p) THEN 0 ELSE owed[p] + 1
  BY <1>4
<1>6. owed' \in [Provider -> Nat]
  <2>1. \A p \in Provider : (IF m = "full" \/ p = q \/ ~Waiting("full", p) THEN 0 ELSE owed[p] + 1) \in Nat
    BY <1>3
  <2> QED
    BY <1>4, <2>1
<1>7. \A p \in Provider : (p \notin LaneSet("full")' \/ depth'["full"][p] = 0 \/ p \in busy') => owed'[p] = 0
  <2> SUFFICES ASSUME NEW p \in Provider, p # q,
                      p \notin LaneSet("full")' \/ depth'["full"][p] = 0 \/ p \in busy'
               PROVE  ~Waiting("full", p)
    BY <1>5
  <2>1. CASE p \notin LaneSet("full")'
    BY <1>1, <2>1 DEF Waiting, LaneSet
  <2>2. CASE depth'["full"][p] = 0
    <3>1. depth["full"][p] = 0
      BY <1>1, <1>2, <1>3, <2>2 DEF Mode
    <3> QED
      BY <3>1 DEF Waiting
  <2>3. CASE p \in busy'
    BY <1>1, <1>2, <2>3 DEF Waiting
  <2> QED
    BY <2>1, <2>2, <2>3
<1>8. \A p \in Provider : owed'[p] <= streak'
  <2> SUFFICES ASSUME NEW p \in Provider PROVE owed'[p] <= streak'
    OBVIOUS
  <2>1. streak' = IF m = "full" THEN 0 ELSE IF streak < FullTierEvery THEN streak + 1 ELSE streak
    BY <1>1, <1>2 DEF StreakAfter
  <2>2. owed[p] <= streak /\ owed[p] \in Nat
    BY <1>3 DEF OwedInv
  <2>3. CASE m = "full" \/ p = q \/ ~Waiting("full", p)
    <3>1. owed'[p] = 0
      BY <1>5, <2>3
    <3> QED
      BY <1>3, <2>1, <3>1
  <2>4. CASE ~(m = "full" \/ p = q \/ ~Waiting("full", p)) /\ streak < FullTierEvery
    <3>1. owed'[p] = owed[p] + 1 /\ streak' = streak + 1
      BY <1>5, <2>1, <2>4
    <3> QED
      BY <1>3, <2>2, <3>1
  <2>5. CASE ~(m = "full" \/ p = q \/ ~Waiting("full", p)) /\ ~(streak < FullTierEvery)
    <3>1. m = "fast" /\ order # << >> /\ streak >= FullTierEvery
      BY <1>1, <1>3, <2>5 DEF Mode, QueueInv, RoundOK
    <3>a. order \in {<< >>, <<"fast">>, <<"full">>, <<"fast", "full">>, <<"full", "fast">>}
      BY DEF QueueInv, TypeOK
    <3>2. order \in {<<"fast">>, <<"fast", "full">>}
      <4>1. order[1] = "fast"
        BY <1>2, <3>1
      <4>2. <<"full">>[1] = "full" /\ <<"full", "fast">>[1] = "full"
        OBVIOUS
      <4>3. order # <<"full">> /\ order # <<"full", "fast">>
        BY <4>1, <4>2
      <4> QED
        BY <3>1, <3>a, <4>3
    <3>3. order = <<"fast">>
      BY <1>1, <2>5, <3>2 DEF OwedInv, RoundOwes
    <3>4. PICK i \in DOMAIN lanes["full"] : p = lanes["full"][i] /\ p \notin busy
      BY <2>5 DEF Waiting, LaneSet
    <3>5. i \in FreeLanes("full")
      BY <3>4 DEF FreeLanes
    <3>6. owed[p] = 0
      BY <1>1, <3>1, <3>3, <3>4, <3>5 DEF OwedInv, RoundOwes
    <3>7. owed'[p] = owed[p] + 1 /\ streak' = streak
      BY <1>5, <2>1, <2>5
    <3> QED
      BY <1>3, <3>1, <3>6, <3>7
  <2> QED
    BY <2>3, <2>4, <2>5
<1>9. RoundOwes'
  BY <1>1 DEF RoundOwes
<1> QED
  BY <1>6, <1>7, <1>8, <1>9 DEF OwedInv

\* Every step keeps the debts.
LEMMA OwedStep ==
    ASSUME QueueInv, OwedInv, [Next]_vars
    PROVE  OwedInv'
<1>a. LanesOK /\ RoundOwes /\ streak \in Nat /\ owed \in [Provider -> Nat]
      /\ depth \in [Mode -> [Provider -> 0..MaxDepth]] /\ "full" \in Mode
  BY FairQueueAssumption DEF QueueInv, TypeOK, OwedInv, Mode
<1>1. CASE BeginDrain \/ IdleLapses \/ Stop \/ AwaitSlot
  <2>1. pc' # "poll" /\ UNCHANGED <<lanes, streak, owed, depth>> /\ busy' \subseteq busy
    BY <1>1 DEF BeginDrain, IdleLapses, Stop, AwaitSlot, release, laneVars, turnVars, taskVars, history
  <2>2. RoundOwes'
    BY <2>1 DEF RoundOwes
  <2> QED
    BY <2>1, <2>2, OwedQuiet
<1>2. ASSUME NEW p \in Provider, JoinOne(p) PROVE OwedInv'
  <2>1. pc' # "poll" /\ UNCHANGED <<lanes, streak, owed, depth>> /\ busy' \subseteq busy
    BY <1>2 DEF JoinOne, release, laneVars, turnVars, taskVars, history
  <2>2. RoundOwes'
    BY <2>1 DEF RoundOwes
  <2> QED
    BY <2>1, <2>2, OwedQuiet
<1>3. CASE RequestShutdown \/ UNCHANGED vars \/ \E p \in Provider : Finish(p) \/ AddProvider(p)
  <2>1. UNCHANGED <<pc, order, free, lanes, cursor, busy, streak, owed, depth>>
    BY <1>3 DEF RequestShutdown, Finish, AddProvider, vars, loopVars, laneVars, turnVars, taskVars, history
  <2>2. RoundOwes'
    BY <1>a, <2>1, RoundKept
  <2> QED
    BY <2>1, <2>2, OwedQuiet
<1>4. CASE NextTier
  <2>1. UNCHANGED <<lanes, streak, owed, depth, busy>>
    BY <1>4 DEF NextTier, laneVars, turnVars, taskVars, history
  <2>2. RoundOwes'
    BY <1>4, RoundOwesNext
  <2> QED
    BY <2>1, <2>2, OwedQuiet
<1>5. CASE StartRound
  <2>1. /\ UNCHANGED <<known, lanes, cursor, streak, owed, depth>> /\ busy' \subseteq busy
        /\ BeginRound(lanes', tier_order, busy')
    BY <1>5 DEF StartRound, release, laneVars, turnVars, history
  <2>2. LanesOK'
    BY <1>a, <2>1, SameLanes
  <2>3. RoundOwes'
    BY <1>a, <2>1, <2>2, RoundOwesBegins
  <2> QED
    BY <2>1, <2>3, OwedQuiet
<1>6. CASE RefreshAndStart
  <2>1. /\ OpenLanes(known, known) /\ UNCHANGED <<known, cursor, depth, streak, owed>> /\ busy' \subseteq busy
        /\ BeginRound(lanes', tier_order, busy')
    BY <1>6 DEF RefreshAndStart, release, turnVars, history
  <2> QED
    BY <2>1, OwedRefresh
<1>7. ASSUME NEW S \in SUBSET Provider, PartialRefresh(S) PROVE OwedInv'
  <2>1. /\ S \in SUBSET known /\ UNCHANGED <<known, cursor, depth, streak, owed>> /\ busy' \subseteq busy
        /\ BeginRound(lanes', tier_order, busy')
    BY <1>7 DEF PartialRefresh, release, turnVars, history
  <2>2. PICK T \in SUBSET known : OpenLanes(S, T)
    BY <1>7 DEF PartialRefresh
  <2> QED
    BY <2>1, <2>2, OwedRefresh
<1>8. CASE PullEmpty \/ PullFails
  BY <1>8, OwedPull
<1>9. CASE Serve \/ DropUndecodable
  BY <1>9, OwedServe
<1>10. ASSUME NEW m \in Mode, NEW p \in Provider, Arrive(m, p) PROVE OwedInv'
  <2>1. /\ depth' = [depth EXCEPT ![m][p] = @ + 1]
        /\ UNCHANGED <<pc, order, free, lanes, cursor, busy, streak, owed>>
    BY <1>10 DEF Arrive, loopVars, turnVars, taskVars, history
  <2>2. ASSUME NEW q \in Provider, depth'["full"][q] = 0 PROVE depth["full"][q] = 0
    <3>1. depth["full"][q] \in Nat
      BY <1>a, FairQueueAssumption
    <3>2. depth'["full"][q] = IF m = "full" /\ q = p THEN depth["full"][q] + 1 ELSE depth["full"][q]
      BY <1>a, <2>1
    <3> QED
      BY <2>2, <3>1, <3>2
  <2>3. RoundOwes'
    BY <1>a, <2>1, RoundKept
  <2> QED
    BY <2>1, <2>2, <2>3, OwedQuiet
<1>11. ASSUME NEW m \in Mode, NEW p \in Provider, TakenElsewhere(m, p) PROVE OwedInv'
  <2>1. /\ depth' = [depth EXCEPT ![m][p] = @ - 1]
        /\ owed' = IF m = "full" THEN [owed EXCEPT ![p] = 0] ELSE owed
        /\ UNCHANGED <<pc, order, free, lanes, cursor, busy, streak>>
    BY <1>11 DEF TakenElsewhere, loopVars, turnVars, taskVars
  <2>2. owed' \in [Provider -> Nat] /\ \A q \in Provider : owed'[q] = IF m = "full" /\ q = p THEN 0 ELSE owed[q]
    BY <1>a, <2>1
  <2>3. ASSUME NEW q \in Provider, depth'["full"][q] = 0 PROVE depth["full"][q] = 0 \/ owed'[q] = 0
    <3>1. depth'["full"][q] = IF m = "full" /\ q = p THEN depth["full"][q] - 1 ELSE depth["full"][q]
      BY <1>a, <2>1
    <3> QED
      BY <2>2, <2>3, <3>1
  <2>4. LaneSet("full") \subseteq LaneSet("full")' /\ \A q \in Provider : owed'[q] \in {0, owed[q]}
    BY <2>1, <2>2 DEF LaneSet
  <2>5. RoundOwes'
    BY <1>a, <2>1, <2>4, RoundKept
  <2>6. /\ \A q \in Provider : owed'[q] <= streak'
        /\ \A q \in Provider :
              (q \notin LaneSet("full")' \/ depth'["full"][q] = 0 \/ q \in busy') => owed'[q] = 0
    BY <2>1, <2>2, <2>3, <2>4, DebtsKept
  <2> QED
    BY <2>2, <2>5, <2>6 DEF OwedInv
<1> QED
  BY <1>1, <1>2, <1>3, <1>4, <1>5, <1>6, <1>7, <1>8, <1>9, <1>10, <1>11 DEF Next, Loop, Failures

\* The fast tier's debt: while one full lane could be served all along, at most FULL_TIER_EVERY fast
\* tasks in a row are taken ahead of the full tier (tier_order, poll_round), for any number of lanes and
\* any FULL_TIER_EVERY of at least one.
THEOREM FullTierServed == Spec => []FullTierNotStarved
<1>1. Init => OwedInv
  <2> SUFFICES ASSUME Init PROVE OwedInv
    OBVIOUS
  <2>1. owed = [p \in Provider |-> 0] /\ streak = 0 /\ pc = "loop"
    BY DEF Init
  <2> QED
    BY <2>1 DEF OwedInv, RoundOwes
<1>2. QueueInv /\ OwedInv /\ [Next]_vars => OwedInv'
  BY OwedStep
<1>3. QueueInv /\ OwedInv => FullTierNotStarved
  <2> SUFFICES ASSUME QueueInv, OwedInv, NEW p \in Provider PROVE owed[p] <= FullTierEvery
    BY DEF FullTierNotStarved
  <2>1. owed[p] \in Nat /\ owed[p] <= streak /\ streak \in Nat /\ streak <= FullTierEvery
    BY FairQueueAssumption DEF OwedInv, QueueInv, TypeOK
  <2> QED
    BY <2>1, FairQueueAssumption
<1> QED
  BY <1>1, <1>2, <1>3, QueueHolds, PTL DEF Spec
=============================================================================
