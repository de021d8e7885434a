---------------------------- MODULE UnitProofs ----------------------------
(***************************************************************************)
(* Proofs about units of which run "units" checks small instances: the     *)
(* adaptive event fires in time, for every target and every rate; a slab   *)
(* is recycled empty; the filter cache never outlives the cache's lines.   *)
(***************************************************************************)
EXTENDS AdaptiveEvent, SlabAlloc, FilterCache, FiniteSetTheorems, SequenceTheorems, TLAPS

\* The most that the count can grow in a phase.
Growth == threads * maxRate
\* The count at which the event is looked at, whatever the threads do.
Reach == threads * (IF target < maxRate THEN maxRate ELSE target)

\* At the highest rate the count does not pass the reach before the event looks at it.
InReach ==
    /\ target \in Nat /\ maxRate \in Nat \ {0} /\ threads \in Nat \ {0}
    /\ cur \in Nat /\ prev \in Nat /\ due \in Nat
    /\ fired \in BOOLEAN /\ aeFailed \in BOOLEAN
    /\ ~fired => cur + due * Growth <= Reach
    /\ FiresInTime

\* Multiplication keeps the order.
LEMMA Times ==
    ASSUME NEW t \in Nat, NEW a \in Nat, NEW b \in Nat, a <= b
    PROVE  t * a \in Nat /\ t * b \in Nat /\ t * a <= t * b
<1>1. PICK d \in Nat : b = a + d
  <2> WITNESS b - a \in Nat
  <2> QED
    OBVIOUS
<1>2. t * (a + d) = t * a + t * d /\ t * a \in Nat /\ t * d \in Nat
  BY Z3
<1> QED
  BY <1>1, <1>2

\* What each of the threads covers.
LEMMA Covers ==
    ASSUME NEW q \in Nat, NEW r \in Nat, NEW t \in Nat, NEW n \in Nat, q * r <= n
    PROVE  q * (t * r) <= t * n /\ q * (t * r) \in Nat
<1>1. q * r \in Nat /\ q * (t * r) = t * (q * r)
  BY Z3
<1> QED
  BY <1>1, Times

\* A quotient's worth of phases does not exceed what is left.
LEMMA Quotient ==
    ASSUME NEW n \in Nat, NEW r \in Nat \ {0}
    PROVE  n \div r \in Nat /\ (n \div r) * r <= n
<1> DEFINE q == n \div r
<1>1. q \in Nat /\ n = r * q + (n % r) /\ n % r \in Nat
  OBVIOUS
<1>2. r * q = q * r /\ r * q \in Nat
  BY <1>1
<1> HIDE DEF q
<1>3. q * r <= n
  BY <1>1, <1>2
<1> QED
  BY <1>1, <1>3 DEF q

\* One phase less covers a phase's worth less.
LEMMA Distributes ==
    ASSUME NEW p \in Nat \ {0}, NEW r \in Nat
    PROVE  (p - 1) * r = p * r - r /\ (p - 1) * r \in Nat /\ p * r >= r
<1>1. p - 1 \in Nat
  OBVIOUS
<1> QED
  BY <1>1, Z3

\* A thread's growth is within the reach, and is the rate if there is one thread.
LEMMA GrowthInReach ==
    ASSUME target \in Nat, maxRate \in Nat \ {0}, threads \in Nat \ {0}
    PROVE  /\ Growth \in Nat /\ Reach \in Nat /\ Growth <= Reach /\ threads * target <= Reach /\ target <= Reach
           /\ threads = 1 => Growth = maxRate /\ (target >= maxRate => Reach = target)
<1> DEFINE m == IF target < maxRate THEN maxRate ELSE target
<1>1. m \in Nat /\ maxRate <= m /\ target <= m
  OBVIOUS
<1>2. /\ threads * maxRate \in Nat /\ threads * m \in Nat /\ threads * target \in Nat
      /\ threads * maxRate <= threads * m /\ threads * target <= threads * m
  BY <1>1, Times
<1>3. 1 * target \in Nat /\ 1 * target = target /\ target * 1 <= target * threads /\ target * threads = threads * target
  BY Times
<1>4. Growth = threads * maxRate /\ Reach = threads * m
  BY DEF Growth, Reach
<1>5. threads = 1 => threads * maxRate = maxRate /\ (target >= maxRate => threads * m = target)
  OBVIOUS
<1> HIDE DEF m
<1> QED
  BY <1>2, <1>3, <1>4, <1>5

\* The first period ends before the reach can be passed.
LEMMA InReachInit == UsesAssumption /\ AEInit => InReach
<1> SUFFICES ASSUME UsesAssumption, AEInit PROVE InReach
  OBVIOUS
<1>1. target \in Nat /\ maxRate \in Nat \ {0} /\ threads \in Nat \ {0}
  BY DEF UsesAssumption, AEInit
<1>2. target \div maxRate \in Nat /\ (target \div maxRate) * maxRate <= target
  BY <1>1, Quotient
<1>3. period(target) \in Nat /\ period(target) * Growth <= Reach /\ period(target) * Growth \in Nat
  <2>1. CASE target \div maxRate = 0
    BY <1>1, <2>1, GrowthInReach DEF period
  <2>2. CASE target \div maxRate # 0
    <3>1. period(target) * Growth <= threads * target /\ period(target) * Growth \in Nat
      BY <1>1, <1>2, <2>2, Covers DEF period, Growth
    <3>2. threads * target \in Nat
      BY <1>1, Times
    <3> QED
      BY <1>1, <1>2, <2>2, <3>1, <3>2, GrowthInReach DEF period
  <2> QED
    BY <2>1, <2>2
<1>4. cur = 0 /\ prev = 0 /\ due = period(target) /\ ~fired /\ fired \in BOOLEAN /\ ~aeFailed /\ aeFailed \in BOOLEAN
  BY DEF AEInit
<1>5. Reach \in Nat
  BY <1>1, GrowthInReach
<1>6. FiresInTime
  BY <1>4, <1>5 DEF FiresInTime, Reach
<1> QED
  BY <1>1, <1>3, <1>4, <1>5, <1>6 DEF InReach

\* Every step keeps it.
LEMMA InReachNext == InReach /\ [AENext]_aeVars => InReach'
<1> SUFFICES ASSUME InReach, [AENext]_aeVars PROVE InReach'
  OBVIOUS
<1>1. CASE UNCHANGED aeVars
  BY <1>1 DEF aeVars, InReach, FiresInTime, Growth, Reach
<1>2. /\ Growth \in Nat /\ Reach \in Nat /\ Growth <= Reach /\ threads * target <= Reach /\ target <= Reach
      /\ threads = 1 => Growth = maxRate /\ (target >= maxRate => Reach = target)
  BY GrowthInReach DEF InReach
<1>3. ASSUME NEW n \in 0 .. Growth, Waits(n) PROVE InReach'
  <2>1. n \in Nat /\ n <= Growth /\ due \in Nat \ {0}
    BY <1>2, <1>3 DEF Waits, InReach
  <2>2. (due - 1) * Growth = due * Growth - Growth /\ due * Growth \in Nat /\ due * Growth >= Growth
    BY <1>2, <2>1, Distributes
  <2>3. /\ target' = target /\ maxRate' = maxRate /\ threads' = threads /\ fired' = fired /\ aeFailed' = aeFailed
        /\ cur' = cur + n /\ prev' = cur /\ due' = due - 1 /\ ~fired
    BY <1>3 DEF Waits
  <2>4. Growth' = Growth /\ Reach' = Reach
    BY <2>3 DEF Growth, Reach
  <2>5. cur' + due' * Growth' <= Reach' /\ prev' <= Reach' /\ due' \in Nat /\ cur' \in Nat /\ prev' \in Nat
    BY <1>2, <2>1, <2>2, <2>3, <2>4 DEF InReach
  <2>6. FiresInTime'
    BY <2>3, <2>5 DEF InReach, FiresInTime, Reach
  <2> QED
    BY <2>3, <2>5, <2>6 DEF InReach
<1>4. ASSUME NEW n \in 0 .. Growth, callback(n) PROVE InReach'
  <2>1. /\ n \in Nat /\ n <= Growth /\ due = 0 /\ ~fired
        /\ target' = target /\ maxRate' = maxRate /\ threads' = threads /\ cur' = cur + n /\ prev' = cur
    BY <1>2, <1>4 DEF callback, InReach
  <2>2. cur <= Reach /\ cur \in Nat /\ cur' \in Nat
    BY <1>2, <2>1 DEF InReach
  <2>3. Growth' = Growth /\ Reach' = Reach
    BY <2>1 DEF Growth, Reach
  <2>4. CASE cur + n >= target
    <3>1. fired' = TRUE /\ aeFailed' = (cur' - target > maxRate) /\ due' = due
      <4>1. cur' >= target
        BY <2>1, <2>4
      <4> QED
        BY <1>4, <4>1, Zenon DEF callback
    <3>2. aeFailed' => target < maxRate \/ threads > 1
      <4>1. SUFFICES ASSUME threads = 1, target >= maxRate PROVE ~aeFailed'
        BY DEF InReach
      <4>2. Growth = maxRate /\ Reach = target
        BY <1>2, <4>1
      <4>3. cur + n <= target + maxRate
        BY <2>1, <2>2, <4>2 DEF InReach
      <4>4. ~(cur' - target > maxRate)
        BY <2>1, <2>2, <4>3 DEF InReach
      <4> QED
        BY <3>1, <4>4
    <3>3. FiresInTime'
      BY <2>1, <2>2, <2>3, <3>2 DEF FiresInTime, Reach
    <3>4. aeFailed' \in BOOLEAN /\ fired' \in BOOLEAN /\ fired'
      BY <3>1
    <3> QED
      BY <2>1, <2>2, <3>1, <3>3, <3>4 DEF InReach
  <2>5. CASE cur + n < target
    <3> DEFINE left == target - (cur + n)
               q == left \div maxRate
    <3>1. left \in Nat /\ left + cur + n = target
      BY <2>1, <2>2, <2>5 DEF InReach
    <3>2. q \in Nat /\ q * maxRate <= left
      BY <3>1, Quotient DEF InReach
    <3>3. due' = period(left) - 1 /\ fired' = fired /\ aeFailed' = aeFailed
      <4>1. ~(cur' >= target)
        BY <2>1, <2>2, <2>5 DEF InReach
      <4> QED
        BY <1>4, <2>1, <4>1 DEF callback
    <3>4. period(left) = IF q = 0 THEN 1 ELSE q
      BY DEF period
    <3>5. FiresInTime'
      BY <2>1, <2>2, <2>3, <3>3 DEF InReach, FiresInTime, Reach
    <3>6. q * Growth <= threads * left /\ q * Growth \in Nat
      <4> HIDE DEF q, left
      <4> QED
        BY <3>1, <3>2, Covers DEF InReach, Growth
    <3>7. threads * left + (cur + n) <= threads * target
      <4>1. threads * (left + (cur + n)) = threads * left + threads * (cur + n)
        BY <2>1, <2>2, <3>1, Z3 DEF InReach
      <4>2. (cur + n) * 1 <= (cur + n) * threads /\ (cur + n) * threads = threads * (cur + n) /\ (cur + n) * 1 = cur + n
        BY <2>1, <2>2, Times DEF InReach
      <4>3. threads * left \in Nat /\ threads * (cur + n) \in Nat /\ left + (cur + n) = target
        BY <2>1, <2>2, <3>1, Times DEF InReach
      <4> HIDE DEF left
      <4> QED
        BY <2>1, <2>2, <4>1, <4>2, <4>3 DEF InReach
    <3>8. threads * left \in Nat /\ threads * target \in Nat
      BY <3>1, Times DEF InReach
    <3> HIDE DEF q, left
    <3>9. CASE q = 0
      <4>1. due' = 0 /\ due' * Growth' = 0
        BY <1>2, <2>3, <3>3, <3>4, <3>9
      <4>2. cur' + due' * Growth' <= Reach'
        BY <1>2, <2>1, <2>2, <2>3, <2>5, <4>1 DEF InReach
      <4> QED
        BY <2>1, <2>2, <3>3, <3>5, <4>1, <4>2 DEF InReach
    <3>10. CASE q # 0
      <4>1. due' = q - 1 /\ due' \in Nat
        BY <3>2, <3>3, <3>4, <3>10
      <4>2. (q - 1) * Growth = q * Growth - Growth /\ (q - 1) * Growth \in Nat
        BY <1>2, <3>2, <3>10, Distributes
      <4>3. due' * Growth' \in Nat /\ due' * Growth' <= threads * left
        BY <1>2, <2>3, <3>6, <3>8, <4>1, <4>2
      <4>4. cur' + due' * Growth' <= Reach'
        BY <1>2, <2>1, <2>2, <2>3, <3>7, <3>8, <4>3
      <4> QED
        BY <2>1, <2>2, <3>3, <3>5, <4>1, <4>4 DEF InReach
    <3> QED
      BY <3>9, <3>10
  <2> QED
    BY <2>2, <2>1, <2>4, <2>5 DEF InReach
<1> QED
  BY <1>1, <1>3, <1>4 DEF AENext, Growth

\* With one thread and a target of at least a phase, the event fires at the end of the first
\* phase that exceeds the target, within one phase's worth of it, whatever the instruction
\* counts are; otherwise it is late by a bounded factor.
THEOREM AlwaysInTime == UsesAssumption /\ AESpec => []FiresInTime
<1>1. InReach => FiresInTime
  BY DEF InReach
<1> QED
  BY <1>1, InReachInit, InReachNext, PTL DEF AESpec
-----------------------------------------------------------------------------
(* The slab allocator. *)

\* The slabs of the free list, and those in use.
FreeSlabs == {freeList[i] : i \in 1 .. Len(freeList)}
Live == Slabs \ (fresh \cup FreeSlabs)

\* The values of the variables.
SlabTypeOK ==
    /\ fresh \in SUBSET Slabs /\ curSlab \in Slabs /\ freeList \in Seq(Slabs)
    /\ liveElems \in [Slabs -> Nat] /\ usedBytes \in [Slabs -> Nat] /\ plain \in [Slabs -> Nat]
    /\ liveSlabs \in Nat /\ phase \in {"bound", "weave"}
    /\ freeing \in [SimThreads -> SUBSET Slabs]

\* Without crossings an event is one element.
ElementsExact ==
    /\ crossing = [s \in Slabs |-> 0] /\ half = [s \in Slabs |-> 0]
    /\ \A s \in Slabs : liveElems[s] = plain[s] /\ 2 * plain[s] <= usedBytes[s]

\* A slab is in use, free or fresh, never in the free list twice, and empty unless in use.
ListsDisjoint ==
    /\ \A i, j \in 1 .. Len(freeList) : freeList[i] = freeList[j] => i = j
    /\ curSlab \in Live
    /\ fresh \cap FreeSlabs = {}
    /\ \A s \in fresh \cup FreeSlabs : plain[s] = 0

\* A slab that is being freed is in use and empty, and one thread frees it.
OneFrees ==
    /\ \A t \in SimThreads : freeing[t] # {} => phase = "weave"
    /\ \A t \in SimThreads : \A s \in freeing[t] : s \in Live /\ plain[s] = 0
    /\ \A t, u \in SimThreads : \A s \in freeing[t] : s \in freeing[u] => t = u

\* liveSlabs counts the slabs in use.
LiveCounted == IsFiniteSet(Live) /\ liveSlabs = Cardinality(Live)

SlabInv == SlabTypeOK /\ ElementsExact /\ ListsDisjoint /\ OneFrees /\ LiveCounted /\ ~slabFailed

\* Taking the last slab of the free list leaves the others, each once.
LEMMA LastLeaves ==
    ASSUME SlabTypeOK, ListsDisjoint, freeList # <<>>
    PROVE  /\ Last(freeList) \in FreeSlabs /\ Front(freeList) \in Seq(Slabs)
           /\ {Front(freeList)[i] : i \in 1 .. Len(Front(freeList))} = FreeSlabs \ {Last(freeList)}
           /\ \A i, j \in 1 .. Len(Front(freeList)) : Front(freeList)[i] = Front(freeList)[j] => i = j
<1> DEFINE n == Len(freeList)
<1>1. n \in Nat \ {0} /\ freeList \in Seq(Slabs)
  BY DEF SlabTypeOK
<1>2. Front(freeList) = SubSeq(freeList, 1, n - 1) /\ Last(freeList) = freeList[n]
  BY DEF Front, Last
<1>3. /\ SubSeq(freeList, 1, n - 1) \in Seq(Slabs) /\ Len(SubSeq(freeList, 1, n - 1)) = n - 1
      /\ \A i \in 1 .. n - 1 : SubSeq(freeList, 1, n - 1)[i] = freeList[i]
  <2>1. n - 1 \in Int /\ 1 \in Int /\ \A i \in 1 .. n - 1 : freeList[i] \in Slabs /\ 1 + i - 1 = i
    BY <1>1
  <2>2. (n - 1) - 1 + 1 = n - 1 /\ (1 <= n - 1 => Len(SubSeq(freeList, 1, n - 1)) = n - 1)
    BY <1>1, <2>1, SubSeqProperties
  <2> QED BY <1>1, <2>1, <2>2, SubSeqProperties
<1> HIDE DEF n
<1>4. /\ Front(freeList) \in Seq(Slabs) /\ Len(Front(freeList)) = n - 1
      /\ \A i \in 1 .. n - 1 : Front(freeList)[i] = freeList[i]
  BY <1>2, <1>3
<1>5. \A i, j \in 1 .. n : freeList[i] = freeList[j] => i = j
  BY DEF ListsDisjoint, n
<1>6. \A x : x \in FreeSlabs <=> \E i \in 1 .. n : x = freeList[i]
  BY DEF FreeSlabs, n
<1>7. \A i \in 1 .. n : i \in 1 .. n - 1 \/ i = n
  BY <1>1
<1>8. \A i \in 1 .. n - 1 : i \in 1 .. n /\ i # n
  BY <1>1
<1>9. {Front(freeList)[i] : i \in 1 .. Len(Front(freeList))} = FreeSlabs \ {Last(freeList)}
  BY <1>1, <1>2, <1>4, <1>5, <1>6, <1>7, <1>8
<1>10. n \in 1 .. n
  BY <1>1
<1> QED BY <1>2, <1>4, <1>5, <1>6, <1>8, <1>9, <1>10

\* Appending a slab that is not free makes it so, once.
LEMMA Appended ==
    ASSUME SlabTypeOK, ListsDisjoint, NEW s \in Slabs, s \notin FreeSlabs
    PROVE  /\ Append(freeList, s) \in Seq(Slabs)
           /\ {Append(freeList, s)[i] : i \in 1 .. Len(Append(freeList, s))} = FreeSlabs \cup {s}
           /\ \A i, j \in 1 .. Len(Append(freeList, s)) : Append(freeList, s)[i] = Append(freeList, s)[j] => i = j
<1> DEFINE n == Len(freeList)
<1>1. n \in Nat /\ freeList \in Seq(Slabs)
  BY DEF SlabTypeOK
<1>2. /\ Append(freeList, s) \in Seq(Slabs) /\ Len(Append(freeList, s)) = n + 1
      /\ \A i \in 1 .. n : Append(freeList, s)[i] = freeList[i]
      /\ Append(freeList, s)[n + 1] = s
  BY <1>1
<1> HIDE DEF n
<1>5. \A i, j \in 1 .. n : freeList[i] = freeList[j] => i = j
  BY DEF ListsDisjoint, n
<1>6. \A x : x \in FreeSlabs <=> \E i \in 1 .. n : x = freeList[i]
  BY DEF FreeSlabs, n
<1>7. \A i \in 1 .. n + 1 : i \in 1 .. n \/ i = n + 1
  BY <1>1
<1>8. n + 1 \in 1 .. n + 1 /\ \A i \in 1 .. n : i \in 1 .. n + 1
  BY <1>1
<1>9. {Append(freeList, s)[i] : i \in 1 .. Len(Append(freeList, s))} = FreeSlabs \cup {s}
  BY <1>2, <1>6, <1>7, <1>8
<1>10. \A i, j \in 1 .. n + 1 : Append(freeList, s)[i] = Append(freeList, s)[j] => i = j
  BY <1>2, <1>5, <1>6, <1>7
<1> QED BY <1>2, <1>9, <1>10

\* The initial state satisfies the invariant.
LEMMA SlabInitially == SlabInit /\ ~Crossings => SlabInv
<1> SUFFICES ASSUME SlabInit PROVE SlabInv
  OBVIOUS
<1>1. curSlab \in Slabs
  BY SlabsAssumption DEF SlabInit
<1>2. Len(freeList) = 0 /\ FreeSlabs = {} /\ freeList \in Seq(Slabs)
  BY DEF SlabInit, FreeSlabs
<1>3. Live = {curSlab}
  BY <1>1, <1>2 DEF SlabInit, Live
<1>4. LiveCounted
  BY <1>3, FS_Singleton DEF LiveCounted, SlabInit
<1>5. SlabTypeOK /\ ElementsExact /\ ListsDisjoint /\ OneFrees
  BY <1>1, <1>2, <1>3 DEF SlabInit, SlabTypeOK, ElementsExact, ListsDisjoint, OneFrees
<1> QED BY <1>4, <1>5 DEF SlabInv, SlabInit

\* An element is placed in the slab the core now uses.
LEMMA PlaceKeeps ==
    ASSUME SlabInv, ~Crossings, phase = "bound", NEW s \in Slabs, NEW used \in Nat, NEW n \in Sizes,
           Place(s, used, n), 2 * plain[s] <= used,
           curSlab' = s, freeList' \in Seq(Slabs), fresh' \in SUBSET Slabs,
           UNCHANGED <<phase, freeing, slabFailed>>,
           liveSlabs' \in Nat, LiveCounted', s \in Live', fresh' \cap FreeSlabs' = {},
           fresh' \cup FreeSlabs' \subseteq (fresh \cup FreeSlabs),
           \A i, j \in 1 .. Len(freeList') : freeList'[i] = freeList'[j] => i = j
    PROVE  SlabInv'
<1>n. n \in Nat /\ n > 1
  BY SlabsAssumption
<1>t. SlabTypeOK /\ ElementsExact /\ ListsDisjoint /\ OneFrees
  BY DEF SlabInv
<1>f. \A t \in SimThreads : freeing[t] = {}
  BY <1>t DEF OneFrees
<1>1. plain' = [plain EXCEPT ![s] = @ + 1] /\ UNCHANGED <<crossing, half>>
  BY DEF Place
<1>2. liveElems' = [liveElems EXCEPT ![s] = @ + 1]
  BY DEF Place
<1>3. usedBytes' = [usedBytes EXCEPT ![curSlab] = usedBytes[curSlab] + n, ![s] = used + n]
  BY DEF Place
<1>4. usedBytes' \in [Slabs -> Nat] /\ usedBytes'[s] = used + n
      /\ \A r \in Slabs : r # s => usedBytes'[r] >= usedBytes[r]
  <2>1. \A r \in Slabs : usedBytes'[r] = IF r = s THEN used + n
                                   ELSE IF r = curSlab THEN usedBytes[curSlab] + n ELSE usedBytes[r]
    BY <1>3, <1>t DEF SlabTypeOK
  <2>2. \A r \in Slabs : usedBytes[r] \in Nat
    BY <1>t DEF SlabTypeOK
  <2>3. \A r \in Slabs : usedBytes'[r] \in Nat
    <3>1. used + n \in Nat /\ usedBytes[curSlab] + n \in Nat
      BY <2>2, <1>n, <1>t DEF SlabTypeOK
    <3> QED BY <2>1, <2>2, <3>1
  <2>4. usedBytes' \in [Slabs -> Nat]
    BY <1>3, <1>t, <2>3 DEF SlabTypeOK
  <2>5. \A r \in Slabs : r # s => usedBytes'[r] >= usedBytes[r]
    BY <2>1, <2>2, <1>n
  <2> QED BY <2>1, <2>4, <2>5
<1>5. SlabTypeOK'
  <2>1. liveElems' \in [Slabs -> Nat] /\ plain' \in [Slabs -> Nat]
    <3>1. liveElems \in [Slabs -> Nat] /\ plain \in [Slabs -> Nat]
      BY <1>t DEF SlabTypeOK
    <3> QED BY <1>1, <1>2, <3>1
  <2>2. phase' \in {"bound", "weave"} /\ freeing' \in [SimThreads -> SUBSET Slabs]
    BY <1>t DEF SlabTypeOK
  <2> QED BY <1>4, <2>1, <2>2 DEF SlabTypeOK
<1>6. ElementsExact'
  <2>1. ASSUME NEW r \in Slabs PROVE liveElems'[r] = plain'[r] /\ 2 * plain'[r] <= usedBytes'[r]
    <3>1. CASE r = s
      BY <1>1, <1>2, <1>4, <1>t, <1>n, <3>1 DEF SlabTypeOK, ElementsExact
    <3>2. CASE r # s
      BY <1>1, <1>2, <1>4, <1>t, <3>2 DEF SlabTypeOK, ElementsExact
    <3> QED BY <3>1, <3>2
  <2> QED BY <1>1, <2>1, <1>t DEF ElementsExact
<1>7. ListsDisjoint'
  <2>1. \A r \in fresh' \cup FreeSlabs' : r # s /\ plain[r] = 0 /\ r \in Slabs
    <3>1. \A r \in fresh \cup FreeSlabs : r \in Slabs
      <4>1. fresh \in SUBSET Slabs /\ freeList \in Seq(Slabs)
        BY <1>t DEF SlabTypeOK
      <4>2. \A i \in 1 .. Len(freeList) : freeList[i] \in Slabs
        BY <4>1
      <4> QED BY <4>1, <4>2 DEF FreeSlabs
    <3>2. s \notin fresh' \cup FreeSlabs'
      BY DEF Live
    <3> QED BY <1>t, <3>1, <3>2 DEF ListsDisjoint
  <2> QED BY <1>1, <1>t, <2>1 DEF ListsDisjoint, SlabTypeOK
<1>8. OneFrees'
  BY <1>f DEF OneFrees
<1> QED BY <1>5, <1>6, <1>7, <1>8 DEF SlabInv

\* alloc(): in the current slab, in the last one of the free list or in a fresh one.
LEMMA AllocKeeps ==
    ASSUME SlabInv, ~Crossings, NEW n \in Sizes, alloc(n)
    PROVE  SlabInv'
<1>t. SlabTypeOK /\ ElementsExact /\ ListsDisjoint /\ LiveCounted
  BY DEF SlabInv
<1>b. phase = "bound" /\ UNCHANGED <<phase, freeing, slabFailed>>
  BY DEF alloc
<1>1. ASSUME Place(curSlab, usedBytes[curSlab], n), UNCHANGED <<fresh, curSlab, freeList, liveSlabs>>
      PROVE  SlabInv'
  <2>1. UNCHANGED <<FreeSlabs, Live>>
    BY <1>1 DEF FreeSlabs, Live
  <2>2. LiveCounted'
    BY <1>1, <1>t, <2>1 DEF LiveCounted
  <2>3. curSlab \in Slabs /\ usedBytes[curSlab] \in Nat /\ 2 * plain[curSlab] <= usedBytes[curSlab]
    BY <1>t DEF SlabTypeOK, ElementsExact
  <2>4. curSlab \in Live' /\ fresh' \cap FreeSlabs' = {} /\ fresh' \cup FreeSlabs' \subseteq (fresh \cup FreeSlabs)
    BY <1>1, <1>t, <2>1 DEF ListsDisjoint
  <2>5. \A i, j \in 1 .. Len(freeList') : freeList'[i] = freeList'[j] => i = j
    BY <1>1, <1>t DEF ListsDisjoint
  <2>6. freeList' \in Seq(Slabs) /\ fresh' \in SUBSET Slabs /\ liveSlabs' \in Nat
    BY <1>1, <1>t DEF SlabTypeOK
  <2> QED BY <1>1, <1>b, <2>2, <2>3, <2>4, <2>5, <2>6, PlaceKeeps
<1>2. ASSUME freeList # <<>>, curSlab' = Last(freeList), freeList' = Front(freeList),
             Place(Last(freeList), usedBytes[Last(freeList)], n), liveSlabs' = liveSlabs + 1, UNCHANGED fresh
      PROVE  SlabInv'
  <2> DEFINE s == Last(freeList)
  <2>1. /\ s \in FreeSlabs /\ freeList' \in Seq(Slabs) /\ FreeSlabs' = FreeSlabs \ {s}
        /\ \A i, j \in 1 .. Len(freeList') : freeList'[i] = freeList'[j] => i = j
    BY <1>2, <1>t, LastLeaves DEF FreeSlabs
  <2>2. s \in Slabs
    BY <1>t, <2>1 DEF FreeSlabs, SlabTypeOK
  <2>p. Place(s, usedBytes[s], n) /\ curSlab' = s
    BY <1>2
  <2> HIDE DEF s
  <2>3. s \notin Live /\ s \notin fresh /\ Live' = Live \cup {s}
    BY <1>2, <1>t, <2>1, <2>2 DEF Live, ListsDisjoint
  <2>4. LiveCounted'
    BY <1>2, <1>t, <2>3, FS_AddElement DEF LiveCounted
  <2>5. usedBytes[s] \in Nat /\ 2 * plain[s] <= usedBytes[s]
    BY <1>t, <2>2 DEF SlabTypeOK, ElementsExact
  <2>6. s \in Live' /\ fresh' \cap FreeSlabs' = {} /\ fresh' \cup FreeSlabs' \subseteq (fresh \cup FreeSlabs)
    BY <1>2, <1>t, <2>1, <2>3 DEF ListsDisjoint
  <2>7. fresh' \in SUBSET Slabs /\ liveSlabs' \in Nat
    BY <1>2, <1>t DEF SlabTypeOK
  <2> QED BY <1>b, <2>p, <2>1, <2>2, <2>4, <2>5, <2>6, <2>7, PlaceKeeps
<1>3. ASSUME freeList = <<>>, NEW s \in fresh, curSlab' = s, fresh' = fresh \ {s}, Place(s, 0, n),
             liveSlabs' = liveSlabs + 1, UNCHANGED freeList
      PROVE  SlabInv'
  <2>1. s \in Slabs /\ FreeSlabs' = FreeSlabs /\ s \notin FreeSlabs /\ plain[s] = 0
    BY <1>3, <1>t DEF SlabTypeOK, FreeSlabs, ListsDisjoint
  <2>3. s \notin Live /\ Live' = Live \cup {s}
    BY <1>3, <2>1 DEF Live
  <2>4. LiveCounted'
    BY <1>3, <1>t, <2>3, FS_AddElement DEF LiveCounted
  <2>5. 0 \in Nat /\ 2 * plain[s] <= 0
    BY <2>1
  <2>6. s \in Live' /\ fresh' \cap FreeSlabs' = {} /\ fresh' \cup FreeSlabs' \subseteq (fresh \cup FreeSlabs)
    BY <1>3, <1>t, <2>1, <2>3 DEF ListsDisjoint
  <2>7. fresh' \in SUBSET Slabs /\ liveSlabs' \in Nat /\ freeList' \in Seq(Slabs)
    BY <1>3, <1>t DEF SlabTypeOK
  <2>8. \A i, j \in 1 .. Len(freeList') : freeList'[i] = freeList'[j] => i = j
    BY <1>3, <1>t DEF ListsDisjoint
  <2> QED BY <1>b, <1>3, <2>1, <2>4, <2>5, <2>6, <2>7, <2>8, PlaceKeeps
<1> QED BY <1>1, <1>2, <1>3 DEF alloc

\* The thread that frees the last element of a slab is the only one to free the slab.
LEMMA FreeElemKeeps ==
    ASSUME SlabInv, NEW t \in SimThreads, NEW s \in Slabs, freeElem(t, s)
    PROVE  SlabInv'
<1>t. SlabTypeOK /\ ElementsExact /\ ListsDisjoint /\ OneFrees /\ LiveCounted
  BY DEF SlabInv
<1>1. plain[s] > 0 /\ plain' = [plain EXCEPT ![s] = @ - 1] /\ UNCHANGED <<crossing, half>>
  BY <1>t DEF freeElem, ElementsExact
<1>2. plain[s] \in Nat /\ liveElems[s] = plain[s] /\ liveElems[s] < usedBytes[s] /\ usedBytes[s] \in Nat
  BY <1>1, <1>t DEF SlabTypeOK, ElementsExact
<1>3. /\ ~slabFailed' /\ liveElems' = [liveElems EXCEPT ![s] = @ - 1]
      /\ freeing' = [freeing EXCEPT ![t] = IF plain[s] = 1 THEN {s} ELSE {}]
      /\ phase = "weave" /\ UNCHANGED <<fresh, usedBytes, curSlab, freeList, liveSlabs, phase>>
  BY <1>1, <1>2 DEF freeElem, FetchSub
<1>4. UNCHANGED <<FreeSlabs, Live>>
  BY <1>3 DEF FreeSlabs, Live
<1>5. SlabTypeOK'
  BY <1>1, <1>2, <1>3, <1>t DEF SlabTypeOK
<1>6. ElementsExact'
  BY <1>1, <1>2, <1>3, <1>t DEF SlabTypeOK, ElementsExact
<1>7. s \in Live /\ \A u \in SimThreads : s \notin freeing[u]
  BY <1>1, <1>t DEF Live, ListsDisjoint, OneFrees
<1>8. ListsDisjoint'
  <2>1. \A r \in fresh \cup FreeSlabs : r \in Slabs /\ r # s
    BY <1>7, <1>t DEF Live, SlabTypeOK, FreeSlabs
  <2> QED BY <1>1, <1>3, <1>4, <1>t, <2>1 DEF ListsDisjoint, SlabTypeOK
<1>9. OneFrees'
  <2>1. ASSUME NEW u \in SimThreads, NEW r \in freeing'[u]
        PROVE  r \in Live' /\ plain'[r] = 0 /\ (r = s => u = t) /\ (r # s => r \in freeing[u])
    BY <1>1, <1>2, <1>3, <1>4, <1>7, <1>t, <2>1 DEF SlabTypeOK, OneFrees, Live
  <2>2. phase' = "weave"
    BY <1>3
  <2> QED BY <1>t, <2>1, <2>2 DEF OneFrees
<1>10. LiveCounted'
  BY <1>3, <1>4, <1>t DEF LiveCounted
<1> QED BY <1>3, <1>5, <1>6, <1>8, <1>9, <1>10 DEF SlabInv

\* A slab that is freed joins the free list once, and never as the last one in use.
LEMMA FreeSlabKeeps ==
    ASSUME SlabInv, NEW t \in SimThreads, freeSlab(t)
    PROVE  SlabInv'
<1>t. SlabTypeOK /\ ElementsExact /\ ListsDisjoint /\ OneFrees /\ LiveCounted
  BY DEF SlabInv
<1>1. PICK s \in freeing[t] :
        /\ liveElems' = [liveElems EXCEPT ![s] = 0] /\ usedBytes' = [usedBytes EXCEPT ![s] = 0]
        /\ IF s # curSlab
           THEN freeList' = Append(freeList, s) /\ liveSlabs' = liveSlabs - 1
           ELSE UNCHANGED <<freeList, liveSlabs>>
        /\ slabFailed' = (liveSlabs' = 0)
        /\ freeing' = [freeing EXCEPT ![t] = {}]
        /\ UNCHANGED <<fresh, curSlab, phase, events>>
  BY DEF freeSlab
<1>2. s \in Slabs /\ s \in Live /\ plain[s] = 0 /\ s \notin FreeSlabs /\ s \notin fresh
  BY <1>1, <1>t DEF OneFrees, SlabTypeOK, Live
<1>3. UNCHANGED <<plain, crossing, half, fresh, curSlab, phase>>
  BY <1>1 DEF events
<1>4. ElementsExact'
  BY <1>1, <1>2, <1>3, <1>t DEF ElementsExact, SlabTypeOK
<1>5. CASE s = curSlab
  <2>1. UNCHANGED <<freeList, liveSlabs, fresh, FreeSlabs, Live>>
    BY <1>1, <1>3, <1>5 DEF FreeSlabs, Live
  <2>2. LiveCounted' /\ ListsDisjoint'
    BY <1>3, <1>t, <2>1 DEF LiveCounted, ListsDisjoint
  <2>3. SlabTypeOK'
    BY <1>1, <1>3, <1>t, <2>1 DEF SlabTypeOK
  <2>4. OneFrees'
    BY <1>1, <1>3, <1>t, <2>1 DEF OneFrees, SlabTypeOK
  <2>5. liveSlabs # 0
    BY <1>2, <1>t, FS_EmptySet DEF LiveCounted
  <2>6. ~slabFailed'
    BY <1>1, <2>1, <2>5
  <2> QED BY <1>4, <2>2, <2>3, <2>4, <2>6 DEF SlabInv
<1>6. CASE s # curSlab
  <2>0. freeList' = Append(freeList, s) /\ liveSlabs' = liveSlabs - 1
    BY <1>1, <1>6
  <2>1. /\ freeList' \in Seq(Slabs) /\ FreeSlabs' = FreeSlabs \cup {s}
        /\ \A i, j \in 1 .. Len(freeList') : freeList'[i] = freeList'[j] => i = j
    BY <1>2, <1>t, <2>0, Appended DEF FreeSlabs
  <2>2. Live' = Live \ {s} /\ s \in Live
    BY <1>2, <1>3, <2>1 DEF Live
  <2>3. LiveCounted'
    BY <1>t, <2>0, <2>2, FS_RemoveElement DEF LiveCounted
  <2>4. curSlab' \in Live'
    BY <1>3, <1>6, <1>t, <2>2 DEF ListsDisjoint
  <2>5. ListsDisjoint'
    BY <1>2, <1>3, <1>t, <2>1, <2>4 DEF ListsDisjoint
  <2>6. liveSlabs' \in Nat /\ liveSlabs' # 0
    BY <2>3, <2>4, FS_EmptySet, FS_CardinalityType DEF LiveCounted
  <2>7. SlabTypeOK'
    BY <1>1, <1>3, <1>t, <2>1, <2>6 DEF SlabTypeOK
  <2>8. OneFrees'
    <3>1. ASSUME NEW u \in SimThreads, NEW r \in freeing'[u] PROVE u # t /\ r \in freeing[u]
      BY <1>1, <1>t, <3>1 DEF SlabTypeOK
    <3>2. ASSUME NEW u \in SimThreads, NEW r \in freeing'[u] PROVE r # s /\ r \in Live' /\ plain'[r] = 0
      BY <1>1, <1>3, <1>t, <2>2, <3>1, <3>2 DEF OneFrees
    <3> QED BY <1>3, <1>t, <3>1, <3>2 DEF OneFrees
  <2>9. ~slabFailed'
    BY <1>1, <2>6
  <2> QED BY <1>4, <2>3, <2>5, <2>7, <2>8, <2>9 DEF SlabInv
<1> QED BY <1>5, <1>6

\* Every step keeps the invariant.
LEMMA SlabStep == ~Crossings /\ SlabInv /\ [SlabNext]_slabVars => SlabInv'
<1> SUFFICES ASSUME ~Crossings, SlabInv, [SlabNext]_slabVars PROVE SlabInv'
  OBVIOUS
<1>1. CASE Switch
  <2>1. UNCHANGED <<fresh, liveElems, usedBytes, curSlab, freeList, liveSlabs, freeing, plain, crossing, half, slabFailed>>
    BY <1>1 DEF Switch, events
  <2>2. UNCHANGED <<FreeSlabs, Live>>
    BY <2>1 DEF FreeSlabs, Live
  <2>3. \A t \in SimThreads : freeing[t] = {}
    BY <1>1 DEF Switch
  <2>4. phase' \in {"bound", "weave"}
    BY <1>1 DEF Switch
  <2> QED BY <2>1, <2>2, <2>3, <2>4 DEF SlabInv, SlabTypeOK, ElementsExact, ListsDisjoint, OneFrees, LiveCounted
<1>2. CASE UNCHANGED slabVars
  <2>1. UNCHANGED <<FreeSlabs, Live>>
    BY <1>2 DEF FreeSlabs, Live, slabVars
  <2> QED BY <1>2, <2>1 DEF slabVars, SlabInv, SlabTypeOK, ElementsExact, ListsDisjoint, OneFrees, LiveCounted
<1> QED BY <1>1, <1>2, AllocKeeps, FreeElemKeeps, FreeSlabKeeps DEF SlabNext

\* Without crossing events no slab is recycled with an event in it, and the allocator's assertions
\* hold, for any number of slabs and threads and any sizes.
THEOREM RecycledAlwaysEmpty == ~Crossings /\ SlabSpec => [](RecycledAreEmpty /\ ~slabFailed)
<1> SUFFICES ASSUME ~Crossings PROVE SlabSpec => [](RecycledAreEmpty /\ ~slabFailed)
  OBVIOUS
<1>1. SlabInv => RecycledAreEmpty /\ ~slabFailed
  <2> SUFFICES ASSUME SlabInv PROVE RecycledAreEmpty
    BY DEF SlabInv
  <2>1. ASSUME NEW s \in Slabs, plain[s] + crossing[s] + half[s] > 0 PROVE s \notin Range(freeList) /\ \A t \in SimThreads : s \notin freeing[t]
    <3>1. plain[s] # 0
      BY <2>1 DEF SlabInv, ElementsExact, SlabTypeOK
    <3>2. Range(freeList) = FreeSlabs
      BY DEF SlabInv, SlabTypeOK, FreeSlabs, Range
    <3> QED BY <3>1, <3>2 DEF SlabInv, ListsDisjoint, OneFrees
  <2> SUFFICES ASSUME NEW s \in Slabs, plain[s] + crossing[s] + half[s] > 0
               PROVE  s \notin Range(freeList) \cup UNION {freeing[t] : t \in SimThreads}
    BY DEF RecycledAreEmpty
  <2>2. s \notin Range(freeList) /\ \A t \in SimThreads : s \notin freeing[t]
    BY <2>1
  <2>3. s \notin UNION {freeing[t] : t \in SimThreads}
    BY <2>2
  <2> QED BY <2>2, <2>3
<1>2. SlabInit => SlabInv
  BY SlabInitially
<1>3. SlabInv /\ [SlabNext]_slabVars => SlabInv'
  BY SlabStep
<1> QED BY <1>1, <1>2, <1>3, PTL DEF SlabSpec

-----------------------------------------------------------------------------
(* The filter cache. *)

\* With two processes an invalidation that another one causes may miss an entry.
OneProcess == \A p, q \in Procs : p = q

\* The values of the variables.
FilterTypeOK ==
    /\ st \in [PLines -> {"I", "S", "E", "M"}] /\ proc \in Procs
    /\ rdAddr \in [Sets -> VLines \cup {None}] /\ wrAddr \in [Sets -> VLines \cup {None}]
    /\ isLoad \in BOOLEAN /\ (fpc # "idle" => addr \in VLines)
    /\ fpc \in {"idle", "access", "bcc", "evict", "fetch", "relock", "fill"}
    /\ invpc \in {"idle", "bcc", "filter"} /\ (invpc # "idle" => inv \in Requests)

\* Who holds the filter's lock, and who the cache's.
LocksHeld ==
    /\ filterLock = "core" <=> fpc \in {"access", "fill"}
    /\ bcc = "core" <=> fpc = "relock"
    /\ bcc = "inv" <=> invpc = "filter"

\* The entries are of lines of their set, and a store is allowed to the line that loads are.
EntriesPlaced ==
    \A i \in Sets : /\ rdAddr[i] # None => SetOf[rdAddr[i]] = i
                    /\ wrAddr[i] \in {None, rdAddr[i]}

\* They are in the cache, except in the set a miss is about to overwrite.
Replaced(i) == fpc \in {"fetch", "relock", "fill"} /\ i = SetOf[addr]
EntriesBacked ==
    \A i \in Sets : ~Replaced(i) => /\ rdAddr[i] # None => st[<<proc, rdAddr[i]>>] # "I"
                                    /\ wrAddr[i] # None => st[<<proc, wrAddr[i]>>] = "M"

\* From the lookup until the filter is filled the cache keeps the line.
LineKept == fpc \in {"relock", "fill"} => st[Line] # "I" /\ (isLoad \/ st[Line] = "M")

FilterInv == FilterTypeOK /\ LocksHeld /\ EntriesPlaced /\ EntriesBacked /\ LineKept

\* The initial state satisfies the invariant.
LEMMA FilterInitially == FilterInit => FilterInv
  BY FilterAssumption DEF FilterInit, FilterInv, FilterTypeOK, LocksHeld, EntriesPlaced, EntriesBacked, LineKept, PLines

\* Every step keeps it.  The filter of a set may name a line that is no longer in the cache only
\* from the eviction to the fill that overwrites both entries of the set.
LEMMA FilterStep == OneProcess /\ FilterInv /\ [FilterNext]_filterVars => FilterInv'
<1> SUFFICES ASSUME OneProcess, FilterInv, [FilterNext]_filterVars PROVE FilterInv'
  OBVIOUS
<1>a. SetOf \in [VLines -> Sets] /\ None \notin VLines
  BY FilterAssumption
<1>t. FilterTypeOK /\ LocksHeld /\ EntriesPlaced /\ EntriesBacked /\ LineKept
  BY DEF FilterInv
<1> USE DEF FilterInv, filter, coreVars, invalidator
<1>1. CASE Replace
  BY <1>1, <1>t DEF Replace, FilterTypeOK, LocksHeld, EntriesPlaced, EntriesBacked, LineKept, Replaced
<1>2. CASE StartAccess
  BY <1>2, <1>t DEF StartAccess, FilterTypeOK, LocksHeld, EntriesPlaced, EntriesBacked, LineKept, Replaced
<1>3. CASE Lookup
  <2>1. addr \in VLines /\ Line \in PLines /\ st[Line] \in {"I", "S", "E", "M"}
    BY <1>3, <1>t DEF Lookup, FilterTypeOK, PLines, Line
  <2>2. CASE st[Line] # "I" /\ (isLoad \/ Exclusive(st[Line]))
    <3>1. st' = IF isLoad THEN st ELSE [st EXCEPT ![Line] = "M"]
      BY <1>3, <2>2 DEF Lookup
    <3>2. fpc' = "relock" /\ bcc' = "core" /\ UNCHANGED <<filter, filterLock, proc, addr, isLoad, invalidator>>
      BY <1>3, <2>2 DEF Lookup
    <3>3. \A l \in PLines : (st[l] # "I" => st'[l] # "I") /\ (st[l] = "M" => st'[l] = "M")
      BY <3>1, <2>1, <1>t DEF FilterTypeOK
    <3>4. FilterTypeOK' /\ EntriesPlaced'
      BY <1>t, <2>1, <3>1, <3>2 DEF FilterTypeOK, EntriesPlaced
    <3>5. LineKept'
      BY <1>t, <2>1, <2>2, <3>1, <3>2 DEF FilterTypeOK, LineKept, Line
    <3>6. LocksHeld'
      BY <1>3, <1>t, <3>2 DEF LocksHeld, Lookup
    <3>7. EntriesBacked'
      <4>1. fpc = "bcc"
        BY <1>3 DEF Lookup
      <4>2. ASSUME NEW i \in Sets
            PROVE  /\ rdAddr[i] # None => <<proc, rdAddr[i]>> \in PLines /\ st[<<proc, rdAddr[i]>>] # "I"
                   /\ wrAddr[i] # None => <<proc, wrAddr[i]>> \in PLines /\ st[<<proc, wrAddr[i]>>] = "M"
        BY <1>t, <4>1 DEF FilterTypeOK, EntriesBacked, Replaced, PLines
      <4> QED BY <3>2, <3>3, <4>2 DEF EntriesBacked
    <3> QED BY <3>4, <3>5, <3>6, <3>7
  <2>3. CASE ~(st[Line] # "I" /\ (isLoad \/ Exclusive(st[Line])))
    <3>1. fpc' \in {"evict", "fetch"} /\ UNCHANGED <<st, bcc, filter, filterLock, proc, addr, isLoad, invalidator>>
      BY <1>3, <2>3 DEF Lookup
    <3>2. fpc = "bcc"
      BY <1>3 DEF Lookup
    <3> QED BY <1>t, <3>1, <3>2 DEF FilterTypeOK, LocksHeld, EntriesPlaced, EntriesBacked, LineKept, Replaced
  <2> QED BY <2>2, <2>3
<1>4. CASE Evict
  <2>1. fpc = "evict" /\ fpc' = "fetch" /\ UNCHANGED <<filter, filterLock, bcc, proc, addr, isLoad, invalidator>>
    BY <1>4 DEF Evict
  <2>2. CASE UNCHANGED st
    BY <1>t, <2>1, <2>2 DEF FilterTypeOK, LocksHeld, EntriesPlaced, EntriesBacked, LineKept, Replaced
  <2>3. ASSUME NEW l \in InSet(SetOf[addr]), st' = [st EXCEPT ![l] = "I"] PROVE FilterInv'
    <3>1. l \in PLines /\ SetOf[l[2]] = SetOf[addr]
      BY DEF InSet
    <3>2. FilterTypeOK' /\ LocksHeld' /\ EntriesPlaced' /\ LineKept'
      BY <1>t, <2>1, <2>3 DEF FilterTypeOK, LocksHeld, EntriesPlaced, LineKept
    <3>3. EntriesBacked'
      <4>1. ASSUME NEW i \in Sets, i # SetOf[addr]
            PROVE  /\ rdAddr[i] # None => st'[<<proc, rdAddr[i]>>] # "I"
                   /\ wrAddr[i] # None => st'[<<proc, wrAddr[i]>>] = "M"
        <5>1. rdAddr[i] # None => <<proc, rdAddr[i]>> # l
          BY <1>t, <3>1, <4>1 DEF EntriesPlaced
        <5>2. wrAddr[i] # None => wrAddr[i] = rdAddr[i]
          BY <1>t DEF EntriesPlaced
        <5>3. /\ rdAddr[i] # None => <<proc, rdAddr[i]>> \in PLines /\ st[<<proc, rdAddr[i]>>] # "I"
              /\ wrAddr[i] # None => st[<<proc, wrAddr[i]>>] = "M"
          BY <1>t, <2>1 DEF FilterTypeOK, EntriesBacked, Replaced, PLines
        <5> QED BY <2>3, <5>1, <5>2, <5>3, <1>t DEF FilterTypeOK
      <4> QED BY <2>1, <4>1 DEF EntriesBacked, Replaced
    <3> QED BY <3>2, <3>3
  <2> QED BY <1>4, <2>2, <2>3 DEF Evict
<1>5. CASE Fetch
  <2>1. PICK s \in {"S", "E", "M"} : st' = [st EXCEPT ![Line] = s] /\ (isLoad \/ s = "M")
    BY <1>5 DEF Fetch
  <2>2. /\ fpc = "fetch" /\ fpc' = "relock" /\ bcc' = "core" /\ invpc = "idle"
        /\ UNCHANGED <<filter, filterLock, proc, addr, isLoad, invalidator>>
    BY <1>5 DEF Fetch
  <2>3. addr \in VLines /\ Line \in PLines
    BY <1>t, <2>2 DEF FilterTypeOK, PLines, Line
  <2>4. FilterTypeOK' /\ LocksHeld' /\ EntriesPlaced'
    BY <1>t, <2>1, <2>2, <2>3 DEF FilterTypeOK, LocksHeld, EntriesPlaced
  <2>5. LineKept'
    BY <1>t, <2>1, <2>2, <2>3 DEF FilterTypeOK, LineKept, Line
  <2>6. EntriesBacked'
    <3>1. ASSUME NEW i \in Sets, i # SetOf[addr]
          PROVE  /\ rdAddr[i] # None => st'[<<proc, rdAddr[i]>>] # "I"
                 /\ wrAddr[i] # None => st'[<<proc, wrAddr[i]>>] = "M"
      <4>1. rdAddr[i] # None => <<proc, rdAddr[i]>> # Line
        BY <1>t, <3>1 DEF EntriesPlaced, Line
      <4>2. wrAddr[i] # None => wrAddr[i] = rdAddr[i]
        BY <1>t DEF EntriesPlaced
      <4>3. /\ rdAddr[i] # None => <<proc, rdAddr[i]>> \in PLines /\ st[<<proc, rdAddr[i]>>] # "I"
            /\ wrAddr[i] # None => st[<<proc, wrAddr[i]>>] = "M"
        BY <1>t, <2>2, <3>1 DEF FilterTypeOK, EntriesBacked, Replaced, PLines
      <4> QED BY <2>1, <4>1, <4>2, <4>3, <1>t DEF FilterTypeOK
    <3> QED BY <2>2, <3>1 DEF EntriesBacked, Replaced
  <2> QED BY <2>4, <2>5, <2>6
<1>6. CASE EndAccess
  BY <1>6, <1>t DEF EndAccess, FilterTypeOK, LocksHeld, EntriesPlaced, EntriesBacked, LineKept, Replaced, Line
<1>7. CASE Fill
  <2>1. addr \in VLines /\ SetOf[addr] \in Sets /\ fpc = "fill" /\ fpc' = "idle" /\ filterLock' = "free"
    BY <1>7, <1>t, <1>a DEF Fill, FilterTypeOK
  <2>2. /\ wrAddr' = [wrAddr EXCEPT ![SetOf[addr]] = IF isLoad THEN None ELSE addr]
        /\ rdAddr' = [rdAddr EXCEPT ![SetOf[addr]] = addr]
        /\ UNCHANGED <<st, bcc, proc, addr, isLoad, invalidator>>
    BY <1>7 DEF Fill
  <2>3. FilterTypeOK'
    BY <1>t, <2>1, <2>2 DEF FilterTypeOK
  <2>4. LocksHeld' /\ LineKept'
    BY <1>t, <2>1, <2>2 DEF LocksHeld, LineKept
  <2>5. EntriesPlaced'
    BY <1>t, <1>a, <2>1, <2>2 DEF FilterTypeOK, EntriesPlaced
  <2>6. EntriesBacked'
    <3>1. ASSUME NEW i \in Sets
          PROVE  /\ rdAddr'[i] # None => st[<<proc, rdAddr'[i]>>] # "I"
                 /\ wrAddr'[i] # None => st[<<proc, wrAddr'[i]>>] = "M"
      <4>1. CASE i = SetOf[addr]
        <5>1. rdAddr'[i] = addr /\ wrAddr'[i] = IF isLoad THEN None ELSE addr
          BY <1>t, <2>1, <2>2, <4>1 DEF FilterTypeOK
        <5> QED BY <1>t, <2>1, <5>1 DEF LineKept, Line
      <4>2. CASE i # SetOf[addr]
        BY <1>t, <2>2, <4>2 DEF FilterTypeOK, EntriesBacked, Replaced
      <4> QED BY <4>1, <4>2
    <3> QED BY <2>2, <3>1 DEF EntriesBacked
  <2> QED BY <2>3, <2>4, <2>5, <2>6
<1>8. CASE ContextSwitch
  BY <1>8, <1>t DEF ContextSwitch, FilterTypeOK, LocksHeld, EntriesPlaced, EntriesBacked, LineKept, Replaced
<1>9. CASE StartInvalidate
  BY <1>9, <1>t DEF StartInvalidate, FilterTypeOK, LocksHeld, EntriesPlaced, EntriesBacked, LineKept, Replaced, Line
<1>10. CASE InvalidateLock
  BY <1>10, <1>t DEF InvalidateLock, FilterTypeOK, LocksHeld, EntriesPlaced, EntriesBacked, LineKept, Replaced, Line
<1>11. CASE FinishInvalidate
  <2> DEFINE i == SetOf[inv.line[2]]
             v == inv.line[2]
  <2>1. inv \in Requests /\ invpc = "filter" /\ invpc' = "idle" /\ bcc' = "free" /\ filterLock = "free" /\ UNCHANGED <<filterLock, coreVars, inv>>
    BY <1>11, <1>t DEF FinishInvalidate, FilterTypeOK
  <2>2. inv.line \in PLines /\ v \in VLines /\ i \in Sets /\ inv.line = <<proc, v>> /\ inv.by = proc
    BY <1>t, <1>a, <2>1 DEF Requests, PLines, OneProcess, FilterTypeOK
  <2>3. PICK s \in {"I", "S"} : st' = [st EXCEPT ![inv.line] = s]
    BY <1>11 DEF FinishInvalidate
  <2>4. /\ rdAddr[i] = v => rdAddr' = [rdAddr EXCEPT ![i] = None] /\ wrAddr' = [wrAddr EXCEPT ![i] = None]
        /\ rdAddr[i] # v => rdAddr' = rdAddr /\ wrAddr' = wrAddr
    BY <1>11, <2>2 DEF FinishInvalidate, Matches
  <2> HIDE DEF i, v
  <2>5. FilterTypeOK'
    BY <1>t, <2>1, <2>2, <2>3, <2>4 DEF FilterTypeOK
  <2>6. LocksHeld' /\ fpc \notin {"relock", "fill"}
    BY <1>t, <2>1 DEF LocksHeld
  <2>7. EntriesPlaced'
    BY <1>t, <2>2, <2>4 DEF FilterTypeOK, EntriesPlaced
  <2>8. LineKept'
    BY <2>1, <2>6 DEF LineKept
  <2>9. EntriesBacked'
    <3>1. ASSUME NEW j \in Sets, ~Replaced(j)
          PROVE  /\ rdAddr'[j] # None => st'[<<proc, rdAddr'[j]>>] # "I"
                 /\ wrAddr'[j] # None => st'[<<proc, wrAddr'[j]>>] = "M"
      <4>1. CASE rdAddr'[j] = None
        BY <4>1, <2>7 DEF EntriesPlaced
      <4>2. CASE rdAddr'[j] # None
        <5>1. rdAddr'[j] = rdAddr[j] /\ wrAddr'[j] = wrAddr[j] /\ rdAddr[j] # v
          <6>1. rdAddr[j] = v => j = i
            BY <1>t, <1>a, <2>2 DEF EntriesPlaced, i, v
          <6> QED BY <1>t, <2>2, <2>4, <4>2, <6>1 DEF FilterTypeOK
        <5>2. wrAddr[j] \in {None, rdAddr[j]}
          BY <1>t DEF EntriesPlaced
        <5>3. /\ st[<<proc, rdAddr[j]>>] # "I"
              /\ wrAddr[j] # None => st[<<proc, wrAddr[j]>>] = "M"
          BY <1>t, <3>1, <4>2, <5>1 DEF EntriesBacked
        <5>4. <<proc, rdAddr[j]>> # inv.line /\ <<proc, rdAddr[j]>> \in PLines
          BY <1>t, <2>2, <4>2, <5>1 DEF FilterTypeOK, PLines
        <5> QED BY <1>t, <2>3, <5>1, <5>2, <5>3, <5>4 DEF FilterTypeOK
      <4> QED BY <4>1, <4>2
    <3> QED BY <2>1, <3>1 DEF EntriesBacked, Replaced
  <2> QED BY <2>5, <2>6, <2>7, <2>8, <2>9
<1>12. CASE UNCHANGED filterVars
  BY <1>12, <1>t DEF filterVars, FilterTypeOK, LocksHeld, EntriesPlaced, EntriesBacked, LineKept, Replaced, Line
<1> QED
  BY <1>1, <1>2, <1>3, <1>4, <1>5, <1>6, <1>7, <1>8, <1>9, <1>10, <1>11, <1>12 DEF FilterNext, CoreStep, InvStep

\* With one simulated process a hit in the filter, tested without a lock, is on a line the cache
\* has, and a store hit on one it may write, for any geometry of cache and filter.
THEOREM FilterAlwaysCoherent == OneProcess /\ FilterSafety => []FilterCoherent
<1> SUFFICES ASSUME OneProcess PROVE FilterSafety => []FilterCoherent
  OBVIOUS
<1>1. FilterInv => FilterCoherent
  <2> SUFFICES ASSUME FilterInv, fpc = "idle", NEW v \in VLines
               PROVE  /\ Hit(v, TRUE) => st[<<proc, v>>] # "I"
                      /\ Hit(v, FALSE) => st[<<proc, v>>] = "M"
    BY DEF FilterCoherent
  <2>1. SetOf[v] \in Sets /\ v # None
    BY FilterAssumption
  <2> QED BY <2>1 DEF FilterInv, EntriesBacked, Replaced, Hit
<1>2. FilterInv /\ [FilterNext]_filterVars => FilterInv'
  BY FilterStep
<1> QED BY <1>1, <1>2, FilterInitially, PTL DEF FilterSafety
=============================================================================
