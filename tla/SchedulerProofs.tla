-------------------------- MODULE SchedulerProofs --------------------------
(***************************************************************************)
(* Proofs about the scheduler, for any set of threads, any number of       *)
(* contexts, any masks, and any quantum: every thread and context is in    *)
(* its place, nobody waits for a context that nobody will give, and the    *)
(* assertions hold but for the two that the watchdog can break.            *)
(***************************************************************************)
EXTENDS Scheduler, FiniteSetTheorems, SequenceTheorems, WellFoundedInduction, TLAPS

----------------------------------------------------------------------------
(* Lists without repetitions. *)

\* The list q has the members of S, each once.
Lists(q, S) == q \in Seq(S) /\ IsInjective(q) /\ ToSet(q) = S

\* A non-empty set of numbers has a least one.
LEMMA LeastNatural ==
  ASSUME NEW T \in SUBSET Nat, T # {}
  PROVE  \E x \in T : \A y \in T : x <= y
<1> DEFINE R == {p \in Nat \X Nat : p[1] < p[2]}
<1>1. R = OpToRel(<, Nat)
  BY DEF OpToRel
<1>2. IsWellFoundedOn(R, Nat)
  BY <1>1, NatLessThanWellFounded
<1>3. \E x \in T : \A y \in T : ~(<<y, x>> \in R)
  <2> HIDE DEF R
  <2> QED BY <1>2, WFMin
<1>4. \A x, y \in T : <<y, x>> \notin R => x <= y
  OBVIOUS
<1> QED
  BY <1>3, <1>4

\* What lists have in common.
LEMMA ListIs ==
  ASSUME NEW S, NEW q, Lists(q, S)
  PROVE  /\ Len(q) \in Nat /\ DOMAIN q = 1 .. Len(q)
         /\ \A i \in 1 .. Len(q) : q[i] \in S
         /\ \A e \in S : \E i \in 1 .. Len(q) : q[i] = e
         /\ \A i, j \in 1 .. Len(q) : q[i] = q[j] => i = j
  BY DEF Lists, IsInjective, ToSet

\* And how to see that something is one.
LEMMA IsList ==
  ASSUME NEW S, NEW T, NEW q \in Seq(T),
         \A i \in 1 .. Len(q) : q[i] \in S,
         \A e \in S : \E i \in 1 .. Len(q) : q[i] = e,
         \A i, j \in 1 .. Len(q) : q[i] = q[j] => i = j
  PROVE  Lists(q, S)
<1>1. DOMAIN q = 1 .. Len(q) /\ Len(q) \in Nat
  OBVIOUS
<1>2. q \in Seq(S)
  BY <1>1
<1> QED BY <1>1, <1>2 DEF Lists, IsInjective, ToSet

\* Appending a new member.
LEMMA ListAppend ==
  ASSUME NEW S, NEW q, Lists(q, S), NEW e, e \notin S
  PROVE  Lists(Append(q, e), S \cup {e})
<1> DEFINE r == Append(q, e)
           n == Len(q)
<1>1. n \in Nat /\ q \in Seq(S \cup {e})
  BY ListIs DEF Lists
<1>2. r \in Seq(S \cup {e}) /\ Len(r) = n + 1 /\ r[n + 1] = e /\ \A i \in 1 .. n : r[i] = q[i]
  BY <1>1
<1> HIDE DEF r
<1>3. \A i \in 1 .. n + 1 : i \in 1 .. n \/ i = n + 1
  BY <1>1
<1>4. \A i \in 1 .. Len(r) : r[i] \in S \cup {e}
  BY <1>2
<1>5. \A d \in S \cup {e} : \E i \in 1 .. Len(r) : r[i] = d
  BY <1>1, <1>2, ListIs
<1>6. \A i, j \in 1 .. Len(r) : r[i] = r[j] => i = j
  <2>1. \A i \in 1 .. n : r[i] # e
    BY <1>2, ListIs
  <2> QED BY <1>2, <1>3, <2>1, ListIs
<1>7. Lists(r, S \cup {e})
  BY <1>2, <1>4, <1>5, <1>6, IsList
<1> QED BY <1>7 DEF r

\* The place of the first member of a set.
LEMMA PlaceIs ==
  ASSUME NEW T, NEW q \in Seq(T), NEW S
  PROVE  \/ Place(q, S) = 0 /\ \A i \in 1 .. Len(q) : q[i] \notin S
         \/ /\ Place(q, S) \in 1 .. Len(q) /\ q[Place(q, S)] \in S
            /\ \A i \in 1 .. Len(q) : i < Place(q, S) => q[i] \notin S
<1> DEFINE I == {i \in 1 .. Len(q) : q[i] \in S}
<1>1. Place(q, S) = IF I # {} THEN Min(I) ELSE 0
  BY DEF Place, SelectInSeq
<1>2. CASE I = {}
  BY <1>1, <1>2
<1>3. CASE I # {}
  <2>1. I \in SUBSET Nat
    OBVIOUS
  <2>2. \E x \in I : \A y \in I : x <= y
    <3> HIDE DEF I
    <3> QED BY <1>3, <2>1, LeastNatural
  <2>3. Min(I) \in I /\ \A y \in I : Min(I) <= y
    <3> HIDE DEF I
    <3> QED BY <2>2 DEF Min
  <2>4. Place(q, S) \in I /\ \A y \in I : Place(q, S) <= y
    BY <1>1, <1>3, <2>3
  <2>5. \A i \in 1 .. Len(q) : i < Place(q, S) => i \notin I
    BY <2>1, <2>4
  <2> QED BY <2>4, <2>5
<1> QED BY <1>2, <1>3

\* The first member of a set, or nobody.
LEMMA FirstIs ==
  ASSUME NEW Q, NEW q, Lists(q, Q), NEW S, Nobody \notin Q
  PROVE  IF First(q, S) = Nobody THEN Q \cap S = {} ELSE First(q, S) \in Q \cap S
<1>1. q \in Seq(Q)
  BY DEF Lists
<1> QED BY <1>1, PlaceIs, ListIs DEF First

\* What follows something in r does so in q.
Thinned(q, r) == \A i, j \in 1 .. Len(r) : i < j =>
                    \E m, n \in 1 .. Len(q) : m < n /\ r[i] = q[m] /\ r[j] = q[n]

\* Removing a member, which need not be there.
LEMMA ListRemove ==
  ASSUME NEW S, NEW q, Lists(q, S), NEW e
  PROVE  /\ Lists(RemoveFirst(q, e), S \ {e}) /\ (e \notin S => RemoveFirst(q, e) = q)
         /\ Thinned(q, RemoveFirst(q, e))
<1> DEFINE p == Place(q, {e})
           n == Len(q)
           r == SubSeq(q, 1, p - 1) \o SubSeq(q, p + 1, n)
<1>1. n \in Nat /\ q \in Seq(S)
  BY ListIs DEF Lists
<1>2. CASE e \notin S
  <2>1. ~ \E i \in 1 .. n : q[i] = e
    BY <1>2, ListIs
  <2>2. RemoveFirst(q, e) = q
    BY <2>1 DEF RemoveFirst
  <2>3. S \ {e} = S
    BY <1>2
  <2>4. Thinned(q, q)
    BY DEF Thinned
  <2> QED BY <2>2, <2>3, <2>4
<1>3. CASE e \in S
  <2>1. \E i \in 1 .. n : q[i] = e
    BY <1>3, ListIs
  <2>2. {i \in 1 .. n : q[i] = e} = {i \in 1 .. n : q[i] \in {e}}
    OBVIOUS
  <2>3. SelectInSeq(q, LAMBDA v : v = e) = p
    BY <2>2 DEF SelectInSeq, Place
  <2>4. RemoveFirst(q, e) = r
    BY <2>1, <2>3 DEF RemoveFirst, RemoveAt
  <2>5. p \in 1 .. n /\ q[p] = e
    BY <1>1, <2>1, PlaceIs
  <2> HIDE DEF p
  <2> DEFINE a == SubSeq(q, 1, p - 1)
             b == SubSeq(q, p + 1, n)
  <2>6. /\ a \in Seq(S) /\ Len(a) = p - 1 /\ \A i \in 1 .. p - 1 : a[i] = q[i]
        /\ b \in Seq(S) /\ Len(b) = n - p /\ \A i \in 1 .. n - p : b[i] = q[p + i]
    BY <1>1, <2>5
  <2>7. /\ r \in Seq(S) /\ Len(r) = n - 1
        /\ \A i \in 1 .. n - 1 : r[i] = IF i < p THEN q[i] ELSE q[i + 1]
    <3> HIDE DEF a, b
    <3>1. a \o b \in Seq(S) /\ Len(a \o b) = n - 1
      <4>1. a \o b \in Seq(S) /\ Len(a \o b) = Len(a) + Len(b)
        BY <2>6, ConcatProperties
      <4> QED BY <1>1, <2>5, <2>6, <4>1
    <3>2. \A i \in 1 .. n - 1 : (a \o b)[i] = IF i < p THEN a[i] ELSE b[i - (p - 1)]
      BY <1>1, <2>5, <2>6
    <3>3. \A i \in 1 .. n - 1 : /\ i < p => i \in 1 .. p - 1
                                /\ ~(i < p) => i - (p - 1) \in 1 .. n - p /\ p + (i - (p - 1)) = i + 1
      BY <1>1, <2>5
    <3>4. \A i \in 1 .. n - 1 : (a \o b)[i] = IF i < p THEN q[i] ELSE q[i + 1]
      <4> SUFFICES ASSUME NEW i \in 1 .. n - 1 PROVE (a \o b)[i] = IF i < p THEN q[i] ELSE q[i + 1]
        OBVIOUS
      <4>1. CASE i < p
        <5>1. i \in 1 .. p - 1
          BY <3>3, <4>1
        <5>2. a[i] = q[i]
          BY <2>6, <5>1
        <5>3. (a \o b)[i] = a[i]
          BY <3>2, <4>1
        <5> QED BY <4>1, <5>2, <5>3
      <4>2. CASE ~(i < p)
        <5>1. (a \o b)[i] = b[i - (p - 1)] /\ b[i - (p - 1)] = q[p + (i - (p - 1))]
          BY <2>6, <3>2, <3>3, <4>2
        <5> QED BY <3>3, <4>2, <5>1
      <4> QED BY <4>1, <4>2
    <3> QED BY <3>1, <3>4 DEF a, b
  <2> HIDE DEF r
  <2>8. \A i \in 1 .. Len(r) : r[i] \in S \ {e}
    <3> SUFFICES ASSUME NEW i \in 1 .. n - 1 PROVE r[i] \in S \ {e}
      BY <2>7
    <3> DEFINE m == IF i < p THEN i ELSE i + 1
    <3>1. m \in 1 .. n /\ m # p
      BY <1>1, <2>5
    <3>2. r[i] = q[m]
      BY <2>7
    <3> HIDE DEF m
    <3>3. q[m] \in S /\ q[m] # q[p]
      BY <2>5, <3>1, ListIs
    <3> QED BY <2>5, <3>2, <3>3
  <2>9. \A d \in S \ {e} : \E i \in 1 .. Len(r) : r[i] = d
    <3> SUFFICES ASSUME NEW d \in S \ {e} PROVE \E i \in 1 .. n - 1 : r[i] = d
      BY <2>7
    <3>1. PICK i \in 1 .. n : q[i] = d
      BY ListIs
    <3>2. i # p
      BY <2>5, <3>1
    <3>3. CASE i < p
      <4>1. i \in 1 .. n - 1
        BY <1>1, <2>5, <3>3
      <4> QED BY <2>7, <3>1, <3>3, <4>1
    <3>4. CASE i > p
      <4>1. i - 1 \in 1 .. n - 1 /\ ~(i - 1 < p) /\ (i - 1) + 1 = i
        BY <1>1, <2>5, <3>4
      <4> QED BY <2>7, <3>1, <4>1
    <3> QED BY <2>5, <3>2, <3>3, <3>4
  <2>10. \A i, j \in 1 .. Len(r) : r[i] = r[j] => i = j
    <3> SUFFICES ASSUME NEW i \in 1 .. n - 1, NEW j \in 1 .. n - 1, r[i] = r[j] PROVE i = j
      BY <2>7
    <3>1. i \in 1 .. n /\ i + 1 \in 1 .. n /\ j \in 1 .. n /\ j + 1 \in 1 .. n
      BY <1>1
    <3> DEFINE di == IF i < p THEN i ELSE i + 1
               dj == IF j < p THEN j ELSE j + 1
    <3>2. di \in 1 .. n /\ dj \in 1 .. n /\ q[di] = q[dj]
      BY <2>7, <3>1
    <3>3. di = dj
      <4> HIDE DEF di, dj
      <4> QED BY <3>2, ListIs
    <3> QED BY <2>5, <3>1, <3>3
  <2>11. Lists(r, S \ {e})
    BY <2>7, <2>8, <2>9, <2>10, IsList
  <2>12. Thinned(q, r)
    <3>1. ASSUME NEW i \in 1 .. Len(r), NEW j \in 1 .. Len(r), i < j
          PROVE  \E m, o \in 1 .. Len(q) : m < o /\ r[i] = q[m] /\ r[j] = q[o]
      <4>1. i \in 1 .. n - 1 /\ j \in 1 .. n - 1
        BY <2>7
      <4>2. i \in 1 .. n /\ i + 1 \in 1 .. n /\ j \in 1 .. n /\ j + 1 \in 1 .. n
        BY <1>1, <4>1
      <4> DEFINE di == IF i < p THEN i ELSE i + 1
                 dj == IF j < p THEN j ELSE j + 1
      <4>3. di \in 1 .. n /\ dj \in 1 .. n /\ r[i] = q[di] /\ r[j] = q[dj]
        BY <2>7, <4>1, <4>2
      <4>4. di < dj
        BY <2>5, <3>1, <4>2
      <4> HIDE DEF di, dj
      <4> QED BY <4>3, <4>4
    <3> QED BY <3>1 DEF Thinned
  <2> QED BY <1>3, <2>4, <2>11, <2>12
<1> QED BY <1>2, <1>3

\* r is q with e at place p.
Inserted(q, p, e, r) ==
    /\ Len(r) = Len(q) + 1
    /\ \A i \in 1 .. Len(r) : r[i] = IF i < p THEN q[i] ELSE IF i = p THEN e ELSE q[i - 1]

\* Inserting a new member.
LEMMA ListInsert ==
  ASSUME NEW S, NEW q, Lists(q, S), NEW e, e \notin S, NEW p \in 1 .. Len(q) + 1
  PROVE  Lists(InsertAt(q, p, e), S \cup {e}) /\ Inserted(q, p, e, InsertAt(q, p, e))
<1> DEFINE n == Len(q)
           r == SubSeq(q, 1, p - 1) \o <<e>> \o SubSeq(q, p, n)
           T == S \cup {e}
<1>1. n \in Nat /\ q \in Seq(T)
  BY ListIs DEF Lists
<1>2. InsertAt(q, p, e) = r
  BY DEF InsertAt
<1> DEFINE a == SubSeq(q, 1, p - 1)
           b == SubSeq(q, p, n)
<1>3. /\ a \in Seq(T) /\ Len(a) = p - 1 /\ \A i \in 1 .. p - 1 : a[i] = q[i]
      /\ b \in Seq(T) /\ Len(b) = n + 1 - p /\ \A i \in 1 .. n + 1 - p : b[i] = q[p + i - 1]
  BY <1>1
<1>4. /\ r \in Seq(T) /\ Len(r) = n + 1
      /\ \A i \in 1 .. n + 1 : r[i] = IF i < p THEN q[i] ELSE IF i = p THEN e ELSE q[i - 1]
  <2> HIDE DEF a, b
  <2> DEFINE c == a \o <<e>>
  <2>1. c \in Seq(T) /\ Len(c) = p /\ c[p] = e /\ \A i \in 1 .. p - 1 : c[i] = a[i]
    BY <1>1, <1>3
  <2> HIDE DEF c
  <2>2. c \o b \in Seq(T) /\ Len(c \o b) = n + 1
    <3>1. c \in Seq(T) /\ b \in Seq(T)
      BY <1>3, <2>1
    <3>2. c \o b \in Seq(T) /\ Len(c \o b) = Len(c) + Len(b)
      BY <3>1, ConcatProperties
    <3>3. Len(c) = p /\ Len(b) = n + 1 - p
      BY <1>3, <2>1
    <3> QED BY <1>1, <3>2, <3>3
  <2>3. \A i \in 1 .. n + 1 : (c \o b)[i] = IF i <= p THEN c[i] ELSE b[i - p]
    BY <1>1, <1>3, <2>1
  <2>4. \A i \in 1 .. n + 1 : /\ i < p => i \in 1 .. p - 1
                              /\ i > p => i - p \in 1 .. n + 1 - p /\ p + (i - p) - 1 = i - 1
    BY <1>1
  <2>5. \A i \in 1 .. n + 1 : (c \o b)[i] = IF i < p THEN q[i] ELSE IF i = p THEN e ELSE q[i - 1]
    <3> SUFFICES ASSUME NEW i \in 1 .. n + 1
                 PROVE  (c \o b)[i] = IF i < p THEN q[i] ELSE IF i = p THEN e ELSE q[i - 1]
      OBVIOUS
    <3>1. CASE i < p
      BY <1>3, <2>1, <2>3, <2>4, <3>1
    <3>2. CASE i = p
      BY <2>1, <2>3, <3>2
    <3>3. CASE i > p
      <4>1. ~(i <= p) /\ ~(i < p) /\ i # p
        BY <1>1, <3>3
      <4>2. (c \o b)[i] = b[i - p] /\ b[i - p] = q[p + (i - p) - 1]
        BY <1>3, <2>3, <2>4, <3>3, <4>1
      <4> QED BY <2>4, <3>3, <4>1, <4>2
    <3>4. i < p \/ i = p \/ i > p
      BY <1>1
    <3> QED BY <3>1, <3>2, <3>3, <3>4
  <2> QED BY <2>2, <2>5 DEF c, a, b
<1> HIDE DEF r
<1>5. \A i \in 1 .. Len(r) : r[i] \in T
  <2> SUFFICES ASSUME NEW i \in 1 .. n + 1 PROVE r[i] \in T
    BY <1>4
  <2>1. (i < p => i \in 1 .. n) /\ (i > p => i - 1 \in 1 .. n)
    BY <1>1
  <2> QED BY <1>1, <1>4, <2>1, ListIs
<1>6. \A d \in T : \E i \in 1 .. Len(r) : r[i] = d
  <2> SUFFICES ASSUME NEW d \in T PROVE \E i \in 1 .. n + 1 : r[i] = d
    BY <1>4
  <2>1. CASE d = e
    BY <1>1, <1>4, <2>1
  <2>2. CASE d \in S
    <3>1. PICK i \in 1 .. n : q[i] = d
      BY <2>2, ListIs
    <3>2. CASE i < p
      <4>1. i \in 1 .. n + 1
        BY <1>1
      <4> QED BY <1>4, <3>1, <3>2, <4>1
    <3>3. CASE i >= p
      <4>1. i + 1 \in 1 .. n + 1 /\ ~(i + 1 < p) /\ i + 1 # p /\ (i + 1) - 1 = i
        BY <1>1, <3>3
      <4> QED BY <1>4, <3>1, <4>1
    <3> QED BY <3>2, <3>3
  <2> QED BY <2>1, <2>2
<1>7. \A i, j \in 1 .. Len(r) : r[i] = r[j] => i = j
  <2> SUFFICES ASSUME NEW i \in 1 .. n + 1, NEW j \in 1 .. n + 1, r[i] = r[j] PROVE i = j
    BY <1>4
  <2>1. /\ (i < p => i \in 1 .. n) /\ (i > p => i - 1 \in 1 .. n)
        /\ (j < p => j \in 1 .. n) /\ (j > p => j - 1 \in 1 .. n)
    BY <1>1
  <2>2. \A m \in 1 .. n : q[m] # e
    BY ListIs
  <2>3. CASE i = p \/ j = p
    BY <1>4, <2>1, <2>2, <2>3
  <2>4. CASE i # p /\ j # p
    <3> DEFINE di == IF i < p THEN i ELSE i - 1
               dj == IF j < p THEN j ELSE j - 1
    <3>1. di \in 1 .. n /\ dj \in 1 .. n /\ q[di] = q[dj]
      BY <1>4, <2>1, <2>4
    <3>2. di = dj
      <4> HIDE DEF di, dj
      <4> QED BY <3>1, ListIs
    <3> QED BY <2>1, <2>4, <3>2
  <2> QED BY <2>3, <2>4
<1>8. Lists(r, T)
  BY <1>4, <1>5, <1>6, <1>7, IsList
<1> HIDE DEF r
<1>9. Inserted(q, p, e, r)
  BY <1>4 DEF Inserted
<1> QED BY <1>2, <1>8, <1>9

\* W is what a list q starts with, n members of it, and r is the rest.
Split(q, n, W, r) == r = SubSeq(q, n + 1, Len(q)) /\ W = ToSet(SubSeq(q, 1, n))

Halves(q, n, W, r) ==
    /\ Len(r) = Len(q) - n /\ \A i \in 1 .. Len(r) : r[i] = q[n + i]
    /\ \A i \in 1 .. n : q[i] \in W
    /\ \A e \in W : \E i \in 1 .. n : q[i] = e

\* Cutting a list in two.
LEMMA ListSplit ==
  ASSUME NEW S, NEW q, Lists(q, S), NEW n \in 0 .. Len(q),
         NEW r, NEW W, Split(q, n, W, r)
  PROVE  /\ Lists(r, S \ W) /\ W \subseteq S
         /\ Halves(q, n, W, r)
<1> DEFINE l == Len(q)
           F == {q[i] : i \in 1 .. n}
<1>0. r = SubSeq(q, n + 1, Len(q)) /\ W = ToSet(SubSeq(q, 1, n))
  BY DEF Split
<1>1. l \in Nat /\ q \in Seq(S)
  BY ListIs DEF Lists
<1>2. DOMAIN SubSeq(q, 1, n) = 1 .. n /\ \A i \in 1 .. n : SubSeq(q, 1, n)[i] = q[i]
  BY <1>1
<1>3. ToSet(SubSeq(q, 1, n)) = F
  BY <1>2 DEF ToSet
<1>4. r \in Seq(S) /\ Len(r) = l - n /\ \A i \in 1 .. l - n : r[i] = q[n + i]
  BY <1>0, <1>1
<1>5. \A i \in 1 .. Len(r) : r[i] \in S \ F
  <2> SUFFICES ASSUME NEW i \in 1 .. l - n PROVE r[i] \in S \ F
    BY <1>4
  <2>1. n + i \in 1 .. l /\ \A j \in 1 .. n : j \in 1 .. l /\ j # n + i
    BY <1>1
  <2>2. r[i] = q[n + i] /\ q[n + i] \in S
    BY <1>4, <2>1, ListIs
  <2>3. \A j \in 1 .. n : q[j] # q[n + i]
    BY <2>1, ListIs
  <2> QED BY <2>2, <2>3
<1>6. \A d \in S \ F : \E i \in 1 .. Len(r) : r[i] = d
  <2> SUFFICES ASSUME NEW d \in S \ F PROVE \E i \in 1 .. l - n : r[i] = d
    BY <1>4
  <2>1. PICK j \in 1 .. l : q[j] = d
    BY ListIs
  <2>2. j \notin 1 .. n
    BY <2>1
  <2>3. j - n \in 1 .. l - n /\ n + (j - n) = j
    BY <1>1, <2>2
  <2> QED BY <1>4, <2>1, <2>3
<1>7. \A i, j \in 1 .. Len(r) : r[i] = r[j] => i = j
  <2> SUFFICES ASSUME NEW i \in 1 .. l - n, NEW j \in 1 .. l - n, r[i] = r[j] PROVE i = j
    BY <1>4
  <2>1. n + i \in 1 .. l /\ n + j \in 1 .. l
    BY <1>1
  <2>2. q[n + i] = q[n + j]
    BY <1>4
  <2>3. n + i = n + j
    BY <2>1, <2>2, ListIs
  <2> QED BY <2>3
<1>8. Lists(r, S \ F)
  <2> HIDE DEF F
  <2>1. r \in Seq(S)
    BY <1>4
  <2> QED BY <2>1, <1>5, <1>6, <1>7, IsList
<1>9. /\ \A i \in 1 .. n : q[i] \in W
      /\ \A e \in W : \E i \in 1 .. n : q[i] = e
  BY <1>0, <1>3
<1>10. W \subseteq S
  <2> SUFFICES ASSUME NEW e \in W PROVE e \in S
    OBVIOUS
  <2>1. PICK i \in 1 .. n : q[i] = e
    BY <1>9
  <2>2. i \in 1 .. l
    BY <1>1
  <2> QED BY <2>1, <2>2, ListIs
<1> HIDE DEF F
<1> QED BY <1>0, <1>3, <1>4, <1>8, <1>9, <1>10 DEF Halves

----------------------------------------------------------------------------
(* The invariant, of a state x that may be in the middle of a critical     *)
(* section: the context in H, if any, is being passed on, and the thread b *)
(* is inside; k says where each thread is.                                 *)

Sched == [state : [Threads -> States], cid : [Threads -> Contexts],
          curThread : [Contexts -> Threads \cup {Nobody}],
          freeList : Seq(Contexts), runQueue : Seq(Threads), outQueue : Seq(Threads),
          sleepQueue : Seq(Threads), fakeLeaves : Seq(Threads),
          futexWord : [Threads -> {0, 1}], handoffThread : [Threads -> Threads \cup {Nobody}],
          marked : SUBSET Threads, due : [Threads -> Int],
          bar : [Contexts -> {"out", "running", "done"}], phase : Nat,
          failed : {"none", "join", "leave"}]

Fields == {"state", "cid", "curThread", "freeList", "runQueue", "outQueue", "sleepQueue", "fakeLeaves",
           "futexWord", "handoffThread", "marked", "due", "bar", "phase", "failed"}

\* x and y differ at most in the fields F.
Same(x, y, F) == \A f \in Fields \ F : y[f] = x[f]

In(x, st) == {t \in Threads : x.state[t] = st}
Free(x) == {c \in Contexts : ~Used(x, c)}
Driven(x, c) == Used(x, c) /\ x.state[x.curThread[c]] = "RUNNING"

\* Where the threads and the contexts are.
Placed(x) ==
    /\ Lists(x.outQueue, In(x, "OUT"))
    /\ Lists(x.sleepQueue, In(x, "SLEEPING"))
    /\ \A c \in Contexts : Used(x, c) => /\ x.state[x.curThread[c]] \in {"RUNNING", "OUT"}
                                         /\ x.cid[x.curThread[c]] = c
    /\ \A t \in Threads : x.state[t] \in {"RUNNING", "OUT"} => x.curThread[x.cid[t]] = t
FreeListed(x, H) == Lists(x.freeList, Free(x) \ H) /\ H \subseteq Free(x)

\* The members of the barrier, and that nobody waits for what is free.
Bars(x, H) == \A c \in Contexts \ H : x.bar[c] # "out" <=> Driven(x, c)
Conserved(x, H) == \A t \in ToSet(x.runQueue) : \A c \in Mask[t] \ H : Driven(x, c)

\* Who waits in the run queue, and to whom a context is promised.
Promises(x, b) ==
    /\ Lists(x.runQueue, ToSet(x.runQueue))
    /\ \A t \in ToSet(x.runQueue) : x.state[t] = "QUEUED"
    /\ \A u \in Threads : x.handoffThread[u] # Nobody =>
          x.state[x.handoffThread[u]] = "QUEUED" /\ x.handoffThread[u] \notin ToSet(x.runQueue)
    /\ \A u, v \in Threads : x.handoffThread[u] = x.handoffThread[v] /\ x.handoffThread[u] # Nobody => u = v
    /\ \A t \in Threads \ {b} : x.state[t] = "QUEUED" =>
          t \in ToSet(x.runQueue) \/ \E u \in Threads : x.handoffThread[u] = t

\* Sleepers are in the order in which they wake up.
Sorted(x) == /\ \A i, j \in 1 .. Len(x.sleepQueue) : i < j => x.due[x.sleepQueue[i]] <= x.due[x.sleepQueue[j]]
             /\ \A t \in Threads : x.state[t] = "SLEEPING" => x.futexWord[t] = 1 /\ x.due[t] >= 1

\* What a thread's place in the code says of it.
Knows(x, k, u) ==
    /\ x.state[u] = "NONE" <=> k[u] \in {"new", "done"}
    /\ x.state[u] = "STARTED" => k[u] = "join"
    /\ x.state[u] = "QUEUED" <=> k[u] = "wait" /\ x.futexWord[u] = 1
    /\ x.state[u] = "SLEEPING" => k[u] \in {"sleep", "notify", "join"}
    /\ x.state[u] = "OUT" => k[u] \in {"syscall", "join", "finishleave", "finishend"}
    /\ x.state[u] = "BLOCKED" => k[u] \in {"syscall", "join", "finishleave", "finishend", "sleep", "notify"}
    /\ x.state[u] = "RUNNING" => k[u] \in {"run", "sync", "handoff", "marked", "leave", "wait",
                                           "syscall", "join", "finishleave"}
    /\ k[u] = "handoff" => x.handoffThread[u] # Nobody
    /\ x.handoffThread[u] # Nobody => k[u] \in {"sync", "handoff"}
    /\ x.state[u] = "RUNNING" /\ x.bar[x.cid[u]] = "done" => k[u] = "sync" /\ x.handoffThread[u] = Nobody
    /\ u \in ToSet(x.fakeLeaves) => k[u] \in {"syscall", "join"} /\ x.state[u] = "RUNNING"
    /\ u \in x.marked => k[u] \in {"marked", "leave"} /\ x.futexWord[u] = 1 /\ x.due[u] >= 1

Inv(x, k, H, b) ==
    /\ x \in Sched /\ Lists(x.fakeLeaves, ToSet(x.fakeLeaves))
    /\ Placed(x) /\ FreeListed(x, H) /\ Bars(x, H) /\ Conserved(x, H)
    /\ Promises(x, b) /\ Sorted(x)
    /\ \A u \in Threads \ {b} : Knows(x, k, u)

\* What happens to the threads that are not at work.
Kept(x, y, b) ==
    /\ y.fakeLeaves = x.fakeLeaves
    /\ \A u \in Threads \ {b} :
          /\ x.state[u] = "RUNNING" => y.state[u] = "RUNNING" /\ y.cid[u] = x.cid[u]
          /\ y.state[u] = "RUNNING" => x.state[u] \in {"RUNNING", "QUEUED"}
          /\ y.state[u] = "QUEUED" => x.state[u] = "QUEUED"

USE NobodyAssumption

\* The types of the fields.
LEMMA FieldTypes ==
  ASSUME NEW x \in Sched
  PROVE  /\ x.state \in [Threads -> States] /\ x.cid \in [Threads -> Contexts]
         /\ x.curThread \in [Contexts -> Threads \cup {Nobody}]
         /\ x.freeList \in Seq(Contexts) /\ x.runQueue \in Seq(Threads) /\ x.outQueue \in Seq(Threads)
         /\ x.sleepQueue \in Seq(Threads) /\ x.fakeLeaves \in Seq(Threads)
         /\ x.futexWord \in [Threads -> {0, 1}] /\ x.handoffThread \in [Threads -> Threads \cup {Nobody}]
         /\ x.marked \in SUBSET Threads /\ x.due \in [Threads -> Int]
         /\ x.bar \in [Contexts -> {"out", "running", "done"}] /\ x.phase \in Nat /\ x.failed \in {"none", "join", "leave"}
  BY DEF Sched

\* A context that one thread has no other has.
LEMMA OneContext ==
  ASSUME NEW x \in Sched, Placed(x), NEW t \in Threads, x.state[t] \in {"RUNNING", "OUT"}
  PROVE  /\ x.cid[t] \in Contexts /\ Used(x, x.cid[t]) /\ x.curThread[x.cid[t]] = t
         /\ \A c \in Contexts : x.curThread[c] = t => c = x.cid[t]
         /\ \A u \in Threads : x.state[u] \in {"RUNNING", "OUT"} /\ x.cid[u] = x.cid[t] => u = t
<1>1. x.cid[t] \in Contexts /\ t # Nobody
  BY FieldTypes
<1> QED BY <1>1 DEF Placed, Used

\* Kept is transitive.
LEMMA KeptTwice ==
  ASSUME NEW x, NEW y, NEW z, NEW b, Kept(x, y, b), Kept(y, z, b)
  PROVE  Kept(x, z, b)
  BY DEF Kept

\* Thread u gets context c, which is passed on.
GetsContext(x, y, u, c, b) ==
    /\ y \in Sched /\ Same(x, y, {"state", "cid", "curThread", "bar", "runQueue", "futexWord", "handoffThread"})
    /\ y.state = [x.state EXCEPT ![u] = "RUNNING"] /\ y.cid = [x.cid EXCEPT ![u] = c]
    /\ y.curThread = [x.curThread EXCEPT ![c] = u] /\ y.bar = [x.bar EXCEPT ![c] = "running"]
    /\ Lists(y.runQueue, ToSet(x.runQueue) \ {u})
    /\ \A v \in Threads : /\ v # u => y.futexWord[v] = x.futexWord[v]
                          /\ v # b => x.handoffThread[v] # u
                          /\ y.handoffThread[v] = IF x.handoffThread[v] = u THEN Nobody ELSE x.handoffThread[v]
    /\ u = b \/ (x.state[u] = "QUEUED" /\ y.futexWord[u] = 0)
    /\ x.state[u] \in {"STARTED", "BLOCKED", "QUEUED"}

\* A thread that waits, or the one at work, gets the context that is passed on.
LEMMA Schedules ==
  ASSUME NEW x, NEW y, NEW k, NEW b, NEW c \in Contexts, NEW u \in Threads, Inv(x, k, {c}, b),
         GetsContext(x, y, u, c, b)
  PROVE  Inv(y, k, {}, b) /\ Kept(x, y, b)
<1>1. /\ x \in Sched /\ Lists(x.fakeLeaves, ToSet(x.fakeLeaves)) /\ Placed(x) /\ FreeListed(x, {c})
      /\ Bars(x, {c}) /\ Conserved(x, {c}) /\ Promises(x, b) /\ Sorted(x)
      /\ \A v \in Threads \ {b} : Knows(x, k, v)
  BY DEF Inv
<1> USE DEF GetsContext
<1>2. /\ y.freeList = x.freeList /\ y.outQueue = x.outQueue /\ y.sleepQueue = x.sleepQueue
      /\ y.fakeLeaves = x.fakeLeaves /\ y.marked = x.marked /\ y.due = x.due
  BY DEF Same, Fields
<1>3. /\ x.state \in [Threads -> States] /\ x.cid \in [Threads -> Contexts]
      /\ x.curThread \in [Contexts -> Threads \cup {Nobody}] /\ x.bar \in [Contexts -> {"out", "running", "done"}]
  BY <1>1, FieldTypes
<1>4. /\ \A v \in Threads : v # u => y.state[v] = x.state[v] /\ y.cid[v] = x.cid[v]
      /\ y.state[u] = "RUNNING" /\ y.cid[u] = c
  BY <1>3
<1>5. /\ \A d \in Contexts : d # c => y.curThread[d] = x.curThread[d] /\ y.bar[d] = x.bar[d]
      /\ y.curThread[c] = u /\ y.bar[c] = "running"
  BY <1>3
<1>6. /\ x.curThread[c] = Nobody
      /\ \A d \in Contexts : x.curThread[d] # u
  BY <1>1, <1>3 DEF FreeListed, Free, Used, Placed
<1>7. Placed(y)
  <2>1. In(y, "OUT") = In(x, "OUT") /\ In(y, "SLEEPING") = In(x, "SLEEPING")
    BY <1>4 DEF In
  <2>2. \A d \in Contexts : Used(y, d) => y.state[y.curThread[d]] \in {"RUNNING", "OUT"} /\ y.cid[y.curThread[d]] = d
    BY <1>1, <1>3, <1>4, <1>5, <1>6 DEF Placed, Used
  <2>3. \A v \in Threads : y.state[v] \in {"RUNNING", "OUT"} => y.curThread[y.cid[v]] = v
    BY <1>1, <1>3, <1>4, <1>5, <1>6 DEF Placed
  <2> QED BY <1>1, <1>2, <2>1, <2>2, <2>3 DEF Placed
<1>8. FreeListed(y, {})
  <2>1. Free(y) \ {} = Free(x) \ {c}
    BY <1>5 DEF Free, Used
  <2> QED BY <1>1, <1>2, <2>1 DEF FreeListed
<1>9. \A d \in Contexts \ {c} : Driven(y, d) = Driven(x, d)
  BY <1>3, <1>4, <1>5, <1>6 DEF Driven, Used
<1>10. Driven(y, c)
  BY <1>4, <1>5 DEF Driven, Used
<1>11. Bars(y, {})
  BY <1>1, <1>5, <1>9, <1>10 DEF Bars
<1>12. ToSet(y.runQueue) = ToSet(x.runQueue) \ {u}
  BY DEF Lists
<1>13. Conserved(y, {})
  <2>1. \A t \in ToSet(x.runQueue) : t \in Threads /\ Mask[t] \subseteq Contexts
    BY <1>1, FieldTypes, MaskAssumption DEF ToSet
  <2> QED BY <1>1, <1>9, <1>10, <1>12, <2>1 DEF Conserved
<1>14. Promises(y, b)
  <2>1. \A t \in ToSet(x.runQueue) : t \in Threads
    BY <1>1, FieldTypes DEF ToSet
  <2>2. \A v \in Threads : x.handoffThread[v] \in Threads \cup {Nobody}
    BY <1>1, FieldTypes
  <2>3. \A t \in ToSet(y.runQueue) : y.state[t] = "QUEUED"
    BY <1>1, <1>4, <1>12, <2>1 DEF Promises
  <2>4. \A v \in Threads : y.handoffThread[v] # Nobody =>
           y.state[y.handoffThread[v]] = "QUEUED" /\ y.handoffThread[v] \notin ToSet(y.runQueue)
    BY <1>1, <1>4, <1>12, <2>2 DEF Promises
  <2>5. \A v, w \in Threads : y.handoffThread[v] = y.handoffThread[w] /\ y.handoffThread[v] # Nobody => v = w
    BY <1>1 DEF Promises
  <2>6. \A t \in Threads \ {b} : y.state[t] = "QUEUED" =>
           t \in ToSet(y.runQueue) \/ \E v \in Threads : y.handoffThread[v] = t
    BY <1>1, <1>4, <1>12 DEF Promises
  <2> QED BY <1>12, <2>3, <2>4, <2>5, <2>6 DEF Promises
<1>15. Sorted(y)
  BY <1>1, <1>2, <1>4 DEF Sorted
<1>16. ASSUME NEW v \in Threads \ {b} PROVE Knows(y, k, v)
  <2>1. Knows(x, k, v)
    BY <1>1
  <2>2. y.handoffThread[v] = x.handoffThread[v]
    BY <1>16
  <2>3. CASE v = u
    BY <1>2, <1>4, <1>5, <2>1, <2>2, <2>3 DEF Knows
  <2>4. CASE v # u
    <3>1. y.state[v] = x.state[v] /\ y.cid[v] = x.cid[v] /\ y.futexWord[v] = x.futexWord[v]
      BY <1>4, <2>4
    <3>2. x.state[v] = "RUNNING" => y.bar[y.cid[v]] = x.bar[x.cid[v]]
      BY <1>1, <1>3, <1>5, <1>6, <3>1, OneContext
    <3> QED BY <1>2, <2>1, <2>2, <3>1, <3>2 DEF Knows
  <2> QED BY <2>3, <2>4
<1>17. Kept(x, y, b)
  BY <1>2, <1>4 DEF Kept
<1> QED BY <1>1, <1>2, <1>7, <1>8, <1>11, <1>13, <1>14, <1>15, <1>16, <1>17 DEF Inv

\* Thread v gives up context c.
GivesUp(x, y, v, c, to, b) ==
    /\ c = x.cid[v]
    /\ y \in Sched /\ Same(x, y, {"state", "curThread", "outQueue", "sleepQueue", "marked"})
    /\ y.state = [x.state EXCEPT ![v] = to] /\ y.curThread = [x.curThread EXCEPT ![c] = Nobody]
    /\ Lists(y.outQueue, In(x, "OUT") \ {v}) /\ Lists(y.sleepQueue, In(y, "SLEEPING")) /\ Sorted(y)
    /\ y.marked \subseteq x.marked
    /\ \/ x.state[v] = "OUT" /\ to = "BLOCKED"
       \/ v = b /\ x.state[v] \in {"RUNNING", "OUT"} /\ to \in {"BLOCKED", "QUEUED", "SLEEPING"}

\* A thread is OUT if its context is out of the barrier.
OutBoth(x, v, c) == x.bar[c] = "out" <=> x.state[v] = "OUT"

\* The thread at work may give up its context, or one that is OUT.
LEMMA Parts ==
  ASSUME NEW x, NEW y, NEW k, NEW b, NEW v \in Threads, NEW c, NEW to, Inv(x, k, {}, b),
         GivesUp(x, y, v, c, to, b)
  PROVE  Inv(y, k, {c}, b) /\ Kept(x, y, b) /\ OutBoth(x, v, c) /\ c \in Contexts
<1>1. /\ x \in Sched /\ Lists(x.fakeLeaves, ToSet(x.fakeLeaves)) /\ Placed(x) /\ FreeListed(x, {})
      /\ Bars(x, {}) /\ Conserved(x, {}) /\ Promises(x, b) /\ Sorted(x)
      /\ \A t \in Threads \ {b} : Knows(x, k, t)
  BY DEF Inv
<1> USE DEF GivesUp
<1>2. /\ y.freeList = x.freeList /\ y.runQueue = x.runQueue /\ y.futexWord = x.futexWord /\ y.cid = x.cid
      /\ y.fakeLeaves = x.fakeLeaves /\ y.due = x.due /\ y.bar = x.bar /\ y.handoffThread = x.handoffThread
  BY DEF Same, Fields
<1>3. /\ x.state \in [Threads -> States] /\ x.cid \in [Threads -> Contexts]
      /\ x.curThread \in [Contexts -> Threads \cup {Nobody}] /\ x.bar \in [Contexts -> {"out", "running", "done"}]
  BY <1>1, FieldTypes
<1>4. /\ \A t \in Threads : t # v => y.state[t] = x.state[t]
      /\ y.state[v] = to
  BY <1>3
<1>5. c \in Contexts
  BY <1>3
<1>6. /\ \A d \in Contexts : d # c => y.curThread[d] = x.curThread[d]
      /\ y.curThread[c] = Nobody
  BY <1>3, <1>5
<1>7. /\ x.state[v] \in {"RUNNING", "OUT"} /\ x.curThread[c] = v
      /\ \A d \in Contexts : x.curThread[d] = v => d = c
      /\ to \in {"BLOCKED", "QUEUED", "SLEEPING"}
  BY <1>1, OneContext
<1>8. Placed(y)
  <2>1. In(y, "OUT") = In(x, "OUT") \ {v}
    BY <1>4, <1>7 DEF In
  <2>2. \A d \in Contexts : Used(y, d) => y.state[y.curThread[d]] \in {"RUNNING", "OUT"} /\ y.cid[y.curThread[d]] = d
    BY <1>1, <1>2, <1>3, <1>4, <1>6, <1>7 DEF Placed, Used
  <2>3. \A t \in Threads : y.state[t] \in {"RUNNING", "OUT"} => y.curThread[y.cid[t]] = t
    BY <1>1, <1>2, <1>3, <1>4, <1>6, <1>7 DEF Placed
  <2> QED BY <2>1, <2>2, <2>3 DEF Placed
<1>9. FreeListed(y, {c})
  <2>1. Free(y) \ {c} = Free(x) \ {} /\ c \in Free(y)
    BY <1>3, <1>5, <1>6, <1>7 DEF Free, Used
  <2> QED BY <1>1, <1>2, <2>1 DEF FreeListed
<1>10. \A d \in Contexts \ {c} : Driven(y, d) = Driven(x, d)
  BY <1>3, <1>4, <1>6, <1>7 DEF Driven, Used
<1>11. Bars(y, {c})
  BY <1>1, <1>2, <1>10 DEF Bars
<1>12. \A t \in ToSet(x.runQueue) : t \in Threads /\ Mask[t] \subseteq Contexts
  BY <1>1, FieldTypes, MaskAssumption DEF ToSet
<1>13. Conserved(y, {c})
  BY <1>1, <1>2, <1>10, <1>12 DEF Conserved
<1>14. Promises(y, b)
  <2>1. \A w \in Threads : x.handoffThread[w] \in Threads \cup {Nobody}
    BY <1>1, FieldTypes
  <2>2. \A t \in ToSet(y.runQueue) : y.state[t] = "QUEUED"
    BY <1>1, <1>2, <1>4, <1>7, <1>12 DEF Promises
  <2>3. \A w \in Threads : y.handoffThread[w] # Nobody => y.state[y.handoffThread[w]] = "QUEUED"
    BY <1>1, <1>2, <1>4, <1>7, <2>1 DEF Promises
  <2>4. \A t \in Threads \ {b} : y.state[t] = "QUEUED" => x.state[t] = "QUEUED"
    BY <1>4, <1>7
  <2> QED BY <1>1, <1>2, <2>2, <2>3, <2>4 DEF Promises
<1>15. ASSUME NEW t \in Threads \ {b} PROVE Knows(y, k, t)
  <2>1. Knows(x, k, t)
    BY <1>1
  <2>2. CASE t = v
    BY <1>2, <1>4, <2>1, <2>2 DEF Knows
  <2>3. CASE t # v
    <3>1. y.state[t] = x.state[t]
      BY <1>4, <2>3
    <3> QED BY <1>2, <2>1, <3>1 DEF Knows
  <2> QED BY <2>2, <2>3
<1>16. Kept(x, y, b)
  BY <1>2, <1>4 DEF Kept
<1>17. OutBoth(x, v, c)
  BY <1>1, <1>5, <1>7 DEF Bars, Driven, Used, OutBoth
<1> QED BY <1>1, <1>2, <1>5, <1>8, <1>9, <1>11, <1>13, <1>14, <1>15, <1>16, <1>17 DEF Inv

\* A context is taken from the free list.
LEMMA Takes ==
  ASSUME NEW x, NEW y \in Sched, NEW k, NEW b, NEW c \in Free(x), Inv(x, k, {}, b),
         Same(x, y, {"freeList"}), Lists(y.freeList, Free(x) \ {c})
  PROVE  Inv(y, k, {c}, b) /\ Kept(x, y, b) /\ x.bar[c] = "out"
<1>1. /\ x \in Sched /\ Lists(x.fakeLeaves, ToSet(x.fakeLeaves)) /\ Placed(x) /\ FreeListed(x, {})
      /\ Bars(x, {}) /\ Conserved(x, {}) /\ Promises(x, b) /\ Sorted(x)
      /\ \A t \in Threads \ {b} : Knows(x, k, t)
  BY DEF Inv
<1>2. /\ y.state = x.state /\ y.curThread = x.curThread /\ y.outQueue = x.outQueue /\ y.sleepQueue = x.sleepQueue
      /\ y.runQueue = x.runQueue /\ y.futexWord = x.futexWord /\ y.cid = x.cid /\ y.marked = x.marked
      /\ y.fakeLeaves = x.fakeLeaves /\ y.due = x.due /\ y.bar = x.bar /\ y.handoffThread = x.handoffThread
  BY DEF Same, Fields
<1>3. FreeListed(y, {c})
  BY <1>2 DEF FreeListed, Free, Used
<1>4. Placed(y) /\ Sorted(y) /\ Promises(y, b)
  BY <1>1, <1>2 DEF Placed, Sorted, Promises, In, Used
<1>5. Bars(y, {c}) /\ Conserved(y, {c})
  BY <1>1, <1>2 DEF Bars, Conserved, Driven, Used
<1>6. \A t \in Threads \ {b} : Knows(y, k, t)
  BY <1>1, <1>2 DEF Knows
<1>7. Kept(x, y, b)
  BY <1>2 DEF Kept
<1>8. x.bar[c] = "out"
  BY <1>1 DEF Bars, Driven, Free
<1> QED BY <1>1, <1>2, <1>3, <1>4, <1>5, <1>6, <1>7, <1>8 DEF Inv

\* Context c becomes free, with nobody waiting for it.
PutsBack(x, y, c) ==
    /\ y \in Sched /\ Same(x, y, {"freeList", "bar"}) /\ Lists(y.freeList, (Free(x) \ {c}) \cup {c})
    /\ y.bar = [x.bar EXCEPT ![c] = "out"]
    /\ \A t \in ToSet(x.runQueue) : c \notin Mask[t]

\* The context that is passed on may become free.
LEMMA Frees ==
  ASSUME NEW x, NEW y, NEW k, NEW b, NEW c \in Contexts, Inv(x, k, {c}, b), PutsBack(x, y, c)
  PROVE  Inv(y, k, {}, b) /\ Kept(x, y, b)
<1>1. /\ x \in Sched /\ Lists(x.fakeLeaves, ToSet(x.fakeLeaves)) /\ Placed(x) /\ FreeListed(x, {c})
      /\ Bars(x, {c}) /\ Conserved(x, {c}) /\ Promises(x, b) /\ Sorted(x)
      /\ \A t \in Threads \ {b} : Knows(x, k, t)
  BY DEF Inv
<1> USE DEF PutsBack
<1>2. /\ y.state = x.state /\ y.curThread = x.curThread /\ y.outQueue = x.outQueue /\ y.sleepQueue = x.sleepQueue
      /\ y.runQueue = x.runQueue /\ y.futexWord = x.futexWord /\ y.cid = x.cid /\ y.marked = x.marked
      /\ y.fakeLeaves = x.fakeLeaves /\ y.due = x.due /\ y.handoffThread = x.handoffThread
  BY DEF Same, Fields
<1>3. x.bar \in [Contexts -> {"out", "running", "done"}] /\ x.cid \in [Threads -> Contexts]
  BY <1>1, FieldTypes
<1>4. FreeListed(y, {})
  <2>1. Free(y) \ {} = (Free(x) \ {c}) \cup {c}
    BY <1>1, <1>2 DEF FreeListed, Free, Used
  <2> QED BY <2>1 DEF FreeListed
<1>5. Placed(y) /\ Sorted(y) /\ Promises(y, b)
  BY <1>1, <1>2 DEF Placed, Sorted, Promises, In, Used
<1>6. ~Used(x, c)
  BY <1>1 DEF FreeListed, Free
<1>7. Bars(y, {})
  BY <1>1, <1>2, <1>3, <1>6 DEF Bars, Driven, Used
<1>8. Conserved(y, {})
  BY <1>1, <1>2 DEF Conserved, Driven, Used
<1>9. ASSUME NEW t \in Threads \ {b} PROVE Knows(y, k, t)
  <2>1. Knows(x, k, t)
    BY <1>1
  <2>2. x.state[t] = "RUNNING" => y.bar[y.cid[t]] = x.bar[x.cid[t]]
    BY <1>1, <1>2, <1>3, <1>6, OneContext
  <2> QED BY <1>2, <2>1, <2>2 DEF Knows
<1>10. Kept(x, y, b)
  BY <1>2 DEF Kept
<1> QED BY <1>1, <1>2, <1>4, <1>5, <1>7, <1>8, <1>9, <1>10 DEF Inv

\* Thread b leaves context c, which stays its own, or comes back to it.
LeavesOrJoins(x, y, c, to, b) ==
    /\ c = x.cid[b]
    /\ y \in Sched /\ Same(x, y, {"state", "outQueue", "bar"}) /\ y.state = [x.state EXCEPT ![b] = to]
    /\ y.bar = [x.bar EXCEPT ![c] = IF to = "OUT" THEN "out" ELSE "running"]
    /\ \/ /\ x.state[b] = "RUNNING" /\ to = "OUT" /\ Lists(y.outQueue, In(x, "OUT") \cup {b})
          /\ \A t \in ToSet(x.runQueue) : c \notin Mask[t]
       \/ x.state[b] = "OUT" /\ to = "RUNNING" /\ Lists(y.outQueue, In(x, "OUT") \ {b})

\* The thread at work may do so.
LEMMA GoesOrComes ==
  ASSUME NEW x, NEW y, NEW k, NEW b \in Threads, NEW c, NEW to, Inv(x, k, {}, b), LeavesOrJoins(x, y, c, to, b)
  PROVE  Inv(y, k, {}, b) /\ Kept(x, y, b)
<1>1. /\ x \in Sched /\ Lists(x.fakeLeaves, ToSet(x.fakeLeaves)) /\ Placed(x) /\ FreeListed(x, {})
      /\ Bars(x, {}) /\ Conserved(x, {}) /\ Promises(x, b) /\ Sorted(x)
      /\ \A t \in Threads \ {b} : Knows(x, k, t)
  BY DEF Inv
<1> USE DEF LeavesOrJoins
<1>2. /\ y.freeList = x.freeList /\ y.curThread = x.curThread /\ y.sleepQueue = x.sleepQueue
      /\ y.runQueue = x.runQueue /\ y.futexWord = x.futexWord /\ y.cid = x.cid /\ y.marked = x.marked
      /\ y.fakeLeaves = x.fakeLeaves /\ y.due = x.due /\ y.handoffThread = x.handoffThread
  BY DEF Same, Fields
<1>3. /\ x.state \in [Threads -> States] /\ x.bar \in [Contexts -> {"out", "running", "done"}]
      /\ x.cid \in [Threads -> Contexts] /\ c \in Contexts /\ x.curThread \in [Contexts -> Threads \cup {Nobody}]
  BY <1>1, FieldTypes
<1>4. (\A t \in Threads : t # b => y.state[t] = x.state[t]) /\ y.state[b] = to
  BY <1>3
<1>5. /\ x.curThread[c] = b /\ Used(x, c) /\ \A d \in Contexts : x.curThread[d] = b => d = c
      /\ \A t \in Threads : t # b /\ x.state[t] \in {"RUNNING", "OUT"} => x.cid[t] # c
  BY <1>1, OneContext
<1>6. FreeListed(y, {})
  BY <1>1, <1>2 DEF FreeListed, Free, Used
<1>7. Placed(y)
  <2>1. In(y, "SLEEPING") = In(x, "SLEEPING")
    BY <1>4 DEF In
  <2>2. In(y, "OUT") = IF to = "OUT" THEN In(x, "OUT") \cup {b} ELSE In(x, "OUT") \ {b}
    BY <1>4 DEF In
  <2>3. \A d \in Contexts : Used(y, d) => y.state[y.curThread[d]] \in {"RUNNING", "OUT"} /\ y.cid[y.curThread[d]] = d
    BY <1>1, <1>2, <1>3, <1>4, <1>5 DEF Placed, Used
  <2>4. \A t \in Threads : y.state[t] \in {"RUNNING", "OUT"} => y.curThread[y.cid[t]] = t
    BY <1>1, <1>2, <1>4 DEF Placed
  <2>5. Lists(y.outQueue, In(y, "OUT"))
    BY <2>2
  <2>6. Lists(y.sleepQueue, In(y, "SLEEPING"))
    BY <1>1, <1>2, <2>1 DEF Placed
  <2> QED BY <2>3, <2>4, <2>5, <2>6 DEF Placed
<1>8. \A d \in Contexts \ {c} : Driven(y, d) = Driven(x, d)
  BY <1>2, <1>3, <1>4, <1>5 DEF Driven, Used
<1>9. Driven(y, c) <=> to = "RUNNING"
  BY <1>2, <1>4, <1>5 DEF Driven, Used
<1>10. Bars(y, {})
  BY <1>1, <1>3, <1>8, <1>9 DEF Bars
<1>11. \A t \in ToSet(x.runQueue) : t \in Threads /\ Mask[t] \subseteq Contexts
  BY <1>1, FieldTypes, MaskAssumption DEF ToSet
<1>12. Conserved(y, {})
  BY <1>1, <1>2, <1>8, <1>9, <1>11 DEF Conserved
<1>13. Promises(y, b)
  <2>1. \A w \in Threads : x.handoffThread[w] \in Threads \cup {Nobody}
    BY <1>1, FieldTypes
  <2>2. \A t \in Threads : y.state[t] = "QUEUED" <=> x.state[t] = "QUEUED"
    BY <1>4
  <2> QED BY <1>1, <1>2, <1>11, <2>1, <2>2 DEF Promises
<1>14. Sorted(y)
  BY <1>1, <1>2, <1>4 DEF Sorted
<1>15. ASSUME NEW t \in Threads \ {b} PROVE Knows(y, k, t)
  <2>1. Knows(x, k, t) /\ y.state[t] = x.state[t]
    BY <1>1, <1>4
  <2>2. x.state[t] = "RUNNING" => y.bar[y.cid[t]] = x.bar[x.cid[t]]
    BY <1>2, <1>3, <1>5
  <2> QED BY <1>2, <2>1, <2>2 DEF Knows
<1>16. Kept(x, y, b)
  BY <1>2, <1>4 DEF Kept
<1> QED BY <1>1, <1>2, <1>6, <1>7, <1>10, <1>12, <1>13, <1>14, <1>15, <1>16 DEF Inv

\* Thread b changes what is its own: it starts, ends, wakes up, is marked, or its leave is put off.
OwnChange(x, y, b) ==
    /\ y \in Sched /\ Same(x, y, {"state", "sleepQueue", "futexWord", "due", "marked", "fakeLeaves", "failed"})
    /\ \A t \in Threads \ {b} : /\ y.state[t] = x.state[t] /\ y.futexWord[t] = x.futexWord[t] /\ y.due[t] = x.due[t]
                                /\ t \in y.marked => t \in x.marked
                                /\ t \in ToSet(y.fakeLeaves) => t \in ToSet(x.fakeLeaves)
    /\ Lists(y.fakeLeaves, ToSet(y.fakeLeaves)) /\ Lists(y.sleepQueue, In(y, "SLEEPING")) /\ Sorted(y)
    /\ b \in Threads => \/ x.state[b] = y.state[b] /\ y.state[b] # "QUEUED"
                        \/ /\ x.state[b] \in {"NONE", "STARTED", "BLOCKED", "SLEEPING"}
                           /\ y.state[b] \in {"NONE", "STARTED", "BLOCKED", "SLEEPING"}

\* The thread at work may do so.
LEMMA Own ==
  ASSUME NEW x, NEW y, NEW k, NEW b, Inv(x, k, {}, b), OwnChange(x, y, b)
  PROVE  Inv(y, k, {}, b)
<1>1. /\ x \in Sched /\ Placed(x) /\ FreeListed(x, {})
      /\ Bars(x, {}) /\ Conserved(x, {}) /\ Promises(x, b) /\ Sorted(x)
      /\ \A t \in Threads \ {b} : Knows(x, k, t)
  BY DEF Inv
<1> USE DEF OwnChange
<1>2. /\ y.freeList = x.freeList /\ y.curThread = x.curThread /\ y.outQueue = x.outQueue
      /\ y.runQueue = x.runQueue /\ y.cid = x.cid /\ y.bar = x.bar /\ y.handoffThread = x.handoffThread
  BY DEF Same, Fields
<1>3. \A t \in Threads : /\ y.state[t] = "RUNNING" <=> x.state[t] = "RUNNING"
                         /\ y.state[t] = "OUT" <=> x.state[t] = "OUT"
                         /\ t # b => (y.state[t] = "QUEUED" <=> x.state[t] = "QUEUED")
                         /\ x.state[t] = "QUEUED" => t # b
  OBVIOUS
<1>4. /\ \A t \in ToSet(x.runQueue) : t \in Threads
      /\ \A t \in Threads : x.handoffThread[t] \in Threads \cup {Nobody}
      /\ \A c \in Contexts : x.curThread[c] \in Threads \cup {Nobody}
  BY <1>1, FieldTypes DEF ToSet
<1>5. FreeListed(y, {})
  BY <1>1, <1>2 DEF FreeListed, Free, Used
<1>6. Placed(y)
  <2>1. In(y, "OUT") = In(x, "OUT")
    BY <1>3 DEF In
  <2> QED BY <1>1, <1>2, <1>3, <1>4, <2>1 DEF Placed, Used
<1>7. \A c \in Contexts : Driven(y, c) = Driven(x, c)
  BY <1>2, <1>3, <1>4 DEF Driven, Used
<1>8. Bars(y, {})
  BY <1>1, <1>2, <1>7 DEF Bars
<1>9. Conserved(y, {})
  BY <1>1, <1>2, <1>4, <1>7, MaskAssumption DEF Conserved
<1>10. Promises(y, b)
  <2>1. \A t \in Threads : x.state[t] = "QUEUED" => y.state[t] = "QUEUED"
    BY <1>3
  <2> QED BY <1>1, <1>2, <1>3, <1>4, <2>1 DEF Promises
<1>11. \A t \in Threads \ {b} : Knows(y, k, t)
  BY <1>1, <1>2 DEF Knows
<1> QED BY <1>2, <1>5, <1>6, <1>8, <1>9, <1>10, <1>11 DEF Inv

\* Thread b starts to wait for a context.
StartsWaiting(x, y, b) ==
    /\ y \in Sched /\ Same(x, y, {"state", "runQueue", "futexWord"})
    /\ y.state = [x.state EXCEPT ![b] = "QUEUED"] /\ y.futexWord = [x.futexWord EXCEPT ![b] = 1]
    /\ Lists(y.runQueue, ToSet(x.runQueue) \cup {b}) /\ b \notin ToSet(x.runQueue)
    /\ x.state[b] \in {"STARTED", "BLOCKED", "QUEUED"} /\ \A c \in Mask[b] : Driven(x, c)
    /\ \A t \in Threads : x.handoffThread[t] # b
    /\ x.handoffThread[b] = Nobody /\ b \notin ToSet(x.fakeLeaves) /\ b \notin x.marked

\* The thread at work may do so if there is no context for it.
LEMMA Waits ==
  ASSUME NEW x, NEW y, NEW k \in [Threads -> Labels], NEW b \in Threads, Inv(x, k, {}, b), StartsWaiting(x, y, b)
  PROVE  Inv(y, [k EXCEPT ![b] = "wait"], {}, Nobody) /\ Kept(x, y, b)
<1> DEFINE k2 == [k EXCEPT ![b] = "wait"]
<1>1. /\ x \in Sched /\ Lists(x.fakeLeaves, ToSet(x.fakeLeaves)) /\ Placed(x) /\ FreeListed(x, {})
      /\ Bars(x, {}) /\ Conserved(x, {}) /\ Promises(x, b) /\ Sorted(x)
      /\ \A t \in Threads \ {b} : Knows(x, k, t)
  BY DEF Inv
<1> USE DEF StartsWaiting
<1>2. /\ y.freeList = x.freeList /\ y.curThread = x.curThread /\ y.outQueue = x.outQueue /\ y.sleepQueue = x.sleepQueue
      /\ y.cid = x.cid /\ y.marked = x.marked /\ y.bar = x.bar
      /\ y.fakeLeaves = x.fakeLeaves /\ y.due = x.due /\ y.handoffThread = x.handoffThread
  BY DEF Same, Fields
<1>3. /\ \A t \in Threads : t # b => y.state[t] = x.state[t] /\ y.futexWord[t] = x.futexWord[t] /\ k2[t] = k[t]
      /\ y.state[b] = "QUEUED" /\ y.futexWord[b] = 1 /\ k2[b] = "wait"
  BY <1>1, FieldTypes
<1> HIDE DEF k2
<1>4. /\ \A t \in ToSet(x.runQueue) : t \in Threads
      /\ \A t \in Threads : x.handoffThread[t] \in Threads \cup {Nobody}
      /\ \A c \in Contexts : x.curThread[c] \in Threads \cup {Nobody}
      /\ ToSet(y.runQueue) = ToSet(x.runQueue) \cup {b}
  <2>1. ToSet(y.runQueue) = ToSet(x.runQueue) \cup {b}
    BY DEF Lists
  <2>2. \A t \in ToSet(x.runQueue) : t \in Threads
    BY <1>1, FieldTypes DEF ToSet
  <2> QED BY <1>1, <2>1, <2>2, FieldTypes
<1>5. FreeListed(y, {})
  BY <1>1, <1>2 DEF FreeListed, Free, Used
<1>6. \A c \in Contexts : x.curThread[c] # b
  BY <1>1, <1>4 DEF Placed, Used
<1>7. Placed(y)
  <2>1. In(y, "OUT") = In(x, "OUT") /\ In(y, "SLEEPING") = In(x, "SLEEPING")
    BY <1>3 DEF In
  <2> QED BY <1>1, <1>2, <1>3, <1>4, <1>6, <2>1 DEF Placed, Used
<1>8. \A c \in Contexts : Driven(y, c) = Driven(x, c)
  BY <1>2, <1>3, <1>4, <1>6 DEF Driven, Used
<1>9. Bars(y, {})
  BY <1>1, <1>2, <1>8 DEF Bars
<1>10. Conserved(y, {})
  BY <1>1, <1>4, <1>8, MaskAssumption DEF Conserved
<1>11. Promises(y, Nobody)
  <2>1. Lists(y.runQueue, ToSet(y.runQueue))
    BY <1>4
  <2> QED BY <1>1, <1>2, <1>3, <1>4, <2>1 DEF Promises
<1>12. Sorted(y)
  BY <1>1, <1>2, <1>3 DEF Sorted
<1>13. ASSUME NEW t \in Threads PROVE Knows(y, k2, t)
  <2>1. CASE t = b
    BY <1>2, <1>3, <2>1 DEF Knows
  <2>2. CASE t # b
    BY <1>1, <1>2, <1>3, <2>2 DEF Knows
  <2> QED BY <2>1, <2>2
<1>14. Kept(x, y, b)
  BY <1>2, <1>3 DEF Kept
<1>15. Inv(y, k2, {}, Nobody)
  BY <1>1, <1>2, <1>5, <1>7, <1>9, <1>10, <1>11, <1>12, <1>13 DEF Inv
<1> QED BY <1>14, <1>15 DEF k2

\* The thread at work is done, and somewhere else.
LEMMA Lands ==
  ASSUME NEW x, NEW k \in [Threads -> Labels], NEW b \in Threads, NEW l, NEW k2, k2 = [k EXCEPT ![b] = l],
         Inv(x, k, {}, b), x.state[b] # "QUEUED", Knows(x, k2, b)
  PROVE  Inv(x, k2, {}, Nobody)
<1>1. /\ Promises(x, b) /\ \A t \in Threads \ {b} : Knows(x, k, t)
  BY DEF Inv
<1>2. \A t \in Threads : t # b => k2[t] = k[t]
  OBVIOUS
<1>3. \A t \in Threads : Knows(x, k2, t)
  BY <1>1, <1>2 DEF Knows
<1>4. Promises(x, Nobody)
  BY <1>1 DEF Promises
<1> QED BY <1>3, <1>4 DEF Inv

\* Whoever is at work may be left out.
LEMMA Enters ==
  ASSUME NEW x, NEW k, NEW b, Inv(x, k, {}, Nobody)
  PROVE  Inv(x, k, {}, b)
  BY DEF Inv, Promises

----------------------------------------------------------------------------
(* The operations. *)

\* Assertions that hold do nothing.
LEMMA Holds ==
  ASSUME NEW x, NEW cond, cond, NEW what
  PROVE  Check(x, cond, what) = x
  BY DEF Check

\* A list is a sequence of whatever its members are.
LEMMA ListSeq ==
  ASSUME NEW S, NEW T, S \subseteq T, NEW q, Lists(q, S)
  PROVE  q \in Seq(T)
<1>1. q \in Seq(S)
  BY DEF Lists
<1> QED BY <1>1

\* What Inv says of the lists.
LEMMA InvLists ==
  ASSUME NEW x, NEW k, NEW H, NEW b, Inv(x, k, H, b)
  PROVE  /\ x \in Sched /\ Lists(x.freeList, Free(x) \ H) /\ Lists(x.outQueue, In(x, "OUT"))
         /\ Lists(x.sleepQueue, In(x, "SLEEPING")) /\ Lists(x.runQueue, ToSet(x.runQueue))
         /\ Lists(x.fakeLeaves, ToSet(x.fakeLeaves))
         /\ Free(x) \subseteq Contexts /\ Nobody \notin Free(x)
         /\ ToSet(x.runQueue) \subseteq Threads /\ ToSet(x.fakeLeaves) \subseteq Threads
<1>1. x \in Sched /\ Free(x) \subseteq Contexts
  BY DEF Inv, Free
<1> QED BY <1>1, FieldTypes DEF Inv, FreeListed, Placed, Promises, ToSet

\* schedThread takes a context away from where it is, or there is none to be had.
LEMMA SchedThread ==
  ASSUME NEW x, NEW k, NEW t \in Threads, Inv(x, k, {}, t), x.failed = "none",
         x.state[t] \in {"STARTED", "BLOCKED", "QUEUED"}, NEW p, p = schedThread(x, t)
  PROVE  \/ p.ctx = Nobody /\ p.x = x /\ \A c \in Mask[t] : Driven(x, c)
         \/ /\ p.ctx \in Contexts /\ Inv(p.x, k, {p.ctx}, t) /\ Kept(x, p.x, t)
            /\ p.x.bar[p.ctx] = "out" /\ p.x.state[t] = x.state[t] /\ p.x.failed = "none"
            /\ p.x.handoffThread = x.handoffThread /\ p.x.runQueue = x.runQueue /\ p.x.marked = x.marked
<1> DEFINE last == x.cid[t]
           free == First(x.freeList, Mask[t])
           out == First(x.outQueue, {u \in Threads : x.cid[u] \in Mask[t]})
<1>1. /\ x \in Sched /\ Lists(x.freeList, Free(x)) /\ Lists(x.outQueue, In(x, "OUT"))
      /\ Lists(x.sleepQueue, In(x, "SLEEPING")) /\ Sorted(x) /\ Placed(x)
  <2>1. Free(x) \ {} = Free(x)
    OBVIOUS
  <2> QED BY <2>1, InvLists DEF Inv
<1>2. ASSUME NEW c \in Free(x), p = [ctx |-> c, x |-> [x EXCEPT !.freeList = RemoveFirst(@, c)]]
      PROVE  /\ p.ctx \in Contexts /\ Inv(p.x, k, {p.ctx}, t) /\ Kept(x, p.x, t)
             /\ p.x.bar[p.ctx] = "out" /\ p.x.state[t] = x.state[t] /\ p.x.failed = "none"
             /\ p.x.handoffThread = x.handoffThread /\ p.x.runQueue = x.runQueue /\ p.x.marked = x.marked
  <2> DEFINE q == RemoveFirst(x.freeList, c)
             y == [x EXCEPT !.freeList = q]
  <2>1. Lists(q, Free(x) \ {c}) /\ c \in Contexts
    BY <1>1, ListRemove DEF Free
  <2>2. q \in Seq(Contexts)
    BY <2>1, ListSeq DEF Free
  <2>3. p.x = y /\ p.ctx = c
    BY <1>2
  <2> HIDE DEF q
  <2>4. y \in Sched /\ Same(x, y, {"freeList"}) /\ y.freeList = q
    BY <1>1, <2>2 DEF Sched, Same, Fields
  <2> HIDE DEF y
  <2>5. Inv(y, k, {c}, t) /\ Kept(x, y, t) /\ x.bar[c] = "out"
    BY <1>2, <2>1, <2>4, Takes
  <2>6. /\ y.bar = x.bar /\ y.state = x.state /\ y.failed = x.failed
        /\ y.handoffThread = x.handoffThread /\ y.runQueue = x.runQueue /\ y.marked = x.marked
    BY <2>4 DEF Same, Fields
  <2> QED BY <2>1, <2>3, <2>5, <2>6
<1>3. CASE ~Used(x, last) /\ last \in Mask[t]
  <2>1. last \in Free(x)
    BY <1>1, <1>3, FieldTypes DEF Free
  <2>2. p = [ctx |-> last, x |-> [x EXCEPT !.freeList = RemoveFirst(@, last)]]
    BY <1>3 DEF schedThread
  <2> QED BY <1>2, <2>1, <2>2
<1>4. CASE ~(~Used(x, last) /\ last \in Mask[t]) /\ free # Nobody
  <2>1. free \in Free(x)
    BY <1>1, <1>4, FirstIs, NobodyAssumption DEF Free
  <2>2. p = [ctx |-> free, x |-> [x EXCEPT !.freeList = RemoveFirst(@, free)]]
    BY <1>4 DEF schedThread
  <2> QED BY <1>2, <2>1, <2>2
<1>5. CASE ~(~Used(x, last) /\ last \in Mask[t]) /\ free = Nobody /\ out # Nobody
  <2> DEFINE c == x.cid[out]
             q == RemoveFirst(x.outQueue, out)
             y == [x EXCEPT !.outQueue = q, !.state[out] = "BLOCKED", !.curThread[c] = Nobody]
             w == [x EXCEPT !.outQueue = q]
  <2>1. p = [ctx |-> c, x |-> deschedule(w, out, c, "BLOCKED")]
    BY <1>5 DEF schedThread
  <2>2. out \in In(x, "OUT") /\ Nobody \notin In(x, "OUT")
    BY <1>1, <1>5, FirstIs DEF In
  <2>3. out \in Threads /\ x.state[out] = "OUT" /\ out # t
    BY <2>2 DEF In
  <2> HIDE DEF out
  <2>4. c \in Contexts /\ c = x.cid[out] /\ x.curThread[c] = out
    BY <1>1, <2>3, OneContext
  <2>5. Lists(q, In(x, "OUT") \ {out})
    BY <1>1, ListRemove
  <2>6. q \in Seq(Threads)
    BY <2>5, ListSeq DEF In
  <2> HIDE DEF q
  <2>7. deschedule(w, out, c, "BLOCKED") = y
    <3>1. /\ w.state = x.state /\ w.curThread = x.curThread /\ w.cid = x.cid
          /\ [w EXCEPT !.state[out] = "BLOCKED", !.curThread[c] = Nobody] = y
      BY <1>1 DEF Sched
    <3> QED BY <2>3, <2>4, <3>1 DEF deschedule, Check
  <2>8. /\ y \in Sched /\ Same(x, y, {"state", "curThread", "outQueue", "sleepQueue", "marked"})
        /\ y.state = [x.state EXCEPT ![out] = "BLOCKED"] /\ y.curThread = [x.curThread EXCEPT ![c] = Nobody]
        /\ y.outQueue = q /\ y.sleepQueue = x.sleepQueue /\ y.marked = x.marked
    BY <1>1, <2>3, <2>4, <2>6 DEF Sched, Same, Fields, States
  <2> HIDE DEF y
  <2>9. \A u \in Threads : y.state[u] = "SLEEPING" <=> x.state[u] = "SLEEPING"
    BY <1>1, <2>3, <2>8, FieldTypes
  <2>10. /\ y.futexWord = x.futexWord /\ y.due = x.due /\ y.failed = x.failed /\ y.bar = x.bar
         /\ y.handoffThread = x.handoffThread /\ y.runQueue = x.runQueue
    BY <2>8 DEF Same, Fields
  <2>11. In(y, "SLEEPING") = In(x, "SLEEPING") /\ Sorted(y)
    BY <1>1, <2>8, <2>9, <2>10 DEF In, Sorted
  <2> HIDE DEF c
  <2>12. Inv(y, k, {c}, t) /\ Kept(x, y, t) /\ OutBoth(x, out, c) /\ c \in Contexts
    <3>1. Lists(y.outQueue, In(x, "OUT") \ {out}) /\ Lists(y.sleepQueue, In(y, "SLEEPING")) /\ y.marked \subseteq x.marked
      BY <1>1, <2>5, <2>8, <2>11
    <3>2. x.state[out] = "OUT" /\ out \in Threads /\ c = x.cid[out]
      BY <2>3, <2>4
    <3>3. /\ y \in Sched /\ Same(x, y, {"state", "curThread", "outQueue", "sleepQueue", "marked"}) /\ Sorted(y)
          /\ y.state = [x.state EXCEPT ![out] = "BLOCKED"] /\ y.curThread = [x.curThread EXCEPT ![c] = Nobody]
      BY <2>8, <2>11
    <3>4. GivesUp(x, y, out, c, "BLOCKED", t)
      BY <3>1, <3>2, <3>3 DEF GivesUp
    <3> QED BY <3>2, <3>4, Parts
  <2>13. y.state[t] = x.state[t]
    BY <1>1, <2>3, <2>8, FieldTypes
  <2>14. p.ctx = c /\ p.x = y
    BY <2>1, <2>7
  <2>15. y.bar[c] = "out"
    BY <2>3, <2>10, <2>12 DEF OutBoth
  <2> QED BY <2>8, <2>10, <2>12, <2>13, <2>14, <2>15
<1>6. CASE ~(~Used(x, last) /\ last \in Mask[t]) /\ free = Nobody /\ out = Nobody
  <2>1. p = [ctx |-> Nobody, x |-> x]
    BY <1>6 DEF schedThread
  <2>2. Free(x) \cap Mask[t] = {}
    BY <1>1, <1>6, FirstIs DEF Free
  <2>3. In(x, "OUT") \cap {u \in Threads : x.cid[u] \in Mask[t]} = {}
    BY <1>1, <1>6, FirstIs DEF In
  <2>4. ASSUME NEW c \in Mask[t] PROVE Driven(x, c)
    <3>1. c \in Contexts /\ Used(x, c)
      BY <2>2, MaskAssumption DEF Free
    <3>2. x.curThread[c] \in Threads /\ x.cid[x.curThread[c]] = c /\ x.state[x.curThread[c]] \in {"RUNNING", "OUT"}
      BY <1>1, <3>1, FieldTypes DEF Placed, Used
    <3>3. x.state[x.curThread[c]] # "OUT"
      BY <2>3, <2>4, <3>2 DEF In
    <3> QED BY <3>1, <3>2, <3>3 DEF Driven
  <2> QED BY <2>1, <2>4
<1> QED BY <1>3, <1>4, <1>5, <1>6


\* What a thread does with the context that was found, if any, keeps the invariant.
Obtained(x, p, k, t) ==
    /\ p.ctx # Nobody =>
         LET z == BarJoin(schedule(p.x, t, p.ctx), p.ctx)
         IN  z.failed = "none" /\ Inv(z, [k EXCEPT ![t] = "run"], {}, Nobody) /\ Kept(x, z, t)
    /\ p.ctx = Nobody =>
         LET z == Wait(x, t)
         IN  z.failed = "none" /\ Inv(z, [k EXCEPT ![t] = "wait"], {}, Nobody) /\ Kept(x, z, t)

\* A thread that is at work gets a context and runs, or waits for one.
LEMMA Obtains ==
  ASSUME NEW x, NEW k \in [Threads -> Labels], NEW t \in Threads, Inv(x, k, {}, t), x.failed = "none",
         x.state[t] \in {"STARTED", "BLOCKED", "QUEUED"}, t \notin ToSet(x.runQueue),
         \A u \in Threads : x.handoffThread[u] # t,
         x.handoffThread[t] = Nobody, t \notin ToSet(x.fakeLeaves), t \notin x.marked,
         NEW p, p = schedThread(x, t)
  PROVE  Obtained(x, p, k, t)
<1>1. x \in Sched /\ Lists(x.runQueue, ToSet(x.runQueue)) /\ ToSet(x.runQueue) \subseteq Threads
  BY InvLists
<1>2. ASSUME p.ctx # Nobody, NEW z, z = BarJoin(schedule(p.x, t, p.ctx), p.ctx)
      PROVE  z.failed = "none" /\ Inv(z, [k EXCEPT ![t] = "run"], {}, Nobody) /\ Kept(x, z, t)
  <2> DEFINE c == p.ctx
             w == p.x
             y == [w EXCEPT !.state[t] = "RUNNING", !.cid[t] = c, !.curThread[c] = t, !.bar[c] = "running"]
             v == [w EXCEPT !.state[t] = "RUNNING", !.cid[t] = c, !.curThread[c] = t]
  <2>1. /\ c \in Contexts /\ Inv(w, k, {c}, t) /\ Kept(x, w, t)
        /\ w.bar[c] = "out" /\ w.state[t] = x.state[t] /\ w.failed = "none"
        /\ w.handoffThread = x.handoffThread /\ w.runQueue = x.runQueue /\ w.marked = x.marked
    BY <1>2, SchedThread
  <2>2. w \in Sched /\ ~Used(w, c) /\ z = BarJoin(schedule(w, t, c), c)
    <3>1. FreeListed(w, {c}) /\ w \in Sched
      BY <2>1 DEF Inv
    <3> QED BY <1>2, <3>1 DEF FreeListed, Free
  <2> HIDE DEF w, c
  <2>3. schedule(w, t, c) = v
    BY <2>1, <2>2 DEF schedule, Check
  <2>4. v.bar = w.bar /\ v.failed = w.failed /\ y = [v EXCEPT !.bar[c] = "running"]
    BY <2>2 DEF Sched
  <2> HIDE DEF v
  <2>5. z = y
    BY <2>1, <2>2, <2>3, <2>4 DEF BarJoin, Check
  <2>6. /\ y \in Sched
        /\ Same(w, y, {"state", "cid", "curThread", "bar", "runQueue", "futexWord", "handoffThread"})
        /\ y.state = [w.state EXCEPT ![t] = "RUNNING"] /\ y.cid = [w.cid EXCEPT ![t] = c]
        /\ y.curThread = [w.curThread EXCEPT ![c] = t] /\ y.bar = [w.bar EXCEPT ![c] = "running"]
        /\ y.runQueue = w.runQueue /\ y.futexWord = w.futexWord /\ y.handoffThread = w.handoffThread
    BY <2>1, <2>2 DEF Sched, Same, Fields, States
  <2> HIDE DEF y
  <2>7. Lists(y.runQueue, ToSet(w.runQueue) \ {t})
    <3>1. ToSet(w.runQueue) \ {t} = ToSet(x.runQueue)
      BY <2>1
    <3> QED BY <1>1, <2>1, <2>6, <3>1
  <2>8. GetsContext(w, y, t, c, t)
    <3>1. \A u \in Threads : /\ y.futexWord[u] = w.futexWord[u] /\ w.handoffThread[u] # t
                             /\ y.handoffThread[u] = w.handoffThread[u]
      BY <2>1, <2>6
    <3> QED BY <2>1, <2>6, <2>7, <3>1 DEF GetsContext
  <2>9. Inv(y, k, {}, t) /\ Kept(w, y, t)
    BY <2>1, <2>8, Schedules
  <2>10. /\ y.failed = "none" /\ y.marked = x.marked /\ y.fakeLeaves = x.fakeLeaves
         /\ y.state[t] = "RUNNING" /\ y.cid[t] = c /\ y.bar[c] = "running" /\ y.handoffThread[t] = Nobody
    <3>1. w.fakeLeaves = x.fakeLeaves
      BY <2>1 DEF Kept
    <3> QED BY <2>1, <2>2, <2>6, <3>1, FieldTypes DEF Same, Fields
  <2>11. Knows(y, [k EXCEPT ![t] = "run"], t)
    BY <2>10 DEF Knows
  <2>12. Inv(y, [k EXCEPT ![t] = "run"], {}, Nobody)
    BY <2>9, <2>10, <2>11, Lands
  <2> QED BY <2>1, <2>5, <2>9, <2>10, <2>12, KeptTwice
<1>3. ASSUME p.ctx = Nobody, NEW z, z = Wait(x, t)
      PROVE  z.failed = "none" /\ Inv(z, [k EXCEPT ![t] = "wait"], {}, Nobody) /\ Kept(x, z, t)
  <2>1. \A c \in Mask[t] : Driven(x, c)
    <3>1. p.ctx \notin Contexts
      BY <1>3
    <3> QED BY <3>1, SchedThread
  <2>2. /\ z \in Sched /\ Same(x, z, {"state", "runQueue", "futexWord"})
        /\ z.state = [x.state EXCEPT ![t] = "QUEUED"] /\ z.futexWord = [x.futexWord EXCEPT ![t] = 1]
        /\ z.runQueue = Append(x.runQueue, t) /\ z.failed = "none"
    <3> DEFINE q == Append(x.runQueue, t)
    <3>1. q \in Seq(Threads)
      BY <1>1, FieldTypes
    <3>2. z = [x EXCEPT !.state[t] = "QUEUED", !.runQueue = q, !.futexWord[t] = 1]
      BY <1>3 DEF Wait
    <3> HIDE DEF q
    <3>3. z \in Sched /\ z.state = [x.state EXCEPT ![t] = "QUEUED"] /\ z.futexWord = [x.futexWord EXCEPT ![t] = 1]
      BY <1>1, <3>1, <3>2 DEF Sched, States
    <3>4. Same(x, z, {"state", "runQueue", "futexWord"}) /\ z.runQueue = q /\ z.failed = "none"
      BY <1>1, <3>2 DEF Sched, Same, Fields
    <3> QED BY <3>3, <3>4 DEF q
  <2>3. Lists(z.runQueue, ToSet(x.runQueue) \cup {t})
    BY <1>1, <2>2, ListAppend
  <2>4. StartsWaiting(x, z, t)
    BY <2>1, <2>2, <2>3 DEF StartsWaiting
  <2> QED BY <2>2, <2>4, Waits
<1> QED BY <1>2, <1>3 DEF Obtained

----------------------------------------------------------------------------
(* The end of a phase. *)

\* f are the rounds of schedTick, up to the m-th.
Rounds(f, x, order, m) ==
    f = [n \in 0 .. m |-> IF n = 0 THEN [x |-> x, avail |-> order]
                                   ELSE Assign(f[n - 1], x.runQueue[n])]

\* There are such rounds.
LEMMA RoundsExist ==
  ASSUME NEW x, NEW order, NEW l \in Nat
  PROVE  \E f : Rounds(f, x, order, l)
<1> DEFINE before == [x |-> x, avail |-> order]
           T == {m \in Nat : ~ \E f : Rounds(f, x, order, m)}
           As(a, n) == Assign(a, x.runQueue[n])
<1> HIDE DEF before, As
<1>0. \A f, m : Rounds(f, x, order, m) <=> f = [n \in 0 .. m |-> IF n = 0 THEN before ELSE As(f[n - 1], n)]
  BY DEF Rounds, before, As
<1>1. T = {}
  <2> SUFFICES ASSUME T # {} PROVE FALSE
    OBVIOUS
  <2>1. T \in SUBSET Nat
    OBVIOUS
  <2>2. PICK m \in T : \A y \in T : m <= y
    BY <2>1, LeastNatural
  <2>3. CASE m = 0
    <3> DEFINE g == [n \in 0 .. 0 |-> before]
    <3>1. g = [n \in 0 .. 0 |-> IF n = 0 THEN before ELSE As(g[n - 1], n)]
      OBVIOUS
    <3>2. Rounds(g, x, order, 0)
      BY <1>0, <3>1
    <3> QED BY <2>3, <3>2
  <2>4. CASE m # 0
    <3>1. m \in Nat /\ m - 1 \in Nat /\ ~(m <= m - 1)
      BY <2>1, <2>2, <2>4
    <3>2. m - 1 \notin T
      BY <2>2, <3>1
    <3>3. PICK g : Rounds(g, x, order, m - 1)
      BY <3>1, <3>2
    <3> DEFINE f == [n \in 0 .. m |-> IF n = m THEN As(g[m - 1], m) ELSE g[n]]
    <3>4. \A n \in 0 .. m - 1 : g[n] = IF n = 0 THEN before ELSE As(g[n - 1], n)
      BY <1>0, <3>1, <3>3
    <3>5. \A n \in 0 .. m : f[n] = IF n = 0 THEN before ELSE As(f[n - 1], n)
      <4> SUFFICES ASSUME NEW n \in 0 .. m PROVE f[n] = IF n = 0 THEN before ELSE As(f[n - 1], n)
        OBVIOUS
      <4>1. CASE n = 0
        <5>1. f[n] = g[0]
          BY <2>4, <4>1
        <5> QED BY <3>1, <3>4, <4>1, <5>1
      <4>2. CASE n # 0
        <5>1. n - 1 \in 0 .. m - 1 /\ n - 1 # m
          BY <2>2, <4>2
        <5>2. f[n - 1] = g[n - 1]
          BY <5>1
        <5>3. f[n] = As(g[n - 1], n)
          BY <3>4, <4>2, <5>1
        <5> QED BY <4>2, <5>2, <5>3
      <4> QED BY <4>1, <4>2
    <3>6. Rounds(f, x, order, m)
      <4> DEFINE h == [n \in 0 .. m |-> IF n = 0 THEN before ELSE As(f[n - 1], n)]
      <4>1. \A n \in 0 .. m : f[n] = h[n]
        BY <3>5
      <4>2. f = h
        BY <4>1
      <4> QED BY <1>0, <4>2
    <3> QED BY <3>6
  <2> QED BY <2>3, <2>4
<1> QED BY <1>1

\* schedTick ends with the last of them.
LEMMA TickRounds ==
  ASSUME NEW x, NEW order, Len(x.runQueue) \in Nat
  PROVE  \E f : /\ \A n \in 0 .. Len(x.runQueue) :
                      f[n] = IF n = 0 THEN [x |-> x, avail |-> order] ELSE Assign(f[n - 1], x.runQueue[n])
                /\ schedTick(x, order) = f[Len(x.runQueue)].x
<1> DEFINE l == Len(x.runQueue)
           assigned[n \in 0 .. l] == IF n = 0 THEN [x |-> x, avail |-> order]
                                     ELSE Assign(assigned[n - 1], x.runQueue[n])
<1>1. schedTick(x, order) = assigned[l].x
  BY DEF schedTick
<1>2. \E f : Rounds(f, x, order, l)
  BY RoundsExist
<1>3. Rounds(assigned, x, order, l)
  BY <1>2 DEF Rounds
<1> HIDE DEF assigned
<1>4. \A n \in 0 .. l : assigned[n] = IF n = 0 THEN [x |-> x, avail |-> order] ELSE Assign(assigned[n - 1], x.runQueue[n])
  BY <1>3 DEF Rounds
<1> QED BY <1>1, <1>4

\* Threads that run are told to hand over, each to one thread that leaves the run queue.
HandsOver(x, z) ==
    /\ Lists(z.runQueue, ToSet(z.runQueue)) /\ ToSet(z.runQueue) \subseteq ToSet(x.runQueue)
    /\ \A u \in Threads : z.handoffThread[u] # x.handoffThread[u] =>
          /\ x.state[u] = "RUNNING"
          /\ z.handoffThread[u] \in ToSet(x.runQueue) \ ToSet(z.runQueue)
    /\ \A u, v \in Threads : z.handoffThread[u] = z.handoffThread[v] /\ z.handoffThread[u] \in ToSet(x.runQueue) => u = v
    /\ \A t \in ToSet(x.runQueue) \ ToSet(z.runQueue) : \E u \in Threads : z.handoffThread[u] = t

\* After n rounds: the contexts that are left are not those of the threads that were told.
Assigning(x, n, acc) ==
    /\ acc.x \in Sched /\ Same(x, acc.x, {"runQueue", "handoffThread"}) /\ HandsOver(x, acc.x)
    /\ Lists(acc.avail, ToSet(acc.avail)) /\ ToSet(acc.avail) \subseteq Contexts
    /\ \A u \in Threads : acc.x.handoffThread[u] # x.handoffThread[u] => x.cid[u] \notin ToSet(acc.avail)
    /\ \A i \in 1 .. Len(x.runQueue) : i > n => x.runQueue[i] \in ToSet(acc.x.runQueue)

\* What schedTick starts from.
Tickable(x) ==
    /\ x \in Sched /\ Placed(x) /\ Conserved(x, {}) /\ x.failed = "none"
    /\ Lists(x.runQueue, ToSet(x.runQueue))
    /\ \A u \in Threads : x.handoffThread[u] \notin ToSet(x.runQueue)

\* A round keeps this.
LEMMA OneRound ==
  ASSUME NEW x, Tickable(x), NEW n \in Nat, n < Len(x.runQueue), NEW acc, Assigning(x, n, acc)
  PROVE  Assigning(x, n + 1, Assign(acc, x.runQueue[n + 1]))
<1> DEFINE t == x.runQueue[n + 1]
           Q == ToSet(x.runQueue)
           w == acc.x
           c == First(acc.avail, Mask[t])
           victim == x.curThread[c]
<1>1. /\ x \in Sched /\ Placed(x) /\ Conserved(x, {}) /\ x.failed = "none" /\ Lists(x.runQueue, Q)
      /\ \A u \in Threads : x.handoffThread[u] \notin Q
  BY DEF Tickable
<1>2. /\ w \in Sched /\ Same(x, w, {"runQueue", "handoffThread"}) /\ HandsOver(x, w)
      /\ Lists(acc.avail, ToSet(acc.avail)) /\ ToSet(acc.avail) \subseteq Contexts
      /\ \A u \in Threads : w.handoffThread[u] # x.handoffThread[u] => x.cid[u] \notin ToSet(acc.avail)
      /\ \A i \in 1 .. Len(x.runQueue) : i > n => x.runQueue[i] \in ToSet(w.runQueue)
  BY DEF Assigning
<1>3. Len(x.runQueue) \in Nat /\ n + 1 \in 1 .. Len(x.runQueue)
  BY <1>1, ListIs
<1>4. t \in Q /\ t \in Threads /\ t \in ToSet(w.runQueue)
  <2>1. t \in Q
    BY <1>1, <1>3, ListIs
  <2>2. Q \subseteq Threads
    BY <1>1, FieldTypes DEF ToSet
  <2> QED BY <1>2, <1>3, <2>1, <2>2
<1>5. w.curThread = x.curThread /\ w.failed = x.failed /\ w.state = x.state /\ w.cid = x.cid
  BY <1>2 DEF Same, Fields
<1>6. \A i \in 1 .. Len(x.runQueue) : i > n + 1 => x.runQueue[i] # t
  BY <1>1, <1>3, ListIs
<1>7. CASE c = Nobody
  <2>1. Assign(acc, t) = acc
    BY <1>7 DEF Assign
  <2>2. \A i \in 1 .. Len(x.runQueue) : i > n + 1 => i > n
    BY <1>3
  <2> QED BY <1>2, <2>1, <2>2 DEF Assigning
<1>8. CASE c # Nobody
  <2> DEFINE q == RemoveFirst(w.runQueue, t)
             a == RemoveFirst(acc.avail, c)
             z == [w EXCEPT !.handoffThread[victim] = t, !.runQueue = q]
  <2>1. c \in ToSet(acc.avail) /\ c \in Mask[t] /\ c \in Contexts
    <3>1. Nobody \notin ToSet(acc.avail)
      BY <1>2
    <3>2. c \in ToSet(acc.avail) \cap Mask[t]
      BY <1>2, <1>8, <3>1, FirstIs
    <3> QED BY <1>2, <3>2
  <2>2. victim \in Threads /\ victim # Nobody /\ x.state[victim] = "RUNNING" /\ x.cid[victim] = c
    <3>1. Driven(x, c)
      BY <1>1, <1>4, <2>1 DEF Conserved
    <3> QED BY <1>1, <2>1, <3>1, FieldTypes DEF Driven, Placed, Used
  <2>3. Assign(acc, t) = [x |-> z, avail |-> a]
    BY <1>1, <1>5, <1>8, <2>2 DEF Assign, Check
  <2> HIDE DEF c, victim
  <2>4. Lists(q, ToSet(w.runQueue) \ {t}) /\ ToSet(w.runQueue) \subseteq Q
    BY <1>2, ListRemove DEF HandsOver
  <2>5. ToSet(q) = ToSet(w.runQueue) \ {t} /\ q \in Seq(Threads)
    <3>1. Q \subseteq Threads
      BY <1>1, FieldTypes DEF ToSet
    <3> QED BY <2>4, <3>1, ListSeq DEF Lists
  <2>6. Lists(a, ToSet(acc.avail) \ {c})
    BY <1>2, ListRemove
  <2>7. ToSet(a) = ToSet(acc.avail) \ {c}
    BY <2>6 DEF Lists
  <2> HIDE DEF q, a
  <2>8. z \in Sched /\ Same(x, z, {"runQueue", "handoffThread"})
    BY <1>2, <1>4, <2>2, <2>5 DEF Sched, Same, Fields
  <2>9. z.runQueue = q /\ \A u \in Threads : z.handoffThread[u] = IF u = victim THEN t ELSE w.handoffThread[u]
    BY <1>2, FieldTypes
  <2> HIDE DEF z, t
  <2>10. HandsOver(x, z)
    <3>1. Lists(z.runQueue, ToSet(z.runQueue)) /\ ToSet(z.runQueue) \subseteq Q
      BY <2>4, <2>5, <2>9
    <3>2. \A u \in Threads : z.handoffThread[u] # x.handoffThread[u] =>
             x.state[u] = "RUNNING" /\ z.handoffThread[u] \in Q \ ToSet(z.runQueue)
      BY <1>2, <1>4, <2>2, <2>5, <2>9 DEF HandsOver
    <3>3. \A u \in Threads : u # victim => w.handoffThread[u] # t
      BY <1>1, <1>2, <1>4 DEF HandsOver
    <3>4. \A u, v \in Threads : z.handoffThread[u] = z.handoffThread[v] /\ z.handoffThread[u] \in Q => u = v
      BY <1>2, <2>9, <3>3 DEF HandsOver
    <3>5. ASSUME NEW d \in Q \ ToSet(z.runQueue) PROVE \E u \in Threads : z.handoffThread[u] = d
      <4>1. CASE d = t
        BY <2>2, <2>9, <4>1
      <4>2. CASE d # t
        <5>1. PICK u \in Threads : w.handoffThread[u] = d
          BY <1>2, <2>5, <2>9, <4>2 DEF HandsOver
        <5>2. u # victim
          BY <1>1, <1>2, <2>1, <2>2, <5>1
        <5> QED BY <2>9, <5>1, <5>2
      <4> QED BY <4>1, <4>2
    <3> QED BY <3>1, <3>2, <3>4, <3>5 DEF HandsOver
  <2>11. \A u \in Threads : z.handoffThread[u] # x.handoffThread[u] => x.cid[u] \notin ToSet(a)
    BY <1>2, <2>2, <2>7, <2>9
  <2>12. \A i \in 1 .. Len(x.runQueue) : i > n + 1 => x.runQueue[i] \in ToSet(z.runQueue)
    <3>1. \A i \in 1 .. Len(x.runQueue) : i > n + 1 => i > n
      BY <1>3
    <3> QED BY <1>2, <1>6, <2>5, <2>9, <3>1
  <2>13. Lists(a, ToSet(a)) /\ ToSet(a) \subseteq Contexts
    BY <1>2, <2>6, <2>7
  <2>14. Assigning(x, n + 1, [x |-> z, avail |-> a])
    BY <2>8, <2>10, <2>11, <2>12, <2>13 DEF Assigning
  <2> QED BY <2>3, <2>14 DEF t
<1> QED BY <1>7, <1>8

\* What schedTick does.
LEMMA schedTickIs ==
  ASSUME NEW x, Tickable(x), NEW order \in Orders
  PROVE  LET z == schedTick(x, order)
         IN  z \in Sched /\ Same(x, z, {"runQueue", "handoffThread"}) /\ HandsOver(x, z)
<1> DEFINE l == Len(x.runQueue)
           before == [x |-> x, avail |-> order]
<1>1. l \in Nat /\ \A i \in 1 .. l : x.runQueue[i] \in ToSet(x.runQueue)
  BY ListIs DEF Tickable
<1>2. PICK f : /\ \A n \in 0 .. l : f[n] = IF n = 0 THEN before ELSE Assign(f[n - 1], x.runQueue[n])
               /\ schedTick(x, order) = f[l].x
  BY <1>1, TickRounds
<1>3. Assigning(x, 0, before)
  <2>1. Lists(order, ToSet(order)) /\ ToSet(order) \subseteq Contexts
    <3>1. order \in Seq(Contexts) /\ IsInjective(order)
      BY ContextsAssumption DEF Orders
    <3>2. ToSet(order) \subseteq Contexts /\ order \in Seq(ToSet(order))
      BY <3>1 DEF ToSet
    <3> QED BY <3>1, <3>2 DEF Lists
  <2>2. HandsOver(x, x)
    BY DEF HandsOver, Tickable
  <2>3. x \in Sched /\ Same(x, x, {"runQueue", "handoffThread"})
    BY DEF Tickable, Same
  <2> QED BY <1>1, <2>1, <2>2, <2>3 DEF Assigning
<1> HIDE DEF before
<1> DEFINE T == {n \in 0 .. l : ~Assigning(x, n, f[n])}
<1>4. T = {}
  <2> SUFFICES ASSUME T # {} PROVE FALSE
    OBVIOUS
  <2>1. T \in SUBSET Nat
    BY <1>1
  <2>2. PICK m \in T : \A y \in T : m <= y
    BY <2>1, LeastNatural
  <2>3. m # 0 /\ m \in 0 .. l
    BY <1>1, <1>2, <1>3, <2>2
  <2>4. m - 1 \in Nat /\ m - 1 \in 0 .. l /\ m - 1 < l /\ ~(m <= m - 1) /\ (m - 1) + 1 = m
    BY <1>1, <2>3
  <2>5. Assigning(x, m - 1, f[m - 1])
    BY <2>2, <2>4
  <2>6. Assigning(x, m, Assign(f[m - 1], x.runQueue[m]))
    BY <2>4, <2>5, OneRound
  <2> QED BY <1>2, <2>2, <2>3, <2>6
<1>5. Assigning(x, l, f[l])
  BY <1>1, <1>4
<1> QED BY <1>2, <1>5 DEF Assigning

\* The state after the sleepers of the new phase are awake.
Awake(x) ==
    LET y == [x EXCEPT !.phase = NextPhase(x),
                       !.due = [t \in Threads |->
                                  IF x.state[t] = "SLEEPING" \/ t \in x.marked
                                  THEN x.due[t] - 1 ELSE x.due[t]]]
        late == Place(y.sleepQueue, {t \in Threads : y.due[t] > 0})
        n == IF late = 0 THEN Len(y.sleepQueue) ELSE late - 1
    IN  [WakeSleepers(y, ToSet(SubSeq(y.sleepQueue, 1, n))) EXCEPT
            !.sleepQueue = SubSeq(@, n + 1, Len(@))]

LEMMA callbackIs ==
  ASSUME NEW x, NEW order
  PROVE  callback(x, order) = IF Awake(x).runQueue # <<>> /\ Awake(x).phase = 0
                              THEN schedTick(Awake(x), order) ELSE Awake(x)
  BY DEF callback, Awake

\* Some sleepers are BLOCKED, and the others wait for later phases.
WakesSome(x, z) ==
    /\ z \in Sched /\ Same(x, z, {"phase", "due", "state", "futexWord", "sleepQueue"})
    /\ \A t \in Threads : \/ z.state[t] = x.state[t] /\ z.futexWord[t] = x.futexWord[t]
                          \/ x.state[t] = "SLEEPING" /\ z.state[t] = "BLOCKED" /\ z.futexWord[t] = 0
    /\ Lists(z.sleepQueue, In(z, "SLEEPING")) /\ Sorted(z)

\* Those at the front of the queue are exactly the ones whose phase has come.
LEMMA AwakeIs ==
  ASSUME NEW x, NEW k, Inv(x, k, {}, Nobody), x.failed = "none"
  PROVE  WakesSome(x, Awake(x)) /\ Awake(x).failed = "none"
<1> DEFINE q == x.sleepQueue
           S == In(x, "SLEEPING")
           due == [t \in Threads |-> IF x.state[t] = "SLEEPING" \/ t \in x.marked
                                     THEN x.due[t] - 1 ELSE x.due[t]]
           y == [x EXCEPT !.phase = NextPhase(x), !.due = due]
           L == {t \in Threads : y.due[t] > 0}
           late == Place(q, L)
           n == IF late = 0 THEN Len(q) ELSE late - 1
           W == ToSet(SubSeq(q, 1, n))
           r == SubSeq(q, n + 1, Len(q))
           state == [t \in Threads |-> IF t \in W THEN "BLOCKED" ELSE x.state[t]]
           word == [t \in Threads |-> IF t \in W THEN 0 ELSE x.futexWord[t]]
           v == [y EXCEPT !.state = state, !.futexWord = word]
           z == [v EXCEPT !.sleepQueue = r]
<1>0. q = x.sleepQueue /\ S = In(x, "SLEEPING")
  OBVIOUS
<1>1. x \in Sched /\ Lists(q, S) /\ Sorted(x) /\ q \in Seq(Threads) /\ Len(q) \in Nat
  <2>1. x \in Sched /\ Lists(q, S) /\ Sorted(x)
    BY InvLists DEF Inv
  <2> QED BY <2>1, FieldTypes, ListIs
<1> HIDE DEF q, S
<1>2. due \in [Threads -> Int] /\ NextPhase(x) \in Nat
  BY <1>1, FieldTypes, QuantumAssumption DEF NextPhase
<1>3. y \in Sched /\ y.due = due /\ y.sleepQueue = q /\ y.state = x.state /\ y.futexWord = x.futexWord /\ y.failed = "none"
  <2> HIDE DEF due
  <2> QED BY <1>0, <1>1, <1>2 DEF Sched
<1>4. \A t \in S : t \in Threads /\ due[t] = x.due[t] - 1 /\ x.due[t] >= 1 /\ x.due[t] \in Int /\ x.futexWord[t] = 1
  BY <1>0, <1>1, FieldTypes DEF Sorted, In
<1>5. \/ late = 0 /\ \A i \in 1 .. Len(q) : q[i] \notin L
      \/ late \in 1 .. Len(q) /\ q[late] \in L /\ \A i \in 1 .. Len(q) : i < late => q[i] \notin L
  BY <1>1, PlaceIs
<1>6. \A i \in 1 .. Len(q) : q[i] \in S
  BY <1>1, ListIs
<1>7. \A t \in S : t \in L <=> due[t] > 0
  BY <1>3, <1>4
<1> HIDE DEF L, late, due
<1>8. n \in 0 .. Len(q)
  BY <1>1, <1>5
<1>9. \A i \in 1 .. n : i \in 1 .. Len(q) /\ due[q[i]] = 0
  <2> SUFFICES ASSUME NEW i \in 1 .. n PROVE i \in 1 .. Len(q) /\ due[q[i]] = 0
    OBVIOUS
  <2>1. i \in 1 .. Len(q) /\ (late = 0 \/ i < late)
    BY <1>1, <1>5
  <2>2. q[i] \in S /\ q[i] \notin L
    BY <1>5, <1>6, <2>1
  <2>3. ~(due[q[i]] > 0)
    BY <1>7, <2>2
  <2>4. due[q[i]] = x.due[q[i]] - 1 /\ x.due[q[i]] >= 1 /\ x.due[q[i]] \in Int
    BY <1>4, <2>2
  <2> QED BY <2>1, <2>3, <2>4
<1>10. \A i \in 1 .. Len(q) : i > n => due[q[i]] >= 1
  <2> SUFFICES ASSUME NEW i \in 1 .. Len(q), i > n PROVE due[q[i]] >= 1
    OBVIOUS
  <2>1. late \in 1 .. Len(q) /\ q[late] \in L /\ late <= i
    BY <1>1, <1>5
  <2>2. q[late] \in S /\ q[i] \in S
    BY <1>6, <2>1
  <2>3. x.due[q[late]] <= x.due[q[i]]
    <3>1. CASE late = i
      BY <1>4, <2>2, <3>1
    <3>2. CASE late < i
      BY <1>0, <1>1, <2>1, <3>2 DEF Sorted
    <3> QED BY <2>1, <3>1, <3>2
  <2>4. due[q[late]] > 0
    BY <1>7, <2>1, <2>2
  <2>5. /\ due[q[i]] = x.due[q[i]] - 1 /\ x.due[q[i]] \in Int
        /\ due[q[late]] = x.due[q[late]] - 1 /\ x.due[q[late]] \in Int
    BY <1>4, <2>2
  <2> QED BY <2>3, <2>4, <2>5
<1>11. /\ Lists(r, S \ W) /\ Len(r) = Len(q) - n /\ \A i \in 1 .. Len(r) : r[i] = q[n + i]
       /\ W \subseteq S /\ \A i \in 1 .. n : q[i] \in W
       /\ \A e \in W : \E i \in 1 .. n : q[i] = e
  <2>1. Split(q, n, W, r)
    BY DEF Split
  <2> HIDE DEF n, S, r, W
  <2>2. Lists(r, S \ W)
    BY <1>1, <1>8, <2>1, ListSplit
  <2>3. W \subseteq S
    BY <1>1, <1>8, <2>1, ListSplit
  <2>4. Halves(q, n, W, r)
    BY <1>1, <1>8, <2>1, ListSplit
  <2> QED BY <2>2, <2>3, <2>4 DEF Halves
<1>12. W \subseteq S
  BY <1>11
<1>13. \A t \in W : y.due[t] = 0 /\ y.futexWord[t] = 1
  <2>1. \A t \in W : due[t] = 0
    BY <1>9, <1>11
  <2> QED BY <1>3, <1>4, <1>12, <2>1
<1> HIDE DEF W, r
<1>14. WakeSleepers(y, W) = v
  <2> HIDE DEF y
  <2>1. [y EXCEPT !.state = [t \in Threads |-> IF t \in W THEN "BLOCKED" ELSE @[t]],
                  !.futexWord = [t \in Threads |-> IF t \in W THEN 0 ELSE @[t]]] = v
    BY <1>3
  <2> QED BY <1>13, <2>1 DEF WakeSleepers, Check
<1>15. v.sleepQueue = q /\ v.failed = "none"
  <2> HIDE DEF y, state, word
  <2> QED BY <1>3 DEF Sched
<1>16. Awake(x) = z
  <2> DEFINE p == y.sleepQueue
             m == IF Place(p, L) = 0 THEN Len(p) ELSE Place(p, L) - 1
             a == WakeSleepers(y, ToSet(SubSeq(p, 1, m)))
  <2>1. Awake(x) = [a EXCEPT !.sleepQueue = SubSeq(@, m + 1, Len(@))]
    BY DEF Awake, L, due
  <2>2. p = q
    BY <1>3
  <2>3. m = n /\ a = v
    <3> HIDE DEF y, v
    <3> QED BY <1>14, <2>2 DEF late, W
  <2> HIDE DEF p, m, a, n, y, v
  <2> QED BY <1>15, <2>1, <2>3 DEF r
<1>17. state \in [Threads -> States] /\ word \in [Threads -> {0, 1}] /\ r \in Seq(Threads)
  <2>1. r \in Seq(Threads)
    BY <1>0, <1>11, ListSeq DEF In
  <2> QED BY <1>1, <2>1, FieldTypes DEF States
<1>18. /\ z \in Sched /\ Same(x, z, {"phase", "due", "state", "futexWord", "sleepQueue"})
       /\ z.state = state /\ z.futexWord = word /\ z.due = due /\ z.sleepQueue = r /\ z.failed = "none"
  <2> HIDE DEF state, word
  <2> QED BY <1>1, <1>2, <1>15, <1>17 DEF Sched, Same, Fields
<1>19. \A t \in Threads : \/ z.state[t] = x.state[t] /\ z.futexWord[t] = x.futexWord[t]
                          \/ x.state[t] = "SLEEPING" /\ z.state[t] = "BLOCKED" /\ z.futexWord[t] = 0
  <2> HIDE DEF z
  <2> QED BY <1>0, <1>12, <1>18 DEF In
<1>20. In(z, "SLEEPING") = S \ W
  <2> HIDE DEF z
  <2> QED BY <1>0, <1>12, <1>18 DEF In
<1>21. Sorted(z)
  <2> HIDE DEF z, n
  <2>1. ASSUME NEW i \in 1 .. Len(r), NEW j \in 1 .. Len(r), i < j PROVE due[r[i]] <= due[r[j]]
    <3>1. n + i \in 1 .. Len(q) /\ n + j \in 1 .. Len(q) /\ n + i < n + j
      BY <1>1, <1>8, <1>11, <2>1
    <3>2. x.due[q[n + i]] <= x.due[q[n + j]]
      BY <1>0, <1>1, <3>1 DEF Sorted
    <3>3. q[n + i] \in S /\ q[n + j] \in S
      BY <1>6, <3>1
    <3>4. /\ due[q[n + i]] = x.due[q[n + i]] - 1 /\ x.due[q[n + i]] \in Int
          /\ due[q[n + j]] = x.due[q[n + j]] - 1 /\ x.due[q[n + j]] \in Int
      BY <1>4, <3>3
    <3>5. due[q[n + i]] <= due[q[n + j]]
      BY <3>2, <3>4
    <3> QED BY <1>11, <3>5
  <2>2. ASSUME NEW t \in Threads, z.state[t] = "SLEEPING" PROVE z.futexWord[t] = 1 /\ z.due[t] >= 1
    <3>1. t \in S \ W
      BY <1>20, <2>2 DEF In
    <3>2. PICK i \in 1 .. Len(q) : q[i] = t
      BY <1>1, <3>1, ListIs
    <3>3. i > n
      BY <1>8, <1>11, <3>1, <3>2
    <3> QED BY <1>4, <1>10, <1>18, <3>1, <3>2, <3>3
  <2> QED BY <1>18, <2>1, <2>2 DEF Sorted
<1> HIDE DEF z
<1> QED BY <1>11, <1>16, <1>18, <1>19, <1>20, <1>21 DEF WakesSome

\* Kept for everyone is kept for all but one.
LEMMA KeptButOne ==
  ASSUME NEW x, NEW y, NEW b, Kept(x, y, Nobody)
  PROVE  Kept(x, y, b)
<1>1. Threads \ {b} \subseteq Threads \ {Nobody}
  OBVIOUS
<1> QED BY <1>1 DEF Kept

\* Waking sleepers keeps the invariant if nobody is about to leave for a sleep.
LEMMA SleepersWakeUp ==
  ASSUME NEW x, NEW z, NEW k, Inv(x, k, {}, Nobody), x.marked = {}, WakesSome(x, z)
  PROVE  Inv(z, k, {}, Nobody) /\ Kept(x, z, Nobody)
<1>1. /\ x \in Sched /\ Lists(x.fakeLeaves, ToSet(x.fakeLeaves)) /\ Placed(x) /\ FreeListed(x, {})
      /\ Bars(x, {}) /\ Conserved(x, {}) /\ Promises(x, Nobody)
      /\ \A t \in Threads \ {Nobody} : Knows(x, k, t)
  BY DEF Inv
<1>2. /\ z \in Sched /\ Same(x, z, {"phase", "due", "state", "futexWord", "sleepQueue"})
      /\ \A t \in Threads : \/ z.state[t] = x.state[t] /\ z.futexWord[t] = x.futexWord[t]
                            \/ x.state[t] = "SLEEPING" /\ z.state[t] = "BLOCKED" /\ z.futexWord[t] = 0
      /\ Lists(z.sleepQueue, In(z, "SLEEPING")) /\ Sorted(z)
  BY DEF WakesSome
<1>3. /\ z.freeList = x.freeList /\ z.curThread = x.curThread /\ z.outQueue = x.outQueue
      /\ z.runQueue = x.runQueue /\ z.cid = x.cid /\ z.bar = x.bar /\ z.handoffThread = x.handoffThread
      /\ z.fakeLeaves = x.fakeLeaves /\ z.marked = x.marked
  BY <1>2 DEF Same, Fields
<1>4. \A t \in Threads : /\ z.state[t] = "RUNNING" <=> x.state[t] = "RUNNING"
                         /\ z.state[t] = "OUT" <=> x.state[t] = "OUT"
                         /\ z.state[t] = "QUEUED" <=> x.state[t] = "QUEUED"
  BY <1>2
<1>5. /\ \A t \in ToSet(x.runQueue) : t \in Threads
      /\ \A t \in Threads : x.handoffThread[t] \in Threads \cup {Nobody}
      /\ \A c \in Contexts : x.curThread[c] \in Threads \cup {Nobody}
  BY <1>1, FieldTypes DEF ToSet
<1>6. FreeListed(z, {})
  BY <1>1, <1>3 DEF FreeListed, Free, Used
<1>7. Placed(z)
  <2>1. In(z, "OUT") = In(x, "OUT")
    BY <1>4 DEF In
  <2> QED BY <1>1, <1>2, <1>3, <1>4, <1>5, <2>1 DEF Placed, Used
<1>8. \A c \in Contexts : Driven(z, c) = Driven(x, c)
  BY <1>3, <1>4, <1>5 DEF Driven, Used
<1>9. Bars(z, {})
  BY <1>1, <1>3, <1>8 DEF Bars
<1>10. Conserved(z, {})
  BY <1>1, <1>3, <1>5, <1>8, MaskAssumption DEF Conserved
<1>11. Promises(z, Nobody)
  BY <1>1, <1>3, <1>4, <1>5 DEF Promises
<1>12. ASSUME NEW t \in Threads \ {Nobody} PROVE Knows(z, k, t)
  <2>1. Knows(x, k, t) /\ t \in Threads /\ t \notin z.marked
    BY <1>1, <1>3
  <2>2. CASE z.state[t] = x.state[t] /\ z.futexWord[t] = x.futexWord[t]
    BY <1>3, <2>1, <2>2 DEF Knows
  <2>3. CASE x.state[t] = "SLEEPING" /\ z.state[t] = "BLOCKED" /\ z.futexWord[t] = 0
    BY <1>3, <2>1, <2>3 DEF Knows
  <2> QED BY <1>2, <2>1, <2>2, <2>3
<1>13. Kept(x, z, Nobody)
  BY <1>2, <1>3 DEF Kept
<1> QED BY <1>1, <1>2, <1>3, <1>6, <1>7, <1>9, <1>10, <1>11, <1>12, <1>13 DEF Inv

\* All that run have synced, and nobody has told them to hand over.
AllSynced(x, k) == \A u \in Threads : x.state[u] = "RUNNING" => k[u] = "sync" /\ x.handoffThread[u] = Nobody

\* Contexts that have synced go on, some of them to be handed over.
LEMMA PhaseBegins ==
  ASSUME NEW x, NEW w, NEW v, NEW k, Inv(x, k, {}, Nobody), AllSynced(x, k),
         w \in Sched, Same(x, w, {"runQueue", "handoffThread"}), HandsOver(x, w),
         v = [w EXCEPT !.bar = [c \in Contexts |-> IF @[c] = "done" THEN "running" ELSE @[c]]]
  PROVE  Inv(v, k, {}, Nobody) /\ Kept(x, v, Nobody) /\ v.failed = x.failed
<1>1. /\ x \in Sched /\ Lists(x.fakeLeaves, ToSet(x.fakeLeaves)) /\ Placed(x) /\ FreeListed(x, {})
      /\ Bars(x, {}) /\ Conserved(x, {}) /\ Promises(x, Nobody) /\ Sorted(x)
      /\ \A t \in Threads : Knows(x, k, t)
  BY DEF Inv
<1> DEFINE bar == [c \in Contexts |-> IF w.bar[c] = "done" THEN "running" ELSE w.bar[c]]
<1>2. v = [w EXCEPT !.bar = bar] /\ bar \in [Contexts -> {"out", "running", "done"}]
  BY FieldTypes
<1>3. \A c \in Contexts : bar[c] # "done" /\ (bar[c] = "out" <=> w.bar[c] = "out")
  OBVIOUS
<1> HIDE DEF bar
<1>4. v \in Sched /\ Same(w, v, {"bar"}) /\ v.bar = bar
  BY <1>2 DEF Sched, Same, Fields
<1>5. /\ v.runQueue = w.runQueue /\ v.handoffThread = w.handoffThread /\ w.bar = x.bar
      /\ v.freeList = x.freeList /\ v.curThread = x.curThread /\ v.outQueue = x.outQueue /\ v.sleepQueue = x.sleepQueue
      /\ v.cid = x.cid /\ v.state = x.state /\ v.futexWord = x.futexWord /\ v.due = x.due
      /\ v.fakeLeaves = x.fakeLeaves /\ v.marked = x.marked /\ v.failed = x.failed
  BY <1>4 DEF Same, Fields
<1>6. /\ Lists(v.runQueue, ToSet(v.runQueue)) /\ ToSet(v.runQueue) \subseteq ToSet(x.runQueue)
      /\ \A u \in Threads : v.handoffThread[u] # x.handoffThread[u] =>
            /\ x.state[u] = "RUNNING"
            /\ v.handoffThread[u] \in ToSet(x.runQueue) \ ToSet(v.runQueue)
      /\ \A u, d \in Threads : v.handoffThread[u] = v.handoffThread[d] /\ v.handoffThread[u] \in ToSet(x.runQueue) => u = d
      /\ \A t \in ToSet(x.runQueue) \ ToSet(v.runQueue) : \E u \in Threads : v.handoffThread[u] = t
  BY <1>5 DEF HandsOver
<1>7. FreeListed(v, {}) /\ Placed(v) /\ Sorted(v)
  <2>1. FreeListed(v, {})
    BY <1>1, <1>5 DEF FreeListed, Free, Used
  <2>2. Placed(v)
    <3>1. In(v, "OUT") = In(x, "OUT") /\ In(v, "SLEEPING") = In(x, "SLEEPING")
      BY <1>5 DEF In
    <3> QED BY <1>1, <1>5, <3>1 DEF Placed, Used
  <2>3. Sorted(v)
    BY <1>1, <1>5 DEF Sorted
  <2> QED BY <2>1, <2>2, <2>3
<1>8. \A c \in Contexts : Driven(v, c) = Driven(x, c)
  BY <1>5 DEF Driven, Used
<1>9. Bars(v, {})
  BY <1>1, <1>3, <1>4, <1>5, <1>8 DEF Bars
<1>10. Conserved(v, {})
  <2>1. \A t \in ToSet(x.runQueue) : Mask[t] \subseteq Contexts
    BY <1>1, FieldTypes, MaskAssumption DEF ToSet
  <2> QED BY <1>1, <1>6, <1>8, <2>1 DEF Conserved
<1>11. Promises(v, Nobody)
  <2>1. \A t \in ToSet(v.runQueue) : v.state[t] = "QUEUED"
    BY <1>1, <1>5, <1>6 DEF Promises
  <2>2. \A u \in Threads : v.handoffThread[u] # Nobody =>
           v.state[v.handoffThread[u]] = "QUEUED" /\ v.handoffThread[u] \notin ToSet(v.runQueue)
    BY <1>1, <1>5, <1>6 DEF Promises
  <2>3. \A u, d \in Threads : v.handoffThread[u] = v.handoffThread[d] /\ v.handoffThread[u] # Nobody => u = d
    BY <1>1, <1>6 DEF Promises
  <2>4. \A t \in Threads \ {Nobody} : v.state[t] = "QUEUED" =>
           t \in ToSet(v.runQueue) \/ \E u \in Threads : v.handoffThread[u] = t
    <3> SUFFICES ASSUME NEW t \in Threads, x.state[t] = "QUEUED", t \notin ToSet(v.runQueue)
                 PROVE  \E u \in Threads : v.handoffThread[u] = t
      BY <1>5
    <3>1. CASE t \in ToSet(x.runQueue)
      BY <1>6, <3>1
    <3>2. CASE t \notin ToSet(x.runQueue)
      <4>1. PICK u \in Threads : x.handoffThread[u] = t
        BY <1>1, <3>2 DEF Promises
      <4>2. v.handoffThread[u] = x.handoffThread[u]
        BY <1>6, <4>1 DEF AllSynced
      <4> QED BY <4>1, <4>2
    <3> QED BY <3>1, <3>2
  <2> QED BY <1>6, <2>1, <2>2, <2>3, <2>4 DEF Promises
<1>12. ASSUME NEW u \in Threads PROVE Knows(v, k, u)
  <2>1. Knows(x, k, u)
    BY <1>1
  <2>2. x.state[u] = "RUNNING" => v.bar[v.cid[u]] # "done"
    BY <1>1, <1>3, <1>4, <1>5, FieldTypes
  <2>3. /\ v.handoffThread[u] # Nobody => k[u] \in {"sync", "handoff"}
        /\ k[u] = "handoff" => v.handoffThread[u] # Nobody
    BY <1>6, <2>1 DEF Knows, AllSynced
  <2> QED BY <1>5, <2>1, <2>2, <2>3 DEF Knows
<1>13. Kept(x, v, Nobody)
  BY <1>5 DEF Kept
<1> QED BY <1>1, <1>4, <1>5, <1>6, <1>7, <1>9, <1>10, <1>11, <1>12, <1>13 DEF Inv

\* Nobody is about to leave for a sleep when all that run have synced.
LEMMA NobodyMarked ==
  ASSUME NEW x, NEW k, Inv(x, k, {}, Nobody), AllSynced(x, k)
  PROVE  x.marked = {}
<1> SUFFICES ASSUME NEW u \in x.marked PROVE FALSE
  OBVIOUS
<1>1. u \in Threads /\ Knows(x, k, u) /\ x.state[u] \in States
  BY FieldTypes DEF Inv
<1> QED BY <1>1 DEF Knows, States, AllSynced

\* What the callback does before the contexts go on.
LEMMA callbackDoes ==
  ASSUME NEW x, NEW k, Inv(x, k, {}, Nobody), x.failed = "none", AllSynced(x, k), NEW order \in Orders,
         NEW w, w = callback(x, order)
  PROVE  \E z : /\ Inv(z, k, {}, Nobody) /\ Kept(x, z, Nobody) /\ AllSynced(z, k) /\ z.failed = "none"
                /\ w \in Sched /\ Same(z, w, {"runQueue", "handoffThread"}) /\ HandsOver(z, w)
                /\ z.runQueue = <<>> => w = z
<1> DEFINE z == Awake(x)
<1>1. WakesSome(x, z) /\ z.failed = "none" /\ x.marked = {}
  BY AwakeIs, NobodyMarked
<1>2. Inv(z, k, {}, Nobody) /\ Kept(x, z, Nobody)
  BY <1>1, SleepersWakeUp
<1>3. AllSynced(z, k)
  <2>1. z.handoffThread = x.handoffThread
    BY <1>1 DEF WakesSome, Same, Fields
  <2>2. \A u \in Threads : z.state[u] = "RUNNING" => x.state[u] = "RUNNING"
    BY <1>1 DEF WakesSome
  <2> HIDE DEF z
  <2> QED BY <2>1, <2>2 DEF AllSynced
<1>4. Tickable(z)
  <2> HIDE DEF z
  <2>1. z \in Sched /\ ToSet(z.runQueue) \subseteq Threads /\ Promises(z, Nobody)
    BY <1>2, InvLists DEF Inv
  <2>2. \A u \in Threads : z.handoffThread[u] \notin ToSet(z.runQueue)
    BY <2>1 DEF Promises
  <2> QED BY <1>1, <1>2, <2>2 DEF Tickable, Inv, Promises
<1>5. CASE z.runQueue # <<>> /\ z.phase = 0
  <2>1. w = schedTick(z, order)
    BY <1>5, callbackIs
  <2> HIDE DEF z
  <2>2. w \in Sched /\ Same(z, w, {"runQueue", "handoffThread"}) /\ HandsOver(z, w)
    BY <1>4, <2>1, schedTickIs
  <2> QED BY <1>1, <1>2, <1>3, <1>5, <2>2
<1>6. CASE ~(z.runQueue # <<>> /\ z.phase = 0)
  <2>1. w = z
    BY <1>6, callbackIs
  <2> HIDE DEF z
  <2>2. HandsOver(z, z) /\ z \in Sched /\ Same(z, z, {"runQueue", "handoffThread"})
    BY <1>4 DEF HandsOver, Tickable, Same
  <2> QED BY <1>1, <1>2, <1>3, <2>1, <2>2
<1> QED BY <1>5, <1>6

\* The end of a phase keeps the invariant.
LEMMA EndPhaseIs ==
  ASSUME NEW x, NEW k, Inv(x, k, {}, Nobody), x.failed = "none", NEW order \in Orders, NEW v, v = EndPhase(x, order)
  PROVE  Inv(v, k, {}, Nobody) /\ Kept(x, v, Nobody) /\ v.failed = "none"
<1>1. CASE ~((\A c \in Contexts : x.bar[c] # "running") /\ (\E c \in Contexts : x.bar[c] = "done"))
  <2>1. v = x
    BY <1>1 DEF EndPhase
  <2> QED BY <2>1 DEF Kept
<1>2. CASE (\A c \in Contexts : x.bar[c] # "running") /\ (\E c \in Contexts : x.bar[c] = "done")
  <2> DEFINE w == callback(x, order)
  <2>1. v = [w EXCEPT !.bar = [c \in Contexts |-> IF @[c] = "done" THEN "running" ELSE @[c]]]
    BY <1>2 DEF EndPhase
  <2> HIDE DEF w
  <2>2. AllSynced(x, k)
    <3> SUFFICES ASSUME NEW u \in Threads, x.state[u] = "RUNNING" PROVE k[u] = "sync" /\ x.handoffThread[u] = Nobody
      BY DEF AllSynced
    <3>1. x \in Sched /\ Placed(x) /\ Bars(x, {}) /\ Knows(x, k, u)
      BY DEF Inv
    <3>2. x.cid[u] \in Contexts /\ Driven(x, x.cid[u])
      BY <3>1, OneContext DEF Driven
    <3>3. x.bar[x.cid[u]] \notin {"out", "running"}
      BY <1>2, <3>1, <3>2 DEF Bars
    <3>4. x.bar[x.cid[u]] = "done"
      BY <3>1, <3>2, <3>3, FieldTypes
    <3> QED BY <3>1, <3>4 DEF Knows
  <2>3. PICK z : /\ Inv(z, k, {}, Nobody) /\ Kept(x, z, Nobody) /\ AllSynced(z, k) /\ z.failed = "none"
                 /\ w \in Sched /\ Same(z, w, {"runQueue", "handoffThread"}) /\ HandsOver(z, w)
    BY <2>2, callbackDoes DEF w
  <2>4. Inv(v, k, {}, Nobody) /\ Kept(z, v, Nobody) /\ v.failed = z.failed
    BY <2>1, <2>3, PhaseBegins
  <2> QED BY <2>3, <2>4, KeptTwice
<1> QED BY <1>1, <1>2

----------------------------------------------------------------------------
(* The operations, continued. *)

\* Nothing happens to b itself.
Aside(x, y, b) == y.state[b] = x.state[b] /\ y.handoffThread[b] = x.handoffThread[b] /\ y.marked = x.marked

\* A context goes to a thread of the run queue.
LEMMA Gives ==
  ASSUME NEW x, NEW k, NEW b \in Threads, NEW c \in Contexts, Inv(x, k, {c}, b), x.failed = "none",
         x.bar[c] = "running", x.state[b] # "QUEUED", NEW u \in ToSet(x.runQueue), NEW y, y = Give(x, u, c)
  PROVE  Inv(y, k, {}, b) /\ Kept(x, y, b) /\ y.failed = "none" /\ Aside(x, y, b)
<1> DEFINE q == RemoveFirst(x.runQueue, u)
           p == [x EXCEPT !.runQueue = q]
           v == [p EXCEPT !.state[u] = "RUNNING", !.cid[u] = c, !.curThread[c] = u]
           z == [v EXCEPT !.futexWord[u] = 0]
<1>1. /\ x \in Sched /\ Promises(x, b) /\ Lists(x.runQueue, ToSet(x.runQueue)) /\ ToSet(x.runQueue) \subseteq Threads
      /\ FreeListed(x, {c}) /\ \A t \in Threads \ {b} : Knows(x, k, t)
  BY InvLists DEF Inv
<1>2. u \in Threads /\ x.state[u] = "QUEUED" /\ u # b /\ ~Used(x, c)
  BY <1>1 DEF Promises, FreeListed, Free
<1>3. x.futexWord[u] = 1
  BY <1>1, <1>2 DEF Knows
<1>4. Lists(q, ToSet(x.runQueue) \ {u}) /\ q \in Seq(Threads)
  <2>1. Lists(q, ToSet(x.runQueue) \ {u})
    BY <1>1, ListRemove
  <2> QED BY <1>1, <2>1, ListSeq
<1> HIDE DEF q
<1>5. p.state = x.state /\ p.curThread = x.curThread /\ p.failed = x.failed /\ p.futexWord = x.futexWord
  BY <1>1 DEF Sched
<1>6. schedule(p, u, c) = v
  <2> HIDE DEF p
  <2> QED BY <1>2, <1>5 DEF schedule, Check, Used
<1>7. v.futexWord = x.futexWord /\ v.failed = x.failed
  BY <1>1 DEF Sched
<1>8. y = z
  <2>1. y = wakeup(v, u)
    BY <1>6 DEF Give, q
  <2> HIDE DEF v
  <2> QED BY <1>3, <1>7, <2>1 DEF wakeup, Check
<1>9. /\ z \in Sched
      /\ Same(x, z, {"state", "cid", "curThread", "bar", "runQueue", "futexWord", "handoffThread"})
      /\ z.state = [x.state EXCEPT ![u] = "RUNNING"] /\ z.cid = [x.cid EXCEPT ![u] = c]
      /\ z.curThread = [x.curThread EXCEPT ![c] = u] /\ z.bar = x.bar
      /\ z.runQueue = q /\ z.futexWord = [x.futexWord EXCEPT ![u] = 0] /\ z.handoffThread = x.handoffThread
  BY <1>1, <1>2, <1>4 DEF Sched, Same, Fields, States
<1> HIDE DEF z
<1>10. z.bar = [x.bar EXCEPT ![c] = "running"]
  BY <1>1, <1>9, FieldTypes
<1>11. \A t \in Threads : x.handoffThread[t] # u
  BY <1>1, <1>2 DEF Promises
<1>12. /\ \A t \in Threads : t # u => z.futexWord[t] = x.futexWord[t] /\ z.state[t] = x.state[t]
       /\ z.futexWord[u] = 0
  BY <1>1, <1>2, <1>9, FieldTypes
<1>13. GetsContext(x, z, u, c, b)
  <2>1. \A t \in Threads : /\ t # u => z.futexWord[t] = x.futexWord[t]
                           /\ t # b => x.handoffThread[t] # u
                           /\ z.handoffThread[t] = IF x.handoffThread[t] = u THEN Nobody ELSE x.handoffThread[t]
    BY <1>9, <1>11, <1>12
  <2>2. Lists(z.runQueue, ToSet(x.runQueue) \ {u})
    BY <1>4, <1>9
  <2> QED BY <1>2, <1>9, <1>10, <1>12, <2>1, <2>2 DEF GetsContext
<1>14. Inv(z, k, {}, b) /\ Kept(x, z, b)
  BY <1>2, <1>13, Schedules
<1>15. z.failed = x.failed /\ z.marked = x.marked
  BY <1>9 DEF Same, Fields
<1>16. Aside(x, z, b)
  BY <1>2, <1>9, <1>12, <1>15 DEF Aside
<1> QED BY <1>8, <1>14, <1>15, <1>16

\* The thread that has lost its context, or will, is somewhere else.
LEMMA Quits ==
  ASSUME NEW y, NEW k \in [Threads -> Labels], NEW t \in Threads, Inv(y, k, {}, t),
         y.handoffThread[t] = Nobody, t \notin y.marked, t \notin ToSet(y.fakeLeaves),
         NEW l, \/ y.state[t] = "SLEEPING" /\ l = "sleep"
                \/ y.state[t] \in {"OUT", "BLOCKED"} /\ l \in {"syscall", "join", "finishleave", "finishend"}
  PROVE  Inv(y, [k EXCEPT ![t] = l], {}, Nobody)
<1> DEFINE k2 == [k EXCEPT ![t] = l]
<1>1. k2[t] = l
  OBVIOUS
<1>2. k2 = [k EXCEPT ![t] = l]
  OBVIOUS
<1> HIDE DEF k2
<1>3. Knows(y, k2, t)
  BY <1>1 DEF Knows
<1>4. y.state[t] # "QUEUED"
  OBVIOUS
<1> QED BY <1>2, <1>3, <1>4, Lands

\* What a thread that leaves has done.
Gone(x, z, k, t, l) ==
    z.failed = "none" /\ Inv(z, [k EXCEPT ![t] = l], {}, Nobody) /\ Kept(x, z, t) /\ z.state[t] # "RUNNING"

\* Then the phase may end.
LEMMA BarLeaves ==
  ASSUME NEW y, NEW k \in [Threads -> Labels], NEW t \in Threads, Inv(y, k, {}, t), y.failed = "none",
         y.handoffThread[t] = Nobody, t \notin y.marked, t \notin ToSet(y.fakeLeaves),
         NEW l, \/ y.state[t] = "SLEEPING" /\ l = "sleep"
                \/ y.state[t] \in {"OUT", "BLOCKED"} /\ l \in {"syscall", "join", "finishleave", "finishend"},
         NEW order \in Orders, NEW z, z = EndPhase(y, order)
  PROVE  Gone(y, z, k, t, l)
<1>1. Inv(y, [k EXCEPT ![t] = l], {}, Nobody)
  BY Quits
<1>2. z.failed = "none" /\ Inv(z, [k EXCEPT ![t] = l], {}, Nobody) /\ Kept(y, z, Nobody)
  BY <1>1, EndPhaseIs
<1>3. Kept(y, z, t)
  BY <1>2, KeptButOne
<1>4. z.state[t] # "RUNNING"
  BY <1>2 DEF Kept
<1> QED BY <1>2, <1>3, <1>4 DEF Gone

\* q is in the order in which its threads wake up.
Ordered(q, due) == \A i, j \in 1 .. Len(q) : i < j => due[q[i]] <= due[q[j]]

\* Where a sleeper is inserted.
Spot(q, due, t) == LET late == Place(q, {u \in Threads : due[u] > due[t]})
                   IN  IF late = 0 THEN Len(q) + 1 ELSE late

\* The queue stays in order.
LEMMA InsertSorted ==
  ASSUME NEW S \in SUBSET Threads, NEW q, Lists(q, S), NEW due \in [Threads -> Int], Ordered(q, due),
         NEW t \in Threads, t \notin S, NEW r, r = InsertAt(q, Spot(q, due, t), t)
  PROVE  Lists(r, S \cup {t}) /\ Ordered(r, due)
<1> DEFINE n == Len(q)
           L == {u \in Threads : due[u] > due[t]}
           late == Place(q, L)
           p == Spot(q, due, t)
<1>1. n \in Nat /\ q \in Seq(Threads) /\ \A i \in 1 .. n : q[i] \in Threads
  BY ListIs, ListSeq
<1>2. \/ late = 0 /\ \A i \in 1 .. n : q[i] \notin L
      \/ late \in 1 .. n /\ q[late] \in L /\ \A i \in 1 .. n : i < late => q[i] \notin L
  BY <1>1, PlaceIs
<1>3. p = IF late = 0 THEN n + 1 ELSE late
  BY DEF Spot
<1> HIDE DEF late, p
<1>4. p \in 1 .. n + 1 /\ \A i \in 1 .. n : i < p => q[i] \notin L
  BY <1>1, <1>2, <1>3
<1>5. \A i \in 1 .. n : i < p => due[q[i]] <= due[t]
  <2> SUFFICES ASSUME NEW i \in 1 .. n, i < p PROVE due[q[i]] <= due[t]
    OBVIOUS
  <2>1. ~(due[q[i]] > due[t])
    BY <1>1, <1>4
  <2>2. due[q[i]] \in Int /\ due[t] \in Int
    BY <1>1
  <2> QED BY <2>1, <2>2
<1>6. \A i \in 1 .. n : ~(i < p) => due[t] <= due[q[i]]
  <2> SUFFICES ASSUME NEW i \in 1 .. n, ~(i < p) PROVE due[t] <= due[q[i]]
    OBVIOUS
  <2>1. p \in 1 .. n /\ q[p] \in L /\ p <= i
    BY <1>1, <1>2, <1>3, <1>4
  <2>2. due[q[p]] > due[t] /\ due[q[p]] \in Int /\ due[q[i]] \in Int /\ due[t] \in Int
    BY <1>1, <2>1
  <2>3. due[q[p]] <= due[q[i]]
    BY <2>1, <2>2 DEF Ordered
  <2> QED BY <2>2, <2>3
<1>7. /\ Lists(r, S \cup {t}) /\ Len(r) = n + 1
      /\ \A i \in 1 .. Len(r) : r[i] = IF i < p THEN q[i] ELSE IF i = p THEN t ELSE q[i - 1]
  <2>1. r = InsertAt(q, p, t)
    BY DEF p
  <2>2. Lists(r, S \cup {t}) /\ Inserted(q, p, t, r)
    BY <1>4, <2>1, ListInsert
  <2> QED BY <2>2 DEF Inserted
<1>8. ASSUME NEW i \in 1 .. n + 1, NEW j \in 1 .. n + 1, i < j PROVE due[r[i]] <= due[r[j]]
  <2>1. due[t] \in Int /\ \A m \in 1 .. n : due[q[m]] \in Int
    BY <1>1
  <2>2. CASE j < p
    <3>1. i \in 1 .. n /\ j \in 1 .. n /\ i < p /\ r[i] = q[i] /\ r[j] = q[j]
      BY <1>1, <1>4, <1>7, <1>8, <2>2
    <3> QED BY <1>8, <3>1 DEF Ordered
  <2>3. CASE j = p
    <3>1. i \in 1 .. n /\ i < p /\ r[i] = q[i] /\ r[j] = t
      BY <1>1, <1>4, <1>7, <1>8, <2>3
    <3> QED BY <1>5, <3>1
  <2>4. CASE j > p
    <3>1. j - 1 \in 1 .. n /\ ~(j - 1 < p) /\ r[j] = q[j - 1]
      BY <1>1, <1>4, <1>7, <1>8, <2>4
    <3>2. CASE i < p
      <4>1. i \in 1 .. n /\ r[i] = q[i] /\ i < j - 1
        BY <1>1, <1>4, <1>7, <3>1, <3>2
      <4> QED BY <3>1, <4>1 DEF Ordered
    <3>3. CASE i = p
      <4>1. r[i] = t
        BY <1>7, <3>3
      <4> QED BY <1>6, <3>1, <4>1
    <3>4. CASE i > p
      <4>1. i - 1 \in 1 .. n /\ i - 1 < j - 1 /\ r[i] = q[i - 1]
        BY <1>1, <1>4, <1>7, <1>8, <3>4
      <4> QED BY <3>1, <4>1 DEF Ordered
    <3> QED BY <1>4, <3>2, <3>3, <3>4
  <2> QED BY <1>4, <2>2, <2>3, <2>4
<1> QED BY <1>7, <1>8 DEF Ordered

\* The thread is sure to have a context that its phase waits for, and goes where l is.
MayLeave(x, t, l) ==
    /\ x.state[t] = "RUNNING" /\ x.bar[x.cid[t]] = "running" /\ x.failed = "none"
    /\ x.handoffThread[t] = Nobody /\ t \notin ToSet(x.fakeLeaves)
    /\ IF t \in x.marked THEN l = "sleep" /\ x.futexWord[t] = 1 /\ x.due[t] >= 1
                         ELSE l \in {"syscall", "join", "finishleave", "finishend"}

\* What schedContext finds.
LEMMA schedContextIs ==
  ASSUME NEW x, NEW k, NEW H, NEW b, Inv(x, k, H, b), NEW c
  PROVE  IF schedContext(x, c) = Nobody THEN \A u \in ToSet(x.runQueue) : c \notin Mask[u]
                                        ELSE schedContext(x, c) \in ToSet(x.runQueue)
<1> DEFINE Q == ToSet(x.runQueue)
           M == {t \in Threads : c \in Mask[t]}
<1>1. Lists(x.runQueue, Q) /\ Q \subseteq Threads /\ Nobody \notin Q
  BY InvLists
<1>2. schedContext(x, c) = First(x.runQueue, M)
  BY DEF schedContext
<1>3. IF First(x.runQueue, M) = Nobody THEN Q \cap M = {} ELSE First(x.runQueue, M) \in Q \cap M
  BY <1>1, FirstIs
<1> QED BY <1>1, <1>2, <1>3

\* Its context is passed on to a thread of the run queue, or is free.
LEMMA PassesOn ==
  ASSUME NEW x, NEW y, NEW k \in [Threads -> Labels], NEW t \in Threads, NEW c, NEW to, Inv(x, k, {}, t),
         GivesUp(x, y, t, c, to, t), x.bar[c] = "running", y.failed = "none",
         x.handoffThread[t] = Nobody, t \notin ToSet(x.fakeLeaves), t \notin y.marked,
         NEW l, \/ to = "SLEEPING" /\ l = "sleep"
                \/ to = "BLOCKED" /\ l \in {"syscall", "join", "finishleave", "finishend"},
         NEW order \in Orders, NEW in, in = schedContext(x, c),
         NEW z, z = IF in # Nobody THEN Give(y, in, c)
                                   ELSE BarLeave([y EXCEPT !.freeList = Append(@, c)], c, order)
  PROVE  Gone(x, z, k, t, l)
<1>1. Inv(y, k, {c}, t) /\ Kept(x, y, t) /\ c \in Contexts
  BY Parts
<1>2. /\ y \in Sched /\ Same(x, y, {"state", "curThread", "outQueue", "sleepQueue", "marked"})
      /\ y.state = [x.state EXCEPT ![t] = to]
  BY DEF GivesUp
<1>3. /\ y.runQueue = x.runQueue /\ y.bar = x.bar /\ y.handoffThread = x.handoffThread
      /\ y.fakeLeaves = x.fakeLeaves /\ y.state[t] = to
  <2>1. x.state \in [Threads -> States]
    BY FieldTypes DEF Inv
  <2> QED BY <1>2, <2>1 DEF Same, Fields
<1>4. CASE in # Nobody
  <2>1. in \in ToSet(y.runQueue) /\ z = Give(y, in, c)
    BY <1>3, <1>4, schedContextIs
  <2>2. Inv(z, k, {}, t) /\ Kept(y, z, t) /\ z.failed = "none" /\ Aside(y, z, t)
    <3>1. y.bar[c] = "running" /\ y.state[t] # "QUEUED"
      BY <1>3
    <3> QED BY <1>1, <2>1, <3>1, Gives
  <2>3. z.fakeLeaves = x.fakeLeaves
    BY <1>3, <2>2 DEF Kept
  <2>4. Inv(z, [k EXCEPT ![t] = l], {}, Nobody)
    <3>1. z.handoffThread[t] = Nobody /\ t \notin z.marked /\ t \notin ToSet(z.fakeLeaves) /\ z.state[t] = to
      BY <1>3, <2>2, <2>3 DEF Aside
    <3> QED BY <2>2, <3>1, Quits
  <2>5. Kept(x, z, t)
    BY <1>1, <2>2, KeptTwice
  <2> QED BY <1>3, <2>2, <2>4, <2>5 DEF Gone, Aside
<1>5. CASE in = Nobody
  <2> DEFINE q == Append(y.freeList, c)
             f == [y EXCEPT !.freeList = q]
             v == [f EXCEPT !.bar[c] = "out"]
  <2>1. \A u \in ToSet(y.runQueue) : c \notin Mask[u]
    BY <1>3, <1>5, schedContextIs
  <2>2. Lists(y.freeList, Free(y) \ {c}) /\ Free(y) \subseteq Contexts
    BY <1>1, InvLists
  <2>3. Lists(q, (Free(y) \ {c}) \cup {c})
    BY <2>2, ListAppend
  <2>4. q \in Seq(Contexts)
    BY <1>1, <2>2, <2>3, ListSeq
  <2>5. z = BarLeave(f, c, order)
    BY <1>5
  <2> HIDE DEF q
  <2>6. f.bar = y.bar /\ f.failed = "none"
    BY <1>2 DEF Sched
  <2>7. z = EndPhase(v, order)
    <3>1. f.bar[c] = "running"
      BY <1>3, <2>6
    <3> HIDE DEF f
    <3>2. Check(v, f.bar[c] = "running", "bar.leave") = v
      BY <3>1 DEF Check
    <3> HIDE DEF v
    <3>3. BarLeave(f, c, order) = EndPhase(v, order)
      BY <3>2 DEF BarLeave, v
    <3> QED BY <2>5, <3>3
  <2>8. /\ v \in Sched /\ Same(y, v, {"freeList", "bar"}) /\ v.freeList = q /\ v.bar = [y.bar EXCEPT ![c] = "out"]
    BY <1>2, <2>4 DEF Sched, Same, Fields
  <2> HIDE DEF v
  <2>9. PutsBack(y, v, c)
    BY <2>1, <2>3, <2>8 DEF PutsBack
  <2>10. Inv(v, k, {}, t) /\ Kept(y, v, t)
    BY <1>1, <2>9, Frees
  <2>11. /\ v.failed = "none" /\ v.handoffThread[t] = Nobody /\ t \notin v.marked
         /\ t \notin ToSet(v.fakeLeaves) /\ v.state[t] = to
    BY <1>3, <2>8 DEF Same, Fields
  <2>12. Gone(v, z, k, t, l)
    BY <2>7, <2>10, <2>11, BarLeaves
  <2>13. Kept(x, z, t)
    BY <1>1, <2>10, <2>12, KeptTwice DEF Gone
  <2> QED BY <2>12, <2>13 DEF Gone
<1> QED BY <1>4, <1>5

\* leave(), when the assertion at its start holds.
LEMMA LeaveIs ==
  ASSUME NEW x, NEW k \in [Threads -> Labels], NEW t \in Threads, NEW l, Inv(x, k, {}, Nobody), MayLeave(x, t, l),
         NEW order \in Orders, NEW z, z = leave(x, t, x.cid[t], order)
  PROVE  Gone(x, z, k, t, l)
<1> DEFINE c == x.cid[t]
           in == schedContext(x, c)
<1>1. Inv(x, k, {}, t) /\ x \in Sched /\ Placed(x) /\ Sorted(x)
  BY Enters DEF Inv
<1>2. /\ x.state[t] = "RUNNING" /\ x.bar[c] = "running" /\ x.failed = "none"
      /\ x.handoffThread[t] = Nobody /\ t \notin ToSet(x.fakeLeaves)
      /\ t \in x.marked => l = "sleep" /\ x.futexWord[t] = 1 /\ x.due[t] >= 1
      /\ t \notin x.marked => l \in {"syscall", "join", "finishleave", "finishend"}
  BY DEF MayLeave
<1>3. c = x.cid[t] /\ c \in Contexts /\ x.curThread[c] = t
  BY <1>1, <1>2, OneContext
<1>4. in = schedContext(x, c)
  OBVIOUS
<1>5. Check(x, x.curThread[c] = t /\ x.state[t] = "RUNNING", "leave") = x
  BY <1>2, <1>3 DEF Check
<1>6. /\ Lists(x.outQueue, In(x, "OUT")) /\ Lists(x.sleepQueue, In(x, "SLEEPING"))
      /\ t \notin In(x, "OUT") /\ t \notin In(x, "SLEEPING")
  BY <1>1, <1>2 DEF Placed, In
<1>7. CASE t \in x.marked
  <2> DEFINE m == x.marked \ {t}
             r == InsertAt(x.sleepQueue, Spot(x.sleepQueue, x.due, t), t)
             a == [x EXCEPT !.marked = m]
             d == [a EXCEPT !.state[t] = "SLEEPING", !.curThread[c] = Nobody]
             y == [d EXCEPT !.sleepQueue = r]
  <2>1. Lists(r, In(x, "SLEEPING") \cup {t}) /\ Ordered(r, x.due)
    <3>1. In(x, "SLEEPING") \in SUBSET Threads /\ x.due \in [Threads -> Int]
      BY <1>1, FieldTypes DEF In
    <3>2. Ordered(x.sleepQueue, x.due)
      BY <1>1 DEF Sorted, Ordered
    <3> HIDE DEF r
    <3> QED BY <1>6, <3>1, <3>2, InsertSorted DEF r
  <2>2. r \in Seq(Threads)
    BY <2>1, ListSeq DEF In
  <2>3. m \in SUBSET Threads /\ t \notin m /\ m \subseteq x.marked
    BY <1>1, FieldTypes
  <2>4. deschedule(a, t, c, "SLEEPING") = d
    <3>1. a.state = x.state /\ a.cid = x.cid /\ a.curThread = x.curThread
      BY <1>1 DEF Sched
    <3> HIDE DEF a
    <3> QED BY <1>2, <1>3, <3>1 DEF deschedule, Check
  <2>5. Sleep(d, t) = y
    <3>1. d.sleepQueue = x.sleepQueue /\ d.due = x.due
      BY <1>1 DEF Sched
    <3>2. Sleep(d, t) = [d EXCEPT !.sleepQueue = InsertAt(@, Spot(@, d.due, t), t)]
      <4> HIDE DEF d
      <4> QED BY DEF Sleep, Spot
    <3>3. d \in Sched
      BY <1>1, <1>3, <2>3 DEF Sched, States
    <3> HIDE DEF d
    <3>4. [d EXCEPT !.sleepQueue = InsertAt(@, Spot(@, d.due, t), t)]
            = [d EXCEPT !.sleepQueue = InsertAt(d.sleepQueue, Spot(d.sleepQueue, d.due, t), t)]
      BY <3>3 DEF Sched
    <3> QED BY <3>1, <3>2, <3>4
  <2>6. z = IF in # Nobody THEN Give(y, in, c)
                           ELSE BarLeave([y EXCEPT !.freeList = Append(@, c)], c, order)
    <3>1. z = LET w == Sleep(deschedule(a, t, c, "SLEEPING"), t)
              IN  IF in # Nobody THEN Give(w, in, c)
                  ELSE BarLeave([w EXCEPT !.freeList = Append(@, c)], c, order)
      BY <1>2, <1>5, <1>7 DEF leave
    <3> HIDE DEF a, d, y
    <3> QED BY <2>4, <2>5, <3>1
  <2> HIDE DEF r, m
  <2>7. /\ y \in Sched /\ Same(x, y, {"state", "curThread", "outQueue", "sleepQueue", "marked"})
        /\ y.state = [x.state EXCEPT ![t] = "SLEEPING"] /\ y.curThread = [x.curThread EXCEPT ![c] = Nobody]
        /\ y.sleepQueue = r /\ y.outQueue = x.outQueue /\ y.marked = m
    BY <1>1, <1>3, <2>2, <2>3 DEF Sched, Same, Fields, States
  <2> HIDE DEF y
  <2>8. y.due = x.due /\ y.futexWord = x.futexWord /\ y.failed = "none"
    BY <1>2, <2>7 DEF Same, Fields
  <2>9. (\A u \in Threads : u # t => y.state[u] = x.state[u]) /\ y.state[t] = "SLEEPING"
    BY <1>1, <2>7, FieldTypes
  <2>10. In(y, "SLEEPING") = In(x, "SLEEPING") \cup {t}
    BY <2>9 DEF In
  <2>11. Sorted(y)
    <3>1. \A u \in Threads : y.state[u] = "SLEEPING" => y.futexWord[u] = 1 /\ y.due[u] >= 1
      BY <1>1, <1>2, <1>7, <2>8, <2>9 DEF Sorted
    <3> QED BY <2>1, <2>7, <2>8, <3>1 DEF Sorted, Ordered
  <2>12. GivesUp(x, y, t, c, "SLEEPING", t)
    <3>1. Lists(y.outQueue, In(x, "OUT") \ {t})
      <4>1. In(x, "OUT") \ {t} = In(x, "OUT")
        BY <1>6
      <4> QED BY <1>6, <2>7, <4>1
    <3>2. Lists(y.sleepQueue, In(y, "SLEEPING")) /\ y.marked \subseteq x.marked
      BY <2>1, <2>3, <2>7, <2>10
    <3> QED BY <1>2, <1>3, <2>7, <2>11, <3>1, <3>2 DEF GivesUp
  <2>13. t \notin y.marked /\ l = "sleep"
    BY <1>2, <1>7, <2>3, <2>7
  <2> HIDE DEF in, c
  <2> QED BY <1>1, <1>2, <1>4, <2>6, <2>8, <2>12, <2>13, PassesOn
<1>8. CASE t \notin x.marked /\ in # Nobody
  <2> DEFINE y == [x EXCEPT !.state[t] = "BLOCKED", !.curThread[c] = Nobody]
  <2>1. deschedule(x, t, c, "BLOCKED") = y
    BY <1>2, <1>3 DEF deschedule, Check
  <2>2. z = Give(y, in, c)
    <3>1. z = Give(deschedule(x, t, c, "BLOCKED"), in, c)
      BY <1>2, <1>5, <1>8 DEF leave
    <3> QED BY <2>1, <3>1
  <2>3. /\ y \in Sched /\ Same(x, y, {"state", "curThread", "outQueue", "sleepQueue", "marked"})
        /\ y.state = [x.state EXCEPT ![t] = "BLOCKED"] /\ y.curThread = [x.curThread EXCEPT ![c] = Nobody]
        /\ y.sleepQueue = x.sleepQueue /\ y.outQueue = x.outQueue /\ y.marked = x.marked
    BY <1>1, <1>3 DEF Sched, Same, Fields, States
  <2> HIDE DEF y
  <2>4. y.due = x.due /\ y.futexWord = x.futexWord /\ y.failed = "none"
    BY <1>2, <2>3 DEF Same, Fields
  <2>5. (\A u \in Threads : u # t => y.state[u] = x.state[u]) /\ y.state[t] = "BLOCKED"
    BY <1>1, <2>3, FieldTypes
  <2>6. In(y, "SLEEPING") = In(x, "SLEEPING")
    BY <1>6, <2>5 DEF In
  <2>7. Sorted(y)
    BY <1>1, <2>3, <2>4, <2>5 DEF Sorted
  <2>8. GivesUp(x, y, t, c, "BLOCKED", t)
    <3>1. Lists(y.outQueue, In(x, "OUT") \ {t})
      <4>1. In(x, "OUT") \ {t} = In(x, "OUT")
        BY <1>6
      <4> QED BY <1>6, <2>3, <4>1
    <3> QED BY <1>2, <1>3, <1>6, <2>3, <2>6, <2>7, <3>1 DEF GivesUp
  <2>9. z = IF in # Nobody THEN Give(y, in, c)
                           ELSE BarLeave([y EXCEPT !.freeList = Append(@, c)], c, order)
    BY <1>8, <2>2
  <2>10. t \notin y.marked /\ l \in {"syscall", "join", "finishleave", "finishend"}
    BY <1>2, <1>8, <2>3
  <2> HIDE DEF in, c
  <2> QED BY <1>1, <1>2, <1>4, <2>4, <2>8, <2>9, <2>10, PassesOn
<1>9. CASE t \notin x.marked /\ in = Nobody
  <2> DEFINE q == Append(x.outQueue, t)
             a == [x EXCEPT !.state[t] = "OUT", !.outQueue = q]
             y == [a EXCEPT !.bar[c] = "out"]
  <2>1. z = BarLeave(a, c, order)
    BY <1>2, <1>5, <1>9 DEF leave
  <2>2. Lists(q, In(x, "OUT") \cup {t})
    BY <1>6, ListAppend
  <2>3. q \in Seq(Threads)
    BY <2>2, ListSeq DEF In
  <2> HIDE DEF q
  <2>4. a.bar = x.bar /\ a.failed = "none"
    BY <1>1, <1>2 DEF Sched
  <2>5. z = EndPhase(y, order)
    <3>1. a.bar[c] = "running"
      BY <1>2, <2>4
    <3>2. Check(y, a.bar[c] = "running", "bar.leave") = y
      BY <3>1 DEF Check
    <3> HIDE DEF a
    <3>3. BarLeave(a, c, order) = EndPhase(Check(y, a.bar[c] = "running", "bar.leave"), order)
      BY DEF BarLeave
    <3> QED BY <2>1, <3>2, <3>3
  <2>6. /\ y \in Sched /\ Same(x, y, {"state", "outQueue", "bar"}) /\ y.state = [x.state EXCEPT ![t] = "OUT"]
        /\ y.bar = [x.bar EXCEPT ![c] = "out"] /\ y.outQueue = q
    BY <1>1, <1>3, <2>3 DEF Sched, Same, Fields, States
  <2> HIDE DEF y
  <2>7. \A u \in ToSet(x.runQueue) : c \notin Mask[u]
    BY <1>1, <1>4, <1>9, schedContextIs
  <2>8. LeavesOrJoins(x, y, c, "OUT", t)
    BY <1>2, <2>2, <2>6, <2>7 DEF LeavesOrJoins
  <2>9. Inv(y, k, {}, t) /\ Kept(x, y, t)
    BY <1>1, <2>8, GoesOrComes
  <2>10. /\ y.failed = "none" /\ y.handoffThread[t] = Nobody /\ t \notin y.marked
         /\ t \notin ToSet(y.fakeLeaves) /\ y.state[t] = "OUT"
    <3>1. x.state \in [Threads -> States]
      BY <1>1, FieldTypes
    <3> QED BY <1>2, <1>9, <2>6, <3>1 DEF Same, Fields
  <2>11. l \in {"syscall", "join", "finishleave", "finishend"}
    BY <1>2, <1>9
  <2>12. Gone(y, z, k, t, l)
    BY <2>5, <2>9, <2>10, <2>11, BarLeaves
  <2> QED BY <2>9, <2>12, KeptTwice DEF Gone
<1> QED BY <1>7, <1>8, <1>9

----------------------------------------------------------------------------
(* The actions. *)

\* Whose leave the watchdog may be about to execute, and who has left without one.
Watch(x, k, w) ==
    /\ w.at = "leave" =>
          \/ k[w.th] \in {"finishleave", "finishend", "done"}
          \/ /\ k[w.th] \in {"syscall", "join"} /\ x.state[w.th] = "RUNNING"
             /\ x.cid[w.th] = w.cid /\ w.th \notin ToSet(x.fakeLeaves)
    /\ \A u \in Threads : k[u] \in {"syscall", "join"} /\ x.state[u] = "RUNNING" =>
          u \in ToSet(x.fakeLeaves) \/ (w.at = "leave" /\ w.th = u)

\* The invariant as long as no assertion has failed.
Fine(x, k, w) ==
    /\ k \in [Threads -> Labels] /\ w \in Watching
    /\ Inv(x, k, {}, Nobody) /\ Watch(x, k, w) /\ x.failed = "none"

\* The inductive invariant.
SchedulerInv ==
    /\ pc \in [Threads -> Labels] /\ watchdog \in Watching /\ Inv(s, pc, {}, Nobody)
    /\ s.failed = "none" => Watch(s, pc, watchdog)
    /\ AssertsHold

\* A step of b leaves the others as they are, as far as the watchdog is concerned.
Unwatched(x, y, b) ==
    \A u \in Threads \ {b} :
       /\ u \in ToSet(y.fakeLeaves) <=> u \in ToSet(x.fakeLeaves)
       /\ x.state[u] = "RUNNING" => y.state[u] = "RUNNING" /\ y.cid[u] = x.cid[u]
       /\ y.state[u] = "RUNNING" => x.state[u] \in {"RUNNING", "QUEUED"}

\* And it is itself where the watchdog expects it.
Watched(y, w, b, l) ==
    /\ w.at = "leave" /\ w.th = b =>
          \/ l \in {"finishleave", "finishend", "done"}
          \/ /\ l \in {"syscall", "join"} /\ y.state[b] = "RUNNING"
             /\ y.cid[b] = w.cid /\ b \notin ToSet(y.fakeLeaves)
    /\ l \in {"syscall", "join"} /\ y.state[b] = "RUNNING" =>
          b \in ToSet(y.fakeLeaves) \/ (w.at = "leave" /\ w.th = b)

LEMMA WatchKept ==
  ASSUME NEW x, NEW y, NEW k, NEW w, Fine(x, k, w), NEW b \in Threads, NEW l,
         Unwatched(x, y, b), Watched(y, w, b, l)
  PROVE  Watch(y, [k EXCEPT ![b] = l], w)
<1> DEFINE k2 == [k EXCEPT ![b] = l]
<1>1. /\ k \in [Threads -> Labels] /\ w \in Watching /\ Watch(x, k, w)
      /\ \A u \in Threads : Knows(x, k, u)
  BY DEF Fine, Inv
<1>2. k2[b] = l /\ \A u \in Threads : u # b => k2[u] = k[u]
  BY <1>1
<1>3. w.at = "leave" => w.th \in Threads
  BY <1>1 DEF Watching
<1> HIDE DEF k2
<1>4. ASSUME w.at = "leave"
      PROVE  \/ k2[w.th] \in {"finishleave", "finishend", "done"}
             \/ /\ k2[w.th] \in {"syscall", "join"} /\ y.state[w.th] = "RUNNING"
                /\ y.cid[w.th] = w.cid /\ w.th \notin ToSet(y.fakeLeaves)
  <2>1. CASE w.th = b
    BY <1>2, <1>4, <2>1 DEF Watched
  <2>2. CASE w.th # b
    BY <1>1, <1>2, <1>3, <1>4, <2>2 DEF Watch, Unwatched
  <2> QED BY <2>1, <2>2
<1>5. ASSUME NEW u \in Threads, k2[u] \in {"syscall", "join"}, y.state[u] = "RUNNING"
      PROVE  u \in ToSet(y.fakeLeaves) \/ (w.at = "leave" /\ w.th = u)
  <2>1. CASE u = b
    BY <1>2, <1>5, <2>1 DEF Watched
  <2>2. CASE u # b
    <3>1. x.state[u] = "RUNNING"
      BY <1>1, <1>2, <1>5, <2>2 DEF Unwatched, Knows
    <3> QED BY <1>1, <1>2, <1>5, <2>2, <3>1 DEF Watch, Unwatched
  <2> QED BY <2>1, <2>2
<1>6. Watch(y, k2, w)
  BY <1>4, <1>5 DEF Watch
<1> QED BY <1>6 DEF k2

\* What is kept is not watched.
LEMMA KeptUnwatched ==
  ASSUME NEW x, NEW y, NEW b, Kept(x, y, b)
  PROVE  Unwatched(x, y, b)
  BY DEF Kept, Unwatched

\* A thread that is nowhere near a syscall is not watched.
LEMMA FarAway ==
  ASSUME NEW x, NEW k, NEW w, Fine(x, k, w), NEW t \in Threads,
         NEW y, NEW l, l \notin {"syscall", "join"},
         \/ k[t] \notin {"syscall", "join", "finishleave", "finishend", "done"}
         \/ l \in {"finishleave", "finishend", "done"}
         \/ k[t] = "join" /\ (x.state[t] # "RUNNING" \/ t \in ToSet(x.fakeLeaves))
  PROVE  Watched(y, w, t, l)
  BY DEF Watched, Fine, Watch

\* Where a thread may be, by its state.
LEMMA WhereItIs ==
  ASSUME NEW x, NEW k, NEW b, Inv(x, k, {}, b), NEW t \in Threads, t # b
  PROVE  /\ k[t] \in {"run", "sync", "handoff", "marked", "leave"} =>
               x.state[t] = "RUNNING" /\ x.cid[t] \in Contexts /\ x.curThread[x.cid[t]] = t
         /\ k[t] = "wait" /\ x.futexWord[t] = 0 => x.state[t] = "RUNNING"
         /\ k[t] \in {"sleep", "notify"} => x.state[t] \in {"SLEEPING", "BLOCKED"}
         /\ k[t] = "new" => x.state[t] = "NONE"
         /\ k[t] = "join" => x.state[t] \in {"STARTED", "SLEEPING", "BLOCKED", "OUT", "RUNNING"}
         /\ k[t] = "syscall" => x.state[t] \in {"BLOCKED", "OUT", "RUNNING"}
         /\ k[t] = "finishleave" => x.state[t] \in {"BLOCKED", "OUT", "RUNNING"}
         /\ k[t] = "finishend" => x.state[t] \in {"BLOCKED", "OUT"}
         /\ k[t] \notin {"sync", "handoff"} => x.handoffThread[t] = Nobody
         /\ k[t] \notin {"syscall", "join"} => t \notin ToSet(x.fakeLeaves)
         /\ k[t] \notin {"marked", "leave"} => t \notin x.marked
         /\ x.state[t] = "RUNNING" /\ k[t] # "sync" => x.bar[x.cid[t]] = "running"
<1>1. x \in Sched /\ Placed(x) /\ Bars(x, {}) /\ Knows(x, k, t)
  BY DEF Inv
<1>2. x.state[t] \in States /\ x.handoffThread[t] \in Threads \cup {Nobody} /\ x.futexWord[t] \in {0, 1}
  BY <1>1, FieldTypes
<1>3. x.state[t] = "RUNNING" => x.cid[t] \in Contexts /\ x.curThread[x.cid[t]] = t
  BY <1>1, OneContext
<1>4. k[t] \in {"run", "sync", "handoff", "marked", "leave"} => x.state[t] = "RUNNING"
  BY <1>1, <1>2 DEF Knows, States
<1>5. x.state[t] = "RUNNING" /\ k[t] # "sync" => x.bar[x.cid[t]] = "running"
  <2> SUFFICES ASSUME x.state[t] = "RUNNING", k[t] # "sync" PROVE x.bar[x.cid[t]] = "running"
    OBVIOUS
  <2>1. x.cid[t] \in Contexts /\ Driven(x, x.cid[t])
    BY <1>3 DEF Driven, Used
  <2>2. x.bar[x.cid[t]] # "out"
    BY <1>1, <2>1 DEF Bars
  <2>3. x.bar[x.cid[t]] # "done"
    BY <1>1 DEF Knows
  <2> QED BY <1>1, <2>1, <2>2, <2>3, FieldTypes
<1>6. /\ k[t] = "wait" /\ x.futexWord[t] = 0 => x.state[t] = "RUNNING"
      /\ k[t] \in {"sleep", "notify"} => x.state[t] \in {"SLEEPING", "BLOCKED"}
      /\ k[t] = "new" => x.state[t] = "NONE"
  BY <1>1, <1>2 DEF Knows, States
<1>7. /\ k[t] = "join" => x.state[t] \in {"STARTED", "SLEEPING", "BLOCKED", "OUT", "RUNNING"}
      /\ k[t] = "syscall" => x.state[t] \in {"BLOCKED", "OUT", "RUNNING"}
      /\ k[t] = "finishleave" => x.state[t] \in {"BLOCKED", "OUT", "RUNNING"}
      /\ k[t] = "finishend" => x.state[t] \in {"BLOCKED", "OUT"}
  BY <1>1, <1>2 DEF Knows, States
<1>8. /\ k[t] \notin {"sync", "handoff"} => x.handoffThread[t] = Nobody
      /\ k[t] \notin {"syscall", "join"} => t \notin ToSet(x.fakeLeaves)
      /\ k[t] \notin {"marked", "leave"} => t \notin x.marked
  BY <1>1 DEF Knows
<1> QED BY <1>3, <1>4, <1>5, <1>6, <1>7, <1>8


----------------------------------------------------------------------------
(* Steps that change only the state of the thread that takes them. *)

\* As long as no assertion has failed.
LEMMA FineNow ==
  ASSUME SchedulerInv, s.failed = "none"
  PROVE  Fine(s, pc, watchdog)
  BY DEF SchedulerInv, Fine

\* How a critical section of t ends that keeps the invariant.
LEMMA DoKeeps ==
  ASSUME Fine(s, pc, watchdog), NEW t \in Threads, NEW l \in Labels, NEW x, x.failed = "none",
         Inv(x, [pc EXCEPT ![t] = l], {}, Nobody), Unwatched(s, x, t), Watched(x, watchdog, t, l),
         Do(t, x, l), UNCHANGED watchdog
  PROVE  SchedulerInv'
<1>1. s' = x /\ pc' = [pc EXCEPT ![t] = l] /\ watchdog' = watchdog
  BY DEF Do, Commit, GoTo
<1>2. pc \in [Threads -> Labels] /\ watchdog \in Watching
  BY DEF Fine
<1>3. Watch(x, [pc EXCEPT ![t] = l], watchdog)
  BY WatchKept
<1>4. pc' \in [Threads -> Labels] /\ watchdog' \in Watching
  BY <1>1, <1>2
<1>5. Inv(s', pc', {}, Nobody) /\ Watch(s', pc', watchdog') /\ s'.failed = "none"
  BY <1>1, <1>3
<1>6. AssertsHold'
  BY <1>5 DEF AssertsHold
<1> QED BY <1>4, <1>5, <1>6 DEF SchedulerInv

\* How one ends in which an assertion fails.
FailsAs(what) ==
    /\ s' = [s EXCEPT !.failed = what] /\ UNCHANGED pc /\ watchdog' \in Watching
    /\ \/ what = "join" /\ watchdog'.at = "leave"
       \/ what = "leave" /\ (watchdog'.at = "next" \/ \E t \in Threads : pc[t] = "finishleave")

LEMMA FailsKeeps ==
  ASSUME Fine(s, pc, watchdog), NEW what, FailsAs(what)
  PROVE  SchedulerInv'
<1> DEFINE y == [s EXCEPT !.failed = what]
<1>1. pc \in [Threads -> Labels] /\ Inv(s, pc, {}, Nobody) /\ s \in Sched
  BY DEF Fine, Inv
<1>0. what \in {"join", "leave"}
  BY DEF FailsAs
<1>2. y \in Sched /\ Same(s, y, {"failed"}) /\ y.failed = what
  BY <1>0, <1>1 DEF Sched, Same, Fields
<1> HIDE DEF y
<1>3. /\ y.state = s.state /\ y.futexWord = s.futexWord /\ y.due = s.due /\ y.marked = s.marked
      /\ y.fakeLeaves = s.fakeLeaves /\ y.sleepQueue = s.sleepQueue
  BY <1>2 DEF Same, Fields
<1>4. Lists(s.fakeLeaves, ToSet(s.fakeLeaves)) /\ Lists(s.sleepQueue, In(s, "SLEEPING")) /\ Sorted(s)
  BY <1>1 DEF Inv, Placed
<1>5. Lists(y.fakeLeaves, ToSet(y.fakeLeaves)) /\ Lists(y.sleepQueue, In(y, "SLEEPING")) /\ Sorted(y)
  BY <1>3, <1>4 DEF In, Sorted
<1>6. Same(s, y, {"state", "sleepQueue", "futexWord", "due", "marked", "fakeLeaves", "failed"})
  BY <1>2 DEF Same
<1>7. OwnChange(s, y, Nobody)
  BY <1>2, <1>3, <1>5, <1>6 DEF OwnChange
<1>8. Inv(y, pc, {}, Nobody)
  BY <1>1, <1>7, Own
<1>9. s' = y /\ s'.failed = what
  BY <1>2 DEF y, FailsAs
<1>10. Inv(s', pc', {}, Nobody)
  BY <1>8, <1>9 DEF FailsAs
<1>11. AssertsHold'
  BY <1>9 DEF AssertsHold, FailsAs
<1>12. what # "none"
  BY DEF FailsAs
<1> QED BY <1>1, <1>9, <1>10, <1>11, <1>12 DEF SchedulerInv, FailsAs

\* The other threads of fakeLeaves stay there.
StayFake(x, y, t) == \A u \in ToSet(x.fakeLeaves) : u = t \/ u \in ToSet(y.fakeLeaves)

\* Such a change of t is a step of the invariant if t is where its state says.
LEMMA OwnKeeps ==
  ASSUME Fine(s, pc, watchdog), NEW t \in Threads, NEW l \in Labels, NEW x, OwnChange(s, x, t), x.failed = "none",
         x.state[t] # "QUEUED", Knows(x, [pc EXCEPT ![t] = l], t), StayFake(s, x, t), Watched(x, watchdog, t, l),
         Do(t, x, l), UNCHANGED watchdog
  PROVE  SchedulerInv'
<1> DEFINE k2 == [pc EXCEPT ![t] = l]
<1>1. pc \in [Threads -> Labels] /\ Inv(s, pc, {}, Nobody) /\ k2 = [pc EXCEPT ![t] = l] /\ Knows(x, k2, t)
  BY DEF Fine
<1>2. Inv(s, pc, {}, t)
  BY <1>1, Enters
<1>3. Inv(x, pc, {}, t)
  BY <1>2, Own
<1> HIDE DEF k2
<1>4. Inv(x, k2, {}, Nobody)
  BY <1>1, <1>3, Lands
<1>5. Unwatched(s, x, t)
  <2>1. x.cid = s.cid
    BY DEF OwnChange, Same, Fields
  <2> QED BY <2>1 DEF OwnChange, Unwatched, StayFake
<1> QED BY <1>1, <1>4, <1>5, DoKeeps

\* A step that changes nothing but where t is.
LEMMA MovesOn ==
  ASSUME Fine(s, pc, watchdog), NEW t \in Threads, NEW l \in Labels,
         s.state[t] # "QUEUED", Knows(s, [pc EXCEPT ![t] = l], t), Watched(s, watchdog, t, l),
         GoTo(t, l), UNCHANGED <<s, watchdog>>
  PROVE  SchedulerInv'
<1> DEFINE k2 == [pc EXCEPT ![t] = l]
<1>1. pc \in [Threads -> Labels] /\ Inv(s, pc, {}, Nobody) /\ k2 = [pc EXCEPT ![t] = l] /\ Knows(s, k2, t)
      /\ s.failed = "none"
  BY DEF Fine
<1>2. Inv(s, pc, {}, t)
  BY <1>1, Enters
<1> HIDE DEF k2
<1>3. Inv(s, k2, {}, Nobody)
  BY <1>1, <1>2, Lands
<1>4. Unwatched(s, s, t)
  BY DEF Unwatched
<1>5. Do(t, s, l)
  BY <1>1 DEF Do, Commit
<1> QED BY <1>1, <1>3, <1>4, <1>5, DoKeeps

\* A change of t's state, of its word and of when it is due.
OwnState(x, y, t) ==
    /\ y \in Sched /\ Same(x, y, {"state", "futexWord", "due", "marked"})
    /\ \A u \in Threads \ {t} : /\ y.state[u] = x.state[u] /\ y.futexWord[u] = x.futexWord[u] /\ y.due[u] = x.due[u]
                                /\ u \in y.marked => u \in x.marked
    /\ x.state[t] # "SLEEPING" /\ y.state[t] # "SLEEPING"
    /\ \/ x.state[t] = y.state[t] /\ y.state[t] # "QUEUED"
       \/ /\ x.state[t] \in {"NONE", "STARTED", "BLOCKED"}
          /\ y.state[t] \in {"NONE", "STARTED", "BLOCKED"}

\* It disturbs nothing else.
LEMMA OwnStateIs ==
  ASSUME NEW x, NEW y, NEW k, NEW t \in Threads, NEW b, Inv(x, k, {}, b), OwnState(x, y, t)
  PROVE  OwnChange(x, y, t) /\ StayFake(x, y, t) /\ y.failed = x.failed
<1>1. Lists(x.fakeLeaves, ToSet(x.fakeLeaves)) /\ Lists(x.sleepQueue, In(x, "SLEEPING")) /\ Sorted(x)
  BY DEF Inv, Placed
<1>2. y.fakeLeaves = x.fakeLeaves /\ y.sleepQueue = x.sleepQueue /\ y.failed = x.failed
  BY DEF OwnState, Same, Fields
<1>3. In(y, "SLEEPING") = In(x, "SLEEPING")
  BY DEF OwnState, In
<1>4. Sorted(y)
  <2>1. \A i \in 1 .. Len(x.sleepQueue) : x.sleepQueue[i] \in Threads \ {t}
    BY <1>1, ListIs DEF OwnState, In
  <2> QED BY <1>1, <1>2, <2>1 DEF OwnState, Sorted
<1>5. Same(x, y, {"state", "sleepQueue", "futexWord", "due", "marked", "fakeLeaves", "failed"})
  BY DEF OwnState, Same
<1>6. OwnChange(x, y, t)
  BY <1>1, <1>2, <1>3, <1>4, <1>5 DEF OwnState, OwnChange
<1> QED BY <1>2, <1>6 DEF StayFake

\* Only the list of fake leaves changes, and only for t.
OwnFake(x, y, t) ==
    /\ y \in Sched /\ Same(x, y, {"fakeLeaves"})
    /\ Lists(y.fakeLeaves, ToSet(y.fakeLeaves))
    /\ ToSet(y.fakeLeaves) \ {t} = ToSet(x.fakeLeaves) \ {t}

LEMMA OwnFakeIs ==
  ASSUME NEW x, NEW y, NEW k, NEW t \in Threads, NEW b, Inv(x, k, {}, b), OwnFake(x, y, t), x.state[t] # "QUEUED"
  PROVE  /\ OwnChange(x, y, t) /\ StayFake(x, y, t) /\ y.failed = x.failed
         /\ y.state = x.state /\ y.cid = x.cid /\ y.futexWord = x.futexWord /\ y.handoffThread = x.handoffThread
         /\ y.marked = x.marked /\ y.due = x.due /\ y.bar = x.bar
<1>1. Lists(x.sleepQueue, In(x, "SLEEPING")) /\ Sorted(x)
  BY DEF Inv, Placed
<1>2. /\ y.state = x.state /\ y.cid = x.cid /\ y.futexWord = x.futexWord /\ y.handoffThread = x.handoffThread
      /\ y.marked = x.marked /\ y.due = x.due /\ y.bar = x.bar /\ y.sleepQueue = x.sleepQueue /\ y.failed = x.failed
  BY DEF OwnFake, Same, Fields
<1>3. Lists(y.sleepQueue, In(y, "SLEEPING")) /\ Sorted(y)
  BY <1>1, <1>2 DEF In, Sorted
<1>4. Same(x, y, {"state", "sleepQueue", "futexWord", "due", "marked", "fakeLeaves", "failed"})
  BY DEF OwnFake, Same
<1>5. StayFake(x, y, t)
  BY DEF OwnFake, StayFake
<1>6. OwnChange(x, y, t)
  BY <1>2, <1>3, <1>4 DEF OwnFake, OwnChange
<1> QED BY <1>2, <1>5, <1>6

\* A thread that was far from a syscall and does not run is not watched.
LEMMA NotRunning ==
  ASSUME NEW x, NEW k, NEW w, Fine(x, k, w), NEW t \in Threads,
         k[t] \notin {"syscall", "join", "finishleave", "finishend", "done"},
         NEW y, y.state[t] # "RUNNING", NEW l
  PROVE  Watched(y, w, t, l)
  BY DEF Watched, Fine, Watch

\* The thread starts.
LEMMA startKeeps ==
  ASSUME Fine(s, pc, watchdog), NEW t \in Threads, start(t)
  PROVE  SchedulerInv'
<1> DEFINE x == [s EXCEPT !.state[t] = "STARTED"]
<1>1. pc[t] = "new" /\ Do(t, x, "join") /\ UNCHANGED watchdog
  BY DEF start, At
<1>2. Inv(s, pc, {}, Nobody) /\ s \in Sched /\ pc \in [Threads -> Labels] /\ s.failed = "none" /\ Knows(s, pc, t)
  BY DEF Fine, Inv
<1>3. s.state \in [Threads -> States] /\ s.state[t] = "NONE"
  BY <1>1, <1>2, FieldTypes DEF Knows
<1>4. x \in Sched /\ Same(s, x, {"state"}) /\ x.state = [s.state EXCEPT ![t] = "STARTED"]
  BY <1>2, <1>3 DEF Sched, Same, Fields, States
<1> HIDE DEF x
<1>5. /\ x.futexWord = s.futexWord /\ x.due = s.due /\ x.marked = s.marked /\ x.handoffThread = s.handoffThread
      /\ x.fakeLeaves = s.fakeLeaves
  BY <1>4 DEF Same, Fields
<1>6. x.state[t] = "STARTED" /\ \A u \in Threads : u # t => x.state[u] = s.state[u]
  BY <1>3, <1>4
<1>7. Same(s, x, {"state", "futexWord", "due", "marked"})
  BY <1>4 DEF Same
<1>8. OwnState(s, x, t)
  BY <1>3, <1>4, <1>5, <1>6, <1>7 DEF OwnState
<1>9. Knows(x, [pc EXCEPT ![t] = "join"], t)
  BY <1>1, <1>2, <1>5, <1>6 DEF Knows
<1>10. Watched(x, watchdog, t, "join")
  BY <1>1, <1>6, NotRunning
<1>11. OwnChange(s, x, t) /\ StayFake(s, x, t) /\ x.failed = "none"
  BY <1>2, <1>8, OwnStateIs
<1> QED BY <1>1, <1>6, <1>9, <1>10, <1>11, OwnKeeps DEF Labels

\* A thread goes on as if it had not left.
LEMMA JoinFakeKeeps ==
  ASSUME Fine(s, pc, watchdog), NEW t \in Threads, JoinFake(t)
  PROVE  SchedulerInv'
<1> DEFINE x == [s EXCEPT !.fakeLeaves = RemoveFirst(@, t)]
<1>1. pc[t] = "join" /\ t \in ToSet(s.fakeLeaves) /\ Do(t, finishFakeLeave(s, t), "run") /\ UNCHANGED watchdog
  BY DEF JoinFake, At
<1>2. Inv(s, pc, {}, Nobody) /\ s \in Sched /\ pc \in [Threads -> Labels] /\ s.failed = "none" /\ Knows(s, pc, t)
  BY DEF Fine, Inv
<1>3. s.state[t] = "RUNNING"
  BY <1>1, <1>2 DEF Knows
<1>4. finishFakeLeave(s, t) = x
  BY <1>3 DEF finishFakeLeave, Check
<1>5. Lists(s.fakeLeaves, ToSet(s.fakeLeaves)) /\ ToSet(s.fakeLeaves) \subseteq Threads
  BY <1>2, InvLists
<1>6. Lists(RemoveFirst(s.fakeLeaves, t), ToSet(s.fakeLeaves) \ {t})
  BY <1>5, ListRemove
<1>7. RemoveFirst(s.fakeLeaves, t) \in Seq(Threads)
  BY <1>5, <1>6, ListSeq
<1>8. x \in Sched /\ Same(s, x, {"fakeLeaves"}) /\ x.fakeLeaves = RemoveFirst(s.fakeLeaves, t)
  BY <1>2, <1>7 DEF Sched, Same, Fields
<1> HIDE DEF x
<1>9. ToSet(x.fakeLeaves) = ToSet(s.fakeLeaves) \ {t}
  BY <1>6, <1>8 DEF Lists
<1>10. OwnFake(s, x, t)
  BY <1>6, <1>8, <1>9 DEF OwnFake
<1>11. /\ OwnChange(s, x, t) /\ StayFake(s, x, t) /\ x.failed = "none"
       /\ x.state = s.state /\ x.cid = s.cid /\ x.futexWord = s.futexWord /\ x.handoffThread = s.handoffThread
       /\ x.marked = s.marked /\ x.bar = s.bar
  BY <1>2, <1>3, <1>10, OwnFakeIs
<1>12. Knows(x, [pc EXCEPT ![t] = "run"], t)
  BY <1>1, <1>2, <1>3, <1>9, <1>11 DEF Knows
<1>13. Watched(x, watchdog, t, "run")
  BY <1>1, FarAway
<1> QED BY <1>1, <1>3, <1>4, <1>11, <1>12, <1>13, OwnKeeps DEF Labels

\* A thread that is OUT joins with the context it has.
LEMMA JoinOutKeeps ==
  ASSUME Fine(s, pc, watchdog), NEW t \in Threads, JoinOut(t)
  PROVE  SchedulerInv'
<1> DEFINE c == s.cid[t]
           x == [s EXCEPT !.state[t] = "RUNNING", !.outQueue = RemoveFirst(@, t)]
           z == [x EXCEPT !.bar[c] = "running"]
           k2 == [pc EXCEPT ![t] = "run"]
<1>1. pc[t] = "join" /\ s.state[t] = "OUT" /\ UNCHANGED watchdog
      /\ Do(t, BarJoin(Check(x, t \notin s.marked, "join"), c), "run")
  BY DEF JoinOut, At
<1>2. /\ Inv(s, pc, {}, Nobody) /\ s \in Sched /\ pc \in [Threads -> Labels] /\ s.failed = "none" /\ Knows(s, pc, t)
      /\ Placed(s) /\ Bars(s, {}) /\ t # Nobody
  BY DEF Fine, Inv
<1>3. /\ t \notin s.marked /\ s.handoffThread[t] = Nobody /\ t \notin ToSet(s.fakeLeaves)
  BY <1>1, <1>2 DEF Knows
<1>4. c \in Contexts /\ s.curThread[c] = t /\ s.bar[c] = "out"
  <2>1. c \in Contexts /\ s.curThread[c] = t
    BY <1>1, <1>2, OneContext
  <2>2. ~Driven(s, c)
    BY <1>1, <2>1 DEF Driven
  <2> QED BY <1>2, <2>1, <2>2 DEF Bars
<1>5. Check(x, t \notin s.marked, "join") = x
  BY <1>3 DEF Check
<1>6. x.bar = s.bar
  BY <1>2 DEF Sched
<1>7. BarJoin(x, c) = z
  BY <1>4, <1>6 DEF BarJoin, Check
<1>8. Lists(s.outQueue, In(s, "OUT")) /\ Lists(RemoveFirst(s.outQueue, t), In(s, "OUT") \ {t})
  BY <1>2, ListRemove DEF Placed
<1>9. RemoveFirst(s.outQueue, t) \in Seq(Threads)
  BY <1>8, ListSeq DEF In
<1>10. /\ z \in Sched /\ Same(s, z, {"state", "outQueue", "bar"})
       /\ z.state = [s.state EXCEPT ![t] = "RUNNING"] /\ z.bar = [s.bar EXCEPT ![c] = "running"]
       /\ z.outQueue = RemoveFirst(s.outQueue, t)
  BY <1>2, <1>4, <1>9 DEF Sched, Same, Fields, States
<1> HIDE DEF x, z
<1>11. LeavesOrJoins(s, z, c, "RUNNING", t)
  BY <1>1, <1>8, <1>10 DEF LeavesOrJoins
<1>12. Inv(s, pc, {}, t)
  BY <1>2, Enters
<1>13. Inv(z, pc, {}, t) /\ Kept(s, z, t)
  <2> HIDE DEF c
  <2> QED BY <1>11, <1>12, GoesOrComes
<1>14. z.state[t] = "RUNNING" /\ z.bar[z.cid[t]] = "running" /\ z.failed = "none" /\ t \notin z.marked
       /\ z.handoffThread[t] = Nobody /\ t \notin ToSet(z.fakeLeaves)
  <2>1. z.cid = s.cid /\ z.failed = s.failed /\ z.marked = s.marked /\ z.handoffThread = s.handoffThread
        /\ z.fakeLeaves = s.fakeLeaves
    BY <1>10 DEF Same, Fields
  <2> QED BY <1>2, <1>3, <1>4, <1>10, <2>1, FieldTypes
<1>15. k2[t] = "run" /\ k2 = [pc EXCEPT ![t] = "run"]
  BY <1>2
<1> HIDE DEF k2
<1>16. Knows(z, k2, t)
  BY <1>14, <1>15 DEF Knows
<1>17. Inv(z, k2, {}, Nobody)
  BY <1>2, <1>13, <1>14, <1>15, <1>16, Lands
<1>18. Unwatched(s, z, t) /\ Watched(z, watchdog, t, "run")
  BY <1>1, <1>13, KeptUnwatched, FarAway
<1> QED BY <1>1, <1>5, <1>7, <1>14, <1>15, <1>17, <1>18, DoKeeps DEF Labels

\* The context that was given is taken.
LEMMA GotContextKeeps ==
  ASSUME Fine(s, pc, watchdog), NEW t \in Threads, GotContext(t)
  PROVE  SchedulerInv'
<1>1. pc[t] = "wait" /\ s.futexWord[t] = 0 /\ GoTo(t, "run") /\ UNCHANGED <<s, watchdog>>
  BY DEF GotContext, At
<1>2. Inv(s, pc, {}, Nobody) /\ pc \in [Threads -> Labels] /\ Knows(s, pc, t) /\ t # Nobody
  BY DEF Fine, Inv
<1>3. s.state[t] = "RUNNING"
  BY <1>1, <1>2, WhereItIs
<1>4. Knows(s, [pc EXCEPT ![t] = "run"], t)
  BY <1>1, <1>2, <1>3 DEF Knows
<1>5. Watched(s, watchdog, t, "run")
  BY <1>1, FarAway
<1> QED BY <1>1, <1>3, <1>4, <1>5, MovesOn DEF Labels

\* The thread leaves the barrier.
LEMMA SyncedKeepsInv ==
  ASSUME Fine(s, pc, watchdog), NEW t \in Threads, Synced(t)
  PROVE  SchedulerInv'
<1>1. PICK l \in {"run", "handoff"} : /\ pc[t] = "sync" /\ s.bar[s.cid[t]] = "running" /\ UNCHANGED <<s, watchdog>>
                                      /\ GoTo(t, l) /\ (l = "run" <=> s.handoffThread[t] = Nobody)
  BY DEF Synced, At
<1>2. Inv(s, pc, {}, Nobody) /\ pc \in [Threads -> Labels] /\ Knows(s, pc, t) /\ t # Nobody
  BY DEF Fine, Inv
<1>3. s.state[t] = "RUNNING"
  BY <1>1, <1>2, WhereItIs
<1>4. Knows(s, [pc EXCEPT ![t] = l], t)
  BY <1>1, <1>2, <1>3 DEF Knows
<1>5. Watched(s, watchdog, t, l)
  BY <1>1, FarAway
<1> QED BY <1>1, <1>3, <1>4, <1>5, MovesOn DEF Labels

\* A syscall returns.
LEMMA SyscallReturnsKeeps ==
  ASSUME Fine(s, pc, watchdog), NEW t \in Threads, SyscallReturns(t)
  PROVE  SchedulerInv'
<1>1. pc[t] = "syscall" /\ GoTo(t, "join") /\ UNCHANGED <<s, watchdog>>
  BY DEF SyscallReturns, At
<1>2. Inv(s, pc, {}, Nobody) /\ pc \in [Threads -> Labels] /\ Knows(s, pc, t) /\ t # Nobody
  BY DEF Fine, Inv
<1>3. s.state[t] \in {"BLOCKED", "OUT", "RUNNING"}
  BY <1>1, <1>2, WhereItIs
<1>4. Knows(s, [pc EXCEPT ![t] = "join"], t)
  BY <1>1, <1>2, <1>3 DEF Knows
<1>5. Watched(s, watchdog, t, "join")
  BY <1>1 DEF Watched, Fine, Watch
<1> QED BY <1>1, <1>3, <1>4, <1>5, MovesOn DEF Labels

\* A sleep returns, or the event of a syscall with a timeout comes.
LEMMA SleepEnds ==
  ASSUME Fine(s, pc, watchdog), NEW t \in Threads, SleepReturns(t) \/ EventComes(t)
  PROVE  SchedulerInv'
<1>1. PICK l \in {"join", "notify"} : pc[t] = "sleep" /\ GoTo(t, l) /\ UNCHANGED <<s, watchdog>>
  BY DEF SleepReturns, EventComes, At
<1>2. Inv(s, pc, {}, Nobody) /\ pc \in [Threads -> Labels] /\ Knows(s, pc, t) /\ t # Nobody
  BY DEF Fine, Inv
<1>3. s.state[t] \in {"SLEEPING", "BLOCKED"}
  BY <1>1, <1>2, WhereItIs
<1>4. Knows(s, [pc EXCEPT ![t] = l], t)
  BY <1>1, <1>2, <1>3 DEF Knows
<1>5. Watched(s, watchdog, t, l)
  BY <1>1, <1>3, NotRunning
<1> QED BY <1>1, <1>3, <1>4, <1>5, MovesOn DEF Labels

\* A thread says that it will sleep.
LEMMA markForSleepKeeps ==
  ASSUME Fine(s, pc, watchdog), NEW t \in Threads, markForSleep(t)
  PROVE  SchedulerInv'
<1>1. PICK d \in 1 .. MaxSleep :
         /\ pc[t] = "run" /\ UNCHANGED watchdog
         /\ Do(t, [Check(s, t \notin s.marked, "markForSleep") EXCEPT
                      !.marked = @ \cup {t}, !.due[t] = d, !.futexWord[t] = 1], "marked")
  BY DEF markForSleep, At
<1> DEFINE x == [s EXCEPT !.marked = @ \cup {t}, !.due[t] = d, !.futexWord[t] = 1]
<1>2. /\ Inv(s, pc, {}, Nobody) /\ s \in Sched /\ pc \in [Threads -> Labels] /\ s.failed = "none" /\ Knows(s, pc, t)
      /\ t # Nobody
  BY DEF Fine, Inv
<1>3. s.state[t] = "RUNNING" /\ t \notin s.marked
  BY <1>1, <1>2, WhereItIs
<1>4. Do(t, x, "marked")
  BY <1>1, <1>3 DEF Check
<1>5. d \in Int /\ d >= 1
  BY SleepAssumption
<1>6. /\ x \in Sched /\ Same(s, x, {"futexWord", "due", "marked"})
      /\ x.marked = s.marked \cup {t} /\ x.due = [s.due EXCEPT ![t] = d] /\ x.futexWord = [s.futexWord EXCEPT ![t] = 1]
  BY <1>2, <1>5 DEF Sched, Same, Fields
<1> HIDE DEF x
<1>7. /\ x.state = s.state /\ x.cid = s.cid /\ x.handoffThread = s.handoffThread /\ x.bar = s.bar
      /\ x.fakeLeaves = s.fakeLeaves
  BY <1>6 DEF Same, Fields
<1>8. Same(s, x, {"state", "futexWord", "due", "marked"})
  BY <1>6 DEF Same
<1>9. s.due \in [Threads -> Int] /\ s.futexWord \in [Threads -> {0, 1}]
  BY <1>2, FieldTypes
<1>10. x.due[t] = d /\ x.futexWord[t] = 1 /\ \A u \in Threads : u # t => x.due[u] = s.due[u] /\ x.futexWord[u] = s.futexWord[u]
  BY <1>6, <1>9
<1>11. OwnState(s, x, t)
  BY <1>3, <1>6, <1>7, <1>8, <1>10 DEF OwnState
<1>12. OwnChange(s, x, t) /\ StayFake(s, x, t) /\ x.failed = "none"
  BY <1>2, <1>11, OwnStateIs
<1>13. Knows(x, [pc EXCEPT ![t] = "marked"], t)
  BY <1>1, <1>2, <1>3, <1>5, <1>7, <1>10 DEF Knows
<1>14. Watched(x, watchdog, t, "marked")
  BY <1>1, FarAway
<1> QED BY <1>1, <1>3, <1>4, <1>7, <1>12, <1>13, <1>14, OwnKeeps DEF Labels

\* A syscall begins: the thread is to leave, or its leave is fake.
LEMMA syscallLeaveKeeps ==
  ASSUME Fine(s, pc, watchdog), NEW t \in Threads, syscallLeave(t)
  PROVE  SchedulerInv'
<1> DEFINE x == [s EXCEPT !.fakeLeaves = Append(@, t)]
<1>1. /\ pc[t] \in {"run", "marked"} /\ UNCHANGED watchdog
      /\ LET y == Check(s, s.curThread[s.cid[t]] = t /\ s.state[t] = "RUNNING", "syscallLeave")
         IN  \/ Do(t, y, "leave")
             \/ t \notin s.marked /\ Do(t, [y EXCEPT !.fakeLeaves = Append(@, t)], "syscall")
  BY DEF syscallLeave, At
<1>2. /\ Inv(s, pc, {}, Nobody) /\ s \in Sched /\ pc \in [Threads -> Labels] /\ s.failed = "none" /\ Knows(s, pc, t)
      /\ t # Nobody
  BY DEF Fine, Inv
<1>3. s.state[t] = "RUNNING" /\ s.curThread[s.cid[t]] = t /\ t \notin ToSet(s.fakeLeaves)
  BY <1>1, <1>2, WhereItIs
<1>4. Do(t, s, "leave") \/ (t \notin s.marked /\ Do(t, x, "syscall"))
  BY <1>1, <1>3 DEF Check
<1>5. CASE Do(t, s, "leave")
  <2>1. Knows(s, [pc EXCEPT ![t] = "leave"], t)
    BY <1>1, <1>2, <1>3 DEF Knows
  <2>2. Watched(s, watchdog, t, "leave")
    BY <1>1, FarAway
  <2>3. GoTo(t, "leave") /\ UNCHANGED <<s, watchdog>>
    BY <1>1, <1>2, <1>5 DEF Do, Commit
  <2> QED BY <1>3, <2>1, <2>2, <2>3, MovesOn DEF Labels
<1>6. CASE t \notin s.marked /\ Do(t, x, "syscall")
  <2>1. Lists(s.fakeLeaves, ToSet(s.fakeLeaves)) /\ ToSet(s.fakeLeaves) \subseteq Threads
    BY <1>2, InvLists
  <2>2. Lists(Append(s.fakeLeaves, t), ToSet(s.fakeLeaves) \cup {t})
    BY <1>3, <2>1, ListAppend
  <2>3. Append(s.fakeLeaves, t) \in Seq(Threads)
    BY <2>1, <2>2, ListSeq
  <2>4. x \in Sched /\ Same(s, x, {"fakeLeaves"}) /\ x.fakeLeaves = Append(s.fakeLeaves, t)
    BY <1>2, <2>3 DEF Sched, Same, Fields
  <2> HIDE DEF x
  <2>5. ToSet(x.fakeLeaves) = ToSet(s.fakeLeaves) \cup {t}
    BY <2>2, <2>4 DEF Lists
  <2>6. OwnFake(s, x, t)
    BY <2>2, <2>4, <2>5 DEF OwnFake
  <2>7. /\ OwnChange(s, x, t) /\ StayFake(s, x, t) /\ x.failed = "none"
        /\ x.state = s.state /\ x.cid = s.cid /\ x.futexWord = s.futexWord /\ x.handoffThread = s.handoffThread
        /\ x.marked = s.marked /\ x.bar = s.bar
    BY <1>2, <1>3, <2>6, OwnFakeIs
  <2>8. Knows(x, [pc EXCEPT ![t] = "syscall"], t)
    BY <1>1, <1>2, <1>3, <1>6, <2>7 DEF Knows
  <2>9. Watched(x, watchdog, t, "syscall")
    BY <1>1, <2>5 DEF Watched, Fine, Watch
  <2> QED BY <1>1, <1>3, <1>6, <2>7, <2>8, <2>9, OwnKeeps DEF Labels
<1> QED BY <1>4, <1>5, <1>6

\* A thread that never left is about to end.
LEMMA FinishRunningKeeps ==
  ASSUME Fine(s, pc, watchdog), NEW t \in Threads, FinishRunning(t)
  PROVE  SchedulerInv'
<1> DEFINE x == [s EXCEPT !.fakeLeaves = RemoveFirst(@, t)]
<1>1. pc[t] = "syscall" /\ s.state[t] = "RUNNING" /\ Do(t, x, "finishleave") /\ UNCHANGED watchdog
  BY DEF FinishRunning, At
<1>2. Inv(s, pc, {}, Nobody) /\ s \in Sched /\ pc \in [Threads -> Labels] /\ s.failed = "none" /\ Knows(s, pc, t)
  BY DEF Fine, Inv
<1>3. Lists(s.fakeLeaves, ToSet(s.fakeLeaves)) /\ ToSet(s.fakeLeaves) \subseteq Threads
  BY <1>2, InvLists
<1>4. Lists(RemoveFirst(s.fakeLeaves, t), ToSet(s.fakeLeaves) \ {t})
  BY <1>3, ListRemove
<1>5. RemoveFirst(s.fakeLeaves, t) \in Seq(Threads)
  BY <1>3, <1>4, ListSeq
<1>6. x \in Sched /\ Same(s, x, {"fakeLeaves"}) /\ x.fakeLeaves = RemoveFirst(s.fakeLeaves, t)
  BY <1>2, <1>5 DEF Sched, Same, Fields
<1> HIDE DEF x
<1>7. ToSet(x.fakeLeaves) = ToSet(s.fakeLeaves) \ {t}
  BY <1>4, <1>6 DEF Lists
<1>8. OwnFake(s, x, t)
  BY <1>4, <1>6, <1>7 DEF OwnFake
<1>9. /\ OwnChange(s, x, t) /\ StayFake(s, x, t) /\ x.failed = "none"
      /\ x.state = s.state /\ x.cid = s.cid /\ x.futexWord = s.futexWord /\ x.handoffThread = s.handoffThread
      /\ x.marked = s.marked /\ x.bar = s.bar
  BY <1>1, <1>2, <1>8, OwnFakeIs
<1>10. Knows(x, [pc EXCEPT ![t] = "finishleave"], t)
  BY <1>1, <1>2, <1>7, <1>9 DEF Knows
<1>11. Watched(x, watchdog, t, "finishleave")
  BY FarAway
<1> QED BY <1>1, <1>9, <1>10, <1>11, OwnKeeps DEF Labels

\* What a thread that sleeps, or has slept, does when it wakes up early.
WokenUp(x, y, t) ==
    /\ y.state = [x.state EXCEPT ![t] = "BLOCKED"] /\ y.cid = x.cid /\ y.futexWord = x.futexWord
    /\ y.handoffThread = x.handoffThread /\ y.marked = x.marked /\ y.bar = x.bar /\ y.runQueue = x.runQueue
    /\ y.fakeLeaves = x.fakeLeaves /\ y.failed = x.failed

\* The queue of the sleepers stays in order.
LEMMA WokenIs ==
  ASSUME NEW x, NEW k, NEW b, Inv(x, k, {}, b), NEW t \in Threads, x.state[t] \in {"SLEEPING", "BLOCKED"},
         NEW y, y = Woken(x, t)
  PROVE  OwnChange(x, y, t) /\ WokenUp(x, y, t)
<1> DEFINE r == RemoveFirst(x.sleepQueue, t)
<1>1. x \in Sched /\ Lists(x.fakeLeaves, ToSet(x.fakeLeaves)) /\ Lists(x.sleepQueue, In(x, "SLEEPING")) /\ Sorted(x)
  BY DEF Inv, Placed
<1>2. Lists(r, In(x, "SLEEPING") \ {t}) /\ Thinned(x.sleepQueue, r)
  BY <1>1, ListRemove
<1>3. r \in Seq(Threads)
  BY <1>2, ListSeq DEF In
<1>4. /\ y \in Sched /\ Same(x, y, {"state", "sleepQueue", "due"})
      /\ y.state = [x.state EXCEPT ![t] = "BLOCKED"] /\ y.due = [x.due EXCEPT ![t] = 0] /\ y.sleepQueue = r
  <2> HIDE DEF r
  <2>1. y = [x EXCEPT !.sleepQueue = r, !.state[t] = "BLOCKED", !.due[t] = 0]
    BY DEF Woken, r
  <2>2. [x.state EXCEPT ![t] = "BLOCKED"] \in [Threads -> States] /\ [x.due EXCEPT ![t] = 0] \in [Threads -> Int]
    BY <1>1, FieldTypes DEF States
  <2>3. /\ y.state = [x.state EXCEPT ![t] = "BLOCKED"] /\ y.due = [x.due EXCEPT ![t] = 0] /\ y.sleepQueue = r
        /\ Same(x, y, {"state", "sleepQueue", "due"})
    BY <1>1, <2>1 DEF Sched, Same, Fields
  <2>4. y \in Sched
    BY <1>1, <1>3, <2>1, <2>2 DEF Sched
  <2> QED BY <2>3, <2>4
<1> HIDE DEF r
<1>5. x.state \in [Threads -> States] /\ x.due \in [Threads -> Int]
  BY <1>1, FieldTypes
<1>6. WokenUp(x, y, t)
  BY <1>4 DEF Same, Fields, WokenUp
<1>7. /\ y.state[t] = "BLOCKED"
      /\ \A u \in Threads : u # t => y.state[u] = x.state[u] /\ y.due[u] = x.due[u]
  BY <1>4, <1>5
<1>8. In(y, "SLEEPING") = In(x, "SLEEPING") \ {t}
  BY <1>7 DEF In
<1>9. Sorted(y)
  <2>1. ASSUME NEW i \in 1 .. Len(r), NEW j \in 1 .. Len(r), i < j PROVE y.due[r[i]] <= y.due[r[j]]
    <3>1. PICK m, n \in 1 .. Len(x.sleepQueue) : m < n /\ r[i] = x.sleepQueue[m] /\ r[j] = x.sleepQueue[n]
      BY <1>2, <2>1 DEF Thinned
    <3>2. x.due[r[i]] <= x.due[r[j]]
      BY <1>1, <3>1 DEF Sorted
    <3>3. r[i] \in Threads \ {t} /\ r[j] \in Threads \ {t}
      BY <1>2, ListIs DEF In
    <3> QED BY <1>7, <3>2, <3>3
  <2>2. \A u \in Threads : y.state[u] = "SLEEPING" => y.futexWord[u] = 1 /\ y.due[u] >= 1
    BY <1>1, <1>6, <1>7 DEF Sorted, WokenUp
  <2> QED BY <1>4, <2>1, <2>2 DEF Sorted
<1>10. Same(x, y, {"state", "sleepQueue", "futexWord", "due", "marked", "fakeLeaves", "failed"})
  BY <1>4 DEF Same
<1>11. OwnChange(x, y, t)
  BY <1>1, <1>2, <1>4, <1>6, <1>7, <1>8, <1>9, <1>10 DEF OwnChange, WokenUp
<1> QED BY <1>6, <1>11

\* The event has come: the sleep is over.
LEMMA notifySleepEndKeeps ==
  ASSUME Fine(s, pc, watchdog), NEW t \in Threads, notifySleepEnd(t)
  PROVE  SchedulerInv'
<1> DEFINE x == Woken(s, t)
<1>1. /\ pc[t] = "notify" /\ UNCHANGED watchdog
      /\ Do(t, Check(x, t \notin s.marked /\ s.state[t] \in {"SLEEPING", "BLOCKED"}, "notifySleepEnd"), "join")
  BY DEF notifySleepEnd, At
<1>2. /\ Inv(s, pc, {}, Nobody) /\ s \in Sched /\ pc \in [Threads -> Labels] /\ s.failed = "none" /\ Knows(s, pc, t)
      /\ t # Nobody
  BY DEF Fine, Inv
<1>3. s.state[t] \in {"SLEEPING", "BLOCKED"} /\ t \notin s.marked
  BY <1>1, <1>2, WhereItIs
<1>4. Do(t, x, "join")
  BY <1>1, <1>3 DEF Check
<1>5. OwnChange(s, x, t) /\ WokenUp(s, x, t)
  <2> HIDE DEF x
  <2>1. x = Woken(s, t)
    BY DEF x
  <2> QED BY <1>2, <1>3, <2>1, WokenIs
<1> HIDE DEF x
<1>6. s.state \in [Threads -> States]
  BY <1>2, FieldTypes
<1>7. x.state[t] = "BLOCKED" /\ x.failed = "none" /\ StayFake(s, x, t)
  BY <1>2, <1>5, <1>6 DEF WokenUp, StayFake
<1>8. Knows(x, [pc EXCEPT ![t] = "join"], t)
  BY <1>1, <1>2, <1>5, <1>7 DEF Knows, WokenUp
<1>9. Watched(x, watchdog, t, "join")
  BY <1>1, <1>7, NotRunning
<1> QED BY <1>1, <1>4, <1>5, <1>7, <1>8, <1>9, OwnKeeps DEF Labels

----------------------------------------------------------------------------
(* Steps that may end a phase, or pass a context on. *)

\* Thread t is in the barrier.
Synchronized(x, y, t) ==
    /\ y \in Sched /\ Same(x, y, {"bar"}) /\ y.bar = [x.bar EXCEPT ![x.cid[t]] = "done"]

\* It may be there if it has nothing to hand over.
LEMMA Syncs ==
  ASSUME NEW x, NEW y, NEW k \in [Threads -> Labels], NEW t \in Threads, Inv(x, k, {}, Nobody),
         Synchronized(x, y, t), x.state[t] = "RUNNING", k[t] = "run", NEW k2, k2 = [k EXCEPT ![t] = "sync"]
  PROVE  Inv(y, k2, {}, Nobody) /\ Kept(x, y, t)
<1> DEFINE c == x.cid[t]
<1>1. /\ x \in Sched /\ Lists(x.fakeLeaves, ToSet(x.fakeLeaves)) /\ Placed(x) /\ FreeListed(x, {})
      /\ Bars(x, {}) /\ Conserved(x, {}) /\ Promises(x, Nobody) /\ Sorted(x)
      /\ \A u \in Threads : Knows(x, k, u)
  BY DEF Inv
<1>2. /\ y.state = x.state /\ y.cid = x.cid /\ y.curThread = x.curThread /\ y.freeList = x.freeList
      /\ y.runQueue = x.runQueue /\ y.outQueue = x.outQueue /\ y.sleepQueue = x.sleepQueue
      /\ y.fakeLeaves = x.fakeLeaves /\ y.futexWord = x.futexWord /\ y.handoffThread = x.handoffThread
      /\ y.marked = x.marked /\ y.due = x.due
  BY DEF Synchronized, Same, Fields
<1>3. c \in Contexts /\ Driven(x, c) /\ \A u \in Threads : x.state[u] = "RUNNING" /\ x.cid[u] = c => u = t
  BY <1>1, OneContext DEF Driven
<1>4. x.bar \in [Contexts -> {"out", "running", "done"}]
  BY <1>1, FieldTypes
<1>5. y.bar[c] = "done" /\ \A d \in Contexts : d # c => y.bar[d] = x.bar[d]
  BY <1>3, <1>4 DEF Synchronized
<1>6. \A d \in Contexts : Driven(y, d) = Driven(x, d)
  BY <1>2 DEF Driven, Used
<1>7. Bars(y, {})
  BY <1>1, <1>3, <1>5, <1>6 DEF Bars
<1>8. Placed(y)
  BY <1>1, <1>2 DEF Placed, In, Used
<1>9. FreeListed(y, {})
  BY <1>1, <1>2 DEF FreeListed, Free, Used
<1>10. Conserved(y, {})
  BY <1>1, <1>2 DEF Conserved, Driven, Used
<1>11. Promises(y, Nobody) /\ Sorted(y)
  BY <1>1, <1>2 DEF Promises, Sorted
<1>12. k2[t] = "sync" /\ \A u \in Threads : u # t => k2[u] = k[u]
  OBVIOUS
<1>13. ASSUME NEW u \in Threads PROVE Knows(y, k2, u)
  <2>1. Knows(x, k, u) /\ x.cid[u] \in Contexts
    BY <1>1, FieldTypes
  <2>2. CASE u = t
    BY <1>2, <1>12, <2>1, <2>2 DEF Knows
  <2>3. CASE u # t
    <3>1. x.state[u] = "RUNNING" => y.bar[x.cid[u]] = x.bar[x.cid[u]]
      BY <1>3, <1>5, <2>1, <2>3
    <3> QED BY <1>2, <1>12, <2>1, <2>3, <3>1 DEF Knows
  <2> QED BY <2>2, <2>3
<1>14. Kept(x, y, t)
  BY <1>2 DEF Kept
<1>15. y \in Sched /\ Lists(y.fakeLeaves, ToSet(y.fakeLeaves))
  BY <1>1, <1>2 DEF Synchronized
<1> QED BY <1>7, <1>8, <1>9, <1>10, <1>11, <1>13, <1>14, <1>15 DEF Inv

\* A thread reaches the end of its phase.
LEMMA syncKeeps ==
  ASSUME Fine(s, pc, watchdog), NEW t \in Threads, sync(t)
  PROVE  SchedulerInv'
<1> DEFINE c == s.cid[t]
           d == [s EXCEPT !.bar[c] = "done"]
           k2 == [pc EXCEPT ![t] = "sync"]
<1>1. PICK order \in Orders :
         /\ pc[t] = "run" /\ UNCHANGED watchdog
         /\ Do(t, BarSync(Check(s, t \notin s.marked, "sync"), c, order), "sync")
  BY DEF sync, At
<1>2. /\ Inv(s, pc, {}, Nobody) /\ s \in Sched /\ pc \in [Threads -> Labels] /\ s.failed = "none" /\ t # Nobody
  BY DEF Fine, Inv
<1>3. s.state[t] = "RUNNING" /\ t \notin s.marked /\ c \in Contexts /\ s.bar[c] = "running"
  BY <1>1, <1>2, WhereItIs
<1>4. BarSync(Check(s, t \notin s.marked, "sync"), c, order) = EndPhase(d, order)
  BY <1>3 DEF BarSync, Check
<1>5. d \in Sched /\ Same(s, d, {"bar"}) /\ d.bar = [s.bar EXCEPT ![c] = "done"] /\ d.failed = "none"
  BY <1>2, <1>3 DEF Sched, Same, Fields
<1>6. k2 = [pc EXCEPT ![t] = "sync"]
  OBVIOUS
<1> HIDE DEF d, k2
<1>7. Synchronized(s, d, t)
  BY <1>5 DEF Synchronized
<1>8. Inv(d, k2, {}, Nobody) /\ Kept(s, d, t)
  BY <1>1, <1>2, <1>3, <1>6, <1>7, Syncs
<1> DEFINE v == EndPhase(d, order)
<1>9. v = EndPhase(d, order)
  OBVIOUS
<1> HIDE DEF v
<1>10. Inv(v, k2, {}, Nobody) /\ Kept(d, v, Nobody) /\ v.failed = "none"
  BY <1>5, <1>8, <1>9, EndPhaseIs
<1>11. Kept(s, v, t)
  BY <1>8, <1>10, KeptButOne, KeptTwice
<1>12. Unwatched(s, v, t) /\ Watched(v, watchdog, t, "sync")
  BY <1>1, <1>11, KeptUnwatched, FarAway
<1> QED BY <1>1, <1>4, <1>6, <1>9, <1>10, <1>12, DoKeeps DEF Labels

\* What t does with a context, or without one, and what then keeps the invariant.
GetsOrWaits(y, p, t) ==
    IF p.ctx # Nobody THEN Do(t, BarJoin(schedule(p.x, t, p.ctx), p.ctx), "run")
                      ELSE Do(t, Wait(y, t), "wait")

LEMMA GetsOrWaitsKeeps ==
  ASSUME Fine(s, pc, watchdog), NEW t \in Threads, NEW y, Inv(y, pc, {}, t), y.failed = "none",
         y.state[t] \in {"STARTED", "BLOCKED", "QUEUED"}, t \notin ToSet(y.runQueue),
         \A u \in Threads : y.handoffThread[u] # t,
         y.handoffThread[t] = Nobody, t \notin ToSet(y.fakeLeaves), t \notin y.marked,
         Kept(s, y, t), NEW p, p = schedThread(y, t), GetsOrWaits(y, p, t), UNCHANGED watchdog,
         \/ pc[t] \notin {"syscall", "join", "finishleave", "finishend", "done"}
         \/ pc[t] = "join" /\ s.state[t] # "RUNNING"
  PROVE  SchedulerInv'
<1>1. pc \in [Threads -> Labels]
  BY DEF Fine
<1>5. Obtained(y, p, pc, t)
  BY <1>1, Obtains
<1>2. CASE p.ctx # Nobody
  <2> DEFINE z == BarJoin(schedule(p.x, t, p.ctx), p.ctx)
  <2>1. z.failed = "none" /\ Inv(z, [pc EXCEPT ![t] = "run"], {}, Nobody) /\ Kept(y, z, t)
    BY <1>2, <1>5 DEF Obtained
  <2>2. Do(t, z, "run")
    BY <1>2 DEF GetsOrWaits
  <2> HIDE DEF z
  <2>3. Kept(s, z, t)
    BY <2>1, KeptTwice
  <2>4. Unwatched(s, z, t) /\ Watched(z, watchdog, t, "run")
    BY <2>3, KeptUnwatched, FarAway
  <2> QED BY <2>1, <2>2, <2>4, DoKeeps DEF Labels
<1>3. CASE p.ctx = Nobody
  <2> DEFINE z == Wait(y, t)
  <2>1. z.failed = "none" /\ Inv(z, [pc EXCEPT ![t] = "wait"], {}, Nobody) /\ Kept(y, z, t)
    BY <1>3, <1>5 DEF Obtained
  <2>2. Do(t, z, "wait")
    BY <1>3 DEF GetsOrWaits
  <2> HIDE DEF z
  <2>3. Kept(s, z, t)
    BY <2>1, KeptTwice
  <2>4. Unwatched(s, z, t) /\ Watched(z, watchdog, t, "wait")
    BY <2>3, KeptUnwatched, FarAway
  <2> QED BY <2>1, <2>2, <2>4, DoKeeps DEF Labels
<1> QED BY <1>2, <1>3

\* Nobody promises a context to a thread that is not QUEUED.
LEMMA NotPromised ==
  ASSUME NEW x, NEW b, Promises(x, b), NEW t \in Threads, x.state[t] # "QUEUED"
  PROVE  t \notin ToSet(x.runQueue) /\ \A u \in Threads : x.handoffThread[u] # t
  BY DEF Promises

\* A thread hands its context over to the one that it was told, and looks for another.
LEMMA HandOffKeeps ==
  ASSUME Fine(s, pc, watchdog), NEW t \in Threads, HandOff(t)
  PROVE  SchedulerInv'
<1> DEFINE c == s.cid[t]
           h == s.handoffThread[t]
           x0 == deschedule([s EXCEPT !.handoffThread[t] = Nobody], t, c, "QUEUED")
           y0 == wakeup(schedule(x0, h, c), h)
           x == [s EXCEPT !.state[t] = "QUEUED", !.curThread[c] = Nobody]
           y == [s EXCEPT !.handoffThread[t] = Nobody, !.state[t] = "QUEUED", !.curThread[c] = Nobody,
                          !.state[h] = "RUNNING", !.cid[h] = c, !.curThread[c] = h, !.futexWord[h] = 0]
           p == schedThread(y, t)
<1>1. pc[t] = "handoff" /\ UNCHANGED watchdog /\ GetsOrWaits(y0, schedThread(y0, t), t)
  BY DEF HandOff, At, GetsOrWaits
<1>2. /\ Inv(s, pc, {}, Nobody) /\ s \in Sched /\ pc \in [Threads -> Labels] /\ s.failed = "none" /\ t # Nobody
      /\ Placed(s) /\ Promises(s, Nobody) /\ Sorted(s) /\ \A u \in Threads : Knows(s, pc, u)
  BY DEF Fine, Inv
<1>3. /\ s.state[t] = "RUNNING" /\ c \in Contexts /\ s.curThread[c] = t /\ s.bar[c] = "running"
      /\ t \notin ToSet(s.fakeLeaves) /\ t \notin s.marked
  BY <1>1, <1>2, WhereItIs
<1>4. h \in Threads /\ h # Nobody
  BY <1>1, <1>2, FieldTypes DEF Knows
<1>5. /\ s.state[h] = "QUEUED" /\ h \notin ToSet(s.runQueue) /\ h # t /\ s.futexWord[h] = 1
      /\ \A u \in Threads : s.handoffThread[u] = h => u = t
  BY <1>2, <1>3, <1>4 DEF Promises, Knows
<1>6. /\ s.state \in [Threads -> States] /\ s.cid \in [Threads -> Contexts]
      /\ s.curThread \in [Contexts -> Threads \cup {Nobody}] /\ s.futexWord \in [Threads -> {0, 1}]
      /\ s.handoffThread \in [Threads -> Threads \cup {Nobody}] /\ s.bar \in [Contexts -> {"out", "running", "done"}]
  BY <1>2, FieldTypes
<1> HIDE DEF c, h
<1>7. x \in Sched /\ Same(s, x, {"state", "curThread"}) /\ x.state = [s.state EXCEPT ![t] = "QUEUED"]
      /\ x.curThread = [s.curThread EXCEPT ![c] = Nobody]
  BY <1>2, <1>3 DEF Sched, Same, Fields, States
<1>8. /\ y.state = [s.state EXCEPT ![t] = "QUEUED", ![h] = "RUNNING"] /\ y.cid = [s.cid EXCEPT ![h] = c]
      /\ y.curThread = [s.curThread EXCEPT ![c] = h] /\ y.futexWord = [s.futexWord EXCEPT ![h] = 0]
      /\ y.handoffThread = [s.handoffThread EXCEPT ![t] = Nobody]
      /\ Same(s, y, {"state", "cid", "curThread", "futexWord", "handoffThread"})
  BY <1>2 DEF Sched, Same, Fields
<1>9. y \in Sched
  BY <1>2, <1>3, <1>4 DEF Sched, States
<1>10. x0 = [s EXCEPT !.handoffThread[t] = Nobody, !.state[t] = "QUEUED", !.curThread[c] = Nobody]
  BY <1>2, <1>3 DEF deschedule, Check, Sched, c
<1>11. y0 = y
  <2> DEFINE z == [x0 EXCEPT !.state[h] = "RUNNING", !.cid[h] = c, !.curThread[c] = h]
  <2>1. x0.state[h] = "QUEUED" /\ ~Used(x0, c)
    <3>1. x0.state = [s.state EXCEPT ![t] = "QUEUED"] /\ x0.curThread = [s.curThread EXCEPT ![c] = Nobody]
      BY <1>2, <1>10 DEF Sched
    <3> QED BY <1>3, <1>4, <1>5, <1>6, <3>1 DEF Used
  <2>2. schedule(x0, h, c) = z
    BY <2>1 DEF schedule, Check
  <2>3. z.futexWord[h] = 1
    BY <1>2, <1>5, <1>10 DEF Sched
  <2>4. y0 = [z EXCEPT !.futexWord[h] = 0]
    BY <2>2, <2>3 DEF wakeup, Check
  <2>5. [z EXCEPT !.futexWord[h] = 0] = y
    BY <1>10
  <2> QED BY <2>4, <2>5
<1> HIDE DEF x0, y0, x, y
<1>12. Inv(x, pc, {c}, t) /\ Kept(s, x, t)
  <2>1. Inv(s, pc, {}, t)
    BY <1>2, Enters
  <2>2. x.outQueue = s.outQueue /\ x.sleepQueue = s.sleepQueue /\ x.marked = s.marked
        /\ x.due = s.due /\ x.futexWord = s.futexWord
    BY <1>7 DEF Same, Fields
  <2>3. Lists(x.outQueue, In(s, "OUT") \ {t})
    <3>1. In(s, "OUT") \ {t} = In(s, "OUT")
      BY <1>3 DEF In
    <3> QED BY <1>2, <2>2, <3>1 DEF Placed
  <2>4. \A u \in Threads : x.state[u] = "SLEEPING" <=> s.state[u] = "SLEEPING"
    BY <1>3, <1>6, <1>7
  <2>5. Lists(x.sleepQueue, In(x, "SLEEPING")) /\ Sorted(x)
    BY <1>2, <2>2, <2>4 DEF Placed, Sorted, In
  <2>6. Same(s, x, {"state", "curThread", "outQueue", "sleepQueue", "marked"})
    BY <1>7 DEF Same
  <2>7. GivesUp(s, x, t, c, "QUEUED", t)
    BY <1>3, <1>7, <2>2, <2>3, <2>5, <2>6 DEF GivesUp, c
  <2> QED BY <2>1, <2>7, Parts
<1>13. /\ x.cid = s.cid /\ x.bar = s.bar /\ x.runQueue = s.runQueue /\ x.futexWord = s.futexWord
       /\ x.handoffThread = s.handoffThread
  BY <1>7 DEF Same, Fields
<1>14. GetsContext(x, y, h, c, t)
  <2>1. y.state = [x.state EXCEPT ![h] = "RUNNING"]
    BY <1>7, <1>8
  <2>2. y.cid = [x.cid EXCEPT ![h] = c] /\ y.curThread = [x.curThread EXCEPT ![c] = h]
    BY <1>3, <1>6, <1>7, <1>8, <1>13
  <2>3. y.bar = s.bar /\ y.runQueue = s.runQueue
    BY <1>8 DEF Same, Fields
  <2>4. y.bar = [x.bar EXCEPT ![c] = "running"]
    BY <1>3, <1>6, <1>13, <2>3
  <2>5. Lists(y.runQueue, ToSet(x.runQueue) \ {h})
    <3>1. ToSet(x.runQueue) \ {h} = ToSet(s.runQueue)
      BY <1>5, <1>13
    <3> QED BY <1>2, <2>3, <3>1 DEF Promises
  <2>6. \A u \in Threads : /\ u # h => y.futexWord[u] = x.futexWord[u]
                           /\ u # t => x.handoffThread[u] # h
                           /\ y.handoffThread[u] = IF x.handoffThread[u] = h THEN Nobody ELSE x.handoffThread[u]
    <3>1. s.handoffThread[t] = h
      BY DEF h
    <3> QED BY <1>5, <1>6, <1>8, <1>13, <3>1
  <2>7. x.state[h] = "QUEUED" /\ y.futexWord[h] = 0
    BY <1>4, <1>5, <1>6, <1>7, <1>8
  <2>8. Same(x, y, {"state", "cid", "curThread", "bar", "runQueue", "futexWord", "handoffThread"})
    BY <1>7, <1>8 DEF Same
  <2> QED BY <1>9, <2>1, <2>2, <2>4, <2>5, <2>6, <2>7, <2>8 DEF GetsContext
<1>15. Inv(y, pc, {}, t) /\ Kept(x, y, t)
  BY <1>3, <1>4, <1>12, <1>14, Schedules
<1>16. Kept(s, y, t)
  BY <1>12, <1>15, KeptTwice
<1>17. /\ y.state[t] = "QUEUED" /\ y.handoffThread[t] = Nobody
       /\ \A u \in Threads : u # t => y.handoffThread[u] = s.handoffThread[u]
  BY <1>5, <1>6, <1>8
<1>18. y.runQueue = s.runQueue /\ y.fakeLeaves = s.fakeLeaves /\ y.marked = s.marked /\ y.failed = s.failed
  BY <1>8 DEF Same, Fields
<1>19. t \notin ToSet(y.runQueue) /\ \A u \in Threads : y.handoffThread[u] # t
  <2>1. t \notin ToSet(s.runQueue) /\ \A u \in Threads : s.handoffThread[u] # t
    BY <1>2, <1>3, NotPromised
  <2> QED BY <1>2, <1>17, <1>18, <2>1
<1>20. p = schedThread(y, t) /\ GetsOrWaits(y, p, t)
  BY <1>1, <1>11
<1> HIDE DEF p
<1> QED BY <1>1, <1>2, <1>3, <1>15, <1>16, <1>17, <1>18, <1>19, <1>20, GetsOrWaitsKeeps

\* An assertion has failed, and what follows it changes nothing about that.
Doomed(x) == "failed" \in DOMAIN x /\ x.failed = "join"

LEMMA DoomedStays ==
  ASSUME NEW x, Doomed(x), NEW t, NEW p, p = schedThread(x, t), NEW c
  PROVE  Doomed(p.x) /\ Doomed(BarJoin(schedule(p.x, t, c), c)) /\ Doomed(Wait(x, t))
<1>1. ASSUME NEW y, Doomed(y), NEW u, NEW d, NEW to PROVE Doomed(deschedule(y, u, d, to))
  BY <1>1 DEF deschedule, Check, Doomed
<1>2. ASSUME NEW y, Doomed(y), NEW q PROVE Doomed([y EXCEPT !.outQueue = q]) /\ Doomed([y EXCEPT !.freeList = q])
  BY <1>2 DEF Doomed
<1>3. \/ p.x = x
      \/ \E q : p.x = [x EXCEPT !.freeList = q]
      \/ \E q, u, d : p.x = deschedule([x EXCEPT !.outQueue = q], u, d, "BLOCKED")
  BY DEF schedThread
<1>4. Doomed(p.x)
  <2>1. CASE p.x = x
    BY <2>1
  <2>2. CASE \E q : p.x = [x EXCEPT !.freeList = q]
    <3>1. PICK q : p.x = [x EXCEPT !.freeList = q]
      BY <2>2
    <3> QED BY <3>1 DEF Doomed
  <2>3. CASE \E q, u, d : p.x = deschedule([x EXCEPT !.outQueue = q], u, d, "BLOCKED")
    <3>1. PICK q, u, d : p.x = deschedule([x EXCEPT !.outQueue = q], u, d, "BLOCKED")
      BY <2>3
    <3>2. Doomed([x EXCEPT !.outQueue = q])
      BY <1>2
    <3> QED BY <1>1, <3>1, <3>2
  <2> QED BY <1>3, <2>1, <2>2, <2>3
<1>5. ASSUME NEW y, Doomed(y) PROVE Doomed(schedule(y, t, c)) /\ Doomed(BarJoin(y, c)) /\ Doomed(Wait(y, t))
  BY <1>5 DEF schedule, BarJoin, Wait, Check, Doomed
<1> QED BY <1>4, <1>5

\* A thread joins that has no context any more.
LEMMA JoinBlockedKeeps ==
  ASSUME Fine(s, pc, watchdog), NEW t \in Threads, JoinBlocked(t)
  PROVE  SchedulerInv'
<1> DEFINE x == IF s.state[t] = "SLEEPING" THEN Woken(s, t) ELSE s
           y == Check(x, t \notin s.marked /\ x.state[t] \in {"BLOCKED", "STARTED"}, "join")
           p == schedThread(y, t)
<1>1. /\ pc[t] = "join" /\ t \notin ToSet(s.fakeLeaves) /\ s.state[t] # "OUT" /\ UNCHANGED watchdog
      /\ GetsOrWaits(y, p, t)
  BY DEF JoinBlocked, At, GetsOrWaits
<1>2. /\ Inv(s, pc, {}, Nobody) /\ s \in Sched /\ pc \in [Threads -> Labels] /\ s.failed = "none" /\ t # Nobody
      /\ Promises(s, Nobody) /\ Watch(s, pc, watchdog) /\ watchdog \in Watching
  BY DEF Fine, Inv
<1>3. /\ s.state[t] \in {"STARTED", "SLEEPING", "BLOCKED", "RUNNING"} /\ t \notin s.marked
      /\ s.handoffThread[t] = Nobody
  BY <1>1, <1>2, WhereItIs
<1>4. t \notin ToSet(s.runQueue) /\ \A u \in Threads : s.handoffThread[u] # t
  BY <1>2, <1>3, NotPromised
<1>5. Inv(s, pc, {}, t)
  BY <1>2, Enters
<1>6. CASE s.state[t] = "RUNNING"
  <2>1. watchdog.at = "leave"
    BY <1>1, <1>2, <1>6 DEF Watch
  <2>2. y = [s EXCEPT !.failed = "join"]
    BY <1>2, <1>6 DEF Check
  <2>3. Doomed(y)
    BY <1>2, <2>2 DEF Doomed, Sched
  <2> HIDE DEF y, p
  <2>4. p = schedThread(y, t)
    BY DEF p
  <2>5. Doomed(BarJoin(schedule(p.x, t, p.ctx), p.ctx)) /\ Doomed(Wait(y, t))
    BY <2>3, <2>4, DoomedStays
  <2>6. \E z, l : Doomed(z) /\ Do(t, z, l)
    BY <1>1, <2>5 DEF GetsOrWaits
  <2>7. PICK z, l : Doomed(z) /\ Do(t, z, l)
    BY <2>6
  <2>8. s' = [s EXCEPT !.failed = "join"] /\ UNCHANGED pc
    BY <2>7 DEF Do, Commit, Doomed
  <2>9. FailsAs("join")
    BY <1>1, <1>2, <2>1, <2>8 DEF FailsAs
  <2> QED BY <2>9, FailsKeeps
<1>7. CASE s.state[t] \in {"STARTED", "BLOCKED"}
  <2>1. y = s
    BY <1>3, <1>7 DEF Check
  <2>2. p = schedThread(s, t) /\ GetsOrWaits(s, p, t)
    BY <1>1, <2>1
  <2>3. Kept(s, s, t)
    BY DEF Kept
  <2> HIDE DEF p
  <2> QED BY <1>1, <1>2, <1>3, <1>4, <1>5, <1>7, <2>2, <2>3, GetsOrWaitsKeeps
<1>8. CASE s.state[t] = "SLEEPING"
  <2> DEFINE w == Woken(s, t)
  <2>1. w = Woken(s, t) /\ x = w
    BY <1>8
  <2> HIDE DEF w
  <2>2. OwnChange(s, w, t) /\ WokenUp(s, w, t)
    BY <1>2, <1>8, <2>1, WokenIs
  <2>3. Inv(w, pc, {}, t)
    BY <1>5, <2>2, Own
  <2>4. /\ w.state[t] = "BLOCKED" /\ \A u \in Threads : u # t => w.state[u] = s.state[u]
        /\ w.cid = s.cid /\ w.failed = "none" /\ w.handoffThread = s.handoffThread /\ w.marked = s.marked
        /\ w.fakeLeaves = s.fakeLeaves /\ w.runQueue = s.runQueue
    BY <1>2, <2>2, FieldTypes DEF WokenUp
  <2>5. y = w
    BY <1>3, <2>1, <2>4 DEF Check
  <2>6. p = schedThread(w, t) /\ GetsOrWaits(w, p, t)
    BY <1>1, <2>5
  <2>7. Kept(s, w, t)
    BY <2>4 DEF Kept
  <2> HIDE DEF p
  <2> QED BY <1>1, <1>3, <1>4, <1>8, <2>3, <2>4, <2>6, <2>7, GetsOrWaitsKeeps
<1> QED BY <1>3, <1>6, <1>7, <1>8

----------------------------------------------------------------------------
(* Leaves, ends and the watchdog. *)

\* A thread leaves for a syscall or to sleep.
LEMMA LeaveKeeps ==
  ASSUME Fine(s, pc, watchdog), NEW t \in Threads, Leave(t)
  PROVE  SchedulerInv'
<1> DEFINE l == IF t \in s.marked THEN "sleep" ELSE "syscall"
<1>1. PICK order \in Orders : pc[t] = "leave" /\ UNCHANGED watchdog /\ Do(t, leave(s, t, s.cid[t], order), l)
  BY DEF Leave, At
<1>2. /\ Inv(s, pc, {}, Nobody) /\ pc \in [Threads -> Labels] /\ s.failed = "none" /\ t # Nobody /\ Knows(s, pc, t)
  BY DEF Fine, Inv
<1>3. MayLeave(s, t, l)
  <2>1. /\ s.state[t] = "RUNNING" /\ s.bar[s.cid[t]] = "running" /\ s.handoffThread[t] = Nobody
        /\ t \notin ToSet(s.fakeLeaves)
    BY <1>1, <1>2, WhereItIs
  <2> QED BY <1>1, <1>2, <2>1 DEF MayLeave, Knows
<1>4. l \in Labels
  BY DEF Labels
<1> DEFINE z == leave(s, t, s.cid[t], order)
<1>5. z = leave(s, t, s.cid[t], order) /\ Do(t, z, l)
  BY <1>1
<1> HIDE DEF l, z
<1>6. Gone(s, z, pc, t, l)
  BY <1>2, <1>3, <1>5, LeaveIs
<1>7. z.failed = "none" /\ Inv(z, [pc EXCEPT ![t] = l], {}, Nobody) /\ Kept(s, z, t) /\ z.state[t] # "RUNNING"
  BY <1>6 DEF Gone
<1>8. Unwatched(s, z, t) /\ Watched(z, watchdog, t, l)
  BY <1>1, <1>7, KeptUnwatched, NotRunning
<1> QED BY <1>1, <1>4, <1>5, <1>7, <1>8, DoKeeps

\* What leave() does if its assertion fails.
LEMMA leaveFails ==
  ASSUME NEW t, NEW c, NEW order, s \in Sched, s.failed = "none", ~(s.curThread[c] = t /\ s.state[t] = "RUNNING")
  PROVE  leave(s, t, c, order) = [s EXCEPT !.failed = "leave"] /\ leave(s, t, c, order).failed = "leave"
<1>1. Check(s, s.curThread[c] = t /\ s.state[t] = "RUNNING", "leave") = [s EXCEPT !.failed = "leave"]
  BY DEF Check
<1>2. [s EXCEPT !.failed = "leave"].failed = "leave"
  BY DEF Sched
<1> QED BY <1>1, <1>2 DEF leave

\* A thread that is about to end leaves, unless the watchdog has left for it.
LEMMA FinishLeaveKeeps ==
  ASSUME Fine(s, pc, watchdog), NEW t \in Threads, FinishLeave(t)
  PROVE  SchedulerInv'
<1> DEFINE l == "finishend"
<1>1. PICK order \in Orders : /\ pc[t] = "finishleave" /\ UNCHANGED watchdog
                              /\ Do(t, leave(s, t, s.cid[t], order), l)
  BY DEF FinishLeave, At
<1>2. /\ Inv(s, pc, {}, Nobody) /\ pc \in [Threads -> Labels] /\ s.failed = "none" /\ t # Nobody
      /\ s \in Sched /\ Placed(s) /\ watchdog \in Watching
  BY DEF Fine, Inv
<1> DEFINE z == leave(s, t, s.cid[t], order)
<1>3. z = leave(s, t, s.cid[t], order) /\ Do(t, z, l)
  BY <1>1
<1> HIDE DEF z
<1>4. CASE s.state[t] = "RUNNING"
  <2>1. MayLeave(s, t, l)
    BY <1>1, <1>2, <1>4, WhereItIs DEF MayLeave
  <2>2. Gone(s, z, pc, t, l)
    BY <1>2, <1>3, <2>1, LeaveIs
  <2>3. z.failed = "none" /\ Inv(z, [pc EXCEPT ![t] = l], {}, Nobody) /\ Kept(s, z, t)
    BY <2>2 DEF Gone
  <2>4. Unwatched(s, z, t) /\ Watched(z, watchdog, t, l)
    BY <2>3, KeptUnwatched, FarAway
  <2> QED BY <1>1, <1>3, <2>3, <2>4, DoKeeps DEF Labels
<1>5. CASE s.state[t] # "RUNNING"
  <2>1. z = [s EXCEPT !.failed = "leave"] /\ z.failed = "leave"
    BY <1>2, <1>3, <1>5, leaveFails
  <2>2. s' = [s EXCEPT !.failed = "leave"] /\ UNCHANGED pc
    BY <1>3, <2>1 DEF Do, Commit
  <2>3. FailsAs("leave")
    BY <1>1, <1>2, <2>2 DEF FailsAs
  <2> QED BY <2>3, FailsKeeps
<1> QED BY <1>4, <1>5

\* The watchdog leaves for a thread, unless that has left for good.
LEMMA WatchdogLeaveKeeps ==
  ASSUME Fine(s, pc, watchdog), WatchdogLeave
  PROVE  SchedulerInv'
<1> DEFINE t == watchdog.th
           c == watchdog.cid
<1>1. PICK order \in Orders : /\ watchdog.at = "leave" /\ watchdog' = [at |-> "next"] /\ UNCHANGED pc
                              /\ Commit(leave(s, t, c, order))
  BY DEF WatchdogLeave
<1>2. /\ Inv(s, pc, {}, Nobody) /\ pc \in [Threads -> Labels] /\ s.failed = "none" /\ Watch(s, pc, watchdog)
      /\ s \in Sched /\ Placed(s) /\ watchdog \in Watching /\ \A u \in Threads : Knows(s, pc, u)
  BY DEF Fine, Inv
<1>3. t \in Threads /\ c \in Contexts /\ t # Nobody /\ watchdog' \in Watching /\ watchdog'.at = "next"
  BY <1>1, <1>2 DEF Watching
<1> DEFINE z == leave(s, t, c, order)
<1>4. z = leave(s, t, c, order) /\ Commit(z)
  BY <1>1
<1> HIDE DEF z, t, c
<1>5. CASE s.curThread[c] = t /\ s.state[t] = "RUNNING"
  <2> DEFINE l == pc[t]
  <2>1. c = s.cid[t]
    BY <1>2, <1>3, <1>5, OneContext
  <2>2. l \in {"finishleave", "syscall", "join"}
    BY <1>1, <1>2, <1>3, <1>5 DEF Watch, Knows, t
  <2>3. t \notin ToSet(s.fakeLeaves)
    <3>1. l \in {"finishleave"} \/ t \notin ToSet(s.fakeLeaves)
      BY <1>1, <1>2, <2>2 DEF Watch, t
    <3> QED BY <1>2, <1>3, <3>1, WhereItIs
  <2>4. /\ s.bar[s.cid[t]] = "running" /\ s.handoffThread[t] = Nobody /\ t \notin s.marked
    BY <1>2, <1>3, <1>5, <2>2, WhereItIs
  <2>5. MayLeave(s, t, l)
    BY <1>2, <1>5, <2>2, <2>3, <2>4 DEF MayLeave
  <2>6. pc = [pc EXCEPT ![t] = l]
    BY <1>2, <1>3
  <2> HIDE DEF l
  <2>7. Gone(s, z, pc, t, l)
    BY <1>2, <1>3, <1>4, <2>1, <2>5, LeaveIs
  <2>8. z.failed = "none" /\ Inv(z, pc, {}, Nobody) /\ Kept(s, z, t) /\ z.state[t] # "RUNNING"
    BY <2>6, <2>7 DEF Gone
  <2>9. ASSUME NEW u \in Threads, pc[u] \in {"syscall", "join"}, z.state[u] = "RUNNING"
        PROVE  u \in ToSet(z.fakeLeaves)
    <3>1. u # t /\ s.state[u] \in {"RUNNING", "QUEUED"} /\ z.fakeLeaves = s.fakeLeaves
      BY <2>8, <2>9 DEF Kept
    <3>2. s.state[u] = "RUNNING"
      BY <1>2, <2>9, <3>1 DEF Knows
    <3> QED BY <1>2, <2>9, <3>1, <3>2 DEF Watch, t
  <2>10. Watch(z, pc, watchdog')
    BY <1>3, <2>9 DEF Watch
  <2>11. s' = z /\ pc' = pc
    BY <1>1, <1>4, <2>8 DEF Commit
  <2>12. Inv(s', pc', {}, Nobody) /\ Watch(s', pc', watchdog') /\ s'.failed = "none" /\ pc' \in [Threads -> Labels]
    BY <1>2, <2>8, <2>10, <2>11
  <2>13. AssertsHold'
    BY <2>12 DEF AssertsHold
  <2> QED BY <1>3, <2>12, <2>13 DEF SchedulerInv
<1>6. CASE ~(s.curThread[c] = t /\ s.state[t] = "RUNNING")
  <2>1. z = [s EXCEPT !.failed = "leave"] /\ z.failed = "leave"
    BY <1>2, <1>4, <1>6, leaveFails
  <2>2. s' = [s EXCEPT !.failed = "leave"]
    BY <1>4, <2>1 DEF Commit
  <2>3. FailsAs("leave")
    BY <1>1, <1>3, <2>2 DEF FailsAs
  <2> QED BY <2>3, FailsKeeps
<1> QED BY <1>5, <1>6

\* The watchdog takes the first of the list.
LEMMA EndFakeLeaveKeeps ==
  ASSUME Fine(s, pc, watchdog), watchdog.at # "leave", EndFakeLeave
  PROVE  SchedulerInv'
<1> DEFINE t == Head(s.fakeLeaves)
           x == [s EXCEPT !.fakeLeaves = RemoveFirst(@, t)]
<1>1. /\ s.fakeLeaves # <<>> /\ Commit(finishFakeLeave(s, t)) /\ UNCHANGED pc
      /\ watchdog' = [at |-> "leave", th |-> t, cid |-> s.cid[t]]
  BY DEF EndFakeLeave
<1>2. /\ Inv(s, pc, {}, Nobody) /\ s \in Sched /\ pc \in [Threads -> Labels] /\ s.failed = "none"
      /\ Watch(s, pc, watchdog) /\ \A u \in Threads : Knows(s, pc, u)
  BY DEF Fine, Inv
<1>3. Lists(s.fakeLeaves, ToSet(s.fakeLeaves)) /\ ToSet(s.fakeLeaves) \subseteq Threads
  BY <1>2, InvLists
<1>4. t \in ToSet(s.fakeLeaves) /\ t \in Threads
  <2>1. s.fakeLeaves \in Seq(Threads)
    BY <1>2, FieldTypes
  <2>2. t = s.fakeLeaves[1] /\ 1 \in DOMAIN s.fakeLeaves
    BY <1>1, <2>1
  <2>3. t \in ToSet(s.fakeLeaves)
    BY <2>2 DEF ToSet
  <2> QED BY <1>3, <2>3
<1> HIDE DEF t
<1>5. s.state[t] = "RUNNING" /\ pc[t] \in {"syscall", "join"} /\ s.cid[t] \in Contexts
  BY <1>2, <1>4, FieldTypes DEF Knows
<1>6. finishFakeLeave(s, t) = x
  BY <1>5 DEF finishFakeLeave, Check
<1>7. Lists(RemoveFirst(s.fakeLeaves, t), ToSet(s.fakeLeaves) \ {t})
  BY <1>3, ListRemove
<1>8. RemoveFirst(s.fakeLeaves, t) \in Seq(Threads)
  BY <1>3, <1>7, ListSeq
<1>9. x \in Sched /\ Same(s, x, {"fakeLeaves"}) /\ x.fakeLeaves = RemoveFirst(s.fakeLeaves, t)
  BY <1>2, <1>8 DEF Sched, Same, Fields
<1> HIDE DEF x
<1>10. ToSet(x.fakeLeaves) = ToSet(s.fakeLeaves) \ {t}
  BY <1>7, <1>9 DEF Lists
<1>11. OwnFake(s, x, t)
  BY <1>7, <1>9, <1>10 DEF OwnFake
<1>12. /\ OwnChange(s, x, t) /\ x.failed = "none"
       /\ x.state = s.state /\ x.cid = s.cid /\ x.futexWord = s.futexWord /\ x.handoffThread = s.handoffThread
       /\ x.marked = s.marked /\ x.due = s.due /\ x.bar = s.bar
  BY <1>2, <1>4, <1>5, <1>11, OwnFakeIs
<1>13. Inv(x, pc, {}, t)
  BY <1>2, <1>12, Enters, Own
<1>14. Knows(x, pc, t)
  BY <1>2, <1>4, <1>10, <1>12 DEF Knows
<1>15. Inv(x, pc, {}, Nobody)
  <2> DEFINE l == pc[t]
  <2>1. pc = [pc EXCEPT ![t] = l]
    BY <1>2, <1>4
  <2> HIDE DEF l
  <2> QED BY <1>2, <1>4, <1>5, <1>12, <1>13, <1>14, <2>1, Lands
<1>16. s' = x /\ pc' = pc
  BY <1>1, <1>6, <1>12 DEF Commit
<1>17. watchdog' \in Watching /\ watchdog'.at = "leave" /\ watchdog'.th = t /\ watchdog'.cid = s.cid[t]
  BY <1>1, <1>4, <1>5 DEF Watching
<1>18. Watch(x, pc, watchdog')
  BY <1>2, <1>5, <1>10, <1>12, <1>17 DEF Watch
<1>19. Inv(s', pc', {}, Nobody) /\ Watch(s', pc', watchdog') /\ s'.failed = "none" /\ pc' \in [Threads -> Labels]
  BY <1>2, <1>12, <1>15, <1>16, <1>18
<1>20. AssertsHold'
  BY <1>19 DEF AssertsHold
<1> QED BY <1>17, <1>19, <1>20 DEF SchedulerInv

\* It goes on with the next of the list, or stops.
LEMMA WatchdogNextKeeps ==
  ASSUME Fine(s, pc, watchdog), WatchdogNext
  PROVE  SchedulerInv'
<1>1. watchdog.at = "next"
  BY DEF WatchdogNext
<1>2. CASE EndFakeLeave
  BY <1>1, <1>2, EndFakeLeaveKeeps
<1>3. CASE watchdog' = [at |-> "idle"] /\ UNCHANGED <<s, pc>>
  <2>1. /\ Inv(s, pc, {}, Nobody) /\ pc \in [Threads -> Labels] /\ s.failed = "none" /\ Watch(s, pc, watchdog)
    BY DEF Fine
  <2>2. Watch(s, pc, watchdog') /\ watchdog' \in Watching
    BY <1>1, <1>3, <2>1 DEF Watch, Watching
  <2>3. Inv(s', pc', {}, Nobody) /\ Watch(s', pc', watchdog') /\ s'.failed = "none" /\ pc' \in [Threads -> Labels]
    BY <1>3, <2>1, <2>2
  <2>4. AssertsHold'
    BY <2>3 DEF AssertsHold
  <2> QED BY <2>2, <2>3, <2>4 DEF SchedulerInv
<1> QED BY <1>2, <1>3 DEF WatchdogNext

\* A thread ends that has no context: it is forgotten.
Forgets(x, y, t) == y \in Sched /\ Same(x, y, {"state"}) /\ y.state = [x.state EXCEPT ![t] = "NONE"]

LEMMA ForgetsKeeps ==
  ASSUME Fine(s, pc, watchdog), NEW t \in Threads, NEW x, NEW y, Inv(x, pc, {}, t), x.failed = "none",
         Kept(s, x, t), Forgets(x, y, t), x.state[t] = "BLOCKED", x.handoffThread[t] = Nobody,
         t \notin ToSet(x.fakeLeaves), t \notin x.marked, Do(t, y, "done"), UNCHANGED watchdog
  PROVE  SchedulerInv'
<1> DEFINE k2 == [pc EXCEPT ![t] = "done"]
<1>1. pc \in [Threads -> Labels] /\ k2[t] = "done" /\ k2 = [pc EXCEPT ![t] = "done"]
  BY DEF Fine
<1>2. x \in Sched /\ x.state \in [Threads -> States]
  BY FieldTypes DEF Inv
<1>3. /\ y.futexWord = x.futexWord /\ y.due = x.due /\ y.marked = x.marked /\ y.handoffThread = x.handoffThread
      /\ y.fakeLeaves = x.fakeLeaves /\ y.cid = x.cid
  BY DEF Forgets, Same, Fields
<1>4. y.state[t] = "NONE" /\ \A u \in Threads : u # t => y.state[u] = x.state[u]
  BY <1>2 DEF Forgets
<1>5. Same(x, y, {"state", "futexWord", "due", "marked"})
  BY DEF Forgets, Same
<1>6. OwnState(x, y, t)
  BY <1>3, <1>4, <1>5 DEF OwnState, Forgets
<1>7. OwnChange(x, y, t) /\ y.failed = "none"
  BY <1>6, OwnStateIs
<1>8. Inv(y, pc, {}, t)
  BY <1>7, Own
<1> HIDE DEF k2
<1>9. Knows(y, k2, t)
  BY <1>1, <1>3, <1>4 DEF Knows
<1>10. Inv(y, k2, {}, Nobody)
  BY <1>1, <1>4, <1>8, <1>9, Lands
<1>11. Unwatched(s, y, t)
  BY <1>3, <1>4 DEF Unwatched, Kept
<1>12. Watched(y, watchdog, t, "done")
  BY FarAway
<1> QED BY <1>1, <1>7, <1>10, <1>11, <1>12, DoKeeps DEF Labels

\* A thread ends: its context, if it still has it, is free.
LEMMA FinishEndKeeps ==
  ASSUME Fine(s, pc, watchdog), NEW t \in Threads, FinishEnd(t)
  PROVE  SchedulerInv'
<1> DEFINE c == s.cid[t]
           x1 == [s EXCEPT !.outQueue = RemoveFirst(@, t), !.state[t] = "BLOCKED", !.curThread[c] = Nobody]
           x2 == [x1 EXCEPT !.freeList = Append(@, c)]
           x3 == [x2 EXCEPT !.state[t] = "NONE"]
<1>1. /\ pc[t] = "finishend" \/ (pc[t] = "syscall" /\ s.state[t] # "RUNNING")
      /\ Do(t, Finished(s, t), "done") /\ UNCHANGED watchdog
  BY DEF FinishEnd, At
<1>2. /\ Inv(s, pc, {}, Nobody) /\ s \in Sched /\ pc \in [Threads -> Labels] /\ s.failed = "none" /\ t # Nobody
      /\ Placed(s) /\ Bars(s, {}) /\ Conserved(s, {}) /\ Promises(s, Nobody) /\ Sorted(s) /\ FreeListed(s, {})
      /\ Knows(s, pc, t)
  BY DEF Fine, Inv
<1>3. s.state[t] \in {"BLOCKED", "OUT"} /\ s.handoffThread[t] = Nobody /\ t \notin s.marked
      /\ t \notin ToSet(s.fakeLeaves)
  BY <1>1, <1>2, WhereItIs DEF Knows
<1>4. Inv(s, pc, {}, t)
  BY <1>2, Enters
<1>5. t \in ToSet(s.outQueue) <=> s.state[t] = "OUT"
  <2>1. ToSet(s.outQueue) = In(s, "OUT")
    BY <1>2 DEF Placed, Lists
  <2> QED BY <2>1 DEF In
<1>6. CASE s.state[t] = "BLOCKED"
  <2> DEFINE y == [s EXCEPT !.state[t] = "NONE"]
  <2>1. t \notin ToSet(s.runQueue)
    BY <1>2, <1>6 DEF Promises
  <2>2. RemoveFirst(s.runQueue, t) = s.runQueue
    BY <1>2, <2>1, ListRemove DEF Promises
  <2>3. Finished(s, t) = [s EXCEPT !.runQueue = RemoveFirst(@, t), !.state[t] = "NONE"]
    BY <1>5, <1>6 DEF Finished, Check
  <2>4. [s EXCEPT !.runQueue = s.runQueue] = s
    BY <1>2 DEF Sched
  <2>5. Finished(s, t) = y
    BY <2>2, <2>3, <2>4
  <2>6. Forgets(s, y, t)
    BY <1>2 DEF Forgets, Sched, Same, Fields, States
  <2> HIDE DEF y
  <2>7. Kept(s, s, t)
    BY DEF Kept
  <2> QED BY <1>1, <1>2, <1>3, <1>4, <1>6, <2>5, <2>6, <2>7, ForgetsKeeps
<1>7. CASE s.state[t] = "OUT"
  <2>1. c \in Contexts /\ s.curThread[c] = t
    BY <1>2, <1>7, OneContext
  <2>2. Lists(RemoveFirst(s.outQueue, t), In(s, "OUT") \ {t})
    BY <1>2, ListRemove DEF Placed
  <2>3. RemoveFirst(s.outQueue, t) \in Seq(Threads)
    BY <2>2, ListSeq DEF In
  <2> HIDE DEF c
  <2>4. /\ x1 \in Sched /\ Same(s, x1, {"state", "curThread", "outQueue"})
        /\ x1.state = [s.state EXCEPT ![t] = "BLOCKED"] /\ x1.curThread = [s.curThread EXCEPT ![c] = Nobody]
        /\ x1.outQueue = RemoveFirst(s.outQueue, t)
    BY <1>2, <2>1, <2>3 DEF Sched, Same, Fields, States
  <2>5. Finished(s, t) = x3
    <3> DEFINE q == [s EXCEPT !.outQueue = RemoveFirst(@, t)]
    <3>1. q.state[t] = "OUT" /\ q.cid[t] = c /\ q.curThread[c] = t
      BY <1>2, <1>7, <2>1 DEF Sched, c
    <3>2. deschedule(q, t, c, "BLOCKED") = [q EXCEPT !.state[t] = "BLOCKED", !.curThread[c] = Nobody]
      BY <3>1 DEF deschedule, Check
    <3>3. deschedule(q, t, c, "BLOCKED") = x1
      BY <3>2
    <3> HIDE DEF q, x1
    <3>4. Finished(s, t) = [deschedule(q, t, c, "BLOCKED") EXCEPT !.freeList = Append(@, c), !.state[t] = "NONE"]
      BY <1>5, <1>7 DEF Finished, Check, q, c
    <3> QED BY <3>3, <3>4
  <2> HIDE DEF x1
  <2>6. GivesUp(s, x1, t, c, "BLOCKED", t)
    <3>1. x1.sleepQueue = s.sleepQueue /\ x1.marked = s.marked /\ x1.due = s.due /\ x1.futexWord = s.futexWord
      BY <2>4 DEF Same, Fields
    <3>2. \A u \in Threads : x1.state[u] = "SLEEPING" <=> s.state[u] = "SLEEPING"
      BY <1>2, <1>7, <2>4, FieldTypes
    <3>3. Lists(x1.sleepQueue, In(x1, "SLEEPING")) /\ Sorted(x1)
      <4>1. In(x1, "SLEEPING") = In(s, "SLEEPING")
        BY <3>2 DEF In
      <4> QED BY <1>2, <3>1, <3>2, <4>1 DEF Placed, Sorted
    <3>4. Same(s, x1, {"state", "curThread", "outQueue", "sleepQueue", "marked"})
      BY <2>4 DEF Same
    <3> QED BY <1>7, <2>2, <2>4, <3>1, <3>3, <3>4 DEF GivesUp, c
  <2>7. Inv(x1, pc, {c}, t) /\ Kept(s, x1, t) /\ OutBoth(s, t, c)
    BY <1>4, <2>6, Parts
  <2>8. s.bar[c] = "out"
    BY <1>7, <2>7 DEF OutBoth
  <2>9. /\ x1.bar = s.bar /\ x1.runQueue = s.runQueue /\ x1.handoffThread = s.handoffThread
        /\ x1.fakeLeaves = s.fakeLeaves /\ x1.marked = s.marked /\ x1.failed = "none" /\ x1.state[t] = "BLOCKED"
    BY <1>2, <2>4, FieldTypes DEF Same, Fields
  <2>10. x1 \in Sched /\ Lists(x1.freeList, Free(x1) \ {c}) /\ Free(x1) \subseteq Contexts
    BY <2>7, InvLists
  <2>11. Lists(Append(x1.freeList, c), (Free(x1) \ {c}) \cup {c})
    BY <2>10, ListAppend
  <2>12. Append(x1.freeList, c) \in Seq(Contexts)
    BY <2>1, <2>10, <2>11, ListSeq
  <2>13. x2 \in Sched /\ Same(x1, x2, {"freeList"}) /\ x2.freeList = Append(x1.freeList, c)
    BY <2>10, <2>12 DEF Sched, Same, Fields
  <2>14. Same(x1, x2, {"freeList", "bar"}) /\ x2.bar = [x1.bar EXCEPT ![c] = "out"]
    <3>1. x2.bar = x1.bar
      BY <2>13 DEF Same, Fields
    <3>2. x1.bar = [x1.bar EXCEPT ![c] = "out"]
      BY <2>8, <2>9, <2>10, FieldTypes
    <3> QED BY <2>13, <3>1, <3>2 DEF Same
  <2>15. \A u \in ToSet(x1.runQueue) : c \notin Mask[u]
    <3>1. ~Driven(s, c)
      BY <1>7, <2>1 DEF Driven
    <3> QED BY <1>2, <2>9, <3>1 DEF Conserved
  <2>16. PutsBack(x1, x2, c)
    BY <2>11, <2>13, <2>14, <2>15 DEF PutsBack
  <2>17. Inv(x2, pc, {}, t) /\ Kept(x1, x2, t)
    BY <2>1, <2>7, <2>16, Frees
  <2>18. Kept(s, x2, t)
    BY <2>7, <2>17, KeptTwice
  <2>19. /\ x2.handoffThread = s.handoffThread /\ x2.fakeLeaves = s.fakeLeaves /\ x2.marked = s.marked
         /\ x2.failed = "none" /\ x2.state[t] = "BLOCKED"
    BY <2>9, <2>13 DEF Same, Fields
  <2>20. x3 = [x2 EXCEPT !.state[t] = "NONE"]
    OBVIOUS
  <2> HIDE DEF x2, x3
  <2>21. Forgets(x2, x3, t)
    BY <2>13, <2>20 DEF Forgets, Sched, Same, Fields, States
  <2> QED BY <1>1, <1>3, <2>5, <2>17, <2>18, <2>19, <2>21, ForgetsKeeps
<1> QED BY <1>3, <1>6, <1>7

\* If as many contexts are used as threads are OUT, nobody runs.
LEMMA NobodyRuns ==
  ASSUME s \in Sched, Placed(s), scheduledThreads(s) = Len(s.outQueue), NEW u \in Threads
  PROVE  s.state[u] # "RUNNING"
<1> DEFINE U == {c \in Contexts : Used(s, c)}
           n == Len(s.outQueue)
           f == [i \in 1 .. n |-> s.cid[s.outQueue[i]]]
<1>1. IsFiniteSet(Contexts)
  BY ContextsAssumption, FS_Interval
<1>2. IsFiniteSet(U)
  BY <1>1, FS_Subset
<1>3. Lists(s.outQueue, In(s, "OUT")) /\ n \in Nat
  BY ListIs DEF Placed
<1>4. Cardinality(1 .. n) = n
  <2> HIDE DEF n
  <2> QED BY <1>3, FS_Interval
<1>5. Cardinality(U) = n
  BY DEF scheduledThreads
<1>6. \A i \in 1 .. n : s.outQueue[i] \in Threads /\ s.state[s.outQueue[i]] = "OUT"
  BY <1>3, ListIs DEF In
<1>7. \A i \in 1 .. n : /\ s.cid[s.outQueue[i]] \in U
                        /\ s.curThread[s.cid[s.outQueue[i]]] = s.outQueue[i]
  BY <1>6, OneContext
<1>8. f \in Injection(1 .. n, U)
  <2>1. f \in [1 .. n -> U]
    BY <1>7
  <2>2. ASSUME NEW i \in 1 .. n, NEW j \in 1 .. n, f[i] = f[j] PROVE i = j
    <3>1. s.outQueue[i] = s.outQueue[j]
      BY <1>7, <2>2
    <3> QED BY <1>3, <3>1, ListIs
  <2> QED BY <2>1, <2>2 DEF Injection, IsInjective
<1> HIDE DEF U, f
<1>9. f \in Surjection(1 .. n, U)
  BY <1>2, <1>4, <1>5, <1>8, FS_Injection
<1>10. \A c \in U : \E i \in 1 .. n : f[i] = c
  BY <1>9 DEF Surjection
<1>11. ASSUME s.state[u] = "RUNNING" PROVE FALSE
  <2>1. s.cid[u] \in U /\ s.curThread[s.cid[u]] = u
    BY <1>11, OneContext DEF U
  <2>2. PICK i \in 1 .. n : f[i] = s.cid[u]
    BY <1>10, <2>1
  <2>3. f[i] = s.cid[s.outQueue[i]]
    BY DEF f
  <2>4. s.outQueue[i] = u
    BY <1>7, <2>1, <2>2, <2>3
  <2> QED BY <1>6, <1>11, <2>4
<1> QED BY <1>11

\* Then nobody waits in the run queue either.
LEMMA NobodyWaits ==
  ASSUME NEW x, NEW k, Inv(x, k, {}, Nobody), \A u \in Threads : x.state[u] # "RUNNING"
  PROVE  x.runQueue = <<>>
<1>1. x \in Sched /\ Placed(x) /\ Conserved(x, {}) /\ x.runQueue \in Seq(Threads)
      /\ ToSet(x.runQueue) \subseteq Threads
  BY InvLists, FieldTypes DEF Inv
<1>2. ASSUME NEW t \in ToSet(x.runQueue) PROVE FALSE
  <2>1. Mask[t] \in (SUBSET Contexts) \ {{}}
    BY <1>1, MaskAssumption
  <2>2. PICK c \in Mask[t] : c \in Contexts
    BY <2>1
  <2>3. Driven(x, c)
    BY <1>1, <2>2 DEF Conserved
  <2>4. x.curThread[c] \in Threads
    BY <1>1, <2>2, <2>3, FieldTypes DEF Driven, Used
  <2> QED BY <2>3, <2>4 DEF Driven
<1>3. Len(x.runQueue) = 0
  <2> SUFFICES ASSUME Len(x.runQueue) # 0 PROVE FALSE
    OBVIOUS
  <2>1. 1 \in DOMAIN x.runQueue
    BY <1>1
  <2>2. x.runQueue[1] \in ToSet(x.runQueue)
    BY <2>1 DEF ToSet
  <2> QED BY <1>2, <2>2
<1> QED BY <1>1, <1>3

\* Time goes on although nobody runs.
LEMMA DriveTimeKeeps ==
  ASSUME Fine(s, pc, watchdog), DriveTime
  PROVE  SchedulerInv'
<1>1. PICK order \in Orders : /\ watchdog.at = "idle" /\ UNCHANGED <<pc, watchdog>>
                              /\ scheduledThreads(s) = Len(s.outQueue) /\ Commit(callback(s, order))
  BY DEF DriveTime
<1>2. /\ Inv(s, pc, {}, Nobody) /\ s \in Sched /\ pc \in [Threads -> Labels] /\ s.failed = "none"
      /\ Placed(s) /\ watchdog \in Watching /\ \A u \in Threads : Knows(s, pc, u)
  BY DEF Fine, Inv
<1>3. \A u \in Threads : s.state[u] # "RUNNING"
  BY <1>1, <1>2, NobodyRuns
<1>4. AllSynced(s, pc)
  BY <1>3 DEF AllSynced
<1> DEFINE w == callback(s, order)
<1>5. w = callback(s, order) /\ Commit(w)
  BY <1>1
<1> HIDE DEF w
<1>6. PICK z : /\ Inv(z, pc, {}, Nobody) /\ Kept(s, z, Nobody) /\ AllSynced(z, pc) /\ z.failed = "none"
               /\ z.runQueue = <<>> => w = z
  BY <1>2, <1>4, <1>5, callbackDoes
<1>7. \A u \in Threads : z.state[u] # "RUNNING"
  <2> SUFFICES ASSUME NEW u \in Threads, z.state[u] = "RUNNING" PROVE FALSE
    OBVIOUS
  <2>1. s.state[u] \in {"RUNNING", "QUEUED"} /\ pc[u] = "sync"
    BY <1>6 DEF Kept, AllSynced
  <2> QED BY <1>2, <1>3, <2>1 DEF Knows
<1>8. w = z
  BY <1>6, <1>7, NobodyWaits
<1>9. s' = z /\ pc' = pc /\ watchdog' = watchdog
  BY <1>1, <1>5, <1>6, <1>8 DEF Commit
<1>10. Watch(z, pc, watchdog)
  BY <1>1, <1>7 DEF Watch
<1>11. /\ Inv(s', pc', {}, Nobody) /\ Watch(s', pc', watchdog') /\ s'.failed = "none"
       /\ pc' \in [Threads -> Labels] /\ watchdog' \in Watching
  BY <1>2, <1>6, <1>9, <1>10
<1>12. AssertsHold'
  BY <1>11 DEF AssertsHold
<1> QED BY <1>11, <1>12 DEF SchedulerInv

----------------------------------------------------------------------------
(* The theorems. *)

\* Initially no thread exists and every context is free.
LEMMA InitKeeps == Init => SchedulerInv
<1> SUFFICES ASSUME Init PROVE SchedulerInv
  OBVIOUS
<1> DEFINE n == Cardinality(Contexts)
           q == [i \in 1 .. n |-> i - 1]
<1>1. n \in Nat /\ Contexts = 0 .. n - 1
  BY ContextsAssumption
<1> HIDE DEF n
<1>2. /\ s.state = [t \in Threads |-> "NONE"] /\ s.cid = [t \in Threads |-> 0]
      /\ s.curThread = [c \in Contexts |-> Nobody] /\ s.freeList = q /\ s.runQueue = <<>>
      /\ s.outQueue = <<>> /\ s.sleepQueue = <<>> /\ s.fakeLeaves = <<>>
      /\ s.futexWord = [t \in Threads |-> 0] /\ s.handoffThread = [t \in Threads |-> Nobody]
      /\ s.marked = {} /\ s.due = [t \in Threads |-> 0] /\ s.bar = [c \in Contexts |-> "out"]
      /\ s.phase = 0 /\ s.failed = "none"
  BY DEF Init, n
<1>3. pc = [t \in Threads |-> "new"] /\ watchdog = [at |-> "idle"]
  BY DEF Init
<1>4. q \in Seq(Contexts)
  BY <1>1
<1>5. 0 \in Contexts
  BY ContextsAssumption
<1>6. s \in Sched
  <2>1. q \in Seq(Contexts) /\ <<>> \in Seq(Threads) /\ [t \in Threads |-> "NONE"] \in [Threads -> States]
        /\ [t \in Threads |-> 0] \in [Threads -> Contexts] /\ [t \in Threads |-> 0] \in [Threads -> Int]
        /\ [t \in Threads |-> 0] \in [Threads -> {0, 1}] /\ {} \in SUBSET Threads
        /\ [c \in Contexts |-> Nobody] \in [Contexts -> Threads \cup {Nobody}]
        /\ [t \in Threads |-> Nobody] \in [Threads -> Threads \cup {Nobody}]
        /\ [c \in Contexts |-> "out"] \in [Contexts -> {"out", "running", "done"}]
    BY <1>4, <1>5 DEF States
  <2> HIDE DEF q
  <2> QED BY <2>1 DEF Init, Sched, q, n
<1>7. Lists(<<>>, {}) /\ ToSet(<<>>) = {}
  BY DEF Lists, IsInjective, ToSet
<1>8. Placed(s)
  <2>1. In(s, "OUT") = {} /\ In(s, "SLEEPING") = {}
    BY <1>2 DEF In
  <2> QED BY <1>2, <1>7, <2>1 DEF Placed, Used
<1>9. FreeListed(s, {})
  <2>1. Free(s) \ {} = Contexts
    BY <1>2 DEF Free, Used
  <2>2. Lists(q, Contexts)
    <3>1. Len(q) = n /\ \A i \in 1 .. n : q[i] = i - 1
      BY <1>1
    <3> HIDE DEF q
    <3>2. \A i \in 1 .. Len(q) : q[i] \in Contexts
      BY <1>1, <3>1
    <3>3. \A c \in Contexts : \E i \in 1 .. Len(q) : q[i] = c
      <4> SUFFICES ASSUME NEW c \in Contexts PROVE \E i \in 1 .. Len(q) : q[i] = c
        OBVIOUS
      <4>1. c + 1 \in 1 .. n /\ (c + 1) - 1 = c
        BY <1>1
      <4> QED BY <3>1, <4>1
    <3>4. \A i, j \in 1 .. Len(q) : q[i] = q[j] => i = j
      BY <1>1, <3>1
    <3> QED BY <1>4, <3>2, <3>3, <3>4, IsList
  <2> QED BY <1>2, <2>1, <2>2 DEF FreeListed
<1>10. Bars(s, {})
  BY <1>2 DEF Bars, Driven, Used
<1>11. Conserved(s, {}) /\ Promises(s, Nobody) /\ Sorted(s)
  BY <1>2, <1>7 DEF Conserved, Promises, Sorted
<1>12. \A u \in Threads : Knows(s, pc, u)
  BY <1>2, <1>3, <1>7 DEF Knows
<1>13. Inv(s, pc, {}, Nobody)
  BY <1>2, <1>6, <1>7, <1>8, <1>9, <1>10, <1>11, <1>12 DEF Inv
<1>14. pc \in [Threads -> Labels] /\ watchdog \in Watching
  BY <1>3 DEF Labels, Watching
<1>15. Watch(s, pc, watchdog)
  BY <1>2, <1>3 DEF Watch
<1> QED BY <1>2, <1>13, <1>14, <1>15 DEF SchedulerInv, AssertsHold

\* Every step keeps the invariant.
LEMMA NextKeeps == SchedulerInv /\ [Next]_vars => SchedulerInv'
<1> SUFFICES ASSUME SchedulerInv, [Next]_vars PROVE SchedulerInv'
  OBVIOUS
<1>1. CASE UNCHANGED vars
  BY <1>1 DEF vars, SchedulerInv, AssertsHold
<1>2. ASSUME s.failed = "none", NEW t \in Threads,
             \/ start(t) \/ Join(t) \/ GotContext(t) \/ sync(t) \/ Synced(t) \/ HandOff(t)
             \/ Syscall(t) \/ Sleeping(t) \/ Finish(t)
      PROVE  SchedulerInv'
  <2>0. Fine(s, pc, watchdog)
    BY <1>2, FineNow
  <2>1. CASE start(t)
    BY <2>0, <2>1, startKeeps
  <2>2. CASE Join(t)
    BY <2>0, <2>2, JoinFakeKeeps, JoinOutKeeps, JoinBlockedKeeps DEF Join
  <2>3. CASE GotContext(t)
    BY <2>0, <2>3, GotContextKeeps
  <2>4. CASE sync(t)
    BY <2>0, <2>4, syncKeeps
  <2>5. CASE Synced(t)
    BY <2>0, <2>5, SyncedKeepsInv
  <2>6. CASE HandOff(t)
    BY <2>0, <2>6, HandOffKeeps
  <2>7. CASE Syscall(t)
    BY <2>0, <2>7, markForSleepKeeps, syscallLeaveKeeps, LeaveKeeps, SyscallReturnsKeeps DEF Syscall
  <2>8. CASE Sleeping(t)
    BY <2>0, <2>8, SleepEnds, notifySleepEndKeeps DEF Sleeping
  <2>9. CASE Finish(t)
    BY <2>0, <2>9, FinishRunningKeeps, FinishLeaveKeeps, FinishEndKeeps DEF Finish
  <2> QED BY <1>2, <2>1, <2>2, <2>3, <2>4, <2>5, <2>6, <2>7, <2>8, <2>9
<1>3. ASSUME s.failed = "none", BreakStall \/ WatchdogLeave \/ WatchdogNext \/ DriveTime
      PROVE  SchedulerInv'
  <2>0. Fine(s, pc, watchdog)
    BY <1>3, FineNow
  <2>1. CASE BreakStall
    <3>1. watchdog.at # "leave" /\ EndFakeLeave
      BY <2>1 DEF BreakStall
    <3> QED BY <2>0, <3>1, EndFakeLeaveKeeps
  <2>2. CASE WatchdogLeave
    BY <2>0, <2>2, WatchdogLeaveKeeps
  <2>3. CASE WatchdogNext
    BY <2>0, <2>3, WatchdogNextKeeps
  <2>4. CASE DriveTime
    BY <2>0, <2>4, DriveTimeKeeps
  <2> QED BY <1>3, <2>1, <2>2, <2>3, <2>4
<1>4. Next => s.failed = "none"
  <2>1. ASSUME NEW t \in Threads,
               \/ start(t) \/ Join(t) \/ GotContext(t) \/ sync(t) \/ Synced(t) \/ HandOff(t)
        PROVE  s.failed = "none"
    BY <2>1 DEF start, Join, JoinFake, JoinOut, JoinBlocked, GotContext, sync, Synced, HandOff, At
  <2>2. ASSUME NEW t \in Threads, Syscall(t) \/ Sleeping(t) \/ Finish(t)
        PROVE  s.failed = "none"
    BY <2>2 DEF Syscall, markForSleep, syscallLeave, Leave, SyscallReturns, Sleeping, SleepReturns, EventComes,
                notifySleepEnd, Finish, FinishRunning, FinishLeave, FinishEnd, At
  <2>3. BreakStall \/ WatchdogLeave \/ WatchdogNext \/ DriveTime => s.failed = "none"
    BY DEF BreakStall, WatchdogLeave, WatchdogNext, DriveTime
  <2> QED BY <2>1, <2>2, <2>3 DEF Next
<1> QED BY <1>1, <1>2, <1>3, <1>4 DEF Next

\* The invariant holds.
LEMMA AlwaysInv == Safety => []SchedulerInv
<1> QED BY InitKeeps, NextKeeps, PTL DEF Safety

\* A member of a list is in it once.
LEMMA ListOnce ==
  ASSUME NEW S, NEW q, Lists(q, S), NEW e
  PROVE  (Where(q, e) <=> e \in S) /\ (e \in S => Once(q, e))
<1>1. Where(q, e) <=> e \in S
  BY DEF Lists, Where
<1>2. ASSUME e \in S PROVE Once(q, e)
  <2>1. PICK i \in 1 .. Len(q) : q[i] = e
    BY <1>2, ListIs
  <2>2. {j \in DOMAIN q : q[j] = e} = {i}
    BY <2>1, ListIs
  <2> QED BY <2>2, FS_Singleton DEF Once
<1> QED BY <1>1, <1>2

\* What the invariant says of the places.
LEMMA InvPlaces == SchedulerInv => PlacesExact
<1> SUFFICES ASSUME SchedulerInv PROVE PlacesExact
  OBVIOUS
<1>1. /\ s \in Sched /\ Placed(s) /\ FreeListed(s, {}) /\ Bars(s, {})
      /\ Lists(s.outQueue, In(s, "OUT")) /\ Lists(s.sleepQueue, In(s, "SLEEPING")) /\ Lists(s.freeList, Free(s) \ {})
  BY DEF SchedulerInv, Inv, Placed, FreeListed
<1>2. ASSUME NEW c \in Contexts
      PROVE  /\ IF Used(s, c) THEN ~Where(s.freeList, c) /\ s.cid[s.curThread[c]] = c ELSE Once(s.freeList, c)
             /\ s.bar[c] # "out" <=> Used(s, c) /\ Running(s.curThread[c])
  <2>1. c \in Free(s) \ {} <=> ~Used(s, c)
    BY DEF Free
  <2>2. Used(s, c) => s.cid[s.curThread[c]] = c
    BY <1>1 DEF Placed
  <2>3. s.bar[c] # "out" <=> Used(s, c) /\ Running(s.curThread[c])
    BY <1>1 DEF Bars, Driven, Running
  <2>4. (Where(s.freeList, c) <=> c \in Free(s) \ {}) /\ (c \in Free(s) \ {} => Once(s.freeList, c))
    BY <1>1, ListOnce
  <2> QED BY <2>1, <2>2, <2>3, <2>4
<1>3. ASSUME NEW t \in Threads
      PROVE  /\ s.state[t] \in {"RUNNING", "OUT"} <=> \E c \in Contexts : s.curThread[c] = t
             /\ IF s.state[t] = "OUT" THEN Once(s.outQueue, t) ELSE ~Where(s.outQueue, t)
             /\ IF s.state[t] = "SLEEPING" THEN Once(s.sleepQueue, t) ELSE ~Where(s.sleepQueue, t)
  <2>1. s.state[t] \in {"RUNNING", "OUT"} => \E c \in Contexts : s.curThread[c] = t
    BY <1>1, OneContext
  <2>2. (\E c \in Contexts : s.curThread[c] = t) => s.state[t] \in {"RUNNING", "OUT"}
    BY <1>1 DEF Placed, Used
  <2>3. (t \in In(s, "OUT") <=> s.state[t] = "OUT") /\ (t \in In(s, "SLEEPING") <=> s.state[t] = "SLEEPING")
    BY DEF In
  <2>4. (Where(s.outQueue, t) <=> t \in In(s, "OUT")) /\ (t \in In(s, "OUT") => Once(s.outQueue, t))
    BY <1>1, ListOnce
  <2>5. (Where(s.sleepQueue, t) <=> t \in In(s, "SLEEPING")) /\ (t \in In(s, "SLEEPING") => Once(s.sleepQueue, t))
    BY <1>1, ListOnce
  <2> QED BY <2>1, <2>2, <2>3, <2>4, <2>5
<1> QED BY <1>2, <1>3 DEF PlacesExact

\* What it says of those that wait.
LEMMA InvPromises == SchedulerInv => QueuedArePromised
<1> SUFFICES ASSUME SchedulerInv, NEW t \in Threads
             PROVE  LET givers == {u \in Threads : s.handoffThread[u] = t}
                    IN  /\ s.state[t] = "QUEUED" <=> pc[t] = "wait" /\ s.futexWord[t] = 1
                        /\ IF s.state[t] = "QUEUED" /\ ~Where(s.runQueue, t)
                           THEN Cardinality(givers) = 1 /\ \A u \in givers : pc[u] \in {"sync", "handoff"}
                           ELSE givers = {}
                        /\ Where(s.runQueue, t) => s.state[t] = "QUEUED" /\ Once(s.runQueue, t)
  BY DEF QueuedArePromised
<1> DEFINE givers == {u \in Threads : s.handoffThread[u] = t}
<1>1. Promises(s, Nobody) /\ Lists(s.runQueue, ToSet(s.runQueue)) /\ t # Nobody /\ \A u \in Threads : Knows(s, pc, u)
  BY DEF SchedulerInv, Inv, Promises
<1>2. s.state[t] = "QUEUED" <=> pc[t] = "wait" /\ s.futexWord[t] = 1
  BY <1>1 DEF Knows
<1>3. Where(s.runQueue, t) => s.state[t] = "QUEUED" /\ Once(s.runQueue, t)
  BY <1>1, ListOnce DEF Promises, Where
<1>4. ASSUME s.state[t] = "QUEUED", ~Where(s.runQueue, t)
      PROVE  Cardinality(givers) = 1 /\ \A u \in givers : pc[u] \in {"sync", "handoff"}
  <2>1. PICK u \in Threads : s.handoffThread[u] = t
    BY <1>1, <1>4 DEF Promises, Where
  <2>2. givers = {u}
    BY <1>1, <2>1 DEF Promises
  <2>3. \A v \in givers : pc[v] \in {"sync", "handoff"}
    BY <1>1 DEF Knows
  <2> QED BY <2>2, <2>3, FS_Singleton
<1>5. ASSUME ~(s.state[t] = "QUEUED" /\ ~Where(s.runQueue, t)) PROVE givers = {}
  BY <1>1, <1>5 DEF Promises, Where
<1> QED BY <1>2, <1>3, <1>4, <1>5

\* After any sequence of starts, joins, thefts, hand-overs, sleeps, leaves, fake or
\* real, and ends, of any number of threads on any number of contexts: every context
\* is in the free list once or has one thread that knows it, every thread is in
\* exactly the queue its state says, and a context is in the barrier exactly while its
\* thread is RUNNING (schedule, deschedule, schedThread, leave and finish).
THEOREM PlacesAlwaysExact == Safety => []PlacesExact
<1> QED BY AlwaysInv, InvPlaces, PTL

\* A thread that is QUEUED waits with its word at 1 and either is in the run queue or
\* has been promised the context of one thread, which has yet to leave the barrier
\* (waitForContext, schedTick and the handoff of sync): no wake-up is lost.
THEOREM QueuedAlwaysPromised == Safety => []QueuedArePromised
<1> QED BY AlwaysInv, InvPromises, PTL

\* No thread waits in the run queue for a context that is free or OUT, which is why
\* schedTick need not look at the free list ("we will never match anything in the
\* freeList").
THEOREM WorkAlwaysConserved == Safety => []WorkConserved
<1>1. SchedulerInv => WorkConserved
  BY DEF SchedulerInv, Inv, Conserved, Driven, Running, WorkConserved
<1> QED BY <1>1, AlwaysInv, PTL

\* The assertions and panics of the scheduler and of its calls of the barrier cannot
\* fail, but for the two that race with the watchdog: join() of a thread for which the
\* watchdog is about to leave, and the second of two leave()s for one thread.
THEOREM AssertsAlwaysHold == Safety => []AssertsHold
<1>1. SchedulerInv => AssertsHold
  BY DEF SchedulerInv
<1> QED BY <1>1, AlwaysInv, PTL
====
