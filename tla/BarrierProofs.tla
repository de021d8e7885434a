--------------------------- MODULE BarrierProofs ---------------------------
(***************************************************************************)
(* Proofs about the phase barrier, for any finite set of threads, any      *)
(* degree of parallelism and any cleanup period, with or without removals  *)
(* of waiting members: wakeups never race, the counters are right, no more *)
(* than Parallel threads run at once, the run list keeps every member, and *)
(* whoever releases the lock leaves nobody to wake.                        *)
(***************************************************************************)
EXTENDS Barrier, FiniteSetTheorems, SequenceTheorems, WellFoundedInduction, TLAPS

\* What the code's positions say about who holds the lock and about each
\* thread's own state and futex word.  It is inductive by itself: none of it
\* depends on the order of the run list.
Positions ==
    /\ state \in [Threads -> States]
    /\ futexWord \in [Threads -> {0, 1}]
    /\ pc \in [Threads -> Labels]
    /\ target \in Threads \cup {NoThread}
    /\ \A t \in Threads : pc[t] \in Locked => holder = t
    /\ \A t \in Threads : state[t] = "WAITING" => futexWord[t] = 1
    /\ \A t \in Threads : pc[t] = "out" => state[t] \in {"OFFLINE", "LEFT"}
    /\ \A t \in Threads : pc[t] \in {"running", "resume"} => state[t] = "RUNNING"
    /\ \A t \in Threads : pc[t] \in Blocked => state[t] \in {"WAITING", "RUNNING"}
    /\ \A t \in Threads : pc[t] \in Locked =>
          state[t] \in IF op = "leave" THEN {"OFFLINE", "LEFT"} ELSE {"WAITING", "RUNNING"}
    /\ target # NoThread => holder \in Threads /\ pc[holder] \in {"cas1", "cas2", "wake1", "wake2"}
    /\ \A t \in Threads : pc[t] \in {"cas1", "cas2", "wake1", "wake2"} =>
          target \in Threads /\ state[target] = "RUNNING"
    /\ \A t \in Threads : pc[t] \in {"cas1", "cas2"} => futexWord[target] = 1
    /\ \A t \in Threads : pc[t] # "panic"

USE NoThreadAssumption
USE DEF States, Locked, Blocked, Labels, GoTo, Enter, Scanning, Second

\* The initial state satisfies Positions.
LEMMA PositionsInit == Init => Positions
  BY DEF Init, Positions

\* Every step keeps Positions.
LEMMA PositionsStep == Positions /\ [Next]_vars => Positions'
<1> SUFFICES ASSUME Positions, [Next]_vars PROVE Positions'
  OBVIOUS
<1> USE DEF Positions
<1>1. ASSUME NEW t \in Threads, Join(t) PROVE Positions'
  BY <1>1 DEF Join
<1>2. ASSUME NEW t \in Threads, Sync(t) PROVE Positions'
  BY <1>2 DEF Sync
<1>3. ASSUME NEW t \in Threads, Leave(t) PROVE Positions'
  BY <1>3 DEF Leave
<1>4. ASSUME NEW t \in Threads, LeaveWaiting(t) PROVE Positions'
  BY <1>4 DEF LeaveWaiting
<1>5. ASSUME NEW t \in Threads, Skip(t) PROVE Positions'
  BY <1>5 DEF Skip
<1>6. ASSUME NEW t \in Threads, SetRunning(t) PROVE Positions'
  BY <1>6 DEF SetRunning
<1>7. ASSUME NEW t \in Threads, CasWord(t) PROVE Positions'
  BY <1>7 DEF CasWord
<1>8. ASSUME NEW t \in Threads, WakeWord(t) PROVE Positions'
  BY <1>8 DEF WakeWord
<1>9. ASSUME NEW t \in Threads, ScanDone(t) PROVE Positions'
  BY <1>9 DEF ScanDone
<1>10. ASSUME NEW t \in Threads, EndPhase(t) PROVE Positions'
  BY <1>10 DEF EndPhase
<1>11. ASSUME NEW t \in Threads, NotEndPhase(t) PROVE Positions'
  BY <1>11 DEF NotEndPhase
<1>12. ASSUME NEW t \in Threads, Unlock(t) PROVE Positions'
  BY <1>12 DEF Unlock
<1>13. ASSUME NEW t \in Threads, Outside(t) \/ Interrupt(t) PROVE Positions'
  BY <1>13 DEF Outside, Interrupt, CheckState, FutexWait, Retest, Resume, Shared
<1>14. CASE UNCHANGED vars \/ Aborted
  BY <1>14 DEF vars, Aborted
<1> QED
  BY <1>1, <1>2, <1>3, <1>4, <1>5, <1>6, <1>7, <1>8, <1>9, <1>10, <1>11, <1>12, <1>13,
     <1>14 DEF Next, Inside

\* In every reachable state the positions and states of the threads agree.
THEOREM PositionsInvariant == Safety => []Positions
  BY PositionsInit, PositionsStep, PTL DEF Safety

\* A wakeup never races with the sleeper it is for, also when members are removed.
THEOREM WakeupsNeverRace == Safety => []NoWakeupRace
<1>1. Positions => NoWakeupRace
  BY DEF Positions, NoWakeupRace
<1> QED
  BY <1>1, PositionsInvariant, PTL

----------------------------------------------------------------------------
(* The counters. *)

\* The numbers of threads in the two states that are counted.
NumLeft == Cardinality(InState("LEFT"))
NumRunning == Cardinality(InState("RUNNING"))

\* The step gives thread t the state x.
Moves(t, x) == state' = [state EXCEPT ![t] = x]

\* A step that gives thread t the state x takes one from the count of its old
\* state and adds one to the count of x.
LEMMA StateChange ==
  ASSUME NEW t \in Threads, NEW x, Positions, Moves(t, x)
  PROVE  /\ NumLeft \in Nat /\ NumRunning \in Nat
         /\ NumLeft' = NumLeft + (IF x = "LEFT" THEN 1 ELSE 0)
                                - (IF state[t] = "LEFT" THEN 1 ELSE 0)
         /\ NumRunning' = NumRunning + (IF x = "RUNNING" THEN 1 ELSE 0)
                                      - (IF state[t] = "RUNNING" THEN 1 ELSE 0)
<1> USE DEF NumLeft, NumRunning
<1>1. state \in [Threads -> States] /\ state' = [state EXCEPT ![t] = x]
  BY DEF Positions, Moves
<1>2. NumLeft \in Nat /\ NumLeft' = NumLeft + (IF x = "LEFT" THEN 1 ELSE 0)
                                  - (IF state[t] = "LEFT" THEN 1 ELSE 0)
  <2>1. IsFiniteSet(InState("LEFT")) /\ NumLeft \in Nat
    BY ThreadsAssumption, FS_Subset, FS_CardinalityType DEF InState
  <2>2. CASE state[t] = "LEFT" /\ x # "LEFT"
    <3>1. InState("LEFT")' = InState("LEFT") \ {t} /\ t \in InState("LEFT")
      BY <1>1, <2>2 DEF InState
    <3> QED
      BY <2>1, <2>2, <3>1, FS_RemoveElement
  <2>3. CASE state[t] # "LEFT" /\ x = "LEFT"
    <3>1. InState("LEFT")' = InState("LEFT") \cup {t} /\ t \notin InState("LEFT")
      BY <1>1, <2>3 DEF InState
    <3> QED
      BY <2>1, <2>3, <3>1, FS_AddElement
  <2>4. CASE state[t] = "LEFT" /\ x = "LEFT"
    <3>1. InState("LEFT")' = InState("LEFT")
      BY <1>1, <2>4 DEF InState
    <3> QED
      BY <2>1, <2>4, <3>1
  <2>5. CASE state[t] # "LEFT" /\ x # "LEFT"
    <3>1. InState("LEFT")' = InState("LEFT")
      BY <1>1, <2>5 DEF InState
    <3> QED
      BY <2>1, <2>5, <3>1
  <2> QED
    BY <2>2, <2>3, <2>4, <2>5
<1>3. NumRunning \in Nat /\ NumRunning' = NumRunning + (IF x = "RUNNING" THEN 1 ELSE 0)
                                  - (IF state[t] = "RUNNING" THEN 1 ELSE 0)
  <2>1. IsFiniteSet(InState("RUNNING")) /\ NumRunning \in Nat
    BY ThreadsAssumption, FS_Subset, FS_CardinalityType DEF InState
  <2>2. CASE state[t] = "RUNNING" /\ x # "RUNNING"
    <3>1. InState("RUNNING")' = InState("RUNNING") \ {t} /\ t \in InState("RUNNING")
      BY <1>1, <2>2 DEF InState
    <3> QED
      BY <2>1, <2>2, <3>1, FS_RemoveElement
  <2>3. CASE state[t] # "RUNNING" /\ x = "RUNNING"
    <3>1. InState("RUNNING")' = InState("RUNNING") \cup {t} /\ t \notin InState("RUNNING")
      BY <1>1, <2>3 DEF InState
    <3> QED
      BY <2>1, <2>3, <3>1, FS_AddElement
  <2>4. CASE state[t] = "RUNNING" /\ x = "RUNNING"
    <3>1. InState("RUNNING")' = InState("RUNNING")
      BY <1>1, <2>4 DEF InState
    <3> QED
      BY <2>1, <2>4, <3>1
  <2>5. CASE state[t] # "RUNNING" /\ x # "RUNNING"
    <3>1. InState("RUNNING")' = InState("RUNNING")
      BY <1>1, <2>5 DEF InState
    <3> QED
      BY <2>1, <2>5, <3>1
  <2> QED
    BY <2>2, <2>3, <2>4, <2>5
<1> QED
  BY <1>2, <1>3

\* The counters with what their proof needs: the scan stops at Parallel threads.
\* The count of RUNNING threads is one ahead while a wakeup is under way.
Counters == /\ runningThreads \in Int /\ leftThreads \in Int
            /\ NumLeft = leftThreads
            /\ target = NoThread => NumRunning = runningThreads
            /\ target # NoThread => NumRunning = runningThreads + 1
            /\ NumRunning <= Parallel

\* The initial state satisfies Counters.
LEMMA CountersInit == Init => Counters
<1> SUFFICES ASSUME Init PROVE Counters
  OBVIOUS
<1>1. InState("LEFT") = {} /\ InState("RUNNING") = {}
  BY DEF Init, InState
<1>2. NumLeft = 0 /\ NumRunning = 0
  BY <1>1, FS_EmptySet DEF NumLeft, NumRunning
<1> QED
  BY <1>2, ParallelAssumption DEF Init, Counters

\* A step that changes no state, counter or target keeps Counters.
LEMMA CountersFrame ==
  ASSUME Counters, UNCHANGED <<state, counts, target>>
  PROVE  Counters'
  BY DEF Counters, NumLeft, NumRunning, InState, counts

\* Every step keeps Counters.
LEMMA CountersStep == Positions /\ Counters /\ [Next]_vars => Counters'
<1> SUFFICES ASSUME Positions, Counters, [Next]_vars PROVE Counters'
  OBVIOUS
<1> USE ParallelAssumption DEF counts, Counters
<1>1. ASSUME NEW t \in Threads, Join(t) PROVE Counters'
  <2>1. CASE SwapAssert(t)
    <3>1. Moves(t, "WAITING") /\ state[t] \in {"LEFT", "OFFLINE"}
      BY <1>1, <2>1 DEF Join, JoinNew, JoinAgain, Moves
    <3>2. NumLeft' = NumLeft - (IF state[t] = "LEFT" THEN 1 ELSE 0) /\ NumRunning' = NumRunning
      BY <3>1, StateChange
    <3>3. leftThreads' = leftThreads - (IF state[t] = "LEFT" THEN 1 ELSE 0)
      BY <1>1, <2>1 DEF Join, JoinNew, JoinAgain
    <3>4. UNCHANGED <<runningThreads, target>>
      BY <1>1 DEF Join
    <3> QED
      BY <3>2, <3>3, <3>4
  <2>2. CASE ~SwapAssert(t)
    BY <1>1, <2>2, CountersFrame DEF Join
  <2> QED BY <2>1, <2>2
<1>2. ASSUME NEW t \in Threads, Sync(t) PROVE Counters'
  <2>1. Moves(t, "WAITING") /\ state[t] = "RUNNING" /\ target = NoThread
    BY <1>2 DEF Sync, Positions, Moves
  <2>2. NumLeft' = NumLeft /\ NumRunning' = NumRunning - 1
    BY <2>1, StateChange
  <2> QED
    BY <1>2, <2>1, <2>2 DEF Sync
<1>3. ASSUME NEW t \in Threads, Leave(t) PROVE Counters'
  <2>1. Moves(t, "LEFT") /\ state[t] = "RUNNING" /\ target = NoThread
    BY <1>3 DEF Leave, Positions, Moves
  <2>2. NumLeft' = NumLeft + 1 /\ NumRunning' = NumRunning - 1
    BY <2>1, StateChange
  <2> QED
    BY <1>3, <2>1, <2>2 DEF Leave
<1>4. ASSUME NEW t \in Threads, LeaveWaiting(t) PROVE Counters'
  <2>1. Moves(t, "LEFT") /\ state[t] = "WAITING"
    BY <1>4 DEF LeaveWaiting, Moves
  <2>2. NumLeft' = NumLeft + 1 /\ NumRunning' = NumRunning
    BY <2>1, StateChange
  <2> QED
    BY <1>4, <2>2 DEF LeaveWaiting
<1>5. ASSUME NEW t \in Threads, Skip(t) PROVE Counters'
  BY <1>5, CountersFrame DEF Skip
<1>6. ASSUME NEW t \in Threads, SetRunning(t) PROVE Counters'
  <2>1. target = NoThread /\ runningThreads < Parallel
    BY <1>6 DEF SetRunning, Positions, MoreToWake
  <2>2. PICK w \in Threads : state[w] = "WAITING" /\ target' = w /\ Moves(w, "RUNNING")
    BY <1>6 DEF SetRunning, Moves
  <2>3. NumLeft' = NumLeft /\ NumRunning' = NumRunning + 1
    BY <2>2, StateChange
  <2>4. UNCHANGED <<runningThreads, leftThreads>>
    BY <1>6 DEF SetRunning
  <2> QED
    BY <2>1, <2>2, <2>3, <2>4
<1>7. ASSUME NEW t \in Threads, CasWord(t) PROVE Counters'
  BY <1>7, CountersFrame DEF CasWord
<1>8. ASSUME NEW t \in Threads, WakeWord(t) PROVE Counters'
  <2>1. target # NoThread /\ target' = NoThread
    BY <1>8 DEF WakeWord, Positions
  <2>2. NumLeft' = NumLeft /\ NumRunning' = NumRunning
    BY <1>8 DEF WakeWord, NumLeft, NumRunning, InState
  <2>3. runningThreads' = runningThreads + 1 /\ leftThreads' = leftThreads
    BY <1>8 DEF WakeWord
  <2> QED
    BY <2>1, <2>2, <2>3
<1>9. ASSUME NEW t \in Threads, ScanDone(t) PROVE Counters'
  BY <1>9, CountersFrame DEF ScanDone
<1>10. ASSUME NEW t \in Threads, EndPhase(t) PROVE Counters'
  <2>1. CASE phaseCount = 0
    <3>1. state' = [u \in Threads |-> IF state[u] = "LEFT" THEN "OFFLINE" ELSE state[u]]
      BY <1>10, <2>1 DEF EndPhase
    <3>2. leftThreads' = 0 /\ UNCHANGED <<runningThreads, target>>
      BY <1>10, <2>1 DEF EndPhase
    <3>3. InState("LEFT")' = {} /\ InState("RUNNING")' = InState("RUNNING")
      BY <3>1 DEF InState, Positions
    <3>4. NumLeft' = 0 /\ NumRunning' = NumRunning
      BY <3>3, FS_EmptySet DEF NumLeft, NumRunning
    <3> QED
      BY <3>2, <3>4
  <2>2. CASE phaseCount # 0
    BY <1>10, <2>2, CountersFrame DEF EndPhase
  <2> QED BY <2>1, <2>2
<1>11. ASSUME NEW t \in Threads, NotEndPhase(t) PROVE Counters'
  BY <1>11, CountersFrame DEF NotEndPhase
<1>12. ASSUME NEW t \in Threads, Unlock(t) PROVE Counters'
  BY <1>12, CountersFrame DEF Unlock
<1>13. ASSUME NEW t \in Threads, Outside(t) \/ Interrupt(t) PROVE Counters'
  BY <1>13, CountersFrame
     DEF Outside, Interrupt, CheckState, FutexWait, Retest, Resume, Shared
<1>14. CASE UNCHANGED vars \/ Aborted
  BY <1>14, CountersFrame DEF vars, Aborted
<1> QED
  BY <1>1, <1>2, <1>3, <1>4, <1>5, <1>6, <1>7, <1>8, <1>9, <1>10, <1>11, <1>12, <1>13,
     <1>14 DEF Next, Inside

\* In every reachable state the counters are right.
THEOREM CountersInvariant == Safety => []Counters
  BY CountersInit, CountersStep, PositionsInvariant, PTL DEF Safety

\* runningThreads and leftThreads are the sizes of the sets they count.
THEOREM CountersAlwaysMatch == Safety => []CountersMatch
<1>1. Counters => CountersMatch
  BY DEF Counters, NumLeft, NumRunning, CountersMatch
<1> QED
  BY <1>1, CountersInvariant, PTL

\* No more than Parallel threads are RUNNING, at every instant.
THEOREM ParallelismIsControlled == Safety => []ParallelismControl
<1>1. Counters => ParallelismControl
  BY DEF Counters, NumLeft, NumRunning, ParallelismControl
<1> QED
  BY <1>1, CountersInvariant, PTL

----------------------------------------------------------------------------
(* The run list. *)

\* A non-empty set of numbers has a least one.
LEMMA LeastNatural ==
  ASSUME NEW T \in SUBSET Nat, T # {}
  PROVE  \E x \in T : \A y \in T : x <= y
<1> DEFINE R == {p \in Nat \X Nat : p[1] < p[2]}
<1>1. R = OpToRel(<, Nat)
  BY DEF OpToRel
<1>2. IsWellFoundedOn(R, Nat)
  BY <1>1, NatLessThanWellFounded
<1>3. \E x \in T : \A y \in T : ~(<<y, x>> \in R)
  <2> HIDE DEF R
  <2> QED BY <1>2, WFMin
<1>4. \A x, y \in T : <<y, x>> \notin R => x <= y
  OBVIOUS
<1> QED
  BY <1>3, <1>4

\* A list without repetitions has as many members as entries.
LEMMA ListLength ==
  ASSUME NEW S, NEW l \in Seq(S), IsInjective(l)
  PROVE  IsFiniteSet(ToSet(l)) /\ Cardinality(ToSet(l)) = Len(l)
<1>1. l \in [1 .. Len(l) -> ToSet(l)] /\ Len(l) \in Nat
  BY DEF ToSet
<1>2. l \in Bijection(1 .. Len(l), ToSet(l))
  BY <1>1 DEF Bijection, Injection, Surjection, IsInjective, ToSet
<1>3. ExistsBijection(1 .. Len(l), ToSet(l))
  BY <1>2 DEF ExistsBijection
<1>4. IsFiniteSet(1 .. Len(l)) /\ Cardinality(1 .. Len(l)) = Len(l)
  <2>1. 0 \in Int /\ 1 \in Int /\ Len(l) \in Int
    BY <1>1
  <2>2. IsFiniteSet(1 .. Len(l)) /\ Cardinality(1 .. Len(l)) = IF 1 > Len(l) THEN 0 ELSE Len(l) - 1 + 1
    BY <2>1, FS_Interval
  <2> QED
    BY <1>1, <2>2
<1> QED
  BY <1>3, <1>4, FS_Bijection

\* The values of the list, its cursor and the places.
ListType ==
    /\ runList \in Seq(Threads)
    /\ cur \in 1 .. Len(runList) + 1
    /\ lastIdx \in [Threads -> Nat \ {0}]

\* A thread that runs or has left is where its lastIdx says: a running one because it
\* may leave.
InPlace(t) == lastIdx[t] \in DOMAIN runList /\ runList[lastIdx[t]] = t

ListInv ==
    /\ ListType
    /\ IsInjective(runList)
    /\ ToSet(runList) = Threads \ InState("OFFLINE")
    /\ ~kills => \A t \in Threads : state[t] \in {"RUNNING", "LEFT"} => InPlace(t)

(* The cleanup: what holds of its list and its index after n rounds. *)
CleanAfter(lst, idx, n) ==
    /\ lst \in Seq(Threads) /\ idx \in Nat \ {0}
    /\ idx + Len(runList) = n + Len(lst) + 1
    /\ IsInjective(lst)
    /\ ToSet(lst) \subseteq ToSet(runList)
    /\ \A t \in ToSet(runList) : state[t] # "LEFT" => t \in ToSet(lst)
    /\ \A i \in 1 .. idx - 1 : state[lst[i]] # "LEFT"

Places == [Threads -> Nat \ {0}]

\* The result of n rounds.
Cleans(acc, n) == \E M, m : \E p \in Places :
                     acc = [idx |-> m, lst |-> M, pos |-> p] /\ CleanAfter(M, m, n)

\* A round adds an entry that stays, or takes one away that has left.
LEMMA CleanupRoundCleans ==
  ASSUME runList \in Seq(Threads), NEW n \in 0 .. Len(runList) - 1, NEW acc, Cleans(acc, n)
  PROVE  Cleans(CleanupRound(acc), n + 1)
<1>a. PICK L, k : \E p \in Places : acc = [idx |-> k, lst |-> L, pos |-> p] /\ CleanAfter(L, k, n)
  BY DEF Cleans
<1>b. PICK pos \in Places : acc = [idx |-> k, lst |-> L, pos |-> pos] /\ CleanAfter(L, k, n)
  BY <1>a
<1>c. CleanAfter(L, k, n)
  BY <1>b
<1> DEFINE last == L[Len(L)]  round == CleanupRound(acc)
<1>1. L \in Seq(Threads) /\ k \in Nat \ {0} /\ k + Len(runList) = n + Len(L) + 1
  BY <1>c DEF CleanAfter
<1>2. Len(L) \in Nat /\ Len(runList) \in Nat
  BY <1>1
<1>3. k \in 1 .. Len(L)
  BY <1>1, <1>2
<1>4. last \in Threads /\ L[k] \in Threads
  BY <1>1, <1>2, <1>3
<1> HIDE DEF last
<1>5. CASE state[L[k]] = "LEFT"
  <2> DEFINE M == [L EXCEPT ![k] = last]  N == Front(M)
  <2>1. M \in Seq(Threads) /\ Len(M) = Len(L) /\ \A i \in 1 .. Len(L) : M[i] = IF i = k THEN last ELSE L[i]
    BY <1>1, <1>2, <1>3, <1>4
  <2>2. N = SubSeq(M, 1, Len(L) - 1)
    BY <2>1 DEF Front
  <2> HIDE DEF M
  <2>3. N \in Seq(Threads) /\ Len(N) = Len(L) - 1 /\ \A i \in 1 .. Len(L) - 1 : N[i] = M[i]
    BY <1>2, <1>3, <2>1, <2>2, SubSeqProperties
  <2>4. \A i \in 1 .. Len(L) - 1 : N[i] = IF i = k THEN last ELSE L[i]
    <3>1. \A i \in 1 .. Len(L) - 1 : i \in 1 .. Len(L)
      BY <1>2
    <3> QED
      BY <2>1, <2>3, <3>1
  <2>5. round = [idx |-> k, lst |-> N, pos |-> [pos EXCEPT ![last] = k]]
    BY <1>5, <1>b DEF CleanupRound, last, M
  <2>6. [pos EXCEPT ![last] = k] \in Places
    BY <1>1, <1>4, <1>b DEF Places
  <2> HIDE DEF N
  <2>7. DOMAIN L = 1 .. Len(L) /\ DOMAIN N = 1 .. Len(L) - 1
    BY <1>1, <1>2, <2>3
  <2>8. IsInjective(N)
    <3>1. \A i, j \in 1 .. Len(L) : L[i] = L[j] => i = j
      BY <1>c, <2>7 DEF CleanAfter, IsInjective
    <3>2. \A i, j \in 1 .. Len(L) - 1 : N[i] = N[j] => i = j
      <4> SUFFICES ASSUME NEW i \in 1 .. Len(L) - 1, NEW j \in 1 .. Len(L) - 1, N[i] = N[j] PROVE i = j
        OBVIOUS
      <4>1. i \in 1 .. Len(L) /\ j \in 1 .. Len(L) /\ Len(L) \in 1 .. Len(L) /\ i # Len(L) /\ j # Len(L)
        BY <1>2, <1>3
      <4>2. N[i] = (IF i = k THEN L[Len(L)] ELSE L[i]) /\ N[j] = IF j = k THEN L[Len(L)] ELSE L[j]
        BY <2>4 DEF last
      <4> QED
        BY <3>1, <4>1, <4>2
    <3> QED
      BY <2>7, <3>2 DEF IsInjective
  <2>9. \A i \in 1 .. Len(L) - 1 : N[i] \in ToSet(L)
    <3>1. \A i \in 1 .. Len(L) : L[i] \in ToSet(L)
      BY <2>7 DEF ToSet
    <3> QED
      BY <1>2, <1>3, <2>4, <3>1 DEF last
  <2>10. ToSet(N) \subseteq ToSet(L)
    BY <2>7, <2>9 DEF ToSet
  <2>11. \A t \in ToSet(L) : state[t] # "LEFT" => t \in ToSet(N)
    <3> SUFFICES ASSUME NEW i \in 1 .. Len(L), state[L[i]] # "LEFT" PROVE \E j \in 1 .. Len(L) - 1 : N[j] = L[i]
      BY <2>7 DEF ToSet
    <3>1. i # k
      BY <1>5
    <3>2. CASE i = Len(L)
      <4>1. k \in 1 .. Len(L) - 1 /\ N[k] = L[i]
        BY <1>2, <1>3, <2>4, <3>1, <3>2 DEF last
      <4> QED
        BY <4>1
    <3>3. CASE i # Len(L)
      <4>1. i \in 1 .. Len(L) - 1 /\ N[i] = L[i]
        BY <1>2, <2>4, <3>1, <3>3
      <4> QED
        BY <4>1
    <3> QED BY <3>2, <3>3
  <2>12. \A i \in 1 .. k - 1 : state[N[i]] # "LEFT"
    <3>1. \A i \in 1 .. k - 1 : N[i] = L[i]
      BY <1>2, <1>3, <2>4
    <3> QED
      BY <1>c, <3>1 DEF CleanAfter
  <2>13. k + Len(runList) = (n + 1) + Len(N) + 1
    BY <1>1, <1>2, <2>3
  <2>14. CleanAfter(N, k, n + 1)
    <3>1. ToSet(L) \subseteq ToSet(runList) /\ \A t \in ToSet(runList) : state[t] # "LEFT" => t \in ToSet(L)
      BY <1>c DEF CleanAfter
    <3>2. ToSet(N) \subseteq ToSet(runList) /\ \A t \in ToSet(runList) : state[t] # "LEFT" => t \in ToSet(N)
      BY <2>10, <2>11, <3>1
    <3> QED
      BY <1>1, <2>3, <2>8, <2>12, <2>13, <3>2 DEF CleanAfter
  <2> QED
    BY <2>5, <2>6, <2>14 DEF Cleans
<1>6. CASE state[L[k]] # "LEFT"
  <2>1. round = [idx |-> k + 1, lst |-> L, pos |-> pos]
    BY <1>6, <1>b DEF CleanupRound
  <2>2. \A i \in 1 .. (k + 1) - 1 : state[L[i]] # "LEFT"
    <3> SUFFICES ASSUME NEW i \in 1 .. (k + 1) - 1 PROVE state[L[i]] # "LEFT"
      OBVIOUS
    <3>1. i = k \/ i \in 1 .. k - 1
      BY <1>1
    <3> QED
      BY <1>6, <1>c, <3>1 DEF CleanAfter
  <2>3. k + 1 \in Nat \ {0} /\ (k + 1) + Len(runList) = (n + 1) + Len(L) + 1
    BY <1>1, <1>2
  <2>4. CleanAfter(L, k + 1, n + 1)
    BY <1>c, <2>2, <2>3 DEF CleanAfter
  <2> QED
    BY <1>b, <2>1, <2>4 DEF Cleans
<1> QED
  BY <1>5, <1>6

\* The rounds are well defined.
LEMMA CleanupRoundsDef ==
  ASSUME ListType
  PROVE  \A n \in 0 .. Len(runList) :
            CleanupRounds[n] = IF n = 0 THEN [idx |-> 1, lst |-> runList, pos |-> lastIdx]
                                        ELSE CleanupRound(CleanupRounds[n - 1])
<1> DEFINE start == [idx |-> 1, lst |-> runList, pos |-> lastIdx]
           Is(f, m) == f = [n \in 0 .. m |-> IF n = 0 THEN start ELSE CleanupRound(f[n - 1])]
           T == {m \in Nat : ~ \E f : Is(f, m)}
<1> HIDE DEF start
<1>1. T = {}
  <2> SUFFICES ASSUME T # {} PROVE FALSE
    OBVIOUS
  <2>1. T \in SUBSET Nat
    OBVIOUS
  <2>2. PICK m \in T : \A y \in T : m <= y
    BY <2>1, LeastNatural
  <2>3. CASE m = 0
    <3>1. Is([n \in 0 .. 0 |-> start], 0)
      OBVIOUS
    <3> QED
      BY <2>3, <3>1
  <2>4. CASE m # 0
    <3>1. m \in Nat /\ m - 1 \in Nat /\ ~(m <= m - 1)
      BY <2>1, <2>2, <2>4
    <3>6. m - 1 \notin T
      BY <2>2, <3>1
    <3>2. PICK g : Is(g, m - 1)
      BY <3>1, <3>6
    <3> DEFINE f == [n \in 0 .. m |-> IF n = m THEN CleanupRound(g[m - 1]) ELSE g[n]]
    <3>3. \A n \in 0 .. m - 1 : g[n] = IF n = 0 THEN start ELSE CleanupRound(g[n - 1])
      BY <3>1, <3>2
    <3>4. \A n \in 0 .. m : f[n] = IF n = 0 THEN start ELSE CleanupRound(f[n - 1])
      <4> SUFFICES ASSUME NEW n \in 0 .. m PROVE f[n] = IF n = 0 THEN start ELSE CleanupRound(f[n - 1])
        OBVIOUS
      <4>1. CASE n = 0
        <5>1. f[n] = g[0]
          BY <2>4, <4>1
        <5> QED
          BY <3>1, <3>3, <4>1, <5>1
      <4>2. CASE n # 0
        <5>1. n - 1 \in 0 .. m - 1 /\ n - 1 # m
          BY <2>2, <4>2
        <5>2. f[n - 1] = g[n - 1]
          BY <5>1
        <5>3. f[n] = CleanupRound(g[n - 1])
          BY <3>3, <4>2, <5>1
        <5> QED
          BY <4>2, <5>2, <5>3
      <4> QED BY <4>1, <4>2
    <3>5. Is(f, m)
      <4> DEFINE h == [n \in 0 .. m |-> IF n = 0 THEN start ELSE CleanupRound(f[n - 1])]
      <4>1. \A n \in 0 .. m : f[n] = h[n]
        BY <3>4
      <4> QED
        BY <4>1
    <3> QED
      BY <3>5
  <2> QED BY <2>3, <2>4
<1>2. Len(runList) \in Nat
  BY DEF ListType
<1>3. \E f : Is(f, Len(runList))
  BY <1>1, <1>2
<1>4. Is(CleanupRounds, Len(runList))
  BY <1>3 DEF CleanupRounds, start
<1> QED
  BY <1>4 DEF start

\* The cleanup keeps whoever has not left, once.
LEMMA CleanupCleans ==
  ASSUME ListInv
  PROVE  /\ Cleanup.lst \in Seq(Threads) /\ IsInjective(Cleanup.lst)
         /\ Cleanup.pos \in [Threads -> Nat \ {0}]
         /\ ToSet(Cleanup.lst) = ToSet(runList) \ InState("LEFT")
<1>1. ListType /\ runList \in Seq(Threads) /\ lastIdx \in Places
  BY DEF ListInv, ListType, Places
<1>2. Len(runList) \in Nat
  BY <1>1
<1> DEFINE C(n) == CleanupRounds[n]
           Good(n) == Cleans(C(n), n)
           T == {n \in 0 .. Len(runList) : ~Good(n)}
<1>3. Good(0)
  <2>1. C(0) = [idx |-> 1, lst |-> runList, pos |-> lastIdx]
    BY <1>1, <1>2, CleanupRoundsDef
  <2> HIDE DEF C
  <2>2. CleanAfter(runList, 1, 0)
    BY <1>1, <1>2 DEF CleanAfter, ListInv
  <2> QED
    BY <1>1, <2>1, <2>2 DEF Cleans
<1>4. ASSUME NEW n \in 0 .. Len(runList) - 1, Good(n) PROVE Good(n + 1)
  <2>1. n + 1 \in 0 .. Len(runList) /\ n + 1 # 0 /\ (n + 1) - 1 = n
    BY <1>2
  <2>2. C(n + 1) = CleanupRound(C(n))
    BY <1>1, <2>1, CleanupRoundsDef
  <2> HIDE DEF C
  <2>3. Cleans(C(n), n) /\ runList \in Seq(Threads)
    BY <1>1, <1>4
  <2>4. Cleans(CleanupRound(C(n)), n + 1)
    BY <2>3, CleanupRoundCleans
  <2> QED
    BY <2>2, <2>4
<1> HIDE DEF Good
<1>5. T = {}
  <2> SUFFICES ASSUME T # {} PROVE FALSE
    OBVIOUS
  <2>1. T \in SUBSET Nat
    BY <1>2
  <2>2. PICK m \in T : \A y \in T : m <= y
    BY <2>1, LeastNatural
  <2>3. m # 0 /\ m \in 0 .. Len(runList) /\ ~Good(m)
    BY <1>3, <2>2
  <2>4. m - 1 \in 0 .. Len(runList) - 1 /\ m - 1 \in 0 .. Len(runList) /\ m - 1 + 1 = m /\ ~(m <= m - 1)
    BY <1>2, <2>3
  <2>5. Good(m - 1)
    BY <2>2, <2>4
  <2> QED
    BY <1>4, <2>3, <2>4, <2>5
<1>6. \E M, m : \E p \in Places :
         Cleanup = [idx |-> m, lst |-> M, pos |-> p] /\ CleanAfter(M, m, Len(runList))
  <2>1. Good(Len(runList))
    BY <1>2, <1>5
  <2> QED
    BY <2>1 DEF Good, Cleans, Cleanup
<1>7. PICK M, m : \E p \in Places :
         Cleanup = [idx |-> m, lst |-> M, pos |-> p] /\ CleanAfter(M, m, Len(runList))
  BY <1>6
<1>8. PICK p \in Places : Cleanup = [idx |-> m, lst |-> M, pos |-> p] /\ CleanAfter(M, m, Len(runList))
  BY <1>7
<1>9. Cleanup.lst = M /\ Cleanup.pos = p
  BY <1>8
<1>10. M \in Seq(Threads) /\ m + Len(runList) = Len(runList) + Len(M) + 1 /\ m \in Nat
  BY <1>8 DEF CleanAfter
<1>11. DOMAIN M = 1 .. Len(M) /\ Len(M) \in Nat
  BY <1>10
<1>12. m - 1 = Len(M)
  BY <1>2, <1>10, <1>11
<1>13. \A i \in DOMAIN M : state[M[i]] # "LEFT"
  BY <1>8, <1>11, <1>12 DEF CleanAfter
<1>14. ToSet(M) \cap InState("LEFT") = {}
  BY <1>13 DEF ToSet, InState
<1>15. ToSet(runList) \ InState("LEFT") \subseteq ToSet(M)
  <2>1. ToSet(runList) \subseteq Threads
    BY DEF ListInv
  <2> QED
    BY <1>8, <2>1 DEF CleanAfter, InState
<1>16. ToSet(M) \subseteq ToSet(runList) /\ IsInjective(M)
  BY <1>8 DEF CleanAfter
<1> QED
  BY <1>8, <1>9, <1>10, <1>14, <1>15, <1>16 DEF Places

\* The initial state satisfies ListInv.
LEMMA ListInit == Init => ListInv
<1> SUFFICES ASSUME Init PROVE ListInv
  OBVIOUS
<1>1. runList = <<>> /\ cur = 1 /\ Len(runList) = 0 /\ DOMAIN runList = {}
  BY DEF Init
<1>2. ListType
  BY <1>1 DEF Init, ListType
<1>3. IsInjective(runList) /\ ToSet(runList) = {}
  BY <1>1 DEF IsInjective, ToSet
<1>4. InState("OFFLINE") = Threads /\ \A t \in Threads : state[t] = "OFFLINE"
  BY DEF Init, InState
<1> QED
  BY <1>2, <1>3, <1>4 DEF ListInv

\* A thread other than a RUNNING or LEFT one may take any state but OFFLINE, where the list
\* and the places stay.
LEMMA ListFrame ==
  ASSUME ListInv, UNCHANGED <<runList, lastIdx, kills>>, cur' \in 1 .. Len(runList) + 1,
         InState("OFFLINE")' = InState("OFFLINE"),
         ~kills => \A t \in Threads : state'[t] \in {"RUNNING", "LEFT"} => state[t] \in {"RUNNING", "LEFT"}
  PROVE  ListInv'
  BY DEF ListInv, ListType, InPlace

\* JoinAgain swaps two entries, or none.
LEMMA ListRejoin ==
  ASSUME Positions, ListInv, NEW t \in Threads, JoinAgain(t), SwapAssert(t), UNCHANGED kills,
         state' = [state EXCEPT ![t] = "WAITING"]
  PROVE  ListInv'
<1>1. /\ runList \in Seq(Threads) /\ Len(runList) \in Nat /\ cur \in 1 .. Len(runList) + 1
      /\ lastIdx \in Places /\ DOMAIN runList = 1 .. Len(runList)
  BY DEF ListInv, ListType, Places
<1>2. state[t] = "LEFT" /\ state'[t] = "WAITING" /\ \A u \in Threads : u # t => state'[u] = state[u]
  BY DEF JoinAgain, Positions
<1>3. InState("OFFLINE")' = InState("OFFLINE")
  BY <1>2 DEF InState
<1>4. CASE cur > lastIdx[t]
  <2> DEFINE i == lastIdx[t]  j == cur - 1  other == runList[j]
  <2>1. i \in 1 .. Len(runList) /\ j \in 1 .. Len(runList) /\ runList[i] = t /\ other \in Threads
    BY <1>1, <1>2, <1>4 DEF SwapAssert, Places
  <2>2. /\ cur' = j /\ runList' = [runList EXCEPT ![i] = other, ![j] = t]
        /\ lastIdx' = [lastIdx EXCEPT ![other] = i, ![t] = j]
    BY <1>4 DEF JoinAgain
  <2> HIDE DEF i, j, other
  <2>3. /\ runList' \in Seq(Threads) /\ Len(runList') = Len(runList) /\ DOMAIN runList' = DOMAIN runList
        /\ \A k \in 1 .. Len(runList) : runList'[k] = IF k = j THEN t ELSE IF k = i THEN other ELSE runList[k]
    BY <1>1, <2>1, <2>2
  <2>4. runList[j] = other /\ \A k, l \in 1 .. Len(runList) : runList[k] = runList[l] => k = l
    BY <1>1 DEF ListInv, IsInjective, other
  <2>5. \A k, l \in 1 .. Len(runList) : runList'[k] = runList'[l] => k = l
    BY <2>1, <2>3, <2>4
  <2>6. \A u \in Threads : (\E k \in 1 .. Len(runList) : runList'[k] = u)
                              <=> \E k \in 1 .. Len(runList) : runList[k] = u
    <3> SUFFICES ASSUME NEW u \in Threads
                 PROVE (\E k \in 1 .. Len(runList) : runList'[k] = u) <=> \E k \in 1 .. Len(runList) : runList[k] = u
      OBVIOUS
    <3>1. ASSUME NEW k \in 1 .. Len(runList), runList'[k] = u PROVE \E l \in 1 .. Len(runList) : runList[l] = u
      BY <2>1, <2>3, <2>4, <3>1
    <3>2. ASSUME NEW k \in 1 .. Len(runList), runList[k] = u PROVE \E l \in 1 .. Len(runList) : runList'[l] = u
      <4>1. CASE k = i
        BY <2>1, <2>3, <3>2, <4>1
      <4>2. CASE k = j /\ k # i
        <5>1. runList'[i] = u
          BY <2>1, <2>3, <2>4, <3>2, <4>2
        <5> QED
          BY <2>1, <5>1
      <4>3. CASE k # i /\ k # j
        BY <2>3, <3>2, <4>3
      <4> QED BY <4>1, <4>2, <4>3
    <3> QED BY <3>1, <3>2
  <2>7. ToSet(runList') = ToSet(runList)
    <3>1. ToSet(runList) = {u \in Threads : \E k \in 1 .. Len(runList) : runList[k] = u}
      BY <1>1 DEF ToSet
    <3>2. DOMAIN runList' = 1 .. Len(runList) /\ \A k \in 1 .. Len(runList) : runList'[k] \in Threads
      BY <1>1, <2>1, <2>3
    <3>3. ToSet(runList') = {u \in Threads : \E k \in 1 .. Len(runList) : runList'[k] = u}
      BY <3>2 DEF ToSet
    <3> QED
      BY <2>6, <3>1, <3>3
  <2>8. lastIdx' \in Places /\ \A u \in Threads : lastIdx'[u] = IF u = t THEN j ELSE IF u = other THEN i ELSE lastIdx[u]
    <3>1. i \in Nat \ {0} /\ j \in Nat \ {0}
      BY <1>1, <2>1
    <3>2. lastIdx \in [Threads -> Nat \ {0}]
      BY <1>1 DEF Places
    <3> DEFINE L1 == [lastIdx EXCEPT ![other] = i]
    <3>3. L1 \in [Threads -> Nat \ {0}] /\ \A u \in Threads : L1[u] = IF u = other THEN i ELSE lastIdx[u]
      BY <2>1, <3>1, <3>2
    <3>4. lastIdx' = [L1 EXCEPT ![t] = j]
      BY <2>2
    <3> HIDE DEF L1
    <3> QED
      BY <3>1, <3>3, <3>4 DEF Places
  <2>9. ASSUME ~kills, NEW u \in Threads, state'[u] \in {"RUNNING", "LEFT"} PROVE InPlace(u)'
    <3>1. u # t /\ InPlace(u)
      BY <1>2, <2>9 DEF ListInv
    <3>2. CASE u = other
      BY <1>1, <2>1, <2>3, <2>4, <2>8, <3>1, <3>2 DEF InPlace
    <3>3. CASE u # other
      BY <1>1, <2>1, <2>3, <2>4, <2>8, <3>1, <3>3 DEF InPlace
    <3> QED BY <3>2, <3>3
  <2>10. ListType'
    <3>1. cur' \in 1 .. Len(runList') + 1
      BY <1>1, <2>1, <2>2, <2>3
    <3> QED
      BY <2>3, <2>8, <3>1 DEF ListType, Places
  <2> QED
    BY <1>1, <1>3, <2>3, <2>5, <2>7, <2>9, <2>10 DEF ListInv, IsInjective
<1>5. CASE ~(cur > lastIdx[t])
  <2>1. UNCHANGED <<runList, lastIdx, cur>>
    BY <1>5 DEF JoinAgain
  <2> QED
    BY <1>1, <1>2, <1>3, <2>1, ListFrame
<1> QED
  BY <1>4, <1>5

\* JoinNew appends a thread that is not in the list.
LEMMA ListNew ==
  ASSUME Positions, ListInv, NEW t \in Threads, JoinNew(t), UNCHANGED kills,
         state' = [state EXCEPT ![t] = "WAITING"]
  PROVE  ListInv'
<1>1. /\ runList \in Seq(Threads) /\ Len(runList) \in Nat /\ cur \in 1 .. Len(runList) + 1
      /\ lastIdx \in Places /\ DOMAIN runList = 1 .. Len(runList)
  BY DEF ListInv, ListType, Places
<1>2. state[t] = "OFFLINE" /\ state'[t] = "WAITING" /\ \A u \in Threads : u # t => state'[u] = state[u]
  BY DEF JoinNew, Positions
<1>3. InState("OFFLINE")' = InState("OFFLINE") \ {t} /\ t \in InState("OFFLINE")
  BY <1>2 DEF InState
<1>4. t \notin ToSet(runList)
  BY <1>3 DEF ListInv
<1>5. UNCHANGED <<cur, lastIdx>> /\ runList' = Append(runList, t)
  BY DEF JoinNew
<1>6. /\ runList' \in Seq(Threads) /\ Len(runList') = Len(runList) + 1 /\ DOMAIN runList' = 1 .. Len(runList) + 1
      /\ \A k \in 1 .. Len(runList) : runList'[k] = runList[k]
      /\ runList'[Len(runList) + 1] = t
  BY <1>1, <1>5
<1>7. \A k \in 1 .. Len(runList) + 1 : k \in 1 .. Len(runList) \/ k = Len(runList) + 1
  BY <1>1
<1>8. ToSet(runList') = ToSet(runList) \cup {t}
  BY <1>1, <1>6, <1>7 DEF ToSet
<1>9. \A k \in 1 .. Len(runList) : runList[k] # t
  BY <1>1, <1>4 DEF ToSet
<1>10. IsInjective(runList')
  BY <1>1, <1>6, <1>7, <1>9 DEF ListInv, IsInjective
<1>11. ~kills => \A u \in Threads : state'[u] \in {"RUNNING", "LEFT"} => InPlace(u)'
  BY <1>1, <1>2, <1>5, <1>6 DEF ListInv, InPlace
<1>12. ListType'
  BY <1>1, <1>5, <1>6 DEF ListType, Places
<1> QED
  BY <1>3, <1>8, <1>10, <1>11, <1>12 DEF ListInv

\* A shuffle puts every thread that it moves where its lastIdx says.
LEMMA ListShuffled ==
  ASSUME NEW l \in Seq(Threads), IsInjective(l), NEW s \in Shuffles(l), NEW pos \in Places
  PROVE  /\ s \in Seq(Threads) /\ IsInjective(s) /\ ToSet(s) = ToSet(l)
         /\ Shuffled(l, s, pos) \in Places
         /\ \A t \in Threads : pos[t] \in DOMAIN l /\ l[pos[t]] = t =>
               LET p == Shuffled(l, s, pos)[t] IN p \in DOMAIN s /\ s[p] = t
<1>1. DOMAIN l = 1 .. Len(l) /\ Len(l) \in Nat
  OBVIOUS
<1>2. s \in [1 .. Len(l) -> Threads] /\ IsInjective(s) /\ ToSet(s) = ToSet(l)
  BY <1>1 DEF Shuffles
<1>3. s \in Seq(Threads) /\ DOMAIN s = 1 .. Len(l)
  BY <1>1, <1>2, SeqDef
<1>4. ASSUME NEW t \in ToSet(s) PROVE IndexIn(s, t) \in DOMAIN s /\ s[IndexIn(s, t)] = t
  BY <1>4 DEF ToSet, IndexIn
<1> DEFINE P(t) == IF t \in ToSet(s) /\ ~(l[1] = t /\ s[1] = t) THEN IndexIn(s, t) ELSE pos[t]
<1>5. Shuffled(l, s, pos) = [t \in Threads |-> P(t)]
  BY DEF Shuffled
<1>6. ASSUME NEW t \in Threads PROVE P(t) \in Nat \ {0}
  BY <1>3, <1>4 DEF Places
<1>7. ASSUME NEW t \in Threads, pos[t] \in DOMAIN l, l[pos[t]] = t PROVE P(t) \in DOMAIN s /\ s[P(t)] = t
  <2>1. t \in ToSet(s)
    BY <1>2, <1>7 DEF ToSet
  <2>2. CASE l[1] = t /\ s[1] = t
    <3>1. 1 \in DOMAIN l /\ pos[t] \in DOMAIN l
      BY <1>1, <1>7
    <3>2. pos[t] = 1
      BY <1>7, <2>2, <3>1 DEF IsInjective
    <3> QED
      BY <1>1, <1>3, <2>2, <3>1, <3>2
  <2>3. CASE ~(l[1] = t /\ s[1] = t)
    BY <1>4, <2>1, <2>3
  <2> QED BY <2>2, <2>3
<1> QED
  BY <1>2, <1>3, <1>5, <1>6, <1>7 DEF Places

\* At the end of a phase nobody runs.
LEMMA NobodyRuns ==
  ASSUME Positions, Counters, runningThreads = 0, target = NoThread
  PROVE  \A t \in Threads : state[t] # "RUNNING"
<1>1. NumRunning = 0
  BY DEF Counters
<1>2. IsFiniteSet(InState("RUNNING"))
  BY ThreadsAssumption, FS_Subset DEF InState
<1>3. InState("RUNNING") = {}
  BY <1>1, <1>2, FS_EmptySet DEF NumRunning
<1> QED
  BY <1>3 DEF InState

\* The end of a phase keeps the list, with its cleanup and its shuffle.
LEMMA ListEndPhase ==
  ASSUME Positions, Counters, ListInv, NEW t \in Threads, EndPhase(t), UNCHANGED kills
  PROVE  ListInv' /\ cur' = 1
<1>1. target = NoThread /\ runningThreads = 0
  BY DEF Positions, EndPhase, PhaseOver
<1>2. \A u \in Threads : state[u] # "RUNNING"
  BY <1>1, NobodyRuns
<1> DEFINE kept == IF phaseCount = 0 THEN Cleanup.lst ELSE runList
           pos == IF phaseCount = 0 THEN Cleanup.pos ELSE lastIdx
<1>3. kept \in Seq(Threads) /\ IsInjective(kept) /\ pos \in Places
  BY CleanupCleans DEF ListInv, ListType, Places
<1>4. /\ ToSet(kept) = Threads \ InState("OFFLINE")'
      /\ ~kills => \A u \in Threads : state'[u] \in {"RUNNING", "LEFT"} => pos[u] \in DOMAIN kept /\ kept[pos[u]] = u
  <2>1. CASE phaseCount = 0
    <3>1. state' = [u \in Threads |-> IF state[u] = "LEFT" THEN "OFFLINE" ELSE state[u]]
      BY <2>1 DEF EndPhase
    <3>2. InState("OFFLINE")' = InState("OFFLINE") \cup InState("LEFT")
      BY <3>1 DEF InState
    <3>3. \A u \in Threads : state'[u] \notin {"RUNNING", "LEFT"}
      BY <1>2, <3>1
    <3>4. ToSet(kept) = ToSet(runList) \ InState("LEFT")
      BY <2>1, CleanupCleans
    <3> QED
      BY <3>2, <3>3, <3>4 DEF ListInv
  <2>2. CASE phaseCount # 0
    <3>1. state' = state /\ kept = runList /\ pos = lastIdx
      BY <2>2 DEF EndPhase
    <3> QED
      BY <3>1 DEF ListInv, InPlace, InState
  <2> QED BY <2>1, <2>2
<1>5. cur' = 1
  BY DEF EndPhase
<1>6. \/ \E s \in Shuffles(kept) : runList' = s /\ lastIdx' = Shuffled(kept, s, pos)
      \/ runList' = kept /\ lastIdx' = pos
  <2>1. \/ phaseCount = 0
        \/ phaseCount # 0
    OBVIOUS
  <2> QED
    BY <2>1 DEF EndPhase
<1> HIDE DEF kept, pos
<1>7. /\ runList' \in Seq(Threads) /\ IsInjective(runList') /\ lastIdx' \in Places /\ ToSet(runList') = ToSet(kept)
      /\ \A u \in Threads : pos[u] \in DOMAIN kept /\ kept[pos[u]] = u
            => lastIdx'[u] \in DOMAIN runList' /\ runList'[lastIdx'[u]] = u
  <2>1. ASSUME NEW s \in Shuffles(kept), runList' = s, lastIdx' = Shuffled(kept, s, pos) PROVE <1>7
    BY <1>3, <2>1, ListShuffled
  <2>2. CASE runList' = kept /\ lastIdx' = pos
    BY <1>3, <2>2
  <2> QED BY <1>6, <2>1, <2>2
<1>8. ListType'
  <2>1. Len(runList') \in Nat
    BY <1>7
  <2> QED
    BY <1>5, <1>7, <2>1 DEF ListType, Places
<1> QED
  BY <1>4, <1>5, <1>7, <1>8 DEF ListInv, InPlace

\* Every step keeps ListInv.
LEMMA ListStep == Positions /\ Counters /\ ListInv /\ [Next]_vars => ListInv'
<1> SUFFICES ASSUME Positions, Counters, ListInv, [Next]_vars PROVE ListInv'
  OBVIOUS
<1>0. cur \in 1 .. Len(runList) + 1 /\ Len(runList) \in Nat
  BY DEF ListInv, ListType
<1>1. CASE UNCHANGED vars \/ Aborted
  BY <1>0, <1>1, ListFrame DEF vars, Aborted, InState
<1>2. ASSUME NEW t \in Threads, UNCHANGED kills, Join(t) PROVE ListInv'
  <2>1. CASE SwapAssert(t)
    BY <1>2, <2>1, ListNew, ListRejoin DEF Join
  <2>2. CASE ~SwapAssert(t)
    BY <1>0, <1>2, <2>2, ListFrame DEF Join, list, InState
  <2> QED BY <2>1, <2>2
<1>3. ASSUME NEW t \in Threads, UNCHANGED kills, Sync(t) PROVE ListInv'
  <2>1. state[t] = "RUNNING" /\ state' = [state EXCEPT ![t] = "WAITING"] /\ UNCHANGED <<runList, cur, lastIdx>>
    BY <1>3 DEF Sync, Positions, list
  <2> QED
    BY <1>0, <1>3, <2>1, ListFrame DEF InState, Positions
<1>4. ASSUME NEW t \in Threads, UNCHANGED kills, Leave(t) PROVE ListInv'
  <2>1. state[t] = "RUNNING" /\ state' = [state EXCEPT ![t] = "LEFT"] /\ UNCHANGED <<runList, cur, lastIdx>>
    BY <1>4 DEF Leave, Positions, list
  <2> QED
    BY <1>0, <1>4, <2>1, ListFrame DEF InState, Positions
<1>5. ASSUME NEW t \in Threads, UNCHANGED kills, LeaveWaiting(t) PROVE ListInv'
  <2>1. state[t] = "WAITING" /\ state' = [state EXCEPT ![t] = "LEFT"] /\ UNCHANGED <<runList, cur, lastIdx>> /\ kills
    BY <1>5 DEF LeaveWaiting, list
  <2> QED
    BY <1>0, <1>5, <2>1, ListFrame DEF InState, Positions
<1>6. ASSUME NEW t \in Threads, UNCHANGED kills, Skip(t) PROVE ListInv'
  <2>1. UNCHANGED <<state, runList, lastIdx>> /\ cur' = cur + 1 /\ cur <= Len(runList)
    BY <1>6 DEF Skip, MoreToWake
  <2>2. cur' \in 1 .. Len(runList) + 1
    BY <1>0, <2>1
  <2> QED
    BY <1>6, <2>1, <2>2, ListFrame DEF InState
<1>7. ASSUME NEW t \in Threads, UNCHANGED kills, SetRunning(t) PROVE ListInv'
  <2>1. PICK w \in Threads : /\ w = runList[cur] /\ state[w] = "WAITING"
                             /\ state' = [state EXCEPT ![w] = "RUNNING"] /\ lastIdx' = [lastIdx EXCEPT ![w] = cur]
    BY <1>7 DEF SetRunning
  <2>2. runList' = runList /\ cur' = cur + 1 /\ cur <= Len(runList)
    BY <1>7 DEF SetRunning, MoreToWake
  <2>3. cur' \in 1 .. Len(runList) + 1 /\ cur \in 1 .. Len(runList)
    BY <1>0, <2>2
  <2>4. InState("OFFLINE")' = InState("OFFLINE")
    BY <2>1 DEF InState, Positions
  <2>5. lastIdx \in Places /\ lastIdx' \in Places /\ lastIdx'[w] = cur /\ \A u \in Threads : u # w => lastIdx'[u] = lastIdx[u]
    BY <1>0, <2>1, <2>3 DEF ListInv, ListType, Places
  <2>6. ~kills => \A u \in Threads : state'[u] \in {"RUNNING", "LEFT"} => InPlace(u)'
    <3> SUFFICES ASSUME ~kills, NEW u \in Threads, state'[u] \in {"RUNNING", "LEFT"} PROVE InPlace(u)'
      OBVIOUS
    <3>1. DOMAIN runList = 1 .. Len(runList)
      BY DEF ListInv, ListType
    <3>2. CASE u = w
      BY <2>1, <2>2, <2>3, <2>5, <3>1, <3>2 DEF InPlace
    <3>3. CASE u # w
      <4>1. state'[u] = state[u]
        BY <2>1, <3>3 DEF Positions
      <4>2. InPlace(u)
        BY <4>1 DEF ListInv
      <4> QED
        BY <2>2, <2>5, <3>3, <4>2 DEF InPlace
    <3> QED BY <3>2, <3>3
  <2>7. ListType'
    BY <2>2, <2>3, <2>5 DEF ListInv, ListType, Places
  <2> QED
    BY <1>7, <2>2, <2>4, <2>6, <2>7 DEF ListInv
<1>8. ASSUME NEW t \in Threads, UNCHANGED kills, EndPhase(t) PROVE ListInv'
  BY <1>8, ListEndPhase
<1>9. ASSUME NEW t \in Threads, UNCHANGED kills,
             CasWord(t) \/ WakeWord(t) \/ ScanDone(t) \/ NotEndPhase(t) \/ Unlock(t) \/ Outside(t) \/ Interrupt(t)
      PROVE ListInv'
  <2>1. UNCHANGED <<state, runList, cur, lastIdx>>
    BY <1>9 DEF CasWord, WakeWord, ScanDone, NotEndPhase, Unlock, Outside, Interrupt, CheckState, FutexWait,
                Retest, Resume, Shared, list
  <2> QED
    BY <1>0, <1>9, <2>1, ListFrame DEF InState
<1> QED
  BY <1>1, <1>2, <1>3, <1>4, <1>5, <1>6, <1>7, <1>8, <1>9 DEF Next, Inside

\* In every reachable state the run list is sound.
THEOREM ListInvariant == Safety => []ListInv
  BY ListInit, ListStep, PositionsInvariant, CountersInvariant, PTL DEF Safety

\* As many have left as the list has entries exactly if all of them have.
LEMMA AllLeft ==
  ASSUME Counters, ListInv
  PROVE  leftThreads = Len(runList) <=> ToSet(runList) = InState("LEFT")
<1>1. runList \in Seq(Threads) /\ IsInjective(runList) /\ ToSet(runList) = Threads \ InState("OFFLINE")
  BY DEF ListInv, ListType
<1>2. IsFiniteSet(ToSet(runList)) /\ Cardinality(ToSet(runList)) = Len(runList)
  BY <1>1, ListLength
<1>3. InState("LEFT") \in SUBSET ToSet(runList)
  BY <1>1 DEF InState
<1>4. Cardinality(ToSet(runList)) = Cardinality(InState("LEFT")) => ToSet(runList) = InState("LEFT")
  BY <1>2, <1>3, FS_Subset
<1>5. Cardinality(InState("LEFT")) = leftThreads
  BY DEF Counters, NumLeft
<1> QED
  BY <1>2, <1>4, <1>5

\* No thread that the cursor has passed waits.
NobodyPassed == \A i \in 1 .. cur - 1 : state[runList[i]] # "WAITING"

\* What the second scan has established at each of its positions.  It begins with
\* nothing to do or at the head of the list, and then skips nobody that waits.
Quiet ==
    /\ QuietWhenFree
    /\ \A t \in Threads :
          /\ pc[t] = "endphase" => ~MoreToWake
          /\ pc[t] = "scan2" => (~MoreToWake /\ ~PhaseOver) \/ NobodyPassed
          /\ pc[t] \in {"cas2", "wake2"} => NobodyPassed
          /\ pc[t] = "unlock" => ~MoreToWake /\ ~PhaseOver

\* The initial state satisfies Quiet.
LEMMA QuietInit == Init => Quiet
<1> SUFFICES ASSUME Init PROVE Quiet
  OBVIOUS
<1>1. runList = <<>> /\ Len(runList) = 0 /\ cur = 1 /\ leftThreads = 0 /\ pc = [t \in Threads |-> "out"]
  BY DEF Init
<1> QED
  BY <1>1 DEF Quiet, QuietWhenFree, MoreToWake, PhaseOver

\* When the second scan has passed every entry without leaving anyone behind, either
\* somebody runs or everybody has left.
LEMMA ScannedAll ==
  ASSUME Positions, Counters, ListInv, target = NoThread, NobodyPassed
  PROVE  ~PhaseOver
<1> SUFFICES ASSUME PhaseOver PROVE FALSE
  OBVIOUS
<1>1. cur = Len(runList) + 1 /\ runningThreads = 0 /\ leftThreads # Len(runList)
  BY DEF PhaseOver
<1>2. \A u \in Threads : state[u] # "RUNNING"
  BY <1>1, NobodyRuns
<1>3. Len(runList) \in Nat /\ DOMAIN runList = 1 .. Len(runList)
  BY DEF ListInv, ListType
<1>4. \A i \in DOMAIN runList : state[runList[i]] # "WAITING"
  BY <1>1, <1>3 DEF NobodyPassed
<1>5. ToSet(runList) = Threads \ InState("OFFLINE")
  BY DEF ListInv
<1>6. \A u \in ToSet(runList) : u \in Threads /\ state[u] \in States /\ state[u] # "OFFLINE" /\ state[u] # "WAITING"
  BY <1>4, <1>5 DEF ToSet, InState, Positions
<1>7. ToSet(runList) = InState("LEFT")
  BY <1>2, <1>5, <1>6 DEF InState
<1> QED
  BY <1>1, <1>7, AllLeft

\* A step that ends outside the lock's code, or holding the lock before it, leaves
\* nothing to show of other threads.
LEMMA QuietOthers ==
  ASSUME Positions, Positions', NEW t \in Threads, holder' = t \/ pc[t] \in Locked,
         holder' \in {t, NoThread},
         /\ pc'[t] = "endphase" => ~MoreToWake'
         /\ pc'[t] = "scan2" => (~MoreToWake' /\ ~PhaseOver') \/ NobodyPassed'
         /\ pc'[t] \in {"cas2", "wake2"} => NobodyPassed'
         /\ pc'[t] = "unlock" => ~MoreToWake' /\ ~PhaseOver',
         QuietWhenFree'
  PROVE  Quiet'
<1>1. \A u \in Threads : pc'[u] \in Locked => u = t
  BY DEF Positions
<1>2. \A u \in Threads : pc'[u] \in {"endphase", "scan2", "cas2", "wake2", "unlock"} => u = t
  BY <1>1
<1> QED
  BY <1>2 DEF Quiet

\* The same for a step inside the lock's code that keeps the lock.
LEMMA QuietHolder ==
  ASSUME Positions, Positions', NEW t \in Threads, holder' = t,
         /\ pc'[t] = "endphase" => ~MoreToWake'
         /\ pc'[t] = "scan2" => (~MoreToWake' /\ ~PhaseOver') \/ NobodyPassed'
         /\ pc'[t] \in {"cas2", "wake2"} => NobodyPassed'
         /\ pc'[t] = "unlock" => ~MoreToWake' /\ ~PhaseOver'
  PROVE  Quiet'
<1>1. QuietWhenFree'
  BY DEF QuietWhenFree
<1> QED
  BY <1>1, QuietOthers

\* Every step keeps Quiet.
LEMMA QuietStep ==
  Positions /\ Positions' /\ Counters /\ ListInv /\ Quiet /\ [Next]_vars => Quiet'
<1> SUFFICES ASSUME Positions, Positions', Counters, ListInv, Quiet, [Next]_vars PROVE Quiet'
  OBVIOUS
<1>0. cur \in 1 .. Len(runList) + 1 /\ Len(runList) \in Nat /\ runningThreads \in Int /\ leftThreads \in Int
  BY DEF ListInv, ListType, Counters
<1>h. \A t \in Threads : pc[t] \in Locked => holder = t /\ t # NoThread
  BY DEF Positions
<1>1. CASE UNCHANGED vars \/ Aborted
  <2>1. UNCHANGED vars
    BY <1>1 DEF Aborted
  <2> QED
    BY <2>1 DEF vars, Quiet, QuietWhenFree, MoreToWake, PhaseOver, NobodyPassed
<1>2. ASSUME NEW t \in Threads, Join(t) \/ Sync(t) \/ Leave(t) PROVE Quiet'
  <2>1. holder' = t /\ \E l \in {"scan1", "swapfailed"} : pc' = [pc EXCEPT ![t] = l]
    <3>1. CASE Join(t)
      BY <3>1 DEF Join
    <3>2. CASE Sync(t)
      BY <3>2 DEF Sync
    <3>3. CASE Leave(t)
      BY <3>3 DEF Leave
    <3> QED BY <1>2, <3>1, <3>2, <3>3
  <2>2. pc'[t] \in {"scan1", "swapfailed"}
    BY <2>1 DEF Positions
  <2>3. QuietWhenFree'
    BY <2>1 DEF QuietWhenFree
  <2>4. pc'[t] \notin {"endphase", "scan2", "cas2", "wake2", "unlock"}
    BY <2>2
  <2> QED
    BY <2>1, <2>3, <2>4, QuietOthers
<1>3. ASSUME NEW t \in Threads, LeaveWaiting(t) PROVE Quiet'
  <2>1. /\ holder = NoThread /\ holder' = NoThread /\ state[t] = "WAITING" /\ leftThreads' = leftThreads + 1
        /\ UNCHANGED <<runList, cur, runningThreads>>
    BY <1>3 DEF LeaveWaiting, list
  <2>2. ~MoreToWake' /\ ~MoreToWake /\ ~PhaseOver
    BY <2>1 DEF Quiet, QuietWhenFree, MoreToWake
  <2>3. leftThreads # Len(runList)
    <3>1. t \in ToSet(runList) /\ t \notin InState("LEFT")
      BY <2>1 DEF ListInv, InState
    <3> QED
      BY <3>1, AllLeft
  <2>4. ~PhaseOver'
    BY <2>1, <2>2, <2>3 DEF PhaseOver
  <2>5. \A u \in Threads : pc'[u] \notin Locked
    BY <2>1 DEF Positions
  <2> QED
    BY <2>2, <2>4, <2>5 DEF Quiet, QuietWhenFree
<1>4. ASSUME NEW t \in Threads, Skip(t) PROVE Quiet'
  <2>1. /\ pc[t] \in {"scan1", "scan2"} /\ pc' = pc /\ MoreToWake /\ cur' = cur + 1 /\ holder' = holder
        /\ state[runList[cur]] # "WAITING" /\ UNCHANGED <<state, runList>>
    BY <1>4 DEF Skip
  <2>2. pc[t] = "scan2" => NobodyPassed
    BY <2>1 DEF Quiet
  <2>3. \A i \in 1 .. cur' - 1 : i = cur \/ i \in 1 .. cur - 1
    BY <1>0, <2>1
  <2>4. pc'[t] = "scan2" => NobodyPassed'
    BY <2>1, <2>2, <2>3 DEF NobodyPassed
  <2>5. holder' = t
    BY <1>h, <2>1
  <2> QED
    BY <2>1, <2>4, <2>5, QuietHolder
<1>5. ASSUME NEW t \in Threads, SetRunning(t) PROVE Quiet'
  <2>1. /\ pc[t] \in {"scan1", "scan2"} /\ MoreToWake /\ cur' = cur + 1 /\ holder' = holder /\ runList' = runList
        /\ pc' = [pc EXCEPT ![t] = IF pc[t] = "scan2" THEN "cas2" ELSE "cas1"]
    BY <1>5 DEF SetRunning
  <2>2. PICK w \in Threads : w = runList[cur] /\ state' = [state EXCEPT ![w] = "RUNNING"]
    BY <1>5 DEF SetRunning
  <2>3. pc'[t] = IF pc[t] = "scan2" THEN "cas2" ELSE "cas1"
    BY <2>1 DEF Positions
  <2>4. pc[t] = "scan2" => NobodyPassed
    BY <2>1 DEF Quiet
  <2>5. \A i \in 1 .. cur' - 1 : i = cur \/ i \in 1 .. cur - 1
    BY <1>0, <2>1
  <2>6. \A u : state'[u] = "WAITING" => state[u] = "WAITING"
    <3> SUFFICES ASSUME NEW u, state'[u] = "WAITING" PROVE state[u] = "WAITING"
      OBVIOUS
    <3> QED BY <2>2 DEF Positions
  <2>7. state'[runList[cur]] # "WAITING"
    BY <2>2 DEF Positions
  <2>8. pc'[t] = "cas2" => NobodyPassed'
    BY <2>1, <2>3, <2>4, <2>5, <2>6, <2>7 DEF NobodyPassed
  <2>9. holder' = t
    BY <1>h, <2>1
  <2> QED
    BY <2>1, <2>3, <2>8, <2>9, QuietHolder
<1>6. ASSUME NEW t \in Threads, CasWord(t) PROVE Quiet'
  <2>1. /\ pc[t] \in {"cas1", "cas2"} /\ UNCHANGED <<state, runList, cur, holder>>
        /\ pc' = [pc EXCEPT ![t] = "wake2"] \/ pc' = [pc EXCEPT ![t] = "wake1"] \/ pc' = [pc EXCEPT ![t] = "panic"]
        /\ pc[t] = "cas1" => pc' # [pc EXCEPT ![t] = "wake2"]
    BY <1>6 DEF CasWord, list, Positions
  <2>2. pc'[t] \in {"wake1", "wake2", "panic"}
    BY <2>1 DEF Positions
  <2>6. pc'[t] = "wake2" => pc[t] = "cas2"
    BY <2>1 DEF Positions
  <2>3. pc'[t] = "wake2" => NobodyPassed'
    BY <2>1, <2>6 DEF Quiet, NobodyPassed
  <2>4. holder' = t
    BY <1>h, <2>1
  <2>5. pc'[t] \notin {"endphase", "scan2", "cas2", "unlock"}
    BY <2>2
  <2> QED
    BY <2>3, <2>4, <2>5, QuietHolder
<1>7. ASSUME NEW t \in Threads, WakeWord(t) PROVE Quiet'
  <2>1. pc[t] \in {"wake1", "wake2"} /\ UNCHANGED <<state, runList, cur, holder>>
    BY <1>7 DEF WakeWord, list
  <2>2. pc'[t] = IF pc[t] = "wake2" THEN "scan2" ELSE "scan1"
    <3>1. pc[target] = "asleep" => target # t
      BY <2>1
    <3> QED
      BY <1>7, <2>1, <3>1 DEF WakeWord, Positions
  <2>3. pc'[t] = "scan2" => NobodyPassed'
    BY <2>1, <2>2 DEF Quiet, NobodyPassed
  <2>4. holder' = t
    BY <1>h, <2>1
  <2> QED
    BY <2>2, <2>3, <2>4, QuietHolder
<1>8. ASSUME NEW t \in Threads, ScanDone(t) PROVE Quiet'
  <2>1. /\ pc[t] \in {"scan1", "scan2"} /\ ~MoreToWake /\ UNCHANGED <<runList, cur, runningThreads, leftThreads, holder>>
        /\ pc' = [pc EXCEPT ![t] = IF pc[t] = "scan2" THEN "unlock" ELSE "endphase"]
    BY <1>8 DEF ScanDone, list, counts
  <2>2. pc'[t] = IF pc[t] = "scan2" THEN "unlock" ELSE "endphase"
    BY <2>1 DEF Positions
  <2>3. ~MoreToWake'
    BY <2>1 DEF MoreToWake
  <2>4. holder' = t
    BY <1>h, <2>1
  <2>5. pc[t] = "scan2" => ~PhaseOver
    <3>1. target = NoThread
      BY <1>h, <2>1 DEF Positions
    <3> QED
      BY <3>1, ScannedAll DEF Quiet
  <2>6. pc'[t] = "unlock" => ~PhaseOver'
    BY <2>1, <2>2, <2>5 DEF PhaseOver
  <2> QED
    BY <2>2, <2>3, <2>4, <2>6, QuietHolder
<1>9. ASSUME NEW t \in Threads, EndPhase(t) PROVE Quiet'
  <2>1. pc[t] = "endphase" /\ cur' = 1 /\ pc' = [pc EXCEPT ![t] = "scan2"] /\ holder' = holder
    BY <1>9 DEF EndPhase
  <2>2. pc'[t] = "scan2" /\ NobodyPassed'
    BY <2>1 DEF Positions, NobodyPassed
  <2>4. holder' = t
    BY <1>h, <2>1
  <2> QED
    BY <2>2, <2>4, QuietHolder
<1>10. ASSUME NEW t \in Threads, NotEndPhase(t) PROVE Quiet'
  <2>1. /\ pc[t] = "endphase" /\ ~PhaseOver /\ pc' = [pc EXCEPT ![t] = "scan2"]
        /\ UNCHANGED <<runList, cur, runningThreads, leftThreads, holder>>
    BY <1>10 DEF NotEndPhase, list, counts
  <2>2. pc'[t] = "scan2" /\ ~MoreToWake
    BY <2>1 DEF Positions, Quiet
  <2>3. ~MoreToWake' /\ ~PhaseOver'
    BY <2>1, <2>2 DEF MoreToWake, PhaseOver
  <2>4. holder' = t
    BY <1>h, <2>1
  <2> QED
    BY <2>2, <2>3, <2>4, QuietHolder
<1>11. ASSUME NEW t \in Threads, Unlock(t) PROVE Quiet'
  <2>1. /\ pc[t] = "unlock" /\ holder' = NoThread /\ UNCHANGED <<runList, cur, runningThreads, leftThreads>>
        /\ pc' = [pc EXCEPT ![t] = IF op = "leave" THEN "out" ELSE "check"]
    BY <1>11 DEF Unlock, list, counts
  <2>2. pc'[t] \in {"out", "check"}
    BY <2>1 DEF Positions
  <2>3. ~MoreToWake' /\ ~PhaseOver'
    BY <2>1 DEF Quiet, MoreToWake, PhaseOver
  <2>4. pc[t] \in Locked /\ pc'[t] \notin {"endphase", "scan2", "cas2", "wake2", "unlock"}
    BY <2>1, <2>2
  <2>5. QuietWhenFree'
    BY <2>3 DEF QuietWhenFree
  <2> QED
    BY <2>1, <2>4, <2>5, QuietOthers
<1>12. ASSUME NEW t \in Threads, Outside(t) \/ Interrupt(t) PROVE Quiet'
  <2>1. UNCHANGED <<state, runList, cur, runningThreads, leftThreads, holder>>
    BY <1>12 DEF Outside, Interrupt, CheckState, FutexWait, Retest, Resume, Shared
  <2>2. \A u \in Threads : pc'[u] \in Locked => pc'[u] = pc[u]
    BY <1>12 DEF Outside, Interrupt, CheckState, FutexWait, Retest, Resume, Positions
  <2>3. MoreToWake' = MoreToWake /\ PhaseOver' = PhaseOver /\ NobodyPassed' = NobodyPassed
    BY <2>1 DEF MoreToWake, PhaseOver, NobodyPassed
  <2> QED
    BY <2>1, <2>2, <2>3 DEF Quiet, QuietWhenFree
<1> QED
  BY <1>1, <1>2, <1>3, <1>4, <1>5, <1>6, <1>7, <1>8, <1>9, <1>10, <1>11, <1>12 DEF Next, Inside

\* The second scan always leaves the barrier with nothing to do.
THEOREM QuietInvariant == Safety => []Quiet
<1>1. Safety => [](Positions /\ Counters /\ ListInv)
  BY PositionsInvariant, CountersInvariant, ListInvariant, PTL
<1> QED
  BY <1>1, QuietInit, QuietStep, PTL DEF Safety

\* The cleanup drops as many entries as threads are counted to have left.
LEMMA CleanupDropsLeft ==
  ASSUME Counters, ListInv
  PROVE  Len(runList) - Len(Cleanup.lst) = leftThreads
<1> DEFINE kept == Cleanup.lst
<1>1. runList \in Seq(Threads) /\ IsInjective(runList) /\ ToSet(runList) = Threads \ InState("OFFLINE")
  BY DEF ListInv, ListType
<1>2. kept \in Seq(Threads) /\ IsInjective(kept) /\ ToSet(kept) = ToSet(runList) \ InState("LEFT")
  BY CleanupCleans
<1> HIDE DEF kept
<1>3. IsFiniteSet(ToSet(runList)) /\ Cardinality(ToSet(runList)) = Len(runList)
  BY <1>1, ListLength
<1>4. Cardinality(ToSet(kept)) = Len(kept)
  BY <1>2, ListLength
<1>5. InState("LEFT") \in SUBSET ToSet(runList)
  BY <1>1 DEF InState
<1>6. IsFiniteSet(InState("LEFT")) /\ Cardinality(InState("LEFT")) = leftThreads
  BY <1>3, <1>5, FS_Subset DEF Counters, NumLeft
<1>7. Cardinality(ToSet(runList) \ InState("LEFT"))
         = Cardinality(ToSet(runList)) - Cardinality(ToSet(runList) \cap InState("LEFT"))
  BY <1>3, <1>6, FS_Difference
<1>8. ToSet(runList) \cap InState("LEFT") = InState("LEFT")
  BY <1>5
<1>9. Len(kept) = Len(runList) - leftThreads
  BY <1>2, <1>3, <1>4, <1>6, <1>7, <1>8
<1>10. Len(runList) \in Nat /\ leftThreads \in Int
  BY <1>1 DEF Counters
<1> QED
  BY <1>9, <1>10 DEF kept

\* The run list holds every member once and those that left at their place, the cleanup
\* drops as many as have left, and a released lock leaves nobody to wake.
THEOREM ListIsSound == Safety => []ListSound
<1>1. ListInv => RunListSound
  BY DEF ListInv, RunListSound, InPlace, InState
<1>2. Counters /\ ListInv => CleanupAssertHolds
  BY CleanupDropsLeft DEF CleanupAssertHolds
<1>3. Quiet => QuietWhenFree
  BY DEF Quiet
<1>4. Counters /\ ListInv /\ Quiet => ListSound
  BY <1>1, <1>2, <1>3 DEF ListSound
<1> QED
  BY <1>4, CountersInvariant, ListInvariant, QuietInvariant, PTL

----------------------------------------------------------------------------
(* The barrier implements the abstract one. *)

\* Whoever runs was passed by the cursor, and so counts as done when it syncs.
RunnersPassed == InState("RUNNING") \subseteq Passed

\* An entry before the cursor is passed, and only such an entry.
LEMMA PassedEntry ==
  ASSUME ListInv, NEW i \in 1 .. Len(runList)
  PROVE  runList[i] \in Passed <=> i < cur
<1>1. /\ Len(runList) \in Nat /\ cur \in 1 .. Len(runList) + 1 /\ DOMAIN runList = 1 .. Len(runList)
      /\ \A k, l \in 1 .. Len(runList) : runList[k] = runList[l] => k = l
  BY DEF ListInv, ListType, IsInjective
<1>2. ASSUME i < cur PROVE runList[i] \in Passed
  <2>1. i \in 1 .. cur - 1
    BY <1>1, <1>2
  <2> QED
    BY <2>1 DEF Passed
<1>3. ASSUME NEW k \in 1 .. cur - 1, runList[i] = runList[k] PROVE i < cur
  <2>1. k \in 1 .. Len(runList)
    BY <1>1
  <2>2. i = k
    BY <1>1, <1>3, <2>1
  <2> QED
    BY <1>1, <2>2
<1> QED
  BY <1>2, <1>3 DEF Passed

\* The cursor moves over one entry.
LEMMA PassOne ==
  ASSUME ListInv, cur <= Len(runList), cur' = cur + 1, runList' = runList
  PROVE  Passed' = Passed \cup {runList[cur]} /\ runList[cur] \in ToSet(runList) \ Passed
<1>1. Len(runList) \in Nat /\ cur \in 1 .. Len(runList) /\ DOMAIN runList = 1 .. Len(runList)
  BY DEF ListInv, ListType
<1>2. 1 .. cur' - 1 = (1 .. cur - 1) \cup {cur}
  BY <1>1
<1>3. Passed' = Passed \cup {runList[cur]}
  BY <1>2 DEF Passed
<1>4. runList[cur] \notin Passed
  BY <1>1, PassedEntry
<1> QED
  BY <1>1, <1>3, <1>4 DEF ToSet

\* Behind the last entry everybody is passed.
LEMMA PassedAll ==
  ASSUME ListInv, cur = Len(runList) + 1
  PROVE  Passed = ToSet(runList)
<1>1. Len(runList) \in Nat /\ DOMAIN runList = 1 .. Len(runList) /\ cur - 1 = Len(runList)
  BY DEF ListInv, ListType
<1> QED
  BY <1>1 DEF Passed, ToSet

\* A thread that joins for the first time is not passed, nor is anyone else by its joining.
LEMMA PassedNew ==
  ASSUME ListInv, NEW t \in Threads, state[t] = "OFFLINE", JoinNew(t)
  PROVE  Passed' = Passed /\ t \notin Passed
<1>1. /\ runList \in Seq(Threads) /\ Len(runList) \in Nat /\ cur \in 1 .. Len(runList) + 1
      /\ runList' = Append(runList, t) /\ cur' = cur /\ DOMAIN runList = 1 .. Len(runList)
  BY DEF ListInv, ListType, JoinNew
<1>2. \A i \in 1 .. cur - 1 : i \in 1 .. Len(runList) /\ runList'[i] = runList[i]
  BY <1>1
<1>3. Passed' = Passed
  BY <1>1, <1>2 DEF Passed
<1>4. t \notin ToSet(runList)
  BY DEF ListInv, InState
<1>5. Passed \subseteq ToSet(runList)
  BY <1>1, <1>2 DEF Passed, ToSet
<1> QED
  BY <1>3, <1>4, <1>5

\* A member that rejoins behind the cursor is no longer passed, and it alone; if its lastIdx
\* is not behind the cursor nothing changes.  Where nobody is removed that means it was not
\* passed.
LEMMA PassedAgain ==
  ASSUME ListInv, NEW t \in Threads, state[t] = "LEFT", JoinAgain(t), SwapAssert(t)
  PROVE  Passed' = Passed \ {t} \/ (kills /\ Passed' = Passed)
<1>1. /\ runList \in Seq(Threads) /\ Len(runList) \in Nat /\ cur \in 1 .. Len(runList) + 1
      /\ lastIdx \in Places /\ DOMAIN runList = 1 .. Len(runList)
      /\ \A k, l \in 1 .. Len(runList) : runList[k] = runList[l] => k = l
  BY DEF ListInv, ListType, Places, IsInjective
<1>2. CASE cur > lastIdx[t]
  <2> DEFINE i == lastIdx[t]  j == cur - 1
  <2>1. i \in 1 .. Len(runList) /\ j \in 1 .. Len(runList) /\ runList[i] = t /\ i <= j
    BY <1>1, <1>2 DEF SwapAssert, Places
  <2>2. cur' = j /\ runList' = [runList EXCEPT ![i] = runList[j], ![j] = t] /\ cur = j + 1
    BY <1>1, <1>2 DEF JoinAgain
  <2> HIDE DEF i, j
  <2>3. \A k \in 1 .. Len(runList) : runList'[k] = IF k = j THEN t ELSE IF k = i THEN runList[j] ELSE runList[k]
    BY <1>1, <2>1, <2>2
  <2>4. \A k \in 1 .. j - 1 : k \in 1 .. Len(runList) /\ k # j /\ k \in 1 .. j
    BY <1>1, <2>1
  <2>5. Passed = {runList[k] : k \in 1 .. j} /\ Passed' = {runList'[k] : k \in 1 .. j - 1}
    <3>1. cur - 1 = j
      BY <2>1, <2>2
    <3> QED
      BY <2>2, <3>1 DEF Passed
  <2>6. ASSUME NEW k \in 1 .. j - 1 PROVE runList'[k] \in Passed \ {t}
    <3>1. k \in 1 .. Len(runList) /\ k # j /\ k \in 1 .. j /\ j \in 1 .. j
      BY <2>1, <2>4
    <3>2. CASE k = i
      <4>1. runList'[k] = runList[j] /\ runList[j] # t
        BY <1>1, <2>1, <2>3, <3>1, <3>2
      <4> QED
        BY <2>5, <3>1, <4>1
    <3>3. CASE k # i
      <4>1. runList'[k] = runList[k] /\ runList[k] # t
        BY <1>1, <2>1, <2>3, <3>1, <3>3
      <4> QED
        BY <2>5, <3>1, <4>1
    <3> QED BY <3>2, <3>3
  <2>7. ASSUME NEW k \in 1 .. j, runList[k] # t PROVE runList[k] \in Passed'
    <3>1. k # i /\ k \in 1 .. Len(runList)
      BY <1>1, <2>1, <2>7
    <3>2. CASE k = j
      <4>1. i \in 1 .. j - 1 /\ runList'[i] = runList[k]
        BY <2>1, <2>3, <3>1, <3>2
      <4> QED
        BY <2>5, <4>1
    <3>3. CASE k # j
      <4>1. k \in 1 .. j - 1 /\ runList'[k] = runList[k]
        BY <2>1, <2>3, <3>1, <3>3
      <4> QED
        BY <2>5, <4>1
    <3> QED BY <3>2, <3>3
  <2> QED
    BY <2>5, <2>6, <2>7
<1>3. CASE ~(cur > lastIdx[t])
  <2>1. Passed' = Passed
    BY <1>3 DEF JoinAgain, Passed
  <2>2. ~kills => t \notin Passed
    <3> SUFFICES ASSUME ~kills PROVE t \notin Passed
      OBVIOUS
    <3>1. lastIdx[t] \in 1 .. Len(runList) /\ runList[lastIdx[t]] = t
      BY <1>1 DEF ListInv, InPlace
    <3>2. ~(lastIdx[t] < cur)
      BY <1>1, <1>3, <3>1
    <3> QED
      BY <3>1, <3>2, PassedEntry
  <2> QED
    BY <2>1, <2>2
<1> QED
  BY <1>2, <1>3

\* The abstract state: who is out, who runs and who is done.
Out == InState("OFFLINE") \cup InState("LEFT")
Done == InState("WAITING") \cap Passed

\* The four values a step of the abstract barrier sees stay, and so does it.
LEMMA AbstractStutter ==
  ASSUME UNCHANGED <<kills, phaseCount, state, Done>>
  PROVE  UNCHANGED AsPhaseBarrier!vars
  BY DEF AsPhaseBarrier!vars, InState, Done

\* A step that changes one thread's state changes the sets of threads by that thread.
LEMMA AbstractMove ==
  ASSUME Positions, NEW t \in Threads, NEW x \in States, Moves(t, x), x # state[t]
  PROVE  \A y \in States : InState(y)' = IF y = x THEN InState(y) \cup {t} ELSE InState(y) \ {t}
<1>1. \A u \in Threads : state'[u] = IF u = t THEN x ELSE state[u]
  BY DEF Positions, Moves
<1> SUFFICES ASSUME NEW y \in States PROVE InState(y)' = IF y = x THEN InState(y) \cup {t} ELSE InState(y) \ {t}
  OBVIOUS
<1> QED
  BY <1>1 DEF InState

\* The initial state maps to an initial state, where nobody runs.
LEMMA RefinesInit == Init => AsPhaseBarrier!Init /\ RunnersPassed
<1> SUFFICES ASSUME Init PROVE AsPhaseBarrier!Init /\ RunnersPassed
  OBVIOUS
<1>1. InState("OFFLINE") = Threads /\ InState("LEFT") = {} /\ InState("RUNNING") = {} /\ InState("WAITING") = {}
  BY DEF Init, InState
<1> QED
  BY <1>1 DEF Init, AsPhaseBarrier!Init, RunnersPassed

\* Joining, for the first time or again, is joining the abstract barrier; where members are
\* removed it may be joining too late.
LEMMA RefinesJoin ==
  ASSUME Positions, ListInv, RunnersPassed, NEW t \in Threads, Join(t), UNCHANGED kills
  PROVE  ([AsPhaseBarrier!Next]_(AsPhaseBarrier!vars) /\ RunnersPassed')
<1>1. CASE ~SwapAssert(t)
  <2>1. UNCHANGED <<kills, phaseCount, state, runList, cur>>
    BY <1>1 DEF Join, list
  <2>2. UNCHANGED Done /\ UNCHANGED Passed
    BY <2>1 DEF Done, Passed, InState
  <2>3. RunnersPassed'
    BY <2>1, <2>2 DEF RunnersPassed, InState
  <2> QED
    BY <2>1, <2>2, <2>3, AbstractStutter
<1>2. CASE SwapAssert(t)
  <2>1. /\ state[t] \in {"OFFLINE", "LEFT"} /\ Moves(t, "WAITING") /\ phaseCount' = phaseCount
        /\ (state[t] = "OFFLINE" /\ JoinNew(t)) \/ (state[t] = "LEFT" /\ JoinAgain(t))
    BY <1>2 DEF Join, JoinNew, JoinAgain, Moves
  <2>2. \A y \in States : InState(y)' = IF y = "WAITING" THEN InState(y) \cup {t} ELSE InState(y) \ {t}
    BY <2>1, AbstractMove
  <2>3. t \in Out /\ t \notin InState("RUNNING") /\ t \notin InState("WAITING")
    BY <2>1 DEF InState, Out
  <2>4. Out' = Out \ {t} /\ InState("RUNNING")' = InState("RUNNING") /\ InState("WAITING")' = InState("WAITING") \cup {t}
    BY <2>2, <2>3 DEF Out
  <2>5. (Passed' = Passed /\ t \notin Passed) \/ Passed' = Passed \ {t} \/ (kills /\ Passed' = Passed)
    BY <1>2, <2>1, PassedNew, PassedAgain
  <2>6. Done' = Done \/ (kills /\ Done' = Done \cup {t})
    BY <2>3, <2>4, <2>5 DEF Done
  <2>7. RunnersPassed'
    BY <2>3, <2>4, <2>5 DEF RunnersPassed
  <2>8. AsPhaseBarrier!Join(t) \/ AsPhaseBarrier!JoinLate(t)
    BY <2>1, <2>3, <2>4, <2>6 DEF AsPhaseBarrier!Join, AsPhaseBarrier!JoinLate, Out, Done
  <2> QED
    BY <2>7, <2>8 DEF AsPhaseBarrier!Next
<1> QED BY <1>1, <1>2

\* A member that syncs has had its turn.
LEMMA RefinesSync ==
  ASSUME Positions, RunnersPassed, NEW t \in Threads, Sync(t), UNCHANGED kills
  PROVE  ([AsPhaseBarrier!Next]_(AsPhaseBarrier!vars) /\ RunnersPassed')
<1>1. state[t] = "RUNNING" /\ Moves(t, "WAITING") /\ UNCHANGED <<runList, cur, phaseCount>>
  BY DEF Sync, list, Moves, Positions
<1>2. \A y \in States : InState(y)' = IF y = "WAITING" THEN InState(y) \cup {t} ELSE InState(y) \ {t}
  BY <1>1, AbstractMove
<1>3. t \in InState("RUNNING") /\ t \notin Out /\ t \in Passed
  BY <1>1 DEF InState, Out, RunnersPassed
<1>4. Passed' = Passed
  BY <1>1 DEF Passed
<1>5. Out' = Out /\ InState("RUNNING")' = InState("RUNNING") \ {t} /\ InState("WAITING")' = InState("WAITING") \cup {t}
  BY <1>2, <1>3 DEF Out
<1>6. Done' = Done \cup {t} /\ RunnersPassed'
  BY <1>3, <1>4, <1>5 DEF Done, RunnersPassed
<1>7. AsPhaseBarrier!Sync(t)
  BY <1>1, <1>3, <1>5, <1>6 DEF AsPhaseBarrier!Sync, Out, Done
<1> QED
  BY <1>6, <1>7 DEF AsPhaseBarrier!Next

\* A member that runs leaves.
LEMMA RefinesLeave ==
  ASSUME Positions, RunnersPassed, NEW t \in Threads, Leave(t), UNCHANGED kills
  PROVE  ([AsPhaseBarrier!Next]_(AsPhaseBarrier!vars) /\ RunnersPassed')
<1>1. state[t] = "RUNNING" /\ Moves(t, "LEFT") /\ UNCHANGED <<runList, cur, phaseCount>>
  BY DEF Leave, list, Moves, Positions
<1>2. \A y \in States : InState(y)' = IF y = "LEFT" THEN InState(y) \cup {t} ELSE InState(y) \ {t}
  BY <1>1, AbstractMove
<1>3. t \in InState("RUNNING") /\ t \notin InState("WAITING") /\ t \notin InState("OFFLINE")
  BY <1>1 DEF InState
<1>4. Passed' = Passed
  BY <1>1 DEF Passed
<1>5. Out' = Out \cup {t} /\ InState("RUNNING")' = InState("RUNNING") \ {t} /\ InState("WAITING")' = InState("WAITING")
  BY <1>2, <1>3 DEF Out
<1>6. Done' = Done /\ RunnersPassed'
  BY <1>4, <1>5 DEF Done, RunnersPassed
<1>7. AsPhaseBarrier!Leave(t)
  BY <1>1, <1>3, <1>5, <1>6 DEF AsPhaseBarrier!Leave, Out, Done
<1> QED
  BY <1>6, <1>7 DEF AsPhaseBarrier!Next

\* A waiting member is removed.
LEMMA RefinesRemove ==
  ASSUME Positions, RunnersPassed, NEW t \in Threads, LeaveWaiting(t), UNCHANGED kills
  PROVE  ([AsPhaseBarrier!Next]_(AsPhaseBarrier!vars) /\ RunnersPassed')
<1>1. kills /\ state[t] = "WAITING" /\ Moves(t, "LEFT") /\ UNCHANGED <<runList, cur, phaseCount>>
  BY DEF LeaveWaiting, list, Moves
<1>2. \A y \in States : InState(y)' = IF y = "LEFT" THEN InState(y) \cup {t} ELSE InState(y) \ {t}
  BY <1>1, AbstractMove
<1>3. t \in InState("WAITING") /\ t \notin InState("RUNNING") /\ t \notin InState("OFFLINE") /\ t \notin InState("LEFT")
  BY <1>1 DEF InState
<1>4. Passed' = Passed
  BY <1>1 DEF Passed
<1>5. Out' = Out \cup {t} /\ InState("RUNNING")' = InState("RUNNING") /\ InState("WAITING")' = InState("WAITING") \ {t}
  BY <1>2, <1>3 DEF Out
<1>6. Done' = Done \ {t} /\ RunnersPassed'
  BY <1>4, <1>5 DEF Done, RunnersPassed
<1>7. AsPhaseBarrier!Remove(t)
  BY <1>1, <1>3, <1>5, <1>6 DEF AsPhaseBarrier!Remove, AsPhaseBarrier!Waiting, Out, Done
<1> QED
  BY <1>6, <1>7 DEF AsPhaseBarrier!Next

\* The cursor passes an entry that does not wait: nothing happens.
LEMMA RefinesSkip ==
  ASSUME ListInv, RunnersPassed, NEW t \in Threads, Skip(t), UNCHANGED kills
  PROVE  ([AsPhaseBarrier!Next]_(AsPhaseBarrier!vars) /\ RunnersPassed')
<1>1. /\ cur <= Len(runList) /\ cur' = cur + 1 /\ UNCHANGED <<runList, state, phaseCount, kills>>
      /\ state[runList[cur]] # "WAITING"
  BY DEF Skip, MoreToWake
<1>2. Passed' = Passed \cup {runList[cur]}
  BY <1>1, PassOne
<1>3. Done' = Done /\ RunnersPassed'
  BY <1>1, <1>2 DEF Done, InState, RunnersPassed
<1> QED
  BY <1>1, <1>3, AbstractStutter

\* The cursor passes a member that waits, and starts it.
LEMMA RefinesStart ==
  ASSUME Positions, Counters, ListInv, RunnersPassed, NEW t \in Threads, SetRunning(t), UNCHANGED kills
  PROVE  ([AsPhaseBarrier!Next]_(AsPhaseBarrier!vars) /\ RunnersPassed')
<1>1. /\ runningThreads < Parallel /\ cur <= Len(runList) /\ cur' = cur + 1
      /\ UNCHANGED <<runList, phaseCount>> /\ target = NoThread
  BY DEF SetRunning, MoreToWake, Positions
<1>2. PICK w \in Threads : w = runList[cur] /\ state[w] = "WAITING" /\ Moves(w, "RUNNING")
  BY DEF SetRunning, Moves
<1>3. \A y \in States : InState(y)' = IF y = "RUNNING" THEN InState(y) \cup {w} ELSE InState(y) \ {w}
  BY <1>2, AbstractMove
<1>4. Passed' = Passed \cup {w} /\ w \notin Passed
  BY <1>1, <1>2, PassOne
<1>5. w \in InState("WAITING") /\ w \notin Out /\ w \notin InState("RUNNING") /\ w \notin Done
  BY <1>2, <1>4 DEF InState, Out, Done
<1>6. Out' = Out /\ InState("RUNNING")' = InState("RUNNING") \cup {w} /\ InState("WAITING")' = InState("WAITING") \ {w}
  BY <1>3, <1>5 DEF Out
<1>7. Done' = Done /\ RunnersPassed'
  BY <1>4, <1>6 DEF Done, RunnersPassed
<1>8. AsPhaseBarrier!Cardinality(InState("RUNNING")) < Parallel
  <2>1. Cardinality(InState("RUNNING")) < Parallel
    BY <1>1 DEF Counters, NumRunning
  <2>2. AsPhaseBarrier!Cardinality(InState("RUNNING")) = Cardinality(InState("RUNNING"))
    BY DEF AsPhaseBarrier!Cardinality, Cardinality
  <2> QED BY <2>1, <2>2
<1>9. AsPhaseBarrier!Start(w)
  BY <1>1, <1>5, <1>6, <1>7, <1>8 DEF AsPhaseBarrier!Start, AsPhaseBarrier!Waiting, Out, Done
<1> QED
  BY <1>7, <1>9 DEF AsPhaseBarrier!Next

\* The phase ends when all who wait had their turn, and somebody does.
LEMMA RefinesEndPhase ==
  ASSUME Positions, Counters, ListInv, RunnersPassed, NEW t \in Threads, EndPhase(t), UNCHANGED kills
  PROVE  ([AsPhaseBarrier!Next]_(AsPhaseBarrier!vars) /\ RunnersPassed')
<1>1. /\ cur = Len(runList) + 1 /\ runningThreads = 0 /\ leftThreads # Len(runList) /\ target = NoThread
      /\ cur' = 1 /\ phaseCount' = (phaseCount + 1) % CleanupPeriod
  BY DEF EndPhase, PhaseOver, Positions
<1>2. state' = state \/ state' = [u \in Threads |-> IF state[u] = "LEFT" THEN "OFFLINE" ELSE state[u]]
  BY DEF EndPhase
<1>3. InState("RUNNING") = {}
  BY <1>1, NobodyRuns DEF InState
<1>4. Out' = Out /\ InState("RUNNING")' = {}
  BY <1>2, <1>3 DEF Out, InState
<1>5. Passed = ToSet(runList) /\ ToSet(runList) = Threads \ InState("OFFLINE")
  BY <1>1, PassedAll DEF ListInv
<1>6. InState("WAITING") \subseteq Passed
  BY <1>5 DEF InState
<1>7. ToSet(runList) # InState("LEFT")
  BY <1>1, AllLeft
<1>8. \A u \in Threads : u \in InState("OFFLINE") \/ u \in InState("LEFT") \/ u \in InState("WAITING")
  BY <1>3 DEF InState, Positions
<1>9. InState("LEFT") \cap InState("OFFLINE") = {} /\ InState("LEFT") \subseteq Threads
  BY DEF InState
<1>10. Done = InState("WAITING") /\ Done # {}
  BY <1>5, <1>6, <1>7, <1>8, <1>9 DEF Done
<1>11. Passed' = {} /\ Done' = {} /\ RunnersPassed'
  <2>1. 1 .. cur' - 1 = {}
    BY <1>1
  <2> QED
    BY <1>4, <2>1 DEF Passed, Done, RunnersPassed
<1>12. Threads \ (Out \cup InState("RUNNING")) \subseteq Done
  BY <1>8, <1>10 DEF Out
<1>13. AsPhaseBarrier!EndPhase
  BY <1>1, <1>3, <1>4, <1>10, <1>11, <1>12 DEF AsPhaseBarrier!EndPhase, AsPhaseBarrier!Waiting, Out, Done
<1> QED
  BY <1>11, <1>13 DEF AsPhaseBarrier!Next

\* Every step maps to a step of the abstract barrier or to none.
LEMMA RefinesStep ==
  Positions /\ Counters /\ ListInv /\ RunnersPassed /\ [Next]_vars
     => [AsPhaseBarrier!Next]_(AsPhaseBarrier!vars) /\ RunnersPassed'
<1> SUFFICES ASSUME Positions, Counters, ListInv, RunnersPassed, [Next]_vars
             PROVE  ([AsPhaseBarrier!Next]_(AsPhaseBarrier!vars) /\ RunnersPassed')
  OBVIOUS
<1>1. ASSUME UNCHANGED <<kills, phaseCount, state, runList, cur>>
      PROVE  ([AsPhaseBarrier!Next]_(AsPhaseBarrier!vars) /\ RunnersPassed')
  <2>1. UNCHANGED Done /\ RunnersPassed'
    BY <1>1 DEF Done, Passed, InState, RunnersPassed
  <2> QED
    BY <1>1, <2>1, AbstractStutter
<1>2. CASE UNCHANGED vars \/ Aborted
  BY <1>1, <1>2 DEF vars, Aborted
<1>3. ASSUME NEW t \in Threads, UNCHANGED kills,
             CasWord(t) \/ WakeWord(t) \/ ScanDone(t) \/ NotEndPhase(t) \/ Unlock(t) \/ Outside(t) \/ Interrupt(t)
      PROVE  ([AsPhaseBarrier!Next]_(AsPhaseBarrier!vars) /\ RunnersPassed')
  <2>1. UNCHANGED <<kills, phaseCount, state, runList, cur>>
    BY <1>3 DEF CasWord, WakeWord, ScanDone, NotEndPhase, Unlock, Outside, Interrupt, CheckState, FutexWait,
                Retest, Resume, Shared, list
  <2> QED BY <1>1, <2>1
<1>4. ASSUME NEW t \in Threads, UNCHANGED kills,
             \/ Join(t) \/ Sync(t) \/ Leave(t) \/ LeaveWaiting(t) \/ Skip(t) \/ SetRunning(t) \/ EndPhase(t)
      PROVE  ([AsPhaseBarrier!Next]_(AsPhaseBarrier!vars) /\ RunnersPassed')
  BY <1>4, RefinesJoin, RefinesSync, RefinesLeave, RefinesRemove, RefinesSkip, RefinesStart, RefinesEndPhase
<1> QED
  BY <1>2, <1>3, <1>4 DEF Next, Inside

\* The barrier implements the abstract one: nobody runs twice in a phase, and a phase ends
\* only when every member waits and had its turn.
THEOREM BarrierRefines == Safety => ImplementsPhaseBarrier
<1>1. Safety => [](Positions /\ Counters /\ ListInv)
  BY PositionsInvariant, CountersInvariant, ListInvariant, PTL
<1> QED
  BY <1>1, RefinesInit, RefinesStep, PTL DEF Safety, ImplementsPhaseBarrier, AsPhaseBarrier!Safety
=============================================================================
