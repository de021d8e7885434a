------------------------------ MODULE HandOff ------------------------------
(***************************************************************************)
(* What simulatePhase and the simulation threads promise each other, with  *)
(* the events abstracted to work: the caller frees every wakeLock, each    *)
(* thread works once, and the last one done frees waitLock.                *)
(***************************************************************************)
EXTENDS Integers, FiniteSets, FiniteSetTheorems, TLAPS

CONSTANT Workers    \* the simulation threads

\* What the theorems assume: at least one thread, finitely many.
SomeWorkers == IsFiniteSet(Workers) /\ Workers # {}

VARIABLES main, wake, pc, threadsDone, waitFree

vars == <<main, wake, pc, threadsDone, waitFree>>

TypeOK ==
    /\ main \in {"bound", "weave"}
    /\ wake \subseteq Workers
    /\ pc \in [Workers -> {"asleep", "busy", "last", "unlock"}]
    /\ threadsDone \in Nat
    /\ waitFree \in BOOLEAN

Init ==
    /\ main = "bound" /\ wake = {} /\ threadsDone = 0 /\ waitFree = FALSE
    /\ pc = [i \in Workers |-> "asleep"]

Start ==
    /\ main = "bound"
    /\ main' = "weave" /\ wake' = Workers
    /\ UNCHANGED <<pc, threadsDone, waitFree>>

Wake(i) ==
    /\ pc[i] = "asleep" /\ i \in wake
    /\ wake' = wake \ {i} /\ pc' = [pc EXCEPT ![i] = "busy"]
    /\ UNCHANGED <<main, threadsDone, waitFree>>

Finish(i) ==
    /\ pc[i] = "busy"
    /\ threadsDone' = threadsDone + 1
    /\ pc' = [pc EXCEPT ![i] = IF threadsDone + 1 = Cardinality(Workers) THEN "last" ELSE "asleep"]
    /\ UNCHANGED <<main, wake, waitFree>>

Reset(i) ==
    /\ pc[i] = "last"
    /\ threadsDone' = 0 /\ pc' = [pc EXCEPT ![i] = "unlock"]
    /\ UNCHANGED <<main, wake, waitFree>>

Unlock(i) ==
    /\ pc[i] = "unlock"
    /\ waitFree' = TRUE /\ pc' = [pc EXCEPT ![i] = "asleep"]
    /\ UNCHANGED <<main, wake, threadsDone>>

End ==
    /\ main = "weave" /\ waitFree
    /\ main' = "bound" /\ waitFree' = FALSE
    /\ UNCHANGED <<wake, pc, threadsDone>>

Next == Start \/ End \/ \E i \in Workers : Wake(i) \/ Finish(i) \/ Reset(i) \/ Unlock(i)

Spec == Init /\ [][Next]_vars

\* The bound phase has the queues to itself: no thread is awake or about to wake, and the
\* next phase starts with its counter and its lock as the first one did.
BoundIsAlone ==
    main = "bound" =>
        wake = {} /\ threadsDone = 0 /\ ~waitFree /\ \A i \in Workers : pc[i] = "asleep"

-----------------------------------------------------------------------------
\* The threads that have counted themselves in this phase.
Counted == {i \in Workers : pc[i] # "busy" /\ i \notin wake}

\* The stages of a weave phase: threads at work, the last one resetting, unlocking, done.
AtWork == ~waitFree /\ threadsDone = Cardinality(Counted) /\ Counted # Workers
                    /\ \A i \in Workers : pc[i] \in {"asleep", "busy"} /\ (i \in wake => pc[i] = "asleep")
Handing(p) == /\ ~waitFree /\ wake = {}
              /\ \E i \in Workers : pc[i] = p /\ \A k \in Workers \ {i} : pc[k] = "asleep"
Over == waitFree /\ wake = {} /\ threadsDone = 0 /\ \A i \in Workers : pc[i] = "asleep"

IInv ==
    /\ TypeOK
    /\ BoundIsAlone
    /\ main = "weave" => AtWork \/ Handing("last") \/ (Handing("unlock") /\ threadsDone = 0) \/ Over

-----------------------------------------------------------------------------
(* The bound phase is alone, for every number of simulation threads. *)

\* A thread that counts itself makes the counter the size of a larger set: the counter
\* reaches the number of threads exactly when all have counted.
LEMMA CountedGrows ==
    ASSUME SomeWorkers, NEW C \in SUBSET Workers, NEW i \in Workers \ C
    PROVE  /\ Cardinality(C \cup {i}) = Cardinality(C) + 1
           /\ Cardinality(C) \in Nat /\ Cardinality(Workers) \in Nat
           /\ Cardinality(C) + 1 = Cardinality(Workers) <=> C \cup {i} = Workers
<1>1. IsFiniteSet(Workers) /\ IsFiniteSet(C) BY FS_Subset DEF SomeWorkers
<1>2. Cardinality(C \cup {i}) = Cardinality(C) + 1 BY <1>1, FS_AddElement
<1>3. Cardinality(C) \in Nat /\ Cardinality(Workers) \in Nat BY <1>1, FS_CardinalityType
<1>4. ASSUME C \cup {i} # Workers PROVE Cardinality(C \cup {i}) < Cardinality(Workers)
  <2>1. C \cup {i} \subseteq Workers OBVIOUS
  <2>2. IsFiniteSet(C \cup {i}) BY <1>1, FS_AddElement
  <2>3. QED BY <2>1, <2>2, <1>1, <1>4, FS_Subset, FS_CardinalityType
<1>5. QED BY <1>2, <1>3, <1>4

\* The bound phase starts alone.
LEMMA InitIInv == Init => IInv
<1>1. Init => TypeOK
  <2>1. SUFFICES ASSUME Init PROVE TypeOK OBVIOUS
  <2>2. pc \in [Workers -> {"asleep", "busy", "last", "unlock"}] BY <2>1 DEF Init
  <2>3. wake \subseteq Workers /\ threadsDone \in Nat BY <2>1 DEF Init
  <2>4. main \in {"bound", "weave"} /\ waitFree \in BOOLEAN BY <2>1 DEF Init
  <2>5. QED BY <2>2, <2>3, <2>4 DEF TypeOK
<1>2. Init => BoundIsAlone /\ main # "weave" BY DEF Init, BoundIsAlone
<1>3. QED BY <1>1, <1>2 DEF IInv

\* A weave phase starts with every thread about to be woken.
LEMMA StartIInv == ASSUME SomeWorkers PROVE IInv /\ Start => IInv'
<1>1. SUFFICES ASSUME IInv, Start PROVE IInv' OBVIOUS
<1>2. Counted' = {} BY <1>1 DEF Counted, Start, IInv, BoundIsAlone, TypeOK
<1>3. AtWork' BY <1>1, <1>2, FS_EmptySet DEF SomeWorkers, AtWork, Start, IInv, BoundIsAlone, TypeOK
<1>4. QED BY <1>1, <1>3 DEF IInv, TypeOK, BoundIsAlone, Start

\* A thread that is woken works.
LEMMA WakeIInv == ASSUME NEW i \in Workers PROVE IInv /\ Wake(i) => IInv'
<1>1. SUFFICES ASSUME IInv, Wake(i) PROVE IInv' OBVIOUS
<1>2. main = "weave" /\ AtWork
  <2>1. main = "weave" BY <1>1 DEF IInv, TypeOK, BoundIsAlone, Wake
  <2>2. \A p : ~Handing(p) BY <1>1 DEF Handing, Wake
  <2>3. ~Over BY <1>1 DEF Over, Wake
  <2>4. QED BY <1>1, <2>1, <2>2, <2>3 DEF IInv
<1>3. Counted' = Counted BY <1>1 DEF Counted, Wake, IInv, TypeOK
<1>4. AtWork' BY <1>1, <1>2, <1>3 DEF AtWork, Wake, IInv, TypeOK
<1>5. QED BY <1>1, <1>2, <1>4 DEF IInv, TypeOK, BoundIsAlone, Wake

\* A thread counts itself out, and the last one is told from the others.
LEMMA FinishIInv == ASSUME SomeWorkers, NEW i \in Workers PROVE IInv /\ Finish(i) => IInv'
<1>1. SUFFICES ASSUME IInv, Finish(i) PROVE IInv' OBVIOUS
<1>2. main = "weave" /\ AtWork
  <2>1. main = "weave" BY <1>1 DEF IInv, TypeOK, BoundIsAlone, Finish
  <2>2. ~Handing("last") BY <1>1 DEF Handing, Finish
  <2>3. ~Handing("unlock") BY <1>1 DEF Handing, Finish
  <2>4. ~Over BY <1>1 DEF Over, Finish
  <2>5. QED BY <1>1, <2>1, <2>2, <2>3, <2>4 DEF IInv
<1>3. i \in Workers \ Counted /\ i \notin wake BY <1>1, <1>2 DEF Counted, Finish, AtWork
<1>4. Counted' = Counted \cup {i} BY <1>1, <1>2, <1>3 DEF Counted, Finish, IInv, TypeOK
<1>5. Counted \in SUBSET Workers BY DEF Counted
<1>6. /\ Cardinality(Counted \cup {i}) = threadsDone + 1
      /\ threadsDone + 1 = Cardinality(Workers) <=> Counted \cup {i} = Workers
  BY <1>2, <1>3, <1>5, CountedGrows DEF AtWork
<1>7. TypeOK' BY <1>1 DEF IInv, TypeOK, Finish
<1>8. CASE threadsDone + 1 = Cardinality(Workers)
  <2>1. Counted \cup {i} = Workers BY <1>6, <1>8
  <2>2. wake = {} BY <2>1, <1>1, <1>3 DEF Counted, IInv, TypeOK
  <2>3. \A k \in Workers \ {i} : pc[k] = "asleep" BY <2>1, <1>2 DEF Counted, AtWork
  <2>4. Handing("last")' BY <1>1, <1>2, <1>8, <2>2, <2>3 DEF Handing, Finish, AtWork, IInv, TypeOK
  <2>5. QED BY <1>1, <1>2, <1>7, <2>4 DEF IInv, BoundIsAlone, Finish
<1>9. CASE threadsDone + 1 # Cardinality(Workers)
  <2>1. AtWork' BY <1>1, <1>2, <1>3, <1>4, <1>6, <1>9 DEF AtWork, Finish, IInv, TypeOK
  <2>2. QED BY <1>1, <1>2, <1>7, <2>1 DEF IInv, BoundIsAlone, Finish
<1>10. QED BY <1>8, <1>9

\* The last thread resets the counter.
LEMMA ResetIInv == ASSUME NEW i \in Workers PROVE IInv /\ Reset(i) => IInv'
<1>1. SUFFICES ASSUME IInv, Reset(i) PROVE IInv' OBVIOUS
<1>2. main = "weave" /\ Handing("last")
  <2>1. main = "weave" BY <1>1 DEF IInv, TypeOK, BoundIsAlone, Reset
  <2>2. ~AtWork /\ ~Over BY <1>1 DEF AtWork, Over, Reset
  <2>3. ~Handing("unlock") BY <1>1 DEF Handing, Reset
  <2>4. QED BY <1>1, <2>1, <2>2, <2>3 DEF IInv
<1>3. Handing("unlock")' /\ threadsDone' = 0 BY <1>1, <1>2 DEF Handing, Reset, IInv, TypeOK
<1>4. QED BY <1>1, <1>2, <1>3 DEF IInv, TypeOK, BoundIsAlone, Reset

\* The last thread opens waitLock, with every other one asleep.
LEMMA UnlockIInv == ASSUME NEW i \in Workers PROVE IInv /\ Unlock(i) => IInv'
<1>1. SUFFICES ASSUME IInv, Unlock(i) PROVE IInv' OBVIOUS
<1>2. main = "weave" BY <1>1 DEF IInv, TypeOK, BoundIsAlone, Unlock
<1>5. ~AtWork /\ ~Over BY <1>1 DEF AtWork, Over, Unlock
<1>6. ~Handing("last") BY <1>1 DEF Handing, Unlock
<1>7. Handing("unlock") /\ threadsDone = 0 BY <1>1, <1>2, <1>5, <1>6 DEF IInv
<1>3. Over' BY <1>1, <1>7 DEF Handing, Over, Unlock, IInv, TypeOK
<1>4. QED BY <1>1, <1>2, <1>3 DEF IInv, TypeOK, BoundIsAlone, Unlock

\* The bound phase is alone again.
LEMMA EndIInv == IInv /\ End => IInv'
<1>1. SUFFICES ASSUME IInv, End PROVE IInv' OBVIOUS
<1>2. Over BY <1>1 DEF IInv, End, AtWork, Handing
<1>3. QED BY <1>1, <1>2 DEF IInv, TypeOK, BoundIsAlone, End, Over

\* Every step keeps the invariant.
LEMMA NextIInv == ASSUME SomeWorkers PROVE IInv /\ [Next]_vars => IInv'
<1>1. SUFFICES ASSUME IInv, [Next]_vars PROVE IInv' OBVIOUS
<1>2. CASE UNCHANGED vars
    BY <1>1, <1>2 DEF vars, IInv, TypeOK, BoundIsAlone, AtWork, Handing, Over, Counted
<1>3. CASE Next BY <1>1, <1>3, StartIInv, EndIInv, WakeIInv, FinishIInv, ResetIInv, UnlockIInv DEF Next
<1>4. QED BY <1>1, <1>2, <1>3

\* Between phases no simulation thread is awake or about to wake, and the counter and the
\* locks are as they were at the start (simulatePhase, simThreadLoop).
THEOREM Alone == ASSUME SomeWorkers PROVE Spec => []BoundIsAlone
<1>1. Init => IInv BY InitIInv
<1>2. IInv /\ [Next]_vars => IInv' BY NextIInv
<1>3. IInv => BoundIsAlone BY DEF IInv
<1>4. QED BY <1>1, <1>2, <1>3, PTL DEF Spec

\* The caller goes on only when every thread has done its work of the phase: the unlock that
\* ends a phase finds all of them asleep, none with a wake-up pending.
THEOREM EndsAfterAll == ASSUME SomeWorkers PROVE Spec => [][End => wake = {} /\ \A i \in Workers : pc[i] = "asleep"]_vars
<1>1. IInv /\ [Next]_vars => [End => wake = {} /\ \A i \in Workers : pc[i] = "asleep"]_vars
  BY DEF IInv, End, AtWork, Handing, Over
<1>2. Init => IInv BY InitIInv
<1>3. IInv /\ [Next]_vars => IInv' BY NextIInv
<1>4. QED BY <1>1, <1>2, <1>3, PTL DEF Spec
=============================================================================
