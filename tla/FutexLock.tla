----------------------------- MODULE FutexLock -----------------------------
(***************************************************************************)
(* The futex lock of src/zsim/src/locks.h: futex_lock, futex_lock_nospin,  *)
(* futex_trylock_nospin_timeout and futex_unlock, one action per access to *)
(* the shared word and per system call.                                    *)
(*                                                                         *)
(* The kernel side (FUTEX_WAIT, FUTEX_WAKE) is external: a wait sleeps     *)
(* only if the word still holds 2, and returns when woken, when a signal   *)
(* interrupts it or when its timeout expires; the code ignores which.      *)
(***************************************************************************)
EXTENDS Naturals

CONSTANTS Threads,    \* the threads that use the lock
          NoThread,   \* the owner of a free lock, in the refinement
          SpinTries   \* tests before futex_lock blocks (5 in the code)

ASSUME SpinTriesAssumption == SpinTries \in Nat \ {0}
ASSUME NoThreadAssumption == NoThread \notin Threads

VARIABLES lock,       \* the shared word: 0 free, 1 taken, 2 taken and maybe waited for
          pc,         \* where each thread is in the code
          mode,       \* which of the three acquire functions it runs
          spin,       \* loop counter i of futex_lock
          waiters     \* threads asleep in the kernel's queue for this word

vars == <<lock, pc, mode, spin, waiters>>

Modes == {"lock", "nospin", "try"}
Trying == {"test", "cas", "swap1", "wait", "asleep", "swap2"}
Holding == {"crit", "zero"}
Labels == {"idle", "wake"} \cup Trying \cup Holding

TypeOK == /\ lock \in 0..2
          /\ pc \in [Threads -> Labels]
          /\ mode \in [Threads -> Modes]
          /\ spin \in [Threads -> Nat]
          /\ waiters \subseteq Threads

Init == /\ lock = 0
        /\ pc = [t \in Threads |-> "idle"]
        /\ mode = [t \in Threads |-> "lock"]
        /\ spin = [t \in Threads |-> 0]
        /\ waiters = {}

GoTo(t, l) == pc' = [pc EXCEPT ![t] = l]

Tries(m) == IF m = "lock" THEN SpinTries ELSE 1

----------------------------------------------------------------------------
(* Acquiring. *)

Call(t, m) == /\ pc[t] = "idle"
              /\ GoTo(t, "test")
              /\ mode' = [mode EXCEPT ![t] = m]
              /\ spin' = [spin EXCEPT ![t] = 0]
              /\ UNCHANGED <<lock, waiters>>

\* One round of the spin loop failed: try again or block.
SpinAgain(t) == /\ spin' = [spin EXCEPT ![t] = @ + 1]
                /\ GoTo(t, IF spin[t] + 1 < Tries(mode[t]) THEN "test" ELSE "swap1")
                /\ UNCHANGED <<lock, mode, waiters>>

Test(t) == /\ pc[t] = "test"
           /\ \/ /\ lock = 0
                 /\ GoTo(t, "cas")
                 /\ UNCHANGED <<lock, mode, spin, waiters>>
              \/ lock # 0 /\ SpinAgain(t)

Cas(t) == /\ pc[t] = "cas"
          /\ \/ /\ lock = 0
                /\ lock' = 1
                /\ GoTo(t, "crit")
                /\ UNCHANGED <<mode, spin, waiters>>
             \/ lock # 0 /\ SpinAgain(t)

Swap1(t) == /\ pc[t] = "swap1"
            /\ lock' = 2
            /\ GoTo(t, IF lock = 0 THEN "crit" ELSE "wait")
            /\ UNCHANGED <<mode, spin, waiters>>

\* FUTEX_WAIT(2): the kernel compares the word and sleeps atomically.
FutexWait(t) == /\ pc[t] = "wait"
                /\ \/ /\ lock = 2
                      /\ waiters' = waiters \cup {t}
                      /\ GoTo(t, "asleep")
                   \/ /\ lock # 2
                      /\ GoTo(t, "swap2")
                      /\ UNCHANGED waiters
                /\ UNCHANGED <<lock, mode, spin>>

\* The wait returns without a wake: timeout (only "try" has one) or signal.
WaitReturns(t) == /\ pc[t] = "asleep"
                  /\ waiters' = waiters \ {t}
                  /\ GoTo(t, "swap2")
                  /\ UNCHANGED <<lock, mode, spin>>

\* Mutant: the woken thread takes the word with 1, forgetting other sleepers.
Swap2ToOne(t) == /\ pc[t] = "swap2"
                 /\ lock' = 1
                 /\ GoTo(t, IF lock = 0 THEN "crit"
                            ELSE IF mode[t] = "try" THEN "idle" ELSE "test")
                 /\ spin' = [spin EXCEPT ![t] = 0]
                 /\ UNCHANGED <<mode, waiters>>

Swap2(t) == /\ pc[t] = "swap2"
            /\ lock' = 2
            /\ GoTo(t, IF lock = 0 THEN "crit"
                       ELSE IF mode[t] = "try" THEN "idle" ELSE "test")
            /\ spin' = [spin EXCEPT ![t] = 0]
            /\ UNCHANGED <<mode, waiters>>

----------------------------------------------------------------------------
(* Releasing. *)

FetchDec(t) == /\ pc[t] = "crit"
               /\ lock' = lock - 1
               /\ GoTo(t, IF lock # 1 THEN "zero" ELSE "idle")
               /\ UNCHANGED <<mode, spin, waiters>>

\* Mutant: futex_unlock returns without its FUTEX_WAKE.
StoreZeroReturns(t) == /\ pc[t] = "zero"
                       /\ lock' = 0
                       /\ GoTo(t, "idle")
                       /\ UNCHANGED <<mode, spin, waiters>>

StoreZero(t) == /\ pc[t] = "zero"
                /\ lock' = 0
                /\ GoTo(t, "wake")
                /\ UNCHANGED <<mode, spin, waiters>>

\* FUTEX_WAKE(1): some sleeper, if there is one, leaves the kernel queue.
FutexWake(t) == /\ pc[t] = "wake"
                /\ \/ /\ waiters = {}
                      /\ GoTo(t, "idle")
                      /\ UNCHANGED waiters
                   \/ \E u \in waiters :
                        /\ waiters' = waiters \ {u}
                        /\ pc' = [pc EXCEPT ![t] = "idle", ![u] = "swap2"]
                /\ UNCHANGED <<lock, mode, spin>>

----------------------------------------------------------------------------
Step(t) == \/ Test(t) \/ Cas(t) \/ Swap1(t) \/ FutexWait(t) \/ Swap2(t)
           \/ FetchDec(t) \/ StoreZero(t) \/ FutexWake(t)

Next == \E t \in Threads : \/ \E m \in Modes : Call(t, m)
                           \/ Step(t)
                           \/ WaitReturns(t)

Safety == Init /\ [][Next]_vars

\* Every thread keeps running and every critical section ends; nothing makes
\* a sleeper return by itself, and nobody has to call lock().
Spec == Safety /\ \A t \in Threads : WF_vars(Step(t))

----------------------------------------------------------------------------
(* Properties. *)

\* Two threads are never both between the return of a lock function and the
\* instruction of futex_unlock that frees the word.
MutualExclusion == \A t, u \in Threads :
                      pc[t] \in Holding /\ pc[u] \in Holding => t = u

\* A thread sleeps in the kernel only while somebody is bound to wake it or to
\* leave the word at 2 for the next unlock: a holder that will see a 2, an
\* unlocker before its FUTEX_WAKE, or a thread before its second exchange.
NoLostWakeup == waiters # {} =>
                  \/ lock = 2
                  \/ \E t \in Threads : pc[t] \in {"zero", "wake", "swap2"}

\* The word is nonzero exactly while there is a holder: what makes the proof of
\* MutualExclusion inductive.
WordTellsHolder == lock # 0 <=> \E t \in Threads : pc[t] \in Holding

\* The kernel queue holds exactly the threads inside FUTEX_WAIT: a wakeup never
\* moves a thread that is elsewhere.
QueueTellsSleepers == waiters = {t \in Threads : pc[t] = "asleep"}

\* The futex lock is a mutex: one owner, and a lock that stays free while
\* somebody wants it is eventually taken (no sleeper is forgotten).
Holder == IF \E t \in Threads : pc[t] \in Holding
          THEN CHOOSE t \in Threads : pc[t] \in Holding
          ELSE NoThread

AsMutex == INSTANCE Mutex WITH
              owner <- Holder,
              wants <- {t \in Threads : pc[t] \in Trying}

ImplementsMutex == AsMutex!Spec
=============================================================================
