---------------------------- MODULE LockProofs ----------------------------
(***************************************************************************)
(* Proofs about the futex lock, for any set of threads and any SpinTries:  *)
(* its type invariant, mutual exclusion, the absence of lost wakeups, and  *)
(* that every step of it is a step of the abstract mutex or a stutter; and *)
(* about the read-write mutex built on two of them: a writer is alone.     *)
(***************************************************************************)
EXTENDS FutexLock, RWMutex, FiniteSetTheorems, TLAPS

\* Mutual exclusion is not inductive alone: a thread that finds the word at 0
\* must know that nobody holds the lock, which is WordTellsHolder,
\* and a wakeup must move a thread that sleeps, which is QueueTellsSleepers.
LockInv == TypeOK /\ WordTellsHolder /\ MutualExclusion /\ QueueTellsSleepers

USE DEF Modes, Trying, Holding, Labels, GoTo, Tries

\* The initial state satisfies the inductive invariant.
LEMMA LockInit == Init => LockInv
  BY DEF Init, LockInv, TypeOK, WordTellsHolder, MutualExclusion, QueueTellsSleepers

\* A failed round of the spin loop keeps the invariant.
LEMMA SpinKeepsLock ==
  ASSUME LockInv, NEW t \in Threads, pc[t] \in {"test", "cas"}, SpinAgain(t)
  PROVE  LockInv'
  BY DEF LockInv, SpinAgain, TypeOK, WordTellsHolder, MutualExclusion, QueueTellsSleepers

\* Every step of the lock keeps the inductive invariant.
LEMMA LockStep == LockInv /\ [Next]_vars => LockInv'
<1> SUFFICES ASSUME LockInv, [Next]_vars PROVE LockInv'
  OBVIOUS
<1> USE DEF LockInv, TypeOK, WordTellsHolder, MutualExclusion, QueueTellsSleepers
<1>1. ASSUME NEW t \in Threads, NEW m \in Modes, Call(t, m) PROVE LockInv'
  BY <1>1 DEF Call
<1>2. ASSUME NEW t \in Threads, Test(t) PROVE LockInv'
  <2>1. CASE SpinAgain(t)
    BY <1>2, <2>1, SpinKeepsLock DEF Test
  <2>2. CASE ~SpinAgain(t)
    BY <1>2, <2>2 DEF Test
  <2> QED BY <2>1, <2>2
<1>3. ASSUME NEW t \in Threads, Cas(t) PROVE LockInv'
  <2>1. CASE SpinAgain(t)
    BY <1>3, <2>1, SpinKeepsLock DEF Cas
  <2>2. CASE ~SpinAgain(t)
    BY <1>3, <2>2 DEF Cas
  <2> QED BY <2>1, <2>2
<1>4. ASSUME NEW t \in Threads, Swap1(t) PROVE LockInv'
  BY <1>4 DEF Swap1
<1>5. ASSUME NEW t \in Threads, FutexWait(t) PROVE LockInv'
  BY <1>5 DEF FutexWait
<1>6. ASSUME NEW t \in Threads, WaitReturns(t) PROVE LockInv'
  BY <1>6 DEF WaitReturns
<1>7. ASSUME NEW t \in Threads, Swap2(t) PROVE LockInv'
  BY <1>7 DEF Swap2
<1>8. ASSUME NEW t \in Threads, FetchDec(t) PROVE LockInv'
  BY <1>8 DEF FetchDec
<1>9. ASSUME NEW t \in Threads, StoreZero(t) PROVE LockInv'
  BY <1>9 DEF StoreZero
<1>10. ASSUME NEW t \in Threads, FutexWake(t) PROVE LockInv'
  BY <1>10 DEF FutexWake
<1>11. CASE UNCHANGED vars
  BY <1>11 DEF vars
<1> QED
  BY <1>1, <1>2, <1>3, <1>4, <1>5, <1>6, <1>7, <1>8, <1>9, <1>10, <1>11 DEF Next, Step

----------------------------------------------------------------------------
\* In every reachable state the variables have their types and the auxiliary
\* facts of LockInv hold.
THEOREM LockInvariant == Safety => []LockInv
  BY LockInit, LockStep, PTL DEF Safety

\* At most one thread is between acquiring the lock and freeing the word.
THEOREM MutualExclusionHolds == Safety => []MutualExclusion
  BY LockInvariant, PTL DEF LockInv

\* A sleeping thread always has somebody bound to wake it.
LEMMA NoLostWakeupStep == LockInv /\ NoLostWakeup /\ [Next]_vars => NoLostWakeup'
<1> SUFFICES ASSUME LockInv, NoLostWakeup, [Next]_vars PROVE NoLostWakeup'
  OBVIOUS
<1> USE DEF LockInv, TypeOK, NoLostWakeup, QueueTellsSleepers
<1>1. ASSUME NEW t \in Threads, NEW m \in Modes, Call(t, m) PROVE NoLostWakeup'
  BY <1>1 DEF Call
<1>2. ASSUME NEW t \in Threads, Test(t) PROVE NoLostWakeup'
  BY <1>2 DEF Test, SpinAgain
<1>3. ASSUME NEW t \in Threads, Cas(t) PROVE NoLostWakeup'
  BY <1>3 DEF Cas, SpinAgain
<1>4. ASSUME NEW t \in Threads, Swap1(t) PROVE NoLostWakeup'
  BY <1>4 DEF Swap1
<1>5. ASSUME NEW t \in Threads, FutexWait(t) PROVE NoLostWakeup'
  BY <1>5 DEF FutexWait
<1>6. ASSUME NEW t \in Threads, WaitReturns(t) PROVE NoLostWakeup'
  BY <1>6 DEF WaitReturns
<1>7. ASSUME NEW t \in Threads, Swap2(t) PROVE NoLostWakeup'
  BY <1>7 DEF Swap2
<1>8. ASSUME NEW t \in Threads, FetchDec(t) PROVE NoLostWakeup'
  BY <1>8 DEF FetchDec
<1>9. ASSUME NEW t \in Threads, StoreZero(t) PROVE NoLostWakeup'
  BY <1>9 DEF StoreZero
<1>10. ASSUME NEW t \in Threads, FutexWake(t) PROVE NoLostWakeup'
  BY <1>10 DEF FutexWake
<1>11. CASE UNCHANGED vars
  BY <1>11 DEF vars
<1> QED
  BY <1>1, <1>2, <1>3, <1>4, <1>5, <1>6, <1>7, <1>8, <1>9, <1>10, <1>11 DEF Next, Step

\* No sleeper is ever forgotten, in any reachable state.
THEOREM NoLostWakeupHolds == Safety => []NoLostWakeup
<1>1. Init => NoLostWakeup
  BY DEF Init, NoLostWakeup
<1> QED
  BY <1>1, LockInvariant, NoLostWakeupStep, PTL DEF Safety
----------------------------------------------------------------------------
(* Refinement of the abstract mutex. *)

\* While one thread holds the lock, Holder names it; else it is NoThread.
LEMMA HolderIs ==
  ASSUME LockInv
  PROVE  /\ \A t \in Threads : pc[t] \in Holding => Holder = t
         /\ (\A t \in Threads : pc[t] \notin Holding) => Holder = NoThread
         /\ lock = 0 => Holder = NoThread
  BY DEF LockInv, MutualExclusion, WordTellsHolder, Holder

\* The same facts about the state after a step.
LEMMA HolderIsNext ==
  ASSUME LockInv'
  PROVE  /\ \A t \in Threads : pc'[t] \in Holding => Holder' = t
         /\ (\A t \in Threads : pc'[t] \notin Holding) => Holder' = NoThread
  BY DEF LockInv, MutualExclusion, Holder

\* What the refinement mapping makes of a step that only moves thread t: it
\* stays where it is, begins to try, acquires, gives up or releases.
LEMMA MutexMove ==
  ASSUME LockInv, LockInv', NEW t \in Threads, NEW l \in Labels, GoTo(t, l)
  PROVE  /\ pc[t] = "idle" /\ l \in Trying => AsMutex!Request(t)
         /\ pc[t] \in Trying /\ l = "crit" /\ lock = 0 => AsMutex!Acquire(t)
         /\ pc[t] \in Trying /\ l = "idle" => AsMutex!GiveUp(t)
         /\ pc[t] \in Holding /\ l \in {"idle", "wake"} => AsMutex!Release(t)
         /\ pc[t] \in Trying /\ l \in Trying => UNCHANGED AsMutex!vars
         /\ pc[t] \in Holding /\ l \in Holding => UNCHANGED AsMutex!vars
<1> USE NoThreadAssumption, HolderIs, HolderIsNext DEF LockInv, TypeOK
<1>1. \A u \in Threads : pc'[u] = IF u = t THEN l ELSE pc[u]
  OBVIOUS
<1>2. pc[t] \notin Holding /\ l \notin Holding => Holder' = Holder
  BY <1>1
<1>3. pc[t] \in Holding => Holder = t
  OBVIOUS
<1>4. l \in Holding => Holder' = t
  BY <1>1
<1>5. pc[t] \notin Holding => Holder # t
  BY DEF Holder, WordTellsHolder
<1>6. pc[t] \in Holding /\ l \notin Holding => Holder' = NoThread
  BY <1>1 DEF MutualExclusion
<1> QED
  BY <1>1, <1>2, <1>3, <1>4, <1>5, <1>6
     DEF AsMutex!Request, AsMutex!Acquire, AsMutex!GiveUp, AsMutex!Release, AsMutex!vars

\* Every step of the futex lock is a step of the mutex or leaves it unchanged.
LEMMA MutexStep == LockInv /\ LockInv' /\ [Next]_vars => [AsMutex!Next]_AsMutex!vars
<1> SUFFICES ASSUME LockInv, LockInv', [Next]_vars PROVE [AsMutex!Next]_AsMutex!vars
  OBVIOUS
<1> USE DEF LockInv, TypeOK, AsMutex!Next
<1>1. ASSUME NEW t \in Threads, NEW m \in Modes, Call(t, m)
      PROVE  [AsMutex!Next]_AsMutex!vars
  BY <1>1, MutexMove DEF Call
<1>2. ASSUME NEW t \in Threads, pc[t] \in {"test", "cas"}, SpinAgain(t)
      PROVE  UNCHANGED AsMutex!vars
  BY <1>2, MutexMove DEF SpinAgain
<1>3. ASSUME NEW t \in Threads, Test(t) PROVE [AsMutex!Next]_AsMutex!vars
  BY <1>2, <1>3, MutexMove DEF Test
<1>4. ASSUME NEW t \in Threads, Cas(t) PROVE [AsMutex!Next]_AsMutex!vars
  BY <1>2, <1>4, MutexMove DEF Cas
<1>5. ASSUME NEW t \in Threads, Swap1(t) PROVE [AsMutex!Next]_AsMutex!vars
  BY <1>5, MutexMove DEF Swap1
<1>6. ASSUME NEW t \in Threads, FutexWait(t) PROVE [AsMutex!Next]_AsMutex!vars
  BY <1>6, MutexMove DEF FutexWait
<1>7. ASSUME NEW t \in Threads, WaitReturns(t) PROVE [AsMutex!Next]_AsMutex!vars
  BY <1>7, MutexMove DEF WaitReturns
<1>8. ASSUME NEW t \in Threads, Swap2(t) PROVE [AsMutex!Next]_AsMutex!vars
  BY <1>8, MutexMove DEF Swap2
<1>9. ASSUME NEW t \in Threads, FetchDec(t) PROVE [AsMutex!Next]_AsMutex!vars
  BY <1>9, MutexMove DEF FetchDec
<1>10. ASSUME NEW t \in Threads, StoreZero(t) PROVE [AsMutex!Next]_AsMutex!vars
  BY <1>10, MutexMove DEF StoreZero
<1>11. ASSUME NEW t \in Threads, FutexWake(t) PROVE [AsMutex!Next]_AsMutex!vars
  <2>1. UNCHANGED {u \in Threads : pc[u] \in Trying}
    BY <1>11 DEF FutexWake, QueueTellsSleepers
  <2>2. \A u \in Threads : pc'[u] \in Holding <=> pc[u] \in Holding
    BY <1>11 DEF FutexWake, QueueTellsSleepers
  <2>3. CASE \E u \in Threads : pc[u] \in Holding
    BY <2>2, <2>3, HolderIs, HolderIsNext, <2>1 DEF AsMutex!vars
  <2>4. CASE \A u \in Threads : pc[u] \notin Holding
    BY <2>2, <2>4, HolderIs, HolderIsNext, <2>1 DEF AsMutex!vars
  <2> QED BY <2>3, <2>4
<1>12. CASE UNCHANGED vars
  BY <1>12 DEF vars, AsMutex!vars, Holder
<1> QED
  BY <1>1, <1>3, <1>4, <1>5, <1>6, <1>7, <1>8, <1>9, <1>10, <1>11, <1>12 DEF Next, Step

\* The safety part of ImplementsMutex: the futex lock behaves like a mutex with
\* one owner, whatever the number of threads.
THEOREM MutexSafety == Safety => AsMutex!Safety
<1>1. Init => AsMutex!Init
  BY LockInit, HolderIs DEF Init, AsMutex!Init
<1> QED
  BY <1>1, LockInvariant, MutexStep, PTL DEF Safety, AsMutex!Safety
----------------------------------------------------------------------------
(* The read-write mutex. *)

\* The threads the count counts, those that hold rb, and those with whom wq excludes everybody.
Counted == {t \in RWThreads : at[t] \in {"rd_wq", "rd_ret", "reader", "dg_unlock"}}
First(t) == at[t] \in {"rd_xadd", "rd_wq", "rd_ret", "wr_wq", "wr_ret"}
Exclusive(t) == at[t] \in {"wr_ret", "writer", "dg_unlock", "ru_unlock"}
Inside(t) == at[t] \in {"rd_ret", "reader"}
Waiting(t) == at[t] = "rd_wq"

RWTypeOK ==
    /\ readers \in Nat /\ wq \in BOOLEAN /\ rb \in BOOLEAN
    /\ at \in [RWThreads -> {"idle", "rd_rb", "rd_xadd", "rd_wq", "rd_ret", "reader", "ru_unlock",
                             "wr_rb", "wr_wq", "wr_ret", "writer", "dg_unlock"}]

CountExact == IsFiniteSet(Counted) /\ readers = Cardinality(Counted)

\* rb has one owner.
OneFirst ==
    /\ \A t \in RWThreads : First(t) => rb
    /\ \A t, u \in RWThreads : First(t) /\ First(u) => t = u

\* wq belongs to one thread, or to the readers; between a downgrade and the reader that waits
\* for wq, it belongs to nobody, and that reader keeps rb.
Ownership ==
    /\ \A t, u \in RWThreads : Exclusive(t) /\ Exclusive(u) => t = u
    /\ \A t \in RWThreads : Exclusive(t) => wq
    /\ \A t, u \in RWThreads : ~(Exclusive(t) /\ Inside(u))
    /\ \A t \in RWThreads : at[t] = "dg_unlock" => \E u \in RWThreads : Waiting(u)
    /\ \A t \in RWThreads : Inside(t) => (wq <=> ~\E u \in RWThreads : Waiting(u))

RWInv == RWTypeOK /\ CountExact /\ OneFirst /\ Ownership

\* A count of 0 counts nobody.
LEMMA NobodyCounted == CountExact /\ readers = 0 => \A t \in RWThreads : t \notin Counted
  BY FS_EmptySet DEF CountExact

\* A count of 1 is the count of a single thread.
LEMMA OnlyCounted ==
  ASSUME CountExact, readers = 1, NEW t \in Counted, NEW u \in Counted
  PROVE  t = u
<1>1. PICK e : Counted = {e}
  BY FS_Singleton DEF CountExact
<1> QED BY <1>1

\* Where no two threads are counted the count is at most 1.
LEMMA AtMostOne ==
  ASSUME CountExact, \A t, u \in Counted : t = u
  PROVE  readers \in {0, 1}
<1>1. CASE Counted = {}
  BY <1>1, FS_EmptySet DEF CountExact
<1>2. CASE Counted # {}
  <2>1. PICK e : Counted = {e}
    BY <1>2
  <2> QED BY <2>1, FS_Singleton DEF CountExact
<1> QED BY <1>1, <1>2

\* Counting a thread in keeps the count exact.
LEMMA CountsOneMore ==
  ASSUME CountExact, NEW t, t \notin Counted, Counted' = Counted \cup {t}, readers' = readers + 1
  PROVE  CountExact'
  BY FS_AddElement DEF CountExact

\* So does counting one out.
LEMMA CountsOneLess ==
  ASSUME CountExact, NEW t \in Counted, Counted' = Counted \ {t}, readers' = readers - 1
  PROVE  CountExact'
  BY FS_RemoveElement DEF CountExact

USE DEF Move, RWTypeOK

\* Every step keeps the count of readers exact.  A downgrade finds at most the one reader that
\* waits for wq counted in, so that its assertion holds.
LEMMA CountStep == RWInv /\ [RWNext]_rwVars => CountExact'
<1> SUFFICES ASSUME RWInv, [RWNext]_rwVars PROVE CountExact'
  OBVIOUS
<1>t. RWTypeOK /\ CountExact
  BY DEF RWInv
<1>0. ASSUME Counted' = Counted, readers' = readers PROVE CountExact'
  BY <1>t, <1>0 DEF CountExact
<1>1. ASSUME NEW t \in RWThreads, RdXadd(t) PROVE CountExact'
  <2>1. t \notin Counted /\ Counted' = Counted \cup {t} /\ readers' = readers + 1
    BY <1>1, <1>t DEF RdXadd, Counted
  <2> QED BY <1>t, <2>1, CountsOneMore
<1>2. ASSUME NEW t \in RWThreads, NEW up \in BOOLEAN, RdUnlock(t, up) PROVE CountExact'
  <2>1. t \in Counted /\ Counted' = Counted \ {t} /\ readers' = readers - 1
    BY <1>2, <1>t DEF RdUnlock, Counted, AfterRdUnlock
  <2> QED BY <1>t, <2>1, CountsOneLess
<1>3. ASSUME NEW t \in RWThreads, Downgrade(t) PROVE CountExact'
  <2>1. CASE readers \in {0, 1}
    <3>1. t \notin Counted /\ Counted' = Counted \cup {t} /\ readers' = readers + 1
      BY <1>3, <1>t, <2>1 DEF Downgrade, Counted
    <3> QED BY <1>t, <3>1, CountsOneMore
  <2>2. readers \in {0, 1}
    <3>1. ASSUME NEW u \in Counted PROVE u \in RWThreads /\ Waiting(u) /\ First(u)
      BY <1>3, <3>1 DEF Downgrade, Counted, Waiting, First, RWInv, Ownership, Exclusive, Inside
    <3>2. \A u, v \in Counted : u = v
      BY <3>1 DEF RWInv, OneFirst
    <3> QED BY <1>t, <3>2, AtMostOne
  <2> QED BY <2>1, <2>2
<1>4. ASSUME NEW t \in RWThreads, RdCall(t) \/ WrCall(t) \/ RdRb(t) \/ RdReturn(t) \/ RdUnlockWq(t)
                                  \/ WrRb(t) \/ WrWq(t) \/ WrReturn(t) \/ WrUnlock(t)
      PROVE CountExact'
  <2>1. Counted' = Counted /\ readers' = readers
    BY <1>4, <1>t DEF RdCall, WrCall, RdRb, RdReturn, RdUnlockWq, WrRb, WrWq, WrReturn, WrUnlock, Counted, AfterRdUnlock
  <2> QED BY <1>0, <2>1
<1>5. ASSUME NEW t \in RWThreads, RdWq(t) \/ DgUnlock(t)
      PROVE CountExact'
  <2>1. Counted' = Counted /\ readers' = readers
    BY <1>5, <1>t DEF RdWq, DgUnlock, Counted
  <2> QED BY <1>0, <2>1
<1>6. CASE UNCHANGED rwVars
  <2>1. Counted' = Counted /\ readers' = readers
    BY <1>6 DEF rwVars, Counted
  <2> QED BY <1>0, <2>1
<1> QED BY <1>1, <1>2, <1>3, <1>4, <1>5, <1>6 DEF RWNext, RWStep, RWRelease

\* Every step keeps the owners of rb and wq.
LEMMA RWStepKeeps == RWInv /\ [RWNext]_rwVars => (RWTypeOK /\ OneFirst /\ Ownership)'
<1> SUFFICES ASSUME RWInv, [RWNext]_rwVars PROVE (RWTypeOK /\ OneFirst /\ Ownership)'
  OBVIOUS
<1>t. RWTypeOK /\ CountExact /\ OneFirst /\ Ownership
  BY DEF RWInv
<1> USE DEF OneFirst, Ownership, First, Exclusive, Inside, Waiting
<1>1. ASSUME NEW t \in RWThreads, RdXadd(t) PROVE (RWTypeOK /\ OneFirst /\ Ownership)'
  <2>1. CASE readers = 0
    <3>1. \A u \in RWThreads : ~Inside(u) /\ ~Waiting(u)
      BY <1>t, <2>1, NobodyCounted DEF Counted
    <3> QED BY <1>1, <1>t, <2>1, <3>1 DEF RdXadd
  <2>2. CASE readers # 0
    <3>1. PICK u \in RWThreads : u \in Counted
      BY <1>t, <2>2, FS_EmptySet DEF CountExact, Counted
    <3>2. at[u] = "reader"
      BY <1>1, <1>t, <3>1 DEF RdXadd, Counted
    <3> QED BY <1>1, <1>t, <2>2, <3>2 DEF RdXadd
  <2> QED BY <2>1, <2>2
<1>2. ASSUME NEW t \in RWThreads, NEW up \in BOOLEAN, RdUnlock(t, up) PROVE (RWTypeOK /\ OneFirst /\ Ownership)'
  <2>0. readers \in Nat \ {0}
    BY <1>2, <1>t, NobodyCounted DEF RdUnlock, Counted
  <2>1. CASE readers = 1
    <3>1. \A u \in RWThreads : u # t => u \notin Counted
      BY <1>2, <1>t, <2>1, OnlyCounted DEF RdUnlock, Counted
    <3> QED BY <1>2, <1>t, <2>0, <2>1, <3>1 DEF RdUnlock, Counted
  <2>2. CASE readers # 1
    BY <1>2, <1>t, <2>0, <2>2 DEF RdUnlock, AfterRdUnlock
  <2> QED BY <2>1, <2>2
<1>3. ASSUME NEW t \in RWThreads, Downgrade(t) PROVE (RWTypeOK /\ OneFirst /\ Ownership)'
  <2>1. CASE readers = 0
    <3>1. \A u \in RWThreads : ~Inside(u) /\ ~Waiting(u)
      BY <1>t, <2>1, NobodyCounted DEF Counted
    <3> QED BY <1>3, <1>t, <2>1, <3>1 DEF Downgrade
  <2>2. CASE readers = 1
    <3>0. PICK e : Counted = {e}
      BY <1>t, <2>2, FS_Singleton DEF CountExact
    <3>1. PICK u \in RWThreads : u \in Counted
      BY <3>0 DEF Counted
    <3>2. Waiting(u)
      BY <1>3, <1>t, <3>1 DEF Downgrade, Counted
    <3> QED BY <1>3, <1>t, <2>2, <3>2 DEF Downgrade
  <2>3. readers \in {0, 1}
    <3>1. ASSUME NEW u \in Counted PROVE u \in RWThreads /\ First(u)
      BY <1>3, <1>t, <3>1 DEF Downgrade, Counted
    <3>2. \A u, v \in Counted : u = v
      BY <1>t, <3>1
    <3> QED BY <1>t, <3>2, AtMostOne
  <2> QED BY <2>1, <2>2, <2>3
<1>4. ASSUME NEW t \in RWThreads, RdCall(t) \/ WrCall(t) PROVE (RWTypeOK /\ OneFirst /\ Ownership)'
  BY <1>4, <1>t DEF RdCall, WrCall
<1>5. ASSUME NEW t \in RWThreads, RdRb(t) PROVE (RWTypeOK /\ OneFirst /\ Ownership)'
  BY <1>5, <1>t DEF RdRb
<1>6. ASSUME NEW t \in RWThreads, RdWq(t) PROVE (RWTypeOK /\ OneFirst /\ Ownership)'
  BY <1>6, <1>t DEF RdWq
<1>7. ASSUME NEW t \in RWThreads, RdReturn(t) PROVE (RWTypeOK /\ OneFirst /\ Ownership)'
  BY <1>7, <1>t DEF RdReturn
<1>8. ASSUME NEW t \in RWThreads, RdUnlockWq(t) PROVE (RWTypeOK /\ OneFirst /\ Ownership)'
  BY <1>8, <1>t DEF RdUnlockWq, AfterRdUnlock
<1>9. ASSUME NEW t \in RWThreads, WrRb(t) PROVE (RWTypeOK /\ OneFirst /\ Ownership)'
  BY <1>9, <1>t DEF WrRb
<1>10. ASSUME NEW t \in RWThreads, WrWq(t) PROVE (RWTypeOK /\ OneFirst /\ Ownership)'
  BY <1>10, <1>t DEF WrWq
<1>11. ASSUME NEW t \in RWThreads, WrReturn(t) PROVE (RWTypeOK /\ OneFirst /\ Ownership)'
  BY <1>11, <1>t DEF WrReturn
<1>12. ASSUME NEW t \in RWThreads, WrUnlock(t) PROVE (RWTypeOK /\ OneFirst /\ Ownership)'
  BY <1>12, <1>t DEF WrUnlock
<1>13. ASSUME NEW t \in RWThreads, DgUnlock(t) PROVE (RWTypeOK /\ OneFirst /\ Ownership)'
  BY <1>13, <1>t DEF DgUnlock
<1>14. CASE UNCHANGED rwVars
  BY <1>14, <1>t DEF rwVars
<1> QED
  BY <1>1, <1>2, <1>3, <1>4, <1>5, <1>6, <1>7, <1>8, <1>9, <1>10, <1>11, <1>12, <1>13, <1>14 DEF RWNext, RWStep, RWRelease

\* The initial state satisfies the invariant.
LEMMA RWInitially == RWInit => RWInv
<1> SUFFICES ASSUME RWInit PROVE RWInv
  OBVIOUS
<1>1. Counted = {}
  BY DEF RWInit, Counted
<1>2. CountExact
  BY <1>1, FS_EmptySet DEF RWInit, CountExact
<1> QED BY <1>2 DEF RWInit, RWInv, OneFirst, Ownership, First, Exclusive, Inside, Waiting

\* The owners of wq exclude each other.
LEMMA AloneByOwnership == RWInv => WriterIsAlone
<1> SUFFICES ASSUME RWInv PROVE WriterIsAlone
  OBVIOUS
<1>1. ASSUME Writers # {} PROVE Readers = {} /\ Cardinality(Writers) = 1
  <2>1. PICK t \in RWThreads : at[t] = "writer"
    BY <1>1 DEF Writers
  <2>2. Writers = {t}
    BY <2>1 DEF RWInv, Ownership, Exclusive, Writers
  <2>3. Readers = {}
    BY <2>1 DEF RWInv, Ownership, Exclusive, Inside, Readers
  <2> QED BY <2>2, <2>3, FS_Singleton
<1>2. \A t \in RWThreads : at[t] # "panic"
  BY DEF RWInv
<1> QED BY <1>1, <1>2 DEF WriterIsAlone

\* A writer of the read-write mutex is alone and downgrade()'s assertion holds, for any set of
\* threads and any sequence of locks, upgrades and downgrades.
THEOREM WriterAlwaysAlone == RWSafety => []WriterIsAlone
<1>1. RWInv /\ [RWNext]_rwVars => RWInv'
  BY CountStep, RWStepKeeps DEF RWInv
<1> QED BY <1>1, RWInitially, AloneByOwnership, PTL DEF RWSafety
=============================================================================
