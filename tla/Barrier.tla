------------------------------ MODULE Barrier ------------------------------
(***************************************************************************)
(* The phase barrier of src/zsim/src/barrier.h.  Its three operations run  *)
(* under the scheduler's lock; a member that has to wait releases the lock *)
(* first, tests its own state without it and sleeps on its own futex word, *)
(* so every store another thread may see in between is an action.          *)
(*                                                                         *)
(* Indices are 1-based here: cur is curThreadIdx + 1 and runList is a      *)
(* sequence whose length is runListSize.  Entries of the array beyond      *)
(* runListSize are never read.                                             *)
(***************************************************************************)
EXTENDS Naturals, Sequences, FiniteSets, SequencesExt

CONSTANTS Threads,        \* the barrier's tids (the scheduler passes core ids)
          NoThread,       \* nobody holds the lock
          Parallel,       \* parallelThreads
          CleanupPeriod   \* LEFT threads go OFFLINE one phase in so many (32)

ASSUME ThreadsAssumption == IsFiniteSet(Threads)
ASSUME ParallelAssumption == Parallel \in Nat \ {0}
ASSUME CleanupAssumption == CleanupPeriod \in Nat \ {0}
ASSUME NoThreadAssumption == NoThread \notin Threads

VARIABLES state, futexWord, lastIdx,           \* threadList[]
          runList, cur,                        \* runList, runListSize, curThreadIdx
          runningThreads, leftThreads,
          phaseCount,                          \* modulo CleanupPeriod
          holder,                              \* who holds schedLock
          op, target,                          \* its operation, and whom it wakes
          pc,                                  \* where each thread is in the code
          kills                                \* may a cleaner remove waiting members?

vars == <<state, futexWord, lastIdx, runList, cur, runningThreads, leftThreads,
          phaseCount, holder, pc, op, target, kills>>
list == <<runList, cur>>
counts == <<runningThreads, leftThreads>>

States == {"OFFLINE", "WAITING", "RUNNING", "LEFT"}
Locked == {"scan1", "cas1", "wake1", "endphase", "scan2", "cas2", "wake2", "unlock"}
Blocked == {"check", "wait", "asleep", "interrupted", "resume"}
Labels == {"out", "running", "panic", "swapfailed"} \cup Locked \cup Blocked

Init == /\ state = [t \in Threads |-> "OFFLINE"]
        /\ futexWord = [t \in Threads |-> 0]
        /\ lastIdx = [t \in Threads |-> 1]
        /\ runList = <<>> /\ cur = 1
        /\ runningThreads = 0 /\ leftThreads = 0 /\ phaseCount = 0
        /\ holder = NoThread
        /\ pc = [t \in Threads |-> "out"]
        /\ op = "none" /\ target = NoThread
        /\ kills \in BOOLEAN

GoTo(t, l) == pc' = [pc EXCEPT ![t] = l]
Enter(t, o) == /\ holder = NoThread
               /\ holder' = t
               /\ op' = o

----------------------------------------------------------------------------
(* The three operations, up to their call of tryWakeNext. *)

JoinNew(t) == /\ state[t] = "OFFLINE"
              /\ runList' = Append(runList, t)
              /\ UNCHANGED <<cur, lastIdx, leftThreads>>

\* Mutant: a member that rejoins is still counted as having left.
JoinAgainCountsLeft(t) ==
    /\ state[t] = "LEFT"
    /\ UNCHANGED leftThreads
    /\ IF cur > lastIdx[t]
       THEN LET other == runList[cur - 1] IN
            /\ cur' = cur - 1
            /\ runList' = [runList EXCEPT ![lastIdx[t]] = other, ![cur - 1] = t]
            /\ lastIdx' = [lastIdx EXCEPT ![other] = lastIdx[t], ![t] = cur - 1]
       ELSE UNCHANGED <<cur, runList, lastIdx>>

\* Mutant: the cursor goes back to where the member was, over all that ran since.
JoinAgainRewinds(t) ==
    /\ state[t] = "LEFT"
    /\ leftThreads' = leftThreads - 1
    /\ cur' = IF cur > lastIdx[t] THEN lastIdx[t] ELSE cur
    /\ UNCHANGED <<runList, lastIdx>>

\* A member that already had its turn in this phase swaps places with the last
\* thread that had, and is considered next.
JoinAgain(t) ==
    /\ state[t] = "LEFT"
    /\ leftThreads' = leftThreads - 1
    /\ IF cur > lastIdx[t]
       THEN LET other == runList[cur - 1] IN
            /\ cur' = cur - 1
            /\ runList' = [runList EXCEPT ![lastIdx[t]] = other, ![cur - 1] = t]
            /\ lastIdx' = [lastIdx EXCEPT ![other] = lastIdx[t], ![t] = cur - 1]
       ELSE UNCHANGED <<cur, runList, lastIdx>>

\* The assertion of the swap, barrier.h:137.
SwapAssert(t) == state[t] = "LEFT" /\ cur > lastIdx[t]
                    => lastIdx[t] \in DOMAIN runList /\ runList[lastIdx[t]] = t

Join(t) == /\ pc[t] = "out"
           /\ Enter(t, "join")
           /\ IF SwapAssert(t)
              THEN /\ JoinNew(t) \/ JoinAgain(t)
                   /\ state' = [state EXCEPT ![t] = "WAITING"]
                   /\ futexWord' = [futexWord EXCEPT ![t] = 1]
                   /\ GoTo(t, "scan1")
              ELSE /\ GoTo(t, "swapfailed")
                   /\ UNCHANGED <<state, futexWord, lastIdx, list, leftThreads>>
           /\ UNCHANGED <<runningThreads, phaseCount, target>>

\* Mutant: the futex word of the last wait is left at 0.
SyncKeepsWord(t) == /\ pc[t] = "running"
                    /\ Enter(t, "sync")
                    /\ state' = [state EXCEPT ![t] = "WAITING"]
                    /\ runningThreads' = runningThreads - 1
                    /\ GoTo(t, "scan1")
                    /\ UNCHANGED <<futexWord, lastIdx, list, leftThreads, phaseCount, target>>

Sync(t) == /\ pc[t] = "running"
           /\ Enter(t, "sync")
           /\ futexWord' = [futexWord EXCEPT ![t] = 1]
           /\ state' = [state EXCEPT ![t] = "WAITING"]
           /\ runningThreads' = runningThreads - 1
           /\ GoTo(t, "scan1")
           /\ UNCHANGED <<lastIdx, list, leftThreads, phaseCount, target>>

Leave(t) == /\ pc[t] = "running"
            /\ Enter(t, "leave")
            /\ state' = [state EXCEPT ![t] = "LEFT"]
            /\ leftThreads' = leftThreads + 1
            /\ runningThreads' = runningThreads - 1
            /\ GoTo(t, "scan1")
            /\ UNCHANGED <<futexWord, lastIdx, list, phaseCount, target>>

\* leave() for a member that waits: only the scheduler's processCleanup calls
\* it so, for a thread that a signal killed while it was blocked.  It does not
\* call tryWakeNext; QuietWhenFree says why there would be nothing to do.
LeaveWaiting(t) == /\ kills /\ pc[t] \in Blocked /\ state[t] = "WAITING"
                   /\ holder = NoThread
                   /\ state' = [state EXCEPT ![t] = "LEFT"]
                   /\ leftThreads' = leftThreads + 1
                   /\ GoTo(t, "out")
                   /\ UNCHANGED <<futexWord, lastIdx, list, runningThreads,
                                  phaseCount, holder, op, target>>

----------------------------------------------------------------------------
(* tryWakeNext: checkRunList, checkEndPhase, checkRunList. *)

Scanning(t) == pc[t] \in {"scan1", "scan2"}
Second(t) == pc[t] \in {"scan2", "cas2", "wake2"}

MoreToWake == runningThreads < Parallel /\ cur <= Len(runList)

Skip(t) == /\ Scanning(t) /\ MoreToWake
           /\ state[runList[cur]] # "WAITING"
           /\ cur' = cur + 1
           /\ UNCHANGED <<state, futexWord, lastIdx, runList, counts, phaseCount,
                          holder, pc, op, target>>

\* The state is stored before the futex word "to avoid wakeup race".
SetRunning(t) ==
    /\ Scanning(t) /\ MoreToWake
    /\ \E w \in Threads :
       /\ w = runList[cur] /\ state[w] = "WAITING"
       /\ state' = [state EXCEPT ![w] = "RUNNING"]
       /\ lastIdx' = [lastIdx EXCEPT ![w] = cur]
       /\ target' = w
    /\ cur' = cur + 1
    /\ GoTo(t, IF Second(t) THEN "cas2" ELSE "cas1")
    /\ UNCHANGED <<futexWord, runList, counts, phaseCount, holder, op>>

CasWord(t) == /\ pc[t] \in {"cas1", "cas2"}
              /\ IF futexWord[target] = 1
                 THEN /\ futexWord' = [futexWord EXCEPT ![target] = 0]
                      /\ GoTo(t, IF Second(t) THEN "wake2" ELSE "wake1")
                 ELSE /\ GoTo(t, "panic")
                      /\ UNCHANGED futexWord
              /\ UNCHANGED <<state, lastIdx, list, counts, phaseCount, holder, op, target>>

\* Mutant: the word is cleared but the sleeper not woken.
WakeWordForgets(t) ==
    /\ pc[t] \in {"wake1", "wake2"}
    /\ GoTo(t, IF Second(t) THEN "scan2" ELSE "scan1")
    /\ runningThreads' = runningThreads + 1
    /\ target' = NoThread
    /\ UNCHANGED <<state, futexWord, lastIdx, list, leftThreads, phaseCount, holder, op>>

\* The waking thread may be the one it wakes: then it is not asleep.
WakeWord(t) == /\ pc[t] \in {"wake1", "wake2"}
               /\ LET w == target
                      back == [pc EXCEPT ![t] = IF Second(t) THEN "scan2" ELSE "scan1"]
                  IN  pc' = IF pc[w] = "asleep" THEN [back EXCEPT ![w] = "resume"] ELSE back
               /\ runningThreads' = runningThreads + 1
               /\ target' = NoThread
               /\ UNCHANGED <<state, futexWord, lastIdx, list, leftThreads, phaseCount,
                              holder, op>>

ScanDone(t) == /\ Scanning(t) /\ ~MoreToWake
               /\ GoTo(t, IF Second(t) THEN "unlock" ELSE "endphase")
               /\ UNCHANGED <<state, futexWord, lastIdx, list, counts, phaseCount,
                              holder, op, target>>

----------------------------------------------------------------------------
(* checkEndPhase. *)

PhaseOver == cur = Len(runList) + 1 /\ runningThreads = 0 /\ leftThreads # Len(runList)

\* Mutant: the entry moved into the hole is not looked at again.
CleanupRoundSkips(acc) ==
    LET last == acc.lst[Len(acc.lst)] IN
    IF acc.idx > Len(acc.lst) THEN acc
    ELSE IF state[acc.lst[acc.idx]] = "LEFT"
    THEN [idx |-> acc.idx + 1,
          lst |-> Front([acc.lst EXCEPT ![acc.idx] = last]),
          pos |-> [acc.pos EXCEPT ![last] = acc.idx]]
    ELSE [acc EXCEPT !.idx = @ + 1]

\* The cleanup pass: each round looks at one entry and either keeps it or
\* overwrites it with the last entry and drops that one.
CleanupRound(acc) ==
    LET last == acc.lst[Len(acc.lst)] IN
    IF state[acc.lst[acc.idx]] = "LEFT"
    THEN [idx |-> acc.idx,
          lst |-> Front([acc.lst EXCEPT ![acc.idx] = last]),
          pos |-> [acc.pos EXCEPT ![last] = acc.idx]]
    ELSE [acc EXCEPT !.idx = @ + 1]

\* After so many rounds; each leaves one entry less to look at.
CleanupRounds[n \in 0 .. Len(runList)] ==
    IF n = 0 THEN [idx |-> 1, lst |-> runList, pos |-> lastIdx]
             ELSE CleanupRound(CleanupRounds[n - 1])
Cleanup == CleanupRounds[Len(runList)]

\* Every outcome of the Fisher-Yates shuffle of l, and the lastIdx it stores: the
\* loop stops at the second entry, so an entry that stays first is not touched.
Shuffles(l) == {s \in [DOMAIN l -> Threads] : IsInjective(s) /\ ToSet(s) = ToSet(l)}
IndexIn(s, t) == CHOOSE i \in DOMAIN s : s[i] = t
Shuffled(l, s, pos) ==
    [t \in Threads |-> IF t \in ToSet(s) /\ ~(l[1] = t /\ s[1] = t) THEN IndexIn(s, t)
                       ELSE pos[t]]

EndPhase(t) ==
    /\ pc[t] = "endphase" /\ PhaseOver
    /\ cur' = 1
    /\ phaseCount' = (phaseCount + 1) % CleanupPeriod
    /\ LET clean == phaseCount = 0
           kept == IF clean THEN Cleanup.lst ELSE runList
           pos == IF clean THEN Cleanup.pos ELSE lastIdx
       IN  /\ IF clean
              THEN /\ state' = [u \in Threads |-> IF state[u] = "LEFT" THEN "OFFLINE" ELSE state[u]]
                   /\ leftThreads' = 0
              ELSE UNCHANGED <<state, leftThreads>>
           /\ IF Parallel < Len(kept)
              THEN \E s \in Shuffles(kept) : runList' = s /\ lastIdx' = Shuffled(kept, s, pos)
              ELSE runList' = kept /\ lastIdx' = pos
    /\ GoTo(t, "scan2")
    /\ UNCHANGED <<futexWord, runningThreads, holder, op, target>>

NotEndPhase(t) == /\ pc[t] = "endphase" /\ ~PhaseOver
                  /\ GoTo(t, "scan2")
                  /\ UNCHANGED <<state, futexWord, lastIdx, list, counts, phaseCount,
                                 holder, op, target>>

----------------------------------------------------------------------------
(* After tryWakeNext: release the lock, then block if still WAITING. *)

Unlock(t) == /\ pc[t] = "unlock"
             /\ holder' = NoThread /\ op' = "none"
             /\ GoTo(t, IF op = "leave" THEN "out" ELSE "check")
             /\ UNCHANGED <<state, futexWord, lastIdx, list, counts, phaseCount, target>>

Shared == <<state, futexWord, lastIdx, runList, cur, runningThreads, leftThreads,
            phaseCount, holder, op, target>>

CheckState(t) == /\ pc[t] = "check"
                 /\ GoTo(t, IF state[t] = "WAITING" THEN "wait" ELSE "running")
                 /\ UNCHANGED Shared

\* FUTEX_WAIT(1): sleeps only if the word is still 1, else EAGAIN and the loop ends.
FutexWait(t) == /\ pc[t] = "wait"
                /\ GoTo(t, IF futexWord[t] = 1 THEN "asleep" ELSE "resume")
                /\ UNCHANGED Shared

\* A signal makes FUTEX_WAIT fail: the loop tests the word again.
Interrupt(t) == /\ pc[t] = "asleep"
                /\ GoTo(t, "interrupted")
                /\ UNCHANGED Shared

Retest(t) == /\ pc[t] = "interrupted"
             /\ GoTo(t, IF futexWord[t] = 1 THEN "wait" ELSE "resume")
             /\ UNCHANGED Shared

\* assert(threadList[tid].state == RUNNING)
Resume(t) == /\ pc[t] = "resume"
             /\ GoTo(t, IF state[t] = "RUNNING" THEN "running" ELSE "panic")
             /\ UNCHANGED Shared

----------------------------------------------------------------------------
Inside(t) == \/ Skip(t) \/ SetRunning(t) \/ CasWord(t) \/ WakeWord(t) \/ ScanDone(t)
             \/ EndPhase(t) \/ NotEndPhase(t) \/ Unlock(t)
Outside(t) == CheckState(t) \/ FutexWait(t) \/ Retest(t) \/ Resume(t)

\* A failed assertion of the swap, with the lock held, ends the program.
Aborted == holder # NoThread /\ pc[holder] = "swapfailed" /\ UNCHANGED vars

Next == \/ /\ UNCHANGED kills
           /\ \E t \in Threads : \/ Join(t) \/ Sync(t) \/ Leave(t) \/ LeaveWaiting(t)
                                 \/ Inside(t) \/ Outside(t) \/ Interrupt(t)
        \/ Aborted

Safety == Init /\ [][Next]_vars

\* The lock holder and every waiter keep executing; a core that runs infinitely
\* often reaches the end of its phase infinitely often, because what it simulates
\* advances its clock (it may leave and rejoin any finite number of times first).
Spec == Safety /\ \A t \in Threads : /\ WF_vars(UNCHANGED kills /\ Inside(t))
                                     /\ WF_vars(UNCHANGED kills /\ Outside(t))
                                     /\ SF_vars(UNCHANGED kills /\ Sync(t))

----------------------------------------------------------------------------
(* Properties. *)

InState(x) == {t \in Threads : state[t] = x}

\* The threads whose place in the run list the cursor has passed in this phase.
Passed == {runList[i] : i \in 1 .. cur - 1}

\* The wakeup CAS never finds a word at 0 ("Wakeup race in barrier?") and a waiter
\* leaves its wait only when RUNNING, although it tests its state and its futex
\* word without the lock.
NoWakeupRace == \A t \in Threads : pc[t] # "panic"

\* The assertion of a rejoin, assert(tid == runList[lastIdx]) (barrier.h:137).
SwapAssertHolds == \A t \in Threads : pc[t] # "swapfailed"

\* The counters are the numbers of threads they stand for; runningThreads lags by
\* one between a thread's change of state and the end of its wakeup.
CountersMatch ==
    /\ leftThreads = Cardinality(InState("LEFT"))
    /\ Cardinality(InState("RUNNING")) =
          runningThreads + IF target = NoThread THEN 0 ELSE 1

\* "The barrier limits the number of threads that run at the same time."
ParallelismControl == Cardinality(InState("RUNNING")) <= Parallel

\* The run list holds every thread that is not OFFLINE exactly once, and a thread
\* that left finds itself where lastIdx says, after any number of cleanups,
\* shuffles and swaps: rejoin depends on it, unless waiting members are removed.
RunListSound ==
    /\ IsInjective(runList)
    /\ ToSet(runList) = Threads \ InState("OFFLINE")
    /\ ~kills => \A t \in InState("LEFT") :
          lastIdx[t] \in DOMAIN runList /\ runList[lastIdx[t]] = t

\* The cleanup drops as many members as are counted to have left: its assertion,
\* barrier.h:231.
CleanupAssertHolds ==
    (\E t \in Threads : pc[t] = "endphase") /\ PhaseOver /\ phaseCount = 0 =>
        Len(runList) - Len(Cleanup.lst) = leftThreads

\* What every release of the lock leaves behind: no thread to wake and no phase to
\* end.  Whoever changes the list next need look only at what it changed.
QuietWhenFree == holder = NoThread => ~MoreToWake /\ ~PhaseOver

ListSound == RunListSound /\ CleanupAssertHolds /\ QuietWhenFree

\* A member that waits gets to run, however the others leave, rejoin and sync, if
\* nobody is removed.
EveryWaiterRuns == \A t \in Threads : (~kills /\ state[t] = "WAITING") ~> state[t] = "RUNNING"

\* Every step is a step of the abstract barrier, with the members that have
\* synced being those that wait behind the cursor: nobody runs twice in a phase
\* and a phase ends only when every member has synced in it.  Only where members are
\* removed one may rejoin behind the cursor, with an old lastIdx, and miss its turn.
AsPhaseBarrier == INSTANCE PhaseBarrier WITH
    PhaseWrap <- CleanupPeriod, removals <- kills, phase <- phaseCount,
    out <- InState("OFFLINE") \cup InState("LEFT"),
    running <- InState("RUNNING"),
    done <- InState("WAITING") \cap Passed

ImplementsPhaseBarrier == AsPhaseBarrier!Safety
=============================================================================
