----------------------------- MODULE FutexWakes -----------------------------
(***************************************************************************)
(* The matching of futex wakes with the waits that they end: the calls     *)
(* that virt/timeout.cpp makes around SYS_futex, and the counters of       *)
(* scheduler.cpp.  A thread that woke others does not go on before as many *)
(* waiting threads have come back, so that they come back in the same      *)
(* phase.                                                                  *)
(*                                                                         *)
(* The kernel's futex (one, for all threads) is the set of the threads in  *)
(* it.                                                                     *)
(***************************************************************************)
EXTENDS Integers, FiniteSets, FiniteSetsExt

CONSTANTS
    Threads,
    Values,         \* the numbers of threads that a call asks to wake, cut to 16M
    MaxAllowed,     \* bound: no more wakes are lost when so many are allowed
    Hosts           \* what else happens, a set of any of:
                    \*   external: threads are woken by calls that nobody counts: the kernel's own
                    \*     for a thread that ends, and those of processes that fast-forward
                    \*   late: a wake is no longer waited for after two seconds
                    \*   lost: a wake fails, or returns to a process that fast-forwards

VARIABLES
    happens,        \* one of Hosts
    maxAllowedFutexWakeups, unmatchedFutexWakeups,
    pc,             \* where each thread is
    maxWakes, wokenUp,  \* futexJoin of each thread
    failed          \* the assertion of futexWakeJoin

counters == <<maxAllowedFutexWakeups, unmatchedFutexWakeups>>
futexVars == <<happens, counters, pc, maxWakes, wokenUp, failed>>

Init ==
    /\ happens \in Hosts
    /\ maxAllowedFutexWakeups = 0 /\ unmatchedFutexWakeups = 0
    /\ pc = [t \in Threads |-> "run"]
    /\ maxWakes = [t \in Threads |-> 0] /\ wokenUp = [t \in Threads |-> 0]
    /\ failed = FALSE

At(t, where) == ~failed /\ pc[t] = where
Goes(t, where) == pc' = [pc EXCEPT ![t] = where]
Waiting == {t \in Threads : pc[t] = "waiting"}

-----------------------------------------------------------------------------
(* The threads that wait. *)

Wait(t) ==
    /\ At(t, "run") /\ Goes(t, "waiting")
    /\ UNCHANGED <<counters, maxWakes, wokenUp, failed>>

\* Its timeout, or a signal: the result is not 0.
WaitEnds(t) ==
    /\ At(t, "waiting") /\ Goes(t, "run")
    /\ UNCHANGED <<counters, maxWakes, wokenUp, failed>>

\* PostPatchFutex and join(): a wait that was woken is counted, if a wake can have done it.
futexWaitJoin(t) ==
    /\ At(t, "woken") /\ Goes(t, "run")
    /\ unmatchedFutexWakeups' = IF unmatchedFutexWakeups >= maxAllowedFutexWakeups THEN unmatchedFutexWakeups
                                ELSE unmatchedFutexWakeups + 1
    /\ UNCHANGED <<maxAllowedFutexWakeups, maxWakes, wokenUp, failed>>

-----------------------------------------------------------------------------
(* The threads that wake. *)

\* PrePatchFutex.
notifyFutexWakeStart(t) ==
    /\ At(t, "run") /\ Goes(t, "wake")
    /\ \E n \in Values :
        /\ maxAllowedFutexWakeups' = maxAllowedFutexWakeups + n
        /\ maxWakes' = [maxWakes EXCEPT ![t] = n]
    /\ UNCHANGED <<unmatchedFutexWakeups, wokenUp, failed>>

\* The kernel wakes as many as it can.
Wakes(t) ==
    /\ At(t, "wake")
    /\ \E woken \in SUBSET Waiting :
        /\ Cardinality(woken) = Min({maxWakes[t], Cardinality(Waiting)})
        /\ wokenUp' = [wokenUp EXCEPT ![t] = Cardinality(woken)]
        /\ pc' = [w \in Threads |-> IF w \in woken THEN "woken" ELSE IF w = t THEN "join" ELSE pc[w]]
    /\ UNCHANGED <<counters, maxWakes, failed>>

\* Nobody takes the allowance back.
WakeIsLost(t) ==
    /\ "lost" \in happens /\ maxAllowedFutexWakeups <= MaxAllowed /\ (At(t, "wake") \/ At(t, "join")) /\ Goes(t, "run")
    /\ maxWakes' = [maxWakes EXCEPT ![t] = 0]
    /\ wokenUp' = [wokenUp EXCEPT ![t] = 0]
    /\ UNCHANGED <<counters, failed>>

WokenExternally(t) ==
    /\ "external" \in happens /\ At(t, "waiting") /\ Goes(t, "woken")
    /\ UNCHANGED <<counters, maxWakes, wokenUp, failed>>

\* notifyFutexWakeEnd and the start of futexWakeJoin.
futexWakeJoin(t) ==
    /\ At(t, "join") /\ Goes(t, "match")
    /\ maxAllowedFutexWakeups' = maxAllowedFutexWakeups - (maxWakes[t] - wokenUp[t])
    /\ failed' = (unmatchedFutexWakeups > maxAllowedFutexWakeups')
    /\ maxWakes' = [maxWakes EXCEPT ![t] = 0]
    /\ UNCHANGED <<unmatchedFutexWakeups, wokenUp>>

\* It looks at the counter without schedLock, and again with it.
Matched(t) ==
    /\ At(t, "match") /\ wokenUp[t] <= unmatchedFutexWakeups
    /\ unmatchedFutexWakeups' = unmatchedFutexWakeups - wokenUp[t]
    /\ maxAllowedFutexWakeups' = maxAllowedFutexWakeups - wokenUp[t]
    /\ wokenUp' = [wokenUp EXCEPT ![t] = 0]
    /\ Goes(t, "run")
    /\ UNCHANGED <<maxWakes, failed>>

\* Two seconds are over; schedLock is still to be taken.
Late(t) ==
    /\ "late" \in happens /\ At(t, "match") /\ wokenUp[t] > unmatchedFutexWakeups
    /\ Goes(t, "late")
    /\ UNCHANGED <<counters, maxWakes, wokenUp, failed>>

\* Mutant: whoever gives up takes back all that it was allowed to wake.
GivesUpAll(t) ==
    /\ At(t, "late") /\ Goes(t, "run")
    /\ unmatchedFutexWakeups' = 0
    /\ maxAllowedFutexWakeups' = maxAllowedFutexWakeups - wokenUp[t] - 1
    /\ wokenUp' = [wokenUp EXCEPT ![t] = 0]
    /\ UNCHANGED <<maxWakes, failed>>

\* Matching failed: forget those who came back, also for others.
GivesUp(t) ==
    /\ At(t, "late") /\ Goes(t, "run")
    /\ unmatchedFutexWakeups' = 0
    /\ maxAllowedFutexWakeups' = maxAllowedFutexWakeups - wokenUp[t]
    /\ wokenUp' = [wokenUp EXCEPT ![t] = 0]
    /\ UNCHANGED <<maxWakes, failed>>

Next ==
    /\ UNCHANGED happens
    /\ \E t \in Threads :
        \/ Wait(t) \/ WaitEnds(t) \/ futexWaitJoin(t) \/ notifyFutexWakeStart(t) \/ Wakes(t) \/ WakeIsLost(t)
        \/ WokenExternally(t) \/ futexWakeJoin(t) \/ Matched(t) \/ Late(t) \/ GivesUp(t)

Spec == Init /\ [][Next]_futexVars

-----------------------------------------------------------------------------
\* The allowance, an unsigned number, covers what the threads in a wake will still take from
\* it, and is that as long as no wake is lost.
AllowanceCovers ==
    LET owed == MapThenSumSet(LAMBDA t : IF maxWakes[t] > 0 THEN maxWakes[t] ELSE wokenUp[t], Threads) IN
    /\ maxAllowedFutexWakeups >= owed
    /\ "lost" \notin happens => maxAllowedFutexWakeups = owed

\* As long as every wake is counted, and in time, whoever is woken and not yet back is waited
\* for: no wake is matched with fewer threads than it woke, and each is matched in the end.
WakesMatch ==
    happens = {} =>
        MapThenSumSet(LAMBDA t : wokenUp[t], Threads)
            = unmatchedFutexWakeups + Cardinality({t \in Threads : pc[t] = "woken"})

\* The assertion of futexWakeJoin, "assert(unmatchedFutexWakeups <= maxAllowedFutexWakeups);
\* // should panic...".
FutexAssertHolds == ~failed

\* It holds if no thread comes back that no wake is waiting for.
FutexSound ==
    /\ AllowanceCovers
    /\ WakesMatch
    /\ happens \subseteq {"lost"} => FutexAssertHolds
=============================================================================
