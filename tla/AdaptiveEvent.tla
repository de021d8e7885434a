--------------------------- MODULE AdaptiveEvent ---------------------------
(***************************************************************************)
(* The event that ends a fast-forward interval, or dumps statistics, when  *)
(* a count of instructions has reached its target (event_queue.h): it      *)
(* estimates the phase to look at the count again from the highest rate at *)
(* which the count can grow.                                               *)
(***************************************************************************)
EXTENDS Naturals

CONSTANT Uses   \* a target, a maxRate, instructions per phase, and the threads that are counted

UsesAssumption == \A u \in Uses : u \in Nat \X (Nat \ {0}) \X (Nat \ {0})

VARIABLES
    target, maxRate,
    threads,        \* of the process: its count grows by up to maxRate for each, a core's rate
    cur, prev,      \* the count at the end of the last phase, and of the one before
    due,            \* ends of phases to come before the one that calls back
    fired, aeFailed

aeVars == <<target, maxRate, threads, cur, prev, due, fired, aeFailed>>

\* Mutant: rounded to the phase after the target.
periodOver(left) == left \div maxRate + 1

period(left) == IF left \div maxRate = 0 THEN 1 ELSE left \div maxRate

\* Inserted in the middle of a phase, whose end does not count in the period.
AEInit ==
    /\ \E u \in Uses : target = u[1] /\ maxRate = u[2] /\ threads = u[3]
    /\ cur = 0 /\ prev = 0 /\ due = period(target)
    /\ fired = FALSE /\ aeFailed = FALSE

\* A phase of n instructions, and tick() at its end.
Waits(n) ==
    /\ ~fired /\ n <= threads * maxRate /\ due > 0
    /\ cur' = cur + n /\ prev' = cur /\ due' = due - 1
    /\ UNCHANGED <<target, maxRate, threads, fired, aeFailed>>

callback(n) ==
    /\ ~fired /\ n <= threads * maxRate /\ due = 0
    /\ cur' = cur + n /\ prev' = cur
    /\ IF cur' >= target
       THEN fired' = TRUE /\ aeFailed' = (cur' - target > maxRate) /\ UNCHANGED due
       ELSE due' = period(target - cur') - 1 /\ UNCHANGED <<fired, aeFailed>>
    /\ UNCHANGED <<target, maxRate, threads>>

AENext == \E n \in 0 .. threads * maxRate : Waits(n) \/ callback(n)
AESpec == AEInit /\ [][AENext]_aeVars

-----------------------------------------------------------------------------
\* "Adjusts period to fire on the first phase following the target": with one thread and a
\* target of at least a phase, no phase begins with the target exceeded and the event pending,
\* and the assertion of callback() holds. It may fail (event_queue.h:68) if the target is less
\* than a phase's worth, which the next end of phase does not look at, or if the process has
\* several threads, as "non-FF can be MT" (zsim.cpp:264): the event is then late by at most that
\* factor.
FiresInTime ==
    /\ aeFailed => target < maxRate \/ threads > 1
    /\ prev <= threads * (IF target < maxRate THEN maxRate ELSE target)
=============================================================================
