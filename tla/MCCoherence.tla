---------------------------- MODULE MCCoherence ----------------------------
(* A hierarchy for TLC.  Each cache is a number; a map gives each its parent. *)
EXTENDS Coherence, TLC

CONSTANTS c1, c2, l1, l2

\* Two cores of different kinds over a last level of two banks, 1 and 2, which the lines
\* are hashed to (MESIBottomCC::getParentId): c1 has a second level, 3, with a data cache
\* and an instruction cache, 4 and 5; c2 has one data cache, 6.
BankedParent == [c \in 1 .. 6 |-> [l \in Lines |-> CASE c \in {1, 2} -> Memory
                                                     [] c \in {4, 5} -> 3
                                                     [] l = l1 -> 1
                                                     [] OTHER -> 2]]
CoreTerminals == c1 :> {4, 5} @@ c2 :> {6}

\* The last level is at level 2.
MCLevel == [c \in 1 .. 6 |-> IF c \in {1, 2} THEN 2 ELSE IF c = 3 THEN 1 ELSE 0]

OneWay == [c \in Caches |-> 1]
=============================================================================
