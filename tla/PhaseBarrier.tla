---------------------------- MODULE PhaseBarrier ----------------------------
(***************************************************************************)
(* What the barrier of src/zsim/src/barrier.h promises the scheduler:      *)
(* members may join and leave at any time, at most Parallel of them run at *)
(* once, a member that has synced does not run again in the same phase,    *)
(* and a phase ends only when every member waits and has had its turn.     *)
(***************************************************************************)
EXTENDS Naturals, FiniteSets

CONSTANTS Threads, Parallel, PhaseWrap

VARIABLES removals, \* may somebody else remove a waiting member?
          phase,    \* number of phases ended, modulo PhaseWrap
          out,      \* threads that are not members
          running,  \* members that simulate
          done      \* waiting members that had their turn in this phase

vars == <<removals, phase, out, running, done>>

Waiting == Threads \ (out \cup running)

Init == removals \in BOOLEAN /\ phase = 0 /\ out = Threads /\ running = {} /\ done = {}

Join(t) == /\ t \in out
           /\ out' = out \ {t}
           /\ UNCHANGED <<phase, running, done>>

\* Where members are removed the barrier may take a rejoining one for a member
\* that had its turn.
JoinLate(t) == /\ removals /\ t \in out
               /\ out' = out \ {t}
               /\ done' = done \cup {t}
               /\ UNCHANGED <<phase, running>>

Start(t) == /\ t \in Waiting \ done
            /\ Cardinality(running) < Parallel
            /\ running' = running \cup {t}
            /\ UNCHANGED <<phase, out, done>>

Sync(t) == /\ t \in running
           /\ running' = running \ {t}
           /\ done' = done \cup {t}
           /\ UNCHANGED <<phase, out>>

Leave(t) == /\ t \in running
            /\ running' = running \ {t}
            /\ out' = out \cup {t}
            /\ UNCHANGED <<phase, done>>

\* A waiting member is removed by somebody else, who cleans up after its death.
Remove(t) == /\ removals /\ t \in Waiting
             /\ out' = out \cup {t}
             /\ done' = done \ {t}
             /\ UNCHANGED <<phase, running>>

EndPhase == /\ running = {} /\ done # {} /\ Waiting \subseteq done
            /\ phase' = (phase + 1) % PhaseWrap
            /\ done' = {}
            /\ UNCHANGED <<out, running>>

Next == /\ UNCHANGED removals
        /\ \/ \E t \in Threads : \/ Join(t) \/ JoinLate(t) \/ Start(t)
                                 \/ Sync(t) \/ Leave(t) \/ Remove(t)
           \/ EndPhase

Safety == Init /\ [][Next]_vars
=============================================================================
