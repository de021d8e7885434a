---------------------------- MODULE MCScheduler ----------------------------
(* Three threads, of which one may use only the second of two contexts, or *)
(* three threads that share one context.                                   *)
EXTENDS Scheduler

CONSTANTS t1, t2, t3

TwoContexts == 0 .. 1
LastIsPinned == [t \in Threads |-> IF t = t3 THEN {1} ELSE {0, 1}]
OneContext == 0 .. 0
SharedContext == [t \in Threads |-> {0}]
=============================================================================
