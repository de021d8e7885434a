------------------------------ MODULE MCUnits ------------------------------
(***************************************************************************)
(* The units without a model of their own size, on small instances: a      *)
(* behaviour is one of the unit `which'; the variables of the others keep  *)
(* their initial values.                                                   *)
(***************************************************************************)
EXTENDS FutexLock, RWMutex, FilterCache, SlabAlloc, AdaptiveEvent, Integers, TLC

CONSTANTS
    v3, w1, w2,                                 \* the line and the sets of MCSetOf
    Elems, Blocks, Width, Delays, MaxCycle      \* PrioQueue

\* FilterCache: two lines in one set, the third in another.
MCSets == {w1, w2}
MCSetOf == [v \in VLines |-> IF v = v3 THEN w2 ELSE w1]
\* Targets, rates and threads of adaptive events: also less than a phase's worth, and two threads.
MCUses == {<<4, 4, 1>>, <<9, 2, 1>>, <<10, 3, 1>>, <<12, 4, 1>>, <<2, 3, 1>>, <<9, 2, 2>>, <<3, 4, 3>>}

VARIABLES which,
    blocks, feMap, curBlock, out,
    core, prevBbl, loads, stores, branchPc, branchTaken, calls, coreAt, phaseEndCycle, globPhaseCycles, bbls, useA2, oooFailed

PQ == INSTANCE PrioQueue WITH B <- Blocks

\* A load and a store that may miss; a store, a fence and a load; a loop with a uop of three cycles.
Op(type, rs, rd, lat, ports, extraSlots, dec) ==
    [type |-> type, rs |-> rs, rd |-> rd, lat |-> lat, ports |-> ports, extraSlots |-> extraSlots, dec |-> dec]
Moves ==
    [uops |-> <<Op("load", <<1, 0>>, <<2, 0>>, 0, {2}, 0, 0), Op("storeaddr", <<1, 0>>, <<0, 0>>, 1, {2}, 0, 0),
                Op("store", <<2, 0>>, <<0, 0>>, 0, {1}, 0, 1)>>, lines |-> 1, branch |-> 0]
Fenced ==
    [uops |-> <<Op("store", <<2, 0>>, <<0, 0>>, 0, {1}, 0, 0), Op("fence", <<0, 0>>, <<0, 0>>, 3, {1}, 0, 0),
                Op("load", <<0, 0>>, <<1, 0>>, 0, {2}, 0, 2)>>, lines |-> 1, branch |-> 0]
Loop ==
    [uops |-> <<Op("general", <<0, 0>>, <<1, 0>>, 1, {1, 2}, 0, 0), Op("general", <<1, 2>>, <<1, 0>>, 2, {1}, 2, 0),
                Op("general", <<1, 0>>, <<2, 0>>, 1, {1}, 0, 0)>>, lines |-> 2, branch |-> 3]
OC == INSTANCE OOOCore WITH at <- coreAt, H <- 4, WSZ <- 3, RobSize <- 5, LsqSize <- 3, RetireWidth <- 1, UopQueue <- 3,
        ISSUES_PER_CYCLE <- 2, RF_READS_PER_CYCLE <- 1, L1D_LAT <- 2, DispatchDelay <- 2, Ports <- {1, 2}, Registers <- 0 .. 2,
        NB <- 1, HB <- 2, LB <- 1, Blocks <- {Moves, Fenced, Loop}, Takers <- {Moves}, Latency <- (-1 :> 0 @@ 1 :> 9),
        FetchLats <- {0}, FwdEntries <- 2, PhaseLength <- 12, Gaps <- {7}, MaxBbls <- 4, MaxPhases <- 1

pq == <<blocks, feMap, curBlock, out>>
oo == <<core, prevBbl, loads, stores, branchPc, branchTaken, calls, coreAt, phaseEndCycle, globPhaseCycles, bbls, useA2, oooFailed>>
units == <<which, vars, rwVars, filterVars, pq, slabVars, aeVars, oo>>

UnitsInit ==
    /\ which \in {"futex", "rwmutex", "filter", "prio", "slab", "adaptive", "core", "branches"}
    /\ Init /\ RWInit /\ FilterInit /\ PQ!Init /\ SlabInit
    /\ AEInit /\ (which # "adaptive" => target = 9 /\ maxRate = 2 /\ threads = 1)
    /\ OC!OOOInit /\ (which \notin {"core", "branches"} => useA2)

Futex == which = "futex" /\ Next /\ UNCHANGED <<which, rwVars, filterVars, pq, slabVars, aeVars, oo>>
ReaderWriter == which = "rwmutex" /\ RWNext /\ UNCHANGED <<which, vars, filterVars, pq, slabVars, aeVars, oo>>
Filter == which = "filter" /\ FilterNext /\ UNCHANGED <<which, vars, rwVars, pq, slabVars, aeVars, oo>>
Prio == which = "prio" /\ PQ!Next /\ UNCHANGED <<which, vars, rwVars, filterVars, slabVars, aeVars, oo>>
Slab == which = "slab" /\ SlabNext /\ UNCHANGED <<which, vars, rwVars, filterVars, pq, aeVars, oo>>
Adaptive == which = "adaptive" /\ AENext /\ UNCHANGED <<which, vars, rwVars, filterVars, pq, slabVars, oo>>
Core == which = "core" /\ OC!OOONext /\ UNCHANGED <<which, vars, rwVars, filterVars, pq, slabVars, aeVars>>
Branches ==
    /\ which = "branches" /\ \E pcs \in {1, 3}, taken \in BOOLEAN : OC!predict(pcs, taken)
    /\ UNCHANGED <<which, vars, rwVars, filterVars, pq, slabVars, aeVars>>
\* All events are dequeued at the last cycle, every slab is taken, the event has fired, or a bound is reached.
Done == which \in {"prio", "slab", "adaptive", "core"} /\ UNCHANGED units

UnitsNext == Futex \/ ReaderWriter \/ Filter \/ Prio \/ Slab \/ Adaptive \/ Core \/ Branches \/ Done

UnitsSpec ==
    /\ UnitsInit /\ [][UnitsNext]_units
    /\ \A t \in Threads : WF_vars(which = "futex" /\ Step(t))
    /\ \A t \in RWThreads : /\ WF_rwVars(which = "rwmutex" /\ RWStep(t))
                            /\ WF_rwVars(which = "rwmutex" /\ RWRelease(t))

\* The properties of the units, of their behaviours.
ImplementsSortedBag == PQ!Bag!Init /\ [][which = "prio" => PQ!Bag!Next \/ UNCHANGED PQ!Bag!vars]_pq

\* The out-of-order core: its window, queues, fences and branch predictor.
CoreSound ==
    /\ OC!PortsOncePerCycle /\ OC!WindowExact /\ OC!RetiresInOrder /\ OC!FencesHold
    /\ OC!PredictorLearns /\ OC!OOOAsserts
=============================================================================
