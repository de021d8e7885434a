----------------------------- MODULE SlabAlloc -----------------------------
(***************************************************************************)
(* The slab allocator of an event recorder (slab_alloc.h): the core's      *)
(* thread allocates its timing events in the bound phase; in the weave     *)
(* phase any simulation thread frees them as they are done, and whoever    *)
(* frees the last event of a slab recycles the slab.                       *)
(*                                                                         *)
(* A crossing event (timing_event.h) holds a second event, cpe, in its own *)
(* storage; done() frees each of the two.                                  *)
(***************************************************************************)
EXTENDS Naturals, Sequences, FiniteSets, SequencesExt

CONSTANTS
    Slabs,      \* bound: slabs ever taken from the global heap
    SlabSize,       \* sizeof(buf)
    Sizes,      \* sizes of an element
    SimThreads,    \* simulation threads
    Crossings   \* are crossing events produced (more than one domain)?

\* An event has a vtable and more.
ASSUME SlabsAssumption == Slabs # {} /\ \A n \in Sizes : n \in Nat /\ n > 1

VARIABLES
    fresh,      \* slabs not yet allocated
    liveElems, usedBytes,   \* of each slab
    curSlab, freeList, liveSlabs,
    phase,      \* "bound" or "weave"
    freeing,    \* the slab each thread is in freeSlab() for, a set of at most one
    plain, crossing, half,  \* events of each slab not yet done (a history): half are the
                            \* crossings whose cpe is done
    slabFailed

slabVars == <<fresh, liveElems, usedBytes, curSlab, freeList, liveSlabs, phase, freeing, plain, crossing, half, slabFailed>>
events == <<plain, crossing, half>>

SlabInit ==
    /\ curSlab = CHOOSE s \in Slabs : TRUE
    /\ fresh = Slabs \ {curSlab}
    /\ liveElems = [s \in Slabs |-> 0] /\ usedBytes = [s \in Slabs |-> 0]
    /\ freeList = <<>> /\ liveSlabs = 1
    /\ phase = "bound" /\ freeing = [t \in SimThreads |-> {}]
    /\ plain = [s \in Slabs |-> 0] /\ crossing = [s \in Slabs |-> 0] /\ half = [s \in Slabs |-> 0]
    /\ slabFailed = FALSE

\* An event, or a crossing event, of n bytes goes to slab s, which had `used' bytes in use.
Place(s, used, n) ==
    /\ liveElems' = [liveElems EXCEPT ![s] = @ + 1]
    /\ usedBytes' = [usedBytes EXCEPT ![curSlab] = usedBytes[curSlab] + n, ![s] = used + n]
    /\ \/ plain' = [plain EXCEPT ![s] = @ + 1] /\ UNCHANGED crossing
       \/ Crossings /\ crossing' = [crossing EXCEPT ![s] = @ + 1] /\ UNCHANGED plain
    /\ UNCHANGED half

alloc(n) ==
    /\ phase = "bound" /\ ~slabFailed
    /\ \/ /\ usedBytes[curSlab] + n < SlabSize
          /\ Place(curSlab, usedBytes[curSlab], n)
          /\ UNCHANGED <<fresh, curSlab, freeList, liveSlabs>>
       \/ /\ usedBytes[curSlab] + n >= SlabSize
          /\ freeList # <<>>
          /\ curSlab' = Last(freeList) /\ freeList' = Front(freeList)
          /\ Place(Last(freeList), usedBytes[Last(freeList)], n)
          /\ liveSlabs' = liveSlabs + 1
          /\ UNCHANGED fresh
       \/ /\ usedBytes[curSlab] + n >= SlabSize
          /\ freeList = <<>>
          /\ \E s \in fresh : curSlab' = s /\ fresh' = fresh \ {s} /\ Place(s, 0, n)
          /\ liveSlabs' = liveSlabs + 1
          /\ UNCHANGED freeList
    /\ UNCHANGED <<phase, freeing, slabFailed>>

\* ContentionSim::simulatePhase
Switch ==
    /\ ~slabFailed /\ \A t \in SimThreads : freeing[t] = {}
    /\ phase' = IF phase = "bound" THEN "weave" ELSE "bound"
    /\ UNCHANGED <<fresh, liveElems, usedBytes, curSlab, freeList, liveSlabs, freeing, events, slabFailed>>

\* Mutant: the thread that finds no element left recycles, whoever freed the last one.
FetchSubReads(t, s) ==
    /\ liveElems' = [liveElems EXCEPT ![s] = @ - 1]
    /\ freeing' = [freeing EXCEPT ![t] = IF liveElems[s] <= 2 THEN {s} ELSE {}]
    /\ UNCHANGED slabFailed

FetchSub(t, s) ==
    /\ slabFailed' = ~(liveElems[s] > 0 /\ liveElems[s] < usedBytes[s])
    /\ liveElems' = [liveElems EXCEPT ![s] = IF @ > 0 THEN @ - 1 ELSE @]
    /\ freeing' = [freeing EXCEPT ![t] = IF liveElems[s] = 1 THEN {s} ELSE {}]

\* An event of slab s is done and freed; a crossing only after its cpe.
freeElem(t, s) ==
    /\ phase = "weave" /\ ~slabFailed /\ freeing[t] = {}
    /\ \/ /\ plain[s] > 0
          /\ plain' = [plain EXCEPT ![s] = @ - 1] /\ UNCHANGED <<crossing, half>>
       \/ /\ crossing[s] > 0
          /\ crossing' = [crossing EXCEPT ![s] = @ - 1] /\ half' = [half EXCEPT ![s] = @ + 1]
          /\ UNCHANGED plain
       \/ /\ half[s] > 0
          /\ half' = [half EXCEPT ![s] = @ - 1] /\ UNCHANGED <<plain, crossing>>
    /\ FetchSub(t, s)
    /\ UNCHANGED <<fresh, usedBytes, curSlab, freeList, liveSlabs, phase>>

freeSlab(t) ==
    \E s \in freeing[t] :
        /\ ~slabFailed
        /\ liveElems' = [liveElems EXCEPT ![s] = 0] /\ usedBytes' = [usedBytes EXCEPT ![s] = 0]
        /\ IF s # curSlab
           THEN freeList' = Append(freeList, s) /\ liveSlabs' = liveSlabs - 1
           ELSE UNCHANGED <<freeList, liveSlabs>>
        /\ slabFailed' = (liveSlabs' = 0)
        /\ freeing' = [freeing EXCEPT ![t] = {}]
        /\ UNCHANGED <<fresh, curSlab, phase, events>>

SlabNext ==
    \/ \E n \in Sizes : alloc(n)
    \/ Switch
    \/ \E t \in SimThreads : freeSlab(t) \/ \E s \in Slabs : freeElem(t, s)

SlabSpec == SlabInit /\ [][SlabNext]_slabVars

-----------------------------------------------------------------------------
\* "Slabs are garbage-collected once all their events are done": no slab that is free, or
\* on its way there, holds an event that is not done.
RecycledAreEmpty ==
    \A s \in Slabs : plain[s] + crossing[s] + half[s] > 0 =>
        s \notin Range(freeList) \cup UNION {freeing[t] : t \in SimThreads}
=============================================================================
