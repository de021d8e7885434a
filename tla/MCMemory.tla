------------------------------ MODULE MCMemory ------------------------------
(***************************************************************************)
(* The data structures of the memory system on small instances: a          *)
(* behaviour is one of the structure `which'; the variables of the others  *)
(* keep their initial values.                                              *)
(***************************************************************************)
EXTENDS Integers, TLC

CONSTANTS
    Addrs3, Addrs4, Addrs5, NoLine,
    z1, z2, z3, z4, z5, z6,             \* addresses told apart by their hashes
    Signatures, PCs

VARIABLES
    which,
    policy, tag, valid, shared, timestamp, array, acc, youngLines, ops, used, shifts,           \* StampRepl
    ripPolicy, ripTag, rrpv, SHCT, signature, is_rereferenced, ripOps, inserted, far, reused,   \* RRIPRepl
    set, hawkTag, hawkArray, array_pcs, predictor, count, hist, occ, stuck, hawkTrace, hits,         \* Hawkeye
    program, answers,
    zArray, lookupArray, swapArray, incoming,                                                   \* ZArray
    partitions, testMode, wayPartIndex, waySize, way, wayTime, stack, curWayHits, curMisses,    \* WayPart
    wayFailed, accesses, intervals, wayTrace,
    smoothTransients, line, size, extendedSize, target, longTerm, curBts, curBtsHits,           \* Vantage
    setpoint, cands, dems, vanTime, vanFailed, vanOps,
    lineMap, lineAddrs, part, lruList, ideSize, ideTarget, ideOps, uses,                        \* IdealPart
    P, chnls, cmds, onBus, asserted, now, memOps, prioritizedAccessType, rdQueue, wrQueue,      \* MemSched
    wrDoneQueue, overflowed, unsent, stale,
    C, cycle, mem, events, eventFreelist, nextSchedEvent, nextSchedCycle, refreshAt, acts,      \* DDRMem
    bursts, ddrAsserted,
    heap, owned, calls, frees, exhausted, misfit,                                               \* GlobalHeap
    G, accs, phase, parents, tcCycle, queue, pendingQueue, lastAccCycle, lastFreeCycle,         \* TimingCache
    activeMisses, accsLeft, done, slots, twice, tcFailed

SR == INSTANCE StampRepl WITH Addrs <- Addrs5, Lines <- 0 .. 3, ScoreBits <- 3, MaxOps <- 7
RR == INSTANCE RRIPRepl WITH Addrs <- Addrs4, Lines <- 0 .. 2, rpvmax <- 3, SatMax <- 2, MaxOps <- 7,
        policy <- ripPolicy, tag <- ripTag, ops <- ripOps
\* Hawkeye with one way and a history that forgets, with two, or with three and a history whose length
\* is no power of two.
HK == INSTANCE Hawkeye WITH Addrs <- Addrs3, MaxFeeds <- 9, tag <- hawkTag, array <- hawkArray, trace <- hawkTrace,
        Sets <- {[ways |-> 1, vectorTimes |-> 4, friendly |-> 2, trained |-> 3],
                 [ways |-> 2, vectorTimes |-> 4, friendly |-> 2, trained |-> 3],
                 [ways |-> 3, vectorTimes |-> 2, friendly |-> 1, trained |-> 1]}
\* The hashes are two digits of the number of an address.
Number == z1 :> 0 @@ z2 :> 1 @@ z3 :> 2 @@ z4 :> 3 @@ z5 :> 4 @@ z6 :> 5
ZA == INSTANCE ZArray WITH Addrs <- DOMAIN Number, ways <- 2, numSets <- 2, cands <- 6, array <- zArray,
        Hash <- [w \in 0 .. 1 |-> [addr \in DOMAIN Number |-> (Number[addr] \div (w + 1)) % 2]]
WP == INSTANCE WayPart WITH Addrs <- Addrs3, Partitionings <- {1, 2}, ways <- 3, MinAlloc <- 1,
        Unsigned <- 65536, MaxOps <- 5, MaxIntervals <- 1, size <- waySize, line <- way,
        timestamp <- wayTime, failed <- wayFailed, trace <- wayTrace
VA == INSTANCE Vantage WITH Addrs <- Addrs5, Lines <- 0 .. 3, Cands <- {<<0, 1>>, <<2, 3>>},
        Targets <- {0 :> 2 @@ 1 :> 0, 0 :> 1 @@ 1 :> 2}, Managed <- 2, HitsPerTick <- 2, Bts <- 2,
        Interval <- 2, MaxOps <- 6, timestamp <- vanTime, failed <- vanFailed, ops <- vanOps
IP == INSTANCE IdealPart WITH Addrs <- Addrs4, numLines <- 3, partitions <- 2,
        Targets <- {0 :> 1 @@ 1 :> 2, 0 :> 3 @@ 1 :> 0}, MaxOps <- 7,
        size <- ideSize, target <- ideTarget, ops <- ideOps
\* The detailed memory: closed pages with merged accesses; open pages of two ranks; two ranks that
\* are powered down and refreshed often; three banks in a long window of activates.
ClosedPages ==
    [channelCount |-> 1, rankCount |-> 2, bankCount |-> 2, colCount |-> 1, interleaveType |-> 0, open |-> FALSE,
     mergeContinuous |-> TRUE, schedulerQueueCount |-> 0, powerDownCycle |-> 0, accessLogDepth |-> 2,
     addrs |-> {0, 1, 4}, deltas |-> {1, 9}, maxOps |-> 4,
     tRC |-> 9, tRAS |-> 6, tRCD |-> 2, tRP |-> 3, tRPab |-> 1, tRTRS |-> 1, tRRD |-> 2, tWR |-> 4, tWTR |-> 2, tCAS |-> 3,
     tCWD |-> 2, tCCD |-> 2, tTrans |-> 2, tXP |-> 2, tREFI |-> 30, tRFC |-> 6, tFAW |-> 8, tRTP |-> 2]
OpenPages == [ClosedPages EXCEPT !.mergeContinuous = FALSE, !.open = TRUE, !.interleaveType = 3]
PoweredDown == [OpenPages EXCEPT !.powerDownCycle = 4, !.tREFI = 14, !.interleaveType = 0]
ThreeBanks == [OpenPages EXCEPT !.rankCount = 1, !.bankCount = 3, !.interleaveType = 0, !.tFAW = 12, !.addrs = {0, 1, 2}]
\* With the queues of the scheduler: a buffer of three that is filled; one of five with room between
\* the watermarks; one of a single entry on each of two channels.
Queued(n) ==
    [OpenPages EXCEPT !.rankCount = 1, !.bankCount = 1, !.channelCount = IF n = 1 THEN 2 ELSE 1, !.colCount = 2,
                      !.interleaveType = IF n = 1 THEN 0 ELSE 6, !.schedulerQueueCount = n, !.deltas = {1}, !.maxOps = 5]
MS == INSTANCE MemSched WITH Configs <- {ClosedPages, OpenPages, PoweredDown, ThreeBanks} \cup {Queued(n) : n \in {1, 3, 5}},
        Window <- 2, MaxTime <- 3
\* The DDR memory: deferred writes and open pages; one queue of one request, that overflows, and closed pages.
Deferred ==
    [ranksPerChannel |-> 1, banksPerRank |-> 2, queueDepth |-> 2, rowHitLimit |-> 1, deferredWrites |-> TRUE,
     closedPage |-> FALSE, tBL |-> 2, tCL |-> 3, tRCD |-> 2, tRTP |-> 1, tRP |-> 2, tRRD |-> 1, tRAS |-> 5, tFAW |-> 12,
     tWTR |-> 2, tWR |-> 2, tRFC |-> 6, tREFI |-> 25, sysFreq |-> 7, memFreq |-> 3]
Overflowing == [Deferred EXCEPT !.deferredWrites = FALSE, !.closedPage = TRUE, !.queueDepth = 1]
DM == INSTANCE DDRMem WITH DDRConfigs <- {Deferred, Overflowing}, DDRAddrs <- {0, 1, 2}, DDRDeltas <- {0, 9},
        Activates <- 2, MaxReqs <- 3, MaxCycle <- 30

\* The heap has room for six chunks of the sizes of three requests; small chunks are those below 8 units.
GH == INSTANCE GlobalHeap WITH Small <- 8, TreeBins <- 6, Start <- 5, End <- 72, Requests <- {20, 60, 80},
        Arrays <- {<<100, 100>>}, Aligned <- {<<64, 40>>}, MaxRequest <- 2000, MaxCalls <- 6, MaxFrees <- 4

\* A cache with one MSHR and a zcache with two; the level above hears at once, later, or without a record.
TC == INSTANCE TimingCache WITH cycle <- tcCycle, Gaps <- {1}, MaxAccs <- 3, Late <- {0, 2},
        Geometries <- {[numMSHRs |-> 1, accLat |-> 2, tagLat |-> 2, ways |-> 2, cands |-> 6],
                       [numMSHRs |-> 2, accLat |-> 2, tagLat |-> 1, ways |-> 3, cands |-> 10]},
        Kinds <- {[hit |-> TRUE, inv |-> 2], [hit |-> FALSE, get |-> <<1, 3, 0>>, evict |-> <<>>],
                  [hit |-> FALSE, get |-> <<4>>, evict |-> <<0, 5, 1>>]}

sr == <<policy, tag, valid, shared, timestamp, array, acc, youngLines, ops, used, shifts>>
rr == <<ripPolicy, ripTag, rrpv, SHCT, signature, is_rereferenced, ripOps, inserted, far, reused>>
hk == <<set, hawkTag, hawkArray, array_pcs, predictor, count, hist, occ, stuck, hawkTrace, hits, program, answers>>
za == <<zArray, lookupArray, swapArray, incoming>>
wp == <<partitions, testMode, wayPartIndex, waySize, way, wayTime, stack, curWayHits, curMisses, wayFailed, accesses, intervals, wayTrace>>
va == <<smoothTransients, line, size, extendedSize, target, longTerm, curBts, curBtsHits, setpoint, cands, dems, vanTime, vanFailed, vanOps>>
ip == <<lineMap, lineAddrs, part, lruList, ideSize, ideTarget, ideOps, uses>>
ms == <<P, chnls, cmds, onBus, asserted, now, memOps, prioritizedAccessType, rdQueue, wrQueue, wrDoneQueue, overflowed,
        unsent, stale>>
dm == <<C, cycle, mem, events, eventFreelist, nextSchedEvent, nextSchedCycle, refreshAt, acts, bursts, ddrAsserted>>
gh == <<heap, owned, calls, frees, exhausted, misfit>>
tc == <<G, accs, phase, parents, tcCycle, queue, pendingQueue, lastAccCycle, lastFreeCycle,
        activeMisses, accsLeft, done, slots, twice, tcFailed>>
tables == <<sr, rr, hk, za, wp, va, ip>>
drams == <<ms, dm>>
all == <<which, tables, drams, gh, tc>>

MemInit ==
    /\ which \in {"stamp", "rrip", "hawkeye", "zcache", "waypart", "vantage", "ideal", "detailed", "ddr", "heap", "timing"}
    /\ SR!Init /\ (which # "stamp" => policy = "LRU")
    /\ RR!Init /\ (which # "rrip" => ripPolicy = "SHiP")
    /\ HK!Init /\ (which # "hawkeye" => set.ways = 2)
    /\ ZA!Init
    /\ WP!Init /\ (which # "waypart" => partitions = 1 /\ testMode)
    /\ VA!Init /\ (which # "vantage" => smoothTransients)
    /\ IP!Init
    /\ MS!Init /\ (which # "detailed" => P = ClosedPages)
    /\ DM!Init /\ (which # "ddr" => C = Deferred)
    /\ GH!HeapInit
    /\ TC!TCInit /\ (which # "timing" => G.numMSHRs = 1)

Stamp == which = "stamp" /\ SR!Next /\ UNCHANGED <<which, rr, hk, za, wp, va, ip, drams, gh, tc>>
RRIP == which = "rrip" /\ RR!Next /\ UNCHANGED <<which, sr, hk, za, wp, va, ip, drams, gh, tc>>
Hawk == which = "hawkeye" /\ HK!Next /\ UNCHANGED <<which, sr, rr, za, wp, va, ip, drams, gh, tc>>
ZCache == which = "zcache" /\ ZA!Next /\ UNCHANGED <<which, sr, rr, hk, wp, va, ip, drams, gh, tc>>
WayParted == which = "waypart" /\ WP!Next /\ UNCHANGED <<which, sr, rr, hk, za, va, ip, drams, gh, tc>>
Vantaged == which = "vantage" /\ VA!Next /\ UNCHANGED <<which, sr, rr, hk, za, wp, ip, drams, gh, tc>>
IdealParted == which = "ideal" /\ IP!Next /\ UNCHANGED <<which, sr, rr, hk, za, wp, va, drams, gh, tc>>
Detailed == which = "detailed" /\ MS!Next /\ UNCHANGED <<which, tables, dm, gh, tc>>
DDR == which = "ddr" /\ DM!Next /\ UNCHANGED <<which, tables, ms, gh, tc>>
Heap == which = "heap" /\ GH!HeapNext /\ UNCHANGED <<which, tables, drams, tc>>
Timing == which = "timing" /\ TC!TCNext /\ UNCHANGED <<which, tables, drams, gh>>
\* The bound on operations is reached, or an assertion has stopped the program.
Done == which # "zcache" /\ UNCHANGED all

MemNext == Stamp \/ RRIP \/ Hawk \/ ZCache \/ WayParted \/ Vantaged \/ IdealParted \/ Detailed \/ DDR \/ Heap \/ Timing \/ Done
MemSpec == MemInit /\ [][MemNext]_all

\* The policies take the victims they promise: the coldest line, as far as LRU's score has not
\* outgrown its 32 bits (of which the instance has three), or one that was not used again.
VictimsInOrder == SR!VictimIsColdest /\ RR!ScanResistant

\* The zcache and the ideal arrays find every line they hold, once, and keep their order; the monitors'
\* curves and the sizes of the partitions are what happened; Hawkeye's OPTgen claims no hits that
\* Belady's policy does not have; and the assertions of the partitioned policies and the end of OPTgen's
\* search fail in the states the properties name, and in no others.
ArraysSound ==
    /\ which = "hawkeye" => HK!OptgenIsOptimal /\ HK!NeverAboveBelady /\ HK!SearchEnds
    /\ which = "zcache" => ZA!EveryLineIsFound
    /\ which = "ideal" => IP!ListsExact
    /\ which = "waypart" => WP!Accounted /\ WP!GivesAway /\ WP!AssertsHold
    /\ which = "vantage" => VA!SizesMatch /\ VA!AssertsHold

\* The commands and bursts of the memories keep their distances, their queues hold every request once
\* and in order, whoever waits is woken, and no assertion fails.
DramSound ==
    /\ which = "detailed" =>
           /\ MS!BurstsDisjoint /\ MS!CommandsSpaced /\ MS!ChannelAsserts
           /\ MS!WritesUnique /\ MS!WritesKept /\ MS!TicksServe
    /\ which = "ddr" => /\ DM!ActivatesSpaced /\ DM!BusInOrder /\ DM!ControllerAsserts
                        /\ DM!NoRequestStranded /\ DM!RowHitsBounded

\* The heap of all processes: its chunks, its bins and its owners agree.
HeapSound == which = "heap" => GH!HeapSound

\* The caches' ports and MSHRs serve everybody, once a cycle, and nothing before its time.
CacheTimingSound ==
    which = "timing" => TC!OneLookupPerCycle /\ TC!MSHRsExact /\ TC!NotBeforeBound /\ TC!TCAsserts
=============================================================================
