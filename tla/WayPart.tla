------------------------------ MODULE WayPart ------------------------------
(***************************************************************************)
(* A cache partitioned by ways: the policy (WayPartReplPolicy of           *)
(* part_repl_policies.h) over one set, the utility monitor of every        *)
(* partition (utility_monitor.cpp, monitor.cpp), and the lookahead         *)
(* partitioner that reads the monitors and assigns the ways anew           *)
(* (lookahead.cpp).  The monitors sample every line and have one set.      *)
(***************************************************************************)
EXTENDS Integers, Sequences, SequencesExt, FiniteSetsExt

CONSTANTS
    Addrs, NoLine,
    Partitionings,  \* numbers of partitions
    ways,       \* of the cache, and buckets of the monitors
    MinAlloc,   \* 1
    Unsigned,   \* what a negative difference of misses becomes: about 2^32
    MaxOps, MaxIntervals    \* bounds: accesses, and partitionings

Ways == 0 .. ways - 1

VARIABLES
    partitions, testMode,
    wayPartIndex, size,
    line,               \* of each way: address, timestamp and partition
    timestamp,
    stack, curWayHits, curMisses,   \* UMon of each partition: the list from heads, the counters
    failed,             \* an assertion fails
    accesses, intervals, trace      \* bounds; history: the accesses of each partition, and
                                    \* where its interval began

Parts == 0 .. partitions - 1

vars == <<partitions, testMode, wayPartIndex, size, line, timestamp, stack, curWayHits, curMisses, failed, accesses, intervals, trace>>

Init ==
    /\ partitions \in Partitionings /\ testMode \in BOOLEAN
    /\ wayPartIndex = [w \in Ways |-> (w * partitions) \div ways]
    /\ size = [p \in Parts |-> IF p = 0 THEN ways ELSE 0]
    /\ line = [w \in Ways |-> [addr |-> NoLine, ts |-> 0, p |-> 0]]
    /\ timestamp = 1
    /\ stack = [p \in Parts |-> [b \in 1 .. ways |-> NoLine]]
    /\ curWayHits = [p \in Parts |-> [b \in Ways |-> 0]] /\ curMisses = [p \in Parts |-> 0]
    /\ failed = FALSE
    /\ accesses = 0 /\ intervals = 0 /\ trace = [p \in Parts |-> [all |-> <<>>, from |-> 1]]

-----------------------------------------------------------------------------
\* The node at position b gets address a and becomes the most recently used.
ToFront(list, b, a) == <<a>> \o RemoveAt(list, b)

\* UMon::access
Monitor(p, a) ==
    LET at == {b \in 1 .. ways : stack[p][b] = a}
        b == IF at = {} THEN ways ELSE Min(at)
    IN  /\ stack' = [stack EXCEPT ![p] = ToFront(@, b, a)]
        /\ curWayHits' = IF at = {} THEN curWayHits ELSE [curWayHits EXCEPT ![p][b - 1] = @ + 1]
        /\ curMisses' = IF at = {} THEN [curMisses EXCEPT ![p] = @ + 1] ELSE curMisses
        /\ trace' = [trace EXCEPT ![p].all = Append(@, a)]

\* UMon::getMisses
getMisses(p, b) == SumFunctionOnSet(curWayHits[p], b .. ways - 1) + curMisses[p]

-----------------------------------------------------------------------------
Hit(p, a) ==
    \E w \in Ways :
        /\ line[w].addr = a
        /\ line' = [line EXCEPT ![w].ts = timestamp] /\ timestamp' = timestamp + 1
        /\ Monitor(line[w].p, a)
        /\ UNCHANGED <<size, failed>>

Fillable(p) == IF testMode THEN Ways ELSE {w \in Ways : wayPartIndex[w] = p}

\* Of the ways to fill, one with a line of another partition, then the least recently used.
Worse(w, v, p) ==
    \/ ~testMode /\ line[w].p # p /\ line[v].p = p
    \/ (testMode \/ (line[w].p = p) = (line[v].p = p)) /\ line[w].ts < line[v].ts

\* The scan keeps the first of the worst.
bestId(p) ==
    Min({w \in Fillable(p) : \A v \in Fillable(p) : ~Worse(v, w, p)})

Miss(p, a) ==
    /\ \A w \in Ways : line[w].addr # a
    /\ IF Fillable(p) = {}
       THEN failed' = TRUE /\ UNCHANGED <<line, timestamp, size, stack, curWayHits, curMisses, trace>>
       ELSE LET w == bestId(p)
            IN  /\ line' = [line EXCEPT ![w] = [addr |-> a, ts |-> timestamp, p |-> p]]
                /\ timestamp' = timestamp + 1
                /\ size' = [q \in Parts |-> size[q] + (IF q = p THEN 1 ELSE 0) - (IF q = line[w].p THEN 1 ELSE 0)]
                /\ Monitor(p, a)
                /\ UNCHANGED failed

-----------------------------------------------------------------------------
\* UMonMonitor::get: the curves of ways + 1 points lie in the cache `ways' apart.
get(p, b) ==
    LET i == p * ways + b
    IN  IF i < partitions * ways THEN getMisses(i \div ways, i % ways) ELSE getMisses(partitions - 1, ways)

\* A difference of unsigned numbers.
ExtraHits(p, b, i) == LET d == get(p, b) - get(p, b + i) IN IF d < 0 THEN Unsigned + d ELSE d

\* Does giving partition p i more buckets pay more per bucket than giving q j?
PaysMore(allocs, p, i, q, j) == ExtraHits(p, allocs[p], i) * j > ExtraHits(q, allocs[q], j) * i

\* computeBestPartitioning: rounds until nothing is left to give; the first best choice wins.
Choice(s) ==
    LET all == Parts \X (1 .. s.balance)
        best == {c \in all : \A d \in all : ~PaysMore(s.allocs, d[1], d[2], c[1], c[2])}
        p == Min({c[1] : c \in best})
    IN  <<p, Min({c[2] : c \in {d \in best : d[1] = p}})>>

computeBestPartitioning(buckets, minAlloc) ==
    LET f[n \in 0 .. buckets] ==
            IF n = 0 THEN [allocs |-> [p \in Parts |-> minAlloc], balance |-> buckets - minAlloc]
            ELSE LET s == f[n - 1]
                 IN  IF s.balance = 0 THEN s
                     ELSE LET c == Choice(s)
                          IN  [allocs |-> [s.allocs EXCEPT ![c[1]] = @ + c[2]], balance |-> s.balance - c[2]]
    IN  f[buckets].allocs

\* setPartitionSizes: the ways in the order of the partitions.
setPartitionSizes(allocs) ==
    LET before(p) == SumFunctionOnSet(allocs, 0 .. p - 1)
    IN  /\ wayPartIndex' = [w \in Ways |-> Max({p \in Parts : before(p) <= w})]
        /\ failed' = (SumFunction(allocs) # ways)

\* LookaheadPartitioner::partition, at the end of a phase; it resets the monitors.
partition ==
    /\ intervals < MaxIntervals
    /\ setPartitionSizes(computeBestPartitioning(ways, MinAlloc * partitions))
    /\ curWayHits' = [p \in Parts |-> [b \in Ways |-> 0]] /\ curMisses' = [p \in Parts |-> 0]
    /\ trace' = [p \in Parts |-> [trace[p] EXCEPT !.from = Len(trace[p].all) + 1]]
    /\ intervals' = intervals + 1 /\ UNCHANGED accesses
    /\ UNCHANGED <<size, line, timestamp, stack>>

Next ==
    /\ ~failed /\ UNCHANGED <<partitions, testMode>>
    /\ \/ /\ accesses < MaxOps /\ accesses' = accesses + 1 /\ UNCHANGED <<wayPartIndex, intervals>>
          /\ \E p \in Parts, a \in Addrs : Hit(p, a) \/ Miss(p, a)
       \/ partition

Spec == Init /\ [][Next]_vars

-----------------------------------------------------------------------------
\* What an LRU cache of b lines for a partition's accesses alone would miss in this interval:
\* those with at least b other lines since the last use of their own.
LRUMisses(p, b) ==
    LET all == trace[p].all
        misses(t) == LET prev == {s \in 1 .. t - 1 : all[s] = all[t]}
                     IN  prev = {} \/ Cardinality({all[s] : s \in Max(prev) + 1 .. t - 1}) >= b
    IN  Cardinality({t \in trace[p].from .. Len(all) : misses(t)})

\* The monitor's curve is the misses of LRU caches of every size, whatever came in the
\* intervals before; and lines are counted to the partition that holds them, each of
\* them in a way of its own while the first assignment lasts.
Accounted ==
    /\ \A p \in Parts, b \in 0 .. ways : getMisses(p, b) = LRUMisses(p, b)
    /\ \A p \in Parts : size[p] = Cardinality({w \in Ways : line[w].p = p})
    /\ intervals = 0 /\ ~testMode => \A w \in Ways : line[w].ts > 0 => line[w].p = wayPartIndex[w]

\* The lookahead algorithm sets every partition to minAlloc * numPartitions buckets but takes that
\* off the balance once (lookahead.cpp:83-90), so that with more than one partition it gives away more
\* buckets than there are, whatever the monitors saw.
GivesAway ==
    SumFunction(computeBestPartitioning(ways, MinAlloc * partitions)) = ways + partitions * (partitions - 1) * MinAlloc

\* "assert(curWay == ways)" (part_repl_policies.h:232) therefore holds with one partition, and fails
\* at the first repartition with more; no access ever fails for want of a way to fill.
AssertsHold == failed <=> intervals > 0 /\ partitions > 1
=============================================================================
