---------------------------- MODULE TimingCache ----------------------------
(***************************************************************************)
(* The contention model of a cache (timing_cache.cpp): in the bound phase  *)
(* access() turns every access into a graph of events; in the weave phase  *)
(* the events use the one tag port and the MSHRs of the cache.  The parts  *)
(* of the graph that belong to the levels below are one event each, which  *)
(* may end later than the bound phase assumed.                             *)
(***************************************************************************)
EXTENDS Integers, Sequences, FiniteSets, SequencesExt, FiniteSetsExt, Functions

CONSTANTS
    Geometries,     \* numMSHRs, accLat, tagLat, ways and cands of the caches that are tried
    Kinds,          \* what the levels below answer to an access
    Gaps,           \* cycles between two requests
    MaxAccs,        \* bound on the accesses
    Late            \* cycles by which the levels below are late

VARIABLES
    G,
    accs,           \* the accesses: request cycle and what happened
    phase,
    parents, cycle, \* of every event: the parents that are not done, the latest of those that are
    queue,          \* the events queued in the domain, with their cycles
    pendingQueue,   \* the events held for an MSHR
    lastAccCycle, lastFreeCycle, activeMisses, accsLeft, done,
    slots, twice,   \* history: the cycles in which the port was used, and whether one was used twice
    tcFailed        \* an assertion has failed
tcVars == <<G, accs, phase, parents, cycle, queue, pendingQueue, lastAccCycle, lastFreeCycle,
            activeMisses, accsLeft, done, slots, twice, tcFailed>>

-----------------------------------------------------------------------------
(* The graph of one access.  A path below is <<up, lat, down>>: the delay to the next level, its    *)
(* record, and the delay back; or a delay alone where that level has no record.                     *)
Path(name, p) ==
    IF Len(p) = 1 THEN IF p[1] = 0 THEN <<>> ELSE << <<name, "delay">> >>
    ELSE (IF p[1] = 0 THEN <<>> ELSE << <<name, "up">> >>) \o << <<name, "record">> >>
         \o (IF p[3] = 0 THEN <<>> ELSE << <<name, "down">> >>)
Latency(p) == FoldLeft(+, 0, p)

\* Lookups of the candidates, level by level of the walk: every level has ways - 1 times more.
Walk ==
    LET replLookups == ((G.cands + G.ways - 1) \div G.ways) - 1
        level[n \in 0 .. replLookups] ==    \* the lookups of each level when n are left, from fringe on
            [fringe \in 1 .. (replLookups * G.ways) |->
                IF n = 0 THEN <<>> ELSE LET a == Min({fringe, n}) IN <<a>> \o level[n - a][Min({fringe * (G.ways - 1), replLookups * G.ways})]]
    IN IF G.cands > G.ways THEN level[replLookups][G.ways - 1] ELSE <<>>

Evicts(k) == k.evict # <<>>
GetPath(k) == << <<"start">> >> \o Path("get", k.get) \o << <<"response">>, <<"writeback">> >>
EvictPath(k) == IF Evicts(k) THEN << <<"start">> >> \o Path("evict", k.evict) \o << <<"writeback">> >> ELSE <<>>
ReplPath(k) ==
    IF Evicts(k) /\ Walk # <<>>
    THEN << <<"start">> >> \o [i \in DOMAIN Walk |-> <<"walk", i>>] \o << <<"read">>, <<"write">>, <<"writeback">> >> ELSE <<>>

Names(k) == IF k.hit THEN {<<"hit">>} ELSE Range(GetPath(k)) \cup Range(EvictPath(k)) \cup Range(ReplPath(k))
Edges(k) == IF k.hit THEN {} ELSE UNION {{<<p[i], p[i + 1]>> : i \in 1 .. (Len(p) - 1)} : p \in {GetPath(k), EvictPath(k), ReplPath(k)}}

\* The delays before and after an event, and what a delay event waits.
Pre(n) == IF n \in {<<"walk", 1>>, <<"read">>} THEN G.tagLat ELSE 0
Post(n, k) ==
    CASE n = <<"hit">> -> G.accLat + k.inv
      [] n[1] \in {"start", "writeback"} -> G.accLat
      [] n[1] = "walk" -> G.tagLat - Min({G.tagLat - 1, (G.ways - 1) ^ n[2]})
      [] n = <<"read">> -> G.tagLat
      [] OTHER -> 0
PathOf(n, k) == IF n[1] = "get" THEN k.get ELSE k.evict
Delay(n, k) ==
    CASE n[2] = "delay" -> PathOf(n, k)[1]
      [] n[2] = "up" -> PathOf(n, k)[1]
      [] n[2] = "record" -> PathOf(n, k)[2]
      [] n[2] = "down" -> PathOf(n, k)[3]

\* The bound phase's cycles: no event may run before the one it is given.
MinStart(n, a) ==
    CASE n = <<"response">> -> a.at + G.accLat + Latency(a.kind.get)
      [] n = <<"writeback">> -> a.at + G.accLat + Max({Latency(a.kind.get), IF Evicts(a.kind) THEN Latency(a.kind.evict) ELSE 0})
      [] OTHER -> a.at

External(n) == n[1] \in {"get", "evict"}

-----------------------------------------------------------------------------
TCInit ==
    /\ G \in Geometries
    /\ accs = <<>> /\ phase = "bound"
    /\ parents = <<>> /\ cycle = <<>> /\ queue = {}
    /\ pendingQueue = <<>> /\ lastAccCycle = 0 /\ lastFreeCycle = 0 /\ activeMisses = 0
    /\ accsLeft = <<>> /\ done = {} /\ slots = {} /\ twice = FALSE /\ tcFailed = FALSE

Added(f, i, names, V(_)) == [e \in DOMAIN f \cup {<<i, n>> : n \in names} |-> IF e \in DOMAIN f THEN f[e] ELSE V(e[2])]
First(k) == IF k.hit THEN <<"hit">> ELSE <<"start">>

\* An access in the bound phase; its first event is queued at its cycle.
access(k, gap) ==
    LET i == Len(accs) + 1
        at == gap + (IF accs = <<>> THEN 1 ELSE Last(accs).at)
    IN /\ phase = "bound" /\ i <= MaxAccs
       /\ accs' = Append(accs, [at |-> at, kind |-> k, edges |-> Edges(k)])
       /\ parents' = Added(parents, i, Names(k), LAMBDA n : Cardinality({e \in Edges(k) : e[2] = n}))
       /\ cycle' = Added(cycle, i, Names(k), LAMBDA n : 0)
       /\ accsLeft' = Added(accsLeft, i, {n \in Names(k) : n[1] \in {"walk", "read", "write"}},
                            LAMBDA n : IF n[1] = "walk" THEN Walk[n[2]] ELSE 1)
       /\ queue' = queue \cup {<<at, <<i, First(k)>> >>}
       /\ UNCHANGED <<G, phase, pendingQueue, lastAccCycle, lastFreeCycle, activeMisses, done, slots, twice, tcFailed>>

StartWeave ==
    /\ phase = "bound" /\ accs # <<>>
    /\ phase' = "weave"
    /\ UNCHANGED <<G, accs, parents, cycle, queue, pendingQueue, lastAccCycle, lastFreeCycle, activeMisses,
                   accsLeft, done, slots, twice, tcFailed>>

\* The children of e hear that it is done at c: the last parent to be done queues the child.
Kids(e) == {<<e[1], x[2]>> : x \in {y \in accs[e[1]].edges : y[1] = e[2]}}
Heard(e, c, kids) ==
    /\ parents' = [x \in DOMAIN parents |-> IF x \in kids THEN parents[x] - 1 ELSE parents[x]]
    /\ cycle' = [x \in DOMAIN cycle |-> IF x \in kids THEN Max({cycle[x], c}) ELSE cycle[x]]
    /\ done' = done \cup {e}
Tell(e, c) == Heard(e, c + Post(e[2], accs[e[1]].kind), Kids(e))
Woken(e, c) ==
    {<<Max({cycle[x], c + Post(e[2], accs[e[1]].kind)}) + Pre(x[2]), x>> : x \in {y \in Kids(e) : parents[y] = 1}}

NotDone == UNCHANGED <<parents, cycle, done>>

Use(c) == slots' = slots \cup {c} /\ twice' = (twice \/ c \in slots)

\* A lookup on the critical path takes the next free cycle, and notes a cycle left free before it.
highPrioAccess(c) ==
    LET lookupCycle == Max({c, lastAccCycle + 1}) IN
    /\ lastFreeCycle' = IF lastAccCycle < c - 1 THEN c - 1 ELSE lastFreeCycle
    /\ lastAccCycle' = lookupCycle
    /\ Use(lookupCycle)
    /\ tcFailed' = (tcFailed \/ c < lastFreeCycle)

PortFree(c) == lastAccCycle < c - 1 \/ lastFreeCycle = c - 1

\* Any other lookup takes the previous cycle, if it was left free.
tryLowPrioAccess(c) ==
    /\ lastFreeCycle' = 0
    /\ lastAccCycle' = Max({c - 1, lastAccCycle})
    /\ Use(c - 1)

\* Mutant: there is one MSHR more.
MSHRFreeMore == activeMisses <= G.numMSHRs
MSHRFree == activeMisses < G.numMSHRs

\* A hit waits for an MSHR as a miss does, but takes none.
simulateHit(e, c, rest) ==
    /\ e[2] = <<"hit">>
    /\ \/ /\ MSHRFree
          /\ highPrioAccess(c) /\ Tell(e, lastAccCycle') /\ queue' = rest
          /\ UNCHANGED pendingQueue
       \/ /\ ~MSHRFree
          /\ pendingQueue' = Append(pendingQueue, e) /\ queue' = rest
          /\ NotDone /\ UNCHANGED <<lastAccCycle, lastFreeCycle, slots, twice, tcFailed>>
    /\ UNCHANGED <<activeMisses, accsLeft>>

simulateMissStart(e, c, rest) ==
    /\ e[2] = <<"start">>
    /\ \/ /\ MSHRFree
          /\ activeMisses' = activeMisses + 1
          /\ highPrioAccess(c) /\ Tell(e, lastAccCycle') /\ queue' = rest \cup Woken(e, lastAccCycle')
          /\ UNCHANGED pendingQueue
       \/ /\ ~MSHRFree
          /\ pendingQueue' = Append(pendingQueue, e) /\ queue' = rest
          /\ NotDone /\ UNCHANGED <<activeMisses, lastAccCycle, lastFreeCycle, slots, twice, tcFailed>>
    /\ UNCHANGED accsLeft

simulateMissResponse(e, c, rest) ==
    /\ e[2] = <<"response">>
    /\ Tell(e, c) /\ queue' = rest \cup Woken(e, c)
    /\ UNCHANGED <<pendingQueue, lastAccCycle, lastFreeCycle, activeMisses, accsLeft, slots, twice, tcFailed>>

Retry(e, c, rest) ==
    /\ ~PortFree(c)
    /\ queue' = rest \cup {<<c + 1, e>>} /\ NotDone
    /\ UNCHANGED <<pendingQueue, lastAccCycle, lastFreeCycle, activeMisses, accsLeft, slots, twice, tcFailed>>

\* The miss ends when its line is written: its MSHR is free, and everybody held tries again.
simulateMissWriteback(e, c, rest) ==
    /\ e[2] = <<"writeback">>
    /\ \/ Retry(e, c, rest)
       \/ /\ PortFree(c) /\ tryLowPrioAccess(c)
          /\ activeMisses' = activeMisses - 1
          /\ tcFailed' = (tcFailed \/ activeMisses = 0)
          /\ queue' = rest \cup {<<c + 1, x>> : x \in Range(pendingQueue)}
          /\ pendingQueue' = <<>>
          /\ Tell(e, c) /\ UNCHANGED accsLeft

simulateReplAccess(e, c, rest) ==
    /\ e[2][1] \in {"walk", "read", "write"}
    /\ \/ Retry(e, c, rest)
       \/ /\ PortFree(c) /\ tryLowPrioAccess(c)
          /\ accsLeft' = [accsLeft EXCEPT ![e] = @ - 1]
          /\ tcFailed' = (tcFailed \/ accsLeft[e] = 0)
          /\ IF accsLeft[e] = 1 THEN Tell(e, c) /\ queue' = rest \cup Woken(e, c)
                                ELSE NotDone /\ queue' = rest \cup {<<c + 1, e>>}
          /\ UNCHANGED <<pendingQueue, activeMisses>>

\* An event of the levels below; its record may end later than it did without contention.
Below(e, c, rest) ==
    /\ External(e[2])
    /\ \E late \in IF e[2][2] = "record" THEN Late ELSE {0} :
        LET end == c + Delay(e[2], accs[e[1]].kind) + late
        IN Tell(e, end) /\ queue' = rest \cup Woken(e, end)
    /\ UNCHANGED <<pendingQueue, lastAccCycle, lastFreeCycle, activeMisses, accsLeft, slots, twice, tcFailed>>

\* The domain runs the events by their cycles, those of one cycle in any order.
Run ==
    /\ phase = "weave"
    /\ \E q \in {x \in queue : \A y \in queue : x[1] <= y[1]} :
        LET rest == queue \ {q} IN
        \/ simulateHit(q[2], q[1], rest) \/ simulateMissStart(q[2], q[1], rest)
        \/ simulateMissResponse(q[2], q[1], rest) \/ simulateMissWriteback(q[2], q[1], rest)
        \/ simulateReplAccess(q[2], q[1], rest) \/ Below(q[2], q[1], rest)
    /\ UNCHANGED <<G, accs, phase>>

TCNext == (\E k \in Kinds, gap \in Gaps : access(k, gap)) \/ StartWeave \/ Run

-----------------------------------------------------------------------------
\* The port is used once in a cycle, by whoever.
OneLookupPerCycle == ~twice

\* The MSHRs are those of the misses that have started and are not written; nobody waits for one
\* that is free, and when nothing is queued everything is done.
MSHRsExact ==
    LET Is(e, name) == e[2] = <<name>>
        inFlight == {e \in done : Is(e, "start") /\ <<e[1], <<"writeback">> >> \notin done}
    IN /\ activeMisses = Cardinality(inFlight) /\ activeMisses <= G.numMSHRs
       /\ pendingQueue # <<>> => activeMisses = G.numMSHRs
       /\ phase = "weave" /\ queue = {} => done = DOMAIN parents

\* TimingEvent::run(): no event runs before the cycle that the bound phase gave it.
NotBeforeBound == \A q \in queue : MinStart(q[2][2], accs[q[2][1]]) <= q[1]

TCAsserts == ~tcFailed
=============================================================================
