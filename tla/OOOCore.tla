------------------------------ MODULE OOOCore ------------------------------
(***************************************************************************)
(* The out-of-order core (ooo_core.h, ooo_core.cpp).  A thread announces   *)
(* every basic block and then reports its loads, stores and branch; the    *)
(* core simulates a block when the next one is announced, uop by uop:      *)
(* decode, issue, an instruction window of ports by cycle, the load and    *)
(* store queues, forwarding, the reorder buffer, branch prediction and     *)
(* fetch.  The recorder of the core (ooo_core_recorder.cpp) is in Weave.   *)
(***************************************************************************)
EXTENDS Integers, Sequences, FiniteSets, SequencesExt, FiniteSetsExt, Functions, Bitwise

CONSTANTS
    H, WSZ,                 \* cycles of one half of the window, and its size
    RobSize, LsqSize, RetireWidth, UopQueue,
    ISSUES_PER_CYCLE, RF_READS_PER_CYCLE,
    L1D_LAT, DispatchDelay, \* DISPATCH_STAGE - ISSUE_STAGE
    Ports, Registers,
    NB, HB, LB,             \* bits of the branch predictor
    Blocks, Takers,         \* the basic blocks: uops, lines of code, address of the branch; those a switch resumes in
    Latency,                \* extra cycles of a load or store, by address; NoAddr among them
    FetchLats,              \* cycles by which a fetch is late
    FwdEntries,
    PhaseLength, Gaps,      \* cycles by which the recorder moves the core forward
    MaxBbls, MaxPhases      \* bounds

\* A load or store whose predicate is false.
NoAddr == -1
NoBlock == <<>>
FetchToDecode == 3          \* DECODE_STAGE - FETCH_STAGE

VARIABLES
    core,                   \* the core: see NewCore
    prevBbl, loads, stores, branchPc, branchTaken,
    calls,                  \* what the thread reports before its next basic block
    at,                     \* "run", "barrier": in BblFunc's loop, or "out": the thread has left
    phaseEndCycle, globPhaseCycles, bbls, useA2, oooFailed
oooVars == <<core, prevBbl, loads, stores, branchPc, branchTaken, calls, at, phaseEndCycle, globPhaseCycles,
             bbls, useA2, oooFailed>>

-----------------------------------------------------------------------------
(* WindowStructure: the ports in use in the cycles from c.cycle on, in two arrays of H cycles (cur, *)
(* from position pos on, and nxt) and, beyond them, a map; occ counts the uops in them.             *)
Free == [units |-> {}, count |-> 0]

Entry(c, p, x) == IF p < H THEN c.cur[p] ELSE IF p < 2 * H THEN c.nxt[p - H] ELSE IF x \in DOMAIN c.ub THEN c.ub[x] ELSE Free
EntryAt(c, x) == Entry(c, c.pos + (x - c.cycle), x)

Stored(c, p, x, e) ==
    IF p < H THEN [c EXCEPT !.cur[p] = e] ELSE IF p < 2 * H THEN [c EXCEPT !.nxt[p - H] = e]
    ELSE [c EXCEPT !.ub = [y \in DOMAIN c.ub \cup {x} |-> IF y = x THEN e ELSE c.ub[y]]]

\* The far cycles that have come into the range of nextWin move there.
Refilled(c, near) ==
    [c EXCEPT !.pos = 0, !.cur = c.nxt,
              !.nxt = [i \in 0 .. H - 1 |-> IF c.cycle + H + i \in near THEN c.ub[c.cycle + H + i] ELSE c.cur[i]],
              !.ub = Restrict(c.ub, DOMAIN c.ub \ near),
              !.failed = @ \/ \E x \in near : x < c.cycle + H]
Rebased(c) == IF c.pos = H THEN Refilled(c, {x \in DOMAIN c.ub : x < c.cycle + 2 * H}) ELSE c

\* Mutant: the far cycles stay in the map.
advancePosLeaves(c) ==
    LET d == [c EXCEPT !.occ = @ - c.cur[c.pos].count, !.cur[c.pos] = Free, !.pos = @ + 1, !.cycle = @ + 1]
    IN IF d.pos = H THEN Refilled(d, {}) ELSE d

advancePos(c) ==
    Rebased([c EXCEPT !.occ = @ - c.cur[c.pos].count, !.cur[c.pos] = Free, !.pos = @ + 1, !.cycle = @ + 1])

Advanced(c, n) == FoldLeft(LAMBDA d, i : advancePos(d), c, [i \in 1 .. n |-> i])

\* The first cycle in which a port is free.
FirstFree(c, from, ports) ==
    CHOOSE x \in from .. from + 2 * H + Cardinality(DOMAIN c.ub) :
        /\ ports \ EntryAt(c, x).units # {}
        /\ \A y \in from .. x - 1 : ports \subseteq EntryAt(c, y).units

\* A full window waits until its first uop leaves.
FirstUop(c) == Min({x \in c.cycle .. c.cycle + 2 * H : EntryAt(c, x).count > 0} \cup {x \in DOMAIN c.ub : c.ub[x].count > 0})
NotFull(c) == IF c.occ = WSZ THEN Advanced(c, FirstUop(c) - c.cycle + 1) ELSE c

\* A port of a cycle is taken, by a uop or by the rest of the uop before it.
Taken(c, x, e, port, uop) ==
    [Stored(c, c.pos + (x - c.cycle), x, [units |-> e.units \cup {port}, count |-> e.count + uop])
        EXCEPT !.sched = x, !.port = port, !.occ = @ + uop,
               !.busy = @ \cup {<<x, port>>}, !.clash = @ \/ <<x, port>> \in c.busy]
Placed(c, x, ports, uop) == Taken(c, x, EntryAt(c, x), Min(ports \ EntryAt(c, x).units), uop)
scheduleInternal(c, from, ports, uop) == Placed(c, FirstFree(c, Max({from, c.cycle}), ports), ports, uop)

ExtraSlots(c, n) ==
    [FoldLeft(LAMBDA d, i : scheduleInternal(d, d.sched + 1, {d.port}, 0), c, [i \in 1 .. n |-> i]) EXCEPT !.sched = c.sched]
schedule(c, from, ports, extraSlots) ==
    ExtraSlots(LET d == NotFull(c) IN scheduleInternal(d, from, ports, 1), extraSlots)

\* Until the window is drained cycle by cycle, then at once.  The slots that are left are then those of
\* other cycles: what busy says of them is forgotten.
Jumped(c, target) ==
    IF c.occ > 0 \/ c.cycle = target THEN c
    ELSE [c EXCEPT !.cycle = target, !.busy = {}]
longAdvance(c, target) ==
    Jumped(FoldLeft(LAMBDA d, i : IF d.occ > 0 THEN advancePos(d) ELSE d, c, [i \in 1 .. target - c.cycle |-> i]), target)

-----------------------------------------------------------------------------
(* ReorderBuffer and CycleQueue. *)
NewQueue(size) == [buf |-> [i \in 0 .. size - 1 |-> 0], retire |-> 0, n |-> 1, idx |-> 0]
minAllocCycle(q) == q.buf[q.idx]
Pushed(q, size) == [q EXCEPT !.buf[q.idx] = q.retire, !.idx = (@ + 1) % size]
markLeave(q, cycle) == Pushed([q EXCEPT !.retire = cycle], UopQueue)

markRetire(q, cycle, size) ==
    Pushed(IF cycle > q.retire THEN [q EXCEPT !.retire = cycle, !.n = 1]
           ELSE IF q.n = RetireWidth THEN [q EXCEPT !.retire = @ + 1, !.n = 0]
           ELSE [q EXCEPT !.n = @ + 1], size)

-----------------------------------------------------------------------------
(* BranchPredictorPAg: histories by address, counters by history. *)
bhsrIdx(pc) == (pc \div 2) % (2 ^ NB)
phtIdx(hist) == (hist ^^ ((hist - (hist % (2 ^ LB))) \div (2 ^ (HB - LB)))) % (2 ^ LB)

A2(p, taken) == IF taken THEN (IF p > 1 THEN 3 ELSE p + 1) ELSE IF p > 1 THEN p - 1 ELSE 0
A3(p, taken) ==
    IF taken THEN (IF p > 1 \/ p = 1 THEN 3 ELSE p + 1) ELSE IF p > 1 THEN (IF p = 2 THEN 0 ELSE p - 1) ELSE 0

Counted(c, b, i, taken) ==
    [c EXCEPT !.pht[i] = IF useA2 THEN A2(@, taken) ELSE A3(@, taken),
              !.bhsr[b] = ((@ * 2) % (2 ^ HB)) + (IF taken THEN 1 ELSE 0),
              !.seen[i] = IF Len(@) = 2 THEN <<@[2], taken>> ELSE Append(@, taken)]
Predicts(c, pc) == c.pht[phtIdx(c.bhsr[bhsrIdx(pc)])] > 1
Learnt(c, pc, taken) == Counted(c, bhsrIdx(pc), phtIdx(c.bhsr[bhsrIdx(pc)]), taken)

-----------------------------------------------------------------------------
(* OOOCore::bbl, uop by uop. *)
NewCore ==
    [cycle |-> 0, decode |-> FetchToDecode + 1, issued |-> 0, reads |-> 0,
     cur |-> [i \in 0 .. H - 1 |-> Free], nxt |-> [i \in 0 .. H - 1 |-> Free], ub |-> [x \in {} |-> Free], occ |-> 0, pos |-> 0,
     uopQueue |-> NewQueue(UopQueue), rob |-> NewQueue(RobSize), loadQueue |-> NewQueue(LsqSize), storeQueue |-> NewQueue(LsqSize),
     regScoreboard |-> [r \in Registers |-> 0], fwd |-> [i \in 0 .. FwdEntries - 1 |-> [addr |-> NoAddr, cycle |-> 0]],
     lastStoreCommit |-> 0, lastStoreAddrCommit |-> 0,
     bhsr |-> [i \in 0 .. (2 ^ NB) - 1 |-> 0], pht |-> [i \in 0 .. (2 ^ LB) - 1 |-> 1],
     prevDec |-> 0, loadIdx |-> 0, storeIdx |-> 0, start |-> 0, from |-> 0, sched |-> 0, port |-> 0, lastCommit |-> 0,
     failed |-> FALSE,
     \* History: slots in use from now on, whether one was used twice, outcomes of branches, the stores
     \* before the last fence, and whether a load or store passed one of them.
     busy |-> {}, clash |-> FALSE, seen |-> [i \in 0 .. (2 ^ LB) - 1 |-> <<>>], fenced |-> 0, passed |-> FALSE]

\* Decode stalls, and the limit of uops issued per cycle.
Decoded(c, u) == [c EXCEPT !.decode = Max({@ + u.dec - c.prevDec, minAllocCycle(c.uopQueue)}), !.prevDec = u.dec]
Stalled(c) == IF c.decode > c.cycle THEN Advanced([c EXCEPT !.issued = 0, !.reads = 0], c.decode - c.cycle) ELSE c
Queued(c) == [c EXCEPT !.uopQueue = markLeave(@, c.cycle)]
Issued(c) ==
    [(IF c.issued >= ISSUES_PER_CYCLE THEN advancePos([c EXCEPT !.issued = 0, !.reads = 0]) ELSE c) EXCEPT !.issued = @ + 1]

\* Sources that are not being produced are read from the register file; register 0 is none.
Source(c, r) == IF r = 0 THEN c.cycle ELSE c.regScoreboard[r]
Sourced(c, u) ==
    [c EXCEPT !.regScoreboard[0] = c.cycle, !.from = Max({Source(c, u.rs[i]) : i \in 1 .. 2}),
              !.reads = @ + Cardinality({i \in 1 .. 2 : Source(c, u.rs[i]) < c.cycle})]
ReadStalled(c) ==
    IF c.reads > RF_READS_PER_CYCLE THEN advancePos([c EXCEPT !.reads = @ - RF_READS_PER_CYCLE, !.issued = 0]) ELSE c

\* The window may advance the core and delay the uop.
Started(c) == [c EXCEPT !.start = c.cycle, !.from = Max({@, Max({minAllocCycle(c.rob), c.cycle}) + DispatchDelay})]
Windowed(c, u) == schedule(c, c.from, u.ports, u.extraSlots)
Restarted(c) == IF c.cycle > c.start THEN [c EXCEPT !.issued = 0, !.reads = 0] ELSE c

\* Loads and stores take a place in their queue and wait for the addresses of earlier stores.
Dispatched(c, q) == [c EXCEPT !.sched = Max({@, minAllocCycle(q), c.lastStoreAddrCommit + 1})]
Ordered(c) == [c EXCEPT !.passed = @ \/ c.sched <= c.fenced]
Slot(addr) == addr % FwdEntries

LoadDone(c, addr) ==
    Max({IF addr = NoAddr THEN c.sched ELSE c.sched + Latency[addr] + L1D_LAT}
        \cup (IF c.fwd[Slot(addr)].addr = addr THEN {c.fwd[Slot(addr)].cycle} ELSE {}))
Load(c, addr) ==
    LET d == Ordered(Dispatched(c, c.loadQueue)) IN
    [d EXCEPT !.loadIdx = @ + 1, !.lastCommit = LoadDone(d, addr), !.loadQueue = markRetire(@, LoadDone(d, addr), LsqSize)]

StoreDone(c, addr) == c.sched + Latency[addr] + L1D_LAT
Store(c, addr) ==
    LET d == Ordered(Dispatched(c, c.storeQueue)) IN
    [d EXCEPT !.storeIdx = @ + 1, !.lastCommit = StoreDone(d, addr), !.fwd[Slot(addr)] = [addr |-> addr, cycle |-> StoreDone(d, addr)],
              !.lastStoreCommit = Max({@, StoreDone(d, addr)}), !.storeQueue = markRetire(@, StoreDone(d, addr), LsqSize)]

General(c, u) == [c EXCEPT !.lastCommit = c.sched + u.lat]
StoreAddr(c, u) == [c EXCEPT !.lastCommit = c.sched + u.lat, !.lastStoreAddrCommit = Max({@, c.sched + u.lat})]

Fence(c, u) ==
    [c EXCEPT !.lastCommit = c.sched + u.lat, !.fenced = c.lastStoreCommit,
              !.lastStoreAddrCommit = Max({@, c.sched + u.lat, c.lastStoreCommit + u.lat})]

\* A block with more loads or stores than were reported fails the assertions at its end.
Executed(c, u, lds, sts) ==
    CASE u.type = "load" -> Load(c, IF c.loadIdx < Len(lds) THEN lds[c.loadIdx + 1] ELSE NoAddr)
      [] u.type = "store" -> Store(c, IF c.storeIdx < Len(sts) THEN sts[c.storeIdx + 1] ELSE NoAddr)
      [] u.type = "storeaddr" -> StoreAddr(c, u)
      [] u.type = "fence" -> Fence(c, u)
      [] OTHER -> General(c, u)
Retired(c, u) ==
    [c EXCEPT !.rob = markRetire(@, c.lastCommit, RobSize),
              !.regScoreboard = [r \in Registers |-> IF r \in {u.rd[1], u.rd[2]} THEN c.lastCommit ELSE @[r]]]

Uop(c, u, lds, sts) ==
    Retired(Executed(Restarted(Windowed(Started(ReadStalled(Sourced(Issued(Queued(Stalled(Decoded(c, u)))), u))), u)), u, lds, sts), u)
Uops(c, uops, lds, sts) == FoldLeft(LAMBDA d, u : Uop(d, u, lds, sts), [c EXCEPT !.lastCommit = 0], uops)

\* The fetch of the next block starts when a mispredicted branch has committed.
Fetched(c, fetchCycle) == [c EXCEPT !.decode = Max({@ + 1, fetchCycle + FetchToDecode})]
Fetch(c, lines, late, mispredicted) ==
    Fetched(c, (IF mispredicted THEN c.lastCommit ELSE c.decode - FetchToDecode) + lines * late)
Predicted(c) == IF branchPc = 0 THEN c ELSE Learnt(c, branchPc, branchTaken)
Mispredicted(c) == branchPc # 0 /\ Predicts(c, branchPc) # branchTaken

\* The asserts on the numbers of loads and stores; what the next block does not read is dropped.
Checked(c) == [c EXCEPT !.failed = @ \/ c.loadIdx # Len(loads) \/ c.storeIdx # Len(stores) \/ c.occ > WSZ]
Ended(c) ==
    [c EXCEPT !.loadIdx = 0, !.storeIdx = 0, !.prevDec = 0, !.start = 0, !.from = 0, !.sched = 0, !.port = 0,
              !.busy = {s \in @ : s[1] >= c.cycle}]
Simulated(c, next, late) == Ended(Fetch(Predicted(c), next.lines, late, Mispredicted(c)))

-----------------------------------------------------------------------------
Calls(b) ==
    [i \in DOMAIN SelectSeq(b.uops, LAMBDA u : u.type \in {"load", "store"}) |->
        SelectSeq(b.uops, LAMBDA u : u.type \in {"load", "store"})[i].type] \o (IF b.branch # 0 THEN <<"branch">> ELSE <<>>)

OOOInit ==
    /\ core = NewCore /\ prevBbl = NoBlock
    /\ loads = <<>> /\ stores = <<>> /\ branchPc = 0 /\ branchTaken = FALSE
    /\ calls = <<>> /\ at = "out" /\ phaseEndCycle = PhaseLength /\ globPhaseCycles = 0
    /\ bbls = 0 /\ useA2 \in BOOLEAN /\ oooFailed = FALSE

CallsNext(call) == at = "run" /\ bbls < MaxBbls /\ calls # <<>> /\ Head(calls) = call /\ calls' = Tail(calls)

load(addr) ==
    /\ CallsNext("load") /\ loads' = Append(loads, addr)
    /\ UNCHANGED <<core, prevBbl, stores, branchPc, branchTaken, at, phaseEndCycle, globPhaseCycles, bbls, useA2, oooFailed>>

store(addr) ==
    /\ CallsNext("store") /\ stores' = Append(stores, addr)
    /\ UNCHANGED <<core, prevBbl, loads, branchPc, branchTaken, at, phaseEndCycle, globPhaseCycles, bbls, useA2, oooFailed>>

branch(taken) ==
    /\ CallsNext("branch")
    /\ branchPc' = (IF prevBbl = NoBlock THEN 1 ELSE prevBbl.branch) /\ branchTaken' = taken
    /\ UNCHANGED <<core, prevBbl, loads, stores, at, phaseEndCycle, globPhaseCycles, bbls, useA2, oooFailed>>

\* BblFunc: the block before is simulated, unless it ran elsewhere; then the core may be past its phase.
bbl(next, late) ==
    /\ at = "run" /\ calls = <<>> /\ bbls < MaxBbls
    /\ bbls' = bbls + 1
    /\ \/ /\ prevBbl = NoBlock
          /\ UNCHANGED <<core, branchPc>>
       \/ /\ prevBbl # NoBlock
          /\ core' = Simulated(Checked(Uops(core, prevBbl.uops, loads, stores)), next, late)
          /\ branchPc' = 0
    /\ prevBbl' = next /\ loads' = <<>> /\ stores' = <<>>
    /\ at' = IF core'.cycle > phaseEndCycle THEN "barrier" ELSE "run"
    /\ calls' = Calls(next)
    /\ UNCHANGED <<branchTaken, phaseEndCycle, globPhaseCycles, useA2, oooFailed>>

advance(c, target) ==
    IF target > c.cycle
    THEN [longAdvance([c EXCEPT !.issued = 0, !.reads = 0, !.decode = @ + (target - c.cycle)], target) EXCEPT !.lastCommit = 0]
    ELSE c

\* TakeBarrier: the phase ends, the recorder moves the core, and the thread may come back to another
\* core; this one then runs a thread in the middle of some block.
TakeBarrier(gap, taker) ==
    /\ at = "barrier" /\ bbls < MaxBbls /\ globPhaseCycles < MaxPhases * PhaseLength
    /\ phaseEndCycle' = phaseEndCycle + PhaseLength
    /\ globPhaseCycles' = globPhaseCycles + PhaseLength
    /\ core' = advance(core, core.cycle + gap)
    /\ IF taker # NoBlock
       THEN prevBbl' = NoBlock /\ calls' = Calls(taker) /\ at' = "run"
       ELSE /\ at' = IF core'.cycle > phaseEndCycle' THEN "barrier" ELSE "run"
            /\ UNCHANGED <<prevBbl, calls>>
    /\ oooFailed' = (oooFailed \/ core'.cycle # core.cycle + gap)
    /\ UNCHANGED <<loads, stores, branchPc, branchTaken, bbls, useA2>>

\* A system call: the thread leaves the core after the block, and phases pass.
leave ==
    /\ at = "run" /\ calls = <<>> /\ prevBbl # NoBlock /\ bbls < MaxBbls
    /\ at' = "out"
    /\ UNCHANGED <<core, prevBbl, loads, stores, branchPc, branchTaken, calls, phaseEndCycle, globPhaseCycles, bbls, useA2, oooFailed>>

PhasePasses ==
    /\ at = "out" /\ globPhaseCycles < MaxPhases * PhaseLength
    /\ globPhaseCycles' = globPhaseCycles + PhaseLength
    /\ UNCHANGED <<core, prevBbl, loads, stores, branchPc, branchTaken, calls, at, phaseEndCycle, bbls, useA2, oooFailed>>

\* The same thread joins, or another one after a context switch.
join(taker) ==
    /\ at = "out" /\ at' = "run"
    /\ core' = advance(core, globPhaseCycles)
    /\ phaseEndCycle' = globPhaseCycles + PhaseLength
    /\ IF taker # NoBlock THEN prevBbl' = NoBlock /\ calls' = Calls(taker) ELSE UNCHANGED <<prevBbl, calls>>
    /\ UNCHANGED <<loads, stores, branchPc, branchTaken, globPhaseCycles, bbls, useA2, oooFailed>>

\* The branch predictor by itself, on any sequence of branches.
predict(pc, taken) ==
    /\ core' = Learnt(core, pc, taken)
    /\ UNCHANGED <<prevBbl, loads, stores, branchPc, branchTaken, calls, at, phaseEndCycle, globPhaseCycles, bbls, useA2, oooFailed>>

OOONext ==
    \/ \E addr \in DOMAIN Latency : load(addr) \/ store(addr)
    \/ \E taken \in BOOLEAN : branch(taken)
    \/ \E next \in Blocks, late \in FetchLats : bbl(next, late)
    \/ \E gap \in Gaps, taker \in Takers \cup {NoBlock} : TakeBarrier(gap, taker)
    \/ leave \/ PhasePasses
    \/ \E taker \in Takers \cup {NoBlock} : join(taker)

-----------------------------------------------------------------------------
\* A port starts one uop in a cycle, or goes on with one, through every rebase of the window.
PortsOncePerCycle == ~core.clash

\* The window holds what was scheduled: its count is that of the cycles to come, and nothing is kept
\* for a cycle that has passed or has an array.
WindowExact ==
    LET Sum(f, S) == FoldFunctionOnSet(LAMBDA e, n : e.count + n, 0, f, S) IN
    /\ core.occ = Sum(core.cur, 0 .. H - 1) + Sum(core.nxt, 0 .. H - 1) + Sum(core.ub, DOMAIN core.ub)
    /\ \A i \in 0 .. core.pos - 1 : core.cur[i] = Free
    /\ \A x \in DOMAIN core.ub : x >= core.cycle - core.pos + 2 * H

\* The queues retire in order and no more in a cycle than their width, and one: the first of a cycle
\* that follows a full one is not counted.
RetiresInOrder ==
    \A q \in {<<core.rob, RobSize>>, <<core.loadQueue, LsqSize>>, <<core.storeQueue, LsqSize>>} :
        LET age(i) == q[1].buf[(q[1].idx + i) % q[2]] IN
        /\ \A i \in 1 .. q[2] - 1 : age(i - 1) <= age(i)
        /\ \A i \in 0 .. q[2] - 1 : age(i) > 0 => Cardinality({k \in 0 .. q[2] - 1 : age(k) = age(i)}) <= RetireWidth + 1

\* No load or store is dispatched before the stores before the last fence are done.
FencesHold == ~core.passed

\* After two outcomes alike in one history the predictor predicts the third.
PredictorLearns == \A i \in DOMAIN core.pht : Len(core.seen[i]) = 2 /\ core.seen[i][1] = core.seen[i][2] => (core.pht[i] > 1) = core.seen[i][1]

\* The loads and stores reported are those of the block, also after a context switch; the window never
\* overflows, and the core reaches the cycle it is moved to.
OOOAsserts == ~core.failed /\ ~oooFailed
=============================================================================
