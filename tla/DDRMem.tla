------------------------------- MODULE DDRMem -------------------------------
(***************************************************************************)
(* The DDR controller of one channel (ddr_mem.h/.cpp): a queue of reads    *)
(* and one of writes, an overflow queue, FR-FCFS queues of every bank, and *)
(* one scheduling event that wakes the controller when the first command   *)
(* may issue, replaced by an earlier one when a request allows it.  Time   *)
(* is in memory cycles; the weave phase runs the events in their order.    *)
(***************************************************************************)
EXTENDS Integers, Sequences, FiniteSetsExt, SequencesExt, TLAPS

CONSTANTS
    DDRConfigs, \* the configurations that are tried
    DDRAddrs,   \* line addresses
    DDRDeltas,  \* cycles between two requests
    Activates,  \* activates in a window of tFAW (four in the code)
    MaxReqs,    \* bound on the requests
    MaxCycle    \* bound on the cycle of a refresh

VARIABLES
    C,              \* the configuration
    cycle,          \* the cycle of the last event
    mem,            \* banks, windows, queues and requests of the controller
    events,         \* the scheduling events: state and cycle
    eventFreelist, nextSchedEvent, nextSchedCycle,
    refreshAt,      \* cycle of the next refresh
    acts, bursts,   \* history: the activates of every rank, the reads and writes
    ddrAsserted     \* no assertion of the code has failed

ddrVars == <<C, cycle, mem, events, eventFreelist, nextSchedEvent, nextSchedCycle, refreshAt, acts, bursts, ddrAsserted>>

-----------------------------------------------------------------------------
(* The events of the controller run on cycles of the system, its logic on    *)
(* those of the memory: an event enqueued for a memory cycle must wake up in *)
(* that cycle ("you can prove this with inequalities", ddr_mem.h:256).       *)

\* The frequencies are sysFreqKHz and memFreqKHz.
sysToMemCycle(sysCycle, sysFreq, memFreq) == ((sysCycle * memFreq) \div sysFreq) + 1
memToSysCycle(memCycle, sysFreq, memFreq) == ((memCycle + 1) * sysFreq) \div memFreq
matchingMemToSysCycle(memCycle, sysFreq, memFreq) == (((2 * memCycle - 1) * sysFreq) \div memFreq) \div 2

-----------------------------------------------------------------------------
Never == 1000000    \* -1ul
DDRRanks == 0 .. C.ranksPerChannel - 1
DDRBanks == 0 .. C.banksPerRank - 1

\* row : rank : bank, from the high end; the columns are left out.
mapLineAddr(addr) ==
    [bank |-> addr % C.banksPerRank, rank |-> (addr \div C.banksPerRank) % C.ranksPerChannel,
     row |-> addr \div (C.banksPerRank * C.ranksPerChannel)]

NewBank == [open |-> FALSE, openRow |-> 0, minPre |-> 0, lastAct |-> 0, lastCmd |-> 0,
            curRowHits |-> 0, rdReqs |-> <<>>, wrReqs |-> <<>>]

NewController ==
    [banks |-> [r \in DDRRanks |-> [b \in DDRBanks |-> NewBank]],
     window |-> [r \in DDRRanks |-> [i \in 1 .. Activates |-> 0]],
     rdQueue |-> <<>>, wrQueue |-> <<>>, overflow |-> <<>>, reqs |-> <<>>,
     minResp |-> C.tCL + C.tBL + 1, lastWrite |-> FALSE]

Init ==
    /\ C \in DDRConfigs
    /\ cycle = 1
    /\ mem = NewController
    /\ events = <<>> /\ eventFreelist = <<>>
    /\ nextSchedEvent = 0 /\ nextSchedCycle = Never
    /\ refreshAt = 1
    /\ acts = [r \in DDRRanks |-> {}] /\ bursts = {}
    /\ ddrAsserted = TRUE

BankOf(m, r) == m.banks[r.rank][r.bank]
RowHit(m, r) == BankOf(m, r).open /\ BankOf(m, r).openRow = r.row

\* The earliest activate for a request whose row is not open.
ActCycle(m, r) ==
    LET bank == BankOf(m, r)
        pre == IF bank.open THEN Max({r.arrival, bank.minPre}) ELSE bank.minPre
    IN  Max({r.arrival, pre + C.tRP, bank.lastAct + C.tRRD, m.window[r.rank][1] + C.tFAW})

findMinCmdCycle(m, r) ==
    IF RowHit(m, r) THEN Max({r.arrival, BankOf(m, r).lastCmd + 1}) ELSE ActCycle(m, r) + C.tRCD

\* The activates of a rank stay sorted; the oldest leaves the window.
addActivation(window, at) == SortSeq(Append(Tail(window), at), <)

Queued(m, r) == IF C.deferredWrites /\ r.write THEN BankOf(m, r).wrReqs ELSE BankOf(m, r).rdReqs

\* A request enters the queue of its bank: behind the last one of its row, unless rowHitLimit
\* hits follow each other already; an open row is hit at once only when nobody waits.
Queue(m, id, now) ==
    LET r == [m.reqs[id] EXCEPT !.arrival = now]
        bank == BankOf(m, r)
        q == Queued(m, r)
        same == {i \in DOMAIN q : m.reqs[q[i]].row = r.row}
        follows == same # {} /\ m.reqs[q[Max(same)]].seq < C.rowHitLimit
        bypass == q = <<>> /\ RowHit(m, r) /\ bank.curRowHits < C.rowHitLimit
        seq == CASE follows -> m.reqs[q[Max(same)]].seq + 1
                 [] bypass -> bank.curRowHits + 1
                 [] OTHER -> 0
        new == IF follows THEN InsertAt(q, Max(same) + 1, id) ELSE Append(q, id)
    IN  [m EXCEPT !.reqs[id] = [r EXCEPT !.seq = seq],
                  !.banks[r.rank][r.bank] = IF C.deferredWrites /\ r.write THEN [@ EXCEPT !.wrReqs = new]
                                            ELSE [@ EXCEPT !.rdReqs = new]]

First(m, id) == Queued(m, m.reqs[id])[1] = id

\* The read or write of request `id' issues at or after `now'.
Issue(m, id, now, isWriteQueue) ==
    LET r == m.reqs[id]
        old == BankOf(m, r)
        hit == RowHit(m, r)
        act == ActCycle(m, r)
        cmd == Max({now, m.minResp - C.tCL} \cup (IF m.lastWrite /\ ~r.write THEN {m.minResp + C.tWTR} ELSE {})
                   \cup (IF hit THEN {} ELSE {act + C.tRCD}))
        resp == cmd + C.tCL + C.tBL
        lastAct == IF hit THEN old.lastAct ELSE act
        q == Tail(IF isWriteQueue THEN old.wrReqs ELSE old.rdReqs)
        nextHits == q # <<>> /\ m.reqs[q[1]].seq # 0
    IN  [mem |-> [m EXCEPT
            !.banks[r.rank][r.bank] =
                [open |-> ~(C.closedPage /\ ~nextHits), openRow |-> r.row, lastAct |-> lastAct, lastCmd |-> cmd,
                 minPre |-> Max({@.minPre, lastAct + C.tRAS, IF r.write THEN resp + C.tWR ELSE cmd + C.tRTP}),
                 curRowHits |-> r.seq,
                 rdReqs |-> IF isWriteQueue THEN @.rdReqs ELSE q, wrReqs |-> IF isWriteQueue THEN q ELSE @.wrReqs],
            !.window[r.rank] = IF hit THEN @ ELSE addActivation(@, act),
            !.rdQueue = SelectSeq(@, LAMBDA i : i # id), !.wrQueue = SelectSeq(@, LAMBDA i : i # id),
            !.minResp = resp, !.lastWrite = r.write],
         acts |-> IF hit THEN {} ELSE {<<r.rank, [bank |-> r.bank, at |-> act]>>},
         bursts |-> {[write |-> r.write, at |-> cmd]},
         ok |-> old.lastCmd < cmd /\ (hit \/ m.window[r.rank][1] <= act)]

\* trySchedule(): the first request of the preferred queue that is first in its bank and ready.
TrySchedule(m, now) ==
    LET Same(min) == [mem |-> m, acts |-> {}, bursts |-> {}, ok |-> TRUE, min |-> min]
        none == m.rdQueue = <<>> /\ m.wrQueue = <<>>
        early == now + C.tCL < m.minResp
        many == Len(m.wrQueue)
        prioWrites == many > (3 * C.queueDepth) \div 4 \/ (m.lastWrite /\ many > C.queueDepth \div 4)
        isWriteQueue == m.rdQueue = <<>> \/ prioWrites
        queue == IF isWriteQueue THEN m.wrQueue ELSE m.rdQueue
        heads == {i \in DOMAIN queue : First(m, queue[i])}
        ready == {i \in heads : findMinCmdCycle(m, m.reqs[queue[i]]) <= now}
        issued == Issue(m, queue[Min(ready)], now, isWriteQueue)
    IN  CASE none -> Same(Never)
          [] ~none /\ early -> Same(m.minResp - C.tCL)
          [] ~none /\ ~early /\ ready = {} -> Same(Min({findMinCmdCycle(m, m.reqs[queue[i]]) : i \in heads}))
          [] ~none /\ ~early /\ ready # {} ->
                [mem |-> issued.mem, acts |-> issued.acts, bursts |-> issued.bursts, ok |-> issued.ok,
                 min |-> IF issued.mem.rdQueue = <<>> /\ issued.mem.wrQueue = <<>> THEN Never
                         ELSE issued.mem.minResp - C.tCL]

Full(m) == Len(m.rdQueue) = C.queueDepth \/ Len(m.wrQueue) = C.queueDepth

\* A request takes an element of the read or the write queue, then its place in the bank's queue.
Admit(m, id, now) ==
    LET alloc == IF C.deferredWrites /\ m.reqs[id].write THEN [m EXCEPT !.wrQueue = Append(@, id)]
                 ELSE [m EXCEPT !.rdQueue = Append(@, id)]
    IN  Queue(alloc, id, now)

\* When the controller is to wake for request `id', given that it wakes at `sched'.
Wanted(m, id, now, sched) ==
    LET min == Max({now, m.minResp - C.tCL - C.tBL})
    IN  IF sched > min THEN Max({min, findMinCmdCycle(m, m.reqs[id])}) ELSE min

\* No event that is still queued comes before `at'.
InOrder(at) ==
    /\ cycle <= at /\ at <= refreshAt
    /\ \A e \in DOMAIN events : events[e].state # "IDLE" => at <= events[e].cycle

\* A request arrives.  With both queues free it is admitted, and the scheduling event is replaced
\* when the request may issue earlier; else it waits in the overflow queue.
Enqueue(addr, write, delta) ==
    LET now == cycle + delta
        loc == mapLineAddr(addr)
        id == Len(mem.reqs) + 1
        arrived == [mem EXCEPT !.reqs = Append(@, [rank |-> loc.rank, bank |-> loc.bank, row |-> loc.row,
                                                   write |-> write, seq |-> 0, arrival |-> now])]
        admitted == Admit(arrived, id, now)
        at == IF First(admitted, id) THEN Wanted(admitted, id, now, nextSchedCycle) ELSE Never
        fresh == IF eventFreelist = <<>> THEN Len(events) + 1 ELSE Head(eventFreelist)
        annulled == IF nextSchedEvent = 0 THEN events ELSE [events EXCEPT ![nextSchedEvent].state = "ANNULLED"]
        queued == [state |-> "QUEUED", cycle |-> at]
    IN  /\ Len(mem.reqs) < MaxReqs
        /\ InOrder(now)
        /\ cycle' = now
        /\ mem' = IF Full(mem) THEN [arrived EXCEPT !.overflow = Append(@, id)] ELSE admitted
        /\ IF ~Full(mem) /\ nextSchedCycle > at
           THEN /\ ddrAsserted' = (ddrAsserted /\ (nextSchedEvent # 0 => events[nextSchedEvent].state = "QUEUED"))
                /\ events' = IF fresh > Len(events) THEN Append(annulled, queued)
                             ELSE [annulled EXCEPT ![fresh] = queued]
                /\ eventFreelist' = IF eventFreelist = <<>> THEN <<>> ELSE Tail(eventFreelist)
                /\ nextSchedEvent' = fresh
                /\ nextSchedCycle' = at
           ELSE UNCHANGED <<events, eventFreelist, nextSchedEvent, nextSchedCycle, ddrAsserted>>
        /\ UNCHANGED <<C, refreshAt, acts, bursts>>

\* Mutant: the controller sleeps when trySchedule() found nothing, whatever came from the overflow queue.
NextWakeForgets(m, min, id, now) == min

\* The next wake-up: what trySchedule() found, or earlier for the request from the overflow queue.
NextWake(m, min, id, now) ==
    LET minQueued == Max({now, m.minResp - C.tCL - C.tBL})
        lowered == IF min > minQueued THEN Max({minQueued, findMinCmdCycle(m, m.reqs[id])}) ELSE min
    IN  IF id = 0 \/ ~First(m, id) THEN min
        ELSE IF lowered > minQueued THEN minQueued ELSE lowered

\* An event is queued for a cycle of the system and finds its memory cycle again.
Woken(at) == sysToMemCycle(matchingMemToSysCycle(at, C.sysFreq, C.memFreq), C.sysFreq, C.memFreq)

\* The scheduling event runs: tick() issues at most one request and admits at most one from the
\* overflow queue, and the event is queued again, or recycled when nothing waits.
Tick(e) ==
    /\ events[e].state = "QUEUED"
    /\ \E now \in {Woken(events[e].cycle)} : \E tried \in {TrySchedule(mem, now)} :
       \E id \in {IF ~Full(tried.mem) /\ tried.mem.overflow # <<>> THEN Head(tried.mem.overflow) ELSE 0} :
       \E after \in {IF id = 0 THEN tried.mem ELSE Admit([tried.mem EXCEPT !.overflow = Tail(@)], id, now)} :
       \E at \in {NextWake(after, tried.min, id, now)} :
        /\ InOrder(now)
        /\ cycle' = now
        /\ mem' = after
        /\ nextSchedCycle' = at
        /\ IF at = Never
           THEN /\ nextSchedEvent' = 0
                /\ events' = [events EXCEPT ![e].state = "IDLE"]
                /\ eventFreelist' = <<e>> \o eventFreelist
           ELSE /\ events' = [events EXCEPT ![e].cycle = at]
                /\ UNCHANGED <<nextSchedEvent, eventFreelist>>
        /\ acts' = [r \in DDRRanks |-> acts[r] \cup {a[2] : a \in {x \in tried.acts : x[1] = r}}]
        /\ bursts' = bursts \cup tried.bursts
        /\ ddrAsserted' = (ddrAsserted /\ now = nextSchedCycle /\ e = nextSchedEvent /\ tried.min >= now /\ tried.ok)
        /\ UNCHANGED <<C, refreshAt>>

\* An event that was replaced only goes to the free list.
Annulled(e) ==
    /\ events[e].state = "ANNULLED" /\ InOrder(events[e].cycle)
    /\ cycle' = events[e].cycle
    /\ events' = [events EXCEPT ![e].state = "IDLE"]
    /\ eventFreelist' = <<e>> \o eventFreelist
    /\ ddrAsserted' = (ddrAsserted /\ e # nextSchedEvent)
    /\ UNCHANGED <<C, mem, nextSchedEvent, nextSchedCycle, refreshAt, acts, bursts>>

\* Every tREFI cycles all banks close until tRFC after the last of them may precharge.
Refresh ==
    LET all == {mem.banks[r][b] : r \in DDRRanks, b \in DDRBanks}
        start == Max({refreshAt} \cup {b.minPre : b \in all} \cup {b.lastCmd : b \in all})
    IN  /\ InOrder(refreshAt) /\ refreshAt <= MaxCycle
        /\ cycle' = refreshAt
        /\ refreshAt' = refreshAt + C.tREFI + 1      \* memToSysCycle() adds one
        /\ mem' = [mem EXCEPT !.banks = [r \in DDRRanks |-> [b \in DDRBanks |->
                [@[r][b] EXCEPT !.minPre = start + C.tRFC - C.tRP, !.open = FALSE]]]]
        /\ UNCHANGED <<C, events, eventFreelist, nextSchedEvent, nextSchedCycle, acts, bursts, ddrAsserted>>

Next ==
    \/ \E addr \in DDRAddrs, write \in BOOLEAN, delta \in DDRDeltas : Enqueue(addr, write, delta)
    \/ \E e \in DOMAIN events : Tick(e) \/ Annulled(e)
    \/ Refresh

Spec == Init /\ [][Next]_ddrVars

-----------------------------------------------------------------------------
\* Whoever waits will be looked at: the one scheduling event is queued at nextSchedCycle, and a
\* request in the overflow queue has somebody before it.
NoRequestStranded ==
    /\ mem.rdQueue \o mem.wrQueue # <<>> =>
        /\ nextSchedEvent # 0
        /\ events[nextSchedEvent] = [state |-> "QUEUED", cycle |-> nextSchedCycle]
    /\ mem.overflow # <<>> => mem.rdQueue \o mem.wrQueue # <<>>

\* In the queue of a bank the hits of a row adjoin each other, at most rowHitLimit of them.
RowHitsBounded ==
    \A r \in DDRRanks, b \in DDRBanks : \A q \in {mem.banks[r][b].rdReqs, mem.banks[r][b].wrReqs} :
        \A i \in DOMAIN q :
            /\ mem.reqs[q[i]].seq <= C.rowHitLimit
            /\ i > 1 /\ mem.reqs[q[i]].seq # 0 =>
                /\ mem.reqs[q[i - 1]].row = mem.reqs[q[i]].row
                /\ mem.reqs[q[i]].seq = mem.reqs[q[i - 1]].seq + 1

\* No more than the window's activates of a rank in tFAW cycles, and those of a bank apart by
\* tRAS and tRP.
ActivatesSpaced ==
    \A r \in DDRRanks : \A x \in acts[r] :
        /\ \A y \in acts[r] : x # y /\ x.bank = y.bank /\ x.at <= y.at => y.at - x.at >= C.tRAS + C.tRP
        /\ Cardinality({y \in acts[r] : x.at <= y.at /\ y.at < x.at + C.tFAW}) <= Activates

\* The bursts follow each other, a read after a write by tWTR.
BusInOrder ==
    \A x, y \in bursts : x.at < y.at =>
        /\ y.at - x.at >= C.tBL
        /\ x.write /\ ~y.write => y.at >= x.at + C.tCL + C.tBL + C.tWTR

\* No assertion of the controller fails.
ControllerAsserts == ddrAsserted

-----------------------------------------------------------------------------
(* What the comment promises of the two kinds of cycles, for all frequencies. *)

\* Dividing rounds down to the multiple that fits.
LEMMA DivBounds ==
    ASSUME NEW a \in Nat, NEW d \in Nat, d > 0
    PROVE  /\ a \div d \in Nat
           /\ (a \div d) * d <= a
           /\ a < (a \div d) * d + d
<1> DEFINE q == a \div d
           r == a % d
<1>1. q \in Nat /\ r \in 0 .. d - 1 /\ a = d * q + r
  BY SMTT(30)
<1>2. q * d = d * q
  BY <1>1, SMTT(30)
<1> HIDE DEF q, r
<1>3. q * d <= a /\ a < q * d + d
  BY <1>1, <1>2, SMTT(30)
<1> QED
  BY <1>1, <1>3 DEF q

\* The quotient between two neighbouring multiples.
LEMMA DivBetween ==
    ASSUME NEW a \in Nat, NEW d \in Nat, NEW q \in Nat, d > 0, q * d <= a, a < q * d + d
    PROVE  a \div d = q
<1> DEFINE p == a \div d
<1>1. p \in Nat /\ p * d <= a /\ a < p * d + d
  BY DivBounds
<1> HIDE DEF p
<1>2. CASE p < q
  <2>1. (p + 1) * d <= q * d
    BY <1>1, <1>2, SMTT(30)
  <2>2. (p + 1) * d = p * d + d
    BY <1>1, SMTT(30)
  <2> QED
    BY <1>1, <2>1, <2>2, SMTT(30)
<1>3. CASE q < p
  <2>1. (q + 1) * d <= p * d
    BY <1>1, <1>3, SMTT(30)
  <2>2. (q + 1) * d = q * d + d
    BY SMTT(30)
  <2> QED
    BY <1>1, <2>1, <2>2, SMTT(30)
<1>4. p = q
  BY <1>1, <1>2, <1>3, SMTT(30)
<1> QED
  BY <1>4 DEF p

\* "Produces a sysCycle that, when translated back using sysToMemCycle, will produce the same
\* memCycle.  Requires memFreq < sysFreq/2": the constructor panics otherwise.
THEOREM TranslatesBack ==
    ASSUME NEW sysFreq \in Nat, NEW memFreq \in Nat, NEW memCycle \in Nat, memFreq > 0, memCycle > 0, 2 * memFreq < sysFreq
    PROVE  sysToMemCycle(matchingMemToSysCycle(memCycle, sysFreq, memFreq), sysFreq, memFreq) = memCycle
<1> DEFINE a == (2 * memCycle - 1) * sysFreq
           q == a \div memFreq
           x == q \div 2
<1>1. a \in Nat /\ a = 2 * (memCycle * sysFreq) - sysFreq
  BY SMTT(30)
<1>2. q \in Nat /\ q * memFreq <= a /\ a < q * memFreq + memFreq
  BY <1>1, DivBounds
<1>3. x \in Nat /\ x * 2 <= q /\ q < x * 2 + 2
  BY <1>2, DivBounds
<1>4. memCycle * sysFreq \in Nat /\ (memCycle - 1) * sysFreq = memCycle * sysFreq - sysFreq
  BY SMTT(30)
<1> HIDE DEF a, q, x
<1>5. (x * 2) * memFreq <= q * memFreq /\ q * memFreq <= (x * 2 + 1) * memFreq
  BY <1>2, <1>3, SMTT(30)
<1>6. /\ (x * 2) * memFreq = 2 * (x * memFreq)
      /\ (x * 2 + 1) * memFreq = 2 * (x * memFreq) + memFreq
      /\ x * memFreq \in Nat /\ q * memFreq \in Nat
  BY <1>2, <1>3, SMTT(30)
<1> DEFINE y == x * memFreq
           z == memCycle * sysFreq
           w == q * memFreq
<1>7. y \in Nat /\ z \in Nat /\ 2 * y <= w /\ w <= 2 * y + memFreq /\ w <= a /\ a < w + memFreq /\ a = 2 * z - sysFreq
  BY <1>1, <1>2, <1>4, <1>5, <1>6
<1> HIDE DEF w
<1>8. w \in Nat
  BY <1>6 DEF w
<1> HIDE DEF y, z
<1>9. z - sysFreq <= y /\ y < (z - sysFreq) + sysFreq
  BY <1>1, <1>7, <1>8, SMTT(30)
<1>10. (memCycle - 1) * sysFreq <= x * memFreq /\ x * memFreq < (memCycle - 1) * sysFreq + sysFreq
  BY <1>4, <1>9 DEF y, z
<1>11. (x * memFreq) \div sysFreq = memCycle - 1
  BY <1>6, <1>10, DivBetween
<1> QED
  BY <1>11 DEF sysToMemCycle, matchingMemToSysCycle, a, q, x
=============================================================================
