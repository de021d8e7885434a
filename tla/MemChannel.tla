----------------------------- MODULE MemChannel -----------------------------
(***************************************************************************)
(* The channels of the detailed memory controller (detailed_mem.h/.cpp):   *)
(* the latency of every access is computed at once, from the cycles of the *)
(* last commands of its rank and bank and from a log of the latest bursts  *)
(* on the data bus.  Cycles are those of the memory; the widths of columns *)
(* and rows stand for sets of addresses.                                   *)
(***************************************************************************)
EXTENDS Integers, Sequences, FiniteSetsExt, SequencesExt, TLC

CONSTANTS
    Configs,    \* the configurations of MemParam that are tried, each with the requests that come: addrs, their
                \*   line addresses, deltas, the cycles between two, and the bound maxOps on their number
    Window      \* the ring of activates (four entries in the code)

VARIABLES
    P,          \* the configuration
    chnls,      \* every channel: its ranks and its accessLog
    cmds,       \* history: the commands issued to every rank
    onBus,      \* history: the bursts of every channel, in the order in which they were issued
    asserted    \* no assertion of the code has failed

READ == "read"
WRITE == "write"
Channels == 0 .. P.channelCount - 1
Ranks == 0 .. P.rankCount - 1
Banks == 0 .. P.bankCount - 1

GetDataLatency(type) == IF type = READ THEN P.tCAS ELSE P.tCWD
GetDataDelay(type) == GetDataLatency(type) + P.tTrans \div 4
GetPreDelay(type) == IF type = READ THEN P.tRTP ELSE P.tCWD + P.tTrans + P.tWR
GetRefreshCycle == P.tRFC + (IF P.open THEN P.tRPab ELSE 0)
GetRdWrDelay(type, lastType) ==
    CASE lastType = READ /\ type = WRITE -> P.tCAS + P.tCCD \div 2 + 2 - P.tCWD
      [] lastType = WRITE /\ type = READ -> P.tCWD + P.tTrans + P.tWTR
      [] OTHER -> Max({P.tTrans, P.tCCD})

\* The fields of an address from its low end; what is left over is the row.
Fields == <<
    <<"chnl", "rank", "bank", "col">>, <<"chnl", "bank", "rank", "col">>,
    <<"chnl", "rank", "col", "bank">>, <<"chnl", "bank", "col", "rank">>,
    <<"chnl", "col", "rank", "bank">>, <<"chnl", "col", "bank", "rank">>,
    <<"col", "chnl", "bank", "rank">>, <<"col", "bank", "chnl", "rank">>,
    <<"col", "bank", "rank", "chnl">> >>

Width == [chnl |-> P.channelCount, rank |-> P.rankCount, bank |-> P.bankCount, col |-> P.colCount]

AddressMap(addr) ==
    LET order == Fields[P.interleaveType + 1]
        Below(i) == FoldLeft(LAMBDA w, f : w * Width[f], 1, SubSeq(order, 1, i - 1))
        Field(f) == LET i == CHOOSE j \in 1 .. 4 : order[j] = f
                    IN  (addr \div Below(i)) % Width[f]
    IN  [chnl |-> Field("chnl"), rank |-> Field("rank"), bank |-> Field("bank"), row |-> addr \div Below(5)]

\* The controller finds the channel by itself.
ReturnChannel(addr) ==
    LET shift == CASE P.interleaveType <= 5 -> 1
                   [] P.interleaveType = 6 -> P.colCount
                   [] P.interleaveType = 7 -> P.colCount * P.bankCount
                   [] OTHER -> P.colCount * P.bankCount * P.rankCount
    IN  (addr \div shift) % P.channelCount

NewRank == [open |-> [b \in Banks |-> FALSE], row |-> [b \in Banks |-> 0], type |-> [b \in Banks |-> READ],
            act |-> [b \in Banks |-> 0], rdwr |-> [b \in Banks |-> 0], pre |-> [b \in Banks |-> 0],
            faw |-> [i \in 1 .. Window |-> 0], lastBank |-> 0, lastAccess |-> 0, lastRefresh |-> 0,
            accessInRefresh |-> 0, pd |-> [idlePd |-> 0, actvPd |-> 0, idleSb |-> 0]]

ChannelInit ==
    /\ P \in Configs
    /\ chnls = [c \in Channels |-> [rank |-> [r \in Ranks |-> NewRank], log |-> <<>>]]
    /\ cmds = [c \in Channels |-> [r \in Ranks |-> {}]]
    /\ onBus = [c \in Channels |-> <<>>]
    /\ asserted = TRUE

IsRowBufferHit(r, bank, row) == r.open[bank] /\ r.row[bank] = row

UpdateRefreshNum(r, arrival) ==
    IF arrival >= r.lastRefresh THEN (arrival - r.lastRefresh) \div P.tREFI ELSE 0

GetPowerDownPenalty(r, arrival) ==
    IF P.powerDownCycle # 0 /\ arrival > r.lastAccess + P.powerDownCycle THEN P.tXP ELSE 0

\* What the cycles since the last access were spent in; nothing calls the periodic update
\* of the statistics, so lastPhaseCycle stays 0.
UpdatePowerDownCycle(r, arrival, refreshNum) ==
    LET idle == Cardinality({b \in Banks : ~r.open[b]})
        down == r.lastAccess + P.powerDownCycle
        Share(n, cycles) == IF P.open THEN (n * cycles) \div P.bankCount ELSE cycles
        refreshed == r.lastRefresh + P.tREFI * refreshNum
        toRefresh == Max({0, r.lastRefresh + P.tREFI - down})
        Add(idlePd, actvPd, idleSb) ==
            [idlePd |-> r.pd.idlePd + idlePd, actvPd |-> r.pd.actvPd + actvPd, idleSb |-> r.pd.idleSb + idleSb]
    IN  CASE P.powerDownCycle = 0 -> r.pd
          [] P.powerDownCycle # 0 /\ r.lastAccess = 0 -> Add(arrival, 0, 0)
          [] P.powerDownCycle # 0 /\ r.lastAccess # 0 /\ arrival <= r.lastAccess -> r.pd
          [] P.powerDownCycle # 0 /\ r.lastAccess # 0 /\ r.lastAccess < arrival /\ arrival <= down ->
                Add(0, 0, Share(idle, arrival - r.lastAccess))
          [] OTHER ->
                IF P.open /\ refreshNum > 0
                THEN Add((idle * toRefresh + (refreshNum - 1) * P.tREFI + arrival - refreshed) \div P.bankCount,
                         ((P.bankCount - idle) * toRefresh) \div P.bankCount, Share(idle, P.powerDownCycle))
                ELSE Add(Share(idle, arrival - down), IF P.open THEN Share(P.bankCount - idle, arrival - down) ELSE 0,
                         Share(idle, P.powerDownCycle))

UpdateLastRefreshCycle(r, refreshNum) ==
    IF refreshNum = 0 THEN r
    ELSE [r EXCEPT !.lastRefresh = @ + P.tREFI * refreshNum, !.open = [b \in Banks |-> FALSE]]

\* The accesses that follow one that ended in the refresh are moved behind it.
AccessInRefresh(r, refreshNum) ==
    IF r.lastRefresh # 0 /\ r.lastAccess >= r.lastRefresh /\ r.lastAccess - r.lastRefresh <= GetRefreshCycle
    THEN (IF refreshNum = 0 THEN 0 ELSE r.accessInRefresh) + 1
    ELSE 0

CalcIntraIssueCycle(rowHit, r, type, arrival, refreshNum) ==
    LET inRefresh == AccessInRefresh(r, refreshNum)
        lastIssued == r.rdwr[r.lastBank]
        delay == GetRdWrDelay(type, r.type[r.lastBank])
    IN  CASE inRefresh > 0 ->
                Max({r.lastAccess + GetRefreshCycle, arrival}) + (IF inRefresh >= 2 THEN delay ELSE 0)
          [] inRefresh = 0 /\ lastIssued # 0 -> Max({lastIssued + (IF rowHit THEN delay ELSE 1), arrival})
          [] OTHER -> arrival

\* Mutant: the slot is as long as the burst, without the turnaround between ranks.
CalcInterIssueCycleTight(log, type, arrival) ==
    LET wait == GetDataLatency(type)
        Moved(start, burst) ==
            IF \/ burst[1] < start + P.tTrans /\ start + P.tTrans <= burst[2]
               \/ burst[1] <= start /\ start < burst[2]
            THEN burst[2] ELSE start
    IN  FoldLeft(Moved, arrival + wait, log) - wait

\* The first slot of the data bus that no logged burst touches.
CalcInterIssueCycle(log, type, arrival) ==
    LET wait == GetDataLatency(type)
        slot == P.tTrans + P.tRTRS
        Moved(start, burst) ==
            LET end == burst[2] + P.tRTRS
            IN  IF \/ burst[1] < start + slot /\ start + slot <= end
                   \/ burst[1] <= start /\ start < end
                THEN end ELSE start
    IN  FoldLeft(Moved, arrival + wait, log) - wait

\* A bank that was never activated waits for nothing.
CalcActConst(r, bank, cycle) ==
    IF r.act[bank] = 0 THEN cycle
    ELSE Max({cycle, r.act[bank] + P.tRC, Max({r.act[b] : b \in Banks}) + P.tRRD, r.faw[1] + P.tFAW}
             \cup (IF r.pre[bank] # 0 THEN {r.pre[bank] + P.tRP} ELSE {}))

CalcPreConst(r, bank, type, cycle) ==
    Max({cycle, r.rdwr[bank] + GetPreDelay(type), r.act[bank] + P.tRAS})

CalcRdWrConst(r, type, cycle) ==
    Max({cycle, r.rdwr[r.lastBank] + GetRdWrDelay(type, r.type[r.lastBank])})

IssueActivate(r, bank, cycle) ==
    [r EXCEPT !.faw = Append(Tail(@), cycle), !.act[bank] = cycle, !.open[bank] = TRUE]

IssuePrecharge(r, bank, cycle) == [r EXCEPT !.pre[bank] = cycle, !.open[bank] = FALSE]

CheckContinuousAccess(r, bank, row, arrival) ==
    P.mergeContinuous /\ arrival < r.pre[bank] /\ r.row[bank] = row

UpdateDataBusCycle(log, start, end) ==
    LET sorted == SortSeq(Append(log, <<start, end>>),
                          LAMBDA a, b : a[1] < b[1] \/ (a[1] = b[1] /\ a[2] < b[2]))
    IN  IF Len(sorted) > P.accessLogDepth THEN [Tail(sorted) EXCEPT ![1][1] = 0] ELSE sorted

\* The steps of one access, a record that each step adds to.  Refreshes that are due, and the power-down.
Refreshed(addr, arrival, type) ==
    LET at == AddressMap(addr)
        r == chnls[ReturnChannel(addr)].rank[at.rank]
        refreshNum == UpdateRefreshNum(r, arrival)
    IN  [chnl |-> ReturnChannel(addr), at |-> at, bank |-> at.bank, type |-> type, arrival |-> arrival,
         refreshNum |-> refreshNum, penalty |-> GetPowerDownPenalty(r, arrival), lastRefresh |-> r.lastRefresh,
         r |-> UpdateLastRefreshCycle([r EXCEPT !.pd = UpdatePowerDownCycle(r, arrival, refreshNum)], refreshNum)]

\* Whether the row is open, or the access continues one that is about to be precharged.
Matched(a) ==
    LET rowHit == IsRowBufferHit(a.r, a.bank, a.at.row)
        continuous == ~P.open /\ CheckContinuousAccess(a.r, a.bank, a.at.row, a.arrival)
    IN  a @@ [rowHit |-> rowHit, continuous |-> continuous, activates |-> ~rowHit /\ ~continuous,
              precharges |-> P.open /\ ~rowHit /\ a.r.open[a.bank], lastPre |-> a.r.pre[a.bank],
              intra |-> CalcIntraIssueCycle(rowHit, a.r, a.type, a.arrival, a.refreshNum)]

\* The open row is closed.
Precharged(a) ==
    LET preCycle == CalcPreConst(a.r, a.bank, a.r.type[a.bank], a.intra)
    IN  [a EXCEPT !.r = [IF a.precharges THEN IssuePrecharge(@, a.bank, preCycle) ELSE @ EXCEPT
                            !.accessInRefresh = IF a.continuous THEN @ ELSE AccessInRefresh(a.r, a.refreshNum)]]
        @@ [preCycle |-> preCycle]

\* The row of the access is opened; the read or write may start.
Activated(a) ==
    LET actCycle == CalcActConst(a.r, a.bank, IF a.precharges THEN a.preCycle + P.tRP ELSE a.intra)
    IN  [a EXCEPT !.r = IF a.activates THEN IssueActivate(@, a.bank, actCycle) ELSE @]
        @@ [actCycle |-> actCycle, waited |-> a.r.act[a.bank] <= actCycle /\ a.r.faw[1] <= actCycle,
            start |-> CASE a.activates -> CalcRdWrConst(a.r, a.type, actCycle + P.tRCD)
                        [] a.continuous -> CalcRdWrConst(a.r, a.type, a.arrival)
                        [] OTHER -> a.intra]

\* The read or write in a free slot of the bus.
Issued(a) ==
    LET issue == CalcInterIssueCycle(chnls[a.chnl].log, a.type, a.start)
        latency == issue - a.arrival + GetDataDelay(a.type) + a.penalty
        end == a.arrival + latency + P.tTrans - P.tTrans \div 4
    IN  [a EXCEPT !.r = [@ EXCEPT !.lastAccess = Max({@, end}), !.rdwr[a.bank] = issue, !.row[a.bank] = a.at.row,
                                  !.type[a.bank] = a.type, !.lastBank = a.bank]]
        @@ [issue |-> issue, latency |-> latency, end |-> end, last |-> a.r.rdwr[a.bank]]

\* With closed pages the row is closed at once.
Closed(a) ==
    LET closeCycle == CalcPreConst(a.r, a.bank, a.type, a.issue)
    IN  (IF P.open THEN a ELSE [a EXCEPT !.r = IssuePrecharge(@, a.bank, closeCycle)])
        @@ [closeCycle |-> closeCycle, open |-> a.r.pre[a.bank] <= closeCycle]

Access(addr, arrival, type) ==
    Closed(Issued(Activated(Precharged(Matched(Refreshed(addr, arrival, type))))))

\* A merged access stands before the precharge of the one it follows, which is not issued.
Commands(a, before) ==
    {c \in before : ~(a.continuous /\ c.cmd = "pre" /\ c.bank = a.bank /\ c.at = a.lastPre)}
    \cup (IF a.precharges THEN {[cmd |-> "pre", bank |-> a.bank, at |-> a.preCycle]} ELSE {})
    \cup (IF a.activates THEN {[cmd |-> "act", bank |-> a.bank, at |-> a.actCycle]} ELSE {})
    \cup {[cmd |-> a.type, bank |-> a.bank, at |-> a.issue]}
    \cup (IF P.open THEN {} ELSE {[cmd |-> "pre", bank |-> a.bank, at |-> a.closeCycle]})

\* The assertions on the way.
Asserts(a) ==
    /\ a.chnl = a.at.chnl
    /\ P.open \/ ~a.rowHit
    /\ a.r.pd.idlePd + a.r.pd.actvPd + a.r.pd.idleSb <= a.arrival \/ P.powerDownCycle = 0
    /\ a.refreshNum > 0 => a.lastRefresh < a.r.lastRefresh
    /\ a.precharges => a.lastPre <= a.preCycle
    /\ a.activates => a.waited /\ a.arrival <= a.actCycle
    /\ a.arrival <= a.start /\ a.arrival <= a.issue
    /\ a.last < a.issue
    /\ ~P.open => a.open
    /\ a.latency >= GetDataLatency(a.type)

\* The channel after the access.
Take(a) ==
    /\ chnls' = [chnls EXCEPT ![a.chnl] = [rank |-> [@.rank EXCEPT ![a.at.rank] = a.r],
                                           log |-> UpdateDataBusCycle(@.log, a.end - P.tTrans, a.end)]]
    /\ cmds' = [cmds EXCEPT ![a.chnl][a.at.rank] = Commands(a, @)]
    /\ onBus' = [onBus EXCEPT ![a.chnl] = Append(@, [start |-> a.end - P.tTrans, penalty |-> a.penalty])]
    /\ asserted' = (asserted /\ Asserts(a))
    /\ UNCHANGED P

\* The controller lets the channel compute the latency of an access that starts at `arrival'.
LatencySimulate(addr, arrival, type) == Take(Access(addr, arrival, type))

-----------------------------------------------------------------------------
\* The slot found for a burst touches no burst issued before, the turnaround between ranks
\* included, although the log remembers only the last ones. The burst is in its slot, except
\* that of a rank that was powered down: tXP is added after the slot was chosen
\* (detailed_mem.cpp:413-419), and the burst may lie on one of another rank.
BurstsDisjoint ==
    \A c \in Channels : \A i, j \in DOMAIN onBus[c] : i < j =>
        LET burst == onBus[c][i].start
            slot == onBus[c][j].start - onBus[c][j].penalty
            length == P.tTrans + P.tRTRS
        IN  burst + length <= slot \/ slot + length <= burst

\* The commands of a rank keep the distances of the data sheet. The window of activates does not
\* delay the first activate of a bank (CalcActConst returns before, detailed_mem.cpp:258-260).
CommandsSpaced ==
    \A c \in Channels : \A r \in Ranks :
        /\ \A x, y \in cmds[c][r] : x # y /\ x.at <= y.at =>
            /\ x.cmd = "act" /\ y.cmd = "act" => y.at - x.at >= P.tRRD
            /\ x.bank = y.bank /\ x.cmd = "act" /\ y.cmd = "act" => y.at - x.at >= P.tRC
            /\ x.bank = y.bank /\ x.cmd = "act" /\ y.cmd = "pre" => y.at - x.at >= P.tRAS
            /\ x.bank = y.bank /\ x.cmd = "act" /\ y.cmd \in {READ, WRITE} => y.at - x.at >= P.tRCD
            /\ x.bank = y.bank /\ x.cmd = "pre" /\ y.cmd = "act" => y.at - x.at >= P.tRP
            /\ x.bank = y.bank /\ x.cmd \in {READ, WRITE} /\ y.cmd = "pre" => y.at - x.at >= GetPreDelay(x.cmd)
            /\ x.cmd \in {READ, WRITE} /\ y.cmd \in {READ, WRITE} => y.at - x.at >= GetRdWrDelay(y.cmd, x.cmd)
        /\ LET activates == {x \in cmds[c][r] : x.cmd = "act"}
               Again(y) == \E x \in activates : x.bank = y.bank /\ x.at < y.at
           IN  \A y \in activates : Again(y) =>
                   Cardinality({x \in activates : x.at \in y.at - P.tFAW + 1 .. y.at}) <= Window

\* No assertion of the channels fails.
ChannelAsserts == asserted
=============================================================================
