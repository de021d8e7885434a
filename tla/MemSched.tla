------------------------------ MODULE MemSched ------------------------------
(***************************************************************************)
(* The controller of the detailed memory (MemControllerBase) with the      *)
(* queues of MemSchedulerDefault: without queues an access goes to its     *)
(* channel when it starts; with queues a write is done at once and waits   *)
(* in wrQueue, a read is held in rdQueue unless it hits a write, and every *)
(* tick sends one request of each channel to the memory.  The frequencies  *)
(* of system and memory are the same; each channel has its own clock.      *)
(***************************************************************************)
EXTENDS MemChannel

CONSTANT MaxTime   \* bound on the ticks

VARIABLES
    now, memOps,
    prioritizedAccessType, rdQueue, wrQueue, wrDoneQueue,   \* of every channel
    overflowed, \* the channels that warned of "Write Buffer Overflow!!"
    unsent,     \* history: the lines of every channel whose last write was not sent to the memory
    stale       \* history: a held read found a write of its line that was accepted before it unsent

schedVars == <<prioritizedAccessType, rdQueue, wrQueue, wrDoneQueue, overflowed, unsent, stale>>
dramVars == <<P, chnls, cmds, onBus, asserted, now, memOps, schedVars>>

Init ==
    /\ ChannelInit
    /\ now = [c \in Channels |-> 0] /\ memOps = 0
    /\ prioritizedAccessType = [c \in Channels |-> READ]
    /\ rdQueue = [c \in Channels |-> <<>>]
    /\ wrQueue = [c \in Channels |-> <<>>]
    /\ wrDoneQueue = [c \in Channels |-> <<>>]
    /\ overflowed = {}
    /\ unsent = [c \in Channels |-> {}] /\ stale = FALSE

preDelay(type) == GetDataLatency(type) \div 2

\* enqueue() without a scheduler: the access starts preDelay before its event.
EnqueueDirect(addr, type, delta) ==
    LET c == ReturnChannel(addr)
    IN  /\ P.schedulerQueueCount = 0 /\ memOps < P.maxOps
        /\ memOps' = memOps + 1
        /\ now' = [now EXCEPT ![c] = @ + delta]
        /\ LatencySimulate(addr, now'[c] + GetDataLatency(READ) - preDelay(type), type)
        /\ UNCHANGED schedVars

Without(queue, addr) == SelectSeq(queue, LAMBDA a : a # addr)

\* CheckSetEvent() of a write: it replaces the write of its address, waiting or done; a new one
\* that fills the buffer drops the oldest done write.
CheckSetWrite(c, addr) ==
    LET full == Len(wrQueue[c]) + Len(wrDoneQueue[c]) + 1 = P.schedulerQueueCount
        hit == Contains(wrQueue[c], addr) \/ Contains(wrDoneQueue[c], addr)
    IN  /\ wrQueue' = [wrQueue EXCEPT ![c] = Append(Without(@, addr), addr)]
        /\ wrDoneQueue' = [wrDoneQueue EXCEPT ![c] =
                CASE Contains(wrQueue[c], addr) -> @
                  [] Contains(@, addr) /\ ~Contains(wrQueue[c], addr) -> Without(@, addr)
                  [] OTHER -> IF full /\ @ # <<>> THEN Tail(@) ELSE @]
        /\ overflowed' = IF ~hit /\ full /\ wrDoneQueue[c] = <<>> THEN overflowed \cup {c} ELSE overflowed

EnqueueWrite(addr) ==
    /\ P.schedulerQueueCount # 0 /\ memOps < P.maxOps
    /\ memOps' = memOps + 1
    /\ CheckSetWrite(ReturnChannel(addr), addr)
    /\ unsent' = [unsent EXCEPT ![ReturnChannel(addr)] = @ \cup {addr}]
    /\ UNCHANGED <<P, chnls, cmds, onBus, asserted, now, prioritizedAccessType, rdQueue, stale>>

\* A read of a line that waits to be written, or was, is done at once; any other is held.
EnqueueRead(addr) ==
    LET c == ReturnChannel(addr)
        hit == Contains(wrQueue[c], addr) \/ Contains(wrDoneQueue[c], addr)
    IN  /\ P.schedulerQueueCount # 0 /\ memOps < P.maxOps
        /\ memOps' = memOps + 1
        /\ rdQueue' = IF hit THEN rdQueue ELSE [rdQueue EXCEPT ![c] = Append(@, addr)]
        /\ wrDoneQueue' = IF ~hit \/ Contains(wrQueue[c], addr) THEN wrDoneQueue
                          ELSE [wrDoneQueue EXCEPT ![c] = Append(Without(@, addr), addr)]
        /\ stale' = (stale \/ (~hit /\ addr \in unsent[c]))
        /\ UNCHANGED <<P, chnls, cmds, onBus, asserted, now, prioritizedAccessType, wrQueue, overflowed, unsent>>

\* The first request whose row is open, else the oldest.
FindBestRequest(queue) ==
    LET Hits(i) == LET at == AddressMap(queue[i])
                   IN  IsRowBufferHit(chnls[at.chnl].rank[at.rank], at.bank, at.row)
        hits == {i \in DOMAIN queue : Hits(i)}
    IN  IF hits = {} THEN 1 ELSE Min(hits)

\* Writes from two thirds of the buffer on, reads up to one third, as before in between.
Priority(c) ==
    LET writes == Len(wrQueue[c])
        high == (P.schedulerQueueCount * 2) \div 3
    IN  CASE writes >= high -> WRITE
          [] writes < high /\ writes <= P.schedulerQueueCount \div 3 -> READ
          [] OTHER -> prioritizedAccessType[c]

\* GetEvent() of one channel and the access it starts; or `delta' ticks that find nothing.
Tick(c, delta) ==
    /\ P.schedulerQueueCount # 0
    /\ now[c] + delta <= MaxTime
    /\ now' = [now EXCEPT ![c] = @ + delta]
    /\ prioritizedAccessType' = [prioritizedAccessType EXCEPT ![c] = Priority(c)]
    /\ \/ /\ delta = 1 /\ Priority(c) = READ /\ rdQueue[c] # <<>>
          /\ LET i == FindBestRequest(rdQueue[c])
             IN  /\ rdQueue' = [rdQueue EXCEPT ![c] = RemoveAt(@, i)]
                 /\ LatencySimulate(rdQueue[c][i], now'[c], READ)
          /\ UNCHANGED <<wrQueue, wrDoneQueue, unsent>>
       \/ /\ delta = 1 /\ wrQueue[c] # <<>>
          /\ Priority(c) = WRITE \/ rdQueue[c] = <<>>
          /\ LET i == FindBestRequest(wrQueue[c])
             IN  /\ wrQueue' = [wrQueue EXCEPT ![c] = RemoveAt(@, i)]
                 /\ wrDoneQueue' = [wrDoneQueue EXCEPT ![c] = Append(@, wrQueue[c][i])]
                 /\ unsent' = [unsent EXCEPT ![c] = @ \ {wrQueue[c][i]}]
                 /\ LatencySimulate(wrQueue[c][i], now'[c], WRITE)
          /\ UNCHANGED rdQueue
       \/ /\ wrQueue[c] = <<>> /\ (rdQueue[c] = <<>> \/ Priority(c) = WRITE)
          /\ UNCHANGED <<P, chnls, cmds, onBus, asserted, rdQueue, wrQueue, wrDoneQueue, unsent>>
    /\ UNCHANGED <<memOps, overflowed, stale>>

Next ==
    \/ \E addr \in P.addrs, type \in {READ, WRITE}, delta \in P.deltas : EnqueueDirect(addr, type, delta)
    \/ \E addr \in P.addrs : EnqueueWrite(addr) \/ EnqueueRead(addr)
    \/ \E c \in Channels, delta \in P.deltas : Tick(c, delta)

Spec == Init /\ [][Next]_dramVars

-----------------------------------------------------------------------------
\* The write buffer holds an address once, and stays below its size until all its entries wait
\* when it is filled; from then on it is never below again ("FIXME", detailed_mem.cpp:894-895).
WritesUnique ==
    \A c \in Channels :
        /\ IsInjective(wrQueue[c] \o wrDoneQueue[c])
        /\ P.schedulerQueueCount # 0 =>
               (c \in overflowed <=> Len(wrQueue[c] \o wrDoneQueue[c]) >= P.schedulerQueueCount)

\* No write is lost, and no read goes to the memory past a write of its line that was accepted
\* before it: whatever the buffer drops when it is full was sent.
WritesKept == ~stale /\ \A c \in Channels : ToSet(wrQueue[c]) = unsent[c]

\* The watermarks let every tick serve somebody while somebody waits, unless the buffer has one
\* entry: two thirds of it are none, and reads wait for ever behind writes that are not there.
TicksServe ==
    \A c \in Channels :
        LET waiting == IF Priority(c) = READ THEN rdQueue[c] \o wrQueue[c] ELSE wrQueue[c]
        IN  waiting = <<>> /\ rdQueue[c] # <<>> => P.schedulerQueueCount = 1
=============================================================================
