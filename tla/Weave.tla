------------------------------- MODULE Weave -------------------------------
(***************************************************************************)
(* The weave phase: the cores record timing events while they are         *)
(* simulated (bound phase), simulation threads run the events of their    *)
(* domains up to the end of the phase (weave phase), and events of two    *)
(* domains meet in crossings, which look at the other domain's clock       *)
(* without a lock.                                                        *)
(*                                                                         *)
(* timing_event.{h,cpp}, contention_sim.{h,cpp}, event_recorder.h,         *)
(* core_recorder.cpp with timing_core.cpp, ooo_core_recorder.cpp with the *)
(* calls of ooo_core.cpp, weave_md1_mem.h.  A record that holds only a     *)
(* writeback is left out: every access of these memories that writes back  *)
(* also misses, and leaves a record of its own.                            *)
(***************************************************************************)
EXTENDS Integers, Sequences, FiniteSets, SequencesExt

CONSTANTS
    NumCores,       \* cores are 0 .. NumCores - 1
    NumDomains,
    Configs,        \* records [threads, core, cores, moves, records]: simulation threads,
                    \* "timing" or "ooo" cores, the cores that join, bound on joins, leaves and
                    \* accesses, what an access may leave (subset of {"GET", "WB+GET"})
    PhaseLength,
    MaxPhases,      \* bound: phases simulated
    Gaps,           \* cycles of work before an access
    AccLat,         \* cycles from the core to the memory
    Dispatch,       \* cycles from issue to dispatch in an out-of-order core
    Pre, Post,      \* the memory's zero-load latency is Pre + Post
    Contention      \* cycles the memory may add

ASSUME WeaveAssumption ==
    /\ NumCores \in Nat \ {0} /\ NumDomains \in Nat \ {0} /\ PhaseLength \in Nat \ {0}
    /\ \A k \in Configs : NumDomains % k.threads = 0

Cores == 0 .. NumCores - 1
Domains == 0 .. NumDomains - 1
None == <<>>
NoCycle == -1

VARIABLES
    cfg,       \* a member of Configs, fixed
    s,         \* events, domains and recorders: see Init
    pc, th,    \* simulation threads: where, and with which domain and event
    main,      \* "bound", or "weave" while the caller of simulatePhase waits
    wake,      \* simulation threads whose wakeLock is free
    waitFree,  \* waitLock is free
    threadsDone

vars == <<cfg, s, pc, th, main, wake, waitFree, threadsDone>>

Threads == 0 .. cfg.threads - 1
DomainsOf(i) ==
    {d \in Domains : d >= (i * NumDomains) \div cfg.threads /\ d < ((i + 1) * NumDomains) \div cfg.threads}
\* Every out-of-order core records in domain 0.
CoreDomain(c) == IF cfg.core = "ooo" THEN 0 ELSE (c * NumDomains) \div NumCores

Max2(a, b) == IF a > b THEN a ELSE b
SeqMax(S) == CHOOSE m \in S : \A n \in S : n <= m
SeqMin(S) == CHOOSE m \in S : \A n \in S : m <= n

Check(S, what, ok) == IF ok \/ S.failed # "" THEN S ELSE [S EXCEPT !.failed = what]

(***************************************************************************)
(* Events (timing_event.h).  An event that is done has no entry in S.ev.   *)
(* A child is an event, or SrcOf(x), the source-side half of crossing  *)
(* x.  minStart = NoCycle is the code's -1.  An event with q # NoCycle is  *)
(* in the queue of its domain at cycle q.                                  *)
(***************************************************************************)
Event(kind, dom, pre, post, min) ==
    [kind |-> kind, state |-> "NONE", cycle |-> 0, minStart |-> min, children |-> {},
     dom |-> dom, numParents |-> 0, pre |-> pre, post |-> post, q |-> NoCycle,
     orig |-> 0, lat |-> 0, x |-> None]

NewId(S, c) == <<c, S.born[c] + 1>>
New(S, c, e) == [S EXCEPT !.ev = [i \in DOMAIN @ \cup {NewId(S, c)} |->
                                      IF i = NewId(S, c) THEN e ELSE @[i]],
                          !.born[c] = @ + 1]
LastId(S, c) == <<c, S.born[c]>>
Live(S, e) == e \in DOMAIN S.ev
IsSrc(ch) == Len(ch) = 3
SrcOf(x) == Append(x, "src")

RECURSIVE Propagate(_, _, _)
Propagate(S, e, d) ==
    FoldSet(LAMBDA ch, T : IF IsSrc(ch) \/ T.ev[ch].dom # NoCycle THEN T ELSE Propagate(T, ch, d),
            [S EXCEPT !.ev[e].dom = d], S.ev[e].children)

AddChild(S, p, e) ==
    IF ~Live(S, p) \/ S.ev[p].state \notin {"NONE", "QUEUED"} \/ S.ev[e].state # "NONE"
    THEN Check(S, "addChild", FALSE)
    ELSE LET T == [S EXCEPT !.ev[p].children = @ \cup {e}, !.ev[e].numParents = @ + 1]
         IN IF T.ev[p].dom # NoCycle /\ T.ev[e].dom = NoCycle THEN Propagate(T, e, T.ev[p].dom) ELSE T

Put(S, e, cycle) ==
    Check([S EXCEPT !.ev[e].q = cycle],
          "enqueue", cycle >= S.lastLimit /\ S.ev[e].numParents = 0 /\ S.ev[e].dom \in Domains)
Enqueue(S, e, cycle) ==
    Put(Check(S, "goes back in time", S.inCSim /\ cycle >= S.dom[S.ev[e].dom].cur), e, cycle)
EnqueueSynced(S, e, cycle) == Put(Check(S, "synced in the weave phase", ~S.inCSim), e, cycle)

Queue(S, e, cycle) ==
    EnqueueSynced([Check(S, "queue", S.ev[e].state = "NONE" /\ S.ev[e].numParents = 0)
                   EXCEPT !.ev[e].state = "QUEUED"], e, cycle)
Requeue(S, e, cycle) ==
    Enqueue([Check(S, "requeue", S.ev[e].state = "RUNNING") EXCEPT !.ev[e].state = "QUEUED"], e, cycle)

MarkSrcEventDone(S, x, cycle) ==
    [Check(S, "markSrcEventDone", ~S.ev[x].x.called /\ cycle >= S.dom[S.ev[x].x.src].cur)
     EXCEPT !.ev[x].x.called = TRUE, !.ev[x].x.done = cycle]

RECURSIVE Done(_, _, _)
ParentDone(S, e, start) ==
    LET ev == S.ev[e]
        at == IF ev.kind = "xing" THEN Max2(start, ev.minStart) ELSE start
        T == [Check(S, "numParents", ev.numParents > 0)
              EXCEPT !.ev[e].cycle = Max2(@, at), !.ev[e].numParents = @ - 1,
                     !.ev[e].x = IF ev.kind = "xing" /\ ev.x.called THEN [@ EXCEPT !.done = Max2(@, at)] ELSE @]
        from == T.ev[e].cycle + ev.pre
    IN CASE T.ev[e].numParents # 0 -> T
         [] ev.kind = "delay" -> Done([T EXCEPT !.ev[e].state = "RUNNING"], e, from)
         [] OTHER -> Enqueue([Check(T, "parentDone", ev.state = "NONE") EXCEPT !.ev[e].state = "QUEUED"], e, from)

Done(S, e, cycle) ==
    LET T == FoldSet(LAMBDA ch, U : IF IsSrc(ch) THEN MarkSrcEventDone(U, Front(ch), cycle + S.ev[e].post)
                                    ELSE ParentDone(U, ch, cycle + S.ev[e].post),
                     Check(S, "done", S.ev[e].state = "RUNNING"), S.ev[e].children)
    IN [T EXCEPT !.ev = [i \in DOMAIN @ \ {e} |-> @[i]]]

(***************************************************************************)
(* Crossings.                                                              *)
(***************************************************************************)
EnqueueCrossing(S, c, x, cycle) ==
    LET src == S.ev[x].x.src
        dst == S.ev[x].dom
        stack == S.core[c].stack
        isResp == /\ stack # <<>>
                  /\ S.ev[Last(stack)].x.src = dst
                  /\ S.ev[Last(stack)].dom = src
        last == S.last[c][src][dst]
        T == [S EXCEPT !.last[c][src][dst] = [cycle |-> cycle, ev |-> x],
                       !.core[c].stack = Append(@, x)]
    IN IF isResp
       THEN AddChild([S EXCEPT !.core[c].stack = Front(@)], S.ev[Last(stack)].x.parent, x)
       ELSE IF last.cycle > S.dom[src].cur /\ last.cycle <= cycle
            THEN AddChild(T, last.ev, x)
            ELSE EnqueueSynced(Check(T, "crossing", cycle >= S.dom[src].cur), x, cycle)

\* Mutant: the child keeps the parent that the crossing replaces.
HandleCrossingLinked(S, c, p, e) ==
    LET x == NewId(S, c)
        pre == Max2(S.ev[p].post, 1)
        min == S.ev[p].minStart + pre
        U == New([S EXCEPT !.ev[p].children = (@ \ {e}) \cup {SrcOf(x)}],
                 c, [Event("xing", S.ev[e].dom, 0, 0, min) EXCEPT
                     !.x = [src |-> S.ev[p].dom, called |-> FALSE, done |-> 0, parent |-> p,
                            core |-> c, slack |-> pre + S.ev[e].pre, postSlack |-> S.ev[e].pre,
                            orig |-> min - S.core[c].gap]])
    IN EnqueueCrossing(AddChild(U, x, e), c, x, Max2(S.lastLimit, min))

\* handleCrossing and the constructor of CrossingEvent: the crossing x replaces child e of p.
HandleCrossing(S, c, p, e) ==
    LET x == NewId(S, c)
        pre == Max2(S.ev[p].post, 1)
        min == S.ev[p].minStart + pre
        T == Check(S, "minStartCycle", S.ev[p].minStart # NoCycle /\ S.ev[e].numParents > 0)
        U == New([T EXCEPT !.ev[e].numParents = @ - 1,
                           !.ev[p].children = (@ \ {e}) \cup {SrcOf(x)}],
                 c, [Event("xing", S.ev[e].dom, 0, 0, min) EXCEPT
                     !.x = [src |-> S.ev[p].dom, called |-> FALSE, done |-> 0, parent |-> p,
                            core |-> c, slack |-> pre + S.ev[e].pre, postSlack |-> S.ev[e].pre,
                            orig |-> min - S.core[c].gap]])
    IN EnqueueCrossing(AddChild(U, x, e), c, x, Max2(S.lastLimit, min))

RECURSIVE ProduceCrossings(_, _, _)
ProduceCrossings(S, c, e) ==
    FoldSet(LAMBDA ch, T : IF IsSrc(ch) THEN T
                           ELSE ProduceCrossings(IF T.ev[ch].dom # T.ev[e].dom
                                                 THEN HandleCrossing(T, c, e, ch) ELSE T, c, ch),
            S, S.ev[e].children)

Crossings(S, c, e) ==
    IF NumDomains = 1 \/ S.failed # "" THEN S
    ELSE [ProduceCrossings(S, c, e) EXCEPT !.core[c].stack = <<>>]

(***************************************************************************)
(* The recorders.  core[c].prev is prevRespEvent or lastEvProduced, and    *)
(* prevCycle is prevRespCycle or that event's zllStartCycle.               *)
(***************************************************************************)
Link(S, c, p, e) == AddChild(New(S, c, e), p, NewId(S, c))
Delay(d, min) == Event("delay", NoCycle, d, 0, min)
SetPrev(S, c, e, cycle) == [S EXCEPT !.core[c].prev = e, !.core[c].prevCycle = cycle]
Zll(S, c, cycle) == cycle - S.core[c].gap

\* A TimingCoreEvent of the given delay after prevRespEvent; it becomes the last event.
AddCoreEvent(S, c, delay, respCycle) ==
    LET k == S.core[c]
        e == [Event("core", NoCycle, 0, delay, k.prevCycle) EXCEPT
              !.orig = k.prevCycle - k.gap, !.x = [core |-> c]]
    IN SetPrev(Link(S, c, k.prev, e), c, NewId(S, c), respCycle)

AddIssueEvent(S, c, cycle) ==
    LET k == S.core[c]
        zll == Zll(S, c, cycle)
        early == {f \in k.futures : f.zll < zll}
        resps == {f \in early : f.ev # None}
        latest == SeqMax({0} \cup {f.zll : f \in resps})
        pre == IF latest > 0 /\ latest < zll THEN zll - latest ELSE 0
        e == NewId(S, c)
        T == New(S, c, [Event("issue", CoreDomain(c), pre, 0, cycle) EXCEPT !.orig = zll, !.x = [core |-> c]])
        U == FoldSet(LAMBDA f, V : AddChild(V, f.ev, e), T, resps)
        V == Check(U, "addIssueEvent", zll - k.prevCycle >= pre /\ \A f \in resps : f.zll >= k.prevCycle)
    IN IF k.prev = None \/ ~Live(S, k.prev) \/ zll < k.prevCycle THEN Check(S, "lastEvProduced", FALSE)
       ELSE SetPrev(AddChild(Link([V EXCEPT !.core[c].futures = @ \ early], c, k.prev,
                                  Delay(zll - k.prevCycle - pre, S.ev[k.prev].minStart)),
                             NewId(V, c), e), c, e, zll)

NotifyJoin(S, c) ==
    LET k == S.core[c]
        T == Check(S, "notifyJoin", k.prev = None /\ k.lastUnhalted <= S.lastLimit)
        U == New(T, c, [Event(IF cfg.core = "ooo" THEN "issue" ELSE "core", CoreDomain(c), 0, 0, S.lastLimit)
                        EXCEPT !.orig = S.lastLimit, !.x = [core |-> c]])
        V == SetPrev(Queue(U, LastId(U, c), S.lastLimit), c, LastId(U, c), S.lastLimit)
    IN CASE k.state = "HALTED" ->
                [V EXCEPT !.core[c].state = "RUNNING", !.core[c].gap = 0, !.core[c].slack = 0,
                          !.core[c].cur = IF cfg.core = "ooo" THEN Max2(@, S.lastLimit) ELSE S.lastLimit]
         [] k.state = "DRAINING" ->
                LET W == Check(S, "out of sync", k.cur >= S.lastLimit)
                IN [(IF cfg.core = "ooo" THEN AddIssueEvent(W, c, k.cur) ELSE W)
                    EXCEPT !.core[c].state = "RUNNING"]
         [] OTHER -> Check(S, "state on join", FALSE)

NotifyLeave(S, c) ==
    LET T == [Check(S, "state on leave", S.core[c].state = "RUNNING" /\ S.core[c].prev # None)
              EXCEPT !.core[c].state = "DRAINING"]
        cur == S.core[c].cur
    IN IF cfg.core = "ooo" THEN AddIssueEvent(T, c, cur)
       ELSE AddCoreEvent(AddCoreEvent(T, c, cur - S.core[c].prevCycle, cur), c, 0, cur)

(***************************************************************************)
(* What the memory hierarchy leaves in the recorder: the event that starts *)
(* and the one that ends the access, and their cycles (WeaveSimpleMemory;  *)
(* Cache::access joins a writeback with the access that caused it).        *)
(***************************************************************************)
MemEvent(d, lat, cycle) == [Event("mem", d, Pre, Post, cycle) EXCEPT !.lat = lat]

Record(S, c, kind, d, lat, cycle) ==
    LET req == cycle + AccLat
        T == New(S, c, MemEvent(d, lat, req))
        m == LastId(T, c)
        U == New(T, c, Delay(0, cycle))
        V == Link(U, c, LastId(U, c), Delay(AccLat, cycle))
        W == Link(V, c, LastId(V, c), MemEvent(d, lat, req))
        X == Link(W, c, LastId(U, c), Delay(AccLat, cycle))
    IN CASE kind = "GET" -> [s |-> T, start |-> m, end |-> m, req |-> req, resp |-> req + Pre + Post]
         [] OTHER -> [s |-> AddChild(X, LastId(X, c), m), start |-> LastId(U, c), end |-> m,
                      req |-> cycle, resp |-> req + Pre + Post]

\* CoreRecorder::recordAccess
RecordTiming(tr, c, start) ==
    LET S == tr.s
        k == S.core[c]
        T == Check(S, "recordAccess", start >= k.prevCycle /\ tr.req >= start)
        U == AddCoreEvent(T, c, tr.req - k.prevCycle, tr.resp)
    IN Crossings(SetPrev(AddChild(U, LastId(U, c), tr.start), c, tr.end, tr.resp), c, k.prev)

\* A new event e after p, followed by child.
Via(S, c, p, e, child) == AddChild(Link(S, c, p, e), NewId(S, c), child)

\* The response, the last event made, is what later issues and dispatches wait for.
AddFuture(S, c, respCycle) ==
    [S EXCEPT !.core[c].futures = @ \cup {[zll |-> Zll(S, c, respCycle), ev |-> LastId(S, c)]}]

\* OOOCoreRecorder::recordAccess once the issue event exists: the dispatch waits for it and for the
\* earlier responses, the access for the dispatch, and the response for the access.
RecordDispatch(S, tr, c, cur, disp) ==
    LET issueEv == S.core[c].prev
        dispEv == NewId(S, c)
        zllDisp == Zll(S, c, disp)
        T == FoldSet(LAMBDA f, V : Via(V, c, f.ev, Delay(zllDisp - f.zll, NoCycle), dispEv),
                     New(S, c, Event("disp", NoCycle, 0, 0, disp)),
                     {f \in S.core[c].futures : f.zll < zllDisp /\ f.ev # None})
        U == Via(Via(T, c, issueEv, Delay(disp - cur, cur), dispEv),
                 c, dispEv, Delay(tr.req - disp, disp), tr.start)
    IN AddFuture(Link(U, c, tr.end, Event("resp", CoreDomain(c), 0, 0, tr.resp)), c, tr.resp)

\* OOOCoreRecorder::recordAccess
RecordOOO(tr, c, cur, disp) ==
    LET T == AddIssueEvent(tr.s, c, cur)
    IN IF T.failed # "" THEN T
       ELSE Crossings(RecordDispatch(T, tr, c, cur, disp), c, T.core[c].prev)

\* Mutant: a running core is not given an event of the next phase.
CSimStartUntapered(S, c) ==
    LET k == S.core[c]
    IN IF k.state = "DRAINING" THEN [S EXCEPT !.core[c].cur = Max2(@, S.lastLimit + PhaseLength), !.core[c].futures = {}] ELSE S

CSimStart(S, c) ==
    LET k == S.core[c]
        next == S.lastLimit + PhaseLength
        T == IF k.prevCycle < k.cur THEN AddCoreEvent(S, c, k.cur - k.prevCycle, k.cur) ELSE S
    IN CASE k.state = "HALTED" -> S
         [] k.state = "DRAINING" ->
                [S EXCEPT !.core[c].cur = Max2(@, next), !.core[c].futures = {}]
         [] cfg.core = "timing" -> AddCoreEvent(Check(T, "cSimStart", k.cur >= next), c, 0, k.cur)
         [] OTHER -> LET U == Check(S, "cSimStart", k.cur > next /\ k.prevCycle <= Zll(S, c, k.cur))
                     IN IF k.prevCycle < Zll(S, c, next) THEN AddIssueEvent(U, c, next) ELSE U

CSimEnd(S, c) ==
    LET k == S.core[c]
        before == k.simOrig + k.gap
        skew == k.simStart - before
        T == Check(Check(Check(S, "lastEvCycle", before <= k.cur /\ k.simStart <= k.cur),
                         "negative skew", skew >= 0),
                   "no event left while RUNNING", k.prev # None \/ k.state = "DRAINING")
        U == [T EXCEPT !.core[c].cur = @ + skew, !.core[c].gap = @ + skew,
                       !.core[c].prevCycle = IF cfg.core = "timing" THEN @ + skew ELSE @,
                       !.core[c].futures = {IF f.ev # None /\ ~Live(S, f.ev) THEN [f EXCEPT !.ev = None] ELSE f
                                                : f \in @}]
    IN CASE k.state = "HALTED" -> S
         [] k.prev # None -> U
         [] OTHER -> [Check(U, "futureResponses", k.futures = {})
                      EXCEPT !.core[c].state = "HALTED", !.core[c].lastUnhalted = k.simStart]

\* reportEventSimulated, reportIssueEventSimulated
Report(S, e, cycle) ==
    LET c == S.ev[e].x.core
        last == S.core[c].prev = e
    IN [Check(S, "last event while RUNNING", ~last \/ cfg.core = "ooo" \/ S.core[c].state = "DRAINING")
        EXCEPT !.core[c].simStart = cycle, !.core[c].simOrig = S.ev[e].orig,
               !.core[c].slack = cycle - S.ev[e].orig,
               !.core[c].prev = IF last THEN None ELSE @]

(***************************************************************************)
(* Bound phase.  A core that is ahead of the phase (ahead) only takes the *)
(* barrier again.                                                          *)
(***************************************************************************)
Idle == [dom |-> 0, ev |-> None, cycle |-> 0, next |-> 0,
         pq |-> {}, st |-> <<>>, nst |-> <<>>, stalled |-> FALSE, fin |-> {}]

Init ==
    /\ cfg \in Configs
    /\ s = [ev |-> [i \in {} |-> None], born |-> [c \in Cores |-> 0],
            dom |-> [d \in Domains |-> [cur |-> 0, prio |-> 0, qprio |-> 0]],
            core |-> [c \in Cores |->
                       [state |-> "HALTED", gap |-> 0, cur |-> 0, phaseEnd |-> PhaseLength, prev |-> None,
                        prevCycle |-> 0, futures |-> {}, simStart |-> 0, simOrig |-> 0, slack |-> 0,
                        lastUnhalted |-> 0, stack |-> <<>>, ahead |-> FALSE, synced |-> FALSE]],
            last |-> [c \in Cores |-> [a \in Domains |-> [b \in Domains |-> [cycle |-> 0, ev |-> None]]]],
            lastLimit |-> 0, inCSim |-> FALSE, moves |-> 0, failed |-> ""]
    /\ pc = [i \in Threads |-> "asleep"] /\ th = [i \in Threads |-> Idle]
    /\ main = "bound" /\ wake = {} /\ waitFree = FALSE /\ threadsDone = 0

\* Every action ends with the program if an assertion of it fails.
Running == s.failed = ""
Limit == s.lastLimit + PhaseLength
Bound(c) == Running /\ main = "bound" /\ ~s.core[c].synced
Moved(S) == [S EXCEPT !.moves = @ + 1]
BoundUnchanged == UNCHANGED <<cfg, pc, th, main, wake, waitFree, threadsDone>>

\* TimingCore::join, OOOCore::join
Join(c) ==
    /\ Bound(c) /\ c < cfg.cores /\ s.core[c].state # "RUNNING" /\ s.moves < cfg.moves
    /\ s' = Moved([NotifyJoin(s, c) EXCEPT !.core[c].phaseEnd = Limit, !.core[c].ahead = FALSE])
    /\ BoundUnchanged

\* TimingCore::leave, OOOCore::leave
Leave(c) ==
    /\ Bound(c) /\ s.core[c].state = "RUNNING" /\ s.moves < cfg.moves
    /\ s' = Moved(NotifyLeave(s, c))
    /\ BoundUnchanged

\* A load, store or fetch that misses down to the memory of domain d.
Access(c) ==
    /\ Bound(c) /\ s.core[c].state = "RUNNING" /\ s.moves < cfg.moves
    /\ ~s.core[c].ahead
    /\ \E kind \in cfg.records, d \in Domains, lat \in Contention, g \in Gaps, k \in Dispatch :
          LET cur == s.core[c].cur + g
              ooo == cfg.core = "ooo"
              tr == Record(s, c, kind, d, lat, IF ooo THEN cur + k ELSE cur)
              S == IF ooo THEN RecordOOO(tr, c, cur, cur + k) ELSE RecordTiming(tr, c, cur)
          IN s' = Moved([S EXCEPT !.core[c].cur = IF ooo THEN cur ELSE tr.resp])
    /\ BoundUnchanged

\* The loops of BblAndRecordFunc and OOOCore::BblFunc: one round per phase the core is ahead.
Sync(c) ==
    /\ Bound(c) /\ s.core[c].state = "RUNNING"
    /\ s' = [s EXCEPT !.core[c].cur = Max2(@, s.core[c].phaseEnd + 1),
                      !.core[c].phaseEnd = @ + PhaseLength, !.core[c].synced = TRUE]
    /\ BoundUnchanged

\* simulatePhase up to futex_lock_nospin(&waitLock)
StartPhase ==
    /\ Running /\ main = "bound" /\ s.lastLimit < MaxPhases * PhaseLength
    /\ \A c \in Cores : s.core[c].state = "RUNNING" => s.core[c].synced
    /\ s' = [FoldSet(LAMBDA c, S : CSimStart(S, c), s, Cores) EXCEPT !.inCSim = TRUE]
    /\ wake' = Threads /\ main' = "weave"
    /\ UNCHANGED <<cfg, pc, th, waitFree, threadsDone>>

\* simulatePhase from the return of that lock
EndPhase ==
    /\ Running /\ main = "weave" /\ waitFree
    /\ LET S == FoldSet(LAMBDA c, T : CSimEnd(T, c), [s EXCEPT !.inCSim = FALSE], Cores)
       IN s' = [S EXCEPT !.lastLimit = Limit,
                         !.core = [c \in Cores |-> [S.core[c] EXCEPT !.ahead = S.core[c].cur > S.core[c].phaseEnd,
                                                            !.synced = FALSE]]]
    /\ main' = "bound" /\ waitFree' = FALSE
    /\ UNCHANGED <<cfg, pc, th, wake, threadsDone>>

(***************************************************************************)
(* Simulation threads.  A thread with one domain runs its events in order; *)
(* one with several picks the domain with the earliest event (domPq), and  *)
(* sets aside those that poll a crossing (stalledQueue).                   *)
(***************************************************************************)
Queued(S, d) == {e \in DOMAIN S.ev : S.ev[e].dom = d /\ S.ev[e].q # NoCycle}
FirstCycle(S, d) == SeqMin({S.ev[e].q : e \in Queued(S, d)})
Single(i) == Cardinality(DomainsOf(i)) = 1
\* Is there an event of d to run in this phase?
HasWork(d, single) ==
    Queued(s, d) # {} /\ (FirstCycle(s, d) < Limit \/ (~single /\ FirstCycle(s, d) = Limit))

At(i, l) == Running /\ pc[i] = l
GoTo(i, l) == pc' = [pc EXCEPT ![i] = l]
WeaveUnchanged == UNCHANGED <<cfg, main, wake, waitFree, threadsDone>>

Wake(i) ==
    /\ At(i, "asleep") /\ i \in wake
    /\ wake' = wake \ {i}
    /\ GoTo(i, "top") /\ th' = [th EXCEPT ![i] = [Idle EXCEPT !.pq = DomainsOf(i)]]
    /\ UNCHANGED <<cfg, s, main, waitFree, threadsDone>>

\* The domain to look at: the earliest of domPq, and when none is there the last stalled one.
Pick(i, d) ==
    \/ d \in th[i].pq /\ \A b \in th[i].pq : s.dom[d].qprio <= s.dom[b].qprio
    \/ th[i].pq = {} /\ th[i].st # <<>> /\ d = Last(th[i].st)

\* The thread takes d out of its queues; the two stalled queues swap when the first is empty.
Out(t, d) ==
    IF d \in t.pq THEN [t EXCEPT !.pq = @ \ {d}, !.stalled = FALSE, !.dom = d]
    ELSE [t EXCEPT !.st = Front(@), !.stalled = TRUE, !.dom = d]
Swap(t) == IF t.st = <<>> /\ t.stalled THEN [t EXCEPT !.st = t.nst, !.nst = <<>>] ELSE t

FinishDomain(i) ==
    \E d \in DomainsOf(i) :
        /\ At(i, "top") /\ Pick(i, d) /\ ~HasWork(d, Single(i))
        /\ s' = [s EXCEPT !.dom[d].cur = Limit]
        /\ th' = [th EXCEPT ![i] = [Swap(Out(@, d)) EXCEPT !.fin = @ \cup {d}]]
        /\ UNCHANGED pc /\ WeaveUnchanged

\* Dequeue the first event; elements of one cycle come in no order a caller may rely on.
Dequeue(i) ==
    \E d \in DomainsOf(i) : \E e \in Queued(s, d) :
        /\ At(i, "top") /\ Pick(i, d) /\ HasWork(d, Single(i)) /\ s.ev[e].q = FirstCycle(s, d)
        /\ s' = [Check(s, "clock runs back", ~Single(i) \/ s.ev[e].q >= s.dom[d].cur)
                 EXCEPT !.dom[d].cur = s.ev[e].q, !.ev[e].q = NoCycle]
        /\ GoTo(i, "run") /\ th' = [th EXCEPT ![i] = [Out(@, d) EXCEPT !.ev = e, !.cycle = s.ev[e].q]]
        /\ WeaveUnchanged

\* run(), or simulate() without its checks when the domain is stalled; crossings look first.
Run(i) ==
    LET e == th[i].ev
        cycle == th[i].cycle
        S == [Check(s, "run", th[i].stalled \/ (s.ev[e].state \in {"NONE", "QUEUED"} /\ cycle >= s.ev[e].minStart))
              EXCEPT !.ev[e].state = "RUNNING"]
        kind == s.ev[e].kind
        called == kind = "xing" /\ s.ev[e].x.called
    IN /\ At(i, "run")
       /\ s' = CASE kind = "xing" /\ ~called -> S
                  [] kind = "mem" -> Done(S, e, cycle + s.ev[e].lat)
                  [] kind = "xing" -> Done([S EXCEPT !.dom[s.ev[e].dom].prio = 0], e, Max2(cycle, s.ev[e].x.done))
                  [] kind \in {"core", "issue"} -> Done(Report(S, e, cycle), e, cycle)
                  [] OTHER -> Done(S, e, cycle)
       /\ GoTo(i, IF kind = "xing" /\ ~called THEN "readClock" ELSE "after")
       /\ UNCHANGED th /\ WeaveUnchanged

\* CrossingEvent::simulate, a step per shared variable it reads
\* Mutant: the poll does not look at the other domain's clock.
ReadClockOwn(i) ==
    /\ At(i, "readClock")
    /\ th' = [th EXCEPT ![i].next = th[i].cycle]
    /\ GoTo(i, "readSlack") /\ UNCHANGED s /\ WeaveUnchanged

ReadClock(i) ==
    LET x == s.ev[th[i].ev].x
    IN /\ At(i, "readClock")
       /\ th' = [th EXCEPT ![i].next = Max2(s.dom[x.src].cur + x.slack, th[i].cycle)]
       /\ GoTo(i, "readSlack") /\ UNCHANGED s /\ WeaveUnchanged

ReadSlack(i) ==
    LET x == s.ev[th[i].ev].x
    IN /\ At(i, "readSlack")
       /\ th' = [th EXCEPT ![i].next = Max2(@, x.orig + s.core[x.core].slack + x.postSlack)]
       /\ GoTo(i, "testAgain") /\ UNCHANGED s /\ WeaveUnchanged

\* Mutant: `called' is not read again after the clocks.
TestOnce(i) ==
    LET e == th[i].ev
    IN /\ At(i, "testAgain")
       /\ s' = Requeue([s EXCEPT !.dom[s.ev[e].dom].prio = IF th[i].next = th[i].cycle THEN 1 ELSE 2,
                                 !.ev[e].numParents = 0], e, th[i].next)
       /\ GoTo(i, "after") /\ th' = [th EXCEPT ![i].next = 0]
       /\ WeaveUnchanged

TestAgain(i) ==
    LET e == th[i].ev
        d == s.ev[e].dom
        x == s.ev[e].x
        cycle == th[i].cycle
    IN /\ At(i, "testAgain")
       /\ s' = IF x.called
               THEN Done([s EXCEPT !.dom[d].prio = 0], e, Max2(cycle, x.done))
               ELSE Requeue([s EXCEPT !.dom[d].prio = IF th[i].next = cycle THEN 1 ELSE 2,
                                      !.ev[e].numParents = 0], e, th[i].next)
       /\ GoTo(i, "after") /\ th' = [th EXCEPT ![i].next = 0]
       /\ WeaveUnchanged

\* The rest of the loop's body: the clock of the domain moves to its next event.
After(i) ==
    LET d == th[i].dom
        next == IF Queued(s, d) # {} THEN FirstCycle(s, d) ELSE Limit
        t == [th[i] EXCEPT !.ev = None, !.cycle = 0]
    IN /\ At(i, "after")
       /\ s' = [Check(s, "next clock runs back", ~Single(i) \/ next >= s.dom[d].cur)
                EXCEPT !.dom[d].cur = next, !.dom[d].qprio = IF Single(i) THEN @ ELSE next]
       /\ GoTo(i, "top")
       /\ th' = [th EXCEPT ![i] = Swap(
                     CASE Single(i) \/ s.dom[d].prio = 0 -> [t EXCEPT !.pq = @ \cup {d}]
                       [] t.stalled -> [t EXCEPT !.nst = Append(@, d)]
                       [] OTHER -> [t EXCEPT !.st = Append(@, d)])]
       /\ WeaveUnchanged

\* __sync_add_and_fetch(&threadsDone, 1) and, for the last thread, the hand-off to the caller
Finish(i) ==
    /\ At(i, "top") /\ th[i].fin = DomainsOf(i)
    /\ threadsDone' = threadsDone + 1
    /\ GoTo(i, IF threadsDone + 1 = cfg.threads THEN "last" ELSE "asleep")
    /\ th' = [th EXCEPT ![i] = Idle]
    /\ UNCHANGED <<cfg, s, main, wake, waitFree>>

\* Mutant: the counter is not reset for the next phase.
ResetForgets(i) ==
    /\ At(i, "last") /\ GoTo(i, "unlock")
    /\ UNCHANGED <<cfg, s, th, main, wake, waitFree, threadsDone>>

Reset(i) ==
    /\ At(i, "last")
    /\ threadsDone' = 0
    /\ GoTo(i, "unlock")
    /\ UNCHANGED <<cfg, s, th, main, wake, waitFree>>

Unlock(i) ==
    /\ At(i, "unlock")
    /\ waitFree' = TRUE
    /\ GoTo(i, "asleep")
    /\ UNCHANGED <<cfg, s, th, main, wake, threadsDone>>

\* The bound on the phases is reached.
Bounded == Running /\ main = "bound" /\ s.lastLimit = MaxPhases * PhaseLength /\ UNCHANGED vars

BoundStep(c) == Join(c) \/ Leave(c) \/ Access(c) \/ Sync(c)
ThreadStep(i) ==
    \/ Wake(i) \/ FinishDomain(i) \/ Dequeue(i) \/ Run(i) \/ ReadClock(i) \/ ReadSlack(i)
    \/ TestAgain(i) \/ After(i) \/ Finish(i) \/ Reset(i) \/ Unlock(i)

Next ==
    \/ \E c \in Cores : BoundStep(c)
    \/ StartPhase \/ EndPhase \/ Bounded
    \/ \E i \in Threads : ThreadStep(i)

Spec == Init /\ [][Next]_vars

Labels == {"asleep", "top", "run", "readClock", "readSlack", "testAgain", "after", "last", "unlock"}
Moves(i) == Running /\ (pc[i] # "asleep" \/ i \in wake) /\ \E l \in Labels : GoTo(i, l)

\* Simulation threads and the caller are threads of the host, which runs each of them.
Fairness ==
    /\ \A i \in 0 .. NumDomains - 1 : WF_pc(i \in Threads /\ Moves(i))
    /\ WF_main(Running /\ main = "weave" /\ waitFree /\ main' = "bound")

LiveSpec == Spec /\ Fairness

-----------------------------------------------------------------------------
\* No assertion or panic of the code modelled here fails: no core's clock is skewed
\* backwards, no event runs before its minimum cycle or is queued in its domain's past,
\* no event is given a parent that is done.
AssertsHold == s.failed = ""

Crossing(e) == s.ev[e].kind = "xing"
InHand == {th[i].ev : i \in Threads} \ {None}
Roots == {e \in DOMAIN s.ev : s.ev[e].q # NoCycle} \cup (InHand \cap DOMAIN s.ev)
RECURSIVE ReachedFrom(_)
ReachedFrom(E) ==
    LET more == E \cup ((UNION {s.ev[e].children : e \in E}) \cap DOMAIN s.ev)
    IN IF more = E THEN E ELSE ReachedFrom(more)

\* No event is stranded: each is queued, or waits for exactly its live parents and descends
\* from a queued one; a crossing that waits for its source has a live source-side event; and
\* between phases every thread sleeps, every domain's clock stands at the limit and no event
\* of the phase that ended is left: the bound phase may touch the queues.
NoEventStranded ==
    /\ DOMAIN s.ev = ReachedFrom(Roots)
    /\ \A e \in DOMAIN s.ev :
          /\ s.ev[e].numParents = Cardinality({p \in DOMAIN s.ev : e \in s.ev[p].children})
          /\ Crossing(e) => (s.ev[e].x.called <=> \A p \in DOMAIN s.ev : SrcOf(e) \notin s.ev[p].children)
    /\ main = "bound" =>
        /\ \A i \in Threads : pc[i] = "asleep"
        /\ \A d \in Domains : s.dom[d].cur = s.lastLimit
        /\ \A e \in DOMAIN s.ev : s.ev[e].q # NoCycle => s.ev[e].q >= s.lastLimit

\* A crossing whose source is done is not held longer than polling a clock that had not
\* passed the source can explain.
CrossingOnTime ==
    \A e \in DOMAIN s.ev : Crossing(e) /\ s.ev[e].x.called /\ s.ev[e].q # NoCycle =>
        s.ev[e].q <= Max2(Max2(s.lastLimit, Max2(s.ev[e].minStart, s.ev[e].cycle)), s.ev[e].x.done + s.ev[e].x.postSlack)

HandOffPc == [i \in Threads |-> IF pc[i] \in {"asleep", "last", "unlock"} THEN pc[i] ELSE "busy"]
H(n) == INSTANCE HandOff WITH Workers <- 0 .. n - 1, pc <- HandOffPc

\* With their events abstracted to work, the caller and the simulation threads only take
\* steps of HandOff, whose theorems therefore hold of them.
ImplementsHandOff ==
    /\ \E n \in 1 .. NumDomains : n = cfg.threads /\ H(n)!Init
    /\ [][\E n \in 1 .. NumDomains : n = cfg.threads /\ H(n)!Next]_<<main, wake, HandOffPc, threadsDone, waitFree>>

\* A phase ends: domains that poll each other's crossings let each other advance, and the
\* last thread of every phase hands it back to the caller.
PhaseEnds == main = "weave" ~> main = "bound"
=============================================================================
