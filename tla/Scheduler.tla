----------------------------- MODULE Scheduler -----------------------------
(***************************************************************************)
(* The thread scheduler of src/zsim/src/scheduler.h and scheduler.cpp,     *)
(* with its watchdog and the calls that src/zsim/src/zsim.cpp and virt/    *)
(* make of it, for the threads of one process.  Everything schedLock       *)
(* protects is the record s; an action is one critical section of          *)
(* schedLock, or one step that a thread takes outside of it.               *)
(*                                                                         *)
(* The barrier is what modules Barrier and PhaseBarrier establish, for at  *)
(* least as many slots as contexts: a context that joins runs at once, and *)
(* a phase ends when no context runs and one has synced.                   *)
(***************************************************************************)
EXTENDS Integers, Sequences, FiniteSets, SequencesExt

CONSTANTS Threads,    \* gids
          Contexts,   \* cids, 0 .. numCores - 1
          Nobody,     \* nullptr
          Mask,       \* the contexts that each thread may use
          Quantum,    \* schedQuantum
          MaxSleep,   \* bound: the longest sleep, in phases
          FakeBound   \* the watchdog goes on while more leaves than this are fake (8)

ASSUME ContextsAssumption == /\ Cardinality(Contexts) \in Nat \ {0}
                             /\ Contexts = 0 .. Cardinality(Contexts) - 1
ASSUME NobodyAssumption == Nobody \notin Threads \cup Contexts
ASSUME MaskAssumption == Mask \in [Threads -> (SUBSET Contexts) \ {{}}]
ASSUME QuantumAssumption == Quantum \in Nat \ {0}
ASSUME SleepAssumption == MaxSleep \in Nat \ {0}
ASSUME FakeBoundAssumption == FakeBound \in Nat

VARIABLES s,          \* what schedLock protects
          pc,         \* where each thread is
          watchdog    \* where the watchdog is, and whose leave() it executes

vars == <<s, pc, watchdog>>

States == {"NONE", "STARTED", "RUNNING", "OUT", "BLOCKED", "SLEEPING", "QUEUED"}
Labels == {"new", "join", "run", "sync", "handoff", "wait", "marked", "leave",
           "syscall", "sleep", "notify", "finishleave", "finishend", "done"}
Watching == [at : {"idle", "next"}] \cup [at : {"leave"}, th : Threads, cid : Contexts]

Init == /\ s = [state |-> [t \in Threads |-> "NONE"],
                cid |-> [t \in Threads |-> 0],
                curThread |-> [c \in Contexts |-> Nobody],
                freeList |-> [i \in 1 .. Cardinality(Contexts) |-> i - 1],
                runQueue |-> <<>>, outQueue |-> <<>>, sleepQueue |-> <<>>,
                fakeLeaves |-> <<>>,
                futexWord |-> [t \in Threads |-> 0],
                handoffThread |-> [t \in Threads |-> Nobody],
                marked |-> {}, due |-> [t \in Threads |-> 0],
                bar |-> [c \in Contexts |-> "out"],
                phase |-> 0, failed |-> "none"]
        /\ pc = [t \in Threads |-> "new"]
        /\ watchdog = [at |-> "idle"]

----------------------------------------------------------------------------
(* Inside a critical section: each operator returns the state after it. *)

\* assert(cond); the first assertion that fails is remembered.
Check(x, cond, what) == IF cond \/ x.failed # "none" THEN x ELSE [x EXCEPT !.failed = what]

Used(x, c) == x.curThread[c] # Nobody
scheduledThreads(x) == Cardinality({c \in Contexts : Used(x, c)})

\* The first entry of a queue that is in S: its place, or 0, and itself, or Nobody.
Place(q, S) == SelectInSeq(q, LAMBDA e : e \in S)
First(q, S) == IF Place(q, S) = 0 THEN Nobody ELSE q[Place(q, S)]

schedule(x, t, c) ==
    Check([x EXCEPT !.state[t] = "RUNNING", !.cid[t] = c, !.curThread[c] = t],
          x.state[t] \in {"STARTED", "BLOCKED", "QUEUED"} /\ ~Used(x, c), "schedule")

deschedule(x, t, c, to) ==
    Check([x EXCEPT !.state[t] = to, !.curThread[c] = Nobody],
          x.state[t] \in {"RUNNING", "OUT"} /\ x.cid[t] = c /\ x.curThread[c] = t,
          "deschedule")

\* Both places a thread waits in on its futexWord: waitForContext and a sleep.
wakeup(x, t) == Check([x EXCEPT !.futexWord[t] = 0], x.futexWord[t] = 1, "wakeup")

\* Mutant: the threads that are OUT keep their contexts.
schedThreadFree(x, t) ==
    LET last == x.cid[t]
        free == First(x.freeList, Mask[t])
    IN  IF ~Used(x, last) /\ last \in Mask[t]
        THEN [ctx |-> last, x |-> [x EXCEPT !.freeList = RemoveFirst(@, last)]]
        ELSE [ctx |-> free, x |-> [x EXCEPT !.freeList = RemoveFirst(@, free)]]

\* A context for a thread: its last one, a free one, or that of a thread that is OUT.
schedThread(x, t) ==
    LET last == x.cid[t]
        free == First(x.freeList, Mask[t])
        out  == First(x.outQueue, {u \in Threads : x.cid[u] \in Mask[t]})
    IN  IF ~Used(x, last) /\ last \in Mask[t]
        THEN [ctx |-> last, x |-> [x EXCEPT !.freeList = RemoveFirst(@, last)]]
        ELSE IF free # Nobody
        THEN [ctx |-> free, x |-> [x EXCEPT !.freeList = RemoveFirst(@, free)]]
        ELSE IF out # Nobody
        THEN [ctx |-> x.cid[out],
              x |-> deschedule([x EXCEPT !.outQueue = RemoveFirst(@, out)],
                               out, x.cid[out], "BLOCKED")]
        ELSE [ctx |-> Nobody, x |-> x]

\* A thread for a context.
schedContext(x, c) == First(x.runQueue, {t \in Threads : c \in Mask[t]})

\* The context goes to t, which waits for one; the barrier does not notice.
Give(x, t, c) == wakeup(schedule([x EXCEPT !.runQueue = RemoveFirst(@, t)], t, c), t)

\* Mutant: the word keeps its value of the last wait.
WaitKeepsWord(x, t) == [x EXCEPT !.state[t] = "QUEUED", !.runQueue = Append(@, t)]

Wait(x, t) == [x EXCEPT !.state[t] = "QUEUED", !.runQueue = Append(@, t),
                        !.futexWord[t] = 1]

----------------------------------------------------------------------------
(* The end of a phase. *)

\* Contexts in the given order, each to at most one waiting thread: its user is
\* told to hand it over when it leaves the barrier.
Assign(acc, t) ==
    LET c == First(acc.avail, Mask[t])
        victim == acc.x.curThread[c]
    IN  IF c = Nobody THEN acc
        ELSE [x |-> Check([acc.x EXCEPT !.handoffThread[victim] = t,
                                        !.runQueue = RemoveFirst(@, t)],
                          victim # Nobody, "victim"),
              avail |-> RemoveFirst(acc.avail, c)]

schedTick(x, order) ==
    LET assigned[n \in 0 .. Len(x.runQueue)] ==
            IF n = 0 THEN [x |-> x, avail |-> order]
                     ELSE Assign(assigned[n - 1], x.runQueue[n])
    IN  assigned[Len(x.runQueue)].x

\* The threads T at the front of the sleep queue wake up.
WakeSleepers(x, T) ==
    LET y == Check([x EXCEPT !.state = [t \in Threads |-> IF t \in T THEN "BLOCKED" ELSE @[t]],
                             !.futexWord = [t \in Threads |-> IF t \in T THEN 0 ELSE @[t]]],
                   \A t \in T : x.due[t] = 0, "wakeupPhase")
    IN  Check(y, \A t \in T : x.futexWord[t] = 1, "wakeup")

NextPhase(x) == (x.phase + 1) % Quantum

callback(x, order) ==
    LET y == [x EXCEPT !.phase = NextPhase(x),
                       !.due = [t \in Threads |->
                                  IF x.state[t] = "SLEEPING" \/ t \in x.marked
                                  THEN x.due[t] - 1 ELSE x.due[t]]]
        late == Place(y.sleepQueue, {t \in Threads : y.due[t] > 0})
        n == IF late = 0 THEN Len(y.sleepQueue) ELSE late - 1
        z == [WakeSleepers(y, ToSet(SubSeq(y.sleepQueue, 1, n))) EXCEPT
                 !.sleepQueue = SubSeq(@, n + 1, Len(@))]
    IN  IF z.runQueue # <<>> /\ z.phase = 0 THEN schedTick(z, order) ELSE z

\* Every order the shuffle of schedTick may produce.
Orders == {f \in [1 .. Cardinality(Contexts) -> Contexts] : IsInjective(f)}

EndPhase(x, order) ==
    IF (\A c \in Contexts : x.bar[c] # "running") /\ (\E c \in Contexts : x.bar[c] = "done")
    THEN [callback(x, order) EXCEPT
             !.bar = [c \in Contexts |-> IF @[c] = "done" THEN "running" ELSE @[c]]]
    ELSE x

BarJoin(x, c) == Check([x EXCEPT !.bar[c] = "running"], x.bar[c] = "out", "bar.join")
BarSync(x, c, order) ==
    EndPhase(Check([x EXCEPT !.bar[c] = "done"], x.bar[c] = "running", "bar.sync"), order)
BarLeave(x, c, order) ==
    EndPhase(Check([x EXCEPT !.bar[c] = "out"], x.bar[c] = "running", "bar.leave"), order)

----------------------------------------------------------------------------
(* leave(). *)

\* After the threads that wake no later, so that the queue stays in order.
Sleep(x, t) ==
    LET late == Place(x.sleepQueue, {u \in Threads : x.due[u] > x.due[t]})
    IN  [x EXCEPT !.sleepQueue = InsertAt(@, IF late = 0 THEN Len(@) + 1 ELSE late, t)]

leave(y, t, c, order) ==
    LET in == schedContext(y, c)
        x == Check(y, y.curThread[c] = t /\ y.state[t] = "RUNNING", "leave")
    IN  IF x.failed # "none" THEN x
        ELSE IF t \in x.marked
        THEN LET z == Sleep(deschedule([x EXCEPT !.marked = @ \ {t}], t, c, "SLEEPING"), t)
             IN  IF in # Nobody THEN Give(z, in, c)
                 ELSE BarLeave([z EXCEPT !.freeList = Append(@, c)], c, order)
        ELSE IF in # Nobody THEN Give(deschedule(x, t, c, "BLOCKED"), in, c)
             ELSE BarLeave([x EXCEPT !.state[t] = "OUT", !.outQueue = Append(@, t)], c, order)

finishFakeLeave(x, t) == Check([x EXCEPT !.fakeLeaves = RemoveFirst(@, t)],
                               x.state[t] = "RUNNING", "finishFakeLeave")

----------------------------------------------------------------------------
(* Threads. *)

At(t, l) == s.failed = "none" /\ pc[t] = l
GoTo(t, l) == pc' = [pc EXCEPT ![t] = l]

\* The end of a critical section; a failed assertion leaves nothing but its name.
Commit(x) == s' = IF x.failed = "none" THEN x ELSE [s EXCEPT !.failed = x.failed]
Do(t, x, l) == Commit(x) /\ IF x.failed = "none" THEN GoTo(t, l) ELSE UNCHANGED pc

start(t) == /\ At(t, "new")
            /\ Do(t, [s EXCEPT !.state[t] = "STARTED"], "join")
            /\ UNCHANGED watchdog

\* A thread whose leave was fake goes on as if it had never left.
JoinFake(t) == /\ At(t, "join") /\ t \in ToSet(s.fakeLeaves)
               /\ Do(t, finishFakeLeave(s, t), "run")
               /\ UNCHANGED watchdog

\* A sleep ends early: wakeupPhase means nothing any more.
Woken(x, t) == [x EXCEPT !.sleepQueue = RemoveFirst(@, t), !.state[t] = "BLOCKED", !.due[t] = 0]

\* It still has its context if nobody has taken it.
JoinOut(t) == /\ At(t, "join") /\ s.state[t] = "OUT"
              /\ LET x == [s EXCEPT !.state[t] = "RUNNING", !.outQueue = RemoveFirst(@, t)]
                     y == Check(x, t \notin s.marked, "join")
                 IN  Do(t, BarJoin(y, s.cid[t]), "run")
              /\ UNCHANGED watchdog

JoinBlocked(t) ==
    /\ At(t, "join") /\ t \notin ToSet(s.fakeLeaves) /\ s.state[t] # "OUT"
    /\ LET x == IF s.state[t] = "SLEEPING" THEN Woken(s, t) ELSE s
           y == Check(x, t \notin s.marked /\ x.state[t] \in {"BLOCKED", "STARTED"}, "join")
           p == schedThread(y, t)
       IN  IF p.ctx # Nobody
           THEN Do(t, BarJoin(schedule(p.x, t, p.ctx), p.ctx), "run")
           ELSE Do(t, Wait(y, t), "wait")
    /\ UNCHANGED watchdog

\* waitForContext returns: the context is assigned and takes part in the barrier.
GotContext(t) == /\ At(t, "wait") /\ s.futexWord[t] = 0
                 /\ GoTo(t, "run")
                 /\ UNCHANGED <<s, watchdog>>

sync(t) == /\ At(t, "run")
           /\ LET x == Check(s, t \notin s.marked, "sync")
              IN  \E order \in Orders : Do(t, BarSync(x, s.cid[t], order), "sync")
           /\ UNCHANGED watchdog

\* Mutant: a hand-over is left for the next time.
SyncedKeeps(t) == /\ At(t, "sync") /\ s.bar[s.cid[t]] = "running"
                  /\ GoTo(t, "run")
                  /\ UNCHANGED <<s, watchdog>>

\* bar.sync returns and the thread tests handoffThread without the lock.
Synced(t) == /\ At(t, "sync") /\ s.bar[s.cid[t]] = "running"
             /\ GoTo(t, IF s.handoffThread[t] = Nobody THEN "run" ELSE "handoff")
             /\ UNCHANGED <<s, watchdog>>

HandOff(t) ==
    /\ At(t, "handoff")
    /\ LET c == s.cid[t]
           x == deschedule([s EXCEPT !.handoffThread[t] = Nobody], t, c, "QUEUED")
           y == wakeup(schedule(x, s.handoffThread[t], c), s.handoffThread[t])
           p == schedThread(y, t)
       IN  IF p.ctx # Nobody
           THEN Do(t, BarJoin(schedule(p.x, t, p.ctx), p.ctx), "run")
           ELSE Do(t, Wait(y, t), "wait")
    /\ UNCHANGED watchdog

----------------------------------------------------------------------------
(* System calls. *)

\* Mutant: the word is left to the thread that will sleep on it.
markForSleepOnly(t) ==
    /\ At(t, "run")
    /\ \E d \in 1 .. MaxSleep : Do(t, [s EXCEPT !.marked = @ \cup {t}, !.due[t] = d], "marked")
    /\ UNCHANGED watchdog

\* The wrapper of a syscall that sleeps; the word is set here "to avoid races".
markForSleep(t) ==
    /\ At(t, "run")
    /\ LET x == Check(s, t \notin s.marked, "markForSleep")
       IN  \E d \in 1 .. MaxSleep :
             Do(t, [x EXCEPT !.marked = @ \cup {t}, !.due[t] = d, !.futexWord[t] = 1],
                "marked")
    /\ UNCHANGED watchdog

\* A leave is real if the thread will sleep or the syscall is in the blacklist,
\* which the watchdog fills: any syscall may be, or not.
syscallLeave(t) ==
    /\ At(t, "run") \/ At(t, "marked")
    /\ LET x == Check(s, s.curThread[s.cid[t]] = t /\ s.state[t] = "RUNNING", "syscallLeave")
       IN  \/ Do(t, x, "leave")
           \/ t \notin s.marked /\ Do(t, [x EXCEPT !.fakeLeaves = Append(@, t)], "syscall")
    /\ UNCHANGED watchdog

Leave(t) == /\ At(t, "leave")
            /\ \E order \in Orders :
                  Do(t, leave(s, t, s.cid[t], order), IF t \in s.marked THEN "sleep" ELSE "syscall")
            /\ UNCHANGED watchdog

\* The next instruction that is simulated calls join().
SyscallReturns(t) == /\ At(t, "syscall")
                     /\ GoTo(t, "join")
                     /\ UNCHANGED <<s, watchdog>>

\* nanosleep, turned into a futex wait on futexWord: woken, or interrupted.
SleepReturns(t) == /\ At(t, "sleep")
                   /\ GoTo(t, "join")
                   /\ UNCHANGED <<s, watchdog>>

\* A syscall with a timeout: it is retried until its event comes or it is not
\* SLEEPING any more; in the first case it asks for its state, then says so.
EventComes(t) == /\ At(t, "sleep") /\ s.state[t] = "SLEEPING"
                 /\ GoTo(t, "notify")
                 /\ UNCHANGED <<s, watchdog>>

notifySleepEnd(t) ==
    /\ At(t, "notify")
    /\ LET ok == t \notin s.marked /\ s.state[t] \in {"SLEEPING", "BLOCKED"}
       IN  Do(t, Check(Woken(s, t), ok, "notifySleepEnd"), "join")
    /\ UNCHANGED watchdog

----------------------------------------------------------------------------
(* The end of a thread, which is in its exit syscall. *)

\* Mutant: the context of a thread that is OUT is not freed.
FinishedKeeps(x, t) ==
    LET y == Check(x, x.state[t] \in {"STARTED", "OUT", "BLOCKED", "QUEUED"}, "finish")
        c == x.cid[t]
    IN  IF t \in ToSet(y.outQueue)
        THEN [deschedule([y EXCEPT !.outQueue = RemoveFirst(@, t)], t, c, "BLOCKED") EXCEPT
                 !.state[t] = "NONE"]
        ELSE [y EXCEPT !.runQueue = RemoveFirst(@, t), !.state[t] = "NONE"]

Finished(x, t) ==
    LET y == Check(x, x.state[t] \in {"STARTED", "OUT", "BLOCKED", "QUEUED"}, "finish")
        c == x.cid[t]
    IN  IF t \in ToSet(y.outQueue)
        THEN [deschedule([y EXCEPT !.outQueue = RemoveFirst(@, t)], t, c, "BLOCKED") EXCEPT
                 !.freeList = Append(@, c), !.state[t] = "NONE"]
        ELSE [y EXCEPT !.runQueue = RemoveFirst(@, t), !.state[t] = "NONE"]

\* A leave that was fake, or that never came, is executed first, without the lock.
FinishRunning(t) ==
    /\ At(t, "syscall") /\ s.state[t] = "RUNNING"
    /\ Do(t, [s EXCEPT !.fakeLeaves = RemoveFirst(@, t)], "finishleave")
    /\ UNCHANGED watchdog

FinishLeave(t) == /\ At(t, "finishleave")
                  /\ \E order \in Orders : Do(t, leave(s, t, s.cid[t], order), "finishend")
                  /\ UNCHANGED watchdog

FinishEnd(t) == /\ \/ At(t, "finishend")
                   \/ At(t, "syscall") /\ s.state[t] # "RUNNING"
                /\ Do(t, Finished(s, t), "done")
                /\ UNCHANGED watchdog

----------------------------------------------------------------------------
(* The watchdog. *)

\* The first thread of the list leaves for real, once the lock is free again.
EndFakeLeave == /\ s.fakeLeaves # <<>>
                /\ LET t == Head(s.fakeLeaves) IN
                   /\ Commit(finishFakeLeave(s, t))
                   /\ watchdog' = [at |-> "leave", th |-> t, cid |-> s.cid[t]]
                /\ UNCHANGED pc

\* No phase has ended for a while: what everybody waits for may be a syscall whose
\* leave was fake.
BreakStall == s.failed = "none" /\ watchdog.at = "idle" /\ EndFakeLeave

WatchdogLeave ==
    /\ s.failed = "none" /\ watchdog.at = "leave"
    /\ \E order \in Orders : Commit(leave(s, watchdog.th, watchdog.cid, order))
    /\ watchdog' = [at |-> "next"]
    /\ UNCHANGED pc

\* The next of the list follows if it made the same call and enough of them are left.
WatchdogNext ==
    /\ s.failed = "none" /\ watchdog.at = "next"
    /\ \/ watchdog' = [at |-> "idle"] /\ UNCHANGED <<s, pc>>
       \/ Len(s.fakeLeaves) > FakeBound /\ EndFakeLeave

\* Mutant: threads that are OUT count as running.
DriveTimeIfIdle ==
    /\ s.failed = "none" /\ watchdog.at = "idle"
    /\ scheduledThreads(s) = 0 /\ s.sleepQueue # <<>>
    /\ \E order \in Orders : Commit(callback(s, order))
    /\ UNCHANGED <<pc, watchdog>>

\* Nobody runs and somebody sleeps: time goes on, one phase per step.
DriveTime == /\ s.failed = "none" /\ watchdog.at = "idle"
             /\ scheduledThreads(s) = Len(s.outQueue) /\ s.sleepQueue # <<>>
             /\ \E order \in Orders : Commit(callback(s, order))
             /\ UNCHANGED <<pc, watchdog>>

----------------------------------------------------------------------------
Join(t) == JoinFake(t) \/ JoinOut(t) \/ JoinBlocked(t)
Syscall(t) == markForSleep(t) \/ syscallLeave(t) \/ Leave(t) \/ SyscallReturns(t)
Sleeping(t) == SleepReturns(t) \/ EventComes(t) \/ notifySleepEnd(t)
Finish(t) == FinishRunning(t) \/ FinishLeave(t) \/ FinishEnd(t)

Next == \/ \E t \in Threads : \/ start(t) \/ Join(t) \/ GotContext(t)
                              \/ sync(t) \/ Synced(t) \/ HandOff(t)
                              \/ Syscall(t) \/ Sleeping(t) \/ Finish(t)
        \/ BreakStall \/ WatchdogLeave \/ WatchdogNext \/ DriveTime

Safety == Init /\ [][Next]_vars

\* A step of t, or of the watchdog, other than a failed assertion.
Moves(t, labels) == s.failed = "none" /\ \E l \in labels : GoTo(t, l)
WatchdogMoves == s.failed = "none" /\ \E w \in Watching : watchdog' = w

\* Inside the scheduler, and once it has what it waits for, a thread goes on.
Ready(t) == \/ pc[t] \in {"join", "handoff", "marked", "leave", "notify",
                          "finishleave", "finishend"}
            \/ pc[t] \in {"wait", "sleep"} /\ s.futexWord[t] = 0
            \/ pc[t] = "sync" /\ s.bar[s.cid[t]] = "running"

\* Threads go on, the watchdog too, and a thread that is simulated infinitely often
\* reaches the end of its phase infinitely often.  A syscall need not return, and
\* nothing but its futex word makes a sleeper go on.  The pattern of the syscalls
\* that the watchdog may take back is the default, ".*" (process_tree.cpp:183).
Spec == /\ Safety
        /\ \A t \in Threads : /\ WF_pc(Ready(t) /\ Moves(t, Labels))
                             /\ SF_pc(pc[t] = "run" /\ Moves(t, {"sync"}))
        /\ WF_watchdog((s.fakeLeaves # <<>> \/ watchdog.at # "idle") /\ WatchdogMoves)
        /\ WF_s(DriveTime)

----------------------------------------------------------------------------
(* Properties. *)

Running(t) == s.state[t] = "RUNNING"
Once(q, x) == Cardinality({i \in DOMAIN q : q[i] = x}) = 1
Where(q, x) == x \in ToSet(q)

\* Every thread is in exactly the place its state says, and every context in the
\* free list or with one thread that has it: after any sequence of thefts,
\* hand-overs, sleeps and ends, none is lost and none is given twice; and it takes part
\* in the barrier exactly while its thread is RUNNING, so that no phase waits for a
\* context that nobody drives.
PlacesExact ==
    /\ \A c \in Contexts : IF Used(s, c) THEN ~Where(s.freeList, c) /\ s.cid[s.curThread[c]] = c
                                         ELSE Once(s.freeList, c)
    /\ \A c \in Contexts : s.bar[c] # "out" <=> Used(s, c) /\ Running(s.curThread[c])
    /\ \A t \in Threads :
          /\ s.state[t] \in {"RUNNING", "OUT"} <=> \E c \in Contexts : s.curThread[c] = t
          /\ IF s.state[t] = "OUT" THEN Once(s.outQueue, t) ELSE ~Where(s.outQueue, t)
          /\ IF s.state[t] = "SLEEPING" THEN Once(s.sleepQueue, t) ELSE ~Where(s.sleepQueue, t)

\* A thread is QUEUED exactly if it waits with its word at 1, and then it is either
\* in the run queue or promised the context of one running thread that has yet to
\* leave the barrier: nobody waits for a context that nobody will give.
QueuedArePromised ==
    \A t \in Threads :
       LET givers == {u \in Threads : s.handoffThread[u] = t}
       IN  /\ s.state[t] = "QUEUED" <=> pc[t] = "wait" /\ s.futexWord[t] = 1
           /\ IF s.state[t] = "QUEUED" /\ ~Where(s.runQueue, t)
              THEN Cardinality(givers) = 1 /\ \A u \in givers : pc[u] \in {"sync", "handoff"}
              ELSE givers = {}
           /\ Where(s.runQueue, t) => s.state[t] = "QUEUED" /\ Once(s.runQueue, t)

\* "We will never match anything in the freeList" (schedTick): no thread waits in
\* the run queue for a context that is free or that a thread has left.
WorkConserved ==
    \A t \in ToSet(s.runQueue) : \A c \in Mask[t] :
       Used(s, c) /\ Running(s.curThread[c])

\* The assertions of the scheduler and the barrier and the panic of wakeup hold, but
\* for two: join() while the watchdog is about to leave for the thread, and a second
\* leave() when the watchdog's and that of finish() meet ("May be racey").
AssertsHold ==
    \/ s.failed = "none"
    \/ s.failed = "join" /\ watchdog.at = "leave"
    \/ s.failed = "leave" /\ (watchdog.at = "next" \/ \E t \in Threads : pc[t] = "finishleave")

\* The assertion of join(), scheduler.h:313.
JoinAssertHolds == s.failed # "join"

Failed == s.failed # "none"

\* A thread that waits for a context gets one.
QueuedRun == \A t \in Threads : s.state[t] = "QUEUED" ~> Running(t) \/ Failed

\* A thread that sleeps wakes up, even if nobody runs.
SleepersWake == \A t \in Threads : s.state[t] = "SLEEPING" ~> s.state[t] # "SLEEPING" \/ Failed
=============================================================================
