---------------------------- MODULE ThreadCalls ----------------------------
(***************************************************************************)
(* What Pin calls for the threads of one program (zsim.cpp): the analysis  *)
(* routines behind fPtrs, the syscall callbacks with the patches of virt/  *)
(* that make threads sleep, the vDSO hooks, and the end of the process,    *)
(* while fast-forwarding begins and ends at any time.                      *)
(*                                                                         *)
(* The scheduler is reduced to the state that it keeps for a thread: none  *)
(* (not in gidMap), out (STARTED, OUT or BLOCKED), run, fake (RUNNING with *)
(* a fake leave) and sleeping.  FFI points are in module FastForward, the  *)
(* matching of futex wakes in module FutexWakes.                           *)
(***************************************************************************)
EXTENDS Naturals

CONSTANTS
    Tids,
    Uses    \* the ways to use the simulator: registerThreads, blockingSyscalls, the kinds of
            \*   calls the program makes, and whether signals come

VARIABLES
    use,
    th,             \* what is known of each thread; level and inner: see the vDSO
    inFastForward,
    terminationConditionMet, perProcessEndFlag,
    failed          \* the thread whose assertion failed, or that followed a null pointer

process == <<inFastForward, terminationConditionMet, perProcessEndFlag>>
callVars == <<use, th, process, failed>>

NewThread == [at |-> "new", fPtrs |-> "join", cid |-> "uninitialized", sched |-> "none", marked |-> FALSE,
              active |-> FALSE, inSyscall |-> FALSE, inFakeTimeoutMode |-> FALSE, post |-> "null",
              slept |-> FALSE, dies |-> FALSE, level |-> 0, inner |-> 0,
              early |-> FALSE]  \* history: its mark is of a call that did not leave the scheduler

Init ==
    /\ use \in Uses
    /\ th = [t \in Tids |-> NewThread]
    /\ inFastForward \in BOOLEAN
    /\ terminationConditionMet = FALSE /\ perProcessEndFlag = FALSE
    /\ failed = {}

At(t, where) == failed = {} /\ th[t].at = where
Becomes(t, rec) == th' = [th EXCEPT ![t] = rec]
\* A step with an assertion, which leaves the thread as it is when it fails.
Asserts(t, ok, rec) == IF ok THEN Becomes(t, rec) /\ UNCHANGED failed ELSE failed' = {t} /\ UNCHANGED th

\* No analysis routine simulates a thread with these pointers.
IsNop(rec) == rec.fPtrs \in {"nop", "ff"}

-----------------------------------------------------------------------------
(* The thread as the scheduler and cids know it.                           *)

clearable(rec) == rec.cid # "invalid"
clearCid(rec) == [rec EXCEPT !.cid = "invalid"]
setCid(rec) == [rec EXCEPT !.cid = "valid"]

SimThreadStart(rec) == [clearCid(rec) EXCEPT !.sched = "out", !.active = TRUE, !.fPtrs = "join"]
startable(rec) == rec.sched = "none" /\ clearable(rec)

\* Scheduler::leave(), which puts a thread to sleep if it was marked.
leave(rec) == [rec EXCEPT !.sched = IF rec.marked THEN "sleeping" ELSE "out", !.marked = FALSE]

\* Mutant: the cid of a thread that left the simulation stays as it was.
SimThreadFiniKeeps(rec) == [rec EXCEPT !.sched = "none", !.active = FALSE, !.marked = FALSE, !.early = FALSE]

\* Scheduler::finish() ends a fake leave, and leaves for a thread that runs; it must not be asleep.
SimThreadFini(rec) ==
    [rec EXCEPT !.sched = "none", !.active = FALSE, !.marked = FALSE, !.early = FALSE, !.cid = "uninitialized"]
finishable(rec) ==
    rec.sched = "out" \/ (rec.sched \in {"run", "fake"} /\ leave(rec).sched = "out")

\* The program's thread calls SimEnd() and does not come back.
SimEnd == perProcessEndFlag' = TRUE
Ends(t, rec) == Becomes(t, [rec EXCEPT !.at = "exit"]) /\ SimEnd

-----------------------------------------------------------------------------
(* The life of a thread, and its analysis routines.                        *)

ThreadStart(t) ==
    /\ At(t, "new")
    /\ LET started == [th[t] EXCEPT !.at = "user"] IN
       \/ /\ inFastForward
          /\ Becomes(t, [started EXCEPT !.fPtrs = "ff"]) /\ UNCHANGED failed
       \/ /\ ~inFastForward /\ use.registerThreads
          /\ Becomes(t, [started EXCEPT !.fPtrs = "nop"]) /\ UNCHANGED failed
       \/ /\ ~inFastForward /\ ~use.registerThreads
          /\ Asserts(t, startable(started), SimThreadStart(started))
    /\ UNCHANGED <<use, process>>

\* The magic operation REGISTER_THREAD.
RegisterThread(t) ==
    /\ At(t, "user") /\ use.registerThreads /\ IsNop(th[t])
    /\ Asserts(t, startable(th[t]), SimThreadStart(th[t]))
    /\ UNCHANGED <<use, process>>

\* Any analysis routine of joinPtrs calls Join, which waits in the scheduler; it ends a sleep.
Join(t) ==
    /\ At(t, "user") /\ th[t].fPtrs = "join"
    /\ Asserts(t, th[t].sched # "none" /\ (th[t].sched # "fake" => ~th[t].marked),
               [th[t] EXCEPT !.at = "join", !.sched = IF @ = "sleeping" THEN "out" ELSE @,
                             !.early = IF th[t].marked THEN @ ELSE FALSE])
    /\ UNCHANGED <<use, process>>

Joined(t) ==
    /\ At(t, "join")
    /\ LET joined == [setCid(th[t]) EXCEPT !.sched = "run", !.at = "user"] IN
       IF th[t].cid # "invalid" THEN failed' = {t} /\ UNCHANGED <<th, perProcessEndFlag>>
       ELSE /\ IF terminationConditionMet THEN Ends(t, leave(joined))
               ELSE Becomes(t, [joined EXCEPT !.fPtrs = "core"]) /\ UNCHANGED perProcessEndFlag
            /\ UNCHANGED failed
    /\ UNCHANGED <<use, inFastForward, terminationConditionMet>>

\* The core's basic block routine comes to the end of the phase.
Sync(t) ==
    /\ At(t, "user") /\ th[t].fPtrs = "core"
    /\ Asserts(t, ~th[t].marked, [th[t] EXCEPT !.at = "sync"])
    /\ UNCHANGED <<use, process>>

TakeBarrier(t) ==
    /\ At(t, "sync")
    /\ LET synced == [setCid(clearCid(th[t])) EXCEPT !.at = "user"] IN
       \/ /\ ~clearable(th[t])
          /\ failed' = {t} /\ UNCHANGED <<th, perProcessEndFlag>>
       \/ /\ clearable(th[t]) /\ inFastForward
          /\ Becomes(t, [SimThreadFini(leave(clearCid(synced))) EXCEPT !.fPtrs = "ff"])
          /\ UNCHANGED <<failed, perProcessEndFlag>>
       \/ /\ clearable(th[t]) /\ ~inFastForward /\ terminationConditionMet
          /\ Ends(t, leave(synced)) /\ UNCHANGED failed
       \/ /\ clearable(th[t]) /\ ~inFastForward /\ ~terminationConditionMet
          /\ Becomes(t, [synced EXCEPT !.fPtrs = "core"]) /\ UNCHANGED <<failed, perProcessEndFlag>>
    /\ UNCHANGED <<use, inFastForward, terminationConditionMet>>

FFBasicBlock(t) ==
    /\ At(t, "user") /\ th[t].fPtrs = "ff" /\ ~inFastForward
    /\ Asserts(t, startable(th[t]), SimThreadStart(th[t]))
    /\ UNCHANGED <<use, process>>

-----------------------------------------------------------------------------
(* Syscalls.  A call is plain, timed (a futex wait, poll or epoll_wait     *)
(* with a timeout, which is cut to 20 ms and repeated), a sleep (which     *)
(* becomes a wait for the scheduler's futex word), a sleep for an invalid  *)
(* time (whose patch is an empty function), or the end of the thread.      *)

\* VirtSyscallEnter with SkipTimeoutVirt and SkipTimeVirt; a retried call keeps its patch.
Patched(t, call) == call \in {"timed", "sleep", "badsleep"} /\ ~IsNop(th[t]) /\ ~inFastForward
Marks(t, call) == Patched(t, call) /\ call # "badsleep"

\* A call may come before an instruction has joined after the last one: it is patched all the same.
SyscallEnter(t, call) ==
    /\ At(t, "user") /\ th[t].fPtrs # "retry"
    /\ LET marks == Marks(t, call)
           timed == Patched(t, call) /\ call = "timed"
       IN  Asserts(t, ~th[t].inSyscall /\ ~(timed /\ th[t].inFakeTimeoutMode) /\ ~(marks /\ th[t].marked),
                   [th[t] EXCEPT !.at = IF IsNop(th[t]) THEN "kernel" ELSE "leave",
                                 !.inSyscall = TRUE,
                                 !.marked = @ \/ marks,
                                 !.early = IF marks THEN th[t].fPtrs = "join" \/ use.blockingSyscalls ELSE @,
                                 !.inFakeTimeoutMode = @ \/ timed,
                                 !.post = IF Patched(t, call) \/ call = "exit" THEN call ELSE "null"])
    /\ UNCHANGED <<use, process>>

SyscallRetried(t) ==
    /\ At(t, "user") /\ th[t].fPtrs = "retry"
    /\ Asserts(t, ~th[t].inSyscall, [th[t] EXCEPT !.at = "kernel", !.inSyscall = TRUE])
    /\ UNCHANGED <<use, process>>

\* Scheduler::syscallLeave: the leave is fake, unless the thread sleeps or its call blocked before.
SyscallLeave(t) ==
    /\ At(t, "leave")
    /\ LET called == [th[t] EXCEPT !.at = "kernel"]
           left == [clearCid(called) EXCEPT !.fPtrs = "join"]
       IN  IF called.fPtrs = "join" \/ use.blockingSyscalls THEN Becomes(t, called) /\ UNCHANGED failed
           ELSE \/ Asserts(t, clearable(called) /\ called.sched = "run", leave(left))
                \/ ~left.marked /\ Becomes(t, [left EXCEPT !.sched = "fake"]) /\ UNCHANGED failed
    /\ UNCHANGED <<use, process>>

\* A phase ends a sleep.  The phase of a mark may have passed when the thread went to sleep late.
WakesUp(t) ==
    /\ failed = {} /\ th[t].sched = "sleeping"
    /\ \/ Becomes(t, [th[t] EXCEPT !.sched = "out", !.early = th[t].marked]) /\ UNCHANGED failed
       \/ th[t].early /\ failed' = {t} /\ UNCHANGED th
    /\ UNCHANGED <<use, process>>

\* The watchdog ends a fake leave, and leaves for the thread.
FakeLeaveEnds(t) ==
    /\ failed = {} /\ th[t].sched = "fake"
    /\ Becomes(t, leave(th[t]))
    /\ UNCHANGED <<use, process, failed>>

\* The syscall returns, or ContextChange ends it for a signal, which may be fatal; the patch is
\* then called.  Only the scheduler wakes a thread that waits for its futex word.
\* PostPatchTimeoutSyscall asks whether the thread sleeps.
Returns(t, dies) ==
    /\ Asserts(t, th[t].inSyscall /\ th[t].post # "badsleep"
                   /\ (th[t].post = "timed" => th[t].inFakeTimeoutMode /\ th[t].sched # "none"),
               [th[t] EXCEPT !.at = "post", !.inSyscall = FALSE, !.slept = th[t].sched = "sleeping", !.dies = dies])
    /\ UNCHANGED <<use, process>>

SyscallReturns(t) ==
    /\ At(t, "kernel") /\ th[t].post # "exit"
    /\ th[t].post = "sleep" => ~th[t].marked /\ th[t].sched # "sleeping"
    /\ Returns(t, FALSE)

\* A fatal signal ends the process; the watchdog cleans up after it (module Scheduler).
ContextChange(t) ==
    /\ use.signals
    /\ \/ At(t, "kernel") /\ th[t].post # "exit" /\ \E fatal \in BOOLEAN : Returns(t, fatal)
       \/ /\ At(t, "user") /\ Ends(t, th[t])
          /\ UNCHANGED <<use, inFastForward, terminationConditionMet, failed>>

notifySleepEnd(rec) == [rec EXCEPT !.sched = IF @ = "sleeping" THEN "out" ELSE @, !.early = FALSE]

\* Mutant: a call that fast-forwarding ends does not end the sleep.
PostPatchStaysAsleep(t, timedOut) ==
    LET retry == timedOut /\ th[t].slept /\ ~inFastForward
        done == IF th[t].slept /\ ~timedOut THEN notifySleepEnd(th[t]) ELSE th[t]
    IN  IF retry THEN [th[t] EXCEPT !.fPtrs = "retry"]
        ELSE [done EXCEPT !.fPtrs = IF use.blockingSyscalls THEN "core" ELSE "join", !.inFakeTimeoutMode = FALSE]

\* PostPatchTimeoutSyscall: a call that timed out is repeated as long as the thread must sleep.
PostPatchTimeoutSyscall(t, timedOut) ==
    LET retry == timedOut /\ th[t].slept /\ ~inFastForward
        done == IF th[t].slept /\ ~retry THEN notifySleepEnd(th[t]) ELSE th[t]
    IN  IF retry THEN [th[t] EXCEPT !.fPtrs = "retry"]
        ELSE [done EXCEPT !.fPtrs = IF use.blockingSyscalls THEN "core" ELSE "join", !.inFakeTimeoutMode = FALSE]

\* notifySleepEnd asserts that the thread is not marked again; the pointers are those of the core
\* that the thread is on, or a null pointer is followed.
PostPatch(t) ==
    /\ At(t, "post")
    /\ \E timedOut \in BOOLEAN :
        LET rec == IF th[t].post = "timed" THEN PostPatchTimeoutSyscall(t, timedOut) ELSE th[t] IN
        Asserts(t, /\ th[t].post = "timed" /\ th[t].slept /\ rec.fPtrs # "retry" => ~th[t].marked
                   /\ th[t].post = "timed" /\ rec.fPtrs = "core" => rec.cid = "valid",
                [rec EXCEPT !.at = "return", !.slept = FALSE, !.post = IF rec.fPtrs = "retry" THEN @ ELSE "null"])
    /\ UNCHANGED <<use, process>>

\* The rest of SyscallExit: fast-forwarding avoids the join, and the process may have to end.
SyscallExit(t) ==
    /\ At(t, "return")
    /\ LET returned == [th[t] EXCEPT !.at = "user"]
           enters == returned.fPtrs = "join" /\ inFastForward
           rec == IF enters THEN [SimThreadFini(returned) EXCEPT !.fPtrs = "ff"] ELSE returned
       IN  IF enters /\ ~(returned.active /\ finishable(returned))
           THEN failed' = {t} /\ UNCHANGED <<th, perProcessEndFlag>>
           ELSE /\ IF terminationConditionMet \/ rec.dies THEN Ends(t, rec)
                   ELSE Becomes(t, rec) /\ UNCHANGED perProcessEndFlag
                /\ UNCHANGED failed
    /\ UNCHANGED <<use, inFastForward, terminationConditionMet>>

\* The thread exits, in a syscall that does not return.
ThreadFini(t) ==
    /\ At(t, "kernel") /\ th[t].post = "exit"
    /\ LET done == [th[t] EXCEPT !.at = "done"] IN
       IF IsNop(done) THEN Becomes(t, done) /\ UNCHANGED failed
       ELSE Asserts(t, finishable(done), SimThreadFini(done))
    /\ UNCHANGED <<use, process>>

-----------------------------------------------------------------------------
(* The vDSO: functions that are hooked at their entries, at their calls    *)
(* and at their returns.  inner: the calls that the thread is really in.   *)

\* One function may jump to another.
VdsoEntryPoint(t) ==
    /\ At(t, "user") /\ "vdso" \in use.calls
    /\ Becomes(t, [th[t] EXCEPT !.level = IF @ = 0 THEN 1 ELSE @, !.inner = IF @ = 0 THEN 1 ELSE @])
    /\ UNCHANGED <<use, process, failed>>

MaxInner == 2   \* bound

VdsoCallPoint(t) ==
    /\ At(t, "user") /\ th[t].inner \in 1 .. MaxInner - 1
    /\ Asserts(t, th[t].level > 0, [th[t] EXCEPT !.level = @ + 1, !.inner = @ + 1])
    /\ UNCHANGED <<use, process>>

\* The result is patched at level 0; a sleeping patch may be left to the caller of the syscall.
VdsoRetPoint(t) ==
    /\ At(t, "user") /\ th[t].inner > 0
    /\ Becomes(t, [th[t] EXCEPT !.level = IF @ = 0 THEN 0 ELSE @ - 1, !.inner = @ - 1])
    /\ UNCHANGED <<use, process, failed>>

-----------------------------------------------------------------------------
\* Another process, the program, or the end of a phase switches fast-forwarding.
Toggles ==
    /\ failed = {} /\ inFastForward' = ~inFastForward
    /\ UNCHANGED <<use, th, terminationConditionMet, perProcessEndFlag, failed>>

Terminates ==
    /\ failed = {} /\ ~terminationConditionMet /\ terminationConditionMet' = TRUE
    /\ UNCHANGED <<use, th, inFastForward, perProcessEndFlag, failed>>

Next ==
    \/ \E t \in Tids :
        \/ ThreadStart(t) \/ RegisterThread(t) \/ Join(t) \/ Joined(t) \/ Sync(t) \/ TakeBarrier(t) \/ FFBasicBlock(t)
        \/ \E call \in use.calls \ {"vdso"} : SyscallEnter(t, call)
        \/ SyscallRetried(t) \/ SyscallLeave(t) \/ WakesUp(t) \/ FakeLeaveEnds(t) \/ SyscallReturns(t) \/ PostPatch(t) \/ SyscallExit(t)
        \/ ContextChange(t) \/ ThreadFini(t) \/ VdsoEntryPoint(t) \/ VdsoCallPoint(t) \/ VdsoRetPoint(t)
    \/ Toggles \/ Terminates

Spec == Init /\ [][Next]_callVars

-----------------------------------------------------------------------------
\* A thread in the program is in exactly the hands that its pointers say: simulated on a core
\* that it knows, waiting to join, asleep between two tries of a call, or unknown to the
\* scheduler; it is marked for sleep only by a call that could not leave, since the thread had not
\* joined after the one before, or since with sim.blockingSyscalls no call leaves.
PointersMatch(rec) ==
    /\ rec.marked => rec.early
    /\ rec.fPtrs = "core" <=> rec.sched = "run"
    /\ rec.fPtrs = "core" <=> rec.cid = "valid"
    /\ rec.fPtrs = "join" => rec.sched \in {"out", "fake", "sleeping"} /\ rec.cid = "invalid"
    /\ rec.fPtrs = "retry" => rec.sched \in {"out", "sleeping"} /\ rec.inFakeTimeoutMode
    /\ IsNop(rec) <=> rec.sched = "none"

\* The states in which assertions fail: a mark without a leave is met by the next one, by join(),
\* sync() or finish(), or puts the thread to sleep when its phase is over ...
MarkedEarly(rec) ==
    /\ rec.early
    /\ \/ rec.marked /\ (rec.at = "user" \/ (rec.at = "post" /\ rec.slept) \/ (~finishable(rec) /\ (rec.at = "return" \/ rec.post = "exit")))
       \/ rec.sched = "sleeping"
\* ... fast-forwarding begins, or the thread ends, in a sleep that a signal has cut short ...
CutShort(rec) == use.signals /\ rec.sched = "sleeping" /\ (rec.at = "return" \/ rec.post = "exit")
\* ... a thread that has not joined yet is to use its core's pointers after a call ...
NotJoined(rec) == use.blockingSyscalls /\ rec.at = "post" /\ rec.cid # "valid"
\* ... or nanosleep() was called for an invalid time.
NoPatch(rec) == rec.post = "badsleep"

\* The threads that exec() counts are those the scheduler knows; assertions fail in the states
\* above, and in no others; and the vDSO hooks know how deep the thread is in the vDSO.
ThreadsSound ==
    /\ \A t \in failed : MarkedEarly(th[t]) \/ CutShort(th[t]) \/ NotJoined(th[t]) \/ NoPatch(th[t])
    /\ \A t \in Tids :
        /\ th[t].active <=> th[t].sched # "none"
        /\ th[t].at = "user" => PointersMatch(th[t])
        /\ th[t].level = th[t].inner
=============================================================================
