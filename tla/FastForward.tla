---------------------------- MODULE FastForward ----------------------------
(***************************************************************************)
(* Fast-forwarding and the end of a simulation, across processes: the      *)
(* actions at the end of a phase (zsim.cpp) with their event queue, the    *)
(* fast-forward control thread of every process, the switches a program    *)
(* makes itself (magic operations, FFI points), and SimEnd.                *)
(*                                                                         *)
(* Each process has one program thread.  The barrier is reduced to this: a *)
(* phase ends when every thread in it has come to its end, and the thread  *)
(* that ends it runs the end-of-phase actions with the scheduler's lock.   *)
(* Phases are counted from the current one.                                *)
(***************************************************************************)
EXTENDS Integers, Sequences, FiniteSets, SequencesExt

CONSTANTS
    Procs, Proc0, None,
    Uses,       \* the ways to use the simulator: records of sets of processes,
                \*   synced: their fast-forwards stop the simulation
                \*   startFF: start in fast-forward
                \*   toggled: fftoggle is run on them
                \*   hooks: execute ROI_BEGIN and ROI_END
                \*   ffi: have FFI points
                \*   exits: may end by themselves
    Intervals   \* bound: phases an FFI event may wait for

ASSUME ProcsAssumption == IsFiniteSet(Procs) /\ Proc0 \in Procs /\ None \notin Procs
ASSUME UsesAssumption ==
    Uses \subseteq [synced : SUBSET Procs, startFF : SUBSET Procs, toggled : SUBSET Procs,
                   hooks : SUBSET Procs, ffi : SUBSET Procs, exits : SUBSET Procs]
ASSUME IntervalsAssumption == Intervals \subseteq Nat \ {0}

VARIABLES
    use,
    inFastForward, globalFFProcs, globalSyncedFFProcs,
    ffLock,             \* None or the process whose thread holds it
    evMap, qLock,       \* events, by age: their kind and process, and their phase
    stage, ender,       \* of the end of phase, and the process whose thread executes it
    fc,                 \* where the control thread of each process is
    toggle,             \* its request: ffToggleLocks unlocked
    app,                \* where the program thread of each process is
    ran,                \* has it simulated instructions since its last FFI point?
    terminationConditionMet,
    perProcessEndFlag, ended, globalActiveProcs,
    panicked, failed    \* the panic of tick(), and a failed assertion

ff == <<inFastForward, globalFFProcs, globalSyncedFFProcs>>
queue == <<evMap, qLock>>
ending == <<perProcessEndFlag, ended, globalActiveProcs>>
phase == <<stage, ender>>
control == <<fc, toggle>>
program == <<app, ran>>
termination == <<terminationConditionMet, ending>>
stops == <<panicked, failed>>
moves == <<ff, ffLock, queue, phase, control, program, termination, stops>>
vars == <<use, moves>>

Init ==
    /\ use \in Uses
    /\ inFastForward = [p \in Procs |-> p \in use.startFF]
    /\ globalFFProcs = Cardinality(use.startFF)
    /\ globalSyncedFFProcs = Cardinality(use.startFF \cap use.synced)
    /\ ffLock = None /\ evMap = <<>> /\ qLock = FALSE
    /\ stage = "bound" /\ ender = None
    /\ fc = [p \in Procs |-> "idle"] /\ toggle = [p \in Procs |-> FALSE]
    /\ app = [p \in Procs |-> IF p \in use.startFF THEN "ff" ELSE IF p \in use.ffi THEN "track" ELSE "join"]
    /\ ran = [p \in Procs |-> FALSE]
    /\ terminationConditionMet = FALSE
    /\ perProcessEndFlag = [p \in Procs |-> FALSE] /\ ended = [p \in Procs |-> FALSE]
    /\ globalActiveProcs = Cardinality(Procs)
    /\ panicked = FALSE /\ failed = FALSE

Running(p) == ~ended[p] /\ ~panicked /\ ~failed

-----------------------------------------------------------------------------
(* The process tree's record of who fast-forwards.                         *)

enterFastForward(p) ==
    /\ inFastForward' = [inFastForward EXCEPT ![p] = TRUE]
    /\ globalFFProcs' = globalFFProcs + 1
    /\ globalSyncedFFProcs' = globalSyncedFFProcs + (IF p \in use.synced THEN 1 ELSE 0)

exitFastForward(p) ==
    /\ inFastForward' = [inFastForward EXCEPT ![p] = FALSE]
    /\ globalFFProcs' = globalFFProcs - 1
    /\ globalSyncedFFProcs' = globalSyncedFFProcs - (IF p \in use.synced THEN 1 ELSE 0)

\* Mutant: a process ends without leaving fast-forward.
notifyEndStays(p) ==
    /\ perProcessEndFlag' = [perProcessEndFlag EXCEPT ![p] = TRUE]
    /\ ended' = [ended EXCEPT ![p] = p # Proc0]
    /\ globalActiveProcs' = globalActiveProcs - 1
    /\ UNCHANGED ff

\* SimEnd() by a thread of p that finds its process not yet ending: process 0 stays until all
\* others are done.
notifyEnd(p) ==
    /\ perProcessEndFlag' = [perProcessEndFlag EXCEPT ![p] = TRUE]
    /\ ended' = [ended EXCEPT ![p] = p # Proc0]
    /\ globalActiveProcs' = globalActiveProcs - 1
    /\ IF inFastForward[p] THEN exitFastForward(p) ELSE UNCHANGED ff

\* The program thread calls SimEnd(), out of the scheduler; the second thread to do so sleeps.
SimEnd(p) ==
    /\ app' = [app EXCEPT ![p] = "out"]
    /\ IF perProcessEndFlag[p] THEN UNCHANGED <<ending, ff>> ELSE notifyEnd(p)

Process0Ends ==
    /\ Running(Proc0) /\ perProcessEndFlag[Proc0] /\ globalActiveProcs = 0
    /\ ended' = [ended EXCEPT ![Proc0] = TRUE]
    /\ UNCHANGED <<ff, ffLock, queue, phase, control, program, terminationConditionMet, perProcessEndFlag, globalActiveProcs, stops>>

-----------------------------------------------------------------------------
(* The program thread.  "join": out of the barrier (started, or in a       *)
(* syscall), "sim": in a phase, "synced": at its end, "resume": released   *)
(* from it.  schedLock is free in the bound phase only.                    *)

Join(p) ==
    /\ Running(p) /\ app[p] = "join" /\ stage = "bound"
    /\ IF terminationConditionMet THEN SimEnd(p)
       ELSE app' = [app EXCEPT ![p] = "sim"] /\ UNCHANGED <<ending, ff>>
    /\ UNCHANGED <<ffLock, queue, phase, control, ran, terminationConditionMet, stops>>

SyscallEnter(p) ==
    /\ Running(p) /\ app[p] = "sim" /\ stage = "bound"
    /\ ran' = [ran EXCEPT ![p] = p \in use.ffi]
    /\ app' = [app EXCEPT ![p] = "join"]
    /\ UNCHANGED <<ff, ffLock, queue, phase, control, termination, stops>>

\* A syscall returns to a process that fast-forwards, or that must end.
SyscallExit(p) ==
    /\ Running(p) /\ app[p] = "join"
    /\ \/ /\ ~inFastForward[p] /\ terminationConditionMet
          /\ SimEnd(p)
       \/ /\ inFastForward[p] /\ stage = "bound"
          /\ IF terminationConditionMet THEN SimEnd(p)
             ELSE app' = [app EXCEPT ![p] = "ff"] /\ UNCHANGED <<ending, ff>>
    /\ UNCHANGED <<ffLock, queue, phase, control, ran, terminationConditionMet, stops>>

\* A thread that fast-forwards already returns from a syscall when the process must end.
SyscallExitFF(p) ==
    /\ Running(p) /\ app[p] = "ff" /\ terminationConditionMet
    /\ SimEnd(p)
    /\ UNCHANGED <<ffLock, queue, phase, control, ran, terminationConditionMet, stops>>

\* Fini: the program ends.
Fini(p) ==
    /\ Running(p) /\ p \in use.exits /\ app[p] \in {"join", "ff"}
    /\ SimEnd(p)
    /\ UNCHANGED <<ffLock, queue, phase, control, ran, terminationConditionMet, stops>>

Sync(p) ==
    /\ Running(p) /\ app[p] = "sim" /\ stage = "bound"
    /\ ran' = [ran EXCEPT ![p] = p \in use.ffi]
    /\ app' = [app EXCEPT ![p] = "synced"]
    /\ UNCHANGED <<ff, ffLock, queue, phase, control, termination, stops>>

TakeBarrier(p) ==
    /\ Running(p) /\ app[p] = "resume" /\ stage = "bound"
    /\ IF ~inFastForward[p] /\ terminationConditionMet THEN SimEnd(p)
       ELSE /\ app' = [app EXCEPT ![p] = IF inFastForward[p] THEN "ff" ELSE "sim"]
            /\ UNCHANGED <<ending, ff>>
    /\ UNCHANGED <<ffLock, queue, phase, control, ran, terminationConditionMet, stops>>

FFBasicBlock(p) ==
    /\ Running(p) /\ app[p] = "ff" /\ p \notin use.ffi /\ ~inFastForward[p] /\ stage = "bound"
    /\ app' = [app EXCEPT ![p] = "join"]
    /\ UNCHANGED <<ff, ffLock, queue, phase, control, ran, termination, stops>>

\* HandleMagicOp: ROI_BEGIN and ROI_END.
MagicOp(p) ==
    /\ Running(p) /\ p \in use.hooks /\ app[p] \in {"sim", "ff"} /\ ffLock = None
    /\ \/ inFastForward[p] /\ exitFastForward(p)
       \/ ~inFastForward[p] /\ p \notin use.synced /\ enterFastForward(p)
    /\ UNCHANGED <<ffLock, queue, phase, control, program, termination, stops>>

\* FFIBasicBlock at an FFI point, or, after an FFI event made the process fast-forward,
\* FFIEntryBasicBlock: FFIAdvance ends the process after its last point.
FFIPoint(p) ==
    /\ Running(p) /\ p \in use.ffi /\ app[p] = "ff"
    /\ \/ SimEnd(p) /\ UNCHANGED <<ran, failed>>
       \/ /\ ffLock = None
          /\ failed' = ~inFastForward[p]
          /\ exitFastForward(p)
          /\ ran' = [ran EXCEPT ![p] = FALSE]
          /\ app' = [app EXCEPT ![p] = "track"]
          /\ UNCHANGED ending
    /\ UNCHANGED <<ffLock, queue, phase, control, terminationConditionMet, panicked>>

\* FFITrackNFFInterval: an adaptive event, of a period of at least 1, ends the interval.
Track(p) ==
    /\ Running(p) /\ app[p] = "track" /\ ~qLock
    /\ evMap' = Append(evMap, <<"ffi", p, 1>>)
    /\ app' = [app EXCEPT ![p] = "start"]
    /\ UNCHANGED <<ff, ffLock, qLock, phase, control, ran, termination, stops>>

\* The SimThreadStart that ends FFIBasicBlock.
Start(p) ==
    /\ Running(p) /\ app[p] = "start" /\ stage = "bound"
    /\ app' = [app EXCEPT ![p] = "join"]
    /\ UNCHANGED <<ff, ffLock, queue, phase, control, ran, termination, stops>>

-----------------------------------------------------------------------------
(* EndOfPhaseActions and EventQueue::tick, by the last thread to come.     *)

Ender == ender # None /\ Running(ender)

PhaseEnds(p) ==
    /\ Running(p) /\ stage = "bound" /\ app[p] = "synced"
    /\ \A q \in Procs : app[q] \notin {"sim", "resume"}
    /\ stage' = "paused" /\ ender' = p
    /\ UNCHANGED <<ff, ffLock, queue, control, program, termination, stops>>

CheckForTermination ==
    /\ Ender /\ stage = "paused" /\ globalSyncedFFProcs = 0
    /\ failed' = terminationConditionMet
    /\ terminationConditionMet' \in {terminationConditionMet, TRUE}
    /\ stage' = "weave"
    /\ UNCHANGED <<ff, ffLock, queue, ender, control, program, ending, panicked>>

\* tick() starts when the weave phase is over.
Tick ==
    /\ Ender /\ stage = "weave" /\ ~qLock
    /\ qLock' = TRUE /\ stage' = "tick"
    /\ UNCHANGED <<ff, ffLock, evMap, ender, control, program, termination, stops>>

\* The first event of the map, when it is due: its phase is now, or was missed.
Due(i) ==
    /\ evMap[i][3] <= 0
    /\ \A j \in 1 .. Len(evMap) : evMap[i][3] < evMap[j][3] \/ (evMap[i][3] = evMap[j][3] /\ i <= j)

\* A SyncEvent lets the control thread go, and waits for it.
TickSync ==
    /\ Ender /\ stage = "tick"
    /\ \E i \in 1 .. Len(evMap) :
        /\ Due(i) /\ evMap[i][3] = 0 /\ evMap[i][1] = "sync"
        /\ evMap' = RemoveAt(evMap, i)
        /\ fc' = [fc EXCEPT ![evMap[i][2]] = IF @ = "wait" THEN "relock" ELSE @]
    /\ stage' = "event"
    /\ UNCHANGED <<ff, ffLock, qLock, ender, toggle, program, termination, stops>>

\* The event of an FFI interval comes back later, if the process is short of its target.  If not
\* it fires: it waits for ffLock, with qLock.
TickFFI ==
    /\ Ender /\ stage = "tick"
    /\ \E i \in 1 .. Len(evMap) :
        /\ Due(i) /\ evMap[i][3] = 0 /\ evMap[i][1] = "ffi"
        /\ \/ /\ \E n \in Intervals : evMap' = Append(RemoveAt(evMap, i), <<"ffi", evMap[i][2], n>>)
              /\ UNCHANGED stage
           \/ /\ ran[evMap[i][2]]
              /\ stage' = "fire" /\ UNCHANGED evMap
    /\ UNCHANGED <<ff, ffLock, qLock, ender, control, program, termination, stops>>

FFIFires ==
    /\ Ender /\ stage = "fire" /\ ffLock = None
    /\ \E i \in 1 .. Len(evMap) :
        /\ Due(i) /\ evMap[i][1] = "ffi"
        /\ failed' = inFastForward[evMap[i][2]]
        /\ enterFastForward(evMap[i][2])
        /\ evMap' = RemoveAt(evMap, i)
    /\ stage' = "tick"
    /\ UNCHANGED <<ffLock, qLock, ender, control, program, termination, panicked>>

TickPanics ==
    /\ Ender /\ stage = "tick" /\ \E i \in 1 .. Len(evMap) : evMap[i][3] < 0
    /\ panicked' = TRUE
    /\ UNCHANGED <<ff, ffLock, queue, phase, control, program, termination, failed>>

TickDone ==
    /\ Ender /\ stage = "tick" /\ \A i \in 1 .. Len(evMap) : evMap[i][3] > 0
    /\ qLock' = FALSE /\ stage' = "count"
    /\ UNCHANGED <<ff, ffLock, evMap, ender, control, program, termination, stops>>

\* Scheduler::callback goes on: numPhases++, and the barrier lets everybody go.
NextPhase ==
    /\ Ender /\ stage = "count"
    /\ evMap' = [i \in 1 .. Len(evMap) |-> <<evMap[i][1], evMap[i][2], evMap[i][3] - 1>>]
    /\ stage' = "bound" /\ ender' = None
    /\ app' = [p \in Procs |-> IF app[p] = "synced" THEN "resume" ELSE app[p]]
    /\ UNCHANGED <<ff, ffLock, qLock, control, ran, termination, stops>>

-----------------------------------------------------------------------------
(* FFThread, the fast-forward control thread of a process.                 *)

\* The fftoggle program.
FFToggle(p) ==
    /\ p \in use.toggled /\ ~toggle[p] /\ Running(p)
    /\ toggle' = [toggle EXCEPT ![p] = TRUE]
    /\ UNCHANGED <<ff, ffLock, queue, phase, fc, program, termination, stops>>

Wakes(p) ==
    /\ Running(p) /\ fc[p] = "idle" /\ toggle[p]
    /\ toggle' = [toggle EXCEPT ![p] = FALSE] /\ fc' = [fc EXCEPT ![p] = "lock"]
    /\ UNCHANGED <<ff, ffLock, queue, phase, program, termination, stops>>

\* Mutant: only process 0 looks for the end of the simulation.
TimesOutFirst(p) ==
    /\ Running(p) /\ fc[p] = "idle" /\ ~toggle[p] /\ terminationConditionMet /\ p = Proc0
    /\ fc' = [fc EXCEPT ![p] = "out"]
    /\ IF perProcessEndFlag[p] THEN UNCHANGED <<ending, ff>> ELSE notifyEnd(p)
    /\ UNCHANGED <<ffLock, queue, phase, toggle, program, terminationConditionMet, stops>>

\* The wait of 5 seconds is over, and so is the simulation.
TimesOut(p) ==
    /\ Running(p) /\ fc[p] = "idle" /\ ~toggle[p] /\ terminationConditionMet
    /\ fc' = [fc EXCEPT ![p] = "out"]
    /\ IF perProcessEndFlag[p] THEN UNCHANGED <<ending, ff>> ELSE notifyEnd(p)
    /\ UNCHANGED <<ffLock, queue, phase, toggle, program, terminationConditionMet, stops>>

\* With ffLock: leave fast-forward, or go on to insert an event that ends it with the phase.
Locks(p) ==
    /\ Running(p) /\ fc[p] = "lock" /\ ffLock = None
    /\ IF inFastForward[p]
       THEN exitFastForward(p) /\ fc' = [fc EXCEPT ![p] = "idle"] /\ UNCHANGED ffLock
       ELSE ffLock' = p /\ fc' = [fc EXCEPT ![p] = "insert"] /\ UNCHANGED ff
    /\ UNCHANGED <<queue, phase, toggle, program, termination, stops>>

\* Mutant: the control thread waits for the end of the phase with ffLock.
InsertsLocked(p) ==
    /\ Running(p) /\ fc[p] = "insert" /\ ~qLock
    /\ evMap' = Append(evMap, <<"sync", p, 0>>)
    /\ fc' = [fc EXCEPT ![p] = "wait"]
    /\ UNCHANGED <<ff, ffLock, qLock, phase, toggle, program, termination, stops>>

Inserts(p) ==
    /\ Running(p) /\ fc[p] = "insert" /\ ~qLock
    /\ evMap' = Append(evMap, <<"sync", p, 0>>)
    /\ ffLock' = None /\ fc' = [fc EXCEPT ![p] = "wait"]
    /\ UNCHANGED <<ff, qLock, phase, toggle, program, termination, stops>>

\* Released by the event: enter fast-forward, and let the end of the phase go on.
Enters(p) ==
    /\ Running(p) /\ fc[p] = "relock" /\ ffLock = None
    /\ IF inFastForward[p] THEN UNCHANGED ff ELSE enterFastForward(p)
    /\ fc' = [fc EXCEPT ![p] = "idle"] /\ stage' = "tick"
    /\ UNCHANGED <<ffLock, queue, ender, toggle, program, termination, stops>>

-----------------------------------------------------------------------------
\* Everything the simulator owes, whatever the program and its user do.
Steps(p) ==
    \/ Join(p) \/ SyscallExit(p) \/ Sync(p) \/ TakeBarrier(p) \/ FFBasicBlock(p) \/ Track(p) \/ Start(p)
EndOfPhase == CheckForTermination \/ Tick \/ TickSync \/ TickFFI \/ FFIFires \/ TickPanics \/ TickDone \/ NextPhase
FFThread(p) == Wakes(p) \/ TimesOut(p) \/ Locks(p) \/ Inserts(p) \/ Enters(p)
Program(p) == SyscallEnter(p) \/ SyscallExitFF(p) \/ Fini(p) \/ MagicOp(p) \/ FFIPoint(p) \/ FFToggle(p)

Next ==
    /\ UNCHANGED use
    /\ \/ \E p \in Procs : Steps(p) \/ FFThread(p) \/ Program(p) \/ PhaseEnds(p)
       \/ EndOfPhase \/ Process0Ends

Spec ==
    /\ Init /\ [][Next]_vars
    /\ \A p \in Procs : WF_moves(Steps(p)) /\ WF_moves(FFThread(p)) /\ WF_moves(PhaseEnds(p))
    /\ WF_moves(EndOfPhase) /\ WF_moves(Process0Ends)

-----------------------------------------------------------------------------
\* FFI points are for processes that switch by themselves only: the handlers assert that nobody
\* else moved them, and an interval whose process has ended would put it in fast-forward.
FFIAlone == use.ffi \cap (use.hooks \cup use.toggled \cup use.exits) = {}

\* The counters that pause the simulation, and that tell the harness whether it should
\* advance, are the numbers of the processes that fast-forward; no assertion of the end of a
\* phase and of the FFI handlers fails (with FFI points process 0 must not be ended by its
\* control thread: it goes on to its next point while it waits for the others).
FFCounted ==
    /\ FFIAlone /\ (terminationConditionMet => Proc0 \notin use.ffi) => ~failed
    /\ failed \/ LET inFF == {p \in Procs : inFastForward[p]} IN
        /\ globalFFProcs = Cardinality(inFF)
        /\ globalSyncedFFProcs = Cardinality(inFF \cap use.synced)
        /\ FFIAlone => terminationConditionMet \/ \A p \in inFF : ended[p] => p = Proc0

\* Every end of phase comes to its end: whoever executes it is never left waiting for a lock
\* or for a control thread.
EndOfPhaseEnds ==
    stage = "weave" ~> stage = "bound" \/ terminationConditionMet \/ panicked

\* The end of a phase waits, with qLock, for ffLock, whose holder waits for qLock to insert its
\* SyncEvent (or has ended with it): itself, for an FFI event, or the control thread it let go.
LocksCrossed ==
    /\ stage = "fire" \/ \E p \in Procs : fc[p] = "relock"
    /\ ffLock # None /\ fc[ffLock] = "insert"

\* It waits for the control thread of a process that has ended since the toggle.
Orphaned == stage = "event" /\ \E p \in Procs : fc[p] = "relock" /\ ended[p]

\* Nothing else than these two, which need a toggle, keeps an end of phase from coming to its end,
\* whatever is toggled, has FFI points, switches itself or ends meanwhile.
OnlyTogglesHang ==
    stage = "weave" ~> stage = "bound" \/ terminationConditionMet \/ panicked \/ LocksCrossed \/ Orphaned

\* A control thread that was toggled waits for a lock or for its event.
ToggleWaits == \E p \in use.toggled : fc[p] \in {"lock", "insert", "wait", "relock"}

\* Once the termination condition is met every process ends, process 0 as the last one, even
\* if the control thread of a process ends it in the middle of its end of phase; unless a
\* toggle keeps its control thread waiting, or toggles come again and again, or process 0 fails
\* the assertion of FFCounted.
Terminates ==
    <>terminationConditionMet => <>(\A p \in Procs : ended[p]) \/ []<>(ToggleWaits \/ failed)
=============================================================================
