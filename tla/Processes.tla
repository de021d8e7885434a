----------------------------- MODULE Processes -----------------------------
(***************************************************************************)
(* The processes of a simulation and the harness that launches them: their *)
(* nodes of the process tree (process_tree.h, process_tree.cpp), how they  *)
(* start, fork and end (zsim.cpp), and the harness's loop, its SIGCHLD     *)
(* handler and its deadlock detection (zsim_harness.cpp).                  *)
(*                                                                         *)
(* A process is known by its index.  Pids are not reused; a zombie is      *)
(* reaped by the handler or by the loop, whichever comes first.            *)
(***************************************************************************)
EXTENDS Integers, FiniteSets

CONSTANTS
    LineSize,   \* the processes there can be
    Uses,       \* the ways to use the simulator: records of
                \*   launched: the processes of the configuration, 0 .. launched - 1
                \*   restarts: how often each of these is started again
                \*   startFF: the processes that start in fast-forward
                \*   synced: the mode of their fast-forwards
                \*   forks, crashes, interrupts: what may happen
    MaxStall    \* bound: the checks without progress that mean a deadlock (120 s)

Idx == 0 .. LineSize - 1

VARIABLES
    use,
    pc,             \* where each process is
    code,           \* how it ended
    node,           \* its node of the process tree
    procExited,
    numProcs, globalActiveProcs, globalFFProcs, globalSyncedFFProcs,
    terminationConditionMet,
    gmReady,        \* process 0 has initialised the simulator
    hpc,            \* where the harness is
    status,         \* childInfo: its children's status
    attached, progress, stalled, termStatus

tree == <<node, procExited, numProcs>>
counts == <<globalActiveProcs, globalFFProcs, globalSyncedFFProcs>>
sim == <<tree, counts, terminationConditionMet, gmReady>>
harness == <<hpc, status, attached, stalled, termStatus>>
os == <<pc, code>>
moves == <<os, sim, harness, progress>>
processVars == <<use, moves>>

Init ==
    /\ use \in Uses
    /\ pc = [i \in Idx |-> "none"] /\ code = [i \in Idx |-> "ok"]
    /\ node = [i \in Idx |-> [started |-> FALSE, inFastForward |-> i \in use.startFF,
                              restartsLeft |-> IF i < use.launched THEN use.restarts[i] ELSE 0]]
    /\ procExited = [i \in Idx |-> "running"]
    /\ numProcs = use.launched
    /\ globalActiveProcs = 0 /\ globalFFProcs = 0 /\ globalSyncedFFProcs = 0
    /\ terminationConditionMet = FALSE /\ gmReady = FALSE
    /\ hpc = "launch" /\ status = [i \in Idx |-> "invalid"]
    /\ attached = FALSE /\ progress = FALSE /\ stalled = 0 /\ termStatus = "ok"

HarnessLives == hpc \notin {"done", "dead", "lost"}
At(i, where) == HarnessLives /\ pc[i] = where
Goes(i, where) == pc' = [pc EXCEPT ![i] = where]

-----------------------------------------------------------------------------
(* The process tree. *)

getSyncedFastForward == use.synced = "always" \/ (use.synced = "multiprocess" /\ numProcs > 1)
CountFF(n) ==
    /\ globalFFProcs' = globalFFProcs + n
    /\ globalSyncedFFProcs' = globalSyncedFFProcs + (IF getSyncedFastForward THEN n ELSE 0)
FFStays == UNCHANGED <<globalFFProcs, globalSyncedFFProcs>>

enterFastForward(i) ==
    /\ At(i, "run") /\ ~node[i].inFastForward
    /\ node' = [node EXCEPT ![i].inFastForward = TRUE] /\ CountFF(1)
    /\ UNCHANGED <<os, procExited, numProcs, globalActiveProcs, terminationConditionMet, gmReady, harness, progress>>

exitFastForward(i) ==
    /\ At(i, "run") /\ node[i].inFastForward
    /\ node' = [node EXCEPT ![i].inFastForward = FALSE] /\ CountFF(-1)
    /\ UNCHANGED <<os, procExited, numProcs, globalActiveProcs, terminationConditionMet, gmReady, harness, progress>>

\* Only a first start counts.  A process that comes after all others have ended panics.
notifyStart(i) ==
    IF node[i].started
    THEN Goes(i, "run") /\ UNCHANGED <<node, code, counts>>
    ELSE /\ node' = [node EXCEPT ![i].started = TRUE]
         /\ globalActiveProcs' = globalActiveProcs + 1
         /\ IF i # 0 /\ globalActiveProcs = 0
            THEN Goes(i, "zombie") /\ code' = [code EXCEPT ![i] = "panic"] /\ FFStays
            ELSE Goes(i, "run") /\ UNCHANGED code /\ IF node[i].inFastForward THEN CountFF(1) ELSE FFStays

\* Mutant: a process that is marked for restart is no longer counted.
notifyEndUncounted(i) ==
    LET restart == node[i].restartsLeft > 0 /\ ~terminationConditionMet IN
    /\ node' = [node EXCEPT ![i].inFastForward = FALSE, ![i].restartsLeft = IF restart THEN @ - 1 ELSE @]
    /\ IF node[i].inFastForward THEN CountFF(-1) ELSE FFStays
    /\ procExited' = [procExited EXCEPT ![i] = IF restart THEN "restartme" ELSE "exited"]
    /\ globalActiveProcs' = globalActiveProcs - 1

\* A process to be restarted stays active.
notifyEnd(i) ==
    LET restart == node[i].restartsLeft > 0 /\ ~terminationConditionMet IN
    /\ node' = [node EXCEPT ![i].inFastForward = FALSE, ![i].restartsLeft = IF restart THEN @ - 1 ELSE @]
    /\ IF node[i].inFastForward THEN CountFF(-1) ELSE FFStays
    /\ procExited' = [procExited EXCEPT ![i] = IF restart THEN "restartme" ELSE "exited"]
    /\ globalActiveProcs' = globalActiveProcs - (IF restart THEN 0 ELSE 1)

-----------------------------------------------------------------------------
(* A process: zsim's main, fork, and SimEnd. *)

\* Process 0 initialises the simulator; the others wait for that.
Boots(i) ==
    /\ At(i, "boot") /\ (i = 0 \/ gmReady)
    /\ gmReady' = TRUE
    /\ notifyStart(i)
    /\ UNCHANGED <<procExited, numProcs, terminationConditionMet, harness, progress>>

\* BeforeFork: getNextChild makes a node like that of the parent, or panics when there are too many.
Forks(i) ==
    /\ use.forks /\ At(i, "run")
    /\ numProcs' = numProcs + 1
    /\ \/ /\ numProcs < LineSize
          /\ node' = [node EXCEPT ![numProcs] = [node[i] EXCEPT !.started = FALSE]]
          /\ Goes(numProcs, "forked") /\ UNCHANGED code
       \/ /\ numProcs >= LineSize
          /\ Goes(i, "zombie") /\ code' = [code EXCEPT ![i] = "panic"] /\ UNCHANGED node
    /\ UNCHANGED <<procExited, counts, terminationConditionMet, gmReady, harness, progress>>

AfterForkInChild(i) ==
    /\ At(i, "forked") /\ notifyStart(i)
    /\ UNCHANGED <<procExited, numProcs, terminationConditionMet, gmReady, harness, progress>>

\* Process 0 stays, for the threads of the scheduler and of the weave phase.
SimEnd(i) ==
    /\ At(i, "run") /\ notifyEnd(i)
    /\ Goes(i, IF i = 0 THEN "wait" ELSE "zombie")
    /\ UNCHANGED <<code, numProcs, terminationConditionMet, gmReady, harness, progress>>

\* Mutant: process 0 does not wait for the others.
Process0Hurries ==
    /\ At(0, "wait") /\ Goes(0, "zombie")
    /\ UNCHANGED <<code, sim, harness, progress>>

Process0Ends ==
    /\ At(0, "wait") /\ globalActiveProcs = 0 /\ Goes(0, "zombie")
    /\ UNCHANGED <<code, sim, harness, progress>>

Crashes(i) ==
    /\ use.crashes /\ pc[i] \in {"boot", "run"} /\ HarnessLives
    /\ Goes(i, "zombie") /\ code' = [code EXCEPT ![i] = "crash"]
    /\ UNCHANGED <<sim, harness, progress>>

\* Processes that are not in fast-forward make phases pass, unless somebody stops them.
PhasePasses ==
    /\ ~progress /\ globalSyncedFFProcs = 0
    /\ \E i \in Idx : At(i, "run") /\ ~node[i].inFastForward
    /\ progress' = TRUE
    /\ UNCHANGED <<os, sim, harness>>

Terminates ==
    /\ gmReady /\ ~terminationConditionMet /\ HarnessLives
    /\ terminationConditionMet' = TRUE
    /\ UNCHANGED <<os, tree, counts, gmReady, harness, progress>>

-----------------------------------------------------------------------------
(* The harness. *)

Children == {i \in Idx : status[i] = "running"}

LaunchProcess(i) ==
    /\ pc' = [pc EXCEPT ![i] = "boot"] /\ code' = [code EXCEPT ![i] = "ok"]

\* The child that is launched next, or that was forked and is not in childInfo yet.
IsNext(i) == i < use.launched /\ status[i] = "invalid" /\ \A j \in 0 .. i - 1 : status[j] # "invalid"

Launches ==
    /\ hpc = "launch" /\ hpc' = "record"
    /\ \E i \in Idx : IsNext(i) /\ LaunchProcess(i)
    /\ UNCHANGED <<sim, status, attached, stalled, termStatus, progress>>

Records ==
    /\ hpc = "record"
    /\ \E i \in Idx :
        /\ IsNext(i) /\ status' = [status EXCEPT ![i] = "running"]
        /\ hpc' = IF i = use.launched - 1 THEN "loop" ELSE "launch"
    /\ UNCHANGED <<os, sim, attached, stalled, termStatus, progress>>

\* The loop, as long as there are children: attach when the simulator is there, and sleep.
Loops ==
    /\ hpc = "loop"
    /\ \/ Children = {} /\ hpc' = "done" /\ UNCHANGED attached
       \/ Children # {} /\ gmReady /\ hpc' = "check" /\ attached' = TRUE
    /\ UNCHANGED <<os, sim, status, stalled, termStatus, progress>>

\* Mutant: phases that have passed once are taken for progress for ever.
DetectsOnce ==
    LET simShouldAdvance == globalFFProcs < globalActiveProcs /\ globalSyncedFFProcs = 0 IN
    /\ hpc = "check" /\ hpc' = "reap"
    /\ stalled' = IF ~simShouldAdvance THEN stalled ELSE IF progress THEN 0 ELSE stalled + 1
    /\ UNCHANGED <<os, sim, status, attached, termStatus, progress>>

\* Awake: deadlock detection.
DetectsDeadlock ==
    LET simShouldAdvance == globalFFProcs < globalActiveProcs /\ globalSyncedFFProcs = 0 IN
    /\ hpc = "check" /\ hpc' = "reap"
    /\ stalled' = IF ~simShouldAdvance THEN stalled ELSE IF progress THEN 0 ELSE stalled + 1
    /\ progress' = IF simShouldAdvance \/ globalActiveProcs > 0 THEN FALSE ELSE progress
    /\ UNCHANGED <<os, sim, status, attached, termStatus>>

\* Everything dies with the harness (exitHandler).
DiesAs(end) == hpc' = end /\ pc' = [i \in Idx |-> IF pc[i] = "none" THEN "none" ELSE "gone"] /\ UNCHANGED code
Dies == DiesAs("dead")

\* The children that the loop reaps are not restarted, and nobody looks at their exit.
Reaps ==
    /\ hpc = "reap"
    /\ \/ \E i \in Children :
            /\ pc[i] = "zombie" /\ Goes(i, "gone") /\ status' = [status EXCEPT ![i] = "done"]
            /\ UNCHANGED <<hpc, code>>
       \/ /\ \A i \in Children : pc[i] # "zombie"
          /\ IF stalled > MaxStall THEN Dies ELSE hpc' = "loop" /\ UNCHANGED os
          /\ UNCHANGED status
    /\ UNCHANGED <<sim, attached, stalled, termStatus, progress>>

\* Reap a child: eraseChild panics for one that is not known to run, an exit without notifyEnd kills
\* the simulation, and a restart is due.
chldSigHandler(i) ==
    /\ HarnessLives /\ i < use.launched /\ pc[i] = "zombie"
    /\ \/ i \notin Children /\ DiesAs("lost") /\ UNCHANGED <<status, procExited>>
       \/ /\ i \in Children /\ (code[i] = "panic" \/ (attached /\ procExited[i] = "running"))
          /\ Dies /\ UNCHANGED <<status, procExited>>
       \/ /\ i \in Children /\ code[i] # "panic" /\ attached /\ procExited[i] = "restartme"
          /\ procExited' = [procExited EXCEPT ![i] = "running"]
          /\ LaunchProcess(i) /\ UNCHANGED <<status, hpc>>
       \/ /\ i \in Children /\ code[i] # "panic" /\ (~attached \/ procExited[i] = "exited")
          /\ Goes(i, "gone") /\ status' = [status EXCEPT ![i] = "done"]
          /\ UNCHANGED <<code, procExited, hpc>>
    /\ UNCHANGED <<node, numProcs, counts, terminationConditionMet, gmReady, attached, stalled, termStatus, progress>>

\* SIGINT kills the children, a second one and SIGTERM kill all at once.
sigHandler ==
    /\ use.interrupts /\ HarnessLives
    /\ \/ /\ termStatus = "ok" /\ termStatus' = "graceful"
          /\ LET killed == {i \in Children : pc[i] # "zombie"} IN
             /\ pc' = [i \in Idx |-> IF i \in killed THEN "zombie" ELSE pc[i]]
             /\ code' = [i \in Idx |-> IF i \in killed THEN "killed" ELSE code[i]]
          /\ UNCHANGED hpc
       \/ Dies /\ termStatus' = "kill"
    /\ UNCHANGED <<sim, status, attached, stalled, progress>>

Process(i) == Boots(i) \/ AfterForkInChild(i) \/ SimEnd(i)
Harness == Launches \/ Records \/ Loops \/ DetectsDeadlock \/ Reaps

Next ==
    /\ UNCHANGED use
    /\ \/ \E i \in Idx : \/ Process(i) \/ enterFastForward(i) \/ exitFastForward(i) \/ Forks(i) \/ Crashes(i)
                         \/ chldSigHandler(i)
       \/ Process0Ends \/ PhasePasses \/ Terminates \/ Harness \/ sigHandler

Spec ==
    /\ Init /\ [][Next]_processVars
    /\ \A i \in Idx : WF_moves(Process(i)) /\ WF_moves(chldSigHandler(i))
    /\ WF_moves(Process0Ends) /\ WF_moves(Harness)

-----------------------------------------------------------------------------
\* The active processes, which keep process 0 and thereby the simulation alive, are those that
\* started and have not said for good that they end.
ActiveExact ==
    globalActiveProcs = Cardinality({i \in Idx : node[i].started /\ procExited[i] # "exited"})

\* Process 0 ends as the last one: who still starts after that panics.  (It stays counted, so
\* that one more start is not noticed.)
Process0IsLast ==
    pc[0] \in {"zombie", "gone"} /\ code[0] = "ok" =>
        \/ \E i \in Idx : code[i] = "panic"
        \/ \A i \in Idx : pc[i] # "run"

\* What the harness knows of its children: childInfo has each of them, but for one that was just
\* forked; and eraseChild panics only because that one, not recorded yet, has ended.
Unrecorded(i) == IsNext(i) /\ hpc = "record"
ChildrenKnown ==
    /\ hpc \notin {"dead", "lost"} =>
        \A i \in Idx : status[i] = "running" \/ Unrecorded(i) <=> i < use.launched /\ pc[i] \in {"boot", "run", "wait", "zombie"}
    /\ hpc = "lost" => \E i \in Idx : IsNext(i) /\ pc[i] = "gone"

\* The number of the processes that fast-forward and stop the simulation for that.
SyncedCounted ==
    globalSyncedFFProcs = IF getSyncedFastForward THEN globalFFProcs ELSE 0

\* What always holds.  The count of the fast-forwards needs that their mode cannot change in one.
ProcessesSound ==
    /\ ActiveExact
    /\ Process0IsLast
    /\ ChildrenKnown
    /\ use.synced # "multiprocess" => SyncedCounted

\* The harness ends, if the programs do, and be it because it takes a lost restart for a deadlock;
\* unless a process ends without a word and no handler notices: the harness was not attached, or was
\* too late, or the process is another's child.
Unnoticed(i) == code[i] # "ok" /\ procExited[i] = "running" /\ (pc[i] = "gone" \/ (pc[i] = "zombie" /\ i >= use.launched))
HarnessEnds == <>(~HarnessLives \/ \E i \in Idx : Unnoticed(i))
=============================================================================
