------------------------- MODULE FastForwardProofs -------------------------
(***************************************************************************)
(* Proofs about fast-forwarding, for any processes and any uses of the     *)
(* simulator: the counters of the process tree are exact, and no assertion *)
(* of the end of a phase or of the FFI handlers fails.                     *)
(***************************************************************************)
EXTENDS FastForward, FiniteSetTheorems, SequenceTheorems, TLAPS

Event == {"sync", "ffi"} \X Procs \X Int

\* The values of the variables.
TypeInv ==
    /\ use \in Uses
    /\ inFastForward \in [Procs -> BOOLEAN]
    /\ globalFFProcs \in Int /\ globalSyncedFFProcs \in Int
    /\ ffLock \in Procs \cup {None}
    /\ evMap \in Seq(Event) /\ qLock \in BOOLEAN
    /\ stage \in {"bound", "paused", "weave", "tick", "fire", "event", "count"}
    /\ ender \in Procs \cup {None}
    /\ fc \in [Procs -> {"idle", "lock", "insert", "wait", "relock", "out"}]
    /\ toggle \in [Procs -> BOOLEAN]
    /\ app \in [Procs -> {"join", "sim", "synced", "resume", "ff", "track", "start", "out"}]
    /\ ran \in [Procs -> BOOLEAN]
    /\ terminationConditionMet \in BOOLEAN
    /\ perProcessEndFlag \in [Procs -> BOOLEAN] /\ ended \in [Procs -> BOOLEAN]
    /\ globalActiveProcs \in Int
    /\ panicked \in BOOLEAN /\ failed \in BOOLEAN

\* At the end of a phase no thread simulates, and the only control thread that its events let
\* go is the one it waits for; once the termination condition is met no thread simulates ever
\* again, so that no other phase ends.
Stopping ==
    /\ \A p \in Procs : fc[p] = "relock" => stage = "event"
    /\ \A p, q \in Procs : fc[p] = "relock" /\ fc[q] = "relock" => p = q
    /\ stage # "bound" => \A p \in Procs : app[p] \notin {"sim", "resume"}
    /\ terminationConditionMet =>
        /\ stage # "paused"
        /\ \A p \in Procs : app[p] # "sim" /\ (stage = "bound" => app[p] # "synced")

\* A control thread is at work only in a process that is toggled.
Asked == \A p \in Procs : toggle[p] \/ fc[p] \notin {"idle", "out"} => p \in use.toggled

InFF == {p \in Procs : inFastForward[p]}
Counted == globalFFProcs = Cardinality(InFF) /\ globalSyncedFFProcs = Cardinality(InFF \cap use.synced)

\* The processes that have an event for the end of their interval, and whether each has one only.
IntervalsOf(s) == {p \in Procs : \E i \in 1 .. Len(s) : s[i][1] = "ffi" /\ s[i][2] = p}
Once(s) ==
    \A i, j \in 1 .. Len(s) : s[i][1] = "ffi" /\ s[j][1] = "ffi" /\ s[i][2] = s[j][2] => i = j

\* A process has its event while it simulates, and comes to its FFI points in fast-forward only.
IntervalsOnce ==
    /\ Once(evMap)
    /\ \A p \in IntervalsOf(evMap) :
        /\ p \in use.ffi /\ ~inFastForward[p] /\ app[p] \notin {"track", "ff"}
        /\ terminationConditionMet \/ p = Proc0 \/ ~ended[p]
    /\ \A p \in Procs : app[p] = "track" => p \in use.ffi /\ ~inFastForward[p]
    /\ \A p \in use.ffi : app[p] = "ff" /\ ~ended[p] => inFastForward[p]
    /\ ~failed

\* Process 0 with FFI points is not ended by its control thread.
Undisturbed == FFIAlone /\ (terminationConditionMet => Proc0 \notin use.ffi)

\* Nobody ends in fast-forward.
EndedOut == FFIAlone => terminationConditionMet \/ \A p \in InFF : ended[p] => p = Proc0

-----------------------------------------------------------------------------
(* What the steps do to the events. *)

\* Taking an element out of a sequence.
LEMMA RemoveAtProperties ==
    ASSUME NEW S, NEW s \in Seq(S), NEW i \in 1 .. Len(s)
    PROVE  /\ RemoveAt(s, i) \in Seq(S)
           /\ Len(RemoveAt(s, i)) = Len(s) - 1
           /\ \A j \in 1 .. Len(s) - 1 : RemoveAt(s, i)[j] = IF j < i THEN s[j] ELSE s[j + 1]
<1> DEFINE a == SubSeq(s, 1, i - 1)
           b == SubSeq(s, i + 1, Len(s))
<1>0. Len(s) \in Nat /\ i \in Nat /\ i - 1 \in Int /\ i + 1 \in Int /\ Len(s) - i \in Nat
  OBVIOUS
<1>1. a \in Seq(S) /\ Len(a) = i - 1 /\ \A j \in 1 .. i - 1 : a[j] = s[j]
  BY <1>0
<1>2. b \in Seq(S) /\ Len(b) = Len(s) - i /\ \A j \in 1 .. Len(s) - i : b[j] = s[i + j]
  BY <1>0
<1>4. RemoveAt(s, i) = a \o b
  BY DEF RemoveAt
<1> HIDE DEF a, b
<1>3. a \o b \in Seq(S) /\ Len(a \o b) = Len(a) + Len(b)
      /\ \A j \in 1 .. Len(a) + Len(b) : (a \o b)[j] = IF j <= Len(a) THEN a[j] ELSE b[j - Len(a)]
  BY <1>1, <1>2, ConcatProperties
<1>5. Len(a \o b) = Len(s) - 1
  BY <1>0, <1>1, <1>2, <1>3
<1>6. ASSUME NEW j \in 1 .. Len(s) - 1 PROVE (a \o b)[j] = IF j < i THEN s[j] ELSE s[j + 1]
  <2>1. CASE j < i
    BY <2>1, <1>0, <1>1, <1>2, <1>3
  <2>2. CASE j >= i
    <3>1. (a \o b)[j] = b[j - (i - 1)]
      BY <2>2, <1>0, <1>1, <1>2, <1>3
    <3>2. j - (i - 1) \in 1 .. Len(s) - i /\ i + (j - (i - 1)) = j + 1
      BY <2>2, <1>0
    <3>3. b[j - (i - 1)] = s[i + (j - (i - 1))]
      BY <3>2, <1>2
    <3>4. (a \o b)[j] = s[j + 1]
      BY <3>1, <3>2, <3>3
    <3>5. ~(j < i)
      BY <2>2, <1>0
    <3>6. QED
      BY <3>4, <3>5
  <2>3. j < i \/ j >= i
    BY <1>0
  <2>4. QED
    BY <2>1, <2>2, <2>3
<1>7. QED
  BY <1>3, <1>4, <1>5, <1>6

\* Appending an element of S to a sequence over S.
LEMMA AppendTyped ==
    ASSUME NEW S, NEW s \in Seq(S), NEW e \in S
    PROVE  Append(s, e) \in Seq(S)
  OBVIOUS

\* The events are events still, after each of the ways to change them.
LEMMA EventsStay ==
    ASSUME evMap \in Seq(Event)
    PROVE  /\ \A e \in Event : Append(evMap, e) \in Seq(Event)
           /\ \A i \in 1 .. Len(evMap) : RemoveAt(evMap, i) \in Seq(Event)
           /\ [i \in 1 .. Len(evMap) |-> <<evMap[i][1], evMap[i][2], evMap[i][3] - 1>>] \in Seq(Event)
           /\ \A i \in 1 .. Len(evMap) : evMap[i] \in Event /\ evMap[i][2] \in Procs
<1>1. \A i \in 1 .. Len(evMap) : RemoveAt(evMap, i) \in Seq(Event)
  BY RemoveAtProperties
<1>2. \A i \in 1 .. Len(evMap) : <<evMap[i][1], evMap[i][2], evMap[i][3] - 1>> \in Event
  BY DEF Event
<1>3. QED
  BY <1>1, <1>2 DEF Event

\* An event taken away, and one that comes: whose intervals are left.
LEMMA IntervalLeaves ==
    ASSUME NEW s \in Seq(Event), Once(s), NEW i \in 1 .. Len(s)
    PROVE  /\ Once(RemoveAt(s, i))
           /\ IntervalsOf(RemoveAt(s, i)) = IntervalsOf(s) \ (IF s[i][1] = "ffi" THEN {s[i][2]} ELSE {})
<1> DEFINE r == RemoveAt(s, i)
<1>1. r \in Seq(Event) /\ Len(r) = Len(s) - 1 /\ Len(s) \in Nat
      /\ \A j \in 1 .. Len(s) - 1 : r[j] = IF j < i THEN s[j] ELSE s[j + 1]
  BY RemoveAtProperties
<1> HIDE DEF r
<1>2. \A j \in 1 .. Len(r) : \E k \in 1 .. Len(s) : k # i /\ r[j] = s[k] /\ k = IF j < i THEN j ELSE j + 1
  BY <1>1
<1>3. \A k \in 1 .. Len(s) : k # i => \E j \in 1 .. Len(r) : r[j] = s[k]
  <2> SUFFICES ASSUME NEW k \in 1 .. Len(s), k # i PROVE \E j \in 1 .. Len(r) : r[j] = s[k]
    OBVIOUS
  <2>1. CASE k < i
    <3>1. k \in 1 .. Len(r) /\ r[k] = s[k]
      BY <1>1, <2>1
    <3>2. QED
      BY <3>1
  <2>2. CASE k > i
    <3>1. k - 1 \in 1 .. Len(r) /\ r[k - 1] = s[(k - 1) + 1] /\ (k - 1) + 1 = k
      BY <1>1, <2>2
    <3>2. QED
      BY <3>1
  <2>3. QED
    BY <2>1, <2>2
<1>4. Once(r)
  <2> SUFFICES ASSUME NEW j \in 1 .. Len(r), NEW l \in 1 .. Len(r),
                      r[j][1] = "ffi", r[l][1] = "ffi", r[j][2] = r[l][2]
               PROVE  j = l
    BY DEF Once
  <2>1. PICK k \in 1 .. Len(s) : r[j] = s[k] /\ k = IF j < i THEN j ELSE j + 1
    BY <1>2
  <2>2. PICK m \in 1 .. Len(s) : r[l] = s[m] /\ m = IF l < i THEN l ELSE l + 1
    BY <1>2
  <2>3. k = m
    BY <2>1, <2>2 DEF Once
  <2>4. QED
    BY <1>1, <2>1, <2>2, <2>3
<1>5. IntervalsOf(r) \subseteq IntervalsOf(s) \ (IF s[i][1] = "ffi" THEN {s[i][2]} ELSE {})
  <2> SUFFICES ASSUME NEW p \in Procs, NEW j \in 1 .. Len(r), r[j][1] = "ffi", r[j][2] = p
               PROVE  p \in IntervalsOf(s) /\ (s[i][1] = "ffi" => p # s[i][2])
    BY DEF IntervalsOf
  <2>1. PICK k \in 1 .. Len(s) : k # i /\ r[j] = s[k]
    BY <1>2
  <2>2. QED
    BY <2>1 DEF IntervalsOf, Once
<1>6. IntervalsOf(s) \ (IF s[i][1] = "ffi" THEN {s[i][2]} ELSE {}) \subseteq IntervalsOf(r)
  <2> SUFFICES ASSUME NEW p \in Procs, NEW k \in 1 .. Len(s), s[k][1] = "ffi", s[k][2] = p,
                      s[i][1] = "ffi" => p # s[i][2]
               PROVE  p \in IntervalsOf(r)
    BY DEF IntervalsOf
  <2>1. PICK j \in 1 .. Len(r) : r[j] = s[k]
    BY <1>3
  <2>2. QED
    BY <2>1 DEF IntervalsOf
<1>7. QED
  BY <1>4, <1>5, <1>6 DEF r

\* Appending an event: synchronisation events do not matter, an FFI event is the first of its process.
LEMMA IntervalComes ==
    ASSUME NEW s \in Seq(Event), Once(s), NEW p \in Procs, NEW n \in Int
    PROVE  /\ Once(Append(s, <<"sync", p, n>>))
           /\ IntervalsOf(Append(s, <<"sync", p, n>>)) = IntervalsOf(s)
           /\ p \notin IntervalsOf(s) => Once(Append(s, <<"ffi", p, n>>))
           /\ IntervalsOf(Append(s, <<"ffi", p, n>>)) = IntervalsOf(s) \cup {p}
<1>1. ASSUME NEW k \in {"sync", "ffi"}
      PROVE  /\ Len(Append(s, <<k, p, n>>)) = Len(s) + 1 /\ Len(s) \in Nat
             /\ \A i \in 1 .. Len(s) : Append(s, <<k, p, n>>)[i] = s[i]
             /\ Append(s, <<k, p, n>>)[Len(s) + 1][1] = k
             /\ Append(s, <<k, p, n>>)[Len(s) + 1][2] = p
  OBVIOUS
<1> DEFINE a == Append(s, <<"sync", p, n>>)
           b == Append(s, <<"ffi", p, n>>)
<1>2. /\ Len(a) = Len(s) + 1 /\ Len(s) \in Nat /\ a[Len(s) + 1][1] = "sync"
      /\ \A i \in 1 .. Len(s) : a[i] = s[i]
  BY <1>1
<1>3. /\ Len(b) = Len(s) + 1 /\ b[Len(s) + 1][1] = "ffi" /\ b[Len(s) + 1][2] = p
      /\ \A i \in 1 .. Len(s) : b[i] = s[i]
  BY <1>1
<1> HIDE DEF a, b
<1>4. \A i \in 1 .. Len(s) + 1 : i \in 1 .. Len(s) \/ i = Len(s) + 1
  BY <1>2
<1>5. Once(a) /\ IntervalsOf(a) = IntervalsOf(s)
  BY <1>2, <1>4 DEF Once, IntervalsOf
<1>6. p \notin IntervalsOf(s) => Once(b)
  BY <1>2, <1>3, <1>4 DEF Once, IntervalsOf
<1>7. IntervalsOf(b) = IntervalsOf(s) \cup {p}
  BY <1>2, <1>3, <1>4 DEF IntervalsOf
<1>8. QED
  BY <1>5, <1>6, <1>7 DEF a, b

\* The next phase: every event is one phase closer.
LEMMA IntervalsCloser ==
    ASSUME NEW s \in Seq(Event), NEW t, t = [i \in 1 .. Len(s) |-> <<s[i][1], s[i][2], s[i][3] - 1>>]
    PROVE  (Once(t) <=> Once(s)) /\ IntervalsOf(t) = IntervalsOf(s)
<1>1. Len(t) = Len(s) /\ \A i \in 1 .. Len(s) : t[i][1] = s[i][1] /\ t[i][2] = s[i][2]
  OBVIOUS
<1>2. QED
  BY <1>1 DEF Once, IntervalsOf

-----------------------------------------------------------------------------
\* The variables keep to their values.
LEMMA TypeInit == Init => TypeInv
<1> SUFFICES ASSUME Init PROVE TypeInv
  OBVIOUS
<1>1. use.startFF \subseteq Procs /\ use.ffi \subseteq Procs
  BY UsesAssumption DEF Init
<1>2. globalFFProcs \in Int /\ globalSyncedFFProcs \in Int /\ globalActiveProcs \in Int
  BY <1>1, ProcsAssumption, FS_Subset, FS_CardinalityType, FS_Intersection DEF Init
<1>3. evMap \in Seq(Event)
  BY DEF Init
<1>4. app \in [Procs -> {"join", "sim", "synced", "resume", "ff", "track", "start", "out"}]
  BY DEF Init
<1>5. inFastForward \in [Procs -> BOOLEAN] /\ ender \in Procs \cup {None}
      /\ fc \in [Procs -> {"idle", "lock", "insert", "wait", "relock", "out"}]
      /\ toggle \in [Procs -> BOOLEAN] /\ ran \in [Procs -> BOOLEAN]
      /\ perProcessEndFlag \in [Procs -> BOOLEAN] /\ ended \in [Procs -> BOOLEAN]
  BY DEF Init
<1>6. QED
  BY <1>2, <1>3, <1>4, <1>5 DEF Init, TypeInv

\* What the switches of a process change.
LEMMA SwitchTyped ==
    ASSUME TypeInv, NEW p \in Procs, enterFastForward(p) \/ exitFastForward(p)
    PROVE  /\ inFastForward' \in [Procs -> BOOLEAN]
           /\ globalFFProcs' \in Int /\ globalSyncedFFProcs' \in Int
<1> USE DEF TypeInv
<1>1. CASE enterFastForward(p)
  BY <1>1 DEF enterFastForward
<1>2. CASE exitFastForward(p)
  BY <1>2 DEF exitFastForward
<1>3. QED
  BY <1>1, <1>2

\* What the end of a process changes.
LEMMA EndTyped ==
    ASSUME TypeInv, NEW p \in Procs,
           IF perProcessEndFlag[p] THEN UNCHANGED <<ending, ff>> ELSE notifyEnd(p)
    PROVE  /\ inFastForward' \in [Procs -> BOOLEAN]
           /\ globalFFProcs' \in Int /\ globalSyncedFFProcs' \in Int
           /\ perProcessEndFlag' \in [Procs -> BOOLEAN] /\ ended' \in [Procs -> BOOLEAN]
           /\ globalActiveProcs' \in Int
<1>1. /\ inFastForward' \in [Procs -> BOOLEAN]
      /\ globalFFProcs' \in Int /\ globalSyncedFFProcs' \in Int
  BY SwitchTyped DEF TypeInv, notifyEnd, ff
<1>2. CASE UNCHANGED <<ending, ff>>
  BY <1>1, <1>2 DEF TypeInv, ending
<1>3. CASE notifyEnd(p)
  <2>1. ended' \in [Procs -> BOOLEAN]
    BY <1>3 DEF TypeInv, notifyEnd
  <2>2. perProcessEndFlag' \in [Procs -> BOOLEAN] /\ globalActiveProcs' \in Int
    BY <1>3 DEF TypeInv, notifyEnd
  <2>3. QED
    BY <1>1, <2>1, <2>2
<1>4. QED
  BY <1>2, <1>3

\* Every step keeps the values of the variables in their sets.
LEMMA TypeStep == TypeInv /\ [Next]_vars => TypeInv'
<1> SUFFICES ASSUME TypeInv, [Next]_vars PROVE TypeInv'
  OBVIOUS
<1>e. /\ \A e \in Event : Append(evMap, e) \in Seq(Event)
      /\ \A i \in 1 .. Len(evMap) : RemoveAt(evMap, i) \in Seq(Event)
      /\ [i \in 1 .. Len(evMap) |-> <<evMap[i][1], evMap[i][2], evMap[i][3] - 1>>] \in Seq(Event)
      /\ \A i \in 1 .. Len(evMap) : evMap[i] \in Event /\ evMap[i][2] \in Procs
  BY EventsStay DEF TypeInv
<1> USE DEF TypeInv, ff, queue, ending, phase, control, program, termination, stops, moves, vars
<1>1. CASE Next
  <2>0. use' = use
    BY <1>1 DEF Next
  <2>1. ASSUME NEW p \in Procs, Steps(p) PROVE TypeInv'
    <3>1. CASE Join(p)
      BY <2>0, <3>1, EndTyped DEF Join, SimEnd
    <3>2. CASE SyscallExit(p)
      BY <2>0, <3>2, EndTyped DEF SyscallExit, SimEnd
    <3>3. CASE TakeBarrier(p)
      BY <2>0, <3>3, EndTyped DEF TakeBarrier, SimEnd
    <3>4. CASE Sync(p)
      BY <2>0, <3>4 DEF Sync
    <3>5. CASE FFBasicBlock(p) \/ Start(p)
      BY <2>0, <3>5 DEF FFBasicBlock, Start
    <3>6. CASE Track(p)
      <4>1. <<"ffi", p, 1>> \in Event
        BY DEF Event
      <4>2. QED
        BY <2>0, <3>6, <4>1, <1>e DEF Track
    <3>7. QED
      BY <2>1, <3>1, <3>2, <3>3, <3>4, <3>5, <3>6 DEF Steps
  <2>2. ASSUME NEW p \in Procs, FFThread(p) PROVE TypeInv'
    <3>1. CASE Wakes(p)
      BY <2>0, <3>1 DEF Wakes
    <3>2. CASE TimesOut(p)
      BY <2>0, <3>2, EndTyped DEF TimesOut
    <3>3. CASE Locks(p)
      BY <2>0, <3>3, SwitchTyped DEF Locks
    <3>4. CASE Enters(p)
      BY <2>0, <3>4, SwitchTyped DEF Enters
    <3>5. CASE Inserts(p)
      <4>1. <<"sync", p, 0>> \in Event
        BY DEF Event
      <4>2. QED
        BY <2>0, <3>5, <4>1, <1>e DEF Inserts
    <3>6. QED
      BY <2>2, <3>1, <3>2, <3>3, <3>4, <3>5 DEF FFThread
  <2>3. ASSUME NEW p \in Procs, Program(p) PROVE TypeInv'
    <3>1. CASE SyscallEnter(p)
      BY <2>0, <3>1 DEF SyscallEnter
    <3>5. CASE FFToggle(p)
      BY <2>0, <3>5 DEF FFToggle
    <3>2. CASE Fini(p) \/ SyscallExitFF(p)
      BY <2>0, <3>2, EndTyped DEF Fini, SyscallExitFF, SimEnd
    <3>3. CASE MagicOp(p)
      BY <2>0, <3>3, SwitchTyped DEF MagicOp
    <3>4. CASE FFIPoint(p)
      <4>1. CASE SimEnd(p) /\ UNCHANGED <<ran, failed>>
        BY <2>0, <3>4, <4>1, EndTyped DEF FFIPoint, SimEnd
      <4>2. CASE ~(SimEnd(p) /\ UNCHANGED <<ran, failed>>)
        BY <2>0, <3>4, <4>2, SwitchTyped DEF FFIPoint
      <4>3. QED
        BY <4>1, <4>2
    <3>6. QED
      BY <2>3, <3>1, <3>2, <3>3, <3>4, <3>5 DEF Program
  <2>4. ASSUME NEW p \in Procs, PhaseEnds(p) PROVE TypeInv'
    BY <2>0, <2>4 DEF PhaseEnds
  <2>5. CASE TickSync
    BY <2>0, <2>5, <1>e DEF TickSync
  <2>6. CASE TickFFI
    <3>1. PICK i \in 1 .. Len(evMap) :
            \/ \E n \in Intervals : evMap' = Append(RemoveAt(evMap, i), <<"ffi", evMap[i][2], n>>)
            \/ UNCHANGED evMap
      BY <2>6 DEF TickFFI
    <3>2. \A n \in Intervals : <<"ffi", evMap[i][2], n>> \in Event
      BY <1>e, IntervalsAssumption DEF Event
    <3>3. evMap' \in Seq(Event)
      <4> DEFINE r == RemoveAt(evMap, i)
      <4>1. r \in Seq(Event)
        BY <1>e
      <4>2. evMap' = evMap \/ \E n \in Intervals : evMap' = Append(r, <<"ffi", evMap[i][2], n>>)
        BY <3>1
      <4> HIDE DEF r
      <4>3. QED
        BY <3>2, <4>1, <4>2, AppendTyped
    <3>4. QED
      BY <2>0, <2>6, <3>3 DEF TickFFI
  <2>11. CASE FFIFires
    <3>1. PICK i \in 1 .. Len(evMap) :
            /\ failed' = inFastForward[evMap[i][2]]
            /\ enterFastForward(evMap[i][2])
            /\ evMap' = RemoveAt(evMap, i)
      BY <2>11 DEF FFIFires
    <3>2. /\ inFastForward' \in [Procs -> BOOLEAN] /\ failed' \in BOOLEAN
          /\ globalFFProcs' \in Int /\ globalSyncedFFProcs' \in Int
      BY <3>1, <1>e, SwitchTyped
    <3>3. QED
      BY <2>0, <2>11, <3>1, <3>2, <1>e DEF FFIFires
  <2>7. CASE CheckForTermination \/ Tick \/ TickPanics \/ TickDone
    BY <2>0, <2>7 DEF CheckForTermination, Tick, TickPanics, TickDone
  <2>8. CASE NextPhase
    BY <2>0, <2>8, <1>e DEF NextPhase
  <2>9. CASE Process0Ends
    BY <2>0, <2>9 DEF Process0Ends
  <2>10. QED
    BY <1>1, <2>1, <2>2, <2>3, <2>4, <2>5, <2>6, <2>7, <2>8, <2>9, <2>11 DEF Next, EndOfPhase
<1>2. CASE UNCHANGED vars
  BY <1>2
<1>3. QED
  BY <1>1, <1>2

-----------------------------------------------------------------------------
\* After the termination condition is met no thread joins a phase, and those of the last one
\* are let go once.
LEMMA StoppingStep == TypeInv /\ Stopping /\ [Next]_vars => Stopping'
<1> SUFFICES ASSUME TypeInv, Stopping, [Next]_vars PROVE Stopping'
  OBVIOUS
<1>t. /\ app \in [Procs -> {"join", "sim", "synced", "resume", "ff", "track", "start", "out"}]
      /\ fc \in [Procs -> {"idle", "lock", "insert", "wait", "relock", "out"}]
      /\ terminationConditionMet \in BOOLEAN
      /\ stage \in {"bound", "paused", "weave", "tick", "fire", "event", "count"}
  BY DEF TypeInv
<1> USE DEF Stopping, control, program, phase, termination
<1>1. CASE Next
  <2>1. ASSUME NEW p \in Procs, Steps(p) PROVE Stopping'
    BY <1>t, <2>1 DEF Steps, Join, SyscallExit, Sync, TakeBarrier, FFBasicBlock, Track, Start, SimEnd
  <2>2. ASSUME NEW p \in Procs, FFThread(p) PROVE Stopping'
    BY <1>t, <2>2 DEF FFThread, Wakes, TimesOut, Locks, Inserts, Enters
  <2>3. ASSUME NEW p \in Procs, Program(p) PROVE Stopping'
    BY <1>t, <2>3 DEF Program, SyscallEnter, SyscallExitFF, Fini, MagicOp, FFIPoint, FFToggle, SimEnd
  <2>4. ASSUME NEW p \in Procs, PhaseEnds(p) PROVE Stopping'
    BY <1>t, <2>4 DEF PhaseEnds
  <2>5. CASE CheckForTermination
    BY <1>t, <2>5 DEF CheckForTermination
  <2>6. CASE Tick \/ TickFFI \/ FFIFires \/ TickPanics \/ TickDone
    BY <1>t, <2>6 DEF Tick, TickFFI, FFIFires, TickPanics, TickDone
  <2>10. CASE TickSync
    <3>1. PICK p \in Procs : fc' = [fc EXCEPT ![p] = IF fc[p] = "wait" THEN "relock" ELSE fc[p]]
      BY <2>10, EventsStay DEF TickSync, TypeInv
    <3>2. QED
      BY <1>t, <2>10, <3>1 DEF TickSync
  <2>7. CASE NextPhase
    BY <1>t, <2>7 DEF NextPhase
  <2>8. CASE Process0Ends
    BY <1>t, <2>8 DEF Process0Ends
  <2>9. QED
    BY <1>1, <2>1, <2>2, <2>3, <2>4, <2>5, <2>6, <2>7, <2>8, <2>10 DEF Next, EndOfPhase
<1>2. CASE UNCHANGED vars
  BY <1>2 DEF vars, moves
<1>3. QED
  BY <1>1, <1>2

\* A control thread starts to work when it is asked to.
LEMMA AskedStep == TypeInv /\ Asked /\ [Next]_vars => Asked'
<1> SUFFICES ASSUME TypeInv, Asked, [Next]_vars PROVE Asked'
  OBVIOUS
<1>t. /\ fc \in [Procs -> {"idle", "lock", "insert", "wait", "relock", "out"}]
      /\ toggle \in [Procs -> BOOLEAN]
  BY DEF TypeInv
<1> USE DEF Asked, control
<1>1. CASE Next
  <2>0. use' = use
    BY <1>1 DEF Next
  <2>1. ASSUME NEW p \in Procs, Steps(p) PROVE Asked'
    BY <1>t, <2>0, <2>1 DEF Steps, Join, SyscallExit, Sync, TakeBarrier, FFBasicBlock, Track, Start
  <2>2. ASSUME NEW p \in Procs, FFThread(p) PROVE Asked'
    BY <1>t, <2>0, <2>2 DEF FFThread, Wakes, TimesOut, Locks, Inserts, Enters
  <2>3. ASSUME NEW p \in Procs, Program(p) PROVE Asked'
    BY <1>t, <2>0, <2>3 DEF Program, SyscallEnter, SyscallExitFF, Fini, MagicOp, FFIPoint, FFToggle
  <2>4. ASSUME NEW p \in Procs, PhaseEnds(p) PROVE Asked'
    BY <1>t, <2>0, <2>4 DEF PhaseEnds
  <2>5. CASE TickSync
    <3>1. PICK p \in Procs : fc' = [fc EXCEPT ![p] = IF fc[p] = "wait" THEN "relock" ELSE fc[p]]
      BY <2>5, EventsStay DEF TickSync, TypeInv
    <3>2. QED
      BY <1>t, <2>0, <2>5, <3>1 DEF TickSync
  <2>6. CASE EndOfPhase /\ ~TickSync
    BY <1>t, <2>0, <2>6 DEF EndOfPhase, CheckForTermination, Tick, TickFFI, FFIFires, TickPanics, TickDone, NextPhase
  <2>7. CASE Process0Ends
    BY <1>t, <2>0, <2>7 DEF Process0Ends
  <2>8. QED
    BY <1>1, <2>1, <2>2, <2>3, <2>4, <2>5, <2>6, <2>7 DEF Next
<1>2. CASE UNCHANGED vars
  BY <1>2 DEF vars, moves
<1>3. QED
  BY <1>1, <1>2

-----------------------------------------------------------------------------
\* Entering counts a process that was not counted, leaving one that was.
LEMMA EnterCounts ==
    ASSUME TypeInv, Counted, NEW p \in Procs, ~inFastForward[p], enterFastForward(p), use' = use
    PROVE  Counted' /\ InFF' = InFF \cup {p}
<1>1. InFF' = InFF \cup {p}
  BY DEF TypeInv, InFF, enterFastForward
<1>2. p \notin InFF /\ IsFiniteSet(InFF)
  BY ProcsAssumption, FS_Subset DEF InFF
<1>3. Cardinality(InFF \cup {p}) = Cardinality(InFF) + 1
  BY <1>2, FS_AddElement
<1>4. IsFiniteSet(InFF \cap use.synced)
  BY <1>2, FS_Intersection
<1>5. CASE p \in use.synced
  <2>1. (InFF \cup {p}) \cap use.synced = (InFF \cap use.synced) \cup {p}
    BY <1>5
  <2>2. Cardinality((InFF \cap use.synced) \cup {p}) = Cardinality(InFF \cap use.synced) + 1
    BY <1>2, <1>4, FS_AddElement
  <2>3. QED
    BY <1>1, <1>3, <1>5, <2>1, <2>2 DEF Counted, enterFastForward
<1>6. CASE p \notin use.synced
  <2>1. (InFF \cup {p}) \cap use.synced = InFF \cap use.synced
    BY <1>6
  <2>2. globalSyncedFFProcs' = globalSyncedFFProcs
    BY <1>6 DEF enterFastForward, TypeInv
  <2>3. QED
    BY <1>1, <1>3, <2>1, <2>2 DEF Counted, enterFastForward
<1>7. QED
  BY <1>5, <1>6

\* A process that leaves fast-forward leaves the counters exact.
LEMMA ExitCounts ==
    ASSUME TypeInv, Counted, NEW p \in Procs, inFastForward[p], exitFastForward(p), use' = use
    PROVE  Counted' /\ InFF' = InFF \ {p}
<1>1. InFF' = InFF \ {p}
  BY DEF TypeInv, InFF, exitFastForward
<1>2. p \in InFF /\ IsFiniteSet(InFF)
  BY ProcsAssumption, FS_Subset DEF InFF
<1>3. Cardinality(InFF \ {p}) = Cardinality(InFF) - 1
  BY <1>2, FS_RemoveElement
<1>4. IsFiniteSet(InFF \cap use.synced)
  BY <1>2, FS_Intersection
<1>5. CASE p \in use.synced
  <2>1. (InFF \ {p}) \cap use.synced = (InFF \cap use.synced) \ {p}
    BY <1>5
  <2>2. Cardinality((InFF \cap use.synced) \ {p}) = Cardinality(InFF \cap use.synced) - 1
    BY <1>2, <1>4, <1>5, FS_RemoveElement
  <2>3. QED
    BY <1>1, <1>3, <1>5, <2>1, <2>2 DEF Counted, exitFastForward
<1>6. CASE p \notin use.synced
  <2>1. (InFF \ {p}) \cap use.synced = InFF \cap use.synced
    BY <1>6
  <2>2. globalSyncedFFProcs' = globalSyncedFFProcs
    BY <1>6 DEF exitFastForward, TypeInv
  <2>3. QED
    BY <1>1, <1>3, <2>1, <2>2 DEF Counted, exitFastForward
<1>7. QED
  BY <1>5, <1>6

\* A process that ends leaves fast-forward.
LEMMA EndCounts ==
    ASSUME TypeInv, Counted, NEW p \in Procs, use' = use,
           IF perProcessEndFlag[p] THEN UNCHANGED <<ending, ff>> ELSE notifyEnd(p)
    PROVE  /\ Counted' /\ InFF' \subseteq InFF
           /\ \A q \in Procs : ended'[q] /\ ~ended[q] => q = p /\ p # Proc0 /\ p \notin InFF'
<1>1. CASE UNCHANGED <<ending, ff>>
  BY <1>1 DEF ending, ff, Counted, InFF
<1>2. CASE notifyEnd(p) /\ inFastForward[p]
  <2>1. Counted' /\ InFF' = InFF \ {p}
    BY <1>2, ExitCounts DEF notifyEnd
  <2>2. QED
    BY <1>2, <2>1 DEF notifyEnd, TypeInv
<1>3. CASE notifyEnd(p) /\ ~inFastForward[p]
  <2>1. Counted' /\ InFF' = InFF /\ p \notin InFF
    BY <1>3 DEF notifyEnd, ff, Counted, InFF
  <2>2. QED
    BY <1>3, <2>1 DEF notifyEnd, TypeInv
<1>4. QED
  BY <1>1, <1>2, <1>3

\* No step follows a failed assertion.
LEMMA NextRuns == Next => ~failed
  BY DEF Next, Steps, FFThread, Program, EndOfPhase, Running, Ender, Join, SyscallExit, Sync, TakeBarrier, FFBasicBlock,
         Track, Start, Wakes, TimesOut, Locks, Inserts, Enters, SyscallEnter, SyscallExitFF, Fini, MagicOp, FFIPoint, FFToggle, PhaseEnds,
         CheckForTermination, Tick, TickSync, TickFFI, FFIFires, TickPanics, TickDone, NextPhase, Process0Ends

\* The counters stay exact, unless an assertion fails.
LEMMA CountedStep == TypeInv /\ (failed \/ Counted) /\ [Next]_vars => (failed \/ Counted)'
<1> SUFFICES ASSUME TypeInv, failed \/ Counted, [Next]_vars PROVE failed' \/ Counted'
  OBVIOUS
<1>1. CASE Next
  <2>0. use' = use /\ Counted /\ ~failed
    BY <1>1, NextRuns DEF Next
  <2>u. UNCHANGED ff => Counted'
    BY <2>0 DEF ff, Counted, InFF
  <2>1. ASSUME NEW p \in Procs, Steps(p) PROVE Counted'
    BY <2>0, <2>u, <2>1, EndCounts DEF Steps, Join, SyscallExit, Sync, TakeBarrier, FFBasicBlock, Track, Start, SimEnd
  <2>2. ASSUME NEW p \in Procs, FFThread(p) PROVE Counted'
    BY <2>0, <2>u, <2>2, EndCounts, EnterCounts, ExitCounts DEF FFThread, Wakes, TimesOut, Locks, Inserts, Enters
  <2>3. ASSUME NEW p \in Procs, Program(p) PROVE failed' \/ Counted'
    <3>1. CASE FFIPoint(p)
      BY <2>0, <2>u, <3>1, EndCounts, ExitCounts DEF FFIPoint, SimEnd
    <3>2. CASE MagicOp(p)
      BY <2>0, <2>u, <3>2, EnterCounts, ExitCounts DEF MagicOp
    <3>3. QED
      BY <2>0, <2>u, <2>3, <3>1, <3>2, EndCounts DEF Program, SyscallEnter, SyscallExitFF, Fini, FFToggle, SimEnd
  <2>4. ASSUME NEW p \in Procs, PhaseEnds(p) PROVE Counted'
    BY <2>u, <2>4 DEF PhaseEnds
  <2>5. CASE FFIFires
    <3>1. PICK p \in Procs : failed' = inFastForward[p] /\ enterFastForward(p)
      BY <2>5, EventsStay DEF FFIFires, TypeInv
    <3>2. QED
      BY <2>0, <3>1, EnterCounts
  <2>6. CASE EndOfPhase /\ ~FFIFires
    BY <2>u, <2>6 DEF EndOfPhase, CheckForTermination, Tick, TickSync, TickFFI, TickPanics, TickDone, NextPhase
  <2>7. CASE Process0Ends
    BY <2>u, <2>7 DEF Process0Ends
  <2>8. QED
    BY <1>1, <2>1, <2>2, <2>3, <2>4, <2>5, <2>6, <2>7 DEF Next
<1>2. CASE UNCHANGED vars
  BY <1>2 DEF vars, moves, ff, stops, Counted, InFF
<1>3. QED
  BY <1>1, <1>2

-----------------------------------------------------------------------------
\* What the end of process p does to the intervals: it has none by then, or the simulation ends.
LEMMA EndOnce ==
    ASSUME TypeInv, IntervalsOnce, NEW p \in Procs, use' = use, evMap' = evMap, failed' = failed,
           terminationConditionMet' = terminationConditionMet,
           IF perProcessEndFlag[p] THEN UNCHANGED <<ending, ff>> ELSE notifyEnd(p),
           app' = [app EXCEPT ![p] = "out"] \/ (app' = app /\ (p \in use.ffi => p # Proc0)),
           p \in IntervalsOf(evMap) => terminationConditionMet
    PROVE  IntervalsOnce'
<1>1. \A q \in Procs : /\ inFastForward'[q] => inFastForward[q]
                       /\ q # p => inFastForward'[q] = inFastForward[q] /\ ended'[q] = ended[q] /\ app'[q] = app[q]
                       /\ app'[q] \in {app[q], "out"}
  BY DEF TypeInv, notifyEnd, exitFastForward, ff, ending
<1>2. \/ app'[p] = "out" \/ p \notin use.ffi \/ ended'[p]
      \/ inFastForward'[p] = inFastForward[p] /\ ended'[p] = ended[p]
  <2>1. notifyEnd(p) => (ended'[p] <=> p # Proc0)
    BY DEF TypeInv, notifyEnd
  <2>2. app' = [app EXCEPT ![p] = "out"] => app'[p] = "out"
    BY DEF TypeInv
  <2>3. UNCHANGED <<ending, ff>> => inFastForward'[p] = inFastForward[p] /\ ended'[p] = ended[p]
    BY DEF ending, ff
  <2>4. CASE UNCHANGED <<ending, ff>>
    BY <2>3, <2>4
  <2>5. CASE notifyEnd(p)
    <3>1. app' = [app EXCEPT ![p] = "out"] \/ (p \in use.ffi => p # Proc0)
      OBVIOUS
    <3>2. QED
      BY <2>1, <2>2, <2>5, <3>1
  <2>6. QED
    BY <2>4, <2>5
<1>3. IntervalsOf(evMap)' = IntervalsOf(evMap) /\ Once(evMap)'
  BY DEF IntervalsOnce, IntervalsOf, Once
<1>4. use.ffi \subseteq Procs
  BY UsesAssumption DEF TypeInv
<1>5. QED
  BY <1>1, <1>2, <1>3, <1>4 DEF IntervalsOnce, IntervalsOf

\* The steps of a process keep the intervals: it comes to an FFI point without an event, and then
\* has one.
LEMMA StepsOnce ==
    ASSUME TypeInv, IntervalsOnce, NEW p \in Procs, Steps(p), use' = use,
           terminationConditionMet => Proc0 \notin use.ffi
    PROVE  IntervalsOnce'
<1>t. app \in [Procs -> {"join", "sim", "synced", "resume", "ff", "track", "start", "out"}] /\ use.ffi \subseteq Procs
  BY UsesAssumption DEF TypeInv
<1>u. UNCHANGED evMap => IntervalsOf(evMap)' = IntervalsOf(evMap) /\ (Once(evMap)' <=> Once(evMap))
  BY DEF IntervalsOf, Once
<1> USE DEF queue, phase, control, program, termination, stops
<1>1. CASE SimEnd(p) /\ terminationConditionMet /\ UNCHANGED <<evMap, failed, terminationConditionMet>>
  BY <1>1, EndOnce DEF SimEnd
<1>2. CASE Track(p)
  <2>1. p \notin IntervalsOf(evMap) /\ p \in use.ffi /\ ~inFastForward[p] /\ (p = Proc0 \/ ~ended[p])
    BY <1>2 DEF IntervalsOnce, Track, Running
  <2>2. Once(evMap') /\ IntervalsOf(evMap') = IntervalsOf(evMap) \cup {p}
    <3>1. evMap \in Seq(Event) /\ Once(evMap) /\ evMap' = Append(evMap, <<"ffi", p, 1>>) /\ 1 \in Int
      BY <1>2 DEF Track, TypeInv, IntervalsOnce
    <3>2. /\ p \notin IntervalsOf(evMap) => Once(Append(evMap, <<"ffi", p, 1>>))
          /\ IntervalsOf(Append(evMap, <<"ffi", p, 1>>)) = IntervalsOf(evMap) \cup {p}
      BY <3>1, IntervalComes
    <3>3. QED
      BY <2>1, <3>1, <3>2
  <2>3. Once(evMap)' /\ IntervalsOf(evMap)' = IntervalsOf(evMap) \cup {p}
    BY <2>2 DEF Once, IntervalsOf
  <2>4. QED
    BY <1>t, <1>2, <2>1, <2>3 DEF Track, IntervalsOnce, ff, ending
<1>3. CASE ~Track(p) /\ ~(SimEnd(p) /\ terminationConditionMet /\ UNCHANGED <<evMap, failed, terminationConditionMet>>)
  <2>1. UNCHANGED <<ff, ended, evMap, failed, terminationConditionMet>>
    BY <1>3 DEF Steps, Join, SyscallExit, Sync, TakeBarrier, FFBasicBlock, Start, ending
  <2>2. \E l \in {"join", "sim", "synced", "ff"} : app' = [app EXCEPT ![p] = l] /\ (l = "ff" => inFastForward[p])
    BY <1>3 DEF Steps, Join, SyscallExit, Sync, TakeBarrier, FFBasicBlock, Start
  <2>3. QED
    BY <1>t, <1>u, <2>1, <2>2 DEF IntervalsOnce, IntervalsOf, ff
<1>4. QED
  BY <1>1, <1>2, <1>3

\* So do the control threads, which leave a process with FFI points alone ...
LEMMA ControlOnce ==
    ASSUME TypeInv, Asked, IntervalsOnce, NEW p \in Procs, FFThread(p), use' = use, FFIAlone,
           terminationConditionMet => Proc0 \notin use.ffi
    PROVE  IntervalsOnce'
<1>t. /\ app \in [Procs -> {"join", "sim", "synced", "resume", "ff", "track", "start", "out"}]
      /\ fc \in [Procs -> {"idle", "lock", "insert", "wait", "relock", "out"}]
      /\ use.ffi \subseteq Procs
  BY UsesAssumption DEF TypeInv
<1>u. UNCHANGED evMap => IntervalsOf(evMap)' = IntervalsOf(evMap) /\ (Once(evMap)' <=> Once(evMap))
  BY DEF IntervalsOf, Once
<1>f. fc[p] \notin {"idle", "out"} => p \notin use.ffi
  BY DEF Asked, FFIAlone
<1> USE DEF queue, phase, control, program, termination, stops
<1>1. CASE TimesOut(p)
  BY <1>1, EndOnce DEF TimesOut
<1>2. CASE Wakes(p)
  BY <1>2, <1>u DEF Wakes, IntervalsOnce, ff, ending
<1>3. CASE Inserts(p)
  <2>1. evMap \in Seq(Event) /\ Once(evMap) /\ evMap' = Append(evMap, <<"sync", p, 0>>) /\ 0 \in Int
    BY <1>3 DEF Inserts, TypeInv, IntervalsOnce
  <2>2. /\ Once(Append(evMap, <<"sync", p, 0>>))
        /\ IntervalsOf(Append(evMap, <<"sync", p, 0>>)) = IntervalsOf(evMap)
    BY <2>1, IntervalComes
  <2>3. Once(evMap)' /\ IntervalsOf(evMap)' = IntervalsOf(evMap)
    BY <2>1, <2>2 DEF Once, IntervalsOf
  <2>4. QED
    BY <1>3, <2>3 DEF Inserts, IntervalsOnce, ff, ending
<1>4. CASE Locks(p) \/ Enters(p)
  <2>1. UNCHANGED <<app, ended, evMap, failed, terminationConditionMet>> /\ p \notin use.ffi
    BY <1>4, <1>f DEF Locks, Enters, ending
  <2>2. \A q \in Procs : q # p => inFastForward'[q] = inFastForward[q]
    BY <1>4 DEF Locks, Enters, enterFastForward, exitFastForward, ff, TypeInv
  <2>3. QED
    BY <1>t, <1>u, <2>1, <2>2 DEF IntervalsOnce, IntervalsOf
<1>5. QED
  BY <1>1, <1>2, <1>3, <1>4 DEF FFThread

\* ... and what the program does: it leaves fast-forward at an FFI point only.
LEMMA ProgramOnce ==
    ASSUME TypeInv, IntervalsOnce, NEW p \in Procs, Program(p), use' = use, FFIAlone,
           terminationConditionMet => Proc0 \notin use.ffi
    PROVE  IntervalsOnce'
<1>t. /\ app \in [Procs -> {"join", "sim", "synced", "resume", "ff", "track", "start", "out"}]
      /\ inFastForward \in [Procs -> BOOLEAN]
      /\ use.ffi \subseteq Procs
  BY UsesAssumption DEF TypeInv
<1>u. UNCHANGED evMap => IntervalsOf(evMap)' = IntervalsOf(evMap) /\ (Once(evMap)' <=> Once(evMap))
  BY DEF IntervalsOf, Once
<1> USE DEF queue, phase, control, program, termination, stops
<1>1. CASE SyscallEnter(p) \/ FFToggle(p)
  <2>1. UNCHANGED <<ff, ended, evMap, failed, terminationConditionMet>> /\ (app' = app \/ app' = [app EXCEPT ![p] = "join"])
    BY <1>1 DEF SyscallEnter, FFToggle, ending
  <2>2. QED
    BY <1>t, <1>u, <2>1 DEF IntervalsOnce, IntervalsOf, ff
<1>2. CASE Fini(p)
  <2>1. p \notin IntervalsOf(evMap)
    BY <1>2 DEF Fini, FFIAlone, IntervalsOnce
  <2>2. QED
    BY <1>2, <2>1, EndOnce DEF Fini, SimEnd
<1>7. CASE SyscallExitFF(p)
  BY <1>7, EndOnce DEF SyscallExitFF, SimEnd
<1>3. CASE MagicOp(p)
  <2>1. UNCHANGED <<app, ended, evMap, failed, terminationConditionMet>> /\ p \notin use.ffi
    BY <1>3 DEF MagicOp, ending, FFIAlone
  <2>2. \A q \in Procs : q # p => inFastForward'[q] = inFastForward[q]
    BY <1>3 DEF MagicOp, enterFastForward, exitFastForward, TypeInv
  <2>3. QED
    BY <1>t, <1>u, <2>1, <2>2 DEF IntervalsOnce, IntervalsOf
<1>4. CASE FFIPoint(p) /\ SimEnd(p)
  <2>1. p \notin IntervalsOf(evMap)
    BY <1>4 DEF FFIPoint, IntervalsOnce
  <2>2. app' = [app EXCEPT ![p] = "out"]
    BY <1>4 DEF SimEnd
  <2>3. failed' = failed
    BY <1>t, <1>4, <2>2 DEF FFIPoint
  <2>4. QED
    BY <1>4, <2>1, <2>2, <2>3, EndOnce DEF FFIPoint, SimEnd
<1>5. CASE FFIPoint(p) /\ ~SimEnd(p)
  <2>1. p \in use.ffi /\ app[p] = "ff" /\ ~ended[p]
    BY <1>5 DEF FFIPoint, Running
  <2>2. inFastForward[p] /\ p \notin IntervalsOf(evMap)
    BY <2>1 DEF IntervalsOnce
  <2>3. /\ ~failed' /\ app' = [app EXCEPT ![p] = "track"]
        /\ inFastForward' = [inFastForward EXCEPT ![p] = FALSE]
        /\ UNCHANGED <<ended, evMap, terminationConditionMet>>
    BY <1>5, <2>2 DEF FFIPoint, exitFastForward, ending
  <2>4. QED
    BY <1>t, <1>u, <2>1, <2>2, <2>3 DEF IntervalsOnce, IntervalsOf
<1>6. QED
  BY <1>1, <1>2, <1>3, <1>4, <1>5, <1>7 DEF Program

\* The event of an interval is taken away when its process enters fast-forward.
LEMMA EndOfPhaseOnce ==
    ASSUME TypeInv, Stopping, IntervalsOnce, EndOfPhase, use' = use
    PROVE  IntervalsOnce'
<1>t. /\ app \in [Procs -> {"join", "sim", "synced", "resume", "ff", "track", "start", "out"}]
      /\ inFastForward \in [Procs -> BOOLEAN]
      /\ use.ffi \subseteq Procs /\ evMap \in Seq(Event)
  BY UsesAssumption DEF TypeInv
<1>u. UNCHANGED evMap => IntervalsOf(evMap)' = IntervalsOf(evMap) /\ (Once(evMap)' <=> Once(evMap))
  BY DEF IntervalsOf, Once
<1>o. Once(evMap)
  BY DEF IntervalsOnce
<1> USE DEF queue, phase, control, program, termination, stops
<1>1. CASE CheckForTermination
  BY <1>1, <1>u DEF CheckForTermination, IntervalsOnce, Stopping, ff, ending
<1>2. CASE Tick \/ TickPanics \/ TickDone
  BY <1>2, <1>u DEF Tick, TickPanics, TickDone, IntervalsOnce, ff, ending
<1>3. CASE NextPhase
  <2>1. Once(evMap') /\ IntervalsOf(evMap') = IntervalsOf(evMap)
    BY <1>3, <1>t, <1>o, IntervalsCloser DEF NextPhase
  <2>2. Once(evMap)' /\ IntervalsOf(evMap)' = IntervalsOf(evMap)
    BY <2>1 DEF Once, IntervalsOf
  <2>3. \A p \in Procs : app'[p] = app[p] \/ app'[p] = "resume"
    BY <1>3, <1>t DEF NextPhase
  <2>4. QED
    BY <1>3, <1>t, <2>2, <2>3 DEF NextPhase, IntervalsOnce, IntervalsOf, ff, ending
<1>4. CASE TickSync
  <2>1. PICK i \in 1 .. Len(evMap) : evMap' = RemoveAt(evMap, i) /\ evMap[i][1] = "sync"
    BY <1>4 DEF TickSync
  <2>2. Once(evMap') /\ IntervalsOf(evMap') = IntervalsOf(evMap)
    BY <1>t, <1>o, <2>1, IntervalLeaves
  <2>3. Once(evMap)' /\ IntervalsOf(evMap)' = IntervalsOf(evMap)
    BY <2>2 DEF Once, IntervalsOf
  <2>4. QED
    BY <1>4, <2>3 DEF TickSync, IntervalsOnce, ff, ending
<1>5. CASE TickFFI /\ ~UNCHANGED evMap
  <2>1. PICK i \in 1 .. Len(evMap) :
          evMap[i][1] = "ffi" /\ \E n \in Intervals : evMap' = Append(RemoveAt(evMap, i), <<"ffi", evMap[i][2], n>>)
    BY <1>5 DEF TickFFI
  <2> DEFINE p == evMap[i][2]
             r == RemoveAt(evMap, i)
  <2>2. p \in Procs /\ p \in IntervalsOf(evMap)
    BY <1>t, <2>1, EventsStay DEF IntervalsOf
  <2>3. r \in Seq(Event) /\ Once(r) /\ IntervalsOf(r) = IntervalsOf(evMap) \ {p}
    BY <1>t, <1>o, <2>1, EventsStay, IntervalLeaves
  <2>4. UNCHANGED <<ff, app, ended, terminationConditionMet, failed>>
    BY <1>5 DEF TickFFI, ending
  <2>5. PICK n \in Int : evMap' = Append(r, <<"ffi", p, n>>)
    BY <2>1, IntervalsAssumption
  <2> HIDE DEF p, r
  <2>6. Once(Append(r, <<"ffi", p, n>>)) /\ IntervalsOf(Append(r, <<"ffi", p, n>>)) = IntervalsOf(r) \cup {p}
    BY <2>2, <2>3, IntervalComes
  <2>7. Once(evMap') /\ IntervalsOf(evMap') = IntervalsOf(evMap)
    BY <2>2, <2>3, <2>5, <2>6
  <2>8. Once(evMap)' /\ IntervalsOf(evMap)' = IntervalsOf(evMap)
    BY <2>7 DEF Once, IntervalsOf
  <2>9. QED
    BY <2>4, <2>8 DEF IntervalsOnce, ff
<1>6. CASE TickFFI /\ UNCHANGED evMap
  BY <1>6, <1>u DEF TickFFI, IntervalsOnce, ff, ending
<1>7. CASE FFIFires
  <2>1. PICK i \in 1 .. Len(evMap) : /\ evMap[i][1] = "ffi"
                                     /\ failed' = inFastForward[evMap[i][2]]
                                     /\ enterFastForward(evMap[i][2])
                                     /\ evMap' = RemoveAt(evMap, i)
    BY <1>7 DEF FFIFires
  <2> DEFINE p == evMap[i][2]
  <2>2. p \in Procs /\ p \in IntervalsOf(evMap)
    BY <1>t, <2>1, EventsStay DEF IntervalsOf
  <2>3. Once(evMap') /\ IntervalsOf(evMap') = IntervalsOf(evMap) \ {p}
    BY <1>t, <1>o, <2>1, IntervalLeaves
  <2>4. Once(evMap)' /\ IntervalsOf(evMap)' = IntervalsOf(evMap) \ {p}
    BY <2>3 DEF Once, IntervalsOf
  <2>5. UNCHANGED <<app, ended, terminationConditionMet>>
    BY <1>7 DEF FFIFires, ending
  <2>6. failed' = inFastForward[p] /\ enterFastForward(p)
    BY <2>1
  <2> HIDE DEF p
  <2>7. /\ ~inFastForward[p] /\ app[p] # "track"
        /\ \A q \in Procs : inFastForward'[q] = IF q = p THEN TRUE ELSE inFastForward[q]
    BY <1>t, <2>2, <2>6 DEF IntervalsOnce, enterFastForward
  <2>8. QED
    BY <1>t, <2>2, <2>4, <2>5, <2>6, <2>7 DEF IntervalsOnce, IntervalsOf
<1>8. QED
  BY <1>1, <1>2, <1>3, <1>4, <1>5, <1>6, <1>7 DEF EndOfPhase

\* While process 0 is not disturbed, the intervals are in order.
LEMMA OnceStep ==
    TypeInv /\ Stopping /\ Asked /\ (Undisturbed => IntervalsOnce) /\ [Next]_vars => (Undisturbed => IntervalsOnce)'
<1> SUFFICES ASSUME TypeInv, Stopping, Asked, Undisturbed => IntervalsOnce, [Next]_vars, Undisturbed'
             PROVE  IntervalsOnce'
  OBVIOUS
<1>1. CASE Next
  <2>0. use' = use
    BY <1>1 DEF Next
  <2>1. terminationConditionMet => terminationConditionMet'
    BY <1>1 DEF Next, Steps, FFThread, Program, EndOfPhase, termination, Join, SyscallExit, Sync, TakeBarrier, FFBasicBlock,
         Track, Start, Wakes, TimesOut, Locks, Inserts, Enters, SyscallEnter, SyscallExitFF, Fini, MagicOp, FFIPoint, FFToggle, PhaseEnds,
         CheckForTermination, Tick, TickSync, TickFFI, FFIFires, TickPanics, TickDone, NextPhase, Process0Ends, TypeInv
  <2>2. FFIAlone /\ (terminationConditionMet => Proc0 \notin use.ffi)
    BY <2>0, <2>1 DEF Undisturbed, FFIAlone
  <2>3. IntervalsOnce
    BY <2>2 DEF Undisturbed
  <2>4. CASE Process0Ends
    BY <2>0, <2>3, <2>4, ProcsAssumption
       DEF Process0Ends, IntervalsOnce, IntervalsOf, Once, TypeInv, ff, queue, phase, control, program, stops
  <2>5. ASSUME NEW p \in Procs, PhaseEnds(p) PROVE IntervalsOnce'
    BY <2>0, <2>3, <2>5 DEF PhaseEnds, IntervalsOnce, IntervalsOf, Once, ff, queue, control, program, termination, ending, stops
  <2>6. QED
    BY <1>1, <2>0, <2>2, <2>3, <2>4, <2>5, StepsOnce, ControlOnce, ProgramOnce, EndOfPhaseOnce DEF Next
<1>2. CASE UNCHANGED vars
  <2>1. Undisturbed
    BY <1>2 DEF vars, moves, termination, Undisturbed, FFIAlone
  <2>2. QED
    BY <1>2, <2>1 DEF vars, moves, ff, queue, program, termination, ending, stops, IntervalsOnce, IntervalsOf, Once
<1>3. QED
  BY <1>1, <1>2

\* Nobody is in fast-forward when it ends, and nobody that has ended is put there.
LEMMA EndedOutStep ==
    TypeInv /\ Counted /\ EndedOut /\ (Undisturbed => IntervalsOnce) /\ Next => EndedOut'
<1> SUFFICES ASSUME TypeInv, Counted, EndedOut, Undisturbed => IntervalsOnce, Next, FFIAlone', ~terminationConditionMet'
             PROVE  \A p \in InFF' : ended'[p] => p = Proc0
  BY DEF EndedOut
<1>0. use' = use
  BY DEF Next
<1>1. FFIAlone /\ ~terminationConditionMet
  BY <1>0 DEF FFIAlone, Next, Steps, FFThread, Program, EndOfPhase, termination, Join, SyscallExit, Sync, TakeBarrier,
         FFBasicBlock, Track, Start, Wakes, TimesOut, Locks, Inserts, Enters, SyscallEnter, SyscallExitFF, Fini, MagicOp, FFIPoint, FFToggle,
         PhaseEnds, CheckForTermination, Tick, TickSync, TickFFI, FFIFires, TickPanics, TickDone, NextPhase, Process0Ends, TypeInv
<1>2. IntervalsOnce /\ \A p \in InFF : ended[p] => p = Proc0
  BY <1>1 DEF Undisturbed, EndedOut
<1>3. CASE UNCHANGED <<ff, ended>>
  BY <1>2, <1>3 DEF ff, InFF
<1>4. CASE \E p \in Procs : IF perProcessEndFlag[p] THEN UNCHANGED <<ending, ff>> ELSE notifyEnd(p)
  <2>1. PICK p \in Procs : IF perProcessEndFlag[p] THEN UNCHANGED <<ending, ff>> ELSE notifyEnd(p)
    BY <1>4
  <2>2. InFF' \subseteq InFF /\ \A q \in Procs : ended'[q] /\ ~ended[q] => q \notin InFF'
    BY <1>0, <2>1, EndCounts
  <2>3. QED
    BY <1>2, <2>2 DEF InFF
<1>5. CASE \E p \in Procs : UNCHANGED ended /\ (ended[p] => p = Proc0) /\ (enterFastForward(p) \/ exitFastForward(p))
  BY <1>2, <1>5 DEF InFF, enterFastForward, exitFastForward, TypeInv
<1>6. CASE UNCHANGED ff /\ ended' = [ended EXCEPT ![Proc0] = TRUE]
  BY <1>2, <1>6 DEF ff, InFF, TypeInv
<1>7. CASE FFIFires
  <2>1. PICK p \in Procs : p \in IntervalsOf(evMap) /\ enterFastForward(p)
    BY <1>7, EventsStay DEF FFIFires, TypeInv, IntervalsOf
  <2>2. UNCHANGED ended /\ (ended[p] => p = Proc0)
    BY <1>1, <1>2, <1>7, <2>1 DEF FFIFires, termination, ending, IntervalsOnce
  <2>3. QED
    BY <1>5, <2>1, <2>2
<1>8. ASSUME NEW p \in Procs, Steps(p) \/ FFThread(p) \/ Program(p) \/ PhaseEnds(p)
      PROVE  \A q \in InFF' : ended'[q] => q = Proc0
  <2>1. CASE Steps(p)
    BY <1>3, <1>4, <2>1 DEF Steps, Join, SyscallExit, Sync, TakeBarrier, FFBasicBlock, Track, Start, SimEnd, termination, ending
  <2>2. CASE FFThread(p)
    BY <1>3, <1>4, <1>5, <2>2 DEF FFThread, Wakes, TimesOut, Locks, Inserts, Enters, Running, termination, ending
  <2>3. CASE FFIPoint(p)
    <3>1. CASE SimEnd(p)
      BY <1>4, <3>1 DEF SimEnd
    <3>2. CASE ~SimEnd(p)
      BY <1>5, <2>3, <3>2 DEF FFIPoint, Running, ending
    <3>3. QED
      BY <3>1, <3>2
  <2>4. CASE MagicOp(p)
    BY <1>5, <2>4 DEF MagicOp, Running, termination, ending
  <2>5. CASE SyscallEnter(p) \/ SyscallExitFF(p) \/ Fini(p) \/ FFToggle(p) \/ PhaseEnds(p)
    BY <1>3, <1>4, <2>5 DEF SyscallEnter, SyscallExitFF, Fini, FFToggle, PhaseEnds, SimEnd, termination, ending
  <2>6. QED
    BY <1>8, <2>1, <2>2, <2>3, <2>4, <2>5 DEF Program
<1>9. CASE EndOfPhase /\ ~FFIFires
  BY <1>3, <1>9 DEF EndOfPhase, CheckForTermination, Tick, TickSync, TickFFI, TickPanics, TickDone, NextPhase, termination, ending
<1>10. CASE Process0Ends
  BY <1>6, <1>10 DEF Process0Ends
<1>11. QED
  BY <1>7, <1>8, <1>9, <1>10 DEF Next

-----------------------------------------------------------------------------
\* The inductive invariant.
FFInv ==
    /\ TypeInv /\ Stopping /\ Asked
    /\ failed \/ (Counted /\ EndedOut)
    /\ Undisturbed => IntervalsOnce

\* The initial state satisfies the whole invariant.
LEMMA FFInit == Init => FFInv
<1> SUFFICES ASSUME Init PROVE FFInv
  OBVIOUS
<1>1. TypeInv
  BY TypeInit
<1>2. use.startFF \subseteq Procs /\ use.ffi \subseteq Procs
  BY UsesAssumption DEF Init
<1>3. InFF = use.startFF /\ \A p \in Procs : ~ended[p]
  BY <1>2 DEF Init, InFF
<1>4. Counted /\ EndedOut
  <2>1. InFF \cap use.synced = use.startFF \cap use.synced
    BY <1>3
  <2>2. QED
    BY <1>2, <1>3, <2>1 DEF Init, Counted, EndedOut, InFF
<1>5. Stopping /\ Asked
  BY <1>2 DEF Init, Stopping, Asked
<1>6. IntervalsOnce
  <2>1. \A p \in Procs : /\ app[p] = "track" => p \in use.ffi /\ ~inFastForward[p]
                        /\ app[p] = "ff" => inFastForward[p]
    BY <1>2 DEF Init
  <2>2. Once(evMap) /\ IntervalsOf(evMap) = {}
    BY DEF Init, Once, IntervalsOf
  <2>3. QED
    BY <1>2, <2>1, <2>2 DEF Init, IntervalsOnce
<1>7. QED
  BY <1>1, <1>4, <1>5, <1>6 DEF FFInv

\* Every step keeps the whole invariant.
LEMMA FFStep == FFInv /\ [Next]_vars => FFInv'
<1> SUFFICES ASSUME FFInv, [Next]_vars PROVE FFInv'
  OBVIOUS
<1>1. TypeInv' /\ Stopping' /\ Asked' /\ (Undisturbed => IntervalsOnce)' /\ (failed \/ Counted)'
  BY TypeStep, StoppingStep, AskedStep, OnceStep, CountedStep DEF FFInv
<1>2. failed' \/ EndedOut'
  <2>1. CASE Next
    BY <2>1, NextRuns, EndedOutStep DEF FFInv
  <2>2. CASE UNCHANGED vars
    BY <2>2 DEF vars, moves, ff, termination, ending, stops, FFInv, EndedOut, FFIAlone, InFF
  <2>3. QED
    BY <2>1, <2>2
<1>3. QED
  BY <1>1, <1>2 DEF FFInv

\* The invariant of the run: the counters of the process tree are the numbers of the processes
\* in fast-forward, nobody that has ended is among them, and no assertion fails.
THEOREM FastForwardCounts == Spec => []FFCounted
<1>1. FFInv => FFCounted
  BY DEF FFInv, FFCounted, Counted, EndedOut, InFF, Undisturbed, IntervalsOnce
<1>2. QED
  BY FFInit, FFStep, <1>1, PTL DEF Spec
=============================================================================
