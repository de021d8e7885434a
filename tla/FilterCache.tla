---------------------------- MODULE FilterCache ----------------------------
(***************************************************************************)
(* The filter in front of a terminal cache (src/zsim/src/filter_cache.h):  *)
(* per set, the last line its core loaded and the last it stored.  The     *)
(* core reads the filter without a lock, and on a hit does not look at the *)
(* cache at all; so an entry must never outlive the line it names.         *)
(*                                                                         *)
(* One cache, its core, and the thread that invalidates it, which is       *)
(* whichever other core made the cache above do so and hence may belong to *)
(* another simulated process.  The cache above is the condition that it    *)
(* does one thing at a time for this child (module Coherence).             *)
(* A simulated line is a pair of a process and its virtual line: the code  *)
(* ors the process's procMask into the virtual address.                    *)
(***************************************************************************)
EXTENDS Naturals, FiniteSets

CONSTANTS Procs,     \* simulated processes
          VLines,    \* virtual line addresses
          Sets,      \* of the filter, and of the cache array
          SetOf,     \* idx = vLineAddr & setMask
          Ways,      \* of the cache array
          None       \* the address -1, in no process

ASSUME FilterAssumption == SetOf \in [VLines -> Sets] /\ None \notin VLines

PLines == Procs \X VLines

VARIABLES st,          \* the cache's MESI states, I for lines not in it
          rdAddr, wrAddr,          \* filterArray
          filterLock, bcc,         \* "core", "inv" or "free"
          proc,        \* the process the core runs
          fpc, addr, isLoad,        \* the core's replace(): where, and its arguments
          invpc, inv   \* the invalidation under way: its line, type and process

filterVars == <<st, rdAddr, wrAddr, filterLock, bcc, proc, fpc, addr, isLoad, invpc, inv>>
filter == <<rdAddr, wrAddr>>
coreVars == <<proc, fpc, addr, isLoad>>
invalidator == <<invpc, inv>>

Exclusive(s) == s \in {"E", "M"}
Requests == [line : PLines, type : {"INV", "INVX"}, by : Procs]

InSet(i) == {l \in PLines : SetOf[l[2]] = i /\ st[l] # "I"}

FilterInit ==
    /\ st = [l \in PLines |-> "I"]
    /\ rdAddr = [i \in Sets |-> None] /\ wrAddr = [i \in Sets |-> None]
    /\ filterLock = "free" /\ bcc = "free"
    /\ proc \in Procs
    /\ fpc = "idle" /\ addr = (CHOOSE v \in VLines : TRUE) /\ isLoad = TRUE
    /\ invpc = "idle" /\ inv = CHOOSE r \in Requests : TRUE

----------------------------------------------------------------------------
(* The core.  A hit returns at once and changes nothing.                    *)

Hit(v, load) == v = IF load THEN rdAddr[SetOf[v]] ELSE wrAddr[SetOf[v]]
Line == <<proc, addr>>

RoomIn(i) == Cardinality(InSet(i)) < Ways

\* load() or store() misses in the filter: replace() takes the filter's lock.
Replace == /\ fpc = "idle" /\ filterLock = "free"
           /\ \E v \in VLines, load \in BOOLEAN :
                /\ ~Hit(v, load)
                /\ addr' = v /\ isLoad' = load
           /\ filterLock' = "core"
           /\ fpc' = "access"
           /\ UNCHANGED <<st, filter, bcc, proc, invalidator>>

\* MESITerminalCC::startAccess gives up the child's lock, the filter's.
StartAccess == /\ fpc = "access"
               /\ filterLock' = "free"
               /\ fpc' = "bcc"
               /\ UNCHANGED <<st, filter, bcc, proc, addr, isLoad, invalidator>>

\* Under the cache's lock: a hit goes silently from E to M on a store, a miss
\* first evicts, with the lock given up (Coherence!EvictSelf), when the set
\* is full.
Lookup == /\ fpc = "bcc" /\ bcc = "free"
          /\ LET s == st[Line] IN
             IF s # "I" /\ (isLoad \/ Exclusive(s))
             THEN /\ st' = IF isLoad THEN st ELSE [st EXCEPT ![Line] = "M"]
                  /\ bcc' = "core"
                  /\ fpc' = "relock"
             ELSE /\ fpc' = IF s = "I" /\ ~RoomIn(SetOf[addr])
                           THEN "evict" ELSE "fetch"
                  /\ UNCHANGED <<st, bcc>>
          /\ UNCHANGED <<filter, filterLock, proc, addr, isLoad, invalidator>>

\* The cache above takes the line back: of a full set, or of a set that an
\* invalidation has meanwhile emptied.
Evict == /\ fpc = "evict" /\ invpc = "idle"
         /\ LET full == InSet(SetOf[addr]) IN
            \/ \E l \in full : st' = [st EXCEPT ![l] = "I"]
            \/ RoomIn(SetOf[addr]) /\ UNCHANGED st
         /\ fpc' = "fetch"
         /\ UNCHANGED <<filter, filterLock, bcc, proc, addr, isLoad, invalidator>>

\* The cache above grants the line and the cache's lock is taken again.
Fetch == /\ fpc = "fetch" /\ invpc = "idle"
         /\ \E s \in IF isLoad THEN {"S", "E"} ELSE {"M"} : st' = [st EXCEPT ![Line] = s]
         /\ bcc' = "core"
         /\ fpc' = "relock"
         /\ UNCHANGED <<filter, filterLock, proc, addr, isLoad, invalidator>>

\* endAccess(): the filter's lock first, then the cache's is released.
EndAccess == /\ fpc = "relock" /\ filterLock = "free"
             /\ filterLock' = "core"
             /\ bcc' = "free"
             /\ fpc' = "fill"
             /\ UNCHANGED <<st, filter, proc, addr, isLoad, invalidator>>

Fill == /\ fpc = "fill"
        /\ wrAddr' = [wrAddr EXCEPT ![SetOf[addr]] = IF isLoad THEN None ELSE addr]
        /\ rdAddr' = [rdAddr EXCEPT ![SetOf[addr]] = addr]
        /\ filterLock' = "free"
        /\ fpc' = "idle"
        /\ UNCHANGED <<st, bcc, proc, addr, isLoad, invalidator>>

\* The scheduler takes the core's thread off it and runs another one's
\* (Core::contextSwitch(-1)): the filter is cleared, the cache is not.
ContextSwitch == /\ fpc = "idle" /\ filterLock = "free"
                 /\ rdAddr' = [i \in Sets |-> None] /\ wrAddr' = [i \in Sets |-> None]
                 /\ proc' \in Procs
                 /\ UNCHANGED <<st, filterLock, bcc, fpc, addr, isLoad, invalidator>>

----------------------------------------------------------------------------
(* invalidate(), from the cache above, for a line its directory lists.  A   *)
(* downgrade, or an invalidation for another core's store, comes from the   *)
(* line's own process; one that makes room above comes from any process.    *)

StartInvalidate == /\ invpc = "idle"
                   /\ inv' \in Requests
                   /\ st[inv'.line] # "I"
                   /\ inv'.type = "INVX" => Exclusive(st[inv'.line]) /\ inv'.by = inv'.line[1]
                   /\ invpc' = "bcc"
                   /\ UNCHANGED <<st, filter, filterLock, bcc, coreVars>>

InvalidateLock == /\ invpc = "bcc" /\ bcc = "free"
                  /\ bcc' = "inv"
                  /\ invpc' = "filter"
                  /\ UNCHANGED <<st, filter, filterLock, coreVars, inv>>

\* Mutant: only the store address is compared.
MatchesStores(i) == <<inv.by, wrAddr[i]>> = inv.line

\* The comparison uses the procMask of the process that runs this code.
Matches(i) == <<inv.by, rdAddr[i]>> = inv.line

FinishInvalidate ==
    /\ invpc = "filter" /\ filterLock = "free"
    /\ LET i == SetOf[inv.line[2]] IN
       IF Matches(i)
       THEN rdAddr' = [rdAddr EXCEPT ![i] = None] /\ wrAddr' = [wrAddr EXCEPT ![i] = None]
       ELSE UNCHANGED filter
    /\ st' = [st EXCEPT ![inv.line] = IF inv.type = "INV" THEN "I" ELSE "S"]
    /\ bcc' = "free"
    /\ invpc' = "idle"
    /\ UNCHANGED <<filterLock, coreVars, inv>>

----------------------------------------------------------------------------
CoreStep == StartAccess \/ Lookup \/ Evict \/ Fetch \/ EndAccess \/ Fill
InvStep == InvalidateLock \/ FinishInvalidate
FilterNext == Replace \/ ContextSwitch \/ StartInvalidate \/ CoreStep \/ InvStep

FilterSafety == FilterInit /\ [][FilterNext]_filterVars
FilterSpec == FilterSafety /\ WF_filterVars(CoreStep) /\ WF_filterVars(InvStep)

----------------------------------------------------------------------------
(* Properties. *)

\* Whenever the core may test the filter without a lock (it is idle), and no
\* invalidation is in the act, a load hit is on a line the cache has and a
\* store hit on one it may write: "it is fine to do this without grabbing a
\* lock" (filter_cache.h:41).
FilterCoherent ==
    fpc = "idle" =>
        \A v \in VLines : LET s == st[<<proc, v>>] IN
            /\ Hit(v, TRUE) => s # "I"
            /\ Hit(v, FALSE) => s = "M"

=============================================================================
