----------------------------- MODULE Coherence -----------------------------
(***************************************************************************)
(* The MESI controllers of a cache hierarchy: Cache::access and            *)
(* invalidate (cache.cpp), MESIBottomCC, MESITopCC, MESICC and             *)
(* MESITerminalCC (coherence_ctrls.h/.cpp), above a SimpleMemory           *)
(* (mem_ctrls.cpp).  Caches are inclusive.                                 *)
(*                                                                         *)
(* Every core is one thread that walks the hierarchy by nested calls: an   *)
(* access frame per cache it goes up through, an invalidation frame per    *)
(* cache it goes down to.  Going up it releases the child's bottom lock    *)
(* before it takes the parent's two, so invalidations of other threads     *)
(* slip in between; CheckForMESIRace sorts those out.  What a thread does  *)
(* between two lock operations is one action.                              *)
(*                                                                         *)
(* The state of a line is indexed by the line, not by the slot it is in: a *)
(* slot is free, or holds the tag of one line, from postinsert on.  The    *)
(* replacement policy is any choice of a victim.                           *)
(***************************************************************************)
EXTENDS Naturals, Sequences, FiniteSets, FiniteSetsExt

CONSTANTS Cores,      \* each a thread that issues one access at a time
          Caches,     \* numbers, a parent's children in the order of children[]
          Lines,
          Parent,     \* Parent[c][l]: the cache, or Memory, that serves l to c
          Terminal,   \* Terminal[p]: the caches core p accesses directly
          ICaches,    \* terminal caches whose accesses are fetches, flagged NOEXCL
          Ways,       \* Ways[c]: how many lines c holds
          Level, Depth,   \* Level[c]: how far c is from the cores, Depth at most
          Memory, NoLine, Nobody

ASSUME CachesAssumption == Caches \subseteq Nat /\ IsFiniteSet(Caches)
ASSUME MemoryAssumption == Memory \notin Caches
ASSUME ParentAssumption == Parent \in [Caches -> [Lines -> Caches \cup {Memory}]]
\* A terminal cache is one core's (init.cpp:681, 690).
ASSUME TerminalAssumption ==
    /\ Terminal \in [Cores -> SUBSET Caches] /\ ICaches \subseteq Caches
    /\ \A p, q \in Cores : p # q => Terminal[p] \cap Terminal[q] = {}
\* The hierarchy is a tree with one last level, whose banks share the lines (init.cpp:483, 503, 614).
ASSUME RootAssumption ==
    \A l \in Lines : \A c, d \in {x \in Caches : \/ \E p \in Cores : x \in Terminal[p]
                                                \/ \E y \in Caches : Parent[y][l] = x} :
        Parent[c][l] = Memory /\ Parent[d][l] = Memory => c = d
ASSUME WaysAssumption == Ways \in [Caches -> Nat \ {0}]
ASSUME NoLineAssumption == NoLine \notin Lines
ASSUME NobodyAssumption == Nobody \notin Cores \cup Caches
\* A cache's parent is a level above it; what a core accesses is nobody's parent.
ASSUME LevelAssumption ==
    /\ Depth \in Nat /\ Level \in [Caches -> 0 .. Depth]
    /\ \A c \in Caches, l \in Lines : Parent[c][l] # Memory =>
           /\ Level[c] < Level[Parent[c][l]]
           /\ \A p \in Cores : Parent[c][l] \notin Terminal[p]

VARIABLES st,       \* st[c][l]: MESI state, I while c has no slot for l
          present,  \* present[c]: the lines with a slot in c
          sharers,  \* sharers[c][l]: the children c's directory lists
          excl,     \* excl[c][l]: the entry's exclusive flag
          tcc, bcc, \* who holds each cache's top and bottom lock
          stack,    \* stack[p]: core p's frames, the innermost first
          wb,       \* wb[p]: *reqWriteback of its innermost access
          dirty,    \* dirty[l]: stored to since memory last got l (a history)
          failed    \* an assertion or a panic of the code was hit

vars == <<st, present, sharers, excl, tcc, bcc, stack, wb, dirty, failed>>
locks == <<tcc, bcc>>
dir == <<sharers, excl>>

Terminals == UNION {Terminal[p] : p \in Cores}
IsGet(type) == type \in {"GETS", "GETX"}
IsPut(type) == type \in {"PUTS", "PUTX"}
Exclusive(s) == s \in {"E", "M"}

\* MemReq: child is Nobody for the core's own access, init its child's state
\* when the request was made.
AccFrame(c, l, type, child, init) ==
    [c |-> c, l |-> l, type |-> type, child |-> child, init |-> init,
     pc |-> IF c \in Terminals THEN "bcc" ELSE "tcc", victim |-> NoLine]
InvFrame(c, l, type) ==
    [c |-> c, l |-> l, type |-> type, child |-> Nobody, init |-> "I",
     pc |-> "lock", victim |-> NoLine]

Init == /\ st = [c \in Caches |-> [l \in Lines |-> "I"]]
        /\ present = [c \in Caches |-> {}]
        /\ sharers = [c \in Caches |-> [l \in Lines |-> {}]]
        /\ excl = [c \in Caches |-> [l \in Lines |-> FALSE]]
        /\ tcc = [c \in Caches |-> Nobody] /\ bcc = [c \in Caches |-> Nobody]
        /\ stack = [p \in Cores |-> <<>>]
        /\ wb = [p \in Cores |-> FALSE]
        /\ dirty = [l \in Lines |-> FALSE]
        /\ failed = FALSE

----------------------------------------------------------------------------
Frame(p) == Head(stack[p])
At(p, label) == stack[p] # <<>> /\ Frame(p).pc = label
IsExclusive(c, l) == excl[c][l] /\ Cardinality(sharers[c][l]) = 1

\* assert(), assert_msg() and panic(): the condition holds or the run failed.
Expect(cond) == failed' = (failed \/ ~cond)

\* The innermost frame is replaced by frame f; below it, the calls are kept.
Becomes(p, f) == stack' = [stack EXCEPT ![p] = <<f>> \o Tail(@)]
GoTo(p, label) == Becomes(p, [Frame(p) EXCEPT !.pc = label])
Call(p, label, f) == stack' = [stack EXCEPT ![p] = <<f, [Head(@) EXCEPT !.pc = label]>> \o Tail(@)]
Return(p) == stack' = [stack EXCEPT ![p] = Tail(@)]

\* The flags of the core's access reach every level: fetches refuse E.
NoExcl(p) == stack[p][Len(stack[p])].c \in ICaches

\* FilterCache::replace calls access(); a fetch is always a load.
Start(p) == /\ stack[p] = <<>>
            /\ \E c \in Terminal[p], l \in Lines, type \in {"GETS", "GETX"} :
                 /\ c \in ICaches => type = "GETS"
                 /\ stack' = [stack EXCEPT ![p] = <<AccFrame(c, l, type, Nobody, "I")>>]
            /\ UNCHANGED <<st, present, dir, locks, wb, dirty, failed>>

TakeTcc(p) == /\ At(p, "tcc")
              /\ LET c == Frame(p).c IN
                   /\ tcc[c] = Nobody
                   /\ tcc' = [tcc EXCEPT ![c] = p]
              /\ GoTo(p, "bcc")
              /\ UNCHANGED <<st, present, dir, bcc, wb, dirty, failed>>

----------------------------------------------------------------------------
(* CheckForMESIRace: the child's state may have changed since the request. *)

Raced(f) == f.child # Nobody /\ st[f.child][f.l] # f.init
LegalRace(f) == LET now == st[f.child][f.l] IN
                \/ IsPut(f.type) /\ now \in {"I", "S"}
                \/ f.type = "GETX" /\ f.init = "S" /\ now = "I"
SkipAccess(f) == Raced(f) /\ IsPut(f.type) /\ st[f.child][f.l] = "I"
\* Mutant: a dirty writeback stays one after the line was downgraded.
TypeUnchanged(f) == f.type
TypeNow(f) == IF Raced(f) /\ f.type = "PUTX" THEN "PUTS" ELSE f.type

\* preinsert() picks the slot: a free one, or that of any line.
Victims(c) == present[c] \cup (IF Cardinality(present[c]) < Ways[c] THEN {NoLine} ELSE {})

\* shouldAllocate() refuses PUTs: "We lost inclusion on this line!"
TakeBcc(p) ==
    /\ At(p, "bcc")
    /\ LET f == Frame(p)
           hit == f.l \in present[f.c]
           go(label, v) == Becomes(p, [f EXCEPT !.type = TypeNow(f), !.pc = label, !.victim = v])
       IN /\ bcc[f.c] = Nobody
          /\ bcc' = [bcc EXCEPT ![f.c] = p]
          /\ Expect((Raced(f) => LegalRace(f))
                    /\ (IsPut(f.type) /\ ~SkipAccess(f) => hit))
          /\ \/ SkipAccess(f) /\ go("end", NoLine)
             \/ ~SkipAccess(f) /\ hit /\ go("fetch", NoLine)
             \/ ~SkipAccess(f) /\ ~hit /\ \E v \in Victims(f.c) : go("evict", v)
    /\ UNCHANGED <<st, present, dir, tcc, wb, dirty>>

----------------------------------------------------------------------------
(* An access to the parent.  SimpleMemory answers at once; a cache gets a   *)
(* frame of its own, and startAccess releases the requester's bottom lock.  *)

Granted(p, type) == IF type = "GETX" THEN "M"
                    ELSE IF type = "GETS" THEN IF NoExcl(p) THEN "S" ELSE "E"
                    ELSE "I"

\* Mutant: the requester keeps its bottom lock on the way up.
ToParentLocked(p, c, l, type, s, label) ==
    /\ UNCHANGED bcc
    /\ IF Parent[c][l] = Memory
       THEN /\ st' = [st EXCEPT ![c][l] = Granted(p, type)]
            /\ dirty' = IF type = "PUTX" THEN [dirty EXCEPT ![l] = FALSE] ELSE dirty
            /\ GoTo(p, label)
       ELSE /\ st' = [st EXCEPT ![c][l] = s]
            /\ Call(p, label, AccFrame(Parent[c][l], l, type, c, s))
            /\ UNCHANGED dirty

\* The requester's state for line l is s when the request is made.
ToParent(p, c, l, type, s, label) ==
    IF Parent[c][l] = Memory
    THEN /\ st' = [st EXCEPT ![c][l] = Granted(p, type)]
         /\ dirty' = IF type = "PUTX" THEN [dirty EXCEPT ![l] = FALSE] ELSE dirty
         /\ GoTo(p, label)
         /\ UNCHANGED bcc
    ELSE /\ st' = [st EXCEPT ![c][l] = s]
         /\ bcc' = [bcc EXCEPT ![c] = Nobody]
         /\ Call(p, label, AccFrame(Parent[c][l], l, type, c, s))
         /\ UNCHANGED dirty

\* sendInvalidates() visits the children in order.
Invalidate(p, c, l, type, label) ==
    Call(p, label, InvFrame(Min(sharers[c][l]), l, type))

\* MESITopCC::processEviction: every sharer of the victim is invalidated.
EvictChildren(p) ==
    /\ At(p, "evict")
    /\ LET f == Frame(p) IN
         /\ f.victim # NoLine /\ sharers[f.c][f.victim] # {}
         /\ Invalidate(p, f.c, f.victim, "INV", "evict")
    /\ UNCHANGED <<st, present, dir, locks, wb, dirty, failed>>

\* MESIBottomCC::processEviction: the line goes up with PUTX if it is dirty
\* here or was in a child.
EvictSelf(p) ==
    /\ At(p, "evict")
    /\ LET f == Frame(p)
           s == IF wb[p] THEN "M" ELSE st[f.c][f.victim]
       IN \/ /\ f.victim = NoLine
             /\ GoTo(p, "insert")
             /\ UNCHANGED <<st, bcc, dirty, failed>>
          \/ /\ f.victim # NoLine /\ sharers[f.c][f.victim] = {}
             /\ Expect(wb[p] => Exclusive(st[f.c][f.victim]))
             /\ IF s = "I"
                THEN GoTo(p, "insert") /\ UNCHANGED <<st, bcc, dirty>>
                ELSE ToParent(p, f.c, f.victim, IF s = "M" THEN "PUTX" ELSE "PUTS", s, "insert")
    /\ wb' = [wb EXCEPT ![p] = FALSE]
    /\ UNCHANGED <<present, dir, tcc>>

\* The final assertion of processEviction, then postinsert().
Insert(p) ==
    /\ At(p, "insert")
    /\ LET f == Frame(p) IN
         /\ Expect(f.victim # NoLine => st[f.c][f.victim] = "I")
         /\ present' = [present EXCEPT ![f.c] = (@ \ {f.victim}) \cup {f.l}]
         /\ excl' = IF f.victim = NoLine THEN excl ELSE [excl EXCEPT ![f.c][f.victim] = FALSE]
         /\ Becomes(p, [f EXCEPT !.pc = "fetch", !.victim = NoLine])
    /\ UNCHANGED <<st, sharers, locks, wb, dirty>>

----------------------------------------------------------------------------
(* MESIBottomCC::processAccess.                                             *)

\* A terminal cache that gets to M on a GETX is where the core stores.
Stored(c, l) == IF c \in Terminals THEN [dirty EXCEPT ![l] = TRUE] ELSE dirty

Fetch(p) ==
    /\ At(p, "fetch")
    /\ LET f == Frame(p)
           s == st[f.c][f.l]
           miss == \/ f.type = "GETS" /\ s = "I"
                   \/ f.type = "GETX" /\ s \in {"I", "S"}
       IN \/ /\ miss
             /\ ToParent(p, f.c, f.l, f.type, s, "fetched")
             /\ UNCHANGED failed
          \/ /\ ~miss
             /\ Expect(/\ IsPut(f.type) => s # "I"
                       /\ f.type = "PUTX" => Exclusive(s))
             /\ st' = IF f.type \in {"PUTX", "GETX"} THEN [st EXCEPT ![f.c][f.l] = "M"] ELSE st
             /\ dirty' = IF f.type = "GETX" THEN Stored(f.c, f.l) ELSE dirty
             /\ GoTo(p, IF f.c \in Terminals THEN "end" ELSE "dir")
             /\ UNCHANGED bcc
    /\ UNCHANGED <<present, dir, tcc, wb>>

Fetched(p) ==
    /\ At(p, "fetched")
    /\ LET f == Frame(p)
           s == st[f.c][f.l]
       IN /\ Expect(IF f.type = "GETX" THEN s = "M" ELSE s \in {"S", "E"})
          /\ dirty' = IF f.type = "GETX" THEN Stored(f.c, f.l) ELSE dirty
          /\ GoTo(p, IF f.c \in Terminals THEN "end" ELSE "dir")
    /\ UNCHANGED <<st, present, dir, locks, wb>>

----------------------------------------------------------------------------
(* MESITopCC::processAccess and processWritebackOnAccess, with the child's  *)
(* state written by the parent.                                             *)

\* Mutant: the directory keeps the child that wrote back.
PutKeepsSharer(p) ==
    /\ At(p, "dir") /\ IsPut(Frame(p).type)
    /\ st' = [st EXCEPT ![Frame(p).child][Frame(p).l] = "I"]
    /\ GoTo(p, "end")
    /\ UNCHANGED <<present, dir, locks, wb, dirty, failed>>

Put(p) ==
    /\ At(p, "dir") /\ IsPut(Frame(p).type)
    /\ LET f == Frame(p) IN
         /\ Expect(/\ f.type = "PUTX" => IsExclusive(f.c, f.l)
                   /\ f.child \in sharers[f.c][f.l])
         /\ sharers' = [sharers EXCEPT ![f.c][f.l] = @ \ {f.child}]
         /\ st' = [st EXCEPT ![f.child][f.l] = "I"]
         /\ GoTo(p, "end")
    /\ UNCHANGED <<present, excl, locks, wb, dirty>>

\* Mutant: what the other children wrote back is forgotten.
GrantClean(p, s) ==
    LET f == Frame(p) IN
    /\ st' = [st EXCEPT ![f.child][f.l] = s]
    /\ excl' = [excl EXCEPT ![f.c][f.l] = Exclusive(s)]
    /\ wb' = [wb EXCEPT ![p] = FALSE]
    /\ GoTo(p, "end")

\* The child gets s; what the other children wrote back makes the line M here.
Grant(p, s) ==
    LET f == Frame(p)
        granted == [st EXCEPT ![f.child][f.l] = s]
    IN
    /\ st' = IF wb[p] THEN [granted EXCEPT ![f.c][f.l] = "M"] ELSE granted
    /\ excl' = [excl EXCEPT ![f.c][f.l] = Exclusive(s)]
    /\ wb' = [wb EXCEPT ![p] = FALSE]
    /\ GoTo(p, "end")

GetS(p) ==
    /\ At(p, "dir") /\ Frame(p).type = "GETS"
    /\ LET f == Frame(p)
           others == sharers[f.c][f.l]
           alone == others = {} /\ Exclusive(st[f.c][f.l]) /\ ~NoExcl(p)
       IN \/ /\ ~alone /\ IsExclusive(f.c, f.l)
             /\ Expect(f.child \notin others)
             /\ Invalidate(p, f.c, f.l, "INVX", "dir")
             /\ UNCHANGED <<st, dir, wb>>
          \/ /\ ~IsExclusive(f.c, f.l)
             /\ Expect(/\ f.child \notin others
                       /\ wb[p] => Exclusive(st[f.c][f.l]))
             /\ sharers' = [sharers EXCEPT ![f.c][f.l] = @ \cup {f.child}]
             /\ Grant(p, IF alone THEN "E" ELSE "S")
    /\ UNCHANGED <<present, locks, dirty>>

\* Mutant: a store that already shares the line invalidates nobody.
GetXUpgrades(p) ==
    /\ At(p, "dir") /\ Frame(p).type = "GETX"
    /\ LET f == Frame(p)
           others == sharers[f.c][f.l]
       IN IF others # {} /\ f.child \notin others
          THEN /\ Call(p, "dir", InvFrame(Min(others), f.l, "INV"))
               /\ UNCHANGED <<st, dir, wb>>
          ELSE /\ sharers' = [sharers EXCEPT ![f.c][f.l] = {f.child}]
               /\ Grant(p, "M")
    /\ UNCHANGED <<present, locks, dirty, failed>>

GetX(p) ==
    /\ At(p, "dir") /\ Frame(p).type = "GETX"
    /\ LET f == Frame(p)
           others == sharers[f.c][f.l] \ {f.child}
       IN /\ Expect(/\ Exclusive(st[f.c][f.l])
                    /\ f.child \in sharers[f.c][f.l] => ~IsExclusive(f.c, f.l))
          /\ IF others # {}
             THEN /\ Call(p, "dir", InvFrame(Min(others), f.l, "INV"))
                  /\ sharers' = [sharers EXCEPT ![f.c][f.l] = others]
                  /\ UNCHANGED <<st, excl, wb>>
             ELSE /\ sharers' = [sharers EXCEPT ![f.c][f.l] = {f.child}]
                  /\ Grant(p, "M")
    /\ UNCHANGED <<present, locks, dirty>>

\* endAccess(): the child is locked again before this cache is released.
End(p) ==
    /\ At(p, "end")
    /\ LET f == Frame(p) IN
         /\ f.child # Nobody => bcc[f.child] = Nobody
         /\ bcc' = [c \in Caches |-> IF c = f.child THEN p
                                     ELSE IF c = f.c THEN Nobody ELSE bcc[c]]
         /\ tcc' = IF f.c \in Terminals THEN tcc ELSE [tcc EXCEPT ![f.c] = Nobody]
    /\ Return(p)
    /\ UNCHANGED <<st, present, dir, wb, dirty, failed>>

----------------------------------------------------------------------------
(* Invalidations, from a parent that holds its own bottom lock.             *)

\* startInvalidate(), then the lookup of finishInvalidate().
InvLock(p) ==
    /\ At(p, "lock")
    /\ LET f == Frame(p) IN
         /\ bcc[f.c] = Nobody
         /\ bcc' = [bcc EXCEPT ![f.c] = p]
         /\ Expect(f.l \in present[f.c])
    /\ GoTo(p, "down")
    /\ UNCHANGED <<st, present, dir, tcc, wb, dirty>>

\* "Don't propagate downgrades if sharers are not exclusive."
Propagates(f) == IF f.type = "INVX" THEN IsExclusive(f.c, f.l) ELSE sharers[f.c][f.l] # {}

InvChildren(p) ==
    /\ At(p, "down") /\ Propagates(Frame(p))
    /\ Invalidate(p, Frame(p).c, Frame(p).l, Frame(p).type, "down")
    /\ UNCHANGED <<st, present, dir, locks, wb, dirty, failed>>

\* MESIBottomCC::processInval; back in the parent, sendInvalidates() takes
\* the child off the list or clears the exclusive flag.
InvSelf(p) ==
    /\ At(p, "down") /\ ~Propagates(Frame(p))
    /\ LET f == Frame(p)
           up == Parent[f.c][f.l]
           s == st[f.c][f.l]
       IN /\ Expect(s # "I" /\ (f.type = "INVX" => Exclusive(s)))
          /\ wb' = [wb EXCEPT ![p] = @ \/ s = "M"]
          /\ st' = [st EXCEPT ![f.c][f.l] = IF f.type = "INVX" THEN "S" ELSE "I"]
          /\ bcc' = [bcc EXCEPT ![f.c] = Nobody]
          /\ IF f.type = "INV"
             THEN sharers' = [sharers EXCEPT ![up][f.l] = @ \ {f.c}] /\ UNCHANGED excl
             ELSE excl' = [excl EXCEPT ![up][f.l] = FALSE] /\ UNCHANGED sharers
    /\ Return(p)
    /\ UNCHANGED <<present, tcc, dirty>>

----------------------------------------------------------------------------
Step(p) == \/ TakeTcc(p) \/ TakeBcc(p)
           \/ EvictChildren(p) \/ EvictSelf(p) \/ Insert(p)
           \/ Fetch(p) \/ Fetched(p)
           \/ Put(p) \/ GetS(p) \/ GetX(p)
           \/ End(p)
           \/ InvLock(p) \/ InvChildren(p) \/ InvSelf(p)

Next == \E p \in Cores : Start(p) \/ Step(p)

Spec == Init /\ [][Next]_vars

----------------------------------------------------------------------------
(* Properties. *)

\* A line a core may write is in no other core's cache; more generally no
\* sibling of an exclusive copy has a copy (coherence_ctrls.cpp:261).
SingleWriter ==
    \A l \in Lines : \A c \in Caches : Exclusive(st[c][l]) =>
        \A d \in Caches \ {c} :
            \/ c \in Terminals /\ d \in Terminals
            \/ Parent[c][l] = Parent[d][l] /\ Parent[c][l] # Memory
            => st[d][l] = "I"

Children(c, l) == {d \in Caches : Parent[d][l] = c}

\* While nobody works on a cache, its directory lists exactly the children
\* that have the line, and the exclusive flag is their permission.
DirectoryExact ==
    \A c \in Caches \ Terminals, l \in Lines :
        bcc[c] = Nobody =>
            /\ sharers[c][l] = {d \in Children(c, l) : st[d][l] # "I"}
            /\ \A d \in sharers[c][l] : IsExclusive(c, l) <=> Exclusive(st[d][l])

\* No assertion and no panic of the controllers is reached: in particular the
\* only races are those CheckForMESIRace expects, no PUT finds its line gone
\* ("We lost inclusion") and no invalidation a line that is not there.
NoAssertFails == ~failed

\* Where core p's writeback flag belongs: the line its innermost access evicts
\* or works on.
WritesBack(p) ==
    LET accesses == {i \in DOMAIN stack[p] : stack[p][i].type \notin {"INV", "INVX"}}
        f == stack[p][Min(accesses)]
    IN IF f.pc = "evict" THEN f.victim ELSE f.l

\* Dirty data is never dropped: a line stored to since memory last got it is M
\* in some cache, or the invalidation that took it still carries it as
\* *reqWriteback.
NoLostWriteback ==
    \A l \in Lines : dirty[l] =>
        \/ \E c \in Caches : st[c][l] = "M"
        \/ \E p \in Cores : wb[p] /\ WritesBack(p) = l

\* Whose lock core p waits for, Nobody if it can go on.
Blocker(p) ==
    IF stack[p] = <<>> THEN Nobody ELSE
    LET f == Frame(p) IN
    IF f.pc = "tcc" THEN tcc[f.c]
    ELSE IF f.pc \in {"bcc", "lock"} THEN bcc[f.c]
    ELSE IF f.pc = "end" /\ f.child # Nobody THEN bcc[f.child]
    ELSE Nobody

\* Top locks are taken upwards and bottom locks downwards, so no set of cores
\* waits for locks held within the set ("to avoid deadlocks", coherence_ctrls.h:309).
NoCircularWait ==
    \A waiting \in (SUBSET Cores) \ {{}} : \E p \in waiting : Blocker(p) \notin waiting

=============================================================================
