-------------------------- MODULE CoherenceProofs --------------------------
(***************************************************************************)
(* Proofs of the safety properties of the MESI controllers, for any tree   *)
(* of caches, any number of cores, lines and ways.                         *)
(*                                                                         *)
(* LockInv is about the calls and the locks: a core's calls go up the      *)
(* levels, then down, and a core holds exactly the locks its frames took.  *)
(* A core that waits on the way down holds bottom locks above the one it   *)
(* waits for only, one that waits on the way up top locks below it only:   *)
(* the lowest, or the highest, of a set of cores that wait for each other  *)
(* waits for none of them (NeverCircular).                                 *)
(*                                                                         *)
(* MesiInv adds the states.  Every frame says what its core knows, at its  *)
(* label, of the line in its cache, in the child that called and in the    *)
(* caches it has invalidated; these caches are locked, and a step touches  *)
(* only lines of caches its core has locked, so that what other cores know *)
(* stays true (OthersKeep).  DirInv relates each directory to its          *)
(* children, with a store under way that is off the list; PresentInv is    *)
(* inclusion.  No assertion fails where MesiInv holds (NeverFails), and it *)
(* implies DirectoryExact and SingleWriter.  KeptInv follows the dirty     *)
(* lines through writebacks (NeverLost).                                   *)
(***************************************************************************)
EXTENDS Coherence, FiniteSetTheorems, SequenceTheorems, WellFoundedInduction, TLAPS

\* A non-empty set of numbers has a least one.
LEMMA LeastNatural ==
    ASSUME NEW T \in SUBSET Nat, T # {}
    PROVE  \E x \in T : \A y \in T : x <= y
<1> DEFINE R == {p \in Nat \X Nat : p[1] < p[2]}
<1>1. R = OpToRel(<, Nat)
  BY DEF OpToRel
<1>2. IsWellFoundedOn(R, Nat)
  BY <1>1, NatLessThanWellFounded
<1>3. \E x \in T : \A y \in T : ~(<<y, x>> \in R)
  <2> HIDE DEF R
  <2> QED BY <1>2, WFMin
<1>4. \A x, y \in T : <<y, x>> \notin R => x <= y
  OBVIOUS
<1> QED BY <1>3, <1>4

\* Min is one of them.
LEMMA MinIsIn ==
    ASSUME NEW T \in SUBSET Nat, T # {}
    PROVE  Min(T) \in T
  BY LeastNatural DEF Min

-----------------------------------------------------------------------------
(* The calls of a core. *)

Inv(f) == f.type \in {"INV", "INVX"}
AccLabels == {"tcc", "bcc", "evict", "insert", "fetch", "fetched", "dir", "end"}
Frames == [c : Caches, l : Lines, type : {"GETS", "GETX", "PUTS", "PUTX", "INV", "INVX"}, child : Caches \cup {Nobody},
           init : {"I", "S", "E", "M"}, pc : AccLabels \cup {"lock", "down"}, victim : Lines \cup {NoLine}]

\* What a frame says of itself.
FrameOK(f) ==
    /\ Inv(f) => f.pc \in {"lock", "down"} /\ Parent[f.c][f.l] \in Caches
    /\ ~Inv(f) => /\ f.pc \in AccLabels
                  /\ f.child = Nobody => f.c \in Terminals
                  /\ f.child # Nobody => Parent[f.child][f.l] = f.c
                  /\ f.c \in Terminals => f.pc \notin {"tcc", "dir"}

\* Frame g is called by frame f: down from an eviction, a directory or another invalidation, or
\* up from an eviction's writeback or a fetch.
Calls(f, g) ==
    IF Inv(g) THEN f.pc \in {"evict", "dir", "down"} /\ Parent[g.c][g.l] = f.c
              ELSE ~Inv(f) /\ f.pc \in {"insert", "fetched"} /\ g.child = f.c /\ Parent[f.c][g.l] = g.c

\* Calls go up, then down: the innermost access is the highest.
Upward(s) == \A i, j \in 1 .. Len(s) : i < j /\ ~Inv(s[i]) => ~Inv(s[j]) /\ Level[s[j].c] < Level[s[i].c]
Downward(s) == \A i \in 1 .. Len(s), j \in 2 .. Len(s) : i < j /\ Inv(s[j - 1]) => Level[s[i].c] < Level[s[j].c]

StackOK(s) ==
    /\ s \in Seq(Frames)
    /\ \A i \in 1 .. Len(s) : FrameOK(s[i])
    /\ \A i \in 1 .. Len(s) - 1 : Calls(s[i + 1], s[i])
    /\ s # <<>> => s[Len(s)].child = Nobody /\ ~Inv(s[Len(s)])
    /\ Upward(s) /\ Downward(s)

\* The same call, elsewhere in its code.
SameCall(f, g) == f.c = g.c /\ f.l = g.l /\ f.child = g.child /\ (Inv(f) <=> Inv(g))

\* A stack whose top frame is replaced keeps its length and its other frames.
LEMMA Replaced ==
    ASSUME NEW s \in Seq(Frames), s # <<>>, NEW f \in Frames
    PROVE  /\ <<f>> \o Tail(s) \in Seq(Frames) /\ Len(<<f>> \o Tail(s)) = Len(s)
           /\ (<<f>> \o Tail(s))[1] = f /\ \A i \in 2 .. Len(s) : (<<f>> \o Tail(s))[i] = s[i]
<1>1. Len(s) \in Nat \ {0} /\ Tail(s) \in Seq(Frames) /\ Len(Tail(s)) = Len(s) - 1
  OBVIOUS
<1>2. \A i \in 1 .. Len(s) - 1 : Tail(s)[i] = s[i + 1]
  BY <1>1, HeadTailProperties
<1>3. <<f>> \in Seq(Frames) /\ Len(<<f>>) = 1 /\ <<f>>[1] = f
  OBVIOUS
<1>4. \A i \in 2 .. Len(s) : (<<f>> \o Tail(s))[i] = Tail(s)[i - 1]
  BY <1>1, <1>3, ConcatProperties
<1>5. \A i \in 2 .. Len(s) : i - 1 \in 1 .. Len(s) - 1 /\ (i - 1) + 1 = i
  BY <1>1
<1> QED BY <1>1, <1>2, <1>3, <1>4, <1>5, ConcatProperties

\* A stack with a frame pushed on it: every other frame moves one place down.
LEMMA Pushed ==
    ASSUME NEW s \in Seq(Frames), s # <<>>, NEW f \in Frames, NEW g \in Frames
    PROVE  /\ <<g, f>> \o Tail(s) \in Seq(Frames) /\ Len(<<g, f>> \o Tail(s)) = Len(s) + 1
           /\ (<<g, f>> \o Tail(s))[1] = g /\ (<<g, f>> \o Tail(s))[2] = f
           /\ \A i \in 3 .. Len(s) + 1 : (<<g, f>> \o Tail(s))[i] = s[i - 1]
<1>1. Len(s) \in Nat \ {0} /\ Tail(s) \in Seq(Frames) /\ Len(Tail(s)) = Len(s) - 1
  OBVIOUS
<1>2. \A i \in 1 .. Len(s) - 1 : Tail(s)[i] = s[i + 1]
  BY <1>1, HeadTailProperties
<1>3. <<g, f>> \in Seq(Frames) /\ Len(<<g, f>>) = 2 /\ <<g, f>>[1] = g /\ <<g, f>>[2] = f
  OBVIOUS
<1>4. \A i \in 3 .. Len(s) + 1 : (<<g, f>> \o Tail(s))[i] = Tail(s)[i - 2]
  BY <1>1, <1>3, ConcatProperties
<1>5. \A i \in 3 .. Len(s) + 1 : i - 2 \in 1 .. Len(s) - 1 /\ (i - 2) + 1 = i - 1
  BY <1>1
<1> QED BY <1>1, <1>2, <1>3, <1>4, <1>5, ConcatProperties

\* A stack without its top frame: every frame moves one place up.
LEMMA Popped ==
    ASSUME NEW s \in Seq(Frames), s # <<>>
    PROVE  Tail(s) \in Seq(Frames) /\ Len(Tail(s)) = Len(s) - 1 /\ \A i \in 1 .. Len(s) - 1 : Tail(s)[i] = s[i + 1]
  BY HeadTailProperties

\* A step within a call keeps the calls.
LEMMA ReplacedOK ==
    ASSUME NEW s, StackOK(s), s # <<>>, NEW f \in Frames, FrameOK(f), SameCall(s[1], f)
    PROVE  StackOK(<<f>> \o Tail(s))
<1> DEFINE r == <<f>> \o Tail(s)
           n == Len(s)
<1>1. s \in Seq(Frames) /\ n \in Nat \ {0}
  BY DEF StackOK
<1>2. r \in Seq(Frames) /\ Len(r) = n /\ r[1] = f /\ \A i \in 2 .. n : r[i] = s[i]
  BY <1>1, Replaced
<1> HIDE DEF r
<1>3. \A i \in 1 .. n : SameCall(s[i], r[i])
  BY <1>1, <1>2 DEF SameCall
<1>4. \A i \in 1 .. n : FrameOK(r[i])
  BY <1>1, <1>2 DEF StackOK
<1>5. ASSUME NEW i \in 1 .. n - 1 PROVE Calls(r[i + 1], r[i])
  <2>1. Calls(s[i + 1], s[i]) /\ i + 1 \in 2 .. n /\ i \in 1 .. n
    BY <1>1 DEF StackOK
  <2>2. r[i + 1] = s[i + 1] /\ SameCall(s[i], r[i])
    BY <1>2, <1>3, <2>1
  <2> QED BY <2>1, <2>2 DEF Calls, SameCall
<1>6. r[n].child = Nobody /\ ~Inv(r[n]) /\ n \in 1 .. n
  BY <1>1, <1>3 DEF StackOK, SameCall
<1>7. Upward(r)
  BY <1>1, <1>2, <1>3 DEF StackOK, Upward, SameCall
<1>8. Downward(r)
  BY <1>1, <1>2, <1>3 DEF StackOK, Downward, SameCall
<1> QED BY <1>2, <1>4, <1>5, <1>6, <1>7, <1>8 DEF StackOK, r

\* So does a call, up or down.
LEMMA PushedOK ==
    ASSUME NEW s, StackOK(s), s # <<>>, NEW f \in Frames, FrameOK(f), SameCall(s[1], f),
           NEW g \in Frames, FrameOK(g), Calls(f, g)
    PROVE  StackOK(<<g, f>> \o Tail(s))
<1> DEFINE r == <<g, f>> \o Tail(s)
           n == Len(s)
<1>1. s \in Seq(Frames) /\ n \in Nat \ {0}
  BY DEF StackOK
<1>2. r \in Seq(Frames) /\ Len(r) = n + 1 /\ r[1] = g /\ r[2] = f /\ \A i \in 3 .. n + 1 : r[i] = s[i - 1]
  BY <1>1, Pushed
<1> HIDE DEF r
<1>3. \A i \in 2 .. n + 1 : SameCall(s[i - 1], r[i])
  BY <1>1, <1>2 DEF SameCall
<1>4. \A i \in 1 .. n + 1 : FrameOK(r[i])
  <2>1. \A i \in 3 .. n + 1 : i - 1 \in 1 .. n
    BY <1>1
  <2> QED BY <1>1, <1>2, <2>1 DEF StackOK
<1>5. ASSUME NEW i \in 1 .. n PROVE Calls(r[i + 1], r[i])
  <2>1. CASE i = 1
    BY <1>2, <2>1
  <2>2. CASE i # 1
    <3>1. i - 1 \in 1 .. n - 1 /\ (i - 1) + 1 = i /\ i + 1 \in 3 .. n + 1 /\ i \in 2 .. n + 1 /\ (i + 1) - 1 = i
      BY <1>1, <2>2
    <3>2. Calls(s[i], s[i - 1]) /\ r[i + 1] = s[i] /\ SameCall(s[i - 1], r[i])
      BY <1>2, <1>3, <3>1 DEF StackOK
    <3> QED BY <3>2 DEF Calls, SameCall
  <2> QED BY <2>1, <2>2
<1>6. r[n + 1].child = Nobody /\ ~Inv(r[n + 1])
  <2>1. n + 1 \in 2 .. n + 1 /\ (n + 1) - 1 = n
    BY <1>1
  <2>2. SameCall(s[n], r[n + 1])
    BY <1>3, <2>1
  <2> QED BY <1>1, <2>2 DEF StackOK, SameCall
<1>7. /\ Inv(g) => Level[g.c] < Level[f.c]
      /\ ~Inv(g) => ~Inv(f) /\ Level[f.c] < Level[g.c]
  BY LevelAssumption, MemoryAssumption DEF Calls, Frames
<1>l. \A h \in Frames : Level[h.c] \in Nat
  BY LevelAssumption DEF Frames
<1>i. \A i \in 1 .. n : s[i] \in Frames
  BY <1>1
<1>8. Upward(r)
  <2> SUFFICES ASSUME NEW i \in 1 .. n + 1, NEW j \in 1 .. n + 1, i < j, ~Inv(r[i])
               PROVE  ~Inv(r[j]) /\ Level[r[j].c] < Level[r[i].c]
    BY <1>2 DEF Upward
  <2>1. j - 1 \in 1 .. n /\ j \in 2 .. n + 1 /\ SameCall(s[j - 1], r[j])
    BY <1>1, <1>3
  <2>2. CASE i = 1
    <3>1. ~Inv(f) /\ Level[f.c] < Level[g.c] /\ r[i] = g
      BY <1>2, <1>7, <2>2
    <3>2. CASE j = 2
      BY <1>2, <3>1, <3>2
    <3>3. CASE j # 2
      <4>1. 1 \in 1 .. n /\ 1 < j - 1 /\ ~Inv(s[1]) /\ s[1].c = f.c
        BY <1>1, <2>1, <3>1, <3>3 DEF SameCall
      <4>2. ~Inv(s[j - 1]) /\ Level[s[j - 1].c] < Level[s[1].c]
        BY <2>1, <4>1 DEF StackOK, Upward
      <4>3. Level[s[j - 1].c] \in Nat /\ Level[f.c] \in Nat /\ Level[g.c] \in Nat
        BY <1>l, <1>i, <2>1
      <4> QED BY <2>1, <3>1, <4>1, <4>2, <4>3 DEF SameCall
    <3> QED BY <3>2, <3>3
  <2>3. CASE i # 1
    <3>1. i - 1 \in 1 .. n /\ i \in 2 .. n + 1 /\ SameCall(s[i - 1], r[i]) /\ i - 1 < j - 1
      BY <1>1, <1>3, <2>3
    <3> QED BY <2>1, <3>1 DEF StackOK, Upward, SameCall
  <2> QED BY <2>2, <2>3
<1>9. Downward(r)
  <2> SUFFICES ASSUME NEW i \in 1 .. n + 1, NEW j \in 2 .. n + 1, i < j, Inv(r[j - 1])
               PROVE  Level[r[i].c] < Level[r[j].c]
    BY <1>2 DEF Downward
  <2>1. j - 1 \in 1 .. n /\ SameCall(s[j - 1], r[j])
    BY <1>1, <1>3
  <2>2. CASE j = 2
    BY <1>2, <1>7, <2>2
  <2>3. CASE j # 2
    <3>1. j - 1 \in 2 .. n + 1 /\ (j - 1) - 1 \in 1 .. n /\ j - 1 \in 2 .. n
      BY <2>3
    <3>2. Inv(s[(j - 1) - 1])
      BY <1>3, <3>1 DEF SameCall
    <3>3. CASE i = 1
      <4>0. 1 \in 1 .. n /\ 1 < j - 1
        BY <1>1, <3>1
      <4>1. Level[s[1].c] < Level[s[j - 1].c]
        BY <3>1, <3>2, <4>0 DEF StackOK, Downward
      <4>2. Inv(s[1])
        <5>1. CASE (j - 1) - 1 = 1
          BY <3>2, <5>1
        <5>2. CASE (j - 1) - 1 # 1
          BY <1>1, <3>1, <3>2, <5>2 DEF StackOK, Upward
        <5> QED BY <5>1, <5>2
      <4>3. Level[g.c] < Level[f.c] /\ s[1].c = f.c /\ r[i] = g
        BY <1>2, <1>7, <3>3, <4>2 DEF SameCall, Calls
      <4>4. Level[s[j - 1].c] \in Nat /\ Level[f.c] \in Nat /\ Level[g.c] \in Nat
        BY <1>l, <1>i, <2>1
      <4> QED BY <2>1, <4>1, <4>3, <4>4 DEF SameCall
    <3>4. CASE i # 1
      <4>1. i \in 2 .. n + 1 /\ i - 1 \in 1 .. n /\ i - 1 < j - 1 /\ SameCall(s[i - 1], r[i])
        BY <1>1, <1>3, <3>4
      <4> QED BY <2>1, <3>1, <3>2, <4>1 DEF StackOK, Downward, SameCall
    <3> QED BY <3>3, <3>4
  <2> QED BY <2>2, <2>3
<1> QED BY <1>2, <1>4, <1>5, <1>6, <1>8, <1>9 DEF StackOK, r

\* And a return.
LEMMA PoppedOK ==
    ASSUME NEW s, StackOK(s), s # <<>>
    PROVE  StackOK(Tail(s))
<1> DEFINE r == Tail(s)
           n == Len(s)
<1>1. s \in Seq(Frames) /\ n \in Nat \ {0}
  BY DEF StackOK
<1>2. r \in Seq(Frames) /\ Len(r) = n - 1 /\ \A i \in 1 .. n - 1 : r[i] = s[i + 1]
  BY <1>1, Popped
<1> HIDE DEF r
<1>3. \A i \in 1 .. n - 1 : FrameOK(r[i])
  BY <1>1, <1>2 DEF StackOK
<1>4. ASSUME NEW i \in 1 .. n - 2 PROVE Calls(r[i + 1], r[i])
  <2>1. i \in 1 .. n - 1 /\ i + 1 \in 1 .. n - 1
    BY <1>1
  <2> QED BY <1>2, <2>1 DEF StackOK
<1>5. r # <<>> => r[Len(r)].child = Nobody /\ ~Inv(r[Len(r)])
  <2> SUFFICES ASSUME r # <<>> PROVE r[Len(r)].child = Nobody /\ ~Inv(r[Len(r)])
    OBVIOUS
  <2>1. n - 1 \in 1 .. n - 1 /\ (n - 1) + 1 = n
    BY <1>1, <1>2
  <2> QED BY <1>2, <2>1 DEF StackOK
<1>6. Upward(r)
  BY <1>1, <1>2 DEF StackOK, Upward
<1>7. Downward(r)
  <2> SUFFICES ASSUME NEW i \in 1 .. n - 1, NEW j \in 2 .. n - 1, i < j, Inv(r[j - 1])
               PROVE  Level[r[i].c] < Level[r[j].c]
    BY <1>2 DEF Downward
  <2>1. i + 1 \in 1 .. n /\ j + 1 \in 2 .. n /\ j - 1 \in 1 .. n - 1 /\ (j - 1) + 1 = (j + 1) - 1 /\ i + 1 < j + 1
    BY <1>1
  <2>2. Downward(s) /\ Len(s) = n
    BY DEF StackOK
  <2>3. r[i] = s[i + 1] /\ r[j] = s[j + 1] /\ r[j - 1] = s[(j + 1) - 1]
    BY <1>2, <2>1
  <2>4. i + 1 \in 1 .. Len(s) /\ j + 1 \in 2 .. Len(s)
    BY <2>1, <2>2
  <2> HIDE DEF n
  <2> QED BY <2>1, <2>2, <2>3, <2>4 DEF Downward
<1>8. (\A i \in 1 .. Len(r) : FrameOK(r[i])) /\ \A i \in 1 .. Len(r) - 1 : Calls(r[i + 1], r[i])
  <2>1. Len(r) - 1 = n - 2
    BY <1>1, <1>2
  <2> QED BY <1>2, <1>3, <1>4, <2>1
<1>9. StackOK(r)
  BY <1>2, <1>5, <1>6, <1>7, <1>8 DEF StackOK
<1> QED BY <1>9 DEF r

-----------------------------------------------------------------------------
(* The locks a stack of calls holds. *)

\* Is frame i at work: its cache's bottom lock is not given up for a call to its parent.
AtWork(s, i) == s[i].pc \notin {"tcc", "bcc", "lock"} /\ (Inv(s[i]) \/ i = 1 \/ Inv(s[i - 1]))

HoldsTcc(s, c) == \E i \in 1 .. Len(s) : ~Inv(s[i]) /\ s[i].c = c /\ c \notin Terminals /\ s[i].pc # "tcc"
HoldsBcc(s, c) == \E i \in 1 .. Len(s) : s[i].c = c /\ AtWork(s, i)

\* Those of the calls below the innermost one.
BelowTcc(s, c) == \E i \in 2 .. Len(s) : ~Inv(s[i]) /\ s[i].c = c /\ c \notin Terminals /\ s[i].pc # "tcc"
BelowBcc(s, c) == \E i \in 2 .. Len(s) : s[i].c = c /\ AtWork(s, i)

FirstTcc(f, c) == ~Inv(f) /\ f.c = c /\ c \notin Terminals /\ f.pc # "tcc"
FirstBcc(f, c) == f.c = c /\ f.pc \notin {"tcc", "bcc", "lock"}

\* The locks a stack holds are those of its top frame and those of the frames below.
LEMMA HoldsSplit ==
    ASSUME NEW s \in Seq(Frames), s # <<>>, NEW c
    PROVE  /\ HoldsTcc(s, c) <=> FirstTcc(s[1], c) \/ BelowTcc(s, c)
           /\ HoldsBcc(s, c) <=> FirstBcc(s[1], c) \/ BelowBcc(s, c)
<1>1. Len(s) \in Nat \ {0} /\ \A i : i \in 1 .. Len(s) <=> i = 1 \/ i \in 2 .. Len(s)
  OBVIOUS
<1>2. HoldsTcc(s, c) <=> FirstTcc(s[1], c) \/ BelowTcc(s, c)
  BY <1>1 DEF HoldsTcc, FirstTcc, BelowTcc
<1>3. HoldsBcc(s, c) <=> FirstBcc(s[1], c) \/ BelowBcc(s, c)
  BY <1>1 DEF HoldsBcc, FirstBcc, BelowBcc, AtWork
<1> QED BY <1>2, <1>3

\* A cache is locked for one call of a stack.
LEMMA BelowOthers ==
    ASSUME NEW s, StackOK(s), s # <<>>
    PROVE  /\ ~BelowBcc(s, s[1].c)
           /\ ~Inv(s[1]) => ~BelowTcc(s, s[1].c) /\ \A c : ~BelowBcc(s, c)
<1>1. s \in Seq(Frames) /\ Len(s) \in Nat \ {0} /\ \A i \in 1 .. Len(s) : Level[s[i].c] \in Nat
  <2>1. s \in Seq(Frames) /\ Len(s) \in Nat \ {0} /\ \A i \in 1 .. Len(s) : s[i] \in Frames
    BY DEF StackOK
  <2> QED BY <2>1, LevelAssumption DEF Frames
<1>2. ASSUME NEW i \in 2 .. Len(s), Inv(s[i]) PROVE Inv(s[i - 1]) /\ Inv(s[1])
  <2>1. i \in 1 .. Len(s) /\ i - 1 \in 1 .. Len(s) /\ 1 \in 1 .. Len(s) /\ 1 < i /\ i - 1 < i
    BY <1>1
  <2> QED BY <1>2, <2>1 DEF StackOK, Upward
<1>3. ASSUME NEW i \in 2 .. Len(s), AtWork(s, i) PROVE Inv(s[i - 1]) /\ Inv(s[1])
  <2>1. Inv(s[i - 1])
    BY <1>2, <1>3 DEF AtWork
  <2>2. i - 1 = 1 \/ i - 1 \in 2 .. Len(s)
    BY <1>1
  <2> QED BY <1>2, <2>1, <2>2
<1>4. ~BelowBcc(s, s[1].c)
  <2> SUFFICES ASSUME NEW i \in 2 .. Len(s), AtWork(s, i), s[i].c = s[1].c PROVE FALSE
    BY DEF BelowBcc
  <2>1. 1 \in 1 .. Len(s) /\ 1 < i /\ i \in 1 .. Len(s)
    BY <1>1
  <2>2. Level[s[1].c] < Level[s[i].c]
    BY <1>3, <2>1 DEF StackOK, Downward
  <2> QED BY <1>1, <2>1, <2>2
<1>5. ASSUME ~Inv(s[1]) PROVE ~BelowTcc(s, s[1].c)
  <2> SUFFICES ASSUME NEW i \in 2 .. Len(s), s[i].c = s[1].c PROVE FALSE
    BY DEF BelowTcc
  <2>1. 1 \in 1 .. Len(s) /\ 1 < i /\ i \in 1 .. Len(s)
    BY <1>1
  <2>2. Level[s[i].c] < Level[s[1].c]
    BY <1>5, <2>1 DEF StackOK, Upward
  <2> QED BY <1>1, <2>1, <2>2
<1>6. ASSUME ~Inv(s[1]), NEW c PROVE ~BelowBcc(s, c)
  BY <1>3, <1>6 DEF BelowBcc
<1> QED BY <1>4, <1>5, <1>6

\* What a step within a call, a call and a return do to them.
LEMMA HoldsReplaced ==
    ASSUME NEW s, StackOK(s), s # <<>>, NEW f \in Frames, SameCall(s[1], f), NEW c
    PROVE  /\ HoldsTcc(<<f>> \o Tail(s), c) <=> FirstTcc(f, c) \/ BelowTcc(s, c)
           /\ HoldsBcc(<<f>> \o Tail(s), c) <=> FirstBcc(f, c) \/ BelowBcc(s, c)
<1> DEFINE r == <<f>> \o Tail(s)
           n == Len(s)
<1>1. s \in Seq(Frames) /\ n \in Nat \ {0}
  BY DEF StackOK
<1>2. r \in Seq(Frames) /\ r # <<>> /\ Len(r) = n /\ r[1] = f /\ \A i \in 2 .. n : r[i] = s[i]
  BY <1>1, Replaced
<1> HIDE DEF r
<1>3. BelowTcc(r, c) <=> BelowTcc(s, c)
  BY <1>2 DEF BelowTcc
<1>4. ASSUME NEW i \in 2 .. n PROVE AtWork(r, i) <=> AtWork(s, i)
  <2>1. CASE i = 2
    BY <1>2, <2>1 DEF AtWork, SameCall
  <2>2. CASE i # 2
    <3>1. i - 1 \in 2 .. n
      BY <1>1, <2>2
    <3> QED BY <1>2, <2>2, <3>1 DEF AtWork
  <2> QED BY <2>1, <2>2
<1>5. BelowBcc(r, c) <=> BelowBcc(s, c)
  BY <1>2, <1>4 DEF BelowBcc
<1> QED BY <1>2, <1>3, <1>5, HoldsSplit DEF r

\* Pushing a frame adds the new frame's locks to those the stack holds, and takes none away.
LEMMA HoldsPushed ==
    ASSUME NEW s, StackOK(s), s # <<>>, NEW f \in Frames, SameCall(s[1], f),
           NEW g \in Frames, g.pc \in {"tcc", "bcc", "lock"}, ~Inv(g) => g.c \in Terminals \/ g.pc = "tcc", NEW c
    PROVE  /\ HoldsTcc(<<g, f>> \o Tail(s), c) <=> FirstTcc(f, c) \/ BelowTcc(s, c)
           /\ Inv(g) => (HoldsBcc(<<g, f>> \o Tail(s), c) <=> FirstBcc(f, c) \/ BelowBcc(s, c))
           /\ ~Inv(g) /\ ~Inv(f) => ~HoldsBcc(<<g, f>> \o Tail(s), c)
<1> DEFINE r == <<g, f>> \o Tail(s)
           n == Len(s)
<1>1. s \in Seq(Frames) /\ n \in Nat \ {0}
  BY DEF StackOK
<1>2. r \in Seq(Frames) /\ r # <<>> /\ Len(r) = n + 1 /\ r[1] = g /\ r[2] = f /\ \A i \in 3 .. n + 1 : r[i] = s[i - 1]
  BY <1>1, Pushed
<1> HIDE DEF r
<1>3. BelowTcc(r, c) <=> FirstTcc(f, c) \/ BelowTcc(s, c)
  <2>1. ASSUME NEW i \in 3 .. n + 1, ~Inv(r[i]), r[i].c = c, c \notin Terminals, r[i].pc # "tcc" PROVE BelowTcc(s, c)
    <3>1. i - 1 \in 2 .. n /\ r[i] = s[i - 1]
      BY <1>1, <1>2
    <3> QED BY <2>1, <3>1 DEF BelowTcc
  <2>2. ASSUME NEW i \in 2 .. n, ~Inv(s[i]), s[i].c = c, c \notin Terminals, s[i].pc # "tcc" PROVE BelowTcc(r, c)
    <3>1. i + 1 \in 3 .. n + 1 /\ (i + 1) - 1 = i /\ i + 1 \in 2 .. Len(r)
      BY <1>1, <1>2
    <3>2. r[i + 1] = s[i]
      BY <1>2, <3>1
    <3> QED BY <2>2, <3>1, <3>2 DEF BelowTcc
  <2>3. \A i : i \in 2 .. n + 1 <=> i = 2 \/ i \in 3 .. n + 1
    BY <1>1
  <2>4. FirstTcc(f, c) => BelowTcc(r, c)
    BY <1>2, <2>3 DEF FirstTcc, BelowTcc
  <2>5. BelowTcc(r, c) => FirstTcc(f, c) \/ BelowTcc(s, c)
    BY <1>2, <2>1, <2>3 DEF FirstTcc, BelowTcc
  <2>6. BelowTcc(s, c) => BelowTcc(r, c)
    BY <2>2 DEF BelowTcc
  <2> QED BY <2>4, <2>5, <2>6
<1>4. HoldsTcc(r, c) <=> FirstTcc(f, c) \/ BelowTcc(s, c)
  BY <1>2, <1>3, HoldsSplit DEF FirstTcc
<1>5. HoldsBcc(r, c) <=> BelowBcc(r, c)
  BY <1>2, HoldsSplit DEF FirstBcc
<1>6. ASSUME NEW i \in 3 .. n + 1 PROVE AtWork(r, i) <=> AtWork(s, i - 1)
  <2>0. i - 1 \in 2 .. n /\ r[i] = s[i - 1]
    BY <1>1, <1>2
  <2>1. CASE i = 3
    <3>1. i - 1 = 2 /\ (i - 1) - 1 = 1
      BY <2>1
    <3> QED BY <1>2, <2>0, <3>1 DEF AtWork, SameCall
  <2>2. CASE i # 3
    <3>1. i - 1 \in 3 .. n + 1
      BY <1>1, <2>2
    <3>2. r[i - 1] = s[(i - 1) - 1]
      BY <1>2, <3>1
    <3> QED BY <2>0, <2>2, <3>1, <3>2 DEF AtWork
  <2> QED BY <2>1, <2>2
<1>7. \A i : i \in 2 .. n + 1 <=> i = 2 \/ i \in 3 .. n + 1
  BY <1>1
<1>8. BelowBcc(r, c) <=> (f.c = c /\ AtWork(r, 2)) \/ BelowBcc(s, c)
  <2>1. ASSUME NEW i \in 3 .. n + 1, r[i].c = c, AtWork(r, i) PROVE BelowBcc(s, c)
    <3>1. i - 1 \in 2 .. n /\ r[i] = s[i - 1]
      BY <1>1, <1>2
    <3> QED BY <1>6, <2>1, <3>1 DEF BelowBcc
  <2>2. ASSUME NEW i \in 2 .. n, s[i].c = c, AtWork(s, i) PROVE BelowBcc(r, c)
    <3>1. i + 1 \in 3 .. n + 1 /\ (i + 1) - 1 = i /\ i + 1 \in 2 .. Len(r)
      BY <1>1, <1>2
    <3>2. r[i + 1] = s[i] /\ (AtWork(r, i + 1) <=> AtWork(s, i))
      BY <1>2, <1>6, <3>1
    <3> QED BY <2>2, <3>1, <3>2 DEF BelowBcc
  <2>3. f.c = c /\ AtWork(r, 2) => BelowBcc(r, c)
    BY <1>2, <1>7 DEF BelowBcc
  <2>4. BelowBcc(r, c) => (f.c = c /\ AtWork(r, 2)) \/ BelowBcc(s, c)
    BY <1>2, <1>7, <2>1 DEF BelowBcc
  <2>5. BelowBcc(s, c) => BelowBcc(r, c)
    BY <2>2 DEF BelowBcc
  <2> QED BY <2>3, <2>4, <2>5
<1>9. AtWork(r, 2) <=> f.pc \notin {"tcc", "bcc", "lock"} /\ (Inv(f) \/ Inv(g))
  BY <1>2 DEF AtWork
<1>10. ASSUME ~Inv(f) PROVE ~BelowBcc(s, c)
  BY <1>10, BelowOthers DEF SameCall
<1> QED BY <1>4, <1>5, <1>8, <1>9, <1>10 DEF r, FirstBcc

\* Popping a frame leaves the locks of the frames below.
LEMMA HoldsPopped ==
    ASSUME NEW s, StackOK(s), s # <<>>, NEW c \in Caches
    PROVE  /\ HoldsTcc(Tail(s), c) <=> BelowTcc(s, c)
           /\ Inv(s[1]) => (HoldsBcc(Tail(s), c) <=> BelowBcc(s, c))
           /\ ~Inv(s[1]) => (HoldsBcc(Tail(s), c) <=> c = s[1].child)
<1> DEFINE r == Tail(s)
           n == Len(s)
<1>1. s \in Seq(Frames) /\ n \in Nat \ {0}
  BY DEF StackOK
<1>2. r \in Seq(Frames) /\ Len(r) = n - 1 /\ \A i \in 1 .. n - 1 : r[i] = s[i + 1]
  BY <1>1, Popped
<1> HIDE DEF r
<1>3. HoldsTcc(r, c) <=> BelowTcc(s, c)
  <2>1. ASSUME HoldsTcc(r, c) PROVE BelowTcc(s, c)
    <3>1. PICK i \in 1 .. n - 1 : ~Inv(r[i]) /\ r[i].c = c /\ c \notin Terminals /\ r[i].pc # "tcc"
      BY <1>2, <2>1 DEF HoldsTcc
    <3>2. i + 1 \in 2 .. n /\ r[i] = s[i + 1]
      BY <1>1, <1>2
    <3> QED BY <3>1, <3>2 DEF BelowTcc
  <2>2. ASSUME BelowTcc(s, c) PROVE HoldsTcc(r, c)
    <3>1. PICK i \in 2 .. n : ~Inv(s[i]) /\ s[i].c = c /\ c \notin Terminals /\ s[i].pc # "tcc"
      BY <2>2 DEF BelowTcc
    <3>2. i - 1 \in 1 .. n - 1 /\ (i - 1) + 1 = i
      BY <1>1
    <3>3. r[i - 1] = s[i]
      BY <1>2, <3>2
    <3> QED BY <1>2, <3>1, <3>2, <3>3 DEF HoldsTcc
  <2> QED BY <2>1, <2>2
<1>4. ASSUME Inv(s[1]), NEW i \in 1 .. n - 1 PROVE AtWork(r, i) <=> AtWork(s, i + 1)
  <2>1. i + 1 \in 2 .. n /\ r[i] = s[i + 1] /\ (i + 1) - 1 = i
    BY <1>1, <1>2
  <2>2. CASE i = 1
    BY <1>4, <2>1, <2>2 DEF AtWork
  <2>3. CASE i # 1
    <3>1. i - 1 \in 1 .. n - 1 /\ (i - 1) + 1 = i
      BY <1>1, <2>3
    <3>2. r[i - 1] = s[i]
      BY <1>2, <3>1
    <3> QED BY <2>1, <2>3, <3>2 DEF AtWork
  <2> QED BY <2>2, <2>3
<1>5. ASSUME Inv(s[1]) PROVE HoldsBcc(r, c) <=> BelowBcc(s, c)
  <2>1. ASSUME HoldsBcc(r, c) PROVE BelowBcc(s, c)
    <3>1. PICK i \in 1 .. n - 1 : r[i].c = c /\ AtWork(r, i)
      BY <1>2, <2>1 DEF HoldsBcc
    <3>2. i + 1 \in 2 .. n /\ r[i] = s[i + 1] /\ AtWork(s, i + 1)
      BY <1>1, <1>2, <1>4, <1>5, <3>1
    <3> QED BY <3>1, <3>2 DEF BelowBcc
  <2>2. ASSUME BelowBcc(s, c) PROVE HoldsBcc(r, c)
    <3>1. PICK i \in 2 .. n : s[i].c = c /\ AtWork(s, i)
      BY <2>2 DEF BelowBcc
    <3>2. i - 1 \in 1 .. n - 1 /\ (i - 1) + 1 = i
      BY <1>1
    <3>3. r[i - 1] = s[i] /\ (AtWork(r, i - 1) <=> AtWork(s, i))
      BY <1>2, <1>4, <1>5, <3>2
    <3> QED BY <1>2, <3>1, <3>2, <3>3 DEF HoldsBcc
  <2> QED BY <2>1, <2>2
<1>6. ASSUME ~Inv(s[1]) PROVE HoldsBcc(r, c) <=> c = s[1].child
  <2>1. CASE n = 1
    <3>1. s[1].child = Nobody
      BY <2>1 DEF StackOK
    <3>2. ~HoldsBcc(r, c)
      BY <1>2, <2>1 DEF HoldsBcc
    <3> QED BY <3>1, <3>2, NobodyAssumption
  <2>2. CASE n # 1
    <3>0. \A m \in Nat : m # 0 /\ m # 1 => 1 \in 1 .. m - 1
      OBVIOUS
    <3>1. 1 \in 1 .. n - 1
      BY <1>1, <2>2, <3>0
    <3>a. \A i \in 1 .. n - 1 : i = 1 => i + 1 = 2
      OBVIOUS
    <3>2. Calls(s[2], s[1])
      BY <3>1, <3>a DEF StackOK
    <3>3. r[1] = s[2] /\ s[1].child = s[2].c /\ s[2].pc \in {"insert", "fetched"}
      BY <1>2, <1>6, <3>1, <3>2 DEF Calls
    <3>4. AtWork(r, 1)
      BY <3>3 DEF AtWork
    <3>5. \A i \in 1 .. n - 1 : ~Inv(r[i])
      <4>1. ASSUME NEW i \in 1 .. n - 1 PROVE ~Inv(r[i])
        <5>1. i + 1 \in 2 .. n /\ r[i] = s[i + 1]
          BY <1>1, <1>2
        <5>2. 1 < i + 1 /\ i + 1 \in 1 .. n /\ 1 \in 1 .. n
          BY <1>1, <5>1
        <5> QED BY <1>6, <5>1, <5>2 DEF StackOK, Upward
      <4> QED BY <4>1
    <3>6. ASSUME NEW i \in 1 .. n - 1, i # 1 PROVE ~AtWork(r, i)
      <4>1. i - 1 \in 1 .. n - 1
        BY <1>1, <3>6
      <4> QED BY <3>5, <3>6, <4>1 DEF AtWork
    <3> QED BY <1>2, <3>1, <3>3, <3>4, <3>6 DEF HoldsBcc
  <2> QED BY <2>1, <2>2
<1> QED BY <1>3, <1>5, <1>6 DEF r

-----------------------------------------------------------------------------
(* Who holds which lock. *)

CohTypeOK ==
    /\ st \in [Caches -> [Lines -> {"I", "S", "E", "M"}]]
    /\ present \in [Caches -> SUBSET Lines]
    /\ sharers \in [Caches -> [Lines -> SUBSET Caches]]
    /\ excl \in [Caches -> [Lines -> BOOLEAN]]
    /\ tcc \in [Caches -> Cores \cup {Nobody}] /\ bcc \in [Caches -> Cores \cup {Nobody}]
    /\ stack \in [Cores -> Seq(Frames)]
    /\ wb \in [Cores -> BOOLEAN]
    /\ dirty \in [Lines -> BOOLEAN] /\ failed \in BOOLEAN

SharersAreChildren == \A c \in Caches, l \in Lines : \A d \in sharers[c][l] : Parent[d][l] = c

StacksOK == \A p \in Cores : StackOK(stack[p])

\* A core holds the locks its calls hold, and no others.
LocksOwned ==
    \A p \in Cores, c \in Caches :
        (tcc[c] = p <=> HoldsTcc(stack[p], c)) /\ (bcc[c] = p <=> HoldsBcc(stack[p], c))

LockInv == CohTypeOK /\ SharersAreChildren /\ StacksOK /\ LocksOwned

\* Core p's calls become r, and its locks those of r; other cores' are as before.
LEMMA OneMoves ==
    ASSUME LockInv, NEW p \in Cores, NEW r, StackOK(r), stack' = [stack EXCEPT ![p] = r],
           tcc' \in [Caches -> Cores \cup {Nobody}], bcc' \in [Caches -> Cores \cup {Nobody}],
           \A c \in Caches : tcc'[c] # tcc[c] => {tcc[c], tcc'[c]} \subseteq {p, Nobody},
           \A c \in Caches : bcc'[c] # bcc[c] => {bcc[c], bcc'[c]} \subseteq {p, Nobody},
           \A c \in Caches : tcc'[c] = p <=> HoldsTcc(r, c),
           \A c \in Caches : bcc'[c] = p <=> HoldsBcc(r, c)
    PROVE  StacksOK' /\ LocksOwned' /\ stack' \in [Cores -> Seq(Frames)]
<1>1. stack \in [Cores -> Seq(Frames)] /\ r \in Seq(Frames)
  BY DEF LockInv, CohTypeOK, StackOK
<1>2. stack' \in [Cores -> Seq(Frames)] /\ stack'[p] = r /\ \A q \in Cores : q # p => stack'[q] = stack[q]
  BY <1>1
<1>3. StacksOK'
  BY <1>2 DEF LockInv, StacksOK
<1>4. ASSUME NEW q \in Cores, NEW c \in Caches
      PROVE  (tcc'[c] = q <=> HoldsTcc(stack'[q], c)) /\ (bcc'[c] = q <=> HoldsBcc(stack'[q], c))
  <2>1. CASE q = p
    BY <1>2, <2>1
  <2>2. CASE q # p
    <3>1. (tcc'[c] = q <=> tcc[c] = q) /\ (bcc'[c] = q <=> bcc[c] = q)
      BY <2>2, NobodyAssumption
    <3>2. (tcc[c] = q <=> HoldsTcc(stack[q], c)) /\ (bcc[c] = q <=> HoldsBcc(stack[q], c))
      BY DEF LockInv, LocksOwned
    <3> QED BY <1>2, <2>2, <3>1, <3>2
  <2> QED BY <2>1, <2>2
<1>5. LocksOwned'
  BY <1>4 DEF LocksOwned
<1> QED BY <1>2, <1>3, <1>5

Held(f) == f.pc \notin {"tcc", "bcc", "lock"}

\* A frame that moves on between labels at which it has its locks keeps every core's stack and locks well.
LEMMA WithinKeeps ==
    ASSUME LockInv, NEW p \in Cores, stack[p] # <<>>, NEW f \in Frames, FrameOK(f), SameCall(stack[p][1], f),
           Held(stack[p][1]), Held(f), stack' = [stack EXCEPT ![p] = <<f>> \o Tail(stack[p])], UNCHANGED <<tcc, bcc>>
    PROVE  StacksOK' /\ LocksOwned' /\ stack' \in [Cores -> Seq(Frames)]
<1> DEFINE s == stack[p]
           r == <<f>> \o Tail(s)
<1>1. StackOK(s) /\ s \in Seq(Frames)
  BY DEF LockInv, StacksOK, StackOK
<1>2. StackOK(r)
  BY <1>1, ReplacedOK
<1>3. ASSUME NEW c \in Caches PROVE (tcc[c] = p <=> HoldsTcc(r, c)) /\ (bcc[c] = p <=> HoldsBcc(r, c))
  <2>1. (HoldsTcc(s, c) <=> HoldsTcc(r, c)) /\ (HoldsBcc(s, c) <=> HoldsBcc(r, c))
    <3>1. (FirstTcc(s[1], c) <=> FirstTcc(f, c)) /\ (FirstBcc(s[1], c) <=> FirstBcc(f, c))
      BY DEF FirstTcc, FirstBcc, SameCall, Held
    <3> QED BY <1>1, <3>1, HoldsSplit, HoldsReplaced
  <2> QED BY <2>1 DEF LockInv, LocksOwned
<1> HIDE DEF r
<1>4. stack' = [stack EXCEPT ![p] = r]
  BY DEF r
<1> QED BY <1>2, <1>3, <1>4, OneMoves DEF LockInv, CohTypeOK

\* A call down, that of an invalidation, keeps every core's stack and locks well.
LEMMA DownKeeps ==
    ASSUME LockInv, NEW p \in Cores, stack[p] # <<>>, NEW f \in Frames, FrameOK(f), SameCall(stack[p][1], f),
           Held(stack[p][1]), Held(f), NEW g \in Frames, Inv(g), g.pc = "lock", FrameOK(g), Calls(f, g),
           stack' = [stack EXCEPT ![p] = <<g, f>> \o Tail(stack[p])], UNCHANGED <<tcc, bcc>>
    PROVE  StacksOK' /\ LocksOwned' /\ stack' \in [Cores -> Seq(Frames)]
<1> DEFINE s == stack[p]
           r == <<g, f>> \o Tail(s)
<1>1. StackOK(s) /\ s \in Seq(Frames)
  BY DEF LockInv, StacksOK, StackOK
<1>2. StackOK(r)
  BY <1>1, PushedOK
<1>3. ASSUME NEW c \in Caches PROVE (tcc[c] = p <=> HoldsTcc(r, c)) /\ (bcc[c] = p <=> HoldsBcc(r, c))
  <2>1. (HoldsTcc(s, c) <=> HoldsTcc(r, c)) /\ (HoldsBcc(s, c) <=> HoldsBcc(r, c))
    <3>1. (FirstTcc(s[1], c) <=> FirstTcc(f, c)) /\ (FirstBcc(s[1], c) <=> FirstBcc(f, c))
      BY DEF FirstTcc, FirstBcc, SameCall, Held
    <3> QED BY <1>1, <3>1, HoldsSplit, HoldsPushed
  <2> QED BY <2>1 DEF LockInv, LocksOwned
<1> HIDE DEF r
<1>4. stack' = [stack EXCEPT ![p] = r]
  BY DEF r
<1> QED BY <1>2, <1>3, <1>4, OneMoves DEF LockInv, CohTypeOK

\* A call up, to the parent, keeps every core's stack and locks well.
LEMMA UpKeeps ==
    ASSUME LockInv, NEW p \in Cores, stack[p] # <<>>, NEW f \in Frames, FrameOK(f), SameCall(stack[p][1], f),
           Held(stack[p][1]), Held(f), ~Inv(f), NEW g \in Frames, ~Inv(g), g.pc = "tcc", FrameOK(g), Calls(f, g),
           stack' = [stack EXCEPT ![p] = <<g, f>> \o Tail(stack[p])],
           tcc' = tcc, bcc' = [bcc EXCEPT ![f.c] = Nobody]
    PROVE  StacksOK' /\ LocksOwned' /\ stack' \in [Cores -> Seq(Frames)]
<1> DEFINE s == stack[p]
           r == <<g, f>> \o Tail(s)
<1>1. StackOK(s) /\ s \in Seq(Frames)
  BY DEF LockInv, StacksOK, StackOK
<1>2. StackOK(r)
  BY <1>1, PushedOK
<1>3. ASSUME NEW c \in Caches PROVE (tcc[c] = p <=> HoldsTcc(r, c)) /\ ~HoldsBcc(r, c) /\ (bcc[c] = p <=> c = f.c)
  <2>1. (HoldsTcc(s, c) <=> HoldsTcc(r, c)) /\ ~HoldsBcc(r, c)
    <3>1. FirstTcc(s[1], c) <=> FirstTcc(f, c)
      BY DEF FirstTcc, SameCall, Held
    <3> QED BY <1>1, <3>1, HoldsSplit, HoldsPushed
  <2>2. HoldsBcc(s, c) <=> c = f.c
    <3>1. FirstBcc(s[1], c) <=> c = f.c
      BY DEF FirstBcc, SameCall, Held
    <3>2. ~BelowBcc(s, c)
      BY <1>1, BelowOthers DEF SameCall
    <3> QED BY <1>1, <3>1, <3>2, HoldsSplit
  <2> QED BY <2>1, <2>2 DEF LockInv, LocksOwned
<1> HIDE DEF r
<1>4. stack' = [stack EXCEPT ![p] = r]
  BY DEF r
<1>5. bcc \in [Caches -> Cores \cup {Nobody}] /\ tcc \in [Caches -> Cores \cup {Nobody}] /\ f.c \in Caches
  BY DEF LockInv, CohTypeOK, Frames
<1>6. bcc' \in [Caches -> Cores \cup {Nobody}] /\ \A c \in Caches : bcc'[c] = IF c = f.c THEN Nobody ELSE bcc[c]
  BY <1>5
<1>7. \A c \in Caches : bcc'[c] # bcc[c] => {bcc[c], bcc'[c]} \subseteq {p, Nobody}
  BY <1>3, <1>6
<1>8. \A c \in Caches : bcc'[c] = p <=> HoldsBcc(r, c)
  BY <1>3, <1>6, NobodyAssumption
<1> QED BY <1>2, <1>3, <1>4, <1>5, <1>6, <1>7, <1>8, OneMoves

\* A frame that takes a free lock keeps every core's stack and locks well.
LEMMA TakesKeeps ==
    ASSUME LockInv, NEW p \in Cores, stack[p] # <<>>, NEW f \in Frames, FrameOK(f), SameCall(stack[p][1], f),
           stack' = [stack EXCEPT ![p] = <<f>> \o Tail(stack[p])],
           \/ /\ stack[p][1].pc = "tcc" /\ f.pc = "bcc" /\ ~Inv(f)
              /\ tcc[f.c] = Nobody /\ tcc' = [tcc EXCEPT ![f.c] = p] /\ bcc' = bcc
           \/ /\ stack[p][1].pc \in {"bcc", "lock"} /\ Held(f)
              /\ bcc[f.c] = Nobody /\ bcc' = [bcc EXCEPT ![f.c] = p] /\ tcc' = tcc
    PROVE  StacksOK' /\ LocksOwned' /\ stack' \in [Cores -> Seq(Frames)]
<1> DEFINE s == stack[p]
           r == <<f>> \o Tail(s)
<1>1. StackOK(s) /\ s \in Seq(Frames)
  BY DEF LockInv, StacksOK, StackOK
<1>2. StackOK(r)
  BY <1>1, ReplacedOK
<1>5. bcc \in [Caches -> Cores \cup {Nobody}] /\ tcc \in [Caches -> Cores \cup {Nobody}] /\ f.c \in Caches
  BY DEF LockInv, CohTypeOK, Frames
<1>3. ASSUME NEW c \in Caches
      PROVE  /\ tcc[c] = p <=> FirstTcc(s[1], c) \/ BelowTcc(s, c)
             /\ bcc[c] = p <=> FirstBcc(s[1], c) \/ BelowBcc(s, c)
             /\ HoldsTcc(r, c) <=> FirstTcc(f, c) \/ BelowTcc(s, c)
             /\ HoldsBcc(r, c) <=> FirstBcc(f, c) \/ BelowBcc(s, c)
  BY <1>1, HoldsSplit, HoldsReplaced DEF LockInv, LocksOwned
<1> HIDE DEF r
<1>4. stack' = [stack EXCEPT ![p] = r]
  BY DEF r
<1>6. CASE /\ stack[p][1].pc = "tcc" /\ f.pc = "bcc" /\ ~Inv(f)
           /\ tcc[f.c] = Nobody /\ tcc' = [tcc EXCEPT ![f.c] = p] /\ bcc' = bcc
  <2>1. f.c \notin Terminals
    <3>1. FrameOK(s[1])
      BY <1>1 DEF StackOK
    <3> QED BY <1>6, <3>1 DEF FrameOK, SameCall
  <2>2. ASSUME NEW c \in Caches PROVE (FirstTcc(f, c) <=> c = f.c) /\ ~FirstTcc(s[1], c) /\ ~FirstBcc(f, c) /\ ~FirstBcc(s[1], c)
    BY <1>6, <2>1 DEF FirstTcc, FirstBcc, SameCall
  <2>3. \A c \in Caches : bcc'[c] = p <=> HoldsBcc(r, c)
    BY <1>3, <1>6, <2>2
  <2>4. \A c \in Caches : tcc'[c] = IF c = f.c THEN p ELSE tcc[c]
    BY <1>5, <1>6
  <2>5. \A c \in Caches : tcc'[c] = p <=> HoldsTcc(r, c)
    BY <1>3, <2>2, <2>4
  <2>6. tcc' \in [Caches -> Cores \cup {Nobody}] /\ bcc' \in [Caches -> Cores \cup {Nobody}]
    BY <1>5, <1>6
  <2>7. /\ \A c \in Caches : tcc'[c] # tcc[c] => {tcc[c], tcc'[c]} \subseteq {p, Nobody}
        /\ \A c \in Caches : bcc'[c] # bcc[c] => {bcc[c], bcc'[c]} \subseteq {p, Nobody}
    BY <1>6, <2>4
  <2> QED BY <1>2, <1>4, <2>3, <2>5, <2>6, <2>7, OneMoves
<1>7. CASE /\ stack[p][1].pc \in {"bcc", "lock"} /\ Held(f)
           /\ bcc[f.c] = Nobody /\ bcc' = [bcc EXCEPT ![f.c] = p] /\ tcc' = tcc
  <2>2. ASSUME NEW c \in Caches PROVE (FirstBcc(f, c) <=> c = f.c) /\ ~FirstBcc(s[1], c) /\ (FirstTcc(f, c) <=> FirstTcc(s[1], c))
    BY <1>7 DEF FirstTcc, FirstBcc, SameCall, Held
  <2>3. \A c \in Caches : tcc'[c] = p <=> HoldsTcc(r, c)
    BY <1>3, <1>7, <2>2
  <2>4. \A c \in Caches : bcc'[c] = IF c = f.c THEN p ELSE bcc[c]
    BY <1>5, <1>7
  <2>5. \A c \in Caches : bcc'[c] = p <=> HoldsBcc(r, c)
    BY <1>3, <2>2, <2>4
  <2>6. tcc' \in [Caches -> Cores \cup {Nobody}] /\ bcc' \in [Caches -> Cores \cup {Nobody}]
    BY <1>5, <1>7
  <2>7. /\ \A c \in Caches : tcc'[c] # tcc[c] => {tcc[c], tcc'[c]} \subseteq {p, Nobody}
        /\ \A c \in Caches : bcc'[c] # bcc[c] => {bcc[c], bcc'[c]} \subseteq {p, Nobody}
    BY <1>7, <2>4
  <2> QED BY <1>2, <1>4, <2>3, <2>5, <2>6, <2>7, OneMoves
<1> QED BY <1>6, <1>7

-----------------------------------------------------------------------------
(* Returns. *)

\* An access gives its locks back, its caller its own.
LEMMA EndKeeps ==
    ASSUME LockInv, NEW p \in Cores, End(p)
    PROVE  StacksOK' /\ LocksOwned' /\ stack' \in [Cores -> Seq(Frames)]
           /\ tcc' \in [Caches -> Cores \cup {Nobody}] /\ bcc' \in [Caches -> Cores \cup {Nobody}]
<1> DEFINE s == stack[p]
           f == stack[p][1]
           r == Tail(stack[p])
<1>1. StackOK(s) /\ s \in Seq(Frames) /\ s # <<>> /\ f \in Frames /\ FrameOK(f) /\ Frame(p) = f
  BY DEF LockInv, StacksOK, StackOK, End, At, Frame
<1>2. StackOK(r) /\ stack' = [stack EXCEPT ![p] = r]
  BY <1>1, PoppedOK DEF End, Return
<1>3. f.pc = "end" /\ ~Inv(f) /\ f.c \in Caches
  BY <1>1 DEF End, At, FrameOK, Frames
<1>4. /\ f.child # Nobody => bcc[f.child] = Nobody
      /\ bcc' = [c \in Caches |-> IF c = f.child THEN p ELSE IF c = f.c THEN Nobody ELSE bcc[c]]
      /\ tcc' = IF f.c \in Terminals THEN tcc ELSE [tcc EXCEPT ![f.c] = Nobody]
  BY <1>1 DEF End
<1>5. bcc \in [Caches -> Cores \cup {Nobody}] /\ tcc \in [Caches -> Cores \cup {Nobody}]
  BY DEF LockInv, CohTypeOK
<1>6. tcc' \in [Caches -> Cores \cup {Nobody}] /\ bcc' \in [Caches -> Cores \cup {Nobody}]
  BY <1>4, <1>5
<1>7. ASSUME NEW c \in Caches
      PROVE  /\ tcc[c] = p <=> (c = f.c /\ c \notin Terminals) \/ BelowTcc(s, c)
             /\ bcc[c] = p <=> c = f.c
             /\ HoldsTcc(r, c) <=> BelowTcc(s, c)
             /\ HoldsBcc(r, c) <=> c = f.child
             /\ ~BelowTcc(s, f.c)
  <2>1. (FirstTcc(f, c) <=> c = f.c /\ c \notin Terminals) /\ (FirstBcc(f, c) <=> c = f.c)
    BY <1>3 DEF FirstTcc, FirstBcc
  <2>2. ~BelowBcc(s, c) /\ ~BelowTcc(s, f.c)
    BY <1>1, <1>3, BelowOthers
  <2>3. (tcc[c] = p <=> HoldsTcc(s, c)) /\ (bcc[c] = p <=> HoldsBcc(s, c))
    BY DEF LockInv, LocksOwned
  <2>4. (HoldsTcc(s, c) <=> FirstTcc(f, c) \/ BelowTcc(s, c)) /\ (HoldsBcc(s, c) <=> FirstBcc(f, c) \/ BelowBcc(s, c))
    BY <1>1, HoldsSplit
  <2>5. (HoldsTcc(r, c) <=> BelowTcc(s, c)) /\ (HoldsBcc(r, c) <=> c = f.child)
    BY <1>1, <1>3, HoldsPopped
  <2> QED BY <2>1, <2>2, <2>3, <2>4, <2>5
<1> HIDE DEF r, s, f
<1>8. \A c \in Caches : tcc'[c] = IF c = f.c /\ c \notin Terminals THEN Nobody ELSE tcc[c]
  BY <1>4, <1>5
<1>9. \A c \in Caches : bcc'[c] = IF c = f.child THEN p ELSE IF c = f.c THEN Nobody ELSE bcc[c]
  BY <1>4
<1>10. \A c \in Caches : tcc'[c] = p <=> HoldsTcc(r, c)
  BY <1>7, <1>8, NobodyAssumption
<1>11. \A c \in Caches : bcc'[c] = p <=> HoldsBcc(r, c)
  BY <1>7, <1>9, NobodyAssumption
<1>12. \A c \in Caches : tcc'[c] # tcc[c] => {tcc[c], tcc'[c]} \subseteq {p, Nobody}
  BY <1>7, <1>8
<1>13. \A c \in Caches : bcc'[c] # bcc[c] => {bcc[c], bcc'[c]} \subseteq {p, Nobody}
  BY <1>4, <1>7, <1>9, NobodyAssumption
<1> QED BY <1>2, <1>6, <1>10, <1>11, <1>12, <1>13, OneMoves

\* An invalidation leaves its cache.
LEMMA InvReturns ==
    ASSUME LockInv, NEW p \in Cores, stack[p] # <<>>, stack[p][1].pc = "down",
           stack' = [stack EXCEPT ![p] = Tail(stack[p])], tcc' = tcc, bcc' = [bcc EXCEPT ![stack[p][1].c] = Nobody]
    PROVE  StacksOK' /\ LocksOwned' /\ stack' \in [Cores -> Seq(Frames)] /\ bcc' \in [Caches -> Cores \cup {Nobody}]
<1> DEFINE s == stack[p]
           f == stack[p][1]
           r == Tail(stack[p])
<1>1. StackOK(s) /\ s \in Seq(Frames) /\ s # <<>> /\ f \in Frames /\ FrameOK(f)
  BY DEF LockInv, StacksOK, StackOK
<1>2. StackOK(r)
  BY <1>1, PoppedOK
<1>3. Inv(f) /\ f.c \in Caches
  BY <1>1 DEF FrameOK, Frames, AccLabels
<1>5. bcc \in [Caches -> Cores \cup {Nobody}] /\ tcc \in [Caches -> Cores \cup {Nobody}]
  BY DEF LockInv, CohTypeOK
<1>6. tcc' \in [Caches -> Cores \cup {Nobody}] /\ bcc' \in [Caches -> Cores \cup {Nobody}]
  BY <1>5
<1>7. ASSUME NEW c \in Caches
      PROVE  /\ tcc[c] = p <=> BelowTcc(s, c)
             /\ bcc[c] = p <=> c = f.c \/ BelowBcc(s, c)
             /\ HoldsTcc(r, c) <=> BelowTcc(s, c)
             /\ HoldsBcc(r, c) <=> BelowBcc(s, c)
             /\ ~BelowBcc(s, f.c)
  <2>1. ~FirstTcc(f, c) /\ (FirstBcc(f, c) <=> c = f.c)
    BY <1>3 DEF FirstTcc, FirstBcc
  <2>2. ~BelowBcc(s, f.c)
    BY <1>1, BelowOthers
  <2>3. (tcc[c] = p <=> HoldsTcc(s, c)) /\ (bcc[c] = p <=> HoldsBcc(s, c))
    BY DEF LockInv, LocksOwned
  <2>4. (HoldsTcc(s, c) <=> FirstTcc(f, c) \/ BelowTcc(s, c)) /\ (HoldsBcc(s, c) <=> FirstBcc(f, c) \/ BelowBcc(s, c))
    BY <1>1, HoldsSplit
  <2>5. (HoldsTcc(r, c) <=> BelowTcc(s, c)) /\ (HoldsBcc(r, c) <=> BelowBcc(s, c))
    BY <1>1, <1>3, HoldsPopped
  <2> QED BY <2>1, <2>2, <2>3, <2>4, <2>5
<1>4. stack' = [stack EXCEPT ![p] = r]
  OBVIOUS
<1>9. \A c \in Caches : bcc'[c] = IF c = f.c THEN Nobody ELSE bcc[c]
  BY <1>3, <1>5
<1> HIDE DEF r, s, f
<1>10. \A c \in Caches : tcc'[c] = p <=> HoldsTcc(r, c)
  BY <1>7
<1>11. \A c \in Caches : bcc'[c] = p <=> HoldsBcc(r, c)
  BY <1>7, <1>9, NobodyAssumption
<1>13. \A c \in Caches : bcc'[c] # bcc[c] => {bcc[c], bcc'[c]} \subseteq {p, Nobody}
  BY <1>7, <1>9
<1> QED BY <1>2, <1>4, <1>6, <1>10, <1>11, <1>13, OneMoves

-----------------------------------------------------------------------------
(* The steps. *)

\* The frame a core works in is the top of its stack, which is well-formed.
LEMMA TopFrame ==
    ASSUME LockInv, NEW p \in Cores, stack[p] # <<>>
    PROVE  /\ Frame(p) = stack[p][1] /\ Frame(p) \in Frames /\ FrameOK(Frame(p))
           /\ Head(stack[p]) = stack[p][1] /\ StackOK(stack[p])
  BY DEF LockInv, StacksOK, StackOK, Frame

\* A frame at another place of its code.
LEMMA Relabelled ==
    ASSUME NEW f \in Frames, NEW label \in AccLabels \cup {"lock", "down"}
    PROVE  LET g == [f EXCEPT !.pc = label]
           IN  g \in Frames /\ g.pc = label /\ SameCall(f, g) /\ (Inv(g) <=> Inv(f)) /\ g.type = f.type
  BY DEF Frames, SameCall, Inv

\* The start of an access keeps the lock invariant.
LEMMA LockStart ==
    ASSUME LockInv, NEW p \in Cores, Start(p)
    PROVE  LockInv'
<1>1. stack[p] = <<>> /\ UNCHANGED <<st, present, sharers, excl, tcc, bcc, wb, dirty, failed>>
  BY DEF Start, dir, locks
<1>2. PICK c \in Terminal[p], l \in Lines, type \in {"GETS", "GETX"} :
          stack' = [stack EXCEPT ![p] = <<AccFrame(c, l, type, Nobody, "I")>>]
  BY DEF Start
<1> DEFINE g == AccFrame(c, l, type, Nobody, "I")
           r == <<g>>
<1>3. c \in Terminals /\ c \in Caches
  BY <1>2, TerminalAssumption DEF Terminals
<1>4. g.c = c /\ g.l = l /\ g.type = type /\ g.child = Nobody /\ g.pc = "bcc" /\ g \in Frames
  BY <1>3 DEF AccFrame, Frames, AccLabels
<1> HIDE DEF g
<1>5. r \in Seq(Frames) /\ Len(r) = 1 /\ r[1] = g
  BY <1>4
<1>6. ~Inv(g) /\ FrameOK(g)
  BY <1>3, <1>4 DEF Inv, FrameOK, AccLabels
<1> HIDE DEF r
<1>7. StackOK(r)
  BY <1>4, <1>5, <1>6 DEF StackOK, Upward, Downward
<1>8. ASSUME NEW d \in Caches PROVE ~HoldsTcc(r, d) /\ ~HoldsBcc(r, d) /\ tcc[d] # p /\ bcc[d] # p
  <2>1. ~HoldsTcc(r, d) /\ ~HoldsBcc(r, d)
    BY <1>3, <1>4, <1>5 DEF HoldsTcc, HoldsBcc, AtWork
  <2>2. ~HoldsTcc(<<>>, d) /\ ~HoldsBcc(<<>>, d)
    BY DEF HoldsTcc, HoldsBcc
  <2> QED BY <1>1, <2>1, <2>2 DEF LockInv, LocksOwned
<1>9. stack' = [stack EXCEPT ![p] = r]
  BY <1>2 DEF r, g
<1>10. StacksOK' /\ LocksOwned' /\ stack' \in [Cores -> Seq(Frames)]
  BY <1>1, <1>7, <1>8, <1>9, OneMoves DEF LockInv, CohTypeOK
<1> QED BY <1>1, <1>10 DEF LockInv, CohTypeOK, SharersAreChildren

\* A call to the parent's access, which lets the bottom lock go, keeps the lock invariant.
LEMMA ToParentKeeps ==
    ASSUME LockInv, NEW p \in Cores, stack[p] # <<>>, NEW f, f = Frame(p), ~Inv(f), f.pc \in {"evict", "fetch"},
           NEW l \in Lines, NEW type \in {"GETS", "GETX", "PUTS", "PUTX"}, NEW t \in {"I", "S", "E", "M"},
           NEW label \in {"insert", "fetched"}, ToParent(p, f.c, l, type, t, label), tcc' = tcc
    PROVE  /\ StacksOK' /\ LocksOwned' /\ stack' \in [Cores -> Seq(Frames)]
           /\ bcc' \in [Caches -> Cores \cup {Nobody}]
           /\ st' \in [Caches -> [Lines -> {"I", "S", "E", "M"}]]
           /\ dirty' \in [Lines -> BOOLEAN]
<1> DEFINE h == [f EXCEPT !.pc = label]
<1>1. f = stack[p][1] /\ f = Head(stack[p]) /\ f \in Frames /\ FrameOK(f) /\ f.c \in Caches
  BY TopFrame DEF Frames
<1>2. h \in Frames /\ h.pc = label /\ SameCall(f, h) /\ ~Inv(h)
  BY <1>1, Relabelled DEF AccLabels
<1>3. FrameOK(h) /\ Held(h) /\ Held(f) /\ h.c = f.c
  BY <1>1, <1>2 DEF FrameOK, SameCall, Held, AccLabels
<1>4. Granted(p, type) \in {"I", "S", "E", "M"}
  BY DEF Granted
<1>t. st \in [Caches -> [Lines -> {"I", "S", "E", "M"}]] /\ dirty \in [Lines -> BOOLEAN]
      /\ bcc \in [Caches -> Cores \cup {Nobody}]
  BY DEF LockInv, CohTypeOK
<1>5. CASE Parent[f.c][l] = Memory
  <2>1. stack' = [stack EXCEPT ![p] = <<h>> \o Tail(stack[p])] /\ bcc' = bcc
    BY <1>1, <1>5 DEF ToParent, GoTo, Becomes
  <2>2. /\ st' = [st EXCEPT ![f.c][l] = Granted(p, type)]
        /\ dirty' = IF type = "PUTX" THEN [dirty EXCEPT ![l] = FALSE] ELSE dirty
    BY <1>5 DEF ToParent
  <2> HIDE DEF h
  <2>3. StacksOK' /\ LocksOwned' /\ stack' \in [Cores -> Seq(Frames)]
    BY <1>1, <1>2, <1>3, <2>1, WithinKeeps
  <2>4. st' \in [Caches -> [Lines -> {"I", "S", "E", "M"}]]
    BY <1>t, <1>1, <1>4, <2>2
  <2> QED BY <1>t, <2>1, <2>2, <2>3, <2>4
<1>6. CASE Parent[f.c][l] # Memory
  <2> DEFINE g == AccFrame(Parent[f.c][l], l, type, f.c, t)
  <2>1. stack' = [stack EXCEPT ![p] = <<g, h>> \o Tail(stack[p])] /\ bcc' = [bcc EXCEPT ![f.c] = Nobody]
    BY <1>1, <1>6 DEF ToParent, Call
  <2>2. st' = [st EXCEPT ![f.c][l] = t] /\ dirty' = dirty
    BY <1>6 DEF ToParent
  <2>3. Parent[f.c][l] \in Caches /\ Parent[f.c][l] \notin Terminals
    BY <1>1, <1>6, ParentAssumption, LevelAssumption DEF Terminals
  <2>4. /\ g.c = Parent[f.c][l] /\ g.l = l /\ g.type = type /\ g.child = f.c /\ g.pc = "tcc" /\ g \in Frames
    BY <1>1, <2>3 DEF AccFrame, Frames, AccLabels
  <2> HIDE DEF g, h
  <2>5. ~Inv(g) /\ FrameOK(g) /\ Calls(h, g)
    BY <1>1, <1>2, <1>3, <2>3, <2>4, NobodyAssumption DEF Inv, FrameOK, Calls, AccLabels
  <2>6. StacksOK' /\ LocksOwned' /\ stack' \in [Cores -> Seq(Frames)]
    BY <1>1, <1>2, <1>3, <2>1, <2>4, <2>5, UpKeeps
  <2>7. st' \in [Caches -> [Lines -> {"I", "S", "E", "M"}]]
    BY <1>t, <1>1, <2>2
  <2> QED BY <1>t, <2>1, <2>2, <2>6, <2>7
<1> QED BY <1>5, <1>6

\* A call of a child's invalidation keeps the lock invariant.
LEMMA InvalidateKeeps ==
    ASSUME LockInv, NEW p \in Cores, stack[p] # <<>>, NEW label \in {"evict", "dir", "down"}, Frame(p).pc = label,
           NEW l \in Lines, NEW type \in {"INV", "INVX"}, NEW d \in Caches, Parent[d][l] = Frame(p).c,
           Call(p, label, InvFrame(d, l, type)), UNCHANGED <<tcc, bcc>>
    PROVE  StacksOK' /\ LocksOwned' /\ stack' \in [Cores -> Seq(Frames)]
<1> DEFINE f == stack[p][1]
           h == [f EXCEPT !.pc = label]
           g == InvFrame(d, l, type)
<1>1. f = Frame(p) /\ f = Head(stack[p]) /\ f \in Frames /\ FrameOK(f) /\ f.c \in Caches
  BY TopFrame DEF Frames
<1>2. h \in Frames /\ h.pc = label /\ SameCall(f, h) /\ (Inv(h) <=> Inv(f))
  BY <1>1, Relabelled DEF AccLabels
<1>3. FrameOK(h) /\ Held(h) /\ Held(f) /\ h.c = f.c
  BY <1>1, <1>2 DEF FrameOK, SameCall, Held, AccLabels
<1>4. stack' = [stack EXCEPT ![p] = <<g, h>> \o Tail(stack[p])]
  BY <1>1 DEF Call
<1>5. g.c = d /\ g.l = l /\ g.type = type /\ g.pc = "lock" /\ g \in Frames
  BY DEF InvFrame, Frames, AccLabels
<1> HIDE DEF f, g, h
<1>6. Inv(g) /\ FrameOK(g) /\ Calls(h, g)
  BY <1>1, <1>2, <1>3, <1>5 DEF Inv, FrameOK, Calls
<1> QED BY <1>1, <1>2, <1>3, <1>4, <1>5, <1>6, DownKeeps DEF f

\* A move to another label within the access keeps the lock invariant.
LEMMA GoToKeeps ==
    ASSUME LockInv, NEW p \in Cores, stack[p] # <<>>, NEW h \in Frames, FrameOK(h), SameCall(Frame(p), h),
           Held(Frame(p)), Held(h), Becomes(p, h), UNCHANGED <<tcc, bcc>>
    PROVE  StacksOK' /\ LocksOwned' /\ stack' \in [Cores -> Seq(Frames)]
<1>1. stack' = [stack EXCEPT ![p] = <<h>> \o Tail(stack[p])] /\ Frame(p) = stack[p][1]
  BY TopFrame DEF Becomes
<1> QED BY <1>1, WithinKeeps

\* Taking the top lock keeps the lock invariant.
LEMMA LockTakeTcc ==
    ASSUME LockInv, NEW p \in Cores, TakeTcc(p)
    PROVE  LockInv'
<1> DEFINE f == Frame(p)
           h == [f EXCEPT !.pc = "bcc"]
<1>1. f = stack[p][1] /\ f \in Frames /\ FrameOK(f) /\ f.pc = "tcc" /\ stack[p] # <<>> /\ f.c \in Caches
  BY TopFrame DEF TakeTcc, At, Frames
<1>2. h \in Frames /\ h.pc = "bcc" /\ SameCall(f, h) /\ (Inv(h) <=> Inv(f))
  BY <1>1, Relabelled DEF AccLabels
<1>3. FrameOK(h) /\ ~Inv(h) /\ h.c = f.c
  BY <1>1, <1>2 DEF FrameOK, SameCall, AccLabels
<1>4. stack' = [stack EXCEPT ![p] = <<h>> \o Tail(stack[p])] /\ tcc[h.c] = Nobody /\ tcc' = [tcc EXCEPT ![h.c] = p] /\ bcc' = bcc
  BY <1>3 DEF TakeTcc, GoTo, Becomes
<1>5. tcc' \in [Caches -> Cores \cup {Nobody}]
  BY <1>1, <1>3, <1>4 DEF LockInv, CohTypeOK
<1> HIDE DEF f, h
<1>6. StacksOK' /\ LocksOwned' /\ stack' \in [Cores -> Seq(Frames)]
  BY <1>1, <1>2, <1>3, <1>4, TakesKeeps
<1> QED BY <1>4, <1>5, <1>6 DEF LockInv, CohTypeOK, SharersAreChildren, TakeTcc, dir

\* Taking the bottom lock keeps the lock invariant.
LEMMA LockTakeBcc ==
    ASSUME LockInv, NEW p \in Cores, TakeBcc(p)
    PROVE  LockInv'
<1> DEFINE f == Frame(p)
<1>1. f = stack[p][1] /\ f \in Frames /\ FrameOK(f) /\ f.pc = "bcc" /\ stack[p] # <<>> /\ f.c \in Caches
  BY TopFrame DEF TakeBcc, At, Frames
<1>2. PICK label \in {"end", "fetch", "evict"}, v \in Lines \cup {NoLine} :
          stack' = [stack EXCEPT ![p] = <<[f EXCEPT !.type = TypeNow(f), !.pc = label, !.victim = v]>> \o Tail(stack[p])]
  <2>1. Victims(f.c) \subseteq Lines \cup {NoLine}
    BY <1>1 DEF Victims, LockInv, CohTypeOK
  <2> QED BY <2>1 DEF TakeBcc, Becomes
<1> DEFINE h == [f EXCEPT !.type = TypeNow(f), !.pc = label, !.victim = v]
<1>3. ~Inv(f) /\ TypeNow(f) \in {"GETS", "GETX", "PUTS", "PUTX"}
  BY <1>1 DEF FrameOK, Inv, TypeNow, Frames
<1>4. h \in Frames /\ h.pc = label /\ SameCall(f, h) /\ ~Inv(h) /\ h.c = f.c
  BY <1>1, <1>3 DEF Frames, AccLabels, SameCall, Inv
<1>5. FrameOK(h) /\ Held(h)
  BY <1>1, <1>3, <1>4 DEF FrameOK, SameCall, Held, AccLabels
<1>6. stack' = [stack EXCEPT ![p] = <<h>> \o Tail(stack[p])]
  BY <1>2
<1> HIDE DEF h
<1>7. bcc[h.c] = Nobody /\ bcc' = [bcc EXCEPT ![h.c] = p] /\ tcc' = tcc /\ failed' \in BOOLEAN
  BY <1>4 DEF TakeBcc, Expect, LockInv, CohTypeOK
<1>8. bcc' \in [Caches -> Cores \cup {Nobody}]
  BY <1>1, <1>4, <1>7 DEF LockInv, CohTypeOK
<1>9. StacksOK' /\ LocksOwned' /\ stack' \in [Cores -> Seq(Frames)]
  BY <1>1, <1>4, <1>5, <1>6, <1>7, TakesKeeps
<1> QED BY <1>7, <1>8, <1>9 DEF LockInv, CohTypeOK, SharersAreChildren, TakeBcc, dir

\* The child an invalidation goes to is on the list.
LEMMA FirstSharer ==
    ASSUME LockInv, NEW c \in Caches, NEW l \in Lines, NEW T \in SUBSET Caches, T \subseteq sharers[c][l], T # {}
    PROVE  Min(T) \in Caches /\ Parent[Min(T)][l] = c
<1>1. Min(T) \in T
  BY CachesAssumption, MinIsIn
<1> QED BY <1>1 DEF LockInv, SharersAreChildren

\* Invalidating the children of a victim keeps the lock invariant.
LEMMA LockEvictChildren ==
    ASSUME LockInv, NEW p \in Cores, EvictChildren(p)
    PROVE  LockInv'
<1> DEFINE f == Frame(p)
           d == Min(sharers[f.c][f.victim])
<1>1. f \in Frames /\ f.pc = "evict" /\ stack[p] # <<>> /\ f.c \in Caches /\ f.victim \in Lines
  BY TopFrame DEF EvictChildren, At, Frames
<1>2. sharers[f.c][f.victim] \in SUBSET Caches /\ sharers[f.c][f.victim] # {}
  BY <1>1 DEF EvictChildren, LockInv, CohTypeOK
<1>3. d \in Caches /\ Parent[d][f.victim] = f.c
  BY <1>1, <1>2, FirstSharer
<1>4. Call(p, "evict", InvFrame(d, f.victim, "INV"))
  BY DEF EvictChildren, Invalidate
<1>5. UNCHANGED <<st, present, sharers, excl, tcc, bcc, wb, dirty, failed>>
  BY DEF EvictChildren, dir, locks
<1> HIDE DEF d
<1>6. StacksOK' /\ LocksOwned' /\ stack' \in [Cores -> Seq(Frames)]
  BY <1>1, <1>3, <1>4, <1>5, InvalidateKeeps
<1> QED BY <1>5, <1>6 DEF LockInv, CohTypeOK, SharersAreChildren

\* Evicting the victim itself keeps the lock invariant.
LEMMA LockEvictSelf ==
    ASSUME LockInv, NEW p \in Cores, EvictSelf(p)
    PROVE  LockInv'
<1> DEFINE f == Frame(p)
           t == IF wb[p] THEN "M" ELSE st[f.c][f.victim]
           h == [f EXCEPT !.pc = "insert"]
<1>1. /\ f \in Frames /\ FrameOK(f) /\ f.pc = "evict" /\ stack[p] # <<>> /\ f.c \in Caches
      /\ f.victim \in Lines \cup {NoLine}
  BY TopFrame DEF EvictSelf, At, Frames
<1>2. ~Inv(f)
  BY <1>1 DEF FrameOK
<1>3. UNCHANGED <<present, sharers, excl, tcc>> /\ wb' = [wb EXCEPT ![p] = FALSE]
  BY DEF EvictSelf, dir
<1>4. wb' \in [Cores -> BOOLEAN]
  BY <1>3 DEF LockInv, CohTypeOK
<1>5. CASE GoTo(p, "insert") /\ UNCHANGED <<st, bcc, dirty>> /\ failed' \in BOOLEAN
  <2>1. h \in Frames /\ h.pc = "insert" /\ SameCall(f, h) /\ (Inv(h) <=> Inv(f))
    BY <1>1, Relabelled DEF AccLabels
  <2>2. FrameOK(h) /\ Held(h) /\ Held(f)
    BY <1>1, <2>1 DEF FrameOK, SameCall, Held, AccLabels
  <2>3. Becomes(p, h)
    BY <1>5 DEF GoTo
  <2> HIDE DEF h
  <2>4. StacksOK' /\ LocksOwned' /\ stack' \in [Cores -> Seq(Frames)]
    BY <1>1, <1>3, <1>5, <2>1, <2>2, <2>3, GoToKeeps
  <2> QED BY <1>3, <1>4, <1>5, <2>4 DEF LockInv, CohTypeOK, SharersAreChildren
<1>6. CASE /\ f.victim \in Lines /\ failed' \in BOOLEAN
           /\ ToParent(p, f.c, f.victim, IF t = "M" THEN "PUTX" ELSE "PUTS", t, "insert")
  <2>1. t \in {"I", "S", "E", "M"}
    BY <1>1, <1>6 DEF LockInv, CohTypeOK
  <2> DEFINE type == IF t = "M" THEN "PUTX" ELSE "PUTS"
  <2>2. type \in {"GETS", "GETX", "PUTS", "PUTX"} /\ ToParent(p, f.c, f.victim, type, t, "insert")
    BY <1>6
  <2> HIDE DEF type, t, f
  <2>3. /\ StacksOK' /\ LocksOwned' /\ stack' \in [Cores -> Seq(Frames)]
        /\ bcc' \in [Caches -> Cores \cup {Nobody}]
        /\ st' \in [Caches -> [Lines -> {"I", "S", "E", "M"}]]
        /\ dirty' \in [Lines -> BOOLEAN]
    BY <1>1, <1>2, <1>3, <1>6, <2>1, <2>2, ToParentKeeps DEF f
  <2> QED BY <1>3, <1>4, <1>6, <2>3 DEF LockInv, CohTypeOK, SharersAreChildren
<1>7. failed' \in BOOLEAN
  BY DEF EvictSelf, Expect, LockInv, CohTypeOK
<1>8. \/ GoTo(p, "insert") /\ UNCHANGED <<st, bcc, dirty>>
      \/ f.victim \in Lines /\ ToParent(p, f.c, f.victim, IF t = "M" THEN "PUTX" ELSE "PUTS", t, "insert")
  BY <1>1 DEF EvictSelf
<1> QED BY <1>5, <1>6, <1>7, <1>8

\* Inserting the line after the eviction keeps the lock invariant.
LEMMA LockInsert ==
    ASSUME LockInv, NEW p \in Cores, Insert(p)
    PROVE  LockInv'
<1> DEFINE f == Frame(p)
           h == [f EXCEPT !.pc = "fetch", !.victim = NoLine]
<1>1. /\ f \in Frames /\ FrameOK(f) /\ f.pc = "insert" /\ stack[p] # <<>> /\ f.c \in Caches /\ f.l \in Lines
      /\ f.victim \in Lines \cup {NoLine}
  BY TopFrame DEF Insert, At, Frames
<1>2. h \in Frames /\ h.pc = "fetch" /\ SameCall(f, h) /\ (Inv(h) <=> Inv(f))
  BY <1>1 DEF Frames, AccLabels, SameCall, Inv
<1>3. FrameOK(h) /\ Held(h) /\ Held(f)
  BY <1>1, <1>2 DEF FrameOK, SameCall, Held, AccLabels
<1>4. Becomes(p, h) /\ UNCHANGED <<st, sharers, tcc, bcc, wb, dirty>>
  BY DEF Insert, locks
<1>5. /\ failed' \in BOOLEAN /\ present' = [present EXCEPT ![f.c] = (@ \ {f.victim}) \cup {f.l}]
      /\ excl' = IF f.victim = NoLine THEN excl ELSE [excl EXCEPT ![f.c][f.victim] = FALSE]
  BY DEF Insert, Expect, LockInv, CohTypeOK
<1> HIDE DEF h
<1>6. StacksOK' /\ LocksOwned' /\ stack' \in [Cores -> Seq(Frames)]
  BY <1>1, <1>2, <1>3, <1>4, GoToKeeps
<1> HIDE DEF f
<1>7. present' \in [Caches -> SUBSET Lines] /\ excl' \in [Caches -> [Lines -> BOOLEAN]]
  BY <1>1, <1>5 DEF LockInv, CohTypeOK
<1> QED BY <1>4, <1>5, <1>6, <1>7 DEF LockInv, CohTypeOK, SharersAreChildren

\* The request of a miss or of an upgrade keeps the lock invariant.
LEMMA LockFetch ==
    ASSUME LockInv, NEW p \in Cores, Fetch(p)
    PROVE  LockInv'
<1> DEFINE f == Frame(p)
           t == st[f.c][f.l]
           label == IF f.c \in Terminals THEN "end" ELSE "dir"
           h == [f EXCEPT !.pc = label]
<1>1. /\ f \in Frames /\ FrameOK(f) /\ f.pc = "fetch" /\ stack[p] # <<>> /\ f.c \in Caches /\ f.l \in Lines
  BY TopFrame DEF Fetch, At, Frames
<1>2. ~Inv(f) /\ f.type \in {"GETS", "GETX", "PUTS", "PUTX"}
  BY <1>1 DEF FrameOK, Inv, Frames
<1>3. UNCHANGED <<present, sharers, excl, tcc, wb>>
  BY DEF Fetch, dir
<1>t. t \in {"I", "S", "E", "M"}
  BY <1>1 DEF LockInv, CohTypeOK
<1>4. CASE ToParent(p, f.c, f.l, f.type, t, "fetched") /\ UNCHANGED failed
  <2> HIDE DEF f, t
  <2>1. /\ StacksOK' /\ LocksOwned' /\ stack' \in [Cores -> Seq(Frames)]
        /\ bcc' \in [Caches -> Cores \cup {Nobody}]
        /\ st' \in [Caches -> [Lines -> {"I", "S", "E", "M"}]]
        /\ dirty' \in [Lines -> BOOLEAN]
    BY <1>1, <1>2, <1>3, <1>t, <1>4, ToParentKeeps DEF f
  <2> QED BY <1>3, <1>4, <2>1 DEF LockInv, CohTypeOK, SharersAreChildren
<1>5. CASE /\ failed' \in BOOLEAN /\ bcc' = bcc /\ GoTo(p, label)
           /\ st' = (IF f.type \in {"PUTX", "GETX"} THEN [st EXCEPT ![f.c][f.l] = "M"] ELSE st)
           /\ dirty' = (IF f.type = "GETX" THEN Stored(f.c, f.l) ELSE dirty)
  <2>0. label \in AccLabels \cup {"lock", "down"}
    BY DEF AccLabels
  <2>1. h \in Frames /\ h.pc = label /\ SameCall(f, h) /\ (Inv(h) <=> Inv(f)) /\ h.c = f.c
    BY <1>1, <2>0, Relabelled DEF SameCall
  <2>2. FrameOK(h) /\ Held(h) /\ Held(f)
    BY <1>1, <1>2, <2>1 DEF FrameOK, SameCall, Held, AccLabels
  <2>3. Becomes(p, h)
    BY <1>5 DEF GoTo
  <2> HIDE DEF h
  <2>4. StacksOK' /\ LocksOwned' /\ stack' \in [Cores -> Seq(Frames)]
    BY <1>1, <1>3, <1>5, <2>1, <2>2, <2>3, GoToKeeps
  <2>5. st' \in [Caches -> [Lines -> {"I", "S", "E", "M"}]]
    BY <1>1, <1>5 DEF LockInv, CohTypeOK
  <2>6. dirty' \in [Lines -> BOOLEAN]
    BY <1>1, <1>5 DEF LockInv, CohTypeOK, Stored
  <2> QED BY <1>3, <1>5, <2>4, <2>5, <2>6 DEF LockInv, CohTypeOK, SharersAreChildren
<1>6. failed' \in BOOLEAN
  BY DEF Fetch, Expect, LockInv, CohTypeOK
<1>7. \/ ToParent(p, f.c, f.l, f.type, t, "fetched") /\ UNCHANGED failed
      \/ /\ bcc' = bcc /\ GoTo(p, label)
         /\ st' = (IF f.type \in {"PUTX", "GETX"} THEN [st EXCEPT ![f.c][f.l] = "M"] ELSE st)
         /\ dirty' = (IF f.type = "GETX" THEN Stored(f.c, f.l) ELSE dirty)
  BY DEF Fetch
<1> QED BY <1>4, <1>5, <1>6, <1>7

\* The parent's answer keeps the lock invariant.
LEMMA LockFetched ==
    ASSUME LockInv, NEW p \in Cores, Fetched(p)
    PROVE  LockInv'
<1> DEFINE f == Frame(p)
           label == IF f.c \in Terminals THEN "end" ELSE "dir"
           h == [f EXCEPT !.pc = label]
<1>1. /\ f \in Frames /\ FrameOK(f) /\ f.pc = "fetched" /\ stack[p] # <<>> /\ f.c \in Caches /\ f.l \in Lines
  BY TopFrame DEF Fetched, At, Frames
<1>0. label \in AccLabels \cup {"lock", "down"}
  BY DEF AccLabels
<1>2. h \in Frames /\ h.pc = label /\ SameCall(f, h) /\ (Inv(h) <=> Inv(f)) /\ h.c = f.c
  BY <1>0, <1>1, Relabelled DEF SameCall
<1>3. FrameOK(h) /\ Held(h) /\ Held(f)
  BY <1>1, <1>2 DEF FrameOK, SameCall, Held, AccLabels
<1>4. Becomes(p, h) /\ UNCHANGED <<st, present, sharers, excl, tcc, bcc, wb>> /\ failed' \in BOOLEAN
  BY DEF Fetched, locks, dir, GoTo, Expect, LockInv, CohTypeOK
<1>5. dirty' \in [Lines -> BOOLEAN]
  BY <1>1 DEF Fetched, LockInv, CohTypeOK, Stored
<1> HIDE DEF h
<1>6. StacksOK' /\ LocksOwned' /\ stack' \in [Cores -> Seq(Frames)]
  BY <1>1, <1>2, <1>3, <1>4, GoToKeeps
<1> QED BY <1>4, <1>5, <1>6 DEF LockInv, CohTypeOK, SharersAreChildren

\* An access's frame between a directory's steps.
LEMMA DirFrame ==
    ASSUME LockInv, NEW p \in Cores, At(p, "dir"), NEW h, h = [Frame(p) EXCEPT !.pc = "end"]
    PROVE  /\ Frame(p) \in Frames /\ FrameOK(Frame(p)) /\ stack[p] # <<>> /\ ~Inv(Frame(p)) /\ Frame(p).pc = "dir"
           /\ Frame(p).c \in Caches /\ Frame(p).l \in Lines /\ Frame(p).child \in Caches
           /\ Parent[Frame(p).child][Frame(p).l] = Frame(p).c
           /\ h \in Frames /\ FrameOK(h) /\ SameCall(Frame(p), h) /\ Held(h) /\ Held(Frame(p))
<1> DEFINE f == Frame(p)
<1>1. f \in Frames /\ FrameOK(f) /\ f.pc = "dir" /\ stack[p] # <<>> /\ f.c \in Caches /\ f.l \in Lines
  BY TopFrame DEF At, Frames
<1>2. ~Inv(f) /\ f.child # Nobody
  BY <1>1 DEF FrameOK
<1>3. f.child \in Caches /\ Parent[f.child][f.l] = f.c
  BY <1>1, <1>2 DEF FrameOK, Frames
<1>4. h \in Frames /\ h.pc = "end" /\ SameCall(f, h) /\ (Inv(h) <=> Inv(f))
  BY <1>1, Relabelled DEF AccLabels
<1>5. FrameOK(h) /\ Held(h) /\ Held(f)
  BY <1>1, <1>4 DEF FrameOK, SameCall, Held, AccLabels
<1> QED BY <1>1, <1>2, <1>3, <1>4, <1>5

\* The answer to a writeback keeps the lock invariant.
LEMMA LockPut ==
    ASSUME LockInv, NEW p \in Cores, Put(p)
    PROVE  LockInv'
<1> DEFINE f == Frame(p)
           h == [f EXCEPT !.pc = "end"]
<1>0. At(p, "dir")
  BY DEF Put
<1>1. /\ f \in Frames /\ stack[p] # <<>> /\ f.c \in Caches /\ f.l \in Lines /\ f.child \in Caches
      /\ h \in Frames /\ FrameOK(h) /\ SameCall(f, h) /\ Held(h) /\ Held(f)
  BY <1>0, DirFrame
<1>2. Becomes(p, h) /\ UNCHANGED <<present, excl, tcc, bcc, wb, dirty>> /\ failed' \in BOOLEAN
  BY DEF Put, locks, GoTo, Expect, LockInv, CohTypeOK
<1>3. sharers' = [sharers EXCEPT ![f.c][f.l] = @ \ {f.child}] /\ st' = [st EXCEPT ![f.child][f.l] = "I"]
  BY DEF Put
<1> HIDE DEF h
<1>4. StacksOK' /\ LocksOwned' /\ stack' \in [Cores -> Seq(Frames)]
  BY <1>1, <1>2, GoToKeeps
<1> HIDE DEF f
<1>5. /\ sharers' \in [Caches -> [Lines -> SUBSET Caches]] /\ st' \in [Caches -> [Lines -> {"I", "S", "E", "M"}]]
      /\ \A c \in Caches, l \in Lines : sharers'[c][l] \subseteq sharers[c][l]
  BY <1>1, <1>3 DEF LockInv, CohTypeOK
<1>6. SharersAreChildren'
  BY <1>5 DEF LockInv, SharersAreChildren
<1> QED BY <1>2, <1>4, <1>5, <1>6 DEF LockInv, CohTypeOK

\* The sharers change by dropping some and adding the child that asked.
LEMMA GrantKeeps ==
    ASSUME LockInv, NEW p \in Cores, At(p, "dir"), NEW t \in {"I", "S", "E", "M"}, Grant(p, t),
           NEW T \in SUBSET Caches, T \subseteq sharers[Frame(p).c][Frame(p).l] \cup {Frame(p).child},
           sharers' = [sharers EXCEPT ![Frame(p).c][Frame(p).l] = T],
           UNCHANGED <<present, tcc, bcc, dirty>>, failed' \in BOOLEAN
    PROVE  LockInv'
<1> DEFINE f == Frame(p)
           h == [f EXCEPT !.pc = "end"]
<1>1. /\ f \in Frames /\ stack[p] # <<>> /\ f.c \in Caches /\ f.l \in Lines /\ f.child \in Caches
      /\ Parent[f.child][f.l] = f.c
      /\ h \in Frames /\ FrameOK(h) /\ SameCall(f, h) /\ Held(h) /\ Held(f)
  BY DirFrame
<1>2. Becomes(p, h)
  BY DEF Grant, GoTo
<1>3. /\ st' = IF wb[p] THEN [[st EXCEPT ![f.child][f.l] = t] EXCEPT ![f.c][f.l] = "M"]
                        ELSE [st EXCEPT ![f.child][f.l] = t]
      /\ excl' = [excl EXCEPT ![f.c][f.l] = Exclusive(t)] /\ wb' = [wb EXCEPT ![p] = FALSE]
      /\ sharers' = [sharers EXCEPT ![f.c][f.l] = T]
  BY DEF Grant
<1> HIDE DEF h
<1>4. StacksOK' /\ LocksOwned' /\ stack' \in [Cores -> Seq(Frames)]
  BY <1>1, <1>2, GoToKeeps
<1>s. T \subseteq sharers[f.c][f.l] \cup {f.child}
  OBVIOUS
<1> HIDE DEF f
<1>5. st' \in [Caches -> [Lines -> {"I", "S", "E", "M"}]]
  <2> DEFINE s1 == [st EXCEPT ![f.child][f.l] = t]
  <2>1. s1 \in [Caches -> [Lines -> {"I", "S", "E", "M"}]]
    BY <1>1 DEF LockInv, CohTypeOK
  <2>2. st' = IF wb[p] THEN [s1 EXCEPT ![f.c][f.l] = "M"] ELSE s1
    BY <1>3
  <2> HIDE DEF s1
  <2> QED BY <1>1, <2>1, <2>2
<1>6. excl' \in [Caches -> [Lines -> BOOLEAN]] /\ wb' \in [Cores -> BOOLEAN]
  BY <1>1, <1>3 DEF LockInv, CohTypeOK, Exclusive
<1>a. sharers \in [Caches -> [Lines -> SUBSET Caches]]
  BY DEF LockInv, CohTypeOK
<1>7. /\ sharers' \in [Caches -> [Lines -> SUBSET Caches]]
      /\ \A c \in Caches, l \in Lines : sharers'[c][l] = IF c = f.c /\ l = f.l THEN T ELSE sharers[c][l]
  <2>0. [sharers[f.c] EXCEPT ![f.l] = T] \in [Lines -> SUBSET Caches]
    BY <1>1, <1>a
  <2>1. sharers' \in [Caches -> [Lines -> SUBSET Caches]]
    BY <1>1, <1>3, <1>a, <2>0
  <2>2. \A c \in Caches : sharers'[c] = IF c = f.c THEN [sharers[c] EXCEPT ![f.l] = T] ELSE sharers[c]
    BY <1>1, <1>3, <1>a
  <2> QED BY <1>1, <1>a, <2>1, <2>2
<1>8. SharersAreChildren'
  BY <1>1, <1>7, <1>s DEF LockInv, SharersAreChildren
<1> QED BY <1>4, <1>5, <1>6, <1>7, <1>8 DEF LockInv, CohTypeOK

\* The answer to a load keeps the lock invariant.
LEMMA LockGetS ==
    ASSUME LockInv, NEW p \in Cores, GetS(p)
    PROVE  LockInv'
<1> DEFINE f == Frame(p)
           others == sharers[f.c][f.l]
           alone == others = {} /\ Exclusive(st[f.c][f.l]) /\ ~NoExcl(p)
<1>0. At(p, "dir") /\ UNCHANGED <<present, tcc, bcc, dirty>> /\ failed' \in BOOLEAN
  BY DEF GetS, Expect, locks, LockInv, CohTypeOK
<1>1. f \in Frames /\ stack[p] # <<>> /\ f.c \in Caches /\ f.l \in Lines /\ f.child \in Caches /\ f.pc = "dir"
  BY <1>0, DirFrame
<1>2. others \in SUBSET Caches
  BY <1>1 DEF LockInv, CohTypeOK
<1>3. CASE IsExclusive(f.c, f.l) /\ Invalidate(p, f.c, f.l, "INVX", "dir") /\ UNCHANGED <<st, sharers, excl, wb>>
  <2>1. others # {}
    BY <1>3, FS_EmptySet DEF IsExclusive
  <2> DEFINE d == Min(others)
  <2>2. d \in Caches /\ Parent[d][f.l] = f.c
    BY <1>1, <1>2, <2>1, FirstSharer
  <2>3. Call(p, "dir", InvFrame(d, f.l, "INVX"))
    BY <1>3 DEF Invalidate
  <2> HIDE DEF d
  <2>4. StacksOK' /\ LocksOwned' /\ stack' \in [Cores -> Seq(Frames)]
    BY <1>0, <1>1, <2>2, <2>3, InvalidateKeeps
  <2> QED BY <1>0, <1>3, <2>4 DEF LockInv, CohTypeOK, SharersAreChildren
<1>4. CASE sharers' = [sharers EXCEPT ![f.c][f.l] = @ \cup {f.child}] /\ Grant(p, IF alone THEN "E" ELSE "S")
  <2> DEFINE T == others \cup {f.child}
             t == IF alone THEN "E" ELSE "S"
  <2>1. T \in SUBSET Caches /\ t \in {"I", "S", "E", "M"} /\ T \subseteq others \cup {f.child}
    BY <1>1, <1>2
  <2>2. sharers' = [sharers EXCEPT ![f.c][f.l] = T]
    BY <1>1, <1>4 DEF LockInv, CohTypeOK
  <2>3. Grant(p, t)
    BY <1>4
  <2> HIDE DEF T, t
  <2> QED BY <1>0, <2>1, <2>2, <2>3, GrantKeeps
<1> QED BY <1>3, <1>4 DEF GetS, dir

\* The answer to a store keeps the lock invariant.
LEMMA LockGetX ==
    ASSUME LockInv, NEW p \in Cores, GetX(p)
    PROVE  LockInv'
<1> DEFINE f == Frame(p)
           others == sharers[f.c][f.l] \ {f.child}
<1>0. At(p, "dir") /\ UNCHANGED <<present, tcc, bcc, dirty>> /\ failed' \in BOOLEAN
  BY DEF GetX, Expect, locks, LockInv, CohTypeOK
<1>1. f \in Frames /\ stack[p] # <<>> /\ f.c \in Caches /\ f.l \in Lines /\ f.child \in Caches /\ f.pc = "dir"
  BY <1>0, DirFrame
<1>2. others \in SUBSET Caches /\ others \subseteq sharers[f.c][f.l]
  BY <1>1 DEF LockInv, CohTypeOK
<1>3. CASE /\ others # {} /\ Call(p, "dir", InvFrame(Min(others), f.l, "INV"))
           /\ sharers' = [sharers EXCEPT ![f.c][f.l] = others] /\ UNCHANGED <<st, excl, wb>>
  <2> DEFINE d == Min(others)
  <2>1. others # {} /\ sharers' = [sharers EXCEPT ![f.c][f.l] = others]
    BY <1>3
  <2>2. d \in Caches /\ Parent[d][f.l] = f.c
    <3> HIDE DEF others
    <3> QED BY <1>1, <1>2, <2>1, FirstSharer
  <2>3. Call(p, "dir", InvFrame(d, f.l, "INV"))
    BY <1>3
  <2> HIDE DEF d, others
  <2>4. StacksOK' /\ LocksOwned' /\ stack' \in [Cores -> Seq(Frames)]
    BY <1>0, <1>1, <2>2, <2>3, InvalidateKeeps
  <2> HIDE DEF f
  <2>5. /\ sharers' \in [Caches -> [Lines -> SUBSET Caches]]
        /\ \A c \in Caches, l \in Lines : sharers'[c][l] \subseteq sharers[c][l]
    BY <1>1, <1>2, <2>1 DEF LockInv, CohTypeOK
  <2>6. SharersAreChildren'
    BY <2>5 DEF LockInv, SharersAreChildren
  <2> QED BY <1>0, <1>3, <2>4, <2>5, <2>6 DEF LockInv, CohTypeOK
<1>4. CASE sharers' = [sharers EXCEPT ![f.c][f.l] = {f.child}] /\ Grant(p, "M")
  <2>1. {f.child} \in SUBSET Caches /\ {f.child} \subseteq sharers[f.c][f.l] \cup {f.child}
    BY <1>1
  <2> QED BY <1>0, <1>4, <2>1, GrantKeeps
<1> QED BY <1>3, <1>4 DEF GetX

\* The return of an access, which frees its locks, keeps the lock invariant.
LEMMA LockEnd ==
    ASSUME LockInv, NEW p \in Cores, End(p)
    PROVE  LockInv'
  BY EndKeeps DEF LockInv, CohTypeOK, SharersAreChildren, End, dir

\* Taking the bottom lock on the way down keeps the lock invariant.
LEMMA LockInvLock ==
    ASSUME LockInv, NEW p \in Cores, InvLock(p)
    PROVE  LockInv'
<1> DEFINE f == Frame(p)
           h == [f EXCEPT !.pc = "down"]
<1>1. f = stack[p][1] /\ f \in Frames /\ FrameOK(f) /\ f.pc = "lock" /\ stack[p] # <<>> /\ f.c \in Caches
  BY TopFrame DEF InvLock, At, Frames
<1>2. h \in Frames /\ h.pc = "down" /\ SameCall(f, h) /\ (Inv(h) <=> Inv(f))
  BY <1>1, Relabelled DEF AccLabels
<1>3. FrameOK(h) /\ Held(h) /\ h.c = f.c
  BY <1>1, <1>2 DEF FrameOK, SameCall, Held, AccLabels
<1>4. /\ stack' = [stack EXCEPT ![p] = <<h>> \o Tail(stack[p])]
      /\ bcc[h.c] = Nobody /\ bcc' = [bcc EXCEPT ![h.c] = p] /\ tcc' = tcc /\ failed' \in BOOLEAN
  BY <1>3 DEF InvLock, GoTo, Becomes, Expect, LockInv, CohTypeOK
<1>5. bcc' \in [Caches -> Cores \cup {Nobody}]
  BY <1>1, <1>3, <1>4 DEF LockInv, CohTypeOK
<1> HIDE DEF f, h
<1>6. StacksOK' /\ LocksOwned' /\ stack' \in [Cores -> Seq(Frames)]
  BY <1>1, <1>2, <1>3, <1>4, TakesKeeps
<1> QED BY <1>4, <1>5, <1>6 DEF LockInv, CohTypeOK, SharersAreChildren, InvLock, dir

\* Passing an invalidation on to the children keeps the lock invariant.
LEMMA LockInvChildren ==
    ASSUME LockInv, NEW p \in Cores, InvChildren(p)
    PROVE  LockInv'
<1> DEFINE f == Frame(p)
           d == Min(sharers[f.c][f.l])
<1>1. f \in Frames /\ FrameOK(f) /\ f.pc = "down" /\ stack[p] # <<>> /\ f.c \in Caches /\ f.l \in Lines
  BY TopFrame DEF InvChildren, At, Frames
<1>2. f.type \in {"INV", "INVX"}
  BY <1>1 DEF FrameOK, Inv, AccLabels
<1>3. sharers[f.c][f.l] \in SUBSET Caches /\ sharers[f.c][f.l] # {}
  <2>1. Propagates(f)
    BY DEF InvChildren
  <2>2. sharers[f.c][f.l] # {}
    <3>1. Cardinality({}) = 0
      BY FS_EmptySet
    <3>2. Cardinality(sharers[f.c][f.l]) = 1 \/ sharers[f.c][f.l] # {}
      BY <2>1 DEF Propagates, IsExclusive
    <3> DEFINE D == sharers[f.c][f.l]
    <3>3. Cardinality(D) = 1 \/ D # {}
      BY <3>2
    <3> HIDE DEF D
    <3>4. D # {}
      BY <3>1, <3>3
    <3> QED BY <3>4 DEF D
  <2> QED BY <1>1, <2>2 DEF LockInv, CohTypeOK
<1>4. d \in Caches /\ Parent[d][f.l] = f.c
  BY <1>1, <1>3, FirstSharer
<1>5. Call(p, "down", InvFrame(d, f.l, f.type))
  BY DEF InvChildren, Invalidate
<1>6. UNCHANGED <<st, present, sharers, excl, tcc, bcc, wb, dirty, failed>>
  BY DEF InvChildren, dir, locks
<1> HIDE DEF d
<1>7. StacksOK' /\ LocksOwned' /\ stack' \in [Cores -> Seq(Frames)]
  BY <1>1, <1>2, <1>4, <1>5, <1>6, InvalidateKeeps
<1> QED BY <1>6, <1>7 DEF LockInv, CohTypeOK, SharersAreChildren

\* The end of an invalidation, which frees the bottom lock, keeps the lock invariant.
LEMMA LockInvSelf ==
    ASSUME LockInv, NEW p \in Cores, InvSelf(p)
    PROVE  LockInv'
<1> DEFINE f == Frame(p)
           up == Parent[f.c][f.l]
<1>1. /\ f = stack[p][1] /\ f \in Frames /\ FrameOK(f) /\ f.pc = "down" /\ stack[p] # <<>> /\ f.c \in Caches
      /\ f.l \in Lines
  BY TopFrame DEF InvSelf, At, Frames
<1>2. up \in Caches
  BY <1>1 DEF FrameOK, AccLabels
<1>3. stack' = [stack EXCEPT ![p] = Tail(stack[p])] /\ tcc' = tcc /\ bcc' = [bcc EXCEPT ![f.c] = Nobody]
  BY DEF InvSelf, Return
<1>4. /\ st' = [st EXCEPT ![f.c][f.l] = IF f.type = "INVX" THEN "S" ELSE "I"]
      /\ IF f.type = "INV"
         THEN sharers' = [sharers EXCEPT ![up][f.l] = @ \ {f.c}] /\ UNCHANGED excl
         ELSE excl' = [excl EXCEPT ![up][f.l] = FALSE] /\ UNCHANGED sharers
      /\ present' = present /\ dirty' = dirty
      /\ wb' = [wb EXCEPT ![p] = @ \/ st[f.c][f.l] = "M"]
  BY DEF InvSelf
<1>5. failed' \in BOOLEAN /\ wb' \in [Cores -> BOOLEAN]
  BY <1>4 DEF InvSelf, Expect, LockInv, CohTypeOK
<1>6. StacksOK' /\ LocksOwned' /\ stack' \in [Cores -> Seq(Frames)] /\ bcc' \in [Caches -> Cores \cup {Nobody}]
  BY <1>1, <1>3, InvReturns
<1> HIDE DEF f, up
<1>a. /\ st \in [Caches -> [Lines -> {"I", "S", "E", "M"}]] /\ excl \in [Caches -> [Lines -> BOOLEAN]]
      /\ sharers \in [Caches -> [Lines -> SUBSET Caches]]
  BY DEF LockInv, CohTypeOK
<1>7. /\ st' \in [Caches -> [Lines -> {"I", "S", "E", "M"}]] /\ excl' \in [Caches -> [Lines -> BOOLEAN]]
      /\ sharers' \in [Caches -> [Lines -> SUBSET Caches]]
      /\ \A c \in Caches, l \in Lines : sharers'[c][l] \subseteq sharers[c][l]
  <2>1. st' \in [Caches -> [Lines -> {"I", "S", "E", "M"}]]
    BY <1>1, <1>4, <1>a
  <2>2. [excl[up] EXCEPT ![f.l] = FALSE] \in [Lines -> BOOLEAN]
    BY <1>1, <1>2, <1>a
  <2>5. excl' \in [Caches -> [Lines -> BOOLEAN]]
    BY <1>1, <1>2, <1>4, <1>a, <2>2
  <2>3. CASE f.type = "INV"
    <3>1. sharers' = [sharers EXCEPT ![up][f.l] = @ \ {f.c}]
      BY <1>4, <2>3
    <3>2. [sharers[up] EXCEPT ![f.l] = @ \ {f.c}] \in [Lines -> SUBSET Caches]
      BY <1>1, <1>2, <1>a
    <3>3. \A c \in Caches : sharers'[c] = IF c = up THEN [sharers[up] EXCEPT ![f.l] = @ \ {f.c}] ELSE sharers[c]
      BY <1>2, <1>a, <3>1
    <3>4. sharers' \in [Caches -> [Lines -> SUBSET Caches]]
      BY <1>2, <1>a, <3>1, <3>2
    <3>6. \A l \in Lines : [sharers[up] EXCEPT ![f.l] = @ \ {f.c}][l] \subseteq sharers[up][l]
      BY <1>1, <1>2, <1>a
    <3>5. \A c \in Caches, l \in Lines : sharers'[c][l] \subseteq sharers[c][l]
      BY <3>3, <3>6
    <3> QED BY <2>1, <2>5, <3>4, <3>5
  <2>4. CASE f.type # "INV"
    BY <1>4, <1>a, <2>1, <2>5, <2>4
  <2> QED BY <2>3, <2>4
<1>8. SharersAreChildren'
  BY <1>7 DEF LockInv, SharersAreChildren
<1> QED BY <1>3, <1>4, <1>5, <1>6, <1>7, <1>8 DEF LockInv, CohTypeOK

\* At the start no core has a call or a lock.
LEMMA LockInit ==
    ASSUME Init
    PROVE  LockInv
<1>1. CohTypeOK
  <2>1. st \in [Caches -> [Lines -> {"I", "S", "E", "M"}]] /\ present \in [Caches -> SUBSET Lines]
    BY DEF Init
  <2>2. sharers \in [Caches -> [Lines -> SUBSET Caches]] /\ excl \in [Caches -> [Lines -> BOOLEAN]]
    BY DEF Init
  <2>3. tcc \in [Caches -> Cores \cup {Nobody}] /\ bcc \in [Caches -> Cores \cup {Nobody}]
    BY DEF Init
  <2>4. stack \in [Cores -> Seq(Frames)]
    BY DEF Init
  <2>5. wb \in [Cores -> BOOLEAN] /\ dirty \in [Lines -> BOOLEAN] /\ failed \in BOOLEAN
    BY DEF Init
  <2> QED BY <2>1, <2>2, <2>3, <2>4, <2>5 DEF CohTypeOK
<1>a. SharersAreChildren
  BY DEF Init, SharersAreChildren
<1>2. StacksOK
  BY DEF Init, StacksOK, StackOK, Upward, Downward
<1>3. LocksOwned
  BY NobodyAssumption DEF Init, LocksOwned, HoldsTcc, HoldsBcc
<1> QED BY <1>1, <1>2, <1>3, <1>a DEF LockInv

\* Every step keeps the lock invariant.
LEMMA LockNext ==
    ASSUME LockInv, [Next]_vars
    PROVE  LockInv'
<1>1. ASSUME NEW p \in Cores, Step(p) PROVE LockInv'
  BY <1>1, LockTakeTcc, LockTakeBcc, LockEvictChildren, LockEvictSelf, LockInsert, LockFetch, LockFetched,
     LockPut, LockGetS, LockGetX, LockEnd, LockInvLock, LockInvChildren, LockInvSelf DEF Step
<1>2. CASE UNCHANGED vars
  BY <1>2 DEF vars, LockInv, CohTypeOK, SharersAreChildren, StacksOK, LocksOwned
<1> QED BY <1>1, <1>2, LockStart DEF Next

-----------------------------------------------------------------------------
(* Who waits for whom. *)

\* A core that waits for a top lock holds lower ones only, and no bottom lock, like one that waits for the
\* bottom lock of the cache it goes up to; one that waits for a bottom lock on the way down holds higher ones only.
LEMMA WaitersHold ==
    ASSUME LockInv, NEW p \in Cores, stack[p] # <<>>, NEW c \in Caches
    PROVE  /\ Frame(p).pc = "tcc" /\ tcc[c] = p => Level[c] < Level[Frame(p).c]
           /\ Frame(p).pc \in {"tcc", "bcc"} => bcc[c] # p
           /\ Frame(p).pc = "lock" /\ bcc[c] = p => Level[Frame(p).c] < Level[c]
           /\ Frame(p).pc = "end" /\ Frame(p).child # Nobody /\ bcc[c] = p => Level[Frame(p).child] < Level[c]
<1> DEFINE s == stack[p]
           f == stack[p][1]
<1>1. /\ StackOK(s) /\ s \in Seq(Frames) /\ s # <<>> /\ f \in Frames /\ FrameOK(f) /\ Frame(p) = f
      /\ Len(s) \in Nat \ {0}
  BY TopFrame DEF StackOK
<1>2. (tcc[c] = p <=> HoldsTcc(s, c)) /\ (bcc[c] = p <=> HoldsBcc(s, c))
  BY DEF LockInv, LocksOwned
<1>3. (HoldsTcc(s, c) <=> FirstTcc(f, c) \/ BelowTcc(s, c)) /\ (HoldsBcc(s, c) <=> FirstBcc(f, c) \/ BelowBcc(s, c))
  BY <1>1, HoldsSplit
<1>4. ~Inv(f) => \A i \in 2 .. Len(s) : Level[s[i].c] < Level[f.c]
  <2>1. \A i \in 2 .. Len(s) : 1 \in 1 .. Len(s) /\ i \in 1 .. Len(s) /\ 1 < i
    BY <1>1
  <2> QED BY <1>1, <2>1 DEF StackOK, Upward
<1>5. ~Inv(f) => ~BelowBcc(s, c)
  BY <1>1, BelowOthers
<1> HIDE DEF s, f
<1>6. f.pc = "tcc" /\ tcc[c] = p => Level[c] < Level[f.c]
  BY <1>1, <1>2, <1>3, <1>4 DEF FirstTcc, BelowTcc, FrameOK
<1>7. f.pc \in {"tcc", "bcc"} => bcc[c] # p
  BY <1>1, <1>2, <1>3, <1>5 DEF FirstBcc, FrameOK
<1>8. ASSUME f.pc = "lock", bcc[c] = p PROVE Level[f.c] < Level[c]
  <2>1. PICK i \in 2 .. Len(s) : s[i].c = c /\ AtWork(s, i)
    BY <1>2, <1>3, <1>8 DEF FirstBcc, BelowBcc
  <2>2. Inv(s[i - 1])
    <3>1. CASE Inv(s[i])
      <4>1. i - 1 \in 1 .. Len(s) /\ i \in 1 .. Len(s) /\ i - 1 < i
        BY <1>1
      <4> QED BY <1>1, <3>1, <4>1 DEF StackOK, Upward
    <3>2. CASE ~Inv(s[i])
      BY <2>1, <3>2 DEF AtWork
    <3> QED BY <3>1, <3>2
  <2>3. 1 \in 1 .. Len(s) /\ 1 < i
    BY <1>1
  <2>4. Level[s[1].c] < Level[s[i].c]
    BY <1>1, <2>2, <2>3 DEF StackOK, Downward
  <2> QED BY <2>1, <2>4 DEF f, s
<1>9. ASSUME f.pc = "end", f.child # Nobody, bcc[c] = p PROVE Level[f.child] < Level[c]
  <2>1. ~Inv(f) /\ Parent[f.child][f.l] = f.c /\ f.child \in Caches /\ f.l \in Lines /\ f.c \in Caches
    BY <1>1, <1>9 DEF FrameOK, Frames
  <2>2. f.c = c
    BY <1>2, <1>3, <1>5, <1>9, <2>1 DEF FirstBcc
  <2> QED BY <2>1, <2>2, LevelAssumption, MemoryAssumption
<1> QED BY <1>1, <1>6, <1>7, <1>8, <1>9

\* Hence no circle: a waiter in it with the lowest bottom lock to wait for, or with the highest top lock, has no
\* predecessor.
LEMMA NoCircle ==
    ASSUME LockInv
    PROVE  NoCircularWait
<1> SUFFICES ASSUME NEW W \in SUBSET Cores, W # {}, \A p \in W : Blocker(p) \in W
             PROVE  FALSE
  BY DEF NoCircularWait
<1> DEFINE Up(p) == Frame(p).pc = "tcc"
           On(p) == IF Frame(p).pc = "end" THEN Frame(p).child ELSE Frame(p).c
<1>1. \A c \in Caches : Level[c] \in 0 .. Depth /\ Level[c] \in Nat
  BY LevelAssumption
<1>2. ASSUME NEW p \in W
      PROVE  /\ stack[p] # <<>> /\ On(p) \in Caches /\ Frame(p).pc \in {"tcc", "bcc", "lock", "end"}
             /\ Frame(p).pc = "end" => Frame(p).child # Nobody
             /\ Up(p) => tcc[On(p)] = Blocker(p)
             /\ ~Up(p) => bcc[On(p)] = Blocker(p)
  <2>1. Blocker(p) \in Cores /\ Blocker(p) # Nobody /\ p \in Cores
    BY NobodyAssumption
  <2>2. stack[p] # <<>>
    BY <2>1 DEF Blocker
  <2>3. Frame(p) \in Frames
    BY <2>1, <2>2, TopFrame
  <2>4. /\ Frame(p).pc \in {"tcc", "bcc", "lock", "end"}
        /\ Frame(p).pc = "end" => Frame(p).child # Nobody
    BY <2>1, <2>2 DEF Blocker
  <2>5. On(p) \in Caches
    BY <2>3, <2>4 DEF Frames
  <2>6. (Up(p) => tcc[On(p)] = Blocker(p)) /\ (~Up(p) => bcc[On(p)] = Blocker(p))
    BY <2>2, <2>4 DEF Blocker
  <2> QED BY <2>2, <2>4, <2>5, <2>6
<1>3. ASSUME NEW p \in W, ~Up(p) PROVE \E q \in W : ~Up(q) /\ Level[On(q)] < Level[On(p)]
  <2>1. PICK q \in W : q = Blocker(p)
    OBVIOUS
  <2>2. bcc[On(p)] = q /\ On(p) \in Caches
    BY <1>2, <1>3, <2>1
  <2>3. q \in Cores /\ stack[q] # <<>> /\ Frame(q).pc \in {"tcc", "bcc", "lock", "end"} /\ (Frame(q).pc = "end" => Frame(q).child # Nobody)
    BY <1>2
  <2>4. Frame(q).pc \notin {"tcc", "bcc"}
    BY <2>2, <2>3, WaitersHold
  <2>5. Level[On(q)] < Level[On(p)]
    BY <2>2, <2>3, <2>4, WaitersHold
  <2> QED BY <2>4, <2>5
<1>4. ASSUME NEW p \in W, Up(p), Up(Blocker(p)) PROVE Level[On(p)] < Level[On(Blocker(p))]
  <2>1. PICK q \in W : q = Blocker(p)
    OBVIOUS
  <2>2. tcc[On(p)] = q /\ On(p) \in Caches /\ Frame(q).pc = "tcc" /\ q \in Cores /\ stack[q] # <<>>
    BY <1>2, <1>4, <2>1
  <2>3. Level[On(p)] < Level[Frame(q).c]
    BY <2>2, WaitersHold
  <2> QED BY <2>1, <2>2, <2>3
<1> HIDE DEF Up, On
<1>5. \A p \in W : Up(p)
  <2> SUFFICES ASSUME NEW p0 \in W, ~Up(p0) PROVE FALSE
    OBVIOUS
  <2> DEFINE T == {Level[On(p)] : p \in {q \in W : ~Up(q)}}
  <2>1. T \in SUBSET Nat /\ T # {}
    BY <1>1, <1>2
  <2>2. PICK x \in T : \A y \in T : x <= y
    <3> HIDE DEF T
    <3> QED BY <2>1, LeastNatural
  <2>3. PICK p \in W : ~Up(p) /\ x = Level[On(p)]
    OBVIOUS
  <2>4. PICK q \in W : ~Up(q) /\ Level[On(q)] < Level[On(p)]
    BY <1>3, <2>3
  <2>5. Level[On(q)] \in T /\ Level[On(q)] \in Nat /\ Level[On(p)] \in Nat
    BY <1>1, <1>2, <2>4
  <2>6. x <= Level[On(q)]
    BY <2>2, <2>5
  <2> QED BY <2>3, <2>4, <2>5, <2>6
<1>6. FALSE
  <2> DEFINE T == {Depth - Level[On(p)] : p \in W}
  <2>0. Depth \in Nat /\ \A i \in 0 .. Depth : Depth - i \in Nat
    BY LevelAssumption
  <2>1. T \in SUBSET Nat /\ T # {}
    BY <1>1, <1>2, <2>0
  <2>2. PICK x \in T : \A y \in T : x <= y
    <3> HIDE DEF T
    <3> QED BY <2>1, LeastNatural
  <2>3. PICK p \in W : x = Depth - Level[On(p)]
    OBVIOUS
  <2>4. PICK q \in W : Level[On(p)] < Level[On(q)]
    BY <1>4, <1>5, <2>3
  <2>5. Depth - Level[On(q)] \in T /\ Level[On(q)] \in Nat /\ Level[On(p)] \in Nat
    BY <1>1, <1>2, <2>4
  <2>6. x <= Depth - Level[On(q)]
    BY <2>2, <2>5
  <2> QED BY <2>0, <2>3, <2>4, <2>5, <2>6
<1> QED BY <1>6

\* No cycle of cores waits for each other's cache locks (locks go up, then down: coherence_ctrls.h:309).
THEOREM NeverCircular == Spec => []NoCircularWait
<1>1. Init => LockInv
  BY LockInit
<1>2. LockInv /\ [Next]_vars => LockInv'
  BY LockNext
<1>3. LockInv => NoCircularWait
  BY NoCircle
<1> QED BY <1>1, <1>2, <1>3, PTL DEF Spec

-----------------------------------------------------------------------------
(* What the states of the caches say of each other, and of the calls under way.  S, P, D and X are  *)
(* st, present, sharers and excl, before or after a step.                                          *)

\* The line a frame works on.
WorkLine(f) == IF f.pc = "evict" THEN f.victim ELSE f.l

\* What a request says of the requester's state, and what it is after the answer.
Wants(type, s) ==
    /\ type = "GETS" => s = "I"
    /\ type = "GETX" => s \in {"I", "S"}
    /\ type = "PUTS" => s \in {"S", "E"}
    /\ type = "PUTX" => s = "M"
Gets(type, s) ==
    /\ type = "GETS" => s \in {"S", "E"}
    /\ type = "GETX" => s = "M"
    /\ IsPut(type) => s = "I"

\* Invalidations weaken a state.
Weaker(a, b) == b = a \/ b = "I" \/ (Exclusive(a) /\ b = "S")

\* The requester's state while it waits for the parent's locks, while the parent works for it, and when it is done.
Asks(f, S) ==
    f.child # Nobody =>
        /\ f.pc \in {"tcc", "bcc"} => Wants(f.type, f.init) /\ Weaker(f.init, S[f.child][f.l])
        /\ f.pc \in {"evict", "insert", "fetch", "fetched", "dir"} => Wants(f.type, S[f.child][f.l])
        /\ f.pc = "end" => Gets(f.type, S[f.child][f.l])

\* An access of core p.
Accesses(p, f, S, P) ==
    /\ f.child = Nobody => ~IsPut(f.type)
    /\ f.c \in Terminals => f.c \in Terminal[p]
    /\ IsPut(f.type) => f.pc \notin {"evict", "insert", "fetched"}
    /\ f.pc \in {"fetch", "fetched", "dir"} => f.l \in P[f.c]
    /\ f.pc = "insert" /\ f.victim # NoLine => \A d \in Caches : Parent[d][f.victim] = f.c => S[d][f.victim] = "I"
    /\ f.pc = "dir" => /\ f.type = "GETS" => S[f.c][f.l] # "I"
                       /\ f.type = "GETX" => Exclusive(S[f.c][f.l])
                       /\ f.type = "PUTX" => S[f.c][f.l] = "M"
    /\ Asks(f, S)

\* An access whose own request has been answered.
Answered(f, S) ==
    /\ f.pc = "insert" /\ f.victim # NoLine => S[f.c][f.victim] = "I"
    /\ f.pc = "fetched" => Gets(f.type, S[f.c][f.l])

\* A call g and the frame f that made it.
Called(f, g, D, X) ==
    IF Inv(g) THEN /\ g.l = WorkLine(f) /\ (f.pc = "dir" => ~IsPut(f.type))
                   /\ g.c \in D[f.c][g.l] /\ (g.type = "INVX" => X[f.c][g.l])
              ELSE /\ f.pc = "insert" => IsPut(g.type) /\ g.l = f.victim
                   /\ f.pc = "fetched" => g.type = f.type /\ g.l = f.l

BelowInv(p, s, S, P, D, X) ==
    /\ \A i \in 2 .. Len(s) : ~Inv(s[i]) => Accesses(p, s[i], S, P)
    /\ \A i \in 2 .. Len(s) - 1 : Called(s[i + 1], s[i], D, X)

FramesInv(p, s, S, P, D, X) ==
    /\ \A i \in 1 .. Len(s) : ~Inv(s[i]) => Accesses(p, s[i], S, P)
    /\ s # <<>> /\ ~Inv(s[1]) => Answered(s[1], S)
    /\ \A i \in 1 .. Len(s) - 1 : Called(s[i + 1], s[i], D, X)

\* What was written back belongs to the line of the innermost access, which is exclusive there.
WbInv(s, w, S) ==
    w => \E k \in 1 .. Len(s) :
        /\ ~Inv(s[k]) /\ \A i \in 1 .. k - 1 : Inv(s[i])
        /\ s[k].pc \in {"evict", "dir"} /\ WorkLine(s[k]) \in Lines /\ (s[k].pc = "dir" => ~IsPut(s[k].type))
        /\ Exclusive(S[s[k].c][WorkLine(s[k])])

\* A store's request whose directory entry is being worked on, from child d: it may be off the list.
Upgrade(f, c, l, d) == f.pc = "dir" /\ f.type = "GETX" /\ f.c = c /\ f.l = l /\ f.child = d
Upgrading(K, c, l, d) == \E p \in Cores : \E i \in 1 .. Len(K[p]) : Upgrade(K[p][i], c, l, d)

\* A child d of cache c.
ChildOK(c, d, l, S, D, X, K) ==
    /\ d \in D[c][l] => S[d][l] # "I"
    /\ S[d][l] # "I" => d \in D[c][l] \/ Upgrading(K, c, l, d)
    /\ S[d][l] # "I" => S[c][l] # "I" /\ (X[c][l] <=> Exclusive(S[d][l]))
    /\ Exclusive(S[d][l]) => Exclusive(S[c][l])
    /\ X[c][l] => \A e \in Caches : e # d /\ Parent[e][l] = c => S[d][l] = "I" \/ S[e][l] = "I"

DirInv == \A l \in Lines, d \in Caches : Parent[d][l] # Memory =>
              ChildOK(Parent[d][l], d, l, st, sharers, excl, stack)

PresentInv == \A c \in Caches, l \in Lines : st[c][l] # "I" => l \in present[c]

CallsInv == \A p \in Cores : /\ FramesInv(p, stack[p], st, present, sharers, excl)
                             /\ WbInv(stack[p], wb[p], st)

MesiInv == ~failed /\ DirInv /\ PresentInv /\ CallsInv

-----------------------------------------------------------------------------
(* Stacks. *)

\* Frames below the innermost are all called from somewhere.
LEMMA NotTop ==
    ASSUME NEW s, StackOK(s), NEW i \in 2 .. Len(s)
    PROVE  /\ i - 1 \in 1 .. Len(s) - 1 /\ i - 1 \in 1 .. Len(s) /\ i \in 1 .. Len(s)
           /\ s[i] \in Frames /\ s[i - 1] \in Frames /\ Calls(s[i], s[i - 1])
           /\ \/ s[i].pc \in {"insert", "fetched"} /\ ~Inv(s[i]) /\ ~Inv(s[i - 1])
              \/ s[i].pc \in {"evict", "dir", "down"} /\ Inv(s[i - 1])
           /\ AtWork(s, i) <=> Inv(s[i - 1])
<1>1. s \in Seq(Frames) /\ Len(s) \in Nat
  BY DEF StackOK
<1>2. i - 1 \in 1 .. Len(s) - 1 /\ i - 1 \in 1 .. Len(s) /\ i \in 1 .. Len(s) /\ (i - 1) + 1 = i /\ i # 1
  BY <1>1
<1>3. Calls(s[i], s[i - 1])
  BY <1>2 DEF StackOK
<1>4. s[i] \in Frames /\ s[i - 1] \in Frames /\ FrameOK(s[i]) /\ FrameOK(s[i - 1])
  BY <1>1, <1>2 DEF StackOK
<1>5. \/ s[i].pc \in {"insert", "fetched"} /\ ~Inv(s[i]) /\ ~Inv(s[i - 1])
      \/ s[i].pc \in {"evict", "dir", "down"} /\ Inv(s[i - 1])
  BY <1>3 DEF Calls
<1>6. Inv(s[i]) => Inv(s[i - 1])
  BY <1>3 DEF Calls
<1>7. AtWork(s, i) <=> Inv(s[i - 1])
  BY <1>2, <1>5, <1>6 DEF AtWork
<1> QED BY <1>2, <1>3, <1>4, <1>5, <1>7

\* A child is one level above its parent.
LEMMA Levels ==
    ASSUME NEW s, StackOK(s), NEW i \in 1 .. Len(s), NEW j \in 1 .. Len(s), i < j
    PROVE  /\ s[i] \in Frames /\ s[j] \in Frames
           /\ Level[s[i].c] \in Nat /\ Level[s[j].c] \in Nat
           /\ ~Inv(s[i]) => ~Inv(s[j]) /\ Level[s[j].c] < Level[s[i].c]
           /\ Inv(s[j - 1]) => Level[s[i].c] < Level[s[j].c]
<1>1. s \in Seq(Frames) /\ Len(s) \in Nat /\ j \in 2 .. Len(s)
  BY DEF StackOK
<1>2. s[i] \in Frames /\ s[j] \in Frames
  BY <1>1
<1>3. Level[s[i].c] \in Nat /\ Level[s[j].c] \in Nat
  BY <1>2, LevelAssumption DEF Frames
<1>4. (~Inv(s[i]) => ~Inv(s[j]) /\ Level[s[j].c] < Level[s[i].c]) /\ (Inv(s[j - 1]) => Level[s[i].c] < Level[s[j].c])
  BY <1>1 DEF StackOK, Upward, Downward
<1> QED BY <1>2, <1>3, <1>4

\* What all frames say includes what those below the top say.
LEMMA BelowFrames ==
    ASSUME NEW p, NEW s \in Seq(Frames), NEW S, NEW P, NEW D, NEW X, FramesInv(p, s, S, P, D, X)
    PROVE  BelowInv(p, s, S, P, D, X)
  BY DEF FramesInv, BelowInv

\* Replacing the top frame leaves the other frames what they say.
LEMMA FramesReplaced ==
    ASSUME NEW p, NEW S, NEW P, NEW D, NEW X, NEW s \in Seq(Frames), s # <<>>, NEW f \in Frames,
           BelowInv(p, s, S, P, D, X), 2 \in 1 .. Len(s) => Called(s[2], f, D, X),
           ~Inv(f) => Accesses(p, f, S, P) /\ Answered(f, S)
    PROVE  FramesInv(p, <<f>> \o Tail(s), S, P, D, X)
<1> DEFINE r == <<f>> \o Tail(s)
           n == Len(s)
<1>1. n \in Nat \ {0} /\ Len(r) = n /\ r[1] = f /\ \A i \in 2 .. n : r[i] = s[i]
  BY Replaced
<1> HIDE DEF r, n
<1>2. ASSUME NEW i \in 1 .. n, ~Inv(r[i]) PROVE Accesses(p, r[i], S, P)
  <2>1. CASE i = 1
    BY <1>1, <1>2, <2>1
  <2>2. CASE i # 1
    <3>1. i \in 2 .. n
      BY <1>1, <2>2
    <3> QED BY <1>1, <1>2, <3>1 DEF BelowInv, n
  <2> QED BY <2>1, <2>2
<1>3. ASSUME NEW i \in 1 .. n - 1 PROVE Called(r[i + 1], r[i], D, X)
  <2>1. CASE i = 1
    <3>1. 2 \in 1 .. n /\ 2 \in 2 .. n /\ i + 1 = 2
      BY <1>1, <2>1
    <3> QED BY <1>1, <2>1, <3>1 DEF n
  <2>2. CASE i # 1
    <3>1. i \in 2 .. n - 1 /\ i \in 2 .. n /\ i + 1 \in 2 .. n
      BY <1>1, <2>2
    <3> QED BY <1>1, <3>1 DEF BelowInv, n
  <2> QED BY <2>1, <2>2
<1> QED BY <1>1, <1>2, <1>3 DEF FramesInv, r

\* Pushing a frame leaves the other frames what they say.
LEMMA FramesPushed ==
    ASSUME NEW p, NEW S, NEW P, NEW D, NEW X, NEW s \in Seq(Frames), s # <<>>, NEW f \in Frames, NEW g \in Frames,
           BelowInv(p, s, S, P, D, X), 2 \in 1 .. Len(s) => Called(s[2], f, D, X),
           ~Inv(f) => Accesses(p, f, S, P), ~Inv(g) => Accesses(p, g, S, P) /\ Answered(g, S), Called(f, g, D, X)
    PROVE  FramesInv(p, <<g, f>> \o Tail(s), S, P, D, X)
<1> DEFINE r == <<g, f>> \o Tail(s)
           n == Len(s)
<1>1. n \in Nat \ {0} /\ Len(r) = n + 1 /\ r[1] = g /\ r[2] = f /\ \A i \in 3 .. n + 1 : r[i] = s[i - 1]
  BY Pushed
<1> HIDE DEF r, n
<1>2. ASSUME NEW i \in 1 .. n + 1, ~Inv(r[i]) PROVE Accesses(p, r[i], S, P)
  <2>1. CASE i = 1 \/ i = 2
    BY <1>1, <1>2, <2>1
  <2>2. CASE i # 1 /\ i # 2
    <3>1. i \in 3 .. n + 1 /\ i - 1 \in 2 .. n
      BY <1>1, <2>2
    <3> QED BY <1>1, <1>2, <3>1 DEF BelowInv, n
  <2> QED BY <2>1, <2>2
<1>3. ASSUME NEW i \in 1 .. n PROVE Called(r[i + 1], r[i], D, X)
  <2>1. CASE i = 1
    BY <1>1, <2>1
  <2>2. CASE i = 2
    <3>1. 2 \in 1 .. n /\ 3 \in 3 .. n + 1 /\ i + 1 = 3 /\ 3 - 1 = 2
      BY <1>1, <2>2
    <3>2. r[i + 1] = s[2] /\ r[i] = f
      BY <1>1, <2>2, <3>1
    <3> QED BY <3>1, <3>2 DEF n
  <2>3. CASE i # 1 /\ i # 2
    <3>1. i - 1 \in 2 .. n - 1 /\ i \in 3 .. n + 1 /\ i + 1 \in 3 .. n + 1 /\ (i + 1) - 1 = (i - 1) + 1
      BY <1>1, <2>3
    <3>2. r[i + 1] = s[(i - 1) + 1] /\ r[i] = s[i - 1]
      BY <1>1, <3>1
    <3> QED BY <3>1, <3>2 DEF BelowInv, n
  <2> QED BY <2>1, <2>2, <2>3
<1>4. (n + 1) - 1 = n
  BY <1>1
<1>5. \A i \in 1 .. Len(r) - 1 : Called(r[i + 1], r[i], D, X)
  BY <1>1, <1>3, <1>4
<1>6. ~Inv(r[1]) => Answered(r[1], S)
  BY <1>1
<1> QED BY <1>1, <1>2, <1>5, <1>6 DEF FramesInv, r

\* Popping a frame leaves the other frames what they say.
LEMMA FramesPopped ==
    ASSUME NEW p, NEW S, NEW P, NEW D, NEW X, NEW s \in Seq(Frames), s # <<>>,
           BelowInv(p, s, S, P, D, X), 2 \in 1 .. Len(s) /\ ~Inv(s[2]) => Answered(s[2], S)
    PROVE  FramesInv(p, Tail(s), S, P, D, X)
<1> DEFINE r == Tail(s)
           n == Len(s)
<1>1. n \in Nat \ {0} /\ Len(r) = n - 1 /\ \A i \in 1 .. n - 1 : r[i] = s[i + 1]
  BY Popped
<1>a. r = <<>> \/ n - 1 # 0
  BY <1>1
<1> HIDE DEF r, n
<1>2. ASSUME NEW i \in 1 .. n - 1, ~Inv(r[i]) PROVE Accesses(p, r[i], S, P)
  <2>1. i + 1 \in 2 .. n /\ r[i] = s[i + 1]
    BY <1>1
  <2> QED BY <1>2, <2>1 DEF BelowInv, n
<1>3. ASSUME NEW i \in 1 .. (n - 1) - 1 PROVE Called(r[i + 1], r[i], D, X)
  <2>1. i + 1 \in 2 .. n - 1 /\ i \in 1 .. n - 1 /\ i + 1 \in 1 .. n - 1
    BY <1>1
  <2>2. r[i] = s[i + 1] /\ r[i + 1] = s[(i + 1) + 1]
    BY <1>1, <2>1
  <2> QED BY <2>1, <2>2 DEF BelowInv, n
<1>4. r # <<>> /\ ~Inv(r[1]) => Answered(r[1], S)
  <2> SUFFICES ASSUME r # <<>>, ~Inv(r[1]) PROVE Answered(r[1], S)
    OBVIOUS
  <2>1. 2 \in 1 .. n /\ 1 \in 1 .. n - 1 /\ 1 + 1 = 2
    BY <1>1, <1>a
  <2> QED BY <1>1, <2>1 DEF n
<1> QED BY <1>1, <1>2, <1>3, <1>4 DEF FramesInv, r

-----------------------------------------------------------------------------
(* Who may touch what. *)

AccessAt(p, c) == \E i \in 1 .. Len(stack[p]) : ~Inv(stack[p][i]) /\ stack[p][i].c = c /\ stack[p][i].pc # "tcc"

\* Every stack is well-formed.
LEMMA StackIs ==
    ASSUME LockInv, NEW p \in Cores
    PROVE  StackOK(stack[p]) /\ stack[p] \in Seq(Frames) /\ Len(stack[p]) \in Nat
  BY DEF LockInv, StacksOK, StackOK

\* A frame at work holds its cache's bottom lock.
LEMMA Working ==
    ASSUME LockInv, NEW p \in Cores, NEW i \in 1 .. Len(stack[p]), AtWork(stack[p], i)
    PROVE  stack[p][i].c \in Caches /\ bcc[stack[p][i].c] = p
<1>1. stack[p][i] \in Frames
  BY StackIs
<1>2. stack[p][i].c \in Caches
  BY <1>1 DEF Frames
<1>3. HoldsBcc(stack[p], stack[p][i].c)
  BY DEF HoldsBcc
<1> QED BY <1>2, <1>3 DEF LockInv, LocksOwned

\* A cache serves one access at a time.
LEMMA OneAccess ==
    ASSUME LockInv, CallsInv, NEW p \in Cores, NEW q \in Cores, NEW c, AccessAt(p, c), AccessAt(q, c)
    PROVE  p = q
<1>1. PICK i \in 1 .. Len(stack[p]) : ~Inv(stack[p][i]) /\ stack[p][i].c = c /\ stack[p][i].pc # "tcc"
  BY DEF AccessAt
<1>2. PICK j \in 1 .. Len(stack[q]) : ~Inv(stack[q][j]) /\ stack[q][j].c = c /\ stack[q][j].pc # "tcc"
  BY DEF AccessAt
<1>3. c \in Caches
  <2>1. stack[p][i] \in Frames
    BY StackIs
  <2> QED BY <1>1, <2>1 DEF Frames
<1>4. CASE c \in Terminals
  <2>1. Accesses(p, stack[p][i], st, present) /\ Accesses(q, stack[q][j], st, present)
    BY <1>1, <1>2 DEF CallsInv, FramesInv
  <2>2. c \in Terminal[p] /\ c \in Terminal[q]
    BY <1>1, <1>2, <1>4, <2>1 DEF Accesses
  <2> QED BY <2>2, TerminalAssumption
<1>5. CASE c \notin Terminals
  <2>1. HoldsTcc(stack[p], c) /\ HoldsTcc(stack[q], c)
    BY <1>1, <1>2, <1>5 DEF HoldsTcc
  <2> QED BY <1>3, <2>1 DEF LockInv, LocksOwned
<1> QED BY <1>4, <1>5

\* What a step of core p changes: the state of a line in a cache it has locked for an access, in a cache it has
\* locked together with its parent to invalidate it, or in a child that waits for its access to the locked parent;
\* the directory of a cache it has locked; the lines of a cache it accesses.
Touches(p) ==
    /\ \A x \in Caches, m \in Lines : st'[x][m] # st[x][m] =>
           \/ /\ bcc[x] = p /\ AccessAt(p, x)
              /\ Parent[x][m] # Memory => Exclusive(st[x][m]) /\ Exclusive(st'[x][m])
           \/ bcc[x] = p /\ Parent[x][m] # Memory /\ bcc[Parent[x][m]] = p /\ Weaker(st[x][m], st'[x][m])
           \/ Parent[x][m] # Memory /\ bcc[Parent[x][m]] = p /\ AccessAt(p, Parent[x][m]) /\ AccessAt(p, x)
    /\ \A c \in Caches, m \in Lines : sharers'[c][m] # sharers[c][m] \/ excl'[c][m] # excl[c][m] => bcc[c] = p
    /\ \A c \in Caches : present'[c] # present[c] => AccessAt(p, c)

\* The state of a line where another core works is left alone.
LEMMA NotTouched ==
    ASSUME LockInv, CallsInv, NEW p \in Cores, NEW q \in Cores, q # p, Touches(p),
           NEW c \in Caches, bcc[c] = q, AccessAt(q, c), NEW m \in Lines
    PROVE  st'[c][m] = st[c][m]
<1>1. ~AccessAt(p, c)
  BY OneAccess
<1> QED BY <1>1 DEF Touches

\* Losing rights twice is losing rights.
LEMMA WeakerTransitive ==
    ASSUME NEW a, NEW b, NEW c, Weaker(a, b), Weaker(b, c)
    PROVE  Weaker(a, c)
  BY DEF Weaker, Exclusive

\* Frames of other cores stay as they should be.
LEMMA OthersAccess ==
    ASSUME LockInv, CallsInv, NEW p \in Cores, NEW q \in Cores, q # p, Touches(p),
           NEW i \in 1 .. Len(stack[q]), ~Inv(stack[q][i])
    PROVE  Accesses(q, stack[q][i], st', present')
<1> DEFINE s == stack[q]
           f == stack[q][i]
<1>1. StackOK(s) /\ f \in Frames /\ FrameOK(f) /\ Accesses(q, f, st, present)
  BY StackIs DEF CallsInv, FramesInv, StackOK
<1>2. f.c \in Caches /\ f.l \in Lines /\ f.victim \in Lines \cup {NoLine} /\ f.type \in {"GETS", "GETX", "PUTS", "PUTX"}
  BY <1>1 DEF Frames, Inv
<1>3. f.pc \in {"fetch", "end", "dir"} => bcc[f.c] = q
  <2>1. CASE i = 1
    <3>1. f.pc \in {"fetch", "end", "dir"} => AtWork(s, i)
      BY <2>1 DEF AtWork
    <3> QED BY <3>1, Working
  <2>2. CASE i # 1
    <3>1. i \in 2 .. Len(s)
      BY <2>2
    <3>2. f.pc \in {"fetch", "end", "dir"} => AtWork(s, i)
      BY <1>1, <3>1, NotTop
    <3> QED BY <3>2, Working
  <2> QED BY <2>1, <2>2
<1>4. f.pc # "tcc" => AccessAt(q, f.c)
  BY DEF AccessAt
<1>5. f.pc = "dir" => st'[f.c][f.l] = st[f.c][f.l]
  BY <1>2, <1>3, <1>4, NotTouched
<1>6. f.pc \in {"fetch", "fetched", "dir"} => f.l \in present'[f.c]
  <2> SUFFICES ASSUME f.pc \in {"fetch", "fetched", "dir"} PROVE present'[f.c] = present[f.c]
    BY <1>1 DEF Accesses
  <2>1. ~AccessAt(p, f.c)
    BY <1>4, OneAccess
  <2> QED BY <1>2, <2>1 DEF Touches
<1>7. ASSUME f.pc = "insert", f.victim # NoLine, NEW d \in Caches, Parent[d][f.victim] = f.c PROVE st'[d][f.victim] = "I"
  <2>1. st[d][f.victim] = "I" /\ f.victim \in Lines
    BY <1>1, <1>2, <1>7 DEF Accesses
  <2>2. ~AccessAt(p, f.c)
    BY <1>4, <1>7, OneAccess
  <2>3. f.c # Memory
    BY <1>2, MemoryAssumption
  <2> QED BY <1>7, <2>1, <2>2, <2>3 DEF Touches, Weaker, Exclusive
<1>8. Asks(f, st')
  <2> SUFFICES ASSUME f.child # Nobody PROVE Asks(f, st')
    BY DEF Asks
  <2> DEFINE x == f.child
  <2>1. x \in Caches /\ Parent[x][f.l] = f.c /\ f.c # Memory
    BY <1>1, <1>2, MemoryAssumption DEF FrameOK, Frames
  <2>2. ~AccessAt(p, x)
    <3>1. i + 1 \in 2 .. Len(s) /\ (i + 1) - 1 = i
      <4>1. i # Len(s)
        BY <1>1 DEF StackOK
      <4> QED BY <4>1, StackIs
    <3>2. Calls(s[i + 1], f) /\ s[i + 1].pc \in {"insert", "fetched"} /\ ~Inv(s[i + 1]) /\ i + 1 \in 1 .. Len(s)
      BY <1>1, <3>1, NotTop
    <3>3. AccessAt(q, x)
      BY <3>2 DEF AccessAt, Calls
    <3> QED BY <3>3, OneAccess
  <2>3. Weaker(st[x][f.l], st'[x][f.l]) /\ (bcc[f.c] # p => st'[x][f.l] = st[x][f.l])
    BY <1>2, <2>1, <2>2 DEF Touches, Weaker
  <2>4. Asks(f, st) /\ (IsPut(f.type) => f.pc \notin {"evict", "insert", "fetched"})
    BY <1>1 DEF Accesses
  <2>5. CASE f.pc \in {"tcc", "bcc"}
    BY <2>3, <2>4, <2>5, WeakerTransitive DEF Asks
  <2>6. CASE f.pc \in {"fetch", "end", "dir"}
    <3>1. st'[x][f.l] = st[x][f.l]
      BY <1>3, <2>3, <2>6
    <3> QED BY <2>4, <2>6, <3>1 DEF Asks
  <2>7. CASE f.pc \in {"evict", "insert", "fetched"}
    <3>1. Wants(f.type, st[x][f.l]) /\ f.type \in {"GETS", "GETX"}
      BY <1>2, <2>4, <2>7 DEF Asks, IsPut
    <3>2. Wants(f.type, st'[x][f.l])
      BY <2>3, <3>1 DEF Wants, Weaker, Exclusive
    <3> QED BY <2>7, <3>2 DEF Asks
  <2>8. f.pc \in AccLabels
    BY <1>1 DEF FrameOK
  <2> QED BY <2>5, <2>6, <2>7, <2>8 DEF AccLabels
<1> QED BY <1>1, <1>5, <1>6, <1>7, <1>8 DEF Accesses

\* What the frames of the other cores say is about lines of caches they have locked: a step of p leaves it true.
LEMMA OthersKeep ==
    ASSUME LockInv, CallsInv, NEW p \in Cores, NEW q \in Cores, q # p, Touches(p)
    PROVE  FramesInv(q, stack[q], st', present', sharers', excl') /\ WbInv(stack[q], wb[q], st')
<1> DEFINE s == stack[q]
<1>1. StackOK(s) /\ s \in Seq(Frames) /\ Len(s) \in Nat /\ FramesInv(q, s, st, present, sharers, excl)
  BY StackIs DEF CallsInv
<1>2. ASSUME s # <<>>, ~Inv(s[1]) PROVE Answered(s[1], st')
  <2>1. 1 \in 1 .. Len(s) /\ s[1] \in Frames /\ Answered(s[1], st)
    BY <1>1, <1>2 DEF FramesInv
  <2>2. s[1].c \in Caches /\ s[1].l \in Lines /\ s[1].victim \in Lines \cup {NoLine}
    BY <2>1 DEF Frames
  <2>3. s[1].pc \in {"insert", "fetched"} => bcc[s[1].c] = q /\ AccessAt(q, s[1].c)
    <3>1. s[1].pc \in {"insert", "fetched"} => AtWork(s, 1)
      BY DEF AtWork
    <3> QED BY <1>2, <2>1, <3>1, Working DEF AccessAt
  <2> QED BY <2>1, <2>2, <2>3, NotTouched DEF Answered
<1>3. ASSUME NEW i \in 1 .. Len(s) - 1 PROVE Called(s[i + 1], s[i], sharers', excl')
  <2>1. i + 1 \in 2 .. Len(s) /\ (i + 1) - 1 = i /\ i + 1 \in 1 .. Len(s)
    BY <1>1
  <2>2. Called(s[i + 1], s[i], sharers, excl)
    BY <1>1 DEF FramesInv
  <2>3. ASSUME Inv(s[i]) PROVE s[i + 1].c \in Caches /\ s[i].l \in Lines /\ bcc[s[i + 1].c] = q
    <3>1. AtWork(s, i + 1) /\ s[i] \in Frames
      BY <1>1, <2>1, <2>3, NotTop
    <3> QED BY <2>1, <3>1, Working DEF Frames
  <2> QED BY <2>2, <2>3 DEF Called, Touches
<1>4. WbInv(s, wb[q], st')
  <2> SUFFICES ASSUME wb[q] PROVE WbInv(s, wb[q], st')
    BY DEF WbInv
  <2>1. PICK k \in 1 .. Len(s) :
            /\ ~Inv(s[k]) /\ \A i \in 1 .. k - 1 : Inv(s[i])
            /\ s[k].pc \in {"evict", "dir"} /\ WorkLine(s[k]) \in Lines /\ (s[k].pc = "dir" => ~IsPut(s[k].type))
            /\ Exclusive(st[s[k].c][WorkLine(s[k])])
    BY DEF CallsInv, WbInv
  <2>2. AtWork(s, k)
    <3>1. CASE k = 1
      BY <2>1, <3>1 DEF AtWork
    <3>2. CASE k # 1
      <4>1. k - 1 \in 1 .. k - 1
        BY <3>2
      <4> QED BY <2>1, <4>1 DEF AtWork
    <3> QED BY <3>1, <3>2
  <2>3. s[k].c \in Caches /\ bcc[s[k].c] = q /\ AccessAt(q, s[k].c)
    BY <2>1, <2>2, Working DEF AccessAt
  <2>4. st'[s[k].c][WorkLine(s[k])] = st[s[k].c][WorkLine(s[k])]
    BY <2>1, <2>3, NotTouched
  <2> QED BY <2>1, <2>4 DEF WbInv
<1> QED BY <1>2, <1>3, <1>4, OthersAccess DEF FramesInv

-----------------------------------------------------------------------------
(* The calls below the innermost one. *)

\* What the invariant says of the top frame and of its caller.
LEMMA TopCalls ==
    ASSUME LockInv, CallsInv, NEW p \in Cores, stack[p] # <<>>
    PROVE  /\ FramesInv(p, stack[p], st, present, sharers, excl) /\ BelowInv(p, stack[p], st, present, sharers, excl)
           /\ 1 \in 1 .. Len(stack[p])
           /\ ~Inv(stack[p][1]) => Accesses(p, stack[p][1], st, present) /\ Answered(stack[p][1], st)
           /\ 2 \in 1 .. Len(stack[p]) =>
                 /\ Called(stack[p][2], stack[p][1], sharers, excl) /\ Calls(stack[p][2], stack[p][1])
                 /\ stack[p][2] \in Frames
           /\ Inv(stack[p][1]) \/ stack[p][1].child # Nobody => 2 \in 1 .. Len(stack[p])
<1> DEFINE s == stack[p]
<1>1. StackOK(s) /\ s \in Seq(Frames) /\ Len(s) \in Nat /\ 1 \in 1 .. Len(s) /\ FramesInv(p, s, st, present, sharers, excl)
  BY StackIs DEF CallsInv
<1>2. BelowInv(p, s, st, present, sharers, excl)
  BY <1>1, BelowFrames
<1>3. ASSUME 2 \in 1 .. Len(s) PROVE Called(s[2], s[1], sharers, excl) /\ Calls(s[2], s[1]) /\ s[2] \in Frames
  <2>1. 1 \in 1 .. Len(s) - 1 /\ 2 \in 2 .. Len(s)
    BY <1>1, <1>3
  <2>2. \A i \in 1 .. Len(s) - 1 : i = 1 => i + 1 = 2
    OBVIOUS
  <2> QED BY <1>1, <2>1, <2>2, NotTop DEF FramesInv, StackOK
<1>4. ASSUME Inv(s[1]) \/ s[1].child # Nobody PROVE 2 \in 1 .. Len(s)
  <2>1. Len(s) # 1 /\ Len(s) # 0
    BY <1>1, <1>4 DEF StackOK
  <2>2. \A m \in Nat : m # 0 /\ m # 1 => 2 \in 1 .. m
    OBVIOUS
  <2> QED BY <1>1, <2>1, <2>2
<1> QED BY <1>1, <1>2, <1>3, <1>4 DEF FramesInv

\* An access touches its cache and the child it works for; the frames below are about lower ones.
LEMMA BelowAccess ==
    ASSUME LockInv, CallsInv, NEW p \in Cores, stack[p] # <<>>, ~Inv(stack[p][1]),
           \A x \in Caches, m \in Lines : st'[x][m] # st[x][m] => x \in {stack[p][1].c, stack[p][1].child},
           \A c \in Caches : present'[c] # present[c] => c = stack[p][1].c
    PROVE  BelowInv(p, stack[p], st', present', sharers', excl')
<1> DEFINE s == stack[p]
<1>1. StackOK(s) /\ s \in Seq(Frames) /\ Len(s) \in Nat /\ 1 \in 1 .. Len(s) /\ BelowInv(p, s, st, present, sharers, excl)
  BY StackIs, TopCalls
<1>2. ASSUME NEW i \in 2 .. Len(s), NEW x \in Caches, x \in {s[1].c, s[1].child} PROVE ~(Level[x] < Level[s[i].c])
  <2>1. 1 < i /\ i \in 1 .. Len(s) /\ 2 \in 2 .. Len(s)
    BY <1>1
  <2>2. Level[s[i].c] < Level[s[1].c] /\ Level[s[1].c] \in Nat /\ Level[s[i].c] \in Nat /\ Level[x] \in Nat
    BY <1>1, <2>1, Levels, LevelAssumption
  <2>3. CASE x = s[1].c
    BY <2>2, <2>3
  <2>4. CASE x = s[1].child
    <3>1. Calls(s[2], s[1])
      BY <1>1, <2>1, TopCalls
    <3>2. s[2].c = x /\ ~Inv(s[2])
      BY <2>4, <3>1 DEF Calls
    <3>3. CASE i = 2
      BY <2>2, <3>2, <3>3
    <3>4. CASE i # 2
      <4>1. 2 \in 1 .. Len(s) /\ 2 < i
        BY <2>1, <3>4
      <4>2. Level[s[i].c] < Level[s[2].c]
        BY <1>1, <2>1, <3>2, <4>1, Levels
      <4> QED BY <2>2, <3>2, <4>2
    <3> QED BY <3>3, <3>4
  <2> QED BY <1>2, <2>3, <2>4
<1>3. ASSUME NEW i \in 2 .. Len(s) PROVE ~Inv(s[i]) /\ s[i] \in Frames /\ FrameOK(s[i]) /\ s[i].pc \in {"insert", "fetched"} /\ s[i].c # s[1].c
  <2>1. 1 < i /\ i \in 1 .. Len(s)
    BY <1>1
  <2>2. ~Inv(s[i]) /\ Level[s[i].c] < Level[s[1].c] /\ Level[s[1].c] \in Nat
    BY <1>1, <2>1, Levels
  <2>3. i - 1 = 1 \/ (i - 1 \in 1 .. Len(s) /\ 1 < i - 1)
    BY <1>1
  <2>4. ~Inv(s[i - 1])
    BY <1>1, <2>3, Levels
  <2> QED BY <1>1, <2>1, <2>2, <2>4, NotTop DEF StackOK
<1>4. ASSUME NEW i \in 2 .. Len(s), NEW d \in Caches, NEW m \in Lines, Parent[d][m] = s[i].c PROVE st'[d][m] = st[d][m]
  <2>1. s[i].c \in Caches
    BY <1>3 DEF Frames
  <2>2. Level[d] < Level[s[i].c]
    BY <1>4, <2>1, LevelAssumption, MemoryAssumption
  <2> QED BY <1>2, <2>2
<1>5. ASSUME NEW i \in 2 .. Len(s) PROVE Accesses(p, s[i], st', present')
  <2> DEFINE f == s[i]
  <2>1. Accesses(p, f, st, present) /\ f.pc \in {"insert", "fetched"} /\ f.c \in Caches /\ f.l \in Lines
        /\ f.victim \in Lines \cup {NoLine}
    BY <1>1, <1>3 DEF BelowInv, Frames
  <2>2. present'[f.c] = present[f.c]
    BY <1>3, <2>1
  <2>3. f.child # Nobody => f.child \in Caches /\ Parent[f.child][f.l] = f.c
    BY <1>3 DEF FrameOK, Frames
  <2>4. Asks(f, st')
    BY <1>4, <2>1, <2>3 DEF Accesses, Asks
  <2>5. f.pc = "insert" /\ f.victim # NoLine => \A d \in Caches : Parent[d][f.victim] = f.c => st'[d][f.victim] = "I"
    BY <1>4, <2>1 DEF Accesses
  <2>6. Accesses(p, f, st', present')
    <3> HIDE DEF f
    <3> QED BY <2>1, <2>2, <2>4, <2>5 DEF Accesses
  <2> QED BY <2>6
<1>6. ASSUME NEW i \in 2 .. Len(s) - 1 PROVE Called(s[i + 1], s[i], sharers', excl')
  <2>1. i \in 2 .. Len(s)
    BY <1>1
  <2> QED BY <1>1, <1>3, <2>1 DEF BelowInv, Called
<1> QED BY <1>5, <1>6 DEF BelowInv

\* An invalidation weakens the state of its cache and changes the directory of the one above.
LEMMA BelowInvalidation ==
    ASSUME LockInv, CallsInv, NEW p \in Cores, stack[p] # <<>>, Inv(stack[p][1]),
           \A x \in Caches, m \in Lines : st'[x][m] # st[x][m] => x = stack[p][1].c,
           \A x \in Caches, m \in Lines : Weaker(st[x][m], st'[x][m]),
           \A c \in Caches, m \in Lines : sharers'[c][m] # sharers[c][m] \/ excl'[c][m] # excl[c][m] => c = stack[p][2].c,
           present' = present
    PROVE  BelowInv(p, stack[p], st', present', sharers', excl')
<1> DEFINE s == stack[p]
<1>1. StackOK(s) /\ s \in Seq(Frames) /\ Len(s) \in Nat /\ 1 \in 1 .. Len(s) /\ FramesInv(p, s, st, present, sharers, excl)
  BY StackIs, TopCalls
<1>2. ASSUME NEW i \in 2 .. Len(s), ~Inv(s[i]) PROVE Accesses(p, s[i], st', present')
  <2> DEFINE f == s[i]
  <2>1. Accesses(p, f, st, present) /\ f.c \in Caches /\ f.l \in Lines /\ f.victim \in Lines \cup {NoLine}
        /\ f.type \in {"GETS", "GETX", "PUTS", "PUTX"} /\ FrameOK(f)
    <3>1. i \in 1 .. Len(s) /\ f \in Frames
      BY <1>1
    <3> QED BY <1>1, <1>2, <3>1 DEF FramesInv, Frames, Inv, StackOK
  <2>2. f.pc \in {"insert", "fetched", "evict", "dir"} /\ (f.pc = "dir" => Inv(s[i - 1]) /\ ~IsPut(f.type))
    <3>1. i - 1 \in 1 .. Len(s) - 1 /\ (i - 1) + 1 = i
      BY <1>1
    <3>2. Called(s[i], s[i - 1], sharers, excl)
      BY <1>1, <3>1 DEF FramesInv
    <3>3. f.pc \in {"insert", "fetched"} \/ (f.pc \in {"evict", "dir", "down"} /\ Inv(s[i - 1]))
      BY <1>1, NotTop
    <3>4. f.pc # "down"
      BY <1>2, <2>1 DEF FrameOK, AccLabels
    <3> QED BY <3>2, <3>3, <3>4 DEF Called
  <2>3. f.pc = "dir" => st'[f.c][f.l] = st[f.c][f.l]
    <3> SUFFICES ASSUME f.pc = "dir" PROVE s[1].c # f.c
      BY <2>1
    <3>1. 1 < i /\ i \in 1 .. Len(s)
      BY <1>1
    <3>2. Level[s[1].c] < Level[f.c] /\ Level[f.c] \in Nat
      BY <1>1, <2>2, <3>1, Levels
    <3> QED BY <3>2
  <2>4. f.child # Nobody => f.child \in Caches
    <3>1. f \in Frames
      BY <1>1
    <3> QED BY <3>1 DEF Frames
  <2>5. ~IsPut(f.type)
    BY <2>1, <2>2 DEF Accesses
  <2>6. Asks(f, st')
    <3> SUFFICES ASSUME f.child # Nobody PROVE Wants(f.type, st'[f.child][f.l])
      BY <2>2 DEF Asks
    <3>1. Wants(f.type, st[f.child][f.l]) /\ Weaker(st[f.child][f.l], st'[f.child][f.l])
      BY <2>1, <2>2, <2>4 DEF Accesses, Asks
    <3> QED BY <2>1, <2>5, <3>1 DEF Wants, Weaker, Exclusive, IsPut
  <2>7. f.pc = "insert" /\ f.victim # NoLine => \A d \in Caches : Parent[d][f.victim] = f.c => st'[d][f.victim] = "I"
    BY <2>1 DEF Accesses, Weaker, Exclusive
  <2>8. Accesses(p, f, st', present')
    <3> HIDE DEF f
    <3> QED BY <2>1, <2>2, <2>3, <2>6, <2>7 DEF Accesses
  <2> QED BY <2>8
<1>3. ASSUME NEW i \in 2 .. Len(s) - 1 PROVE Called(s[i + 1], s[i], sharers', excl')
  <2>1. i \in 1 .. Len(s) - 1 /\ i + 1 \in 1 .. Len(s) /\ 2 \in 1 .. Len(s) /\ 2 < i + 1 /\ (i + 1) - 1 = i /\ i + 1 \in 2 .. Len(s)
    BY <1>1
  <2>2. Called(s[i + 1], s[i], sharers, excl)
    BY <1>1, <2>1 DEF FramesInv
  <2>3. ASSUME Inv(s[i]) PROVE s[i + 1].c \in Caches /\ s[i].l \in Lines /\ s[i + 1].c # s[2].c
    <3>1. Level[s[2].c] < Level[s[i + 1].c] /\ Level[s[2].c] \in Nat
      BY <1>1, <2>1, <2>3, Levels
    <3>2. s[i + 1] \in Frames /\ s[i] \in Frames
      BY <1>1, <2>1, NotTop
    <3> QED BY <3>1, <3>2 DEF Frames
  <2> QED BY <2>2, <2>3 DEF Called
<1> QED BY <1>2, <1>3 DEF BelowInv

-----------------------------------------------------------------------------
(* Written back lines. *)

\* Data written back to an access belongs to an exclusive line that it works on.
LEMMA WbTop ==
    ASSUME NEW s \in Seq(Frames), s # <<>>, NEW w, NEW S, WbInv(s, w, S), w, ~Inv(s[1])
    PROVE  /\ s[1].pc \in {"evict", "dir"} /\ WorkLine(s[1]) \in Lines /\ (s[1].pc = "dir" => ~IsPut(s[1].type))
           /\ Exclusive(S[s[1].c][WorkLine(s[1])])
<1>1. PICK k \in 1 .. Len(s) :
          /\ ~Inv(s[k]) /\ \A i \in 1 .. k - 1 : Inv(s[i])
          /\ s[k].pc \in {"evict", "dir"} /\ WorkLine(s[k]) \in Lines /\ (s[k].pc = "dir" => ~IsPut(s[k].type))
          /\ Exclusive(S[s[k].c][WorkLine(s[k])])
  BY DEF WbInv
<1>2. k = 1
  <2> SUFFICES ASSUME k # 1 PROVE FALSE
    OBVIOUS
  <2>1. 1 \in 1 .. k - 1
    OBVIOUS
  <2> QED BY <1>1, <2>1
<1> QED BY <1>1, <1>2

\* Pushing an invalidation keeps what the data written back belongs to.
LEMMA WbPushed ==
    ASSUME NEW s \in Seq(Frames), s # <<>>, NEW w, NEW S, WbInv(s, w, S), NEW g \in Frames, Inv(g)
    PROVE  WbInv(<<g, s[1]>> \o Tail(s), w, S)
<1> SUFFICES ASSUME w PROVE WbInv(<<g, s[1]>> \o Tail(s), w, S)
  BY DEF WbInv
<1> DEFINE r == <<g, s[1]>> \o Tail(s)
           n == Len(s)
<1>1. n \in Nat \ {0} /\ Len(r) = n + 1 /\ r[1] = g /\ r[2] = s[1] /\ \A i \in 3 .. n + 1 : r[i] = s[i - 1]
  <2>1. s[1] \in Frames /\ Len(s) \in Nat \ {0}
    OBVIOUS
  <2> QED BY <2>1, Pushed
<1> HIDE DEF r
<1>2. \A i \in 1 .. n : i + 1 \in 1 .. n + 1 /\ r[i + 1] = s[i]
  <2> TAKE i \in 1 .. n
  <2>1. CASE i = 1
    BY <1>1, <2>1
  <2>2. CASE i # 1
    <3>1. i + 1 \in 3 .. n + 1 /\ (i + 1) - 1 = i
      BY <1>1, <2>2
    <3> QED BY <1>1, <3>1
  <2> QED BY <2>1, <2>2
<1>3. PICK k \in 1 .. n :
          /\ ~Inv(s[k]) /\ \A i \in 1 .. k - 1 : Inv(s[i])
          /\ s[k].pc \in {"evict", "dir"} /\ WorkLine(s[k]) \in Lines /\ (s[k].pc = "dir" => ~IsPut(s[k].type))
          /\ Exclusive(S[s[k].c][WorkLine(s[k])])
  BY DEF WbInv
<1>4. ASSUME NEW i \in 1 .. (k + 1) - 1 PROVE Inv(r[i])
  <2>1. CASE i = 1
    BY <1>1, <2>1
  <2>2. CASE i # 1
    <3>1. i - 1 \in 1 .. k - 1 /\ i - 1 \in 1 .. n /\ (i - 1) + 1 = i
      BY <1>1, <2>2
    <3> QED BY <1>2, <1>3, <3>1
  <2> QED BY <2>1, <2>2
<1>5. k + 1 \in 1 .. Len(r) /\ r[k + 1] = s[k]
  BY <1>1, <1>2
<1> QED BY <1>3, <1>4, <1>5 DEF WbInv, r

\* Popping an invalidation keeps what the data written back belongs to.
LEMMA WbPopped ==
    ASSUME NEW s \in Seq(Frames), s # <<>>, NEW w, NEW S, WbInv(s, w, S), Inv(s[1])
    PROVE  WbInv(Tail(s), w, S)
<1> SUFFICES ASSUME w PROVE WbInv(Tail(s), w, S)
  BY DEF WbInv
<1> DEFINE r == Tail(s)
           n == Len(s)
<1>1. n \in Nat \ {0} /\ Len(r) = n - 1 /\ \A i \in 1 .. n - 1 : r[i] = s[i + 1]
  BY Popped
<1> HIDE DEF r
<1>3. PICK k \in 1 .. n :
          /\ ~Inv(s[k]) /\ \A i \in 1 .. k - 1 : Inv(s[i])
          /\ s[k].pc \in {"evict", "dir"} /\ WorkLine(s[k]) \in Lines /\ (s[k].pc = "dir" => ~IsPut(s[k].type))
          /\ Exclusive(S[s[k].c][WorkLine(s[k])])
  BY DEF WbInv
<1>4. k - 1 \in 1 .. n - 1 /\ (k - 1) + 1 = k /\ k \in Nat
  <2>1. k # 1
    BY <1>3
  <2> QED BY <1>1, <2>1
<1>5. ASSUME NEW i \in 1 .. (k - 1) - 1 PROVE Inv(r[i])
  <2>1. i + 1 \in 1 .. k - 1 /\ i \in 1 .. n - 1
    BY <1>1, <1>4
  <2> QED BY <1>1, <1>3, <2>1
<1>6. k - 1 \in 1 .. Len(r) /\ r[k - 1] = s[k]
  BY <1>1, <1>4
<1> QED BY <1>3, <1>5, <1>6 DEF WbInv, r

\* Moving the top frame on keeps what the data written back belongs to.
LEMMA WbReplaced ==
    ASSUME NEW s \in Seq(Frames), s # <<>>, NEW w, NEW S, WbInv(s, w, S), Inv(s[1]), NEW f \in Frames, Inv(f)
    PROVE  WbInv(<<f>> \o Tail(s), w, S)
<1> SUFFICES ASSUME w PROVE WbInv(<<f>> \o Tail(s), w, S)
  BY DEF WbInv
<1> DEFINE r == <<f>> \o Tail(s)
           n == Len(s)
<1>1. n \in Nat \ {0} /\ Len(r) = n /\ r[1] = f /\ \A i \in 2 .. n : r[i] = s[i]
  BY Replaced
<1> HIDE DEF r
<1>3. PICK k \in 1 .. n :
          /\ ~Inv(s[k]) /\ \A i \in 1 .. k - 1 : Inv(s[i])
          /\ s[k].pc \in {"evict", "dir"} /\ WorkLine(s[k]) \in Lines /\ (s[k].pc = "dir" => ~IsPut(s[k].type))
          /\ Exclusive(S[s[k].c][WorkLine(s[k])])
  BY DEF WbInv
<1>4. k \in 2 .. n
  <2>1. k # 1
    BY <1>3
  <2> QED BY <1>1, <2>1
<1>5. ASSUME NEW i \in 1 .. k - 1 PROVE Inv(r[i])
  <2>1. i = 1 \/ i \in 2 .. n
    BY <1>1
  <2> QED BY <1>1, <1>3, <2>1
<1> QED BY <1>1, <1>3, <1>4, <1>5 DEF WbInv, r

-----------------------------------------------------------------------------
(* Directories. *)

\* The innermost call, if it is past its locks, has its cache locked.
LEMMA TopHolds ==
    ASSUME LockInv, NEW p \in Cores, stack[p] # <<>>, Held(stack[p][1])
    PROVE  /\ stack[p][1].c \in Caches /\ stack[p][1].l \in Lines /\ bcc[stack[p][1].c] = p
           /\ ~Inv(stack[p][1]) => AccessAt(p, stack[p][1].c)
<1>1. 1 \in 1 .. Len(stack[p]) /\ stack[p][1] \in Frames
  BY StackIs
<1>2. AtWork(stack[p], 1)
  BY DEF AtWork, Held
<1>3. ~Inv(stack[p][1]) => AccessAt(p, stack[p][1].c)
  BY <1>1 DEF AccessAt, Held
<1> QED BY <1>1, <1>2, <1>3, Working DEF Frames

\* Only its core works on a locked directory.
LEMMA OwnUpgrade ==
    ASSUME LockInv, NEW p \in Cores, stack[p] # <<>>, Held(stack[p][1]), NEW l, NEW d,
           Upgrading(stack, stack[p][1].c, l, d)
    PROVE  Upgrade(stack[p][1], stack[p][1].c, l, d)
<1> DEFINE c == stack[p][1].c
<1>1. c \in Caches /\ bcc[c] = p
  BY TopHolds
<1>2. PICK q \in Cores : \E i \in 1 .. Len(stack[q]) : Upgrade(stack[q][i], c, l, d)
  BY DEF Upgrading
<1>3. PICK i \in 1 .. Len(stack[q]) : Upgrade(stack[q][i], c, l, d)
  BY <1>2
<1>4. StackOK(stack[q]) /\ stack[q] \in Seq(Frames) /\ Len(stack[q]) \in Nat
  BY StackIs
<1>5. AtWork(stack[q], i)
  <2>1. CASE i = 1
    BY <1>3, <2>1 DEF AtWork, Upgrade
  <2>2. CASE i # 1
    <3>1. i \in 2 .. Len(stack[q])
      BY <1>4, <2>2
    <3> QED BY <1>3, <1>4, <3>1, NotTop DEF Upgrade
  <2> QED BY <2>1, <2>2
<1>6. q = p
  <2>1. bcc[stack[q][i].c] = q
    BY <1>5, Working
  <2> QED BY <1>1, <1>3, <2>1 DEF Upgrade
<1>7. i = 1
  <2> SUFFICES ASSUME i # 1 PROVE FALSE
    OBVIOUS
  <2>1. i \in 2 .. Len(stack[p])
    BY <1>4, <1>6
  <2>2. BelowBcc(stack[p], c)
    BY <1>3, <1>5, <1>6, <2>1 DEF BelowBcc, Upgrade
  <2>3. StackOK(stack[p])
    BY StackIs
  <2> QED BY <2>2, <2>3, BelowOthers
<1> QED BY <1>3, <1>6, <1>7

\* A child with the line is on the list of a directory nobody else works on.
LEMMA Listed ==
    ASSUME LockInv, DirInv, NEW p \in Cores, stack[p] # <<>>, Held(stack[p][1]), NEW l \in Lines, NEW d \in Caches,
           Parent[d][l] = stack[p][1].c, st[d][l] # "I", ~Upgrade(stack[p][1], stack[p][1].c, l, d)
    PROVE  d \in sharers[stack[p][1].c][l]
<1>1. stack[p][1].c \in Caches /\ stack[p][1].c # Memory
  BY TopHolds, MemoryAssumption
<1>2. ~Upgrading(stack, stack[p][1].c, l, d)
  BY OwnUpgrade
<1> QED BY <1>1, <1>2 DEF DirInv, ChildOK

\* An exclusive child is the only one.
LEMMA ExclusiveChild ==
    ASSUME LockInv, DirInv, NEW c \in Caches, NEW l \in Lines, NEW d \in sharers[c][l], excl[c][l]
    PROVE  sharers[c][l] = {d} /\ IsExclusive(c, l)
<1>1. sharers[c][l] \in SUBSET Caches /\ c # Memory
  BY MemoryAssumption DEF LockInv, CohTypeOK
<1>2. ASSUME NEW e \in sharers[c][l] PROVE Parent[e][l] = c /\ st[e][l] # "I"
  <2>1. e \in Caches /\ Parent[e][l] = c
    BY <1>1 DEF LockInv, SharersAreChildren
  <2> QED BY <1>1, <2>1 DEF DirInv, ChildOK
<1>3. ASSUME NEW e \in sharers[c][l] PROVE e = d
  <2>1. Parent[e][l] = c /\ st[e][l] # "I" /\ Parent[d][l] = c /\ st[d][l] # "I" /\ e \in Caches /\ d \in Caches
    BY <1>1, <1>2
  <2> QED BY <1>1, <2>1 DEF DirInv, ChildOK
<1>4. sharers[c][l] = {d}
  BY <1>3
<1> QED BY <1>4, FS_Singleton DEF IsExclusive

-----------------------------------------------------------------------------
(* A step of one core. *)

\* Replacing the top frame keeps the stores under way.
LEMMA UpgradingReplaced ==
    ASSUME LockInv, NEW p \in Cores, stack[p] # <<>>, NEW f \in Frames,
           stack' = [stack EXCEPT ![p] = <<f>> \o Tail(stack[p])],
           NEW c, NEW l, NEW d, Upgrade(stack[p][1], c, l, d) => Upgrade(f, c, l, d), Upgrading(stack, c, l, d)
    PROVE  Upgrading(stack', c, l, d)
<1> DEFINE s == stack[p]
           r == <<f>> \o Tail(s)
<1>1. s \in Seq(Frames) /\ Len(s) \in Nat /\ stack \in [Cores -> Seq(Frames)]
  BY StackIs DEF LockInv, CohTypeOK
<1>2. Len(r) = Len(s) /\ r[1] = f /\ \A i \in 2 .. Len(s) : r[i] = s[i]
  BY <1>1, Replaced
<1>3. stack'[p] = r /\ \A q \in Cores : q # p => stack'[q] = stack[q]
  BY <1>1
<1> HIDE DEF r
<1>4. PICK q \in Cores : \E i \in 1 .. Len(stack[q]) : Upgrade(stack[q][i], c, l, d)
  BY DEF Upgrading
<1>5. PICK i \in 1 .. Len(stack[q]) : Upgrade(stack[q][i], c, l, d)
  BY <1>4
<1>6. CASE q # p
  BY <1>3, <1>5, <1>6 DEF Upgrading
<1>7. CASE q = p
  <2>1. i \in 1 .. Len(r) /\ Upgrade(r[i], c, l, d)
    <3>1. i = 1 \/ i \in 2 .. Len(s)
      BY <1>1, <1>7
    <3> QED BY <1>2, <1>5, <1>7, <3>1
  <2> QED BY <1>3, <2>1 DEF Upgrading
<1> QED BY <1>6, <1>7

\* Pushing a frame keeps the stores under way.
LEMMA UpgradingPushed ==
    ASSUME LockInv, NEW p \in Cores, stack[p] # <<>>, NEW f \in Frames, NEW g \in Frames,
           stack' = [stack EXCEPT ![p] = <<g, f>> \o Tail(stack[p])],
           NEW c, NEW l, NEW d, Upgrade(stack[p][1], c, l, d) => Upgrade(f, c, l, d), Upgrading(stack, c, l, d)
    PROVE  Upgrading(stack', c, l, d)
<1> DEFINE s == stack[p]
           r == <<g, f>> \o Tail(s)
<1>1. s \in Seq(Frames) /\ Len(s) \in Nat \ {0} /\ stack \in [Cores -> Seq(Frames)]
  BY StackIs DEF LockInv, CohTypeOK
<1>2. Len(r) = Len(s) + 1 /\ r[2] = f /\ \A i \in 3 .. Len(s) + 1 : r[i] = s[i - 1]
  BY <1>1, Pushed
<1>3. stack'[p] = r /\ \A q \in Cores : q # p => stack'[q] = stack[q]
  BY <1>1
<1> HIDE DEF r
<1>4. PICK q \in Cores : \E i \in 1 .. Len(stack[q]) : Upgrade(stack[q][i], c, l, d)
  BY DEF Upgrading
<1>5. PICK i \in 1 .. Len(stack[q]) : Upgrade(stack[q][i], c, l, d)
  BY <1>4
<1>6. CASE q # p
  BY <1>3, <1>5, <1>6 DEF Upgrading
<1>7. CASE q = p
  <2>1. i + 1 \in 1 .. Len(r) /\ Upgrade(r[i + 1], c, l, d)
    <3>1. CASE i = 1
      BY <1>1, <1>2, <1>5, <1>7, <3>1
    <3>2. CASE i # 1
      <4>1. i + 1 \in 3 .. Len(s) + 1 /\ (i + 1) - 1 = i
        BY <1>1, <1>7, <3>2
      <4> QED BY <1>2, <1>5, <1>7, <4>1
    <3> QED BY <3>1, <3>2
  <2> QED BY <1>3, <2>1 DEF Upgrading
<1> QED BY <1>6, <1>7

\* Popping a frame that is no store's keeps the stores under way.
LEMMA UpgradingPopped ==
    ASSUME LockInv, NEW p \in Cores, stack[p] # <<>>, stack' = [stack EXCEPT ![p] = Tail(stack[p])],
           NEW c, NEW l, NEW d, ~Upgrade(stack[p][1], c, l, d), Upgrading(stack, c, l, d)
    PROVE  Upgrading(stack', c, l, d)
<1> DEFINE s == stack[p]
           r == Tail(s)
<1>1. s \in Seq(Frames) /\ Len(s) \in Nat \ {0} /\ stack \in [Cores -> Seq(Frames)]
  BY StackIs DEF LockInv, CohTypeOK
<1>2. Len(r) = Len(s) - 1 /\ \A i \in 1 .. Len(s) - 1 : r[i] = s[i + 1]
  BY <1>1, Popped
<1>3. stack'[p] = r /\ \A q \in Cores : q # p => stack'[q] = stack[q]
  BY <1>1
<1> HIDE DEF r
<1>4. PICK q \in Cores : \E i \in 1 .. Len(stack[q]) : Upgrade(stack[q][i], c, l, d)
  BY DEF Upgrading
<1>5. PICK i \in 1 .. Len(stack[q]) : Upgrade(stack[q][i], c, l, d)
  BY <1>4
<1>6. CASE q # p
  BY <1>3, <1>5, <1>6 DEF Upgrading
<1>7. CASE q = p
  <2>1. i # 1
    BY <1>5, <1>7
  <2>2. i - 1 \in 1 .. Len(s) - 1 /\ (i - 1) + 1 = i
    BY <1>1, <1>7, <2>1
  <2>3. i - 1 \in 1 .. Len(r) /\ Upgrade(r[i - 1], c, l, d)
    BY <1>2, <1>5, <1>7, <2>2
  <2> QED BY <1>3, <2>3 DEF Upgrading
<1> QED BY <1>6, <1>7

\* Core p's calls become r; other cores' are as they should be.
LEMMA CallsKept ==
    ASSUME LockInv, CallsInv, NEW p \in Cores, NEW r, Touches(p), stack' = [stack EXCEPT ![p] = r],
           \A q \in Cores : q # p => wb'[q] = wb[q],
           FramesInv(p, r, st', present', sharers', excl'), WbInv(r, wb'[p], st')
    PROVE  CallsInv'
<1>1. stack'[p] = r /\ \A q \in Cores : q # p => stack'[q] = stack[q]
  BY DEF LockInv, CohTypeOK
<1>2. ASSUME NEW q \in Cores
      PROVE FramesInv(q, stack'[q], st', present', sharers', excl') /\ WbInv(stack'[q], wb'[q], st')
  BY <1>1, OthersKeep
<1> QED BY <1>2 DEF CallsInv

\* The directory entries and the states are as before, but for exclusive states.
LEMMA DirKept ==
    ASSUME LockInv, DirInv, sharers' = sharers, excl' = excl,
           \A x \in Caches, m \in Lines : st'[x][m] # st[x][m] => Exclusive(st[x][m]) /\ Exclusive(st'[x][m]),
           \A c \in Caches, l \in Lines, d \in Caches : Upgrading(stack, c, l, d) => Upgrading(stack', c, l, d)
    PROVE  DirInv'
<1> SUFFICES ASSUME NEW l \in Lines, NEW d \in Caches, Parent[d][l] # Memory
             PROVE  ChildOK(Parent[d][l], d, l, st', sharers', excl', stack')
  BY DEF DirInv
<1> DEFINE c == Parent[d][l]
<1>1. c \in Caches /\ ChildOK(c, d, l, st, sharers, excl, stack)
  BY ParentAssumption DEF DirInv
<1>2. \A x \in Caches : (st'[x][l] = "I" <=> st[x][l] = "I") /\ (Exclusive(st'[x][l]) <=> Exclusive(st[x][l]))
  BY DEF Exclusive
<1> HIDE DEF c
<1> QED BY <1>1, <1>2 DEF ChildOK, c

-----------------------------------------------------------------------------
(* The steps that leave states and directories alone. *)

\* A frame whose label stays.
LEMMA SameLabel ==
    ASSUME NEW f \in Frames
    PROVE  [f EXCEPT !.pc = f.pc] = f
  BY DEF Frames

\* The innermost access has something written back only while it evicts or works on its directory.
LEMMA WrittenBack ==
    ASSUME LockInv, CallsInv, NEW p \in Cores, wb[p]
    PROVE  /\ stack[p] # <<>>
           /\ ~Inv(stack[p][1]) => /\ stack[p][1].pc \in {"evict", "dir"} /\ WorkLine(stack[p][1]) \in Lines
                                   /\ (stack[p][1].pc = "dir" => ~IsPut(stack[p][1].type))
                                   /\ Exclusive(st[stack[p][1].c][WorkLine(stack[p][1])])
<1>1. stack[p] \in Seq(Frames) /\ WbInv(stack[p], wb[p], st)
  BY StackIs DEF CallsInv
<1>2. stack[p] # <<>>
  BY <1>1 DEF WbInv
<1> QED BY <1>1, <1>2, WbTop

\* A step that changes no state, no directory and no data keeps the MESI invariant if its frames still say what is true.
LEMMA Quiet ==
    ASSUME LockInv, MesiInv, NEW p \in Cores, NEW r, UNCHANGED <<st, present, sharers, excl>>, ~failed',
           \A q \in Cores : q # p => wb'[q] = wb[q], stack' = [stack EXCEPT ![p] = r],
           FramesInv(p, r, st, present, sharers, excl), WbInv(r, wb'[p], st),
           \A c \in Caches, l \in Lines, d \in Caches : Upgrading(stack, c, l, d) => Upgrading(stack', c, l, d)
    PROVE  MesiInv'
<1>1. Touches(p) /\ LockInv /\ CallsInv /\ DirInv
  BY DEF Touches, MesiInv
<1>2. FramesInv(p, r, st', present', sharers', excl') /\ WbInv(r, wb'[p], st')
  OBVIOUS
<1>3. CallsInv'
  BY <1>1, <1>2, CallsKept
<1>4. DirInv'
  BY <1>1, DirKept
<1>5. PresentInv'
  BY DEF MesiInv, PresentInv
<1> QED BY <1>3, <1>4, <1>5 DEF MesiInv

\* The innermost frame moves on within its call.
LEMMA QuietReplaced ==
    ASSUME LockInv, MesiInv, NEW p \in Cores, stack[p] # <<>>, NEW f \in Frames, UNCHANGED <<st, present, sharers, excl>>,
           ~failed', \A q \in Cores : q # p => wb'[q] = wb[q], stack' = [stack EXCEPT ![p] = <<f>> \o Tail(stack[p])],
           2 \in 1 .. Len(stack[p]) => Called(stack[p][2], f, sharers, excl),
           ~Inv(f) => Accesses(p, f, st, present) /\ Answered(f, st),
           WbInv(<<f>> \o Tail(stack[p]), wb'[p], st), stack[p][1].pc # "dir"
    PROVE  MesiInv'
<1>1. stack[p] \in Seq(Frames) /\ BelowInv(p, stack[p], st, present, sharers, excl)
  BY StackIs, TopCalls DEF MesiInv
<1>2. FramesInv(p, <<f>> \o Tail(stack[p]), st, present, sharers, excl)
  BY <1>1, FramesReplaced
<1>3. \A c \in Caches, l \in Lines, d \in Caches : Upgrading(stack, c, l, d) => Upgrading(stack', c, l, d)
  BY UpgradingReplaced DEF Upgrade
<1> QED BY <1>2, <1>3, Quiet

\* Taking the top lock keeps the MESI invariant.
LEMMA MesiTakeTcc ==
    ASSUME LockInv, MesiInv, NEW p \in Cores, TakeTcc(p)
    PROVE  MesiInv'
<1> DEFINE f == stack[p][1]
           h == [f EXCEPT !.pc = "bcc"]
<1>1. f = Frame(p) /\ f \in Frames /\ FrameOK(f) /\ f.pc = "tcc" /\ stack[p] # <<>>
  BY TopFrame DEF TakeTcc, At
<1>2. h \in Frames /\ h.pc = "bcc" /\ h.c = f.c /\ h.l = f.l /\ h.type = f.type /\ h.child = f.child /\ h.init = f.init
      /\ (Inv(h) <=> Inv(f))
  BY <1>1 DEF Frames, Inv, AccLabels
<1>3. ~Inv(f) /\ Accesses(p, f, st, present) /\ CallsInv
      /\ (2 \in 1 .. Len(stack[p]) => Called(stack[p][2], f, sharers, excl))
  BY <1>1, TopCalls DEF MesiInv, FrameOK
<1>4. UNCHANGED <<st, present, sharers, excl, wb, failed>> /\ stack' = [stack EXCEPT ![p] = <<h>> \o Tail(stack[p])]
  BY <1>1 DEF TakeTcc, dir, GoTo, Becomes
<1>5. \A r, S : WbInv(r, wb'[p], S)
  <2>1. ~wb[p]
    BY <1>1, <1>3, WrittenBack
  <2> QED BY <1>4, <2>1 DEF WbInv
<1> HIDE DEF h
<1>6. Accesses(p, h, st, present) /\ Answered(h, st)
  BY <1>1, <1>2, <1>3 DEF Accesses, Asks, Answered
<1>7. 2 \in 1 .. Len(stack[p]) => Called(stack[p][2], h, sharers, excl)
  BY <1>1, <1>2, <1>3 DEF Called, FrameOK
<1>8. ~failed'
  BY <1>4 DEF MesiInv
<1> HIDE DEF f
<1> QED BY <1>1, <1>2, <1>4, <1>5, <1>6, <1>7, <1>8, QuietReplaced DEF f

\* Taking the bottom lock and looking the line up keeps the MESI invariant.
LEMMA MesiTakeBcc ==
    ASSUME LockInv, MesiInv, NEW p \in Cores, TakeBcc(p)
    PROVE  MesiInv'
<1> DEFINE f == stack[p][1]
           now == st[f.child][f.l]
           hit == f.l \in present[f.c]
<1>1. f = Frame(p) /\ f \in Frames /\ FrameOK(f) /\ f.pc = "bcc" /\ stack[p] # <<>> /\ f.c \in Caches /\ f.l \in Lines
  BY TopFrame DEF TakeBcc, At, Frames
<1>3. ~Inv(f) /\ Accesses(p, f, st, present) /\ CallsInv /\ DirInv /\ PresentInv /\ ~failed
      /\ (2 \in 1 .. Len(stack[p]) => Called(stack[p][2], f, sharers, excl) /\ Calls(stack[p][2], f) /\ stack[p][2] \in Frames)
  BY <1>1, TopCalls DEF MesiInv, FrameOK
<1>4. UNCHANGED <<st, present, sharers, excl, wb>>
  BY DEF TakeBcc, dir
<1>5. \A r, S : WbInv(r, wb'[p], S)
  <2>1. ~wb[p]
    BY <1>1, <1>3, WrittenBack
  <2> QED BY <1>4, <2>1 DEF WbInv
<1>6. f.type \in {"GETS", "GETX", "PUTS", "PUTX"} /\ f.init \in {"I", "S", "E", "M"}
  BY <1>1, <1>3 DEF Frames, Inv
<1>7. ASSUME f.child # Nobody PROVE /\ f.child \in Caches /\ now \in {"I", "S", "E", "M"} /\ Wants(f.type, f.init) /\ Weaker(f.init, now)
                                    /\ now # "I" => st[f.c][f.l] # "I"
  <2>1. f.child \in Caches /\ Parent[f.child][f.l] = f.c
    BY <1>1, <1>3, <1>7 DEF FrameOK, Frames
  <2>2. now \in {"I", "S", "E", "M"}
    BY <1>1, <2>1 DEF LockInv, CohTypeOK
  <2>3. Wants(f.type, f.init) /\ Weaker(f.init, now)
    BY <1>1, <1>3, <1>7 DEF Accesses, Asks
  <2>4. now # "I" => st[f.c][f.l] # "I"
    BY <1>1, <1>3, <2>1, MemoryAssumption DEF DirInv, ChildOK
  <2> QED BY <2>1, <2>2, <2>3, <2>4
<1>8. Raced(f) => LegalRace(f)
  BY <1>6, <1>7 DEF Raced, LegalRace, Wants, Weaker, Exclusive, IsPut
<1>9. IsPut(f.type) => f.child # Nobody
  BY <1>3 DEF Accesses
<1>10. IsPut(f.type) /\ ~SkipAccess(f) => hit
  <2> SUFFICES ASSUME IsPut(f.type), ~SkipAccess(f) PROVE hit
    OBVIOUS
  <2>1. now # "I"
    BY <1>6, <1>7, <1>9 DEF SkipAccess, Raced, Wants, IsPut
  <2> QED BY <1>1, <1>3, <1>7, <1>9, <2>1 DEF PresentInv
<1>11. ~failed'
  BY <1>1, <1>3, <1>8, <1>10 DEF TakeBcc, Expect
<1>12. PICK label \in {"end", "fetch", "evict"}, v \in Lines \cup {NoLine} :
          /\ stack' = [stack EXCEPT ![p] = <<[f EXCEPT !.type = TypeNow(f), !.pc = label, !.victim = v]>> \o Tail(stack[p])]
          /\ label = "end" => SkipAccess(f)
          /\ label = "fetch" => ~SkipAccess(f) /\ hit
          /\ label = "evict" => ~SkipAccess(f) /\ ~hit
  <2>1. Victims(f.c) \subseteq Lines \cup {NoLine}
    BY <1>1 DEF Victims, LockInv, CohTypeOK
  <2> QED BY <1>1, <2>1 DEF TakeBcc, Becomes
<1> DEFINE h == [f EXCEPT !.type = TypeNow(f), !.pc = label, !.victim = v]
<1>13. TypeNow(f) \in {"GETS", "GETX", "PUTS", "PUTX"} /\ (IsPut(f.type) <=> IsPut(TypeNow(f)))
       /\ (~IsPut(f.type) => TypeNow(f) = f.type)
  BY <1>6 DEF TypeNow, IsPut
<1>14. h \in Frames /\ h.pc = label /\ h.c = f.c /\ h.l = f.l /\ h.type = TypeNow(f) /\ h.child = f.child /\ ~Inv(h)
  BY <1>1, <1>13 DEF Frames, Inv, AccLabels
<1>15. stack' = [stack EXCEPT ![p] = <<h>> \o Tail(stack[p])]
  BY <1>12
<1> HIDE DEF h
<1>16. Asks(h, st)
  <2> SUFFICES ASSUME f.child # Nobody
               PROVE  IF label = "end" THEN Gets(TypeNow(f), now) ELSE Wants(TypeNow(f), now)
    BY <1>14 DEF Asks
  <2>1. CASE label = "end"
    BY <1>12, <1>13, <2>1 DEF SkipAccess, Gets, IsPut
  <2>2. CASE label # "end"
    <3>1. ~SkipAccess(f)
      BY <1>12, <2>2
    <3>2. CASE Raced(f)
      BY <1>6, <1>7, <2>2, <3>1, <3>2 DEF Raced, SkipAccess, TypeNow, Wants, Weaker, Exclusive, IsPut
    <3>3. CASE ~Raced(f)
      BY <1>7, <2>2, <3>3 DEF Raced, TypeNow
    <3> QED BY <3>2, <3>3
  <2> QED BY <2>1, <2>2
<1>17. Accesses(p, h, st, present) /\ Answered(h, st)
  <2>1. f.child = Nobody => ~IsPut(f.type)
    BY <1>9
  <2>2. f.c \in Terminals => f.c \in Terminal[p]
    BY <1>3 DEF Accesses
  <2>3. label = "evict" => ~IsPut(f.type)
    BY <1>10, <1>12
  <2> QED BY <1>12, <1>13, <1>14, <1>16, <2>1, <2>2, <2>3 DEF Accesses, Answered
<1>18. 2 \in 1 .. Len(stack[p]) => Called(stack[p][2], h, sharers, excl)
  <2> SUFFICES ASSUME 2 \in 1 .. Len(stack[p]) PROVE Called(stack[p][2], h, sharers, excl)
    OBVIOUS
  <2>1. Called(stack[p][2], f, sharers, excl) /\ Calls(stack[p][2], f)
    BY <1>3
  <2>2. ~Inv(stack[p][2])
    BY <1>3, <2>1 DEF Calls
  <2>3. stack[p][2].pc = "fetched" => ~IsPut(stack[p][2].type)
    <3>1. Accesses(p, stack[p][2], st, present)
      BY <1>3, <2>2 DEF CallsInv, FramesInv
    <3> QED BY <3>1 DEF Accesses
  <2> QED BY <1>3, <1>13, <1>14, <2>1, <2>3 DEF Called
<1> HIDE DEF f
<1> QED BY <1>1, <1>4, <1>5, <1>11, <1>14, <1>15, <1>17, <1>18, QuietReplaced DEF f

\* The parent's answer keeps the MESI invariant.
LEMMA MesiFetched ==
    ASSUME LockInv, MesiInv, NEW p \in Cores, Fetched(p)
    PROVE  MesiInv'
<1> DEFINE f == stack[p][1]
           t == st[f.c][f.l]
           label == IF f.c \in Terminals THEN "end" ELSE "dir"
           h == [f EXCEPT !.pc = label]
<1>1. f = Frame(p) /\ f \in Frames /\ FrameOK(f) /\ f.pc = "fetched" /\ stack[p] # <<>> /\ f.c \in Caches /\ f.l \in Lines
  BY TopFrame DEF Fetched, At, Frames
<1>2. h \in Frames /\ h.pc = label /\ h.c = f.c /\ h.l = f.l /\ h.type = f.type /\ h.child = f.child /\ h.init = f.init
      /\ h.victim = f.victim /\ (Inv(h) <=> Inv(f))
  BY <1>1 DEF Frames, Inv, AccLabels
<1>3. ~Inv(f) /\ Accesses(p, f, st, present) /\ Answered(f, st) /\ CallsInv /\ ~failed
      /\ (2 \in 1 .. Len(stack[p]) => Called(stack[p][2], f, sharers, excl))
  BY <1>1, TopCalls DEF MesiInv, FrameOK
<1>4. UNCHANGED <<st, present, sharers, excl, wb>> /\ stack' = [stack EXCEPT ![p] = <<h>> \o Tail(stack[p])]
  BY <1>1 DEF Fetched, dir, GoTo, Becomes
<1>5. \A r, S : WbInv(r, wb'[p], S)
  <2>1. ~wb[p]
    BY <1>1, <1>3, WrittenBack
  <2> QED BY <1>4, <2>1 DEF WbInv
<1>6. f.type \in {"GETS", "GETX"} /\ Gets(f.type, t)
  BY <1>1, <1>3 DEF Accesses, Answered, Frames, Inv, IsPut
<1>7. IF f.type = "GETX" THEN t = "M" ELSE t \in {"S", "E"}
  BY <1>6 DEF Gets
<1>8. ~failed'
  BY <1>1, <1>3, <1>7 DEF Fetched, Expect
<1>a. f.c \in Terminals => f.child = Nobody
  BY <1>1, <1>3, LevelAssumption, MemoryAssumption DEF FrameOK, Terminals, Frames
<1>b. Asks(h, st)
  <2> SUFFICES ASSUME f.child # Nobody PROVE label = "dir" /\ Wants(f.type, st[f.child][f.l])
    BY <1>2 DEF Asks
  <2> QED BY <1>1, <1>3, <1>a DEF Accesses, Asks
<1>c. Accesses(p, h, st, present) /\ Answered(h, st)
  <2> HIDE DEF h
  <2>1. f.c \in Terminals => f.c \in Terminal[p]
    BY <1>3 DEF Accesses
  <2>2. f.l \in present[f.c] /\ ~IsPut(f.type)
    BY <1>1, <1>3 DEF Accesses
  <2> QED BY <1>2, <1>6, <1>7, <1>b, <2>1, <2>2 DEF Accesses, Answered, Exclusive
<1> HIDE DEF h
<1>d. 2 \in 1 .. Len(stack[p]) => Called(stack[p][2], h, sharers, excl)
  BY <1>1, <1>2, <1>3 DEF Called
<1> HIDE DEF f, t, label
<1> QED BY <1>1, <1>2, <1>4, <1>5, <1>8, <1>c, <1>d, QuietReplaced DEF f

\* An invalidation goes down.
LEMMA QuietInvalidate ==
    ASSUME LockInv, MesiInv, NEW p \in Cores, stack[p] # <<>>, NEW label, label = Frame(p).pc, NEW d \in Caches,
           NEW l \in Lines, NEW type \in {"INV", "INVX"}, Call(p, label, InvFrame(d, l, type)),
           UNCHANGED <<st, present, sharers, excl, wb>>, ~failed', l = WorkLine(Frame(p)),
           label = "dir" => ~IsPut(Frame(p).type), label \notin {"insert", "fetched"},
           d \in sharers[Frame(p).c][l], type = "INVX" => excl[Frame(p).c][l]
    PROVE  MesiInv'
<1> DEFINE f == stack[p][1]
           g == InvFrame(d, l, type)
           s == stack[p]
<1>1. f = Frame(p) /\ f = Head(stack[p]) /\ f \in Frames
  BY TopFrame
<1>2. [f EXCEPT !.pc = label] = f
  BY <1>1, SameLabel
<1>3. stack' = [stack EXCEPT ![p] = <<g, f>> \o Tail(s)]
  BY <1>1, <1>2 DEF Call
<1>4. g \in Frames /\ Inv(g) /\ g.c = d /\ g.l = l /\ g.type = type
  BY DEF InvFrame, Frames, Inv, AccLabels
<1>5. Called(f, g, sharers, excl)
  BY <1>1, <1>4 DEF Called
<1> HIDE DEF g
<1>6. s \in Seq(Frames) /\ BelowInv(p, s, st, present, sharers, excl) /\ CallsInv
      /\ (2 \in 1 .. Len(s) => Called(s[2], f, sharers, excl)) /\ (~Inv(f) => Accesses(p, f, st, present))
  BY StackIs, TopCalls DEF MesiInv
<1>7. FramesInv(p, <<g, f>> \o Tail(s), st, present, sharers, excl)
  BY <1>1, <1>4, <1>5, <1>6, FramesPushed
<1>8. WbInv(<<g, f>> \o Tail(s), wb'[p], st)
  BY <1>4, <1>6, WbPushed DEF CallsInv
<1>9. \A c \in Caches, m \in Lines, e \in Caches : Upgrading(stack, c, m, e) => Upgrading(stack', c, m, e)
  BY <1>1, <1>3, <1>4, UpgradingPushed
<1> QED BY <1>3, <1>7, <1>8, <1>9, Quiet

\* Invalidating the children of a victim keeps the MESI invariant.
LEMMA MesiEvictChildren ==
    ASSUME LockInv, MesiInv, NEW p \in Cores, EvictChildren(p)
    PROVE  MesiInv'
<1> DEFINE f == Frame(p)
           T == sharers[f.c][f.victim]
<1>1. f \in Frames /\ f.pc = "evict" /\ stack[p] # <<>> /\ f.c \in Caches /\ f.victim \in Lines
  BY TopFrame DEF EvictChildren, At, Frames
<1>2. T \in SUBSET Caches /\ T # {}
  BY <1>1 DEF EvictChildren, LockInv, CohTypeOK
<1>3. Min(T) \in T /\ Min(T) \in Caches
  BY <1>2, CachesAssumption, MinIsIn
<1>4. Call(p, "evict", InvFrame(Min(T), f.victim, "INV"))
  BY DEF EvictChildren, Invalidate
<1>5. UNCHANGED <<st, present, sharers, excl, wb>> /\ ~failed'
  BY DEF EvictChildren, dir, MesiInv
<1>6. WorkLine(f) = f.victim
  BY <1>1 DEF WorkLine
<1> QED BY <1>1, <1>3, <1>4, <1>5, <1>6, QuietInvalidate

\* Passing an invalidation on keeps the MESI invariant.
LEMMA MesiInvChildren ==
    ASSUME LockInv, MesiInv, NEW p \in Cores, InvChildren(p)
    PROVE  MesiInv'
<1> DEFINE f == Frame(p)
           T == sharers[f.c][f.l]
<1>1. f \in Frames /\ f.pc = "down" /\ stack[p] # <<>> /\ f.c \in Caches /\ f.l \in Lines /\ FrameOK(f)
  BY TopFrame DEF InvChildren, At, Frames
<1>a. f.type \in {"INV", "INVX"}
  BY <1>1 DEF FrameOK, Inv, AccLabels
<1>2. T \in SUBSET Caches
  BY <1>1 DEF LockInv, CohTypeOK
<1>b. Propagates(f)
  BY DEF InvChildren
<1>c. T # {} /\ (f.type = "INVX" => excl[f.c][f.l])
  <2>1. CASE f.type = "INVX"
    BY <1>b, <2>1, FS_EmptySet DEF Propagates, IsExclusive
  <2>2. CASE f.type # "INVX"
    BY <1>b, <2>2 DEF Propagates
  <2> QED BY <2>1, <2>2
<1>3. Min(T) \in T /\ Min(T) \in Caches
  BY <1>2, <1>c, CachesAssumption, MinIsIn
<1>4. Call(p, "down", InvFrame(Min(T), f.l, f.type))
  BY DEF InvChildren, Invalidate
<1>5. UNCHANGED <<st, present, sharers, excl, wb>> /\ ~failed'
  BY DEF InvChildren, dir, MesiInv
<1>6. WorkLine(f) = f.l
  BY <1>1 DEF WorkLine
<1> QED BY <1>1, <1>a, <1>c, <1>3, <1>4, <1>5, <1>6, QuietInvalidate

\* Taking the bottom lock on the way down keeps the MESI invariant.
LEMMA MesiInvLock ==
    ASSUME LockInv, MesiInv, NEW p \in Cores, InvLock(p)
    PROVE  MesiInv'
<1> DEFINE f == stack[p][1]
           s == stack[p]
           h == [f EXCEPT !.pc = "down"]
<1>1. f = Frame(p) /\ f \in Frames /\ FrameOK(f) /\ f.pc = "lock" /\ stack[p] # <<>> /\ f.c \in Caches /\ f.l \in Lines
  BY TopFrame DEF InvLock, At, Frames
<1>2. h \in Frames /\ h.pc = "down" /\ h.c = f.c /\ h.l = f.l /\ h.type = f.type /\ (Inv(h) <=> Inv(f))
  BY <1>1 DEF Frames, Inv, AccLabels
<1>3. Inv(f) /\ CallsInv /\ DirInv /\ PresentInv /\ ~failed
  BY <1>1 DEF MesiInv, FrameOK, AccLabels
<1>4. UNCHANGED <<st, present, sharers, excl, wb>> /\ stack' = [stack EXCEPT ![p] = <<h>> \o Tail(stack[p])]
  BY <1>1 DEF InvLock, dir, GoTo, Becomes
<1>5. 2 \in 1 .. Len(s) /\ Called(s[2], f, sharers, excl) /\ Calls(s[2], f) /\ s[2] \in Frames
  BY <1>1, <1>3, TopCalls
<1>6. f.l \in present[f.c]
  <2>1. s[2].c \in Caches /\ Parent[f.c][f.l] = s[2].c /\ f.c \in sharers[s[2].c][f.l]
    BY <1>3, <1>5 DEF Called, Calls, Frames
  <2>2. st[f.c][f.l] # "I"
    BY <1>1, <1>3, <2>1, MemoryAssumption DEF DirInv, ChildOK
  <2> QED BY <1>1, <1>3, <2>2 DEF PresentInv
<1>7. ~failed'
  BY <1>1, <1>3, <1>6 DEF InvLock, Expect
<1>8. s \in Seq(Frames) /\ WbInv(s, wb[p], st)
  BY <1>3, StackIs DEF CallsInv
<1> HIDE DEF h
<1>9. WbInv(<<h>> \o Tail(s), wb'[p], st)
  BY <1>1, <1>2, <1>3, <1>4, <1>8, WbReplaced
<1>10. Called(s[2], h, sharers, excl)
  BY <1>2, <1>3, <1>5 DEF Called
<1> HIDE DEF f
<1> QED BY <1>1, <1>2, <1>3, <1>4, <1>7, <1>9, <1>10, QuietReplaced DEF f

\* The return of an access keeps the MESI invariant.
LEMMA MesiEnd ==
    ASSUME LockInv, MesiInv, NEW p \in Cores, End(p)
    PROVE  MesiInv'
<1> DEFINE f == stack[p][1]
           s == stack[p]
<1>1. f = Frame(p) /\ f \in Frames /\ FrameOK(f) /\ f.pc = "end" /\ stack[p] # <<>>
  BY TopFrame DEF End, At
<1>2. ~Inv(f) /\ CallsInv /\ ~failed /\ s \in Seq(Frames) /\ BelowInv(p, s, st, present, sharers, excl)
      /\ Accesses(p, f, st, present)
      /\ (2 \in 1 .. Len(s) => Called(s[2], f, sharers, excl) /\ Calls(s[2], f) /\ s[2] \in Frames)
  BY <1>1, StackIs, TopCalls DEF MesiInv, FrameOK
<1>3. UNCHANGED <<st, present, sharers, excl, wb, failed>> /\ stack' = [stack EXCEPT ![p] = Tail(s)]
  BY DEF End, dir, Return
<1>4. ~wb[p]
  BY <1>1, <1>2, WrittenBack
<1>5. WbInv(Tail(s), wb'[p], st)
  BY <1>3, <1>4 DEF WbInv
<1>6. ASSUME 2 \in 1 .. Len(s), ~Inv(s[2]) PROVE Answered(s[2], st)
  <2>1. f.child = s[2].c /\ f.child \in Caches
    BY <1>2, <1>6 DEF Calls, Frames
  <2>2. Gets(f.type, st[s[2].c][f.l])
    BY <1>1, <1>2, <2>1, NobodyAssumption DEF Accesses, Asks
  <2>3. (s[2].pc = "insert" => IsPut(f.type) /\ f.l = s[2].victim) /\ (s[2].pc = "fetched" => f.type = s[2].type /\ f.l = s[2].l)
    BY <1>2, <1>6 DEF Called
  <2> QED BY <2>2, <2>3 DEF Answered, Gets
<1>7. FramesInv(p, Tail(s), st, present, sharers, excl)
  BY <1>1, <1>2, <1>6, FramesPopped
<1>8. \A c \in Caches, l \in Lines, d \in Caches : Upgrading(stack, c, l, d) => Upgrading(stack', c, l, d)
  <2>1. \A c \in Caches, l \in Lines, d \in Caches : ~Upgrade(f, c, l, d)
    BY <1>1 DEF Upgrade
  <2> QED BY <1>1, <1>3, <2>1, UpgradingPopped
<1>9. ~failed'
  BY <1>2, <1>3
<1> QED BY <1>3, <1>5, <1>7, <1>8, <1>9, Quiet

\* The start of an access keeps the MESI invariant.
LEMMA MesiStart ==
    ASSUME LockInv, MesiInv, NEW p \in Cores, Start(p)
    PROVE  MesiInv'
<1>1. stack[p] = <<>> /\ UNCHANGED <<st, present, sharers, excl, wb, failed>> /\ ~failed /\ CallsInv
  BY DEF Start, dir, MesiInv
<1>2. PICK c \in Terminal[p], l \in Lines, type \in {"GETS", "GETX"} :
          stack' = [stack EXCEPT ![p] = <<AccFrame(c, l, type, Nobody, "I")>>]
  BY DEF Start
<1> DEFINE g == AccFrame(c, l, type, Nobody, "I")
           r == <<g>>
<1>3. c \in Terminals /\ c \in Caches
  BY <1>2, TerminalAssumption DEF Terminals
<1>4. g.c = c /\ g.type = type /\ g.child = Nobody /\ g.pc = "bcc"
  BY <1>3 DEF AccFrame
<1> HIDE DEF g
<1>5. Len(r) = 1 /\ r[1] = g
  OBVIOUS
<1>6. Accesses(p, g, st, present) /\ Answered(g, st)
  BY <1>2, <1>4 DEF Accesses, Answered, Asks, IsPut
<1> HIDE DEF r
<1>7. FramesInv(p, r, st, present, sharers, excl)
  BY <1>5, <1>6 DEF FramesInv
<1>8. ~wb[p]
  BY <1>1, WrittenBack
<1>9. WbInv(r, wb'[p], st)
  BY <1>1, <1>8 DEF WbInv
<1>10. stack' = [stack EXCEPT ![p] = r] /\ ~failed'
  BY <1>1, <1>2 DEF r, g
<1>11. \A a \in Caches, m \in Lines, d \in Caches : Upgrading(stack, a, m, d) => Upgrading(stack', a, m, d)
  <2>1. \A q \in Cores : q # p => stack'[q] = stack[q]
    BY <1>10 DEF LockInv, CohTypeOK
  <2>2. \A q \in Cores : \A i \in 1 .. Len(stack[q]) : q # p
    BY <1>1
  <2> QED BY <2>1, <2>2 DEF Upgrading
<1> QED BY <1>1, <1>7, <1>9, <1>10, <1>11, Quiet

-----------------------------------------------------------------------------
(* Requests to the parent. *)

\* No child of cache c has line l.
NoCopies(c, l, S) == \A d \in Caches : Parent[d][l] = c => S[d][l] = "I"

\* No cache is its own child.
LEMMA ChildIsOther ==
    ASSUME NEW d \in Caches, NEW l \in Lines, Parent[d][l] \in Caches
    PROVE  Parent[d][l] # d
<1>1. Level[d] \in Nat
  BY LevelAssumption
<1> QED BY <1>1, LevelAssumption, MemoryAssumption

\* What a request changes: the requester's state, by the memory's answer or, for a dirty line, to M.
LEMMA ToParentState ==
    ASSUME LockInv, NEW p \in Cores, NEW c \in Caches, NEW l \in Lines, NEW type, NEW t, NEW label,
           ToParent(p, c, l, type, t, label)
    PROVE  \A x \in Caches, m \in Lines :
               st'[x][m] = IF x = c /\ m = l THEN IF Parent[c][l] = Memory THEN Granted(p, type) ELSE t ELSE st[x][m]
<1>1. st' = [st EXCEPT ![c][l] = IF Parent[c][l] = Memory THEN Granted(p, type) ELSE t]
  BY DEF ToParent
<1>2. st \in [Caches -> [Lines -> {"I", "S", "E", "M"}]]
  BY DEF LockInv, CohTypeOK
<1> QED BY <1>1, <1>2

\* A call to the parent touches only the caller's own cache.
LEMMA ToParentTouches ==
    ASSUME LockInv, NEW p \in Cores, stack[p] # <<>>, NEW f, f = stack[p][1], ~Inv(f), f.pc \in {"evict", "fetch"},
           NEW l \in Lines, NEW type, NEW t, NEW label, ToParent(p, f.c, l, type, t, label),
           t # st[f.c][l] => Exclusive(t) /\ Exclusive(st[f.c][l]),
           UNCHANGED <<present, sharers, excl>>
    PROVE  Touches(p)
<1> DEFINE c == f.c
<1>1. c \in Caches /\ bcc[c] = p /\ AccessAt(p, c)
  BY TopHolds DEF Held
<1>2. \A x \in Caches, m \in Lines :
          st'[x][m] = IF x = c /\ m = l THEN IF Parent[c][l] = Memory THEN Granted(p, type) ELSE t ELSE st[x][m]
  BY <1>1, ToParentState
<1> HIDE DEF c
<1>3. \A x \in Caches, m \in Lines : st'[x][m] # st[x][m] =>
          /\ bcc[x] = p /\ AccessAt(p, x)
          /\ Parent[x][m] # Memory => Exclusive(st[x][m]) /\ Exclusive(st'[x][m])
  BY <1>1, <1>2 DEF c
<1> QED BY <1>3 DEF Touches

\* The frame of a call to the parent says what is true of the caller.
LEMMA ToParentAccess ==
    ASSUME LockInv, MesiInv, NEW p \in Cores, stack[p] # <<>>, NEW f, f = stack[p][1], ~Inv(f), f.pc \in {"evict", "fetch"},
           NEW l \in Lines, l = WorkLine(f), ~IsPut(f.type), NEW label, label = IF f.pc = "evict" THEN "insert" ELSE "fetched",
           f.pc = "evict" => NoCopies(f.c, l, st),
           \A x \in Caches, m \in Lines : x # f.c \/ m # l => st'[x][m] = st[x][m], present' = present
    PROVE  Accesses(p, [f EXCEPT !.pc = label], st', present')
<1> DEFINE h == [f EXCEPT !.pc = label]
<1>1. f \in Frames /\ FrameOK(f) /\ Accesses(p, f, st, present) /\ f.c \in Caches /\ f.l \in Lines
      /\ f.victim \in Lines \cup {NoLine}
  BY TopFrame, TopCalls DEF Frames, MesiInv
<1>2. h.pc = label /\ h.c = f.c /\ h.l = f.l /\ h.type = f.type /\ h.child = f.child /\ h.init = f.init /\ h.victim = f.victim
  BY <1>1 DEF Frames
<1> HIDE DEF h
<1>3. label \in {"insert", "fetched"} /\ (label = "insert" <=> f.pc = "evict") /\ (label = "insert" => l = f.victim)
  BY DEF WorkLine
<1>4. ASSUME f.child # Nobody PROVE Wants(f.type, st'[f.child][f.l])
  <2>1. f.child \in Caches /\ f.child # f.c
    BY <1>1, <1>4, ChildIsOther DEF FrameOK, Frames
  <2> QED BY <1>1, <1>4, <2>1 DEF Accesses, Asks
<1>5. Asks(h, st')
  BY <1>2, <1>3, <1>4 DEF Asks
<1>6. ASSUME label = "insert", NEW d \in Caches, Parent[d][l] = f.c PROVE st'[d][l] = "I"
  <2>1. d # f.c
    BY <1>1, <1>6, ChildIsOther
  <2> QED BY <1>3, <1>6, <2>1 DEF NoCopies
<1>7. label = "fetched" => f.l \in present[f.c]
  BY <1>1, <1>3 DEF Accesses
<1>8. f.c \in Terminals => f.c \in Terminal[p]
  BY <1>1 DEF Accesses
<1> QED BY <1>2, <1>3, <1>5, <1>6, <1>7, <1>8 DEF Accesses, h

\* A call to the parent, with the caller's line as the request says, keeps the MESI invariant.
LEMMA MesiToParent ==
    ASSUME LockInv, MesiInv, NEW p \in Cores, stack[p] # <<>>, NEW f, f = stack[p][1], ~Inv(f), f.pc \in {"evict", "fetch"},
           NEW l \in Lines, l = WorkLine(f), ~IsPut(f.type), NEW label, label = IF f.pc = "evict" THEN "insert" ELSE "fetched",
           NEW type \in {"GETS", "GETX", "PUTS", "PUTX"}, NEW t, ToParent(p, f.c, l, type, t, label), Wants(type, t),
           IF f.pc = "evict" THEN IsPut(type) ELSE type = f.type,
           t # st[f.c][l] => Exclusive(t) /\ Exclusive(st[f.c][l]),
           f.pc = "evict" => NoCopies(f.c, l, st),
           UNCHANGED <<present, sharers, excl>>, ~failed', wb'[p] = FALSE, \A q \in Cores : q # p => wb'[q] = wb[q]
    PROVE  MesiInv'
<1> DEFINE h == [f EXCEPT !.pc = label]
           c == f.c
           s == stack[p]
<1>1. /\ f = Head(s) /\ Frame(p) = f /\ f \in Frames /\ FrameOK(f) /\ c \in Caches /\ f.l \in Lines /\ s \in Seq(Frames)
      /\ Accesses(p, f, st, present) /\ (2 \in 1 .. Len(s) => Called(s[2], f, sharers, excl))
      /\ CallsInv /\ DirInv /\ PresentInv
  BY TopFrame, TopCalls, StackIs DEF Frames, MesiInv
<1>2. h \in Frames /\ h.pc = label /\ h.c = f.c /\ h.l = f.l /\ h.type = f.type /\ h.victim = f.victim /\ ~Inv(h)
  BY <1>1 DEF Frames, AccLabels, Inv
<1>3. /\ Touches(p)
      /\ \A x \in Caches, m \in Lines : x # c \/ m # l => st'[x][m] = st[x][m]
      /\ st'[c][l] = IF Parent[c][l] = Memory THEN Granted(p, type) ELSE t
  <2>1. Touches(p)
    BY ToParentTouches
  <2>2. \A x \in Caches, m \in Lines :
            st'[x][m] = IF x = c /\ m = l THEN IF Parent[c][l] = Memory THEN Granted(p, type) ELSE t ELSE st[x][m]
    BY <1>1, ToParentState
  <2> QED BY <1>1, <2>1, <2>2
<1>4. Accesses(p, h, st', present')
  BY <1>3, ToParentAccess
<1>w. \A r, S : WbInv(r, wb'[p], S)
  BY DEF WbInv
<1>b. BelowInv(p, s, st', present', sharers', excl')
  BY <1>1, <1>3, BelowAccess
<1>c. 2 \in 1 .. Len(s) => Called(s[2], h, sharers', excl')
  BY <1>1, <1>2 DEF Called
<1>5. CASE Parent[c][l] = Memory
  <2>1. stack' = [stack EXCEPT ![p] = <<h>> \o Tail(s)]
    BY <1>1, <1>5 DEF ToParent, GoTo, Becomes
  <2> HIDE DEF h
  <2>2. Gets(type, st'[c][l])
    BY <1>3, <1>5 DEF Granted, Gets, IsPut
  <2>3. Answered(h, st')
    BY <1>1, <1>2, <2>2 DEF Answered, WorkLine, Gets
  <2>4. FramesInv(p, <<h>> \o Tail(s), st', present', sharers', excl')
    BY <1>1, <1>2, <1>4, <1>b, <1>c, <2>3, FramesReplaced
  <2>5. CallsInv'
    BY <1>1, <1>3, <1>w, <2>1, <2>4, CallsKept
  <2>6. \A a \in Caches, m \in Lines, d \in Caches : Upgrading(stack, a, m, d) => Upgrading(stack', a, m, d)
    BY <1>2, <2>1, UpgradingReplaced DEF Upgrade
  <2>7. DirInv'
    <3> SUFFICES ASSUME NEW m \in Lines, NEW d \in Caches, Parent[d][m] # Memory
                 PROVE  ChildOK(Parent[d][m], d, m, st', sharers', excl', stack')
      BY DEF DirInv
    <3> DEFINE u == Parent[d][m]
    <3>1. u \in Caches /\ ChildOK(u, d, m, st, sharers, excl, stack)
      BY <1>1, ParentAssumption DEF DirInv
    <3>2. st'[d][m] = st[d][m]
      BY <1>3, <1>5
    <3>3. \A e \in Caches : Parent[e][m] = u => st'[e][m] = st[e][m]
      BY <1>3, <1>5
    <3>4. CASE u = c /\ m = l
      <4>1. CASE f.pc = "evict"
        BY <1>1, <3>1, <3>2, <3>4, <4>1 DEF ChildOK, Exclusive, NoCopies
      <4>2. CASE f.pc = "fetch"
        <5>1. type = "GETX" \/ (type = "GETS" /\ st[d][m] = "I")
          BY <3>1, <3>4, <4>2 DEF ChildOK, Wants, Exclusive, IsPut
        <5>2. type = "GETX" => st'[u][m] = "M"
          BY <2>2, <3>4 DEF Gets
        <5> QED BY <2>6, <3>1, <3>2, <3>3, <5>1, <5>2 DEF ChildOK, Exclusive
      <4> QED BY <4>1, <4>2
    <3>5. CASE ~(u = c /\ m = l)
      <4>1. st'[u][m] = st[u][m]
        BY <1>3, <3>1, <3>5
      <4> QED BY <2>6, <3>1, <3>2, <3>3, <4>1 DEF ChildOK
    <3> QED BY <3>4, <3>5
  <2>8. PresentInv'
    <3>1. ASSUME st'[c][l] # "I" PROVE l \in present[c]
      <4>1. f.pc = "fetch"
        BY <2>2, <3>1 DEF Gets
      <4> QED BY <1>1, <4>1 DEF Accesses, WorkLine
    <3> QED BY <1>1, <1>3, <3>1 DEF PresentInv
  <2> QED BY <2>5, <2>7, <2>8 DEF MesiInv
<1>6. CASE Parent[c][l] # Memory
  <2> DEFINE g == AccFrame(Parent[c][l], l, type, c, t)
  <2>1. stack' = [stack EXCEPT ![p] = <<g, h>> \o Tail(s)]
    BY <1>1, <1>6 DEF ToParent, Call
  <2>2. Parent[c][l] \in Caches /\ Parent[c][l] \notin Terminals
    BY <1>1, <1>6, ParentAssumption, LevelAssumption DEF Terminals
  <2>t. t \in {"I", "S", "E", "M"}
    BY <1>1 DEF LockInv, CohTypeOK, Exclusive
  <2>3. /\ g.c = Parent[c][l] /\ g.l = l /\ g.type = type /\ g.child = c /\ g.init = t /\ g.pc = "tcc" /\ g \in Frames
        /\ ~Inv(g)
    BY <1>1, <2>2, <2>t DEF AccFrame, Frames, AccLabels, Inv
  <2> HIDE DEF g, h
  <2>4. Accesses(p, g, st', present') /\ Answered(g, st')
    BY <1>1, <1>3, <1>6, <2>2, <2>3, NobodyAssumption DEF Accesses, Asks, Answered, Weaker
  <2>5. Called(h, g, sharers', excl')
    BY <1>2, <2>3 DEF Called, WorkLine
  <2>6. FramesInv(p, <<g, h>> \o Tail(s), st', present', sharers', excl')
    BY <1>1, <1>2, <1>4, <1>b, <1>c, <2>3, <2>4, <2>5, FramesPushed
  <2>7. CallsInv'
    BY <1>1, <1>3, <1>w, <2>1, <2>6, CallsKept
  <2>8. \A a \in Caches, m \in Lines, d \in Caches : Upgrading(stack, a, m, d) => Upgrading(stack', a, m, d)
    BY <1>2, <2>1, <2>3, UpgradingPushed DEF Upgrade
  <2>9. \A x \in Caches, m \in Lines : st'[x][m] # st[x][m] => Exclusive(st[x][m]) /\ Exclusive(st'[x][m])
    BY <1>3, <1>6
  <2>10. DirInv'
    BY <1>1, <2>8, <2>9, DirKept
  <2>11. PresentInv'
    BY <1>1, <2>9 DEF PresentInv, Exclusive
  <2> QED BY <2>7, <2>10, <2>11 DEF MesiInv
<1> QED BY <1>5, <1>6

\* Evicting the victim, whose state becomes invalid while its writeback goes up, keeps the MESI invariant.
LEMMA MesiEvictSelf ==
    ASSUME LockInv, MesiInv, NEW p \in Cores, EvictSelf(p)
    PROVE  MesiInv'
<1> DEFINE f == stack[p][1]
           v == f.victim
           t == IF wb[p] THEN "M" ELSE st[f.c][v]
           h == [f EXCEPT !.pc = "insert"]
           s == stack[p]
<1>1. /\ f = Frame(p) /\ f \in Frames /\ FrameOK(f) /\ f.pc = "evict" /\ stack[p] # <<>> /\ f.c \in Caches
      /\ v \in Lines \cup {NoLine}
  BY TopFrame DEF EvictSelf, At, Frames
<1>2. /\ ~Inv(f) /\ CallsInv /\ DirInv /\ ~failed /\ Accesses(p, f, st, present) /\ ~IsPut(f.type)
      /\ (2 \in 1 .. Len(s) => Called(s[2], f, sharers, excl))
  <2>1. ~Inv(f) /\ CallsInv /\ DirInv /\ ~failed
    BY <1>1 DEF MesiInv, FrameOK
  <2>2. Accesses(p, f, st, present) /\ (2 \in 1 .. Len(s) => Called(s[2], f, sharers, excl))
    BY <1>1, <2>1, TopCalls
  <2> QED BY <1>1, <2>1, <2>2 DEF Accesses
<1>3. UNCHANGED <<present, sharers, excl>> /\ wb' = [wb EXCEPT ![p] = FALSE]
  BY DEF EvictSelf, dir
<1>4. wb'[p] = FALSE /\ (\A q \in Cores : q # p => wb'[q] = wb[q]) /\ wb[p] \in BOOLEAN /\ (\A r, S : WbInv(r, wb'[p], S))
  BY <1>3 DEF LockInv, CohTypeOK, WbInv
<1>5. wb[p] => v \in Lines /\ Exclusive(st[f.c][v])
  BY <1>1, <1>2, WrittenBack DEF WorkLine
<1>6. h \in Frames /\ h.pc = "insert" /\ h.c = f.c /\ h.l = f.l /\ h.type = f.type /\ h.child = f.child /\ h.init = f.init
      /\ h.victim = v /\ ~Inv(h)
  BY <1>1, <1>2 DEF Frames, Inv, AccLabels
<1>7. 2 \in 1 .. Len(s) => Called(s[2], h, sharers, excl)
  BY <1>2, <1>6 DEF Called
<1>8. ASSUME v # NoLine, sharers[f.c][v] = {}, NEW d \in Caches, Parent[d][v] = f.c PROVE st[d][v] = "I"
  BY <1>1, <1>2, <1>8, Listed DEF Held, Upgrade
<1>a. Asks(h, st)
  BY <1>1, <1>2, <1>6 DEF Accesses, Asks
<1>b. f.c \in Terminals => f.c \in Terminal[p]
  BY <1>2 DEF Accesses
<1>9. CASE v = NoLine \/ (sharers[f.c][v] = {} /\ st[f.c][v] = "I" /\ t = "I")
  <2>1. UNCHANGED st /\ failed' = failed /\ GoTo(p, "insert")
    <3>1. CASE v = NoLine
      BY <1>1, <3>1 DEF EvictSelf
    <3>2. CASE v # NoLine
      <4>1. Expect(wb[p] => Exclusive(st[f.c][v])) /\ GoTo(p, "insert") /\ UNCHANGED st
        BY <1>1, <1>9, <3>2 DEF EvictSelf
      <4>2. failed' = failed
        BY <1>2, <1>5, <4>1 DEF Expect, LockInv, CohTypeOK
      <4> QED BY <4>1, <4>2
    <3> QED BY <3>1, <3>2
  <2>2. stack' = [stack EXCEPT ![p] = <<h>> \o Tail(stack[p])] /\ ~failed'
    BY <1>1, <1>2, <2>1 DEF GoTo, Becomes
  <2> HIDE DEF h
  <2>3. Accesses(p, h, st, present)
    BY <1>2, <1>6, <1>8, <1>9, <1>a, <1>b DEF Accesses
  <2>4. Answered(h, st)
    BY <1>6, <1>9 DEF Answered
  <2> QED BY <1>1, <1>3, <1>4, <1>6, <1>7, <2>1, <2>2, <2>3, <2>4, QuietReplaced
<1>10. CASE v # NoLine /\ ~(sharers[f.c][v] = {} /\ st[f.c][v] = "I" /\ t = "I")
  <2> DEFINE type == IF t = "M" THEN "PUTX" ELSE "PUTS"
  <2>0. sharers[f.c][v] = {} /\ v \in Lines /\ Expect(wb[p] => Exclusive(st[f.c][v]))
    BY <1>1, <1>10 DEF EvictSelf
  <2>1. st[f.c][v] \in {"I", "S", "E", "M"}
    BY <1>1, <2>0 DEF LockInv, CohTypeOK
  <2>2. t # "I" /\ t \in {"S", "E", "M"} /\ (t # st[f.c][v] => Exclusive(t) /\ Exclusive(st[f.c][v]))
    BY <1>5, <1>10, <2>0, <2>1 DEF Exclusive
  <2>3. ToParent(p, f.c, v, type, t, "insert")
    BY <1>1, <1>10, <2>2 DEF EvictSelf
  <2>4. ~failed'
    BY <1>2, <1>5, <2>0 DEF Expect
  <2>5. type \in {"GETS", "GETX", "PUTS", "PUTX"} /\ IsPut(type) /\ Wants(type, t)
    BY <2>2 DEF IsPut, Wants
  <2>6. v = WorkLine(f) /\ "insert" = IF f.pc = "evict" THEN "insert" ELSE "fetched"
    BY <1>1 DEF WorkLine
  <2>7. \A d \in Caches : Parent[d][v] = f.c => st[d][v] = "I"
    BY <1>8, <1>10, <2>0
  <2>8. IF f.pc = "evict" THEN IsPut(type) ELSE type = f.type
    BY <1>1, <2>5
  <2>9. NoCopies(f.c, v, st)
    BY <2>7 DEF NoCopies
  <2>10. UNCHANGED <<present, sharers, excl>> /\ ~failed' /\ wb'[p] = FALSE /\ (\A q \in Cores : q # p => wb'[q] = wb[q])
    BY <1>3, <1>4, <2>4
  <2>11. LockInv /\ MesiInv /\ p \in Cores /\ stack[p] # <<>> /\ f = stack[p][1] /\ ~Inv(f) /\ f.pc \in {"evict", "fetch"} /\ ~IsPut(f.type)
    BY <1>1, <1>2

  <2> QED BY <2>0, <2>2, <2>3, <2>5, <2>6, <2>8, <2>9, <2>10, <2>11, MesiToParent
<1> QED BY <1>9, <1>10

\* Inserting the line keeps the MESI invariant.
LEMMA MesiInsert ==
    ASSUME LockInv, MesiInv, NEW p \in Cores, Insert(p)
    PROVE  MesiInv'
<1> DEFINE f == stack[p][1]
           v == f.victim
           c == f.c
           h == [f EXCEPT !.pc = "fetch", !.victim = NoLine]
           s == stack[p]
<1>1. /\ f = Frame(p) /\ f \in Frames /\ FrameOK(f) /\ f.pc = "insert" /\ stack[p] # <<>> /\ c \in Caches /\ f.l \in Lines
      /\ v \in Lines \cup {NoLine} /\ s \in Seq(Frames)
  BY TopFrame, StackIs DEF Insert, At, Frames
<1>2. /\ ~Inv(f) /\ CallsInv /\ DirInv /\ PresentInv /\ ~failed
  BY <1>1 DEF MesiInv, FrameOK
<1>3. Accesses(p, f, st, present) /\ Answered(f, st) /\ (2 \in 1 .. Len(s) => Called(s[2], f, sharers, excl))
  BY <1>1, <1>2, TopCalls
<1>4. UNCHANGED <<st, sharers, wb>> /\ stack' = [stack EXCEPT ![p] = <<h>> \o Tail(stack[p])]
  BY <1>1 DEF Insert, Becomes
<1>5. v # NoLine => st[c][v] = "I" /\ \A d \in Caches : Parent[d][v] = c => st[d][v] = "I"
  BY <1>1, <1>3 DEF Answered, Accesses
<1>6. ~failed'
  BY <1>1, <1>2, <1>5 DEF Insert, Expect
<1>7. \A a \in Caches : present'[a] = IF a = c THEN (present[c] \ {v}) \cup {f.l} ELSE present[a]
  <2>1. present' = [present EXCEPT ![c] = (@ \ {v}) \cup {f.l}]
    BY <1>1 DEF Insert
  <2> QED BY <1>1, <2>1 DEF LockInv, CohTypeOK
<1>8. \A a \in Caches, m \in Lines : excl'[a][m] = IF v # NoLine /\ a = c /\ m = v THEN FALSE ELSE excl[a][m]
  <2>1. excl' = IF v = NoLine THEN excl ELSE [excl EXCEPT ![c][v] = FALSE]
    BY <1>1 DEF Insert
  <2> QED BY <1>1, <2>1 DEF LockInv, CohTypeOK
<1>9. h \in Frames /\ h.pc = "fetch" /\ h.c = c /\ h.l = f.l /\ h.type = f.type /\ h.child = f.child /\ h.init = f.init
      /\ ~Inv(h)
  BY <1>1, <1>2 DEF Frames, Inv, AccLabels
<1>10. bcc[c] = p /\ AccessAt(p, c)
  BY <1>1, <1>2, TopHolds DEF Held
<1>b. ~wb[p]
  BY <1>1, <1>2, WrittenBack
<1>11. WbInv(<<h>> \o Tail(s), wb'[p], st')
  BY <1>4, <1>b DEF WbInv
<1>u. \A a \in Caches, m \in Lines, d \in Caches : Upgrading(stack, a, m, d) => Upgrading(stack', a, m, d)
  <2> HIDE DEF h
  <2> QED BY <1>1, <1>4, <1>9, UpgradingReplaced DEF Upgrade
<1> HIDE DEF h
<1>12. Touches(p)
  <2>1. \A x \in Caches, m \in Lines : st'[x][m] = st[x][m]
    BY <1>4
  <2>2. \A a \in Caches, m \in Lines : sharers'[a][m] # sharers[a][m] \/ excl'[a][m] # excl[a][m] => bcc[a] = p
    BY <1>4, <1>8, <1>10
  <2>3. \A a \in Caches : present'[a] # present[a] => AccessAt(p, a)
    <3> HIDE DEF c, v
    <3> QED BY <1>7, <1>10
  <2> QED BY <2>1, <2>2, <2>3 DEF Touches
<1>13. BelowInv(p, s, st', present', sharers', excl')
  BY <1>1, <1>2, <1>4, <1>7, BelowAccess
<1>14. Accesses(p, h, st', present') /\ Answered(h, st')
  <2>1. f.l \in present'[c]
    BY <1>1, <1>7
  <2>2. Asks(h, st')
    BY <1>1, <1>3, <1>4, <1>9 DEF Accesses, Asks
  <2>3. (f.c \in Terminals => f.c \in Terminal[p]) /\ (f.child = Nobody => ~IsPut(f.type))
    BY <1>3 DEF Accesses
  <2> QED BY <1>9, <2>1, <2>2, <2>3 DEF Accesses, Answered
<1>15. 2 \in 1 .. Len(s) => Called(s[2], h, sharers', excl')
  BY <1>2, <1>3, <1>9 DEF Called
<1>16. FramesInv(p, <<h>> \o Tail(s), st', present', sharers', excl')
  BY <1>1, <1>9, <1>13, <1>14, <1>15, FramesReplaced
<1>17. CallsInv'
  BY <1>2, <1>4, <1>11, <1>12, <1>16, CallsKept
<1>18. DirInv'
  <2> SUFFICES ASSUME NEW m \in Lines, NEW d \in Caches, Parent[d][m] # Memory
               PROVE  ChildOK(Parent[d][m], d, m, st', sharers', excl', stack')
    BY DEF DirInv
  <2> DEFINE u == Parent[d][m]
  <2>1. u \in Caches /\ ChildOK(u, d, m, st, sharers, excl, stack)
    BY <1>2, ParentAssumption DEF DirInv
  <2>2. excl'[u][m] = excl[u][m] \/ (excl'[u][m] = FALSE /\ st[d][m] = "I")
    <3>1. Parent[d][m] = u
      OBVIOUS
    <3> HIDE DEF c, v, u
    <3>2. CASE v # NoLine /\ u = c /\ m = v
      <4>1. st[d][m] = "I"
        BY <1>5, <3>1, <3>2
      <4>2. excl'[u][m] = FALSE
        BY <1>8, <2>1, <3>2
      <4> QED BY <4>1, <4>2
    <3>3. CASE ~(v # NoLine /\ u = c /\ m = v)
      BY <1>8, <2>1, <3>3
    <3> QED BY <3>2, <3>3
  <2> QED BY <1>4, <1>u, <2>1, <2>2 DEF ChildOK, Exclusive
<1>19. PresentInv'
  BY <1>2, <1>4, <1>5, <1>7, NoLineAssumption DEF PresentInv
<1> QED BY <1>6, <1>17, <1>18, <1>19 DEF MesiInv

\* The request of a miss or of an upgrade keeps the MESI invariant.
LEMMA MesiFetch ==
    ASSUME LockInv, MesiInv, NEW p \in Cores, Fetch(p)
    PROVE  MesiInv'
<1> DEFINE f == stack[p][1]
           c == f.c
           t == st[f.c][f.l]
           miss == (f.type = "GETS" /\ t = "I") \/ (f.type = "GETX" /\ t \in {"I", "S"})
           s == stack[p]
           label == IF c \in Terminals THEN "end" ELSE "dir"
           h == [f EXCEPT !.pc = label]
<1>1. /\ f = Frame(p) /\ f \in Frames /\ FrameOK(f) /\ f.pc = "fetch" /\ stack[p] # <<>> /\ c \in Caches /\ f.l \in Lines
      /\ s \in Seq(Frames)
  BY TopFrame, StackIs DEF Fetch, At, Frames
<1>2. /\ ~Inv(f) /\ CallsInv /\ DirInv /\ PresentInv /\ ~failed
  BY <1>1 DEF MesiInv, FrameOK
<1>3. Accesses(p, f, st, present) /\ (2 \in 1 .. Len(s) => Called(s[2], f, sharers, excl))
  BY <1>1, <1>2, TopCalls
<1>4. UNCHANGED <<present, sharers, excl, wb>> /\ ~wb[p]
  BY <1>1, <1>2, WrittenBack DEF Fetch, dir
<1>5. f.type \in {"GETS", "GETX", "PUTS", "PUTX"} /\ t \in {"I", "S", "E", "M"}
  BY <1>1, <1>2 DEF Frames, Inv, LockInv, CohTypeOK
<1>6. CASE miss
  <2>1. ToParent(p, c, f.l, f.type, t, "fetched") /\ ~failed'
    <3>1. ToParent(p, c, f.l, f.type, t, "fetched") /\ failed' = failed
      BY <1>1, <1>6 DEF Fetch
    <3> QED BY <1>2, <3>1
  <2>2. ~IsPut(f.type) /\ Wants(f.type, t)
    BY <1>6 DEF IsPut, Wants
  <2>3. f.l = WorkLine(f) /\ "fetched" = IF f.pc = "evict" THEN "insert" ELSE "fetched"
    BY <1>1 DEF WorkLine
  <2>4. wb'[p] = FALSE /\ (\A q \in Cores : q # p => wb'[q] = wb[q])
    BY <1>4 DEF LockInv, CohTypeOK
  <2> HIDE DEF f, t
  <2> QED BY <1>1, <1>2, <1>4, <1>5, <2>1, <2>2, <2>3, <2>4, MesiToParent DEF f, t
<1>7. CASE ~miss
  <2>1. /\ Expect((IsPut(f.type) => t # "I") /\ (f.type = "PUTX" => Exclusive(t)))
        /\ st' = IF f.type \in {"PUTX", "GETX"} THEN [st EXCEPT ![c][f.l] = "M"] ELSE st
        /\ stack' = [stack EXCEPT ![p] = <<h>> \o Tail(s)]
    BY <1>1, <1>7 DEF Fetch, GoTo, Becomes
  <2>2. h \in Frames /\ h.pc = label /\ h.c = f.c /\ h.l = f.l /\ h.type = f.type /\ h.child = f.child /\ h.init = f.init
        /\ h.victim = f.victim /\ ~Inv(h)
    BY <1>1, <1>2 DEF Frames, Inv, AccLabels
  <2> HIDE DEF h
  <2>3. ASSUME f.child # Nobody
        PROVE  /\ f.child \in Caches /\ f.child # c /\ c \notin Terminals /\ Wants(f.type, st[f.child][f.l])
               /\ st[f.child][f.l] # "I" => t # "I"
               /\ Exclusive(st[f.child][f.l]) => Exclusive(t)
    <3>1. f.child \in Caches /\ Parent[f.child][f.l] = c /\ c # Memory
      BY <1>1, <1>2, <2>3, MemoryAssumption DEF FrameOK, Frames
    <3>2. f.child # c /\ c \notin Terminals
      BY <1>1, <3>1, ChildIsOther, LevelAssumption DEF Terminals
    <3>3. Wants(f.type, st[f.child][f.l])
      BY <1>1, <1>3, <2>3 DEF Accesses, Asks
    <3>4. ChildOK(c, f.child, f.l, st, sharers, excl, stack)
      BY <1>1, <1>2, <3>1 DEF DirInv
    <3> QED BY <3>1, <3>2, <3>3, <3>4 DEF ChildOK
  <2>4. IsPut(f.type) => f.child # Nobody
    BY <1>3 DEF Accesses
  <2>5. (IsPut(f.type) => t # "I") /\ (f.type \in {"PUTX", "GETX"} => Exclusive(t)) /\ (f.type = "GETS" => t # "I")
    BY <1>5, <1>7, <2>3, <2>4 DEF IsPut, Wants, Exclusive
  <2>6. ~failed'
    BY <1>2, <2>1, <2>5 DEF Expect
  <2>7. \A x \in Caches, m \in Lines :
            st'[x][m] = IF f.type \in {"PUTX", "GETX"} /\ x = c /\ m = f.l THEN "M" ELSE st[x][m]
    BY <1>1, <2>1 DEF LockInv, CohTypeOK
  <2>8. bcc[c] = p /\ AccessAt(p, c)
    BY <1>1, <1>2, TopHolds DEF Held
  <2>9. \A x \in Caches, m \in Lines : st'[x][m] # st[x][m] => x = c /\ Exclusive(st[x][m]) /\ Exclusive(st'[x][m])
    BY <2>5, <2>7 DEF Exclusive
  <2>10. Touches(p)
    BY <1>4, <2>8, <2>9 DEF Touches
  <2>11. BelowInv(p, s, st', present', sharers', excl')
    BY <1>1, <1>2, <1>4, <2>9, BelowAccess
  <2>12. Asks(h, st')
    <3> SUFFICES ASSUME f.child # Nobody PROVE label = "dir" /\ Wants(f.type, st'[f.child][f.l])
      BY <2>2 DEF Asks
    <3> QED BY <1>1, <2>3, <2>7
  <2>13. Accesses(p, h, st', present') /\ Answered(h, st')
    <3>1. (c \in Terminals => c \in Terminal[p]) /\ f.l \in present'[c]
      BY <1>1, <1>3, <1>4 DEF Accesses
    <3>2. (f.type = "GETS" => st'[c][f.l] # "I") /\ (f.type = "GETX" => Exclusive(st'[c][f.l])) /\ (f.type = "PUTX" => st'[c][f.l] = "M")
      BY <1>1, <2>5, <2>7 DEF Exclusive
    <3> QED BY <2>2, <2>4, <2>12, <3>1, <3>2 DEF Accesses, Answered
  <2>14. 2 \in 1 .. Len(s) => Called(s[2], h, sharers', excl')
    BY <1>2, <1>3, <1>4, <2>2 DEF Called
  <2>15. FramesInv(p, <<h>> \o Tail(s), st', present', sharers', excl')
    BY <1>1, <2>2, <2>11, <2>13, <2>14, FramesReplaced
  <2>16. WbInv(<<h>> \o Tail(s), wb'[p], st') /\ \A q \in Cores : q # p => wb'[q] = wb[q]
    BY <1>4 DEF WbInv
  <2>17. CallsInv'
    BY <1>2, <2>1, <2>10, <2>15, <2>16, CallsKept
  <2>18. \A a \in Caches, m \in Lines, d \in Caches : Upgrading(stack, a, m, d) => Upgrading(stack', a, m, d)
    BY <1>1, <2>1, <2>2, UpgradingReplaced DEF Upgrade
  <2>19. DirInv'
    BY <1>2, <1>4, <2>9, <2>18, DirKept
  <2>20. PresentInv'
    BY <1>2, <1>4, <2>9 DEF PresentInv, Exclusive
  <2> QED BY <2>6, <2>17, <2>19, <2>20 DEF MesiInv
<1> QED BY <1>6, <1>7

-----------------------------------------------------------------------------
(* The directory's answers. *)

\* What the directory of an access knows of the child that asks.
LEMMA AtDir ==
    ASSUME LockInv, MesiInv, NEW p \in Cores, At(p, "dir"), NEW f, f = stack[p][1]
    PROVE  /\ f = Frame(p) /\ f = Head(stack[p]) /\ f \in Frames /\ FrameOK(f) /\ stack[p] # <<>> /\ ~Inv(f) /\ f.pc = "dir"
           /\ f.c \in Caches /\ f.l \in Lines /\ f.child \in Caches /\ f.child # f.c /\ Parent[f.child][f.l] = f.c
           /\ Accesses(p, f, st, present) /\ Wants(f.type, st[f.child][f.l]) /\ Held(f)
           /\ bcc[f.c] = p /\ AccessAt(p, f.c) /\ AccessAt(p, f.child)
           /\ f.type \in {"GETS", "GETX", "PUTS", "PUTX"} /\ f.c \notin Terminals
<1>1. /\ f = Frame(p) /\ f = Head(stack[p]) /\ f \in Frames /\ FrameOK(f) /\ stack[p] # <<>> /\ f.pc = "dir"
      /\ f.c \in Caches /\ f.l \in Lines
  BY TopFrame DEF At, Frames
<1>2. ~Inv(f) /\ f.child # Nobody /\ f.c \notin Terminals
  BY <1>1 DEF FrameOK
<1>3. f.child \in Caches /\ Parent[f.child][f.l] = f.c /\ f.type \in {"GETS", "GETX", "PUTS", "PUTX"}
  BY <1>1, <1>2 DEF FrameOK, Frames, Inv
<1>4. f.child # f.c
  BY <1>1, <1>3, ChildIsOther
<1>5. CallsInv
  BY DEF MesiInv
<1>6. Accesses(p, f, st, present) /\ 2 \in 1 .. Len(stack[p]) /\ Calls(stack[p][2], f)
  BY <1>1, <1>2, <1>5, TopCalls
<1>7. Wants(f.type, st[f.child][f.l])
  BY <1>1, <1>2, <1>6 DEF Accesses, Asks
<1>8. AccessAt(p, f.child)
  BY <1>2, <1>6 DEF AccessAt, Calls
<1>9. Held(f) /\ bcc[f.c] = p /\ AccessAt(p, f.c)
  BY <1>1, <1>2, TopHolds DEF Held
<1> QED BY <1>1, <1>2, <1>3, <1>4, <1>6, <1>7, <1>8, <1>9

\* What the child's own call says of the line.
LEMMA Below ==
    ASSUME LockInv, MesiInv, NEW p \in Cores, At(p, "dir"), NEW f, f = stack[p][1]
    PROVE  /\ IsPut(f.type) => NoCopies(f.child, f.l, st)
           /\ ~IsPut(f.type) => f.l \in present[f.child]
<1> DEFINE s == stack[p]
<1>1. /\ f \in Frames /\ stack[p] # <<>> /\ ~Inv(f) /\ f.child \in Caches /\ f.l \in Lines /\ CallsInv /\ DirInv
      /\ Wants(f.type, st[f.child][f.l])
  BY AtDir DEF MesiInv
<1>2. 2 \in 1 .. Len(s) /\ Calls(s[2], f) /\ Called(s[2], f, sharers, excl) /\ s[2] \in Frames
  BY <1>1, TopCalls, NobodyAssumption
<1>3. s[2].pc \in {"insert", "fetched"} /\ ~Inv(s[2]) /\ s[2].c = f.child
  BY <1>1, <1>2 DEF Calls
<1>4. Accesses(p, s[2], st, present)
  BY <1>1, <1>2, <1>3 DEF CallsInv, FramesInv
<1>5. CASE s[2].pc = "insert"
  <2>1. IsPut(f.type) /\ f.l = s[2].victim /\ f.l # NoLine
    BY <1>1, <1>2, <1>5, NoLineAssumption DEF Called
  <2> QED BY <1>3, <1>4, <1>5, <2>1 DEF Accesses, NoCopies
<1>6. CASE s[2].pc = "fetched"
  <2>1. f.type = s[2].type /\ f.l = s[2].l /\ ~IsPut(s[2].type)
    BY <1>1, <1>2, <1>4, <1>6 DEF Called, Accesses
  <2> QED BY <1>3, <1>4, <1>6, <2>1 DEF Accesses
<1> QED BY <1>3, <1>5, <1>6

FamilyOK(c, l, S, D, X, K) == \A e \in Caches : Parent[e][l] = c => ChildOK(c, e, l, S, D, X, K)

\* The child of access f gets state t, a line others wrote back is M, and the access is done.
Replies(p, f, t) ==
    /\ \A x \in Caches, m \in Lines : st'[x][m] = IF x = f.child /\ m = f.l THEN t
                                                ELSE IF x = f.c /\ m = f.l /\ wb[p] THEN "M" ELSE st[x][m]
    /\ \A x \in Caches, m \in Lines : x # f.c \/ m # f.l => sharers'[x][m] = sharers[x][m] /\ excl'[x][m] = excl[x][m]
    /\ stack' = [stack EXCEPT ![p] = <<[f EXCEPT !.pc = "end"]>> \o Tail(stack[p])]
    /\ present' = present /\ wb'[p] = FALSE /\ \A q \in Cores : q # p => wb'[q] = wb[q]

\* An answer that leaves the family of the line as it should be keeps the MESI invariant.
LEMMA MesiReply ==
    ASSUME LockInv, MesiInv, NEW p \in Cores, At(p, "dir"), NEW f, f = stack[p][1],
           NEW t \in {"I", "S", "E", "M"}, Gets(f.type, t), Replies(p, f, t), ~failed',
           FamilyOK(f.c, f.l, st', sharers', excl', stack')
    PROVE  MesiInv'
<1> DEFINE h == [f EXCEPT !.pc = "end"]
           c == f.c
           d == f.child
           s == stack[p]
<1>0. /\ \A x \in Caches, m \in Lines : st'[x][m] = IF x = d /\ m = f.l THEN t
                                                   ELSE IF x = c /\ m = f.l /\ wb[p] THEN "M" ELSE st[x][m]
      /\ \A x \in Caches, m \in Lines : x # c \/ m # f.l => sharers'[x][m] = sharers[x][m] /\ excl'[x][m] = excl[x][m]
      /\ stack' = [stack EXCEPT ![p] = <<h>> \o Tail(s)]
      /\ present' = present /\ wb'[p] = FALSE /\ \A q \in Cores : q # p => wb'[q] = wb[q]
  BY DEF Replies
<1>1. /\ f \in Frames /\ FrameOK(f) /\ s # <<>> /\ ~Inv(f) /\ f.pc = "dir" /\ Accesses(p, f, st, present)
      /\ c \in Caches /\ f.l \in Lines /\ d \in Caches /\ d # c /\ Parent[d][f.l] = c
      /\ bcc[c] = p /\ AccessAt(p, c) /\ AccessAt(p, d) /\ Wants(f.type, st[d][f.l])
  BY AtDir
<1>b. /\ f \in Frames /\ c \in Caches /\ f.l \in Lines /\ d \in Caches /\ d # c /\ Parent[d][f.l] = c
      /\ c # Memory /\ d # Nobody
  BY <1>1, MemoryAssumption, NobodyAssumption
<1>v. Level \in [Caches -> Nat] /\ \A x \in Caches, m \in Lines : Parent[x][m] \in Caches => Level[x] < Level[Parent[x][m]]
  BY LevelAssumption, MemoryAssumption
<1>2. CallsInv /\ DirInv /\ PresentInv /\ s \in Seq(Frames)
      /\ (IsPut(f.type) => NoCopies(d, f.l, st)) /\ (~IsPut(f.type) => f.l \in present[d])
  BY StackIs, Below DEF MesiInv
<1>a. wb[p] => Exclusive(st[c][f.l])
  BY <1>0, <1>1, <1>2, WrittenBack DEF WorkLine
<1>3. h \in Frames /\ h.pc = "end" /\ h.c = c /\ h.l = f.l /\ h.type = f.type /\ h.child = d /\ ~Inv(h)
  BY <1>0, <1>1 DEF Frames, Inv, AccLabels
<1> HIDE DEF h
<1>4. stack' = [stack EXCEPT ![p] = <<h>> \o Tail(s)]
  BY <1>0 DEF h
<1>5. Touches(p)
  <2>1. \A x \in Caches, m \in Lines : st'[x][m] # st[x][m] =>
           \/ bcc[x] = p /\ AccessAt(p, x) /\ Exclusive(st[x][m]) /\ Exclusive(st'[x][m])
           \/ Parent[x][m] # Memory /\ bcc[Parent[x][m]] = p /\ AccessAt(p, Parent[x][m]) /\ AccessAt(p, x)
    <3> SUFFICES ASSUME NEW x \in Caches, NEW m \in Lines, st'[x][m] # st[x][m]
                 PROVE  \/ bcc[x] = p /\ AccessAt(p, x) /\ Exclusive(st[x][m]) /\ Exclusive(st'[x][m])
                        \/ Parent[x][m] # Memory /\ bcc[Parent[x][m]] = p /\ AccessAt(p, Parent[x][m]) /\ AccessAt(p, x)
      OBVIOUS
    <3>1. CASE x = d /\ m = f.l
      BY <1>1, <1>b, <3>1
    <3>2. CASE ~(x = d /\ m = f.l)
      <4>1. x = c /\ m = f.l /\ wb[p] /\ st'[x][m] = "M"
        BY <1>0, <3>2
      <4>2. Exclusive("M")
        BY DEF Exclusive
      <4> QED BY <1>1, <1>a, <4>1, <4>2
    <3> QED BY <3>1, <3>2
  <2>2. \A x \in Caches, m \in Lines : sharers'[x][m] # sharers[x][m] \/ excl'[x][m] # excl[x][m] => bcc[x] = p
    BY <1>0, <1>1
  <2> QED BY <1>0, <2>1, <2>2 DEF Touches
<1>6. BelowInv(p, s, st', present', sharers', excl')
  <2>1. \A x \in Caches, m \in Lines : st'[x][m] # st[x][m] => x \in {c, d}
    BY <1>0
  <2> QED BY <1>0, <1>1, <1>2, <2>1, BelowAccess
<1>7. Accesses(p, h, st', present') /\ Answered(h, st')
  <2>1. Asks(h, st')
    <3>1. st'[d][f.l] = t
      BY <1>0, <1>b
    <3> QED BY <1>3, <3>1 DEF Asks
  <2>2. (h.c \in Terminals => h.c \in Terminal[p]) /\ h.child # Nobody
    BY <1>1, <1>3, <1>b DEF Accesses
  <2> QED BY <1>3, <2>1, <2>2 DEF Accesses, Answered
<1>8. 2 \in 1 .. Len(s) => Called(s[2], h, sharers', excl')
  BY <1>0, <1>1, <1>2, <1>3, TopCalls DEF Called
<1>9. FramesInv(p, <<h>> \o Tail(s), st', present', sharers', excl')
  BY <1>0, <1>1, <1>2, <1>3, <1>6, <1>7, <1>8, FramesReplaced
<1>10. WbInv(<<h>> \o Tail(s), wb'[p], st')
  BY <1>0 DEF WbInv
<1>11. CallsInv'
  BY <1>0, <1>2, <1>4, <1>5, <1>9, <1>10, CallsKept
<1>12. \A a \in Caches, m \in Lines, e \in Caches : a # c \/ m # f.l =>
            (Upgrading(stack, a, m, e) => Upgrading(stack', a, m, e))
  <2>1. \A a \in Caches, m \in Lines, e \in Caches : a # c \/ m # f.l => ~Upgrade(f, a, m, e)
    BY DEF Upgrade
  <2> QED BY <1>0, <1>1, <1>3, <1>4, <2>1, UpgradingReplaced
<1>13. DirInv'
  <2> SUFFICES ASSUME NEW m \in Lines, NEW e \in Caches, Parent[e][m] # Memory
               PROVE  ChildOK(Parent[e][m], e, m, st', sharers', excl', stack')
    BY DEF DirInv
  <2> DEFINE u == Parent[e][m]
  <2>1. u \in Caches /\ ChildOK(u, e, m, st, sharers, excl, stack) /\ u # e
    BY <1>2, ParentAssumption, ChildIsOther DEF DirInv
  <2>2. CASE u = c /\ m = f.l
    BY <2>2 DEF FamilyOK
  <2>3. CASE u = d /\ m = f.l
    <3>1. e # d /\ e # c
      <4>1. e # c
        <5>1. Level[d] < Level[c] /\ Level[d] \in Nat /\ Level[c] \in Nat
          BY <1>b, <1>v
        <5>2. e = c => Level[c] < Level[d]
          BY <1>b, <1>v, <2>3
        <5> QED BY <5>1, <5>2
      <4> QED BY <2>1, <2>3, <4>1
    <3>2. st'[e][m] = st[e][m] /\ st'[d][m] = t
      BY <1>0, <1>b, <2>3, <3>1
    <3>4. sharers'[d][m] = sharers[d][m] /\ excl'[d][m] = excl[d][m]
      BY <1>0, <1>b, <2>3
    <3>5. Upgrading(stack, d, m, e) => Upgrading(stack', d, m, e)
      BY <1>b, <1>12
    <3>6. CASE st[e][m] = "I"
      <4> HIDE DEF u
      <4> QED BY <2>1, <2>3, <3>2, <3>4, <3>6 DEF ChildOK, Exclusive, u
    <3>7. CASE st[e][m] # "I"
      <4>1. t = "M"
        <5>1. ~IsPut(f.type)
          BY <1>2, <2>3, <3>7 DEF NoCopies
        <5>2. f.type # "GETS"
          BY <1>0, <1>1, <2>1, <2>3, <3>7 DEF ChildOK, Wants
        <5>3. f.type = "GETX"
          BY <1>0, <1>1, <5>1, <5>2 DEF Frames, Inv, IsPut
        <5> QED BY <5>3 DEF Gets
      <4>2. \A x \in Caches : Parent[x][m] = d /\ x # e => st'[x][m] = st[x][m]
        <5> SUFFICES ASSUME NEW x \in Caches, Parent[x][m] = d, x # e PROVE st'[x][m] = st[x][m]
          OBVIOUS
        <5>1. x # d /\ x # c
          <6>1. Level[d] < Level[c] /\ Level[d] \in Nat /\ Level[c] \in Nat /\ Level[x] \in Nat /\ Level[x] < Level[d]
            BY <1>b, <1>v, <2>3
          <6> QED BY <6>1
        <5> QED BY <1>0, <5>1
      <4>3. ChildOK(d, e, m, st, sharers, excl, stack) /\ st'[d][m] = "M"
        BY <1>0, <2>1, <2>3, <3>2, <4>1
      <4>4. ChildOK(d, e, m, st', sharers', excl', stack')
        <5> HIDE DEF d
        <5> QED BY <3>2, <3>4, <3>5, <4>2, <4>3 DEF ChildOK, Exclusive
      <4> QED BY <2>3, <4>4
    <3> QED BY <3>6, <3>7
  <2>4. CASE ~(u = c /\ m = f.l) /\ ~(u = d /\ m = f.l)
    <3>1. sharers'[u][m] = sharers[u][m] /\ excl'[u][m] = excl[u][m] /\ (Upgrading(stack, u, m, e) => Upgrading(stack', u, m, e))
      BY <1>0, <1>12, <2>1, <2>4
    <3>2. \A x \in Caches : Parent[x][m] = u \/ x = u =>
              (st'[x][m] = "I" <=> st[x][m] = "I") /\ (Exclusive(st'[x][m]) <=> Exclusive(st[x][m]))
      <4> SUFFICES ASSUME NEW x \in Caches, Parent[x][m] = u \/ x = u
                   PROVE  (st'[x][m] = "I" <=> st[x][m] = "I") /\ (Exclusive(st'[x][m]) <=> Exclusive(st[x][m]))
        OBVIOUS
      <4>1. ~(x = d /\ m = f.l)
        BY <1>b, <2>4
      <4>2. st'[x][m] = st[x][m] \/ (st'[x][m] = "M" /\ Exclusive(st[x][m]))
        BY <1>0, <1>a, <4>1
      <4> QED BY <4>2 DEF Exclusive
    <3> QED BY <2>1, <3>1, <3>2 DEF ChildOK
  <2> QED BY <2>2, <2>3, <2>4
<1>14. PresentInv'
  <2>1. t # "I" => f.l \in present[d]
    BY <1>2 DEF Gets
  <2> SUFFICES ASSUME NEW x \in Caches, NEW m \in Lines, st'[x][m] # "I" PROVE m \in present'[x]
    BY DEF PresentInv
  <2>2. CASE x = d /\ m = f.l
    BY <1>0, <1>b, <2>1, <2>2
  <2>3. CASE ~(x = d /\ m = f.l)
    <3>1. st[x][m] # "I"
      BY <1>0, <1>a, <2>3 DEF Exclusive
    <3> QED BY <1>0, <1>2, <3>1 DEF PresentInv
  <2> QED BY <2>2, <2>3
<1> QED BY <1>11, <1>13, <1>14 DEF MesiInv

\* The answer to a writeback keeps the MESI invariant.
LEMMA MesiPut ==
    ASSUME LockInv, MesiInv, NEW p \in Cores, Put(p)
    PROVE  MesiInv'
<1> DEFINE f == stack[p][1]
           c == f.c
           d == f.child
           l == f.l
<1>0. At(p, "dir") /\ IsPut(Frame(p).type)
  BY DEF Put
<1>1. /\ f = Frame(p) /\ f \in Frames /\ stack[p] # <<>> /\ ~Inv(f) /\ f.pc = "dir" /\ Held(f)
      /\ c \in Caches /\ l \in Lines /\ d \in Caches /\ d # c /\ Parent[d][l] = c /\ Wants(f.type, st[d][l])
      /\ f.type \in {"GETS", "GETX", "PUTS", "PUTX"} /\ IsPut(f.type)
  BY <1>0, AtDir
<1>2. CallsInv /\ DirInv /\ ~failed
  BY DEF MesiInv
<1>3. UNCHANGED <<present, excl, wb>> /\ stack' = [stack EXCEPT ![p] = <<[f EXCEPT !.pc = "end"]>> \o Tail(stack[p])]
  BY <1>1 DEF Put, GoTo, Becomes
<1>4. \A x \in Caches, m \in Lines : st'[x][m] = IF x = d /\ m = l THEN "I" ELSE st[x][m]
  <2>1. st' = [st EXCEPT ![d][l] = "I"]
    BY <1>1 DEF Put
  <2> QED BY <1>1, <2>1 DEF LockInv, CohTypeOK
<1>5. \A x \in Caches, m \in Lines : sharers'[x][m] = IF x = c /\ m = l THEN sharers[x][m] \ {d} ELSE sharers[x][m]
  <2>1. sharers' = [sharers EXCEPT ![c][l] = @ \ {d}]
    BY <1>1 DEF Put
  <2> QED BY <1>1, <2>1 DEF LockInv, CohTypeOK
<1>6. ASSUME NEW e \in Caches, Parent[e][l] = c, st[e][l] # "I" PROVE e \in sharers[c][l]
  BY <1>1, <1>2, <1>6, Listed DEF Upgrade, IsPut
<1>7. st[d][l] # "I" /\ (f.type = "PUTX" => st[d][l] = "M") /\ d \in sharers[c][l]
  <2>1. st[d][l] # "I" /\ (f.type = "PUTX" => st[d][l] = "M")
    BY <1>1 DEF Wants, IsPut
  <2> QED BY <1>1, <1>6, <2>1
<1>8. ChildOK(c, d, l, st, sharers, excl, stack)
  BY <1>1, <1>2, MemoryAssumption DEF DirInv
<1>9. f.type = "PUTX" => IsExclusive(c, l)
  BY <1>1, <1>2, <1>7, <1>8, ExclusiveChild DEF ChildOK, Exclusive
<1>10. ~failed'
  BY <1>1, <1>2, <1>7, <1>9 DEF Put, Expect
<1>11. FamilyOK(c, l, st', sharers', excl', stack')
  <2> SUFFICES ASSUME NEW e \in Caches, Parent[e][l] = c PROVE ChildOK(c, e, l, st', sharers', excl', stack')
    BY DEF FamilyOK
  <2>1. ChildOK(c, e, l, st, sharers, excl, stack)
    BY <1>1, <1>2, MemoryAssumption DEF DirInv
  <2>2. st'[c][l] = st[c][l] /\ sharers'[c][l] = sharers[c][l] \ {d} /\ excl'[c][l] = excl[c][l] /\ st'[d][l] = "I"
        /\ \A x \in Caches : x # d => st'[x][l] = st[x][l]
    BY <1>1, <1>3, <1>4, <1>5
  <2>3. st[e][l] # "I" => e \in sharers[c][l]
    BY <1>6
  <2> HIDE DEF c, d, l, f
  <2>4. CASE e = d
    BY <2>2, <2>4 DEF ChildOK, Exclusive
  <2>5. CASE e # d
    BY <2>1, <2>2, <2>3, <2>5 DEF ChildOK
  <2> QED BY <2>4, <2>5
<1>12. Gets(f.type, "I")
  BY <1>1 DEF Gets, IsPut
<1>13. ~wb[p]
  BY <1>1, <1>2, WrittenBack
<1>14. wb'[p] = FALSE /\ (\A q \in Cores : q # p => wb'[q] = wb[q])
  BY <1>3, <1>13 DEF LockInv, CohTypeOK
<1>15. \A x \in Caches, m \in Lines : st'[x][m] = IF x = f.child /\ m = f.l THEN "I"
                                                ELSE IF x = f.c /\ m = f.l /\ wb[p] THEN "M" ELSE st[x][m]
  BY <1>4, <1>13
<1>16. \A x \in Caches, m \in Lines : x # f.c \/ m # f.l => sharers'[x][m] = sharers[x][m] /\ excl'[x][m] = excl[x][m]
  BY <1>3, <1>5
<1>17. Replies(p, f, "I")
  BY <1>3, <1>14, <1>15, <1>16 DEF Replies
<1> QED BY <1>0, <1>10, <1>11, <1>12, <1>17, MesiReply

\* What Grant does, pointwise.
Grants(p, f, t) ==
    /\ \A x \in Caches, m \in Lines : st'[x][m] = IF x = f.child /\ m = f.l THEN t
                                                ELSE IF x = f.c /\ m = f.l /\ wb[p] THEN "M" ELSE st[x][m]
    /\ \A x \in Caches, m \in Lines : excl'[x][m] = IF x = f.c /\ m = f.l THEN Exclusive(t) ELSE excl[x][m]
    /\ wb'[p] = FALSE /\ \A q \in Cores : q # p => wb'[q] = wb[q]
    /\ stack' = [stack EXCEPT ![p] = <<[f EXCEPT !.pc = "end"]>> \o Tail(stack[p])]

\* Granting a state changes the child's state of the line and nothing else of the states.
LEMMA GrantState ==
    ASSUME LockInv, MesiInv, NEW p \in Cores, At(p, "dir"), NEW f, f = stack[p][1], NEW t, Grant(p, t)
    PROVE  Grants(p, f, t)
<1>1. f = Frame(p) /\ f.c \in Caches /\ f.l \in Lines /\ f.child \in Caches /\ f.child # f.c
  BY AtDir
<1> DEFINE granted == [st EXCEPT ![f.child][f.l] = t]
<1>2. \A x \in Caches, m \in Lines : granted[x][m] = IF x = f.child /\ m = f.l THEN t ELSE st[x][m]
  BY <1>1 DEF LockInv, CohTypeOK
<1>3. st' = IF wb[p] THEN [granted EXCEPT ![f.c][f.l] = "M"] ELSE granted
  BY <1>1 DEF Grant
<1>4. \A x \in Caches, m \in Lines : st'[x][m] = IF wb[p] /\ x = f.c /\ m = f.l THEN "M" ELSE granted[x][m]
  <2>1. granted \in [Caches -> [Lines -> {"I", "S", "E", "M", t}]]
    BY <1>1 DEF LockInv, CohTypeOK
  <2> HIDE DEF granted
  <2> QED BY <1>1, <1>3, <2>1
<1>5. \A x \in Caches, m \in Lines : st'[x][m] = IF x = f.child /\ m = f.l THEN t
                                               ELSE IF x = f.c /\ m = f.l /\ wb[p] THEN "M" ELSE st[x][m]
  <2> HIDE DEF granted
  <2> QED BY <1>1, <1>2, <1>4
<1>6. \A x \in Caches, m \in Lines : excl'[x][m] = IF x = f.c /\ m = f.l THEN Exclusive(t) ELSE excl[x][m]
  <2>1. excl' = [excl EXCEPT ![f.c][f.l] = Exclusive(t)]
    BY <1>1 DEF Grant
  <2> QED BY <1>1, <2>1 DEF LockInv, CohTypeOK
<1>7. wb'[p] = FALSE /\ \A q \in Cores : q # p => wb'[q] = wb[q]
  BY DEF Grant, LockInv, CohTypeOK
<1>8. stack' = [stack EXCEPT ![p] = <<[f EXCEPT !.pc = "end"]>> \o Tail(stack[p])]
  BY <1>1 DEF Grant, GoTo, Becomes
<1> QED BY <1>5, <1>6, <1>7, <1>8 DEF Grants

\* The answer to a load, exclusive when no other child has the line, keeps the MESI invariant.
LEMMA MesiGetS ==
    ASSUME LockInv, MesiInv, NEW p \in Cores, GetS(p)
    PROVE  MesiInv'
<1> DEFINE f == stack[p][1]
           c == f.c
           d == f.child
           l == f.l
           others == sharers[c][l]
           alone == others = {} /\ Exclusive(st[c][l]) /\ ~NoExcl(p)
           t == IF alone THEN "E" ELSE "S"
<1>0. At(p, "dir") /\ Frame(p).type = "GETS"
  BY DEF GetS
<1>1. /\ f = Frame(p) /\ f \in Frames /\ stack[p] # <<>> /\ ~Inv(f) /\ f.pc = "dir" /\ Held(f)
      /\ c \in Caches /\ l \in Lines /\ d \in Caches /\ d # c /\ Parent[d][l] = c /\ Wants(f.type, st[d][l])
      /\ f.type = "GETS" /\ Accesses(p, f, st, present)
  BY <1>0, AtDir
<1>2. CallsInv /\ DirInv /\ ~failed /\ others \in SUBSET Caches /\ c # Memory
  BY <1>1, MemoryAssumption DEF MesiInv, LockInv, CohTypeOK
<1>3. st[d][l] = "I" /\ st[c][l] # "I" /\ ~IsPut(f.type) /\ WorkLine(f) = l
  BY <1>1 DEF Wants, Accesses, IsPut, WorkLine
<1>4. d \notin others
  <2>1. ChildOK(c, d, l, st, sharers, excl, stack)
    BY <1>1, <1>2 DEF DirInv
  <2> QED BY <1>3, <2>1 DEF ChildOK
<1>5. ASSUME NEW e \in Caches, Parent[e][l] = c, st[e][l] # "I" PROVE e \in others
  BY <1>1, <1>2, <1>5, Listed DEF Upgrade
<1>6. wb[p] => Exclusive(st[c][l])
  BY <1>1, <1>2, <1>3, WrittenBack
<1>7. CASE ~alone /\ IsExclusive(c, l)
  <2>1. Invalidate(p, c, l, "INVX", "dir") /\ UNCHANGED <<st, present, sharers, excl, wb>> /\ Expect(d \notin others)
    BY <1>1, <1>7 DEF GetS, dir
  <2>2. ~failed'
    BY <1>2, <1>4, <2>1 DEF Expect
  <2>3. excl[c][l] /\ others # {}
    BY <1>7, FS_EmptySet DEF IsExclusive
  <2>4. Min(others) \in others /\ Min(others) \in Caches
    BY <1>2, <2>3, CachesAssumption, MinIsIn
  <2>5. Call(p, "dir", InvFrame(Min(others), l, "INVX"))
    BY <2>1 DEF Invalidate
  <2> QED BY <1>1, <1>3, <2>1, <2>2, <2>3, <2>4, <2>5, QuietInvalidate
<1>8. CASE ~(~alone /\ IsExclusive(c, l))
  <2>1. /\ ~IsExclusive(c, l) /\ Expect(d \notin others /\ (wb[p] => Exclusive(st[c][l])))
        /\ sharers' = [sharers EXCEPT ![c][l] = @ \cup {d}] /\ Grant(p, t) /\ present' = present
    BY <1>1, <1>8 DEF GetS
  <2>2. ~failed'
    BY <1>2, <1>4, <1>6, <2>1 DEF Expect
  <2>3. \A x \in Caches, m \in Lines : sharers'[x][m] = IF x = c /\ m = l THEN others \cup {d} ELSE sharers[x][m]
    BY <1>1, <2>1 DEF LockInv, CohTypeOK
  <2>4. /\ \A x \in Caches, m \in Lines : st'[x][m] = IF x = d /\ m = l THEN t
                                                    ELSE IF x = c /\ m = l /\ wb[p] THEN "M" ELSE st[x][m]
        /\ \A x \in Caches, m \in Lines : excl'[x][m] = IF x = c /\ m = l THEN Exclusive(t) ELSE excl[x][m]
        /\ wb'[p] = FALSE /\ \A q \in Cores : q # p => wb'[q] = wb[q]
        /\ stack' = [stack EXCEPT ![p] = <<[f EXCEPT !.pc = "end"]>> \o Tail(stack[p])]
    <3>1. f = stack[p][1] /\ Grant(p, t) /\ At(p, "dir")
      BY <1>0, <2>1
    <3>2. Grants(p, f, t)
      <4> HIDE DEF f, t
      <4> QED BY <3>1, GrantState
    <3> QED BY <3>2 DEF Grants
  <2>5. t \in {"I", "S", "E", "M"} /\ Gets(f.type, t)
    BY <1>1 DEF Gets, IsPut
  <2>6. \A x \in Caches, m \in Lines : x # c \/ m # l => sharers'[x][m] = sharers[x][m] /\ excl'[x][m] = excl[x][m]
    BY <2>3, <2>4
  <2>7. Replies(p, f, t)
    <3> HIDE DEF t, f
    <3> QED BY <2>1, <2>4, <2>6 DEF Replies
  <2>8. FamilyOK(c, l, st', sharers', excl', stack')
    <3> SUFFICES ASSUME NEW e \in Caches, Parent[e][l] = c PROVE ChildOK(c, e, l, st', sharers', excl', stack')
      BY DEF FamilyOK
    <3>1. ChildOK(c, e, l, st, sharers, excl, stack)
      BY <1>1, <1>2 DEF DirInv
    <3>2. /\ st'[c][l] # "I" /\ (Exclusive(st[c][l]) => Exclusive(st'[c][l])) /\ sharers'[c][l] = others \cup {d}
          /\ (excl'[c][l] <=> Exclusive(t)) /\ st'[d][l] = t
      BY <1>1, <1>3, <2>3, <2>4 DEF Exclusive
    <3>3. ASSUME NEW x \in Caches, Parent[x][l] = c, x # d PROVE st'[x][l] = st[x][l]
      <4>1. x # c
        BY <1>1, <3>3, ChildIsOther
      <4> QED BY <1>1, <2>4, <3>3, <4>1
    <3>4. Exclusive(t) <=> alone
      BY DEF Exclusive
    <3>5. ASSUME alone, NEW x \in Caches, Parent[x][l] = c, x # d PROVE st'[x][l] = "I"
      BY <1>5, <3>3, <3>5
    <3>6. CASE e = d
      <4> HIDE DEF f, t
      <4>1. t # "I"
        BY DEF t
      <4> QED BY <3>2, <3>4, <3>5, <3>6, <4>1 DEF ChildOK
    <3>7. CASE e # d
      <4>1. st'[e][l] = st[e][l]
        BY <3>3, <3>7
      <4>2. st[e][l] # "I" => e \in others /\ ~alone
        BY <1>5
      <4>3. ~Exclusive(st[e][l])
        <5> SUFFICES ASSUME Exclusive(st[e][l]) PROVE FALSE
          OBVIOUS
        <5>1. e \in others /\ excl[c][l]
          BY <3>1, <4>2 DEF ChildOK, Exclusive
        <5> QED BY <1>1, <1>2, <2>1, <5>1, ExclusiveChild
      <4>4. e \in others => st[e][l] # "I"
        BY <3>1 DEF ChildOK
      <4>5. alone => st[e][l] = "I"
        BY <4>2
      <4> HIDE DEF f, t, alone, others, c, l, d
      <4> QED BY <3>2, <3>4, <3>7, <4>1, <4>2, <4>3, <4>4, <4>5 DEF ChildOK
    <3> QED BY <3>6, <3>7
  <2> QED BY <1>0, <2>2, <2>5, <2>7, <2>8, MesiReply
<1> QED BY <1>7, <1>8

\* A child that stores when no other is on the list is the only one with the line.
LEMMA UpgradeAlone ==
    ASSUME LockInv, MesiInv, NEW p \in Cores, At(p, "dir"), NEW f, f = stack[p][1], f.type = "GETX",
           NEW e \in Caches, Parent[e][f.l] = f.c, e # f.child, st[e][f.l] # "I"
    PROVE  e \in sharers[f.c][f.l]
<1>1. stack[p] # <<>> /\ Held(f) /\ f.l \in Lines
  BY AtDir
<1> QED BY <1>1, Listed DEF Upgrade, MesiInv

\* A store that must invalidate other children first takes its own child off the list.
LEMMA MesiGetXInvalidates ==
    ASSUME LockInv, MesiInv, NEW p \in Cores, At(p, "dir"), NEW f, f = stack[p][1], f.type = "GETX",
           NEW c, c = f.c, NEW l, l = f.l, NEW others, others = sharers[c][l] \ {f.child}, others # {},
           Call(p, "dir", InvFrame(Min(others), l, "INV")), sharers' = [sharers EXCEPT ![c][l] = others],
           UNCHANGED <<st, excl, wb, present>>, ~failed'
    PROVE  MesiInv'
<1> DEFINE s == stack[p]
           g == InvFrame(Min(others), l, "INV")
<1>1. /\ f = Head(s) /\ f \in Frames /\ s # <<>> /\ ~Inv(f) /\ f.pc = "dir" /\ Held(f) /\ bcc[c] = p
      /\ c \in Caches /\ l \in Lines /\ f.child \in Caches /\ Accesses(p, f, st, present)
  BY AtDir
<1>2. /\ CallsInv /\ DirInv /\ PresentInv /\ others \in SUBSET Caches /\ c # Memory /\ s \in Seq(Frames)
      /\ BelowInv(p, s, st, present, sharers, excl)
      /\ (2 \in 1 .. Len(s) => Called(s[2], f, sharers, excl))
  BY <1>1, MemoryAssumption, TopCalls, StackIs DEF MesiInv, LockInv, CohTypeOK
<1>3. Min(others) \in others /\ Min(others) \in Caches
  BY <1>2, CachesAssumption, MinIsIn
<1>4. stack' = [stack EXCEPT ![p] = <<g, f>> \o Tail(s)]
  <2>1. [f EXCEPT !.pc = f.pc] = f
    BY <1>1, SameLabel
  <2>2. [f EXCEPT !.pc = "dir"] = f
    BY <1>1, <2>1
  <2> QED BY <1>1, <2>2 DEF Call
<1>5. g \in Frames /\ Inv(g) /\ g.c = Min(others) /\ g.l = l /\ g.type = "INV"
  BY <1>1, <1>3 DEF InvFrame, Frames, Inv, AccLabels
<1> HIDE DEF g
<1>6. \A x \in Caches, m \in Lines : sharers'[x][m] = IF x = c /\ m = l THEN others ELSE sharers[x][m]
  BY <1>1 DEF LockInv, CohTypeOK
<1>7. Touches(p)
  <2>1. \A x \in Caches, m \in Lines : sharers'[x][m] # sharers[x][m] \/ excl'[x][m] # excl[x][m] => bcc[x] = p
    <3> SUFFICES ASSUME NEW x \in Caches, NEW m \in Lines, bcc[x] # p
                 PROVE  sharers'[x][m] = sharers[x][m] /\ excl'[x][m] = excl[x][m]
      OBVIOUS
    <3>1. bcc[c] = p
      BY <1>1
    <3>2. ~(x = c /\ m = l)
      BY <3>1
    <3> QED BY <1>6, <3>2
  <2> QED BY <2>1 DEF Touches
<1>8. BelowInv(p, s, st', present', sharers', excl')
  BY <1>1, <1>2, BelowAccess
<1>9. Called(f, g, sharers', excl')
  <2>1. sharers'[f.c][g.l] = others /\ g.c \in others
    <3>1. sharers'[c][l] = others
      BY <1>1 DEF LockInv, CohTypeOK
    <3>2. f.c = c /\ g.l = l /\ g.c \in others
      BY <1>3, <1>5
    <3> QED BY <3>1, <3>2
  <2>2. g.l = WorkLine(f) /\ ~IsPut(f.type)
    BY <1>1, <1>5 DEF WorkLine, IsPut
  <2> QED BY <1>5, <2>1, <2>2 DEF Called
<1>10. 2 \in 1 .. Len(s) => Called(s[2], f, sharers', excl')
  BY <1>1, <1>2 DEF Called
<1>11. FramesInv(p, <<g, f>> \o Tail(s), st', present', sharers', excl')
  <2>1. Accesses(p, f, st', present')
    BY <1>1
  <2> QED BY <1>1, <1>2, <1>5, <1>8, <1>9, <1>10, <2>1, FramesPushed
<1>12. WbInv(<<g, f>> \o Tail(s), wb'[p], st') /\ \A q \in Cores : q # p => wb'[q] = wb[q]
  <2>1. WbInv(s, wb[p], st)
    BY <1>2 DEF CallsInv
  <2> QED BY <1>1, <1>2, <1>5, <2>1, WbPushed
<1>13. CallsInv'
  BY <1>2, <1>4, <1>7, <1>11, <1>12, CallsKept
<1>14. \A a \in Caches, m \in Lines, e \in Caches : Upgrading(stack, a, m, e) => Upgrading(stack', a, m, e)
  BY <1>1, <1>4, <1>5, UpgradingPushed
<1>15. Upgrading(stack, c, l, f.child)
  <2>1. 1 \in 1 .. Len(s) /\ Upgrade(s[1], c, l, f.child)
    BY <1>1, <1>2 DEF Upgrade
  <2> QED BY <2>1 DEF Upgrading
<1>16. DirInv'
  <2> SUFFICES ASSUME NEW m \in Lines, NEW e \in Caches, Parent[e][m] # Memory
               PROVE  ChildOK(Parent[e][m], e, m, st', sharers', excl', stack')
    BY DEF DirInv
  <2> DEFINE u == Parent[e][m]
  <2>1. u \in Caches /\ ChildOK(u, e, m, st, sharers, excl, stack) /\ (Upgrading(stack, u, m, e) => Upgrading(stack', u, m, e))
    BY <1>2, <1>14, ParentAssumption DEF DirInv
  <2>0. u \in Caches
    BY <2>1
  <2> HIDE DEF u
  <2>c. sharers'[u][m] = IF u = c /\ m = l THEN others ELSE sharers[u][m]
    BY <1>6, <2>0
  <2>2. e \in sharers'[u][m] => e \in sharers[u][m]
    BY <2>c
  <2>3. e \in sharers[u][m] => e \in sharers'[u][m] \/ Upgrading(stack', u, m, e)
    <3>1. CASE u = c /\ m = l
      <4>1. sharers'[u][m] = others
        BY <2>c, <3>1
      <4>2. Upgrading(stack', c, l, f.child)
        BY <1>1, <1>14, <1>15
      <4> QED BY <3>1, <4>1, <4>2
    <3>2. CASE ~(u = c /\ m = l)
      BY <2>c, <3>2
    <3> QED BY <3>1, <3>2
  <2> QED BY <2>1, <2>2, <2>3 DEF ChildOK, u
<1> QED BY <1>2, <1>13, <1>16 DEF MesiInv, PresentInv

\* The answer to a store keeps the MESI invariant.
LEMMA MesiGetX ==
    ASSUME LockInv, MesiInv, NEW p \in Cores, GetX(p)
    PROVE  MesiInv'
<1> DEFINE f == stack[p][1]
           c == f.c
           d == f.child
           l == f.l
           others == sharers[c][l] \ {d}
<1>0. At(p, "dir") /\ Frame(p).type = "GETX"
  BY DEF GetX
<1>1. /\ f = Frame(p) /\ f \in Frames /\ stack[p] # <<>> /\ ~Inv(f) /\ f.pc = "dir" /\ Held(f)
      /\ c \in Caches /\ l \in Lines /\ d \in Caches /\ d # c /\ Parent[d][l] = c /\ Wants(f.type, st[d][l])
      /\ f.type = "GETX" /\ Accesses(p, f, st, present)
  BY <1>0, AtDir
<1>2. CallsInv /\ DirInv /\ ~failed /\ others \in SUBSET Caches /\ c # Memory
  BY <1>1, MemoryAssumption DEF MesiInv, LockInv, CohTypeOK
<1>3. ~Exclusive(st[d][l]) /\ Exclusive(st[c][l])
  BY <1>1 DEF Wants, Accesses, Exclusive
<1>4. d \in sharers[c][l] => ~IsExclusive(c, l)
  <2>1. ChildOK(c, d, l, st, sharers, excl, stack)
    BY <1>1, <1>2 DEF DirInv
  <2> QED BY <1>3, <2>1 DEF ChildOK, IsExclusive
<1>5. ~failed' /\ present' = present
  BY <1>1, <1>2, <1>3, <1>4 DEF GetX, Expect
<1>6. CASE others # {}
  <2>1. /\ Call(p, "dir", InvFrame(Min(others), l, "INV")) /\ sharers' = [sharers EXCEPT ![c][l] = others]
        /\ UNCHANGED <<st, excl, wb, present>>
    BY <1>1, <1>6 DEF GetX
  <2>2. f = stack[p][1] /\ c = f.c /\ l = f.l /\ others = sharers[c][l] \ {f.child} /\ f.type = "GETX"
    BY <1>1
  <2> HIDE DEF f, c, d, l, others
  <2> QED BY <1>0, <1>5, <1>6, <2>1, <2>2, MesiGetXInvalidates
<1>7. CASE others = {}
  <2>1. sharers' = [sharers EXCEPT ![c][l] = {d}] /\ Grant(p, "M")
    BY <1>1, <1>7 DEF GetX
  <2>2. \A x \in Caches, m \in Lines : sharers'[x][m] = IF x = c /\ m = l THEN {d} ELSE sharers[x][m]
    BY <1>1, <2>1 DEF LockInv, CohTypeOK
  <2>3. Grants(p, f, "M")
    BY <1>0, <2>1, GrantState
  <2>4. /\ \A x \in Caches, m \in Lines : st'[x][m] = IF x = d /\ m = l THEN "M"
                                                    ELSE IF x = c /\ m = l /\ wb[p] THEN "M" ELSE st[x][m]
        /\ \A x \in Caches, m \in Lines : excl'[x][m] = IF x = c /\ m = l THEN Exclusive("M") ELSE excl[x][m]
    BY <2>3 DEF Grants
  <2>5. \A x \in Caches, m \in Lines : x # c \/ m # l => sharers'[x][m] = sharers[x][m] /\ excl'[x][m] = excl[x][m]
    BY <2>2, <2>4
  <2>6. Replies(p, f, "M")
    BY <1>5, <2>3, <2>5 DEF Replies, Grants
  <2>7. Gets(f.type, "M")
    BY <1>1 DEF Gets, IsPut
  <2>8. FamilyOK(c, l, st', sharers', excl', stack')
    <3> SUFFICES ASSUME NEW e \in Caches, Parent[e][l] = c PROVE ChildOK(c, e, l, st', sharers', excl', stack')
      BY DEF FamilyOK
    <3>1. ASSUME NEW x \in Caches, Parent[x][l] = c, x # d PROVE st'[x][l] = "I"
      <4>1. x # c
        BY <1>1, <3>1, ChildIsOther
      <4>2. st[x][l] = "I"
        BY <1>0, <1>1, <1>7, <3>1, UpgradeAlone
      <4> QED BY <1>1, <2>4, <3>1, <4>1, <4>2
    <3>2. st'[d][l] = "M" /\ Exclusive(st'[c][l]) /\ sharers'[c][l] = {d} /\ (excl'[c][l] <=> Exclusive("M"))
      BY <1>1, <1>3, <2>2, <2>4 DEF Exclusive
    <3> HIDE DEF f, c, d, l
    <3> QED BY <3>1, <3>2 DEF ChildOK, Exclusive
  <2> QED BY <1>0, <1>5, <2>6, <2>7, <2>8, MesiReply
<1> QED BY <1>6, <1>7

\* States in which line l is exclusive everywhere, and no other.
LineOnly(l) == [x \in Caches |-> [m \in Lines |-> IF m = l THEN "M" ELSE "I"]]

\* What is exclusive where an invalidation has come to is exclusive all the way up to the access it was sent for.
LEMMA ChainUp ==
    ASSUME LockInv, MesiInv, NEW p \in Cores, stack[p] # <<>>, Inv(stack[p][1]),
           Exclusive(st[stack[p][1].c][stack[p][1].l])
    PROVE  WbInv(stack[p], TRUE, st) /\ WbInv(stack[p], TRUE, LineOnly(stack[p][1].l))
<1> DEFINE s == stack[p]
           l == s[1].l
           T == {i \in 1 .. Len(s) : ~Inv(s[i])}
<1>1. StackOK(s) /\ s \in Seq(Frames) /\ Len(s) \in Nat \ {0} /\ FramesInv(p, s, st, present, sharers, excl) /\ DirInv
      /\ s[1] \in Frames /\ l \in Lines
  <2>1. StackOK(s) /\ s \in Seq(Frames) /\ Len(s) \in Nat \ {0}
    BY StackIs
  <2>2. s[1] \in Frames
    BY <2>1
  <2> QED BY <2>1, <2>2 DEF MesiInv, CallsInv, Frames
<1>2. Len(s) \in T /\ T \in SUBSET Nat
  BY <1>1 DEF StackOK
<1>3. PICK k \in T : \A j \in T : k <= j
  BY <1>2, LeastNatural
<1>4. k \in 2 .. Len(s) /\ ~Inv(s[k]) /\ k - 1 \in 1 .. Len(s) /\ k \in Nat
  <2>1. k # 1 /\ k \in 1 .. Len(s) /\ ~Inv(s[k])
    BY <1>3
  <2> QED BY <1>1, <2>1
<1>5. ASSUME NEW i \in 1 .. k - 1 PROVE Inv(s[i])
  <2>1. i \in 1 .. Len(s) /\ ~(k <= i)
    BY <1>1, <1>4
  <2> QED BY <1>3, <2>1
<1> DEFINE Good(i) == WorkLine(s[i]) = l /\ Exclusive(st[s[i].c][l])
           B == {i \in 1 .. k : ~Good(i)}
<1>6. B = {}
  <2> SUFFICES ASSUME B # {} PROVE FALSE
    OBVIOUS
  <2>1. B \in SUBSET Nat
    BY <1>4
  <2>2. PICK j \in B : \A i \in B : j <= i
    BY <2>1, LeastNatural
  <2>3. j \in 1 .. k /\ ~Good(j)
    BY <2>2
  <2>4. FrameOK(s[1]) /\ s[1].pc # "evict"
    <3>1. 1 \in 1 .. Len(s)
      BY <1>1
    <3>2. FrameOK(s[1])
      BY <1>1, <3>1 DEF StackOK
    <3> QED BY <3>2 DEF FrameOK
  <2>5. j # 1
    BY <2>3, <2>4 DEF WorkLine
  <2>6. j \in 2 .. Len(s) /\ j - 1 \in 1 .. k - 1 /\ j - 1 \in 1 .. k /\ j - 1 \in 1 .. Len(s) - 1 /\ (j - 1) + 1 = j
        /\ ~(j <= j - 1) /\ j - 1 \in 1 .. Len(s)
    BY <1>1, <1>4, <2>3, <2>5
  <2>7. Good(j - 1)
    <3>1. j - 1 \notin B
      BY <2>2, <2>6
    <3> QED BY <2>6, <3>1
  <2> DEFINE g == s[j - 1]
             h == s[j]
  <2>8. Inv(g) /\ Called(h, g, sharers, excl) /\ Calls(h, g) /\ g \in Frames /\ h \in Frames
    <3>1. Called(s[(j - 1) + 1], g, sharers, excl)
      BY <1>1, <2>6 DEF FramesInv
    <3> QED BY <1>1, <1>5, <2>6, <3>1, NotTop
  <2>9. WorkLine(g) = g.l
    <3>1. FrameOK(g)
      BY <1>1, <2>6 DEF StackOK
    <3> QED BY <2>8, <3>1 DEF FrameOK, WorkLine
  <2>10. g.l = l /\ Exclusive(st[g.c][l]) /\ WorkLine(h) = l /\ Parent[g.c][l] = h.c /\ h.c \in Caches /\ g.c \in Caches
    BY <2>7, <2>8, <2>9 DEF Called, Calls, Frames
  <2>11. ChildOK(h.c, g.c, l, st, sharers, excl, stack)
    BY <1>1, <2>10, MemoryAssumption DEF DirInv
  <2>12. Exclusive(st[h.c][l])
    BY <2>10, <2>11 DEF ChildOK
  <2> QED BY <2>3, <2>10, <2>12
<1>7. WorkLine(s[k]) = l /\ Exclusive(st[s[k].c][l])
  BY <1>4, <1>6
<1>8. s[k].pc \in {"evict", "dir"} /\ (s[k].pc = "dir" => ~IsPut(s[k].type))
  <2>1. k - 1 \in 1 .. k - 1 /\ k - 1 \in 1 .. Len(s) - 1 /\ (k - 1) + 1 = k /\ k \in 1 .. Len(s)
    BY <1>1, <1>4
  <2>2. Inv(s[k - 1])
    BY <1>5, <2>1
  <2>3. Called(s[(k - 1) + 1], s[k - 1], sharers, excl)
    BY <1>1, <2>1 DEF FramesInv
  <2>4. Calls(s[k], s[k - 1]) /\ FrameOK(s[k])
    BY <1>1, <1>4, <2>1, NotTop DEF StackOK
  <2> QED BY <1>4, <2>1, <2>2, <2>3, <2>4 DEF Called, Calls, FrameOK, AccLabels
<1>9. k \in 1 .. Len(s)
  BY <1>1, <1>4
<1>10. Exclusive(LineOnly(l)[s[k].c][WorkLine(s[k])])
  <2>1. s[k] \in Frames
    BY <1>1, <1>9
  <2>2. s[k].c \in Caches
    BY <2>1 DEF Frames
  <2> QED BY <1>1, <1>7, <2>2 DEF LineOnly, Exclusive
<1> HIDE DEF s, T, l
<1>11. WbInv(s, TRUE, st)
  BY <1>1, <1>4, <1>5, <1>7, <1>8, <1>9 DEF WbInv
<1>12. WbInv(s, TRUE, LineOnly(l))
  BY <1>1, <1>4, <1>5, <1>7, <1>8, <1>9, <1>10 DEF WbInv
<1> QED BY <1>11, <1>12 DEF s, l

\* An invalidation changes states of lower caches than the one of the access.
LEMMA WbMoved ==
    ASSUME NEW s, StackOK(s), s # <<>>, Inv(s[1]), NEW w, NEW S, NEW R, WbInv(s, w, S),
           \A x \in Caches, m \in Lines : R[x][m] # S[x][m] => x = s[1].c
    PROVE  WbInv(s, w, R)
<1> SUFFICES ASSUME w PROVE WbInv(s, w, R)
  BY DEF WbInv
<1>1. PICK k \in 1 .. Len(s) :
          /\ ~Inv(s[k]) /\ \A i \in 1 .. k - 1 : Inv(s[i])
          /\ s[k].pc \in {"evict", "dir"} /\ WorkLine(s[k]) \in Lines /\ (s[k].pc = "dir" => ~IsPut(s[k].type))
          /\ Exclusive(S[s[k].c][WorkLine(s[k])])
  BY DEF WbInv
<1>2. s \in Seq(Frames) /\ Len(s) \in Nat
  BY DEF StackOK
<1>3. 1 \in 1 .. Len(s) /\ 1 < k /\ k - 1 \in 1 .. k - 1
  <2>1. k # 1
    BY <1>1
  <2> QED BY <1>2, <2>1
<1>4. Level[s[1].c] < Level[s[k].c] /\ Level[s[1].c] \in Nat /\ s[k] \in Frames
  BY <1>1, <1>3, Levels
<1>5. s[k].c # s[1].c /\ s[k].c \in Caches
  BY <1>4 DEF Frames
<1> QED BY <1>1, <1>5 DEF WbInv

\* The end of an invalidation, which takes the line or its exclusiveness away, keeps the MESI invariant.
LEMMA MesiInvSelf ==
    ASSUME LockInv, MesiInv, NEW p \in Cores, InvSelf(p)
    PROVE  MesiInv'
<1> DEFINE f == stack[p][1]
           s == stack[p]
           c == f.c
           l == f.l
           up == Parent[c][l]
           t == IF f.type = "INVX" THEN "S" ELSE "I"
<1>1. /\ f = Frame(p) /\ f \in Frames /\ FrameOK(f) /\ f.pc = "down" /\ s # <<>> /\ c \in Caches /\ l \in Lines
      /\ s \in Seq(Frames) /\ StackOK(s) /\ Held(f) /\ bcc[c] = p
  BY TopFrame, TopHolds, StackIs DEF InvSelf, At, Frames, Held
<1>2. /\ Inv(f) /\ f.type \in {"INV", "INVX"} /\ up \in Caches /\ up # Memory /\ up # c
      /\ CallsInv /\ DirInv /\ PresentInv /\ ~failed
  BY <1>1, ChildIsOther, MemoryAssumption DEF MesiInv, FrameOK, AccLabels, Inv
<1>3. /\ 2 \in 1 .. Len(s) /\ Called(s[2], f, sharers, excl) /\ Calls(s[2], f) /\ s[2] \in Frames
      /\ BelowInv(p, s, st, present, sharers, excl)
  BY <1>1, <1>2, TopCalls
<1>4. s[2].c = up /\ c \in sharers[up][l] /\ (f.type = "INVX" => excl[up][l]) /\ s[2].pc \in {"evict", "dir", "down"}
  BY <1>2, <1>3 DEF Called, Calls
<1>5. bcc[up] = p
  <2>1. 2 \in 2 .. Len(s) /\ 2 - 1 = 1
    BY <1>1, <1>3
  <2>2. AtWork(s, 2)
    BY <1>1, <1>2, <2>1, NotTop
  <2>3. bcc[stack[p][2].c] = p
    BY <1>3, <2>2, Working
  <2> QED BY <1>4, <2>3
<1>6. ChildOK(up, c, l, st, sharers, excl, stack)
  BY <1>1, <1>2 DEF DirInv
<1>7. st[c][l] # "I" /\ (f.type = "INVX" => Exclusive(st[c][l])) /\ (Exclusive(st[c][l]) => excl[up][l])
  BY <1>4, <1>6 DEF ChildOK, Exclusive
<1>8. /\ Expect(st[c][l] # "I" /\ (f.type = "INVX" => Exclusive(st[c][l])))
      /\ wb' = [wb EXCEPT ![p] = @ \/ st[c][l] = "M"]
      /\ st' = [st EXCEPT ![c][l] = t] /\ present' = present /\ stack' = [stack EXCEPT ![p] = Tail(s)]
      /\ f.type = "INV" => sharers' = [sharers EXCEPT ![up][l] = @ \ {c}] /\ excl' = excl
      /\ f.type = "INVX" => excl' = [excl EXCEPT ![up][l] = FALSE] /\ sharers' = sharers
      /\ ~Propagates(f)
  <2>1. wb' = [wb EXCEPT ![p] = @ \/ st[c][l] = "M"] /\ ~Propagates(f) /\ present' = present
    BY <1>1 DEF InvSelf
  <2>2. Expect(st[c][l] # "I" /\ (f.type = "INVX" => Exclusive(st[c][l]))) /\ st' = [st EXCEPT ![c][l] = t]
    BY <1>1 DEF InvSelf
  <2>3. stack' = [stack EXCEPT ![p] = Tail(s)]
    BY DEF InvSelf, Return
  <2>4. f.type = "INV" => sharers' = [sharers EXCEPT ![up][l] = @ \ {c}] /\ excl' = excl
    BY <1>1 DEF InvSelf
  <2>5. f.type = "INVX" => excl' = [excl EXCEPT ![up][l] = FALSE] /\ sharers' = sharers
    BY <1>1 DEF InvSelf
  <2> HIDE DEF f, c, l, up, t, s
  <2> QED BY <2>1, <2>2, <2>3, <2>4, <2>5
<1>9. ~failed'
  BY <1>2, <1>7, <1>8 DEF Expect
<1>10. \A x \in Caches, m \in Lines : st'[x][m] = IF x = c /\ m = l THEN t ELSE st[x][m]
  BY <1>1, <1>8 DEF LockInv, CohTypeOK
<1>11. \A x \in Caches, m \in Lines :
           sharers'[x][m] = IF f.type = "INV" /\ x = up /\ m = l THEN sharers[x][m] \ {c} ELSE sharers[x][m]
  <2>1. CASE f.type = "INV"
    <3>1. sharers' = [sharers EXCEPT ![up][l] = @ \ {c}] /\ sharers \in [Caches -> [Lines -> SUBSET Caches]]
      BY <1>8, <2>1 DEF LockInv, CohTypeOK
    <3> HIDE DEF f, c, l, up
    <3>2. \A x \in Caches, m \in Lines : sharers'[x][m] = IF x = up /\ m = l THEN sharers[x][m] \ {c} ELSE sharers[x][m]
      BY <1>1, <1>2, <3>1
    <3> QED BY <2>1, <3>2
  <2>2. CASE f.type = "INVX"
    BY <1>8, <2>2
  <2> QED BY <1>2, <2>1, <2>2
<1>12. \A x \in Caches, m \in Lines :
           excl'[x][m] = IF f.type = "INVX" /\ x = up /\ m = l THEN FALSE ELSE excl[x][m]
  <2>1. CASE f.type = "INVX"
    <3>1. excl' = [excl EXCEPT ![up][l] = FALSE] /\ excl \in [Caches -> [Lines -> BOOLEAN]]
      BY <1>8, <2>1 DEF LockInv, CohTypeOK
    <3> HIDE DEF f, c, l, up
    <3>2. \A x \in Caches, m \in Lines : excl'[x][m] = IF x = up /\ m = l THEN FALSE ELSE excl[x][m]
      BY <1>1, <1>2, <3>1
    <3> QED BY <2>1, <3>2
  <2>2. CASE f.type = "INV"
    BY <1>8, <2>2
  <2> QED BY <1>2, <2>1, <2>2
<1>13. Weaker(st[c][l], t) /\ ~Exclusive(t) /\ \A x \in Caches, m \in Lines : Weaker(st[x][m], st'[x][m])
  <2>1. Weaker(st[c][l], t) /\ ~Exclusive(t)
    BY <1>2, <1>7 DEF Weaker, Exclusive
  <2> HIDE DEF t
  <2> QED BY <1>10, <2>1 DEF Weaker
<1>14. Touches(p)
  <2> HIDE DEF t
  <2>1. \A x \in Caches, m \in Lines : st'[x][m] # st[x][m] =>
            bcc[x] = p /\ Parent[x][m] # Memory /\ bcc[Parent[x][m]] = p /\ Weaker(st[x][m], st'[x][m])
    BY <1>1, <1>2, <1>5, <1>10, <1>13
  <2>2. \A x \in Caches, m \in Lines : sharers'[x][m] # sharers[x][m] \/ excl'[x][m] # excl[x][m] => bcc[x] = p
    BY <1>5, <1>11, <1>12
  <2> QED BY <1>8, <2>1, <2>2 DEF Touches
<1>15. BelowInv(p, s, st', present', sharers', excl')
  <2>1. \A x \in Caches, m \in Lines : st'[x][m] # st[x][m] => x = s[1].c
    BY <1>10
  <2>2. \A x \in Caches, m \in Lines : sharers'[x][m] # sharers[x][m] \/ excl'[x][m] # excl[x][m] => x = s[2].c
    BY <1>4, <1>11, <1>12
  <2> QED BY <1>1, <1>2, <1>8, <1>13, <2>1, <2>2, BelowInvalidation
<1>16. FramesInv(p, Tail(s), st', present', sharers', excl')
  <2>1. Answered(s[2], st')
    BY <1>4 DEF Answered
  <2> QED BY <1>1, <1>15, <2>1, FramesPopped
<1>17. WbInv(Tail(s), wb'[p], st') /\ \A q \in Cores : q # p => wb'[q] = wb[q]
  <2>1. wb'[p] = (wb[p] \/ st[c][l] = "M") /\ \A q \in Cores : q # p => wb'[q] = wb[q]
    BY <1>8 DEF LockInv, CohTypeOK
  <2>2. WbInv(s, wb[p], st)
    BY <1>2 DEF CallsInv
  <2>3. st[c][l] = "M" => WbInv(s, TRUE, st)
    BY <1>1, <1>2, ChainUp DEF Exclusive
  <2>4. WbInv(s, wb'[p], st)
    BY <2>1, <2>2, <2>3 DEF WbInv
  <2>5. \A x \in Caches, m \in Lines : st'[x][m] # st[x][m] => x = s[1].c
    BY <1>10
  <2>6. WbInv(s, wb'[p], st')
    BY <1>1, <1>2, <2>4, <2>5, WbMoved
  <2> QED BY <1>1, <1>2, <2>1, <2>6, WbPopped
<1>18. CallsInv'
  BY <1>2, <1>8, <1>14, <1>16, <1>17, CallsKept
<1>19. \A a \in Caches, m \in Lines, e \in Caches : Upgrading(stack, a, m, e) => Upgrading(stack', a, m, e)
  <2>1. \A a \in Caches, m \in Lines, e \in Caches : ~Upgrade(f, a, m, e)
    BY <1>1 DEF Upgrade
  <2> QED BY <1>1, <1>8, <2>1, UpgradingPopped
<1>20. ASSUME NEW e \in Caches, Parent[e][l] = c, st[e][l] # "I" PROVE f.type = "INVX" /\ ~Exclusive(st[e][l])
  <2>1. e \in sharers[c][l]
    BY <1>1, <1>2, <1>20, Listed DEF Upgrade
  <2>2. f.type = "INVX" /\ ~IsExclusive(c, l)
    BY <1>2, <1>8, <2>1 DEF Propagates
  <2>3. ~excl[c][l]
    BY <1>1, <1>2, <2>1, <2>2, ExclusiveChild
  <2>4. ChildOK(c, e, l, st, sharers, excl, stack)
    BY <1>1, <1>2, <1>20, MemoryAssumption DEF DirInv
  <2> QED BY <1>20, <2>2, <2>3, <2>4 DEF ChildOK
<1>21. DirInv'
  <2> SUFFICES ASSUME NEW m \in Lines, NEW e \in Caches, Parent[e][m] # Memory
               PROVE  ChildOK(Parent[e][m], e, m, st', sharers', excl', stack')
    BY DEF DirInv
  <2> DEFINE u == Parent[e][m]
  <2>1. u \in Caches /\ ChildOK(u, e, m, st, sharers, excl, stack) /\ (Upgrading(stack, u, m, e) => Upgrading(stack', u, m, e))
    BY <1>2, <1>19, ParentAssumption DEF DirInv
  <2>2. CASE u = up /\ m = l /\ e = c
    <3>1. st'[e][m] = t /\ st'[u][m] = st[u][m] /\ (f.type = "INV" => sharers'[u][m] = sharers[u][m] \ {c})
          /\ (f.type = "INVX" => sharers'[u][m] = sharers[u][m] /\ excl'[u][m] = FALSE)
      BY <1>1, <1>2, <1>10, <1>11, <1>12, <2>2
    <3>2. CASE f.type = "INV"
      BY <2>2, <3>1, <3>2 DEF ChildOK, Exclusive
    <3>3. CASE f.type = "INVX"
      BY <1>7, <2>1, <2>2, <3>1, <3>3 DEF ChildOK, Exclusive
    <3> QED BY <1>2, <3>2, <3>3
  <2>3. CASE u = up /\ m = l /\ e # c
    <3>1. st'[e][m] = st[e][m] /\ st'[u][m] = st[u][m] /\ (e \in sharers'[u][m] <=> e \in sharers[u][m])
          /\ (excl'[u][m] => excl[u][m]) /\ (f.type = "INV" => excl'[u][m] = excl[u][m])
      <4>1. st'[e][m] = st[e][m] /\ st'[u][m] = st[u][m]
        BY <1>1, <1>2, <1>10, <2>3
      <4>2. e \in sharers'[u][m] <=> e \in sharers[u][m]
        <5> HIDE DEF u, up, c, l, t, f
        <5> QED BY <1>2, <1>11, <2>1, <2>3
      <4>3. (excl'[u][m] => excl[u][m]) /\ (f.type = "INV" => excl'[u][m] = excl[u][m])
        <5> HIDE DEF u, up, c, l, t, f
        <5> QED BY <1>2, <1>12, <2>1, <2>3
      <4> QED BY <4>1, <4>2, <4>3
    <3>2. f.type = "INVX" => excl[u][m] /\ st[e][m] = "I"
      BY <1>4, <1>6, <1>7, <2>1, <2>3 DEF ChildOK
    <3>3. \A x \in Caches : st[x][m] = "I" => st'[x][m] = "I"
      BY <1>13 DEF Weaker, Exclusive
    <3> HIDE DEF u, up, c, l, t, f
    <3> QED BY <1>2, <2>1, <3>1, <3>2, <3>3 DEF ChildOK, Exclusive, u
  <2>4. CASE u = c /\ m = l
    <3>1. e # c /\ st'[c][m] = t
      BY <1>1, <1>10, <2>1, <2>4, ChildIsOther
    <3>2. st'[e][m] = st[e][m] /\ sharers'[u][m] = sharers[u][m] /\ excl'[u][m] = excl[u][m]
      <4>1. c # up /\ c \in Caches
        BY <1>1, <1>2
      <4> HIDE DEF u, up, c, l, t, f
      <4>2. st'[e][m] = st[e][m]
        BY <1>10, <3>1
      <4> QED BY <1>11, <1>12, <2>4, <4>1, <4>2
    <3>3. st[e][m] # "I" => f.type = "INVX" /\ ~Exclusive(st[e][m])
      BY <1>20, <2>4
    <3>4. st[e][m] # "I" => t = "S"
      BY <3>3
    <3>5. ~Exclusive("I")
      BY DEF Exclusive
    <3>6. \A x \in Caches : st[x][m] = "I" => st'[x][m] = "I"
      BY <1>13 DEF Weaker, Exclusive
    <3> HIDE DEF u, up, c, l, t, f
    <3> QED BY <2>1, <2>4, <3>1, <3>2, <3>3, <3>4, <3>5, <3>6 DEF ChildOK, u
  <2>5. CASE ~(u = up /\ m = l) /\ ~(u = c /\ m = l)
    <3>1. st'[e][m] = st[e][m] /\ st'[u][m] = st[u][m] /\ sharers'[u][m] = sharers[u][m] /\ excl'[u][m] = excl[u][m]
      <4>1. e = c /\ m = l => u = up
        OBVIOUS
      <4> HIDE DEF u, up, c, l, t, f
      <4>2. st'[e][m] = st[e][m] /\ st'[u][m] = st[u][m]
        BY <1>10, <2>1, <2>5, <4>1
      <4>3. sharers'[u][m] = sharers[u][m] /\ excl'[u][m] = excl[u][m]
        BY <1>11, <1>12, <2>1, <2>5
      <4> QED BY <4>2, <4>3
    <3>6. \A x \in Caches : st[x][m] = "I" => st'[x][m] = "I"
      BY <1>13 DEF Weaker, Exclusive
    <3> HIDE DEF u, up, c, l, t, f
    <3> QED BY <2>1, <3>1, <3>6 DEF ChildOK, u
  <2> QED BY <2>2, <2>3, <2>4, <2>5
<1>22. PresentInv'
  BY <1>2, <1>8, <1>13 DEF PresentInv, Weaker, Exclusive
<1> QED BY <1>9, <1>18, <1>21, <1>22 DEF MesiInv

\* At the start every line is invalid everywhere and no call is under way.
LEMMA MesiInit ==
    ASSUME Init
    PROVE  MesiInv
<1>1. \A p \in Cores : stack[p] = <<>> /\ Len(stack[p]) = 0 /\ ~wb[p]
  BY DEF Init
<1>2. \A x \in Caches, m \in Lines : st[x][m] = "I" /\ sharers[x][m] = {} /\ excl[x][m] = FALSE
  BY DEF Init
<1>3. CallsInv
  <2>1. \A p \in Cores : FramesInv(p, stack[p], st, present, sharers, excl)
    BY <1>1 DEF FramesInv
  <2> QED BY <1>1, <2>1 DEF CallsInv, WbInv
<1>4. DirInv
  <2> SUFFICES ASSUME NEW l \in Lines, NEW d \in Caches, Parent[d][l] # Memory
               PROVE  ChildOK(Parent[d][l], d, l, st, sharers, excl, stack)
    BY DEF DirInv
  <2>1. Parent[d][l] \in Caches
    BY ParentAssumption
  <2> QED BY <1>2, <2>1 DEF ChildOK, Exclusive
<1>5. PresentInv /\ ~failed
  BY <1>2 DEF PresentInv, Init
<1> QED BY <1>3, <1>4, <1>5 DEF MesiInv

\* Every step keeps the MESI invariant.
LEMMA MesiNext ==
    ASSUME LockInv, MesiInv, [Next]_vars
    PROVE  MesiInv'
<1>1. ASSUME NEW p \in Cores, Start(p) \/ Step(p) PROVE MesiInv'
  <2>1. ASSUME Step(p) PROVE MesiInv'
    BY <2>1, MesiTakeTcc, MesiTakeBcc, MesiEvictChildren, MesiEvictSelf, MesiInsert, MesiFetch, MesiFetched,
       MesiPut, MesiGetS, MesiGetX, MesiEnd, MesiInvLock, MesiInvChildren, MesiInvSelf DEF Step
  <2> QED BY <1>1, <2>1, MesiStart
<1>2. CASE UNCHANGED vars
  <2>1. UNCHANGED <<st, present, sharers, excl, stack, wb, failed>>
    BY <1>2 DEF vars, dir
  <2> QED BY <2>1 DEF MesiInv, DirInv, PresentInv, CallsInv, ChildOK, Upgrading
<1> QED BY <1>1, <1>2 DEF Next

\* No assertion or panic of the coherence controllers fails.
THEOREM NeverFails == Spec => []NoAssertFails
<1>1. Init => LockInv /\ MesiInv
  BY LockInit, MesiInit
<1>2. LockInv /\ MesiInv /\ [Next]_vars => LockInv' /\ MesiInv'
  BY LockNext, MesiNext
<1>3. LockInv /\ MesiInv => NoAssertFails
  BY DEF MesiInv, NoAssertFails
<1> QED BY <1>1, <1>2, <1>3, PTL DEF Spec

-----------------------------------------------------------------------------
\* With no call under way the invariant's directories are exact.
LEMMA DirExact ==
    ASSUME LockInv, MesiInv
    PROVE  DirectoryExact
<1> SUFFICES ASSUME NEW c \in Caches \ Terminals, NEW l \in Lines, bcc[c] = Nobody
             PROVE  /\ sharers[c][l] = {d \in Children(c, l) : st[d][l] # "I"}
                    /\ \A d \in sharers[c][l] : IsExclusive(c, l) <=> Exclusive(st[d][l])
  BY DEF DirectoryExact
<1>1. c \in Caches /\ c # Memory /\ sharers[c][l] \in SUBSET Caches /\ DirInv
  BY MemoryAssumption DEF LockInv, CohTypeOK, MesiInv
<1>2. ASSUME NEW d, Upgrading(stack, c, l, d) PROVE FALSE
  <2>1. PICK q \in Cores : \E i \in 1 .. Len(stack[q]) : Upgrade(stack[q][i], c, l, d)
    BY <1>2 DEF Upgrading
  <2>2. PICK i \in 1 .. Len(stack[q]) : Upgrade(stack[q][i], c, l, d)
    BY <2>1
  <2>3. StackOK(stack[q]) /\ Len(stack[q]) \in Nat
    BY StackIs
  <2>4. AtWork(stack[q], i)
    <3>1. CASE i = 1
      BY <2>2, <3>1 DEF AtWork, Upgrade
    <3>2. CASE i # 1
      <4>1. i \in 2 .. Len(stack[q])
        BY <2>3, <3>2
      <4> QED BY <2>2, <2>3, <4>1, NotTop DEF Upgrade
    <3> QED BY <3>1, <3>2
  <2>5. bcc[stack[q][i].c] = q
    BY <2>4, Working
  <2> QED BY <2>2, <2>5, NobodyAssumption DEF Upgrade
<1>3. ASSUME NEW d \in sharers[c][l] PROVE d \in Children(c, l) /\ st[d][l] # "I" /\ d \in Caches /\ (excl[c][l] <=> Exclusive(st[d][l]))
  <2>1. d \in Caches /\ Parent[d][l] = c
    BY <1>1 DEF LockInv, SharersAreChildren
  <2>2. ChildOK(c, d, l, st, sharers, excl, stack)
    BY <1>1, <2>1 DEF DirInv
  <2> QED BY <2>1, <2>2 DEF ChildOK, Children
<1>4. ASSUME NEW d \in Children(c, l), st[d][l] # "I" PROVE d \in sharers[c][l]
  <2>1. d \in Caches /\ Parent[d][l] = c
    BY DEF Children
  <2>2. ChildOK(c, d, l, st, sharers, excl, stack)
    BY <1>1, <2>1 DEF DirInv
  <2> QED BY <1>2, <1>4, <2>2 DEF ChildOK
<1>5. ASSUME NEW d \in sharers[c][l] PROVE IsExclusive(c, l) <=> Exclusive(st[d][l])
  <2>1. IsExclusive(c, l) <=> excl[c][l]
    BY <1>1, ExclusiveChild DEF IsExclusive
  <2> QED BY <1>3, <2>1
<1>6. sharers[c][l] = {d \in Children(c, l) : st[d][l] # "I"}
  BY <1>3, <1>4
<1> QED BY <1>5, <1>6

\* Once the calls on a line have ended, a directory lists the children that have it, and marks the exclusive one.
THEOREM AlwaysExact == Spec => []DirectoryExact
<1>1. Init => LockInv /\ MesiInv
  BY LockInit, MesiInit
<1>2. LockInv /\ MesiInv /\ [Next]_vars => LockInv' /\ MesiInv'
  BY LockNext, MesiNext
<1>3. LockInv /\ MesiInv => DirectoryExact
  BY DirExact
<1> QED BY <1>1, <1>2, <1>3, PTL DEF Spec

-----------------------------------------------------------------------------
(* From two copies of a line, one of them exclusive, one climbs towards the memory until the paths meet. *)

\* Cache b, below y: where the path to y came from, while the other is at x.
From(b, y, x, l) == b \in Caches /\ Parent[b][l] = y /\ b # x /\ (Level[b] <= Level[x] \/ Parent[x][l] = Memory)

Climbs(x, y, l) ==
    /\ x # y /\ Exclusive(st[x][l]) /\ st[y][l] # "I"
    /\ x \in Terminals \/ \E b \in Caches : From(b, x, y, l) /\ Exclusive(st[b][l])
    /\ y \in Terminals \/ \E b \in Caches : From(b, y, x, l) /\ st[b][l] # "I"

\* The exclusive copy of a line has no sibling with the line.
LEMMA Siblings ==
    ASSUME MesiInv, NEW l \in Lines, NEW c \in Caches, NEW d \in Caches, c # d, Parent[c][l] = Parent[d][l],
           Parent[c][l] # Memory, Exclusive(st[c][l])
    PROVE  st[d][l] = "I"
<1>1. ChildOK(Parent[c][l], c, l, st, sharers, excl, stack)
  BY DEF MesiInv, DirInv
<1> QED BY <1>1 DEF ChildOK, Exclusive

\* From two copies that are not siblings, one climbs one level towards memory.
LEMMA ClimbsOn ==
    ASSUME LockInv, MesiInv, NEW l \in Lines, NEW x \in Caches, NEW y \in Caches, Climbs(x, y, l)
    PROVE  \E u \in Caches, v \in Caches : Climbs(u, v, l) /\ Level[x] + Level[y] < Level[u] + Level[v]
<1>1. DirInv /\ \A z \in Caches : Level[z] \in Nat
  BY LevelAssumption DEF MesiInv
<1>2. ASSUME NEW z \in Caches, Parent[z][l] # Memory
      PROVE  /\ Parent[z][l] \in Caches /\ Level[z] < Level[Parent[z][l]] /\ Parent[z][l] \notin Terminals
             /\ st[z][l] # "I" => st[Parent[z][l]][l] # "I"
             /\ Exclusive(st[z][l]) => Exclusive(st[Parent[z][l]][l])
  <2>1. ChildOK(Parent[z][l], z, l, st, sharers, excl, stack)
    BY <1>1, <1>2 DEF DirInv
  <2> QED BY <1>2, <2>1, ParentAssumption, LevelAssumption DEF ChildOK, Terminals
<1>3. x # y /\ Exclusive(st[x][l]) /\ st[y][l] # "I"
      /\ (x \in Terminals \/ \E b \in Caches : From(b, x, y, l) /\ Exclusive(st[b][l]))
      /\ (y \in Terminals \/ \E b \in Caches : From(b, y, x, l) /\ st[b][l] # "I")
  BY DEF Climbs
<1>4. CASE Parent[x][l] # Memory /\ (Level[x] <= Level[y] \/ Parent[y][l] = Memory)
  <2> DEFINE u == Parent[x][l]
  <2>1. u \in Caches /\ Level[x] < Level[u] /\ u \notin Terminals /\ Exclusive(st[u][l])
    BY <1>2, <1>3, <1>4
  <2>2. From(x, u, y, l)
    BY <1>3, <1>4 DEF From
  <2>3. ASSUME NEW b \in Caches, From(b, y, x, l) PROVE From(b, y, u, l)
    <3>1. Parent[b][l] = y /\ Level[b] <= Level[x] /\ Level[b] \in Nat /\ Level[x] \in Nat /\ Level[u] \in Nat
      BY <1>1, <1>4, <2>1, <2>3 DEF From
    <3>2. b # u /\ Level[b] <= Level[u]
      BY <2>1, <3>1
    <3> QED BY <3>1, <3>2 DEF From
  <2>4. u # y
    <3> SUFFICES ASSUME u = y PROVE FALSE
      OBVIOUS
    <3>1. PICK b \in Caches : From(b, y, x, l) /\ st[b][l] # "I"
      BY <1>3, <2>1
    <3>2. b # x /\ Parent[b][l] = Parent[x][l]
      BY <3>1 DEF From
    <3> QED BY <1>3, <1>4, <3>1, <3>2, Siblings
  <2>5. Climbs(u, y, l)
    BY <1>3, <2>1, <2>2, <2>3, <2>4 DEF Climbs
  <2>6. Level[x] + Level[y] < Level[u] + Level[y]
    BY <1>1, <2>1
  <2> QED BY <2>1, <2>5, <2>6
<1>5. CASE Parent[y][l] # Memory /\ (Level[y] <= Level[x] \/ Parent[x][l] = Memory)
  <2> DEFINE u == Parent[y][l]
  <2>1. u \in Caches /\ Level[y] < Level[u] /\ u \notin Terminals /\ st[u][l] # "I"
    BY <1>2, <1>3, <1>5
  <2>2. From(y, u, x, l)
    BY <1>3, <1>5 DEF From
  <2>3. ASSUME NEW b \in Caches, From(b, x, y, l) PROVE From(b, x, u, l)
    <3>1. Parent[b][l] = x /\ Level[b] <= Level[y] /\ Level[b] \in Nat /\ Level[y] \in Nat /\ Level[u] \in Nat
      BY <1>1, <1>5, <2>1, <2>3 DEF From
    <3>2. b # u /\ Level[b] <= Level[u]
      BY <2>1, <3>1
    <3> QED BY <3>1, <3>2 DEF From
  <2>4. x # u
    <3> SUFFICES ASSUME u = x PROVE FALSE
      OBVIOUS
    <3>1. PICK b \in Caches : From(b, x, y, l) /\ Exclusive(st[b][l])
      BY <1>3, <2>1
    <3>2. b # y /\ Parent[b][l] = Parent[y][l]
      BY <3>1 DEF From
    <3> QED BY <1>3, <1>5, <3>1, <3>2, Siblings
  <2>5. Climbs(x, u, l)
    BY <1>3, <2>1, <2>2, <2>3, <2>4 DEF Climbs
  <2>6. Level[x] + Level[y] < Level[x] + Level[u]
    BY <1>1, <2>1
  <2> QED BY <2>1, <2>5, <2>6
<1>6. CASE Parent[x][l] = Memory /\ Parent[y][l] = Memory
  <2>1. (\E p \in Cores : x \in Terminal[p]) \/ \E z \in Caches : Parent[z][l] = x
    BY <1>3 DEF Terminals, From
  <2>2. (\E p \in Cores : y \in Terminal[p]) \/ \E z \in Caches : Parent[z][l] = y
    BY <1>3 DEF Terminals, From
  <2> QED BY <1>3, <1>6, <2>1, <2>2, RootAssumption
<1>7. Level[x] <= Level[y] \/ Level[y] <= Level[x]
  BY <1>1
<1> QED BY <1>4, <1>5, <1>6, <1>7

\* No two different caches stand on the paths of two copies, one of them exclusive.
LEMMA NoClimb ==
    ASSUME LockInv, MesiInv, NEW l \in Lines, NEW c \in Caches, NEW d \in Caches
    PROVE  ~Climbs(c, d, l)
<1> SUFFICES ASSUME Climbs(c, d, l) PROVE FALSE
  OBVIOUS
<1> DEFINE T == {n \in Nat : \E x \in Caches, y \in Caches : Climbs(x, y, l) /\ n = (Depth + Depth) - (Level[x] + Level[y])}
<1>1. Depth \in Nat /\ \A z \in Caches : Level[z] \in Nat /\ Level[z] <= Depth
  BY LevelAssumption
<1>2. ASSUME NEW x \in Caches, NEW y \in Caches, Climbs(x, y, l) PROVE (Depth + Depth) - (Level[x] + Level[y]) \in T
  <2>1. (Depth + Depth) - (Level[x] + Level[y]) \in Nat
    BY <1>1
  <2> QED BY <1>2, <2>1
<1>3. PICK n \in T : \A k \in T : n <= k
  BY <1>2, LeastNatural
<1>4. PICK x \in Caches, y \in Caches : Climbs(x, y, l) /\ n = (Depth + Depth) - (Level[x] + Level[y])
  OBVIOUS
<1>5. PICK u \in Caches, v \in Caches : Climbs(u, v, l) /\ Level[x] + Level[y] < Level[u] + Level[v]
  BY <1>4, ClimbsOn
<1>6. (Depth + Depth) - (Level[u] + Level[v]) \in T
  BY <1>2, <1>5
<1>7. n <= (Depth + Depth) - (Level[u] + Level[v])
  BY <1>3, <1>6
<1> HIDE DEF T
<1> QED BY <1>1, <1>4, <1>5, <1>7

\* The MESI invariant leaves no second copy beside an exclusive one.
LEMMA OneWriter ==
    ASSUME LockInv, MesiInv
    PROVE  SingleWriter
<1> SUFFICES ASSUME NEW l \in Lines, NEW c \in Caches, Exclusive(st[c][l]), NEW d \in Caches \ {c},
                    \/ c \in Terminals /\ d \in Terminals
                    \/ Parent[c][l] = Parent[d][l] /\ Parent[c][l] # Memory
             PROVE  st[d][l] = "I"
  BY DEF SingleWriter
<1>1. CASE c \in Terminals /\ d \in Terminals
  <2>1. ~Climbs(c, d, l)
    BY NoClimb
  <2> QED BY <1>1, <2>1 DEF Climbs
<1>2. CASE Parent[c][l] = Parent[d][l] /\ Parent[c][l] # Memory
  BY <1>2, Siblings
<1> QED BY <1>1, <1>2

\* A cache with a line in E or M is the only one of its kind with a copy.
THEOREM AlwaysSingleWriter == Spec => []SingleWriter
<1>1. Init => LockInv /\ MesiInv
  BY LockInit, MesiInit
<1>2. LockInv /\ MesiInv /\ [Next]_vars => LockInv' /\ MesiInv'
  BY LockNext, MesiNext
<1>3. LockInv /\ MesiInv => SingleWriter
  BY OneWriter
<1> QED BY <1>1, <1>2, <1>3, PTL DEF Spec

-----------------------------------------------------------------------------
(* Dirty lines. *)

\* Min is the least of a set of numbers.
LEMMA MinIsLeast ==
    ASSUME NEW T \in SUBSET Nat, NEW k \in T
    PROVE  Min(T) <= k
  BY LeastNatural DEF Min

\* A line that is M somewhere, or that core p's innermost access has got back.
Carries(s, w, l) == w /\ WbInv(s, TRUE, LineOnly(l))
Saved(S, K, w, l) == (\E c \in Caches : S[c][l] = "M") \/ \E q \in Cores : Carries(K[q], w[q], l)
KeptInv == \A l \in Lines : dirty[l] => Saved(st, stack, wb, l)

\* The line a core carries data of is the one its innermost access works on.
LEMMA CarriedLine ==
    ASSUME LockInv, NEW p \in Cores, NEW l \in Lines, Carries(stack[p], wb[p], l)
    PROVE  wb[p] /\ WritesBack(p) = l
<1> DEFINE s == stack[p]
           T == {i \in DOMAIN s : s[i].type \notin {"INV", "INVX"}}
<1>1. s \in Seq(Frames) /\ Len(s) \in Nat /\ DOMAIN s = 1 .. Len(s) /\ wb[p]
  BY StackIs DEF Carries
<1>2. PICK k \in 1 .. Len(s) :
          /\ ~Inv(s[k]) /\ \A i \in 1 .. k - 1 : Inv(s[i])
          /\ s[k].pc \in {"evict", "dir"} /\ WorkLine(s[k]) \in Lines /\ (s[k].pc = "dir" => ~IsPut(s[k].type))
          /\ Exclusive(LineOnly(l)[s[k].c][WorkLine(s[k])])
  BY DEF Carries, WbInv
<1>3. k \in T /\ T \in SUBSET Nat
  BY <1>1, <1>2 DEF Inv
<1>4. Min(T) \in T /\ Min(T) <= k
  BY <1>3, MinIsIn, MinIsLeast
<1>5. Min(T) = k
  <2> SUFFICES ASSUME Min(T) # k PROVE FALSE
    OBVIOUS
  <2>1. Min(T) \in 1 .. Len(s) /\ ~Inv(s[Min(T)])
    BY <1>1, <1>4 DEF Inv
  <2>2. Min(T) \in 1 .. k - 1
    BY <1>1, <1>4, <2>1
  <2> QED BY <1>2, <2>1, <2>2
<1>6. s[k].c \in Caches
  <2>1. s[k] \in Frames
    BY <1>1
  <2> QED BY <2>1 DEF Frames
<1>7. WorkLine(s[k]) = l
  BY <1>2, <1>6 DEF LineOnly, Exclusive
<1> QED BY <1>1, <1>5, <1>7 DEF WritesBack, WorkLine

\* The line is the one the innermost access works on.
LEMMA CarriedTop ==
    ASSUME LockInv, NEW p \in Cores, NEW l \in Lines, Carries(stack[p], wb[p], l), stack[p] # <<>>, ~Inv(stack[p][1])
    PROVE  wb[p] /\ WorkLine(stack[p][1]) = l
<1>1. stack[p] \in Seq(Frames) /\ wb[p] /\ WbInv(stack[p], TRUE, LineOnly(l))
  BY StackIs DEF Carries
<1>2. WorkLine(stack[p][1]) \in Lines /\ Exclusive(LineOnly(l)[stack[p][1].c][WorkLine(stack[p][1])])
  BY <1>1, WbTop
<1>3. stack[p][1].c \in Caches
  <2>1. stack[p][1] \in Frames
    BY <1>1
  <2> QED BY <2>1 DEF Frames
<1> QED BY <1>1, <1>2, <1>3 DEF LineOnly, Exclusive

\* A step that keeps what is M and what is carried.
LEMMA KeptStep ==
    ASSUME LockInv, KeptInv, NEW p \in Cores, NEW r, stack' = [stack EXCEPT ![p] = r],
           \A q \in Cores : q # p => wb'[q] = wb[q],
           \A l \in Lines : dirty'[l] => dirty[l] \/ \E c \in Caches : st'[c][l] = "M",
           \A l \in Lines, c \in Caches : dirty'[l] /\ st[c][l] = "M" => Saved(st', stack', wb', l),
           \A l \in Lines : dirty'[l] /\ Carries(stack[p], wb[p], l) => Saved(st', stack', wb', l)
    PROVE  KeptInv'
<1>1. stack'[p] = r /\ \A q \in Cores : q # p => stack'[q] = stack[q]
  BY DEF LockInv, CohTypeOK
<1> SUFFICES ASSUME NEW l \in Lines, dirty'[l] PROVE Saved(st', stack', wb', l)
  BY DEF KeptInv
<1>2. CASE \E c \in Caches : st'[c][l] = "M"
  BY <1>2 DEF Saved
<1>3. CASE dirty[l]
  <2>1. Saved(st, stack, wb, l)
    BY <1>3 DEF KeptInv
  <2>2. CASE \E c \in Caches : st[c][l] = "M"
    BY <2>2
  <2>3. ASSUME NEW q \in Cores, Carries(stack[q], wb[q], l) PROVE Saved(st', stack', wb', l)
    <3>1. CASE q = p
      BY <2>3, <3>1
    <3>2. CASE q # p
      BY <1>1, <2>3, <3>2 DEF Saved
    <3> QED BY <3>1, <3>2
  <2> QED BY <2>1, <2>2, <2>3 DEF Saved
<1> QED BY <1>2, <1>3

\* A step that leaves M states, data and their accesses alone keeps dirty lines.
LEMMA KeptIdle ==
    ASSUME LockInv, KeptInv, NEW p \in Cores, NEW r, stack' = [stack EXCEPT ![p] = r], UNCHANGED <<st, wb>>, ~wb[p],
           \A l \in Lines : dirty'[l] => dirty[l] \/ \E c \in Caches : st'[c][l] = "M"
    PROVE  KeptInv'
<1>1. \A l \in Lines, c \in Caches : st[c][l] = "M" => Saved(st', stack', wb', l)
  BY DEF Saved
<1>2. \A l \in Lines : ~Carries(stack[p], wb[p], l)
  BY DEF Carries
<1> QED BY <1>1, <1>2, KeptStep

\* Invalidations are sent and locked for.
LEMMA KeptDown ==
    ASSUME LockInv, KeptInv, NEW p \in Cores, stack[p] # <<>>, UNCHANGED <<st, wb, dirty>>, NEW g \in Frames, Inv(g),
           NEW r, r = <<g, stack[p][1]>> \o Tail(stack[p]) \/ (Inv(stack[p][1]) /\ r = <<g>> \o Tail(stack[p])),
           stack' = [stack EXCEPT ![p] = r]
    PROVE  KeptInv'
<1>1. \A l \in Lines, c \in Caches : st[c][l] = "M" => Saved(st', stack', wb', l)
  BY DEF Saved
<1>2. stack[p] \in Seq(Frames) /\ stack'[p] = r
  BY StackIs DEF LockInv, CohTypeOK
<1>3. ASSUME NEW l \in Lines, Carries(stack[p], wb[p], l) PROVE Saved(st', stack', wb', l)
  <2>1. WbInv(stack[p], TRUE, LineOnly(l)) /\ wb[p]
    BY <1>3 DEF Carries
  <2>2. WbInv(r, TRUE, LineOnly(l))
    BY <1>2, <2>1, WbPushed, WbReplaced
  <2> QED BY <1>2, <2>1, <2>2 DEF Saved, Carries
<1> QED BY <1>1, <1>3, KeptStep

\* A call of an invalidation keeps dirty lines.
LEMMA KeptInvalidate ==
    ASSUME LockInv, KeptInv, NEW p \in Cores, stack[p] # <<>>, NEW label, label = Frame(p).pc, NEW d \in Caches,
           NEW l \in Lines, NEW type \in {"INV", "INVX"}, Call(p, label, InvFrame(d, l, type)), UNCHANGED <<st, wb, dirty>>
    PROVE  KeptInv'
<1> DEFINE g == InvFrame(d, l, type)
           r == <<g, stack[p][1]>> \o Tail(stack[p])
<1>1. Head(stack[p]) = stack[p][1] /\ stack[p][1] \in Frames /\ Frame(p) = stack[p][1]
  BY TopFrame
<1>2. [Head(stack[p]) EXCEPT !.pc = label] = stack[p][1]
  BY <1>1, SameLabel
<1>3. stack' = [stack EXCEPT ![p] = r]
  BY <1>2 DEF Call
<1>4. g \in Frames /\ Inv(g)
  BY DEF InvFrame, Frames, Inv, AccLabels
<1> HIDE DEF g
<1>5. r = <<g, stack[p][1]>> \o Tail(stack[p])
  OBVIOUS
<1> HIDE DEF r
<1> QED BY <1>3, <1>4, <1>5, KeptDown

-----------------------------------------------------------------------------
\* The steps that leave M states and data alone keep dirty lines.
LEMMA KeptIdleSteps ==
    ASSUME LockInv, MesiInv, KeptInv, NEW p \in Cores, TakeTcc(p) \/ TakeBcc(p) \/ Insert(p) \/ End(p) \/ Start(p) \/ Fetched(p)
    PROVE  KeptInv'
<1>1. CallsInv /\ (stack[p] # <<>> => Frame(p) = stack[p][1] /\ Frame(p) \in Frames /\ FrameOK(Frame(p)))
  BY TopFrame DEF MesiInv
<1>2. ~wb[p]
  <2>1. CASE Start(p)
    BY <1>1, <2>1, WrittenBack DEF Start
  <2>2. CASE TakeTcc(p) \/ TakeBcc(p) \/ Insert(p) \/ End(p) \/ Fetched(p)
    <3>1. stack[p] # <<>> /\ stack[p][1].pc \in {"tcc", "bcc", "insert", "end", "fetched"}
      BY <1>1, <2>2 DEF TakeTcc, TakeBcc, Insert, End, Fetched, At
    <3>2. ~Inv(stack[p][1])
      BY <1>1, <3>1 DEF FrameOK
    <3> QED BY <1>1, <3>1, <3>2, WrittenBack
  <2> QED BY <2>1, <2>2
<1>3. UNCHANGED <<st, wb>>
  BY DEF TakeTcc, TakeBcc, Insert, End, Start, Fetched
<1>4. \E r : stack' = [stack EXCEPT ![p] = r]
  BY DEF TakeTcc, TakeBcc, Insert, End, Start, Fetched, GoTo, Becomes, Return
<1>5. \A l \in Lines : dirty'[l] => dirty[l] \/ \E c \in Caches : st'[c][l] = "M"
  <2>1. CASE TakeTcc(p) \/ TakeBcc(p) \/ Insert(p) \/ End(p) \/ Start(p)
    BY <2>1 DEF TakeTcc, TakeBcc, Insert, End, Start
  <2>2. CASE Fetched(p)
    <3> DEFINE f == Frame(p)
    <3>1. f = stack[p][1] /\ f \in Frames /\ FrameOK(f) /\ f.pc = "fetched" /\ stack[p] # <<>> /\ f.c \in Caches /\ f.l \in Lines
      BY <1>1, <2>2 DEF Fetched, At, Frames
    <3>2. ~Inv(f) /\ Answered(f, st)
      BY <1>1, <3>1, TopCalls DEF FrameOK
    <3>3. f.type = "GETX" => st[f.c][f.l] = "M"
      BY <3>1, <3>2 DEF Answered, Gets
    <3>4. dirty' = IF f.type = "GETX" THEN Stored(f.c, f.l) ELSE dirty
      BY <2>2 DEF Fetched
    <3>5. \A l \in Lines : dirty'[l] => dirty[l] \/ (f.type = "GETX" /\ l = f.l)
      BY <3>1, <3>4 DEF Stored, LockInv, CohTypeOK
    <3> QED BY <1>3, <3>1, <3>3, <3>5
  <2> QED BY <2>1, <2>2
<1> QED BY <1>2, <1>3, <1>4, <1>5, KeptIdle

\* Taking the bottom lock on the way down keeps dirty lines.
LEMMA KeptInvLock ==
    ASSUME LockInv, MesiInv, KeptInv, NEW p \in Cores, InvLock(p)
    PROVE  KeptInv'
<1> DEFINE f == stack[p][1]
           h == [f EXCEPT !.pc = "down"]
           r == <<h>> \o Tail(stack[p])
<1>1. f = Frame(p) /\ f \in Frames /\ FrameOK(f) /\ f.pc = "lock" /\ stack[p] # <<>>
  BY TopFrame DEF InvLock, At
<1>2. h \in Frames /\ Inv(h) /\ Inv(f)
  BY <1>1 DEF Frames, Inv, AccLabels, FrameOK
<1>3. stack' = [stack EXCEPT ![p] = r] /\ UNCHANGED <<st, wb, dirty>>
  BY <1>1 DEF InvLock, GoTo, Becomes
<1> HIDE DEF h
<1>4. r = <<h, stack[p][1]>> \o Tail(stack[p]) \/ (Inv(stack[p][1]) /\ r = <<h>> \o Tail(stack[p]))
  BY <1>2
<1> HIDE DEF r
<1> QED BY <1>1, <1>2, <1>3, <1>4, KeptDown

\* Passing an invalidation on keeps dirty lines.
LEMMA KeptInvChildren ==
    ASSUME LockInv, MesiInv, KeptInv, NEW p \in Cores, InvChildren(p)
    PROVE  KeptInv'
<1> DEFINE f == Frame(p)
           T == sharers[f.c][f.l]
<1>1. f \in Frames /\ f.pc = "down" /\ stack[p] # <<>> /\ f.c \in Caches /\ f.l \in Lines /\ FrameOK(f)
  BY TopFrame DEF InvChildren, At, Frames
<1>2. f.type \in {"INV", "INVX"} /\ T \in SUBSET Caches
  BY <1>1 DEF FrameOK, Inv, AccLabels, LockInv, CohTypeOK
<1>3. Propagates(f) /\ UNCHANGED <<st, wb, dirty>> /\ Call(p, "down", InvFrame(Min(T), f.l, f.type))
  BY DEF InvChildren, Invalidate
<1>4. T # {}
  BY <1>3, FS_EmptySet DEF Propagates, IsExclusive
<1>5. Min(T) \in Caches
  BY <1>2, <1>4, CachesAssumption, MinIsIn
<1> QED BY <1>1, <1>2, <1>3, <1>5, KeptInvalidate

\* Invalidating the children of a victim keeps dirty lines.
LEMMA KeptEvictChildren ==
    ASSUME LockInv, MesiInv, KeptInv, NEW p \in Cores, EvictChildren(p)
    PROVE  KeptInv'
<1> DEFINE f == Frame(p)
           T == sharers[f.c][f.victim]
<1>1. f \in Frames /\ f.pc = "evict" /\ stack[p] # <<>> /\ f.c \in Caches /\ f.victim \in Lines
  BY TopFrame DEF EvictChildren, At, Frames
<1>2. T \in SUBSET Caches /\ T # {}
  BY <1>1 DEF EvictChildren, LockInv, CohTypeOK
<1>3. Min(T) \in Caches
  BY <1>2, CachesAssumption, MinIsIn
<1>4. Call(p, "evict", InvFrame(Min(T), f.victim, "INV")) /\ UNCHANGED <<st, wb, dirty>>
  BY DEF EvictChildren, Invalidate
<1> QED BY <1>1, <1>3, <1>4, KeptInvalidate

\* An evicted line that is dirty is written back with PUTX, which carries it.
LEMMA KeptEvictSelf ==
    ASSUME LockInv, MesiInv, KeptInv, NEW p \in Cores, EvictSelf(p)
    PROVE  KeptInv'
<1> DEFINE f == stack[p][1]
           c == f.c
           v == f.victim
           t == IF wb[p] THEN "M" ELSE st[c][v]
           type == IF t = "M" THEN "PUTX" ELSE "PUTS"
<1>1. /\ f = Frame(p) /\ f \in Frames /\ FrameOK(f) /\ f.pc = "evict" /\ stack[p] # <<>> /\ c \in Caches
      /\ v \in Lines \cup {NoLine} /\ CallsInv
  BY TopFrame DEF EvictSelf, At, Frames, MesiInv
<1>2. ~Inv(f) /\ WorkLine(f) = v
  BY <1>1 DEF FrameOK, WorkLine
<1>3. \A q \in Cores : q # p => wb'[q] = wb[q]
  BY DEF EvictSelf, LockInv, CohTypeOK
<1>4. wb[p] => v \in Lines
  BY <1>1, <1>2, WrittenBack
<1>5. ASSUME NEW l \in Lines, Carries(stack[p], wb[p], l) PROVE wb[p] /\ l = v
  BY <1>1, <1>2, <1>5, CarriedTop
<1>6. CASE v = NoLine \/ t = "I"
  <2>1. UNCHANGED <<st, dirty>> /\ GoTo(p, "insert")
    BY <1>1, <1>6, NoLineAssumption DEF EvictSelf
  <2>2. \E r : stack' = [stack EXCEPT ![p] = r]
    BY <2>1 DEF GoTo, Becomes
  <2>3. ~wb[p]
    BY <1>4, <1>6, NoLineAssumption
  <2>4. \A l \in Lines : ~Carries(stack[p], wb[p], l)
    BY <2>3 DEF Carries
  <2>5. \A l \in Lines, x \in Caches : st[x][l] = "M" => Saved(st', stack', wb', l)
    BY <2>1 DEF Saved
  <2> QED BY <1>3, <2>1, <2>2, <2>4, <2>5, KeptStep
<1>7. CASE ~(v = NoLine \/ t = "I")
  <2>1. ToParent(p, c, v, type, t, "insert") /\ v \in Lines
    BY <1>1, <1>7 DEF EvictSelf
  <2>2. \E r : stack' = [stack EXCEPT ![p] = r]
    BY <2>1 DEF ToParent, GoTo, Becomes, Call
  <2>3. \A x \in Caches, m \in Lines :
            st'[x][m] = IF x = c /\ m = v THEN IF Parent[c][v] = Memory THEN Granted(p, type) ELSE t ELSE st[x][m]
    BY <1>1, <2>1, ToParentState
  <2>4. dirty' = IF Parent[c][v] = Memory /\ type = "PUTX" THEN [dirty EXCEPT ![v] = FALSE] ELSE dirty
    BY <2>1 DEF ToParent
  <2>5. \A l \in Lines : dirty'[l] => dirty[l] /\ ~(l = v /\ Parent[c][v] = Memory /\ type = "PUTX")
    BY <2>1, <2>4 DEF LockInv, CohTypeOK
  <2> HIDE DEF t
  <2>6. ASSUME t = "M", dirty'[v] PROVE st'[c][v] = "M"
    BY <1>1, <2>1, <2>3, <2>5, <2>6
  <2>7. ASSUME NEW l \in Lines, NEW x \in Caches, dirty'[l], st[x][l] = "M" PROVE Saved(st', stack', wb', l)
    <3>1. CASE x = c /\ l = v
      <4>1. t = "M"
        BY <2>7, <3>1 DEF t
      <4> QED BY <1>1, <2>6, <2>7, <3>1, <4>1 DEF Saved
    <3>2. CASE ~(x = c /\ l = v)
      BY <2>3, <2>7, <3>2 DEF Saved
    <3> QED BY <3>1, <3>2
  <2>8. ASSUME NEW l \in Lines, dirty'[l], Carries(stack[p], wb[p], l) PROVE Saved(st', stack', wb', l)
    <3>1. l = v /\ t = "M"
      BY <1>5, <2>8 DEF t
    <3> QED BY <1>1, <2>6, <2>8, <3>1 DEF Saved
  <2> QED BY <1>3, <2>2, <2>5, <2>7, <2>8, KeptStep
<1> QED BY <1>6, <1>7

\* The request of a miss or of an upgrade keeps dirty lines.
LEMMA KeptFetch ==
    ASSUME LockInv, MesiInv, KeptInv, NEW p \in Cores, Fetch(p)
    PROVE  KeptInv'
<1> DEFINE f == stack[p][1]
           c == f.c
           t == st[c][f.l]
           miss == (f.type = "GETS" /\ t = "I") \/ (f.type = "GETX" /\ t \in {"I", "S"})
<1>1. /\ f = Frame(p) /\ f \in Frames /\ FrameOK(f) /\ f.pc = "fetch" /\ stack[p] # <<>> /\ c \in Caches /\ f.l \in Lines
      /\ CallsInv
  BY TopFrame DEF Fetch, At, Frames, MesiInv
<1>2. ~Inv(f) /\ wb' = wb
  BY <1>1 DEF FrameOK, Fetch
<1>3. \A l \in Lines : ~Carries(stack[p], wb[p], l)
  BY <1>1, <1>2, WrittenBack DEF Carries
<1>4. \E r : stack' = [stack EXCEPT ![p] = r]
  BY DEF Fetch, ToParent, GoTo, Becomes, Call
<1>5. CASE miss
  <2>1. ToParent(p, c, f.l, f.type, t, "fetched")
    BY <1>1, <1>5 DEF Fetch
  <2>2. \A x \in Caches, m \in Lines :
            st'[x][m] = IF x = c /\ m = f.l THEN IF Parent[c][f.l] = Memory THEN Granted(p, f.type) ELSE t ELSE st[x][m]
    BY <1>1, <2>1, ToParentState
  <2>3. dirty' = dirty
    BY <1>5, <2>1 DEF ToParent
  <2>4. \A x \in Caches, m \in Lines : st[x][m] = "M" => st'[x][m] = "M"
    BY <1>5, <2>2
  <2>5. \A l \in Lines, x \in Caches : st[x][l] = "M" => Saved(st', stack', wb', l)
    BY <2>4 DEF Saved
  <2> QED BY <1>2, <1>3, <1>4, <2>3, <2>5, KeptStep
<1>6. CASE ~miss
  <2>1. /\ st' = IF f.type \in {"PUTX", "GETX"} THEN [st EXCEPT ![c][f.l] = "M"] ELSE st
        /\ dirty' = IF f.type = "GETX" THEN Stored(c, f.l) ELSE dirty
    BY <1>1, <1>6 DEF Fetch
  <2>2. \A x \in Caches, m \in Lines :
            st'[x][m] = IF f.type \in {"PUTX", "GETX"} /\ x = c /\ m = f.l THEN "M" ELSE st[x][m]
    BY <1>1, <2>1 DEF LockInv, CohTypeOK
  <2>3. \A l \in Lines : dirty'[l] => dirty[l] \/ (f.type = "GETX" /\ l = f.l)
    BY <1>1, <2>1 DEF Stored, LockInv, CohTypeOK
  <2>4. \A l \in Lines : dirty'[l] => dirty[l] \/ \E x \in Caches : st'[x][l] = "M"
    BY <1>1, <2>2, <2>3
  <2>5. \A l \in Lines, x \in Caches : st[x][l] = "M" => Saved(st', stack', wb', l)
    BY <2>2 DEF Saved
  <2> QED BY <1>2, <1>3, <1>4, <2>4, <2>5, KeptStep
<1> QED BY <1>5, <1>6

\* A parent that is sent a dirty line has it in M, or memory has it.
LEMMA KeptPut ==
    ASSUME LockInv, MesiInv, KeptInv, NEW p \in Cores, Put(p)
    PROVE  KeptInv'
<1> DEFINE f == stack[p][1]
           c == f.c
           d == f.child
           l == f.l
<1>0. At(p, "dir") /\ IsPut(Frame(p).type)
  BY DEF Put
<1>1. /\ f = Frame(p) /\ f \in Frames /\ stack[p] # <<>> /\ ~Inv(f) /\ f.pc = "dir"
      /\ c \in Caches /\ l \in Lines /\ d \in Caches /\ d # c /\ Wants(f.type, st[d][l]) /\ IsPut(f.type)
      /\ Accesses(p, f, st, present)
  BY <1>0, AtDir
<1>2. UNCHANGED <<wb, dirty>> /\ \E r : stack' = [stack EXCEPT ![p] = r]
  BY DEF Put, GoTo, Becomes
<1>3. \A x \in Caches, m \in Lines : st'[x][m] = IF x = d /\ m = l THEN "I" ELSE st[x][m]
  <2>1. st' = [st EXCEPT ![d][l] = "I"]
    BY <1>1 DEF Put
  <2> QED BY <1>1, <2>1 DEF LockInv, CohTypeOK
<1>4. \A m \in Lines : ~Carries(stack[p], wb[p], m)
  BY <1>1, WrittenBack DEF Carries, MesiInv
<1>5. st[d][l] = "M" => st'[c][l] = "M"
  <2>1. st[d][l] = "M" => f.type = "PUTX"
    BY <1>1 DEF Wants, IsPut
  <2>2. f.type = "PUTX" => st[c][l] = "M"
    BY <1>1 DEF Accesses
  <2> QED BY <1>1, <1>3, <2>1, <2>2
<1>6. \A m \in Lines, x \in Caches : st[x][m] = "M" => Saved(st', stack', wb', m)
  BY <1>1, <1>3, <1>5 DEF Saved
<1> QED BY <1>2, <1>4, <1>6, KeptStep

\* Granting a line with the data that was written back keeps dirty lines.
LEMMA KeptGrant ==
    ASSUME LockInv, MesiInv, KeptInv, NEW p \in Cores, At(p, "dir"), NEW f, f = stack[p][1], f.type \in {"GETS", "GETX"},
           NEW t, Grants(p, f, t), UNCHANGED dirty
    PROVE  KeptInv'
<1> DEFINE c == f.c
           d == f.child
           l == f.l
<1>1. /\ stack[p] # <<>> /\ ~Inv(f) /\ f.pc = "dir" /\ c \in Caches /\ l \in Lines /\ d \in Caches /\ d # c
      /\ Wants(f.type, st[d][l])
  BY AtDir
<1>2. /\ \A x \in Caches, m \in Lines : st'[x][m] = IF x = d /\ m = l THEN t
                                                  ELSE IF x = c /\ m = l /\ wb[p] THEN "M" ELSE st[x][m]
      /\ \A q \in Cores : q # p => wb'[q] = wb[q]
      /\ stack' = [stack EXCEPT ![p] = <<[f EXCEPT !.pc = "end"]>> \o Tail(stack[p])]
  BY DEF Grants
<1>3. st[d][l] # "M"
  BY <1>1 DEF Wants
<1>4. \A m \in Lines, x \in Caches : st[x][m] = "M" => Saved(st', stack', wb', m)
  <2>1. \A m \in Lines, x \in Caches : st[x][m] = "M" => st'[x][m] = "M"
    BY <1>2, <1>3
  <2> QED BY <2>1 DEF Saved
<1>5. ASSUME NEW m \in Lines, Carries(stack[p], wb[p], m) PROVE Saved(st', stack', wb', m)
  <2>1. wb[p] /\ m = l
    BY <1>1, <1>5, CarriedTop DEF WorkLine
  <2>2. st'[c][m] = "M"
    BY <1>1, <1>2, <2>1
  <2> QED BY <1>1, <2>2 DEF Saved
<1>6. \E r : stack' = [stack EXCEPT ![p] = r]
  BY <1>2
<1> QED BY <1>2, <1>4, <1>5, <1>6, KeptStep

\* The answer to a load, which takes in what the invalidated owner wrote back, keeps dirty lines.
LEMMA KeptGetS ==
    ASSUME LockInv, MesiInv, KeptInv, NEW p \in Cores, GetS(p)
    PROVE  KeptInv'
<1> DEFINE f == stack[p][1]
           others == sharers[f.c][f.l]
           alone == others = {} /\ Exclusive(st[f.c][f.l]) /\ ~NoExcl(p)
           t == IF alone THEN "E" ELSE "S"
<1>1. At(p, "dir") /\ Frame(p).type = "GETS" /\ UNCHANGED dirty
  BY DEF GetS
<1>2. f = Frame(p) /\ stack[p] # <<>> /\ f.pc = "dir" /\ f.c \in Caches /\ f.l \in Lines /\ others \in SUBSET Caches
  BY <1>1, AtDir DEF LockInv, CohTypeOK
<1>3. CASE ~alone /\ IsExclusive(f.c, f.l)
  <2>1. Call(p, "dir", InvFrame(Min(others), f.l, "INVX")) /\ UNCHANGED <<st, wb>>
    BY <1>2, <1>3 DEF GetS, Invalidate
  <2>2. others # {}
    BY <1>3, FS_EmptySet DEF IsExclusive
  <2>3. Min(others) \in Caches
    BY <1>2, <2>2, CachesAssumption, MinIsIn
  <2> QED BY <1>1, <1>2, <2>1, <2>3, KeptInvalidate
<1>4. CASE ~(~alone /\ IsExclusive(f.c, f.l))
  <2>1. Grant(p, t) /\ f = stack[p][1] /\ f.type = "GETS"
    BY <1>1, <1>2, <1>4 DEF GetS
  <2> HIDE DEF f, t
  <2>2. Grants(p, f, t)
    BY <1>1, <2>1, GrantState
  <2> QED BY <1>1, <2>1, <2>2, KeptGrant
<1> QED BY <1>3, <1>4

\* The answer to a store keeps dirty lines.
LEMMA KeptGetX ==
    ASSUME LockInv, MesiInv, KeptInv, NEW p \in Cores, GetX(p)
    PROVE  KeptInv'
<1> DEFINE f == stack[p][1]
           others == sharers[f.c][f.l] \ {f.child}
<1>1. At(p, "dir") /\ Frame(p).type = "GETX" /\ UNCHANGED dirty
  BY DEF GetX
<1>2. f = Frame(p) /\ stack[p] # <<>> /\ f.pc = "dir" /\ f.c \in Caches /\ f.l \in Lines /\ others \in SUBSET Caches
  BY <1>1, AtDir DEF LockInv, CohTypeOK
<1>3. CASE others # {}
  <2>1. Call(p, "dir", InvFrame(Min(others), f.l, "INV")) /\ UNCHANGED <<st, wb>>
    BY <1>2, <1>3 DEF GetX
  <2>2. Min(others) \in Caches
    BY <1>2, <1>3, CachesAssumption, MinIsIn
  <2> QED BY <1>1, <1>2, <2>1, <2>2, KeptInvalidate
<1>4. CASE others = {}
  <2>1. Grant(p, "M") /\ f = stack[p][1] /\ f.type = "GETX"
    BY <1>1, <1>2, <1>4 DEF GetX
  <2> HIDE DEF f
  <2>2. Grants(p, f, "M")
    BY <1>1, <2>1, GrantState
  <2> QED BY <1>1, <2>1, <2>2, KeptGrant
<1> QED BY <1>3, <1>4

\* An invalidated line in M is written back into the access the invalidation was sent for.
LEMMA KeptInvSelf ==
    ASSUME LockInv, MesiInv, KeptInv, NEW p \in Cores, InvSelf(p)
    PROVE  KeptInv'
<1> DEFINE f == stack[p][1]
           s == stack[p]
           c == f.c
           l == f.l
<1>1. /\ f = Frame(p) /\ f \in Frames /\ FrameOK(f) /\ f.pc = "down" /\ s # <<>> /\ c \in Caches /\ l \in Lines
      /\ s \in Seq(Frames)
  BY TopFrame, StackIs DEF InvSelf, At, Frames
<1>2. Inv(f)
  BY <1>1 DEF FrameOK, AccLabels
<1>3. /\ wb' = [wb EXCEPT ![p] = @ \/ st[c][l] = "M"] /\ dirty' = dirty
      /\ st' = [st EXCEPT ![c][l] = IF f.type = "INVX" THEN "S" ELSE "I"]
      /\ stack' = [stack EXCEPT ![p] = Tail(s)]
  BY <1>1 DEF InvSelf, Return
<1>4. /\ wb'[p] = (wb[p] \/ st[c][l] = "M") /\ \A q \in Cores : q # p => wb'[q] = wb[q]
      /\ \A x \in Caches, m \in Lines : x # c \/ m # l => st'[x][m] = st[x][m]
      /\ stack'[p] = Tail(s)
  BY <1>1, <1>3 DEF LockInv, CohTypeOK
<1>5. ASSUME NEW m \in Lines, NEW x \in Caches, st[x][m] = "M" PROVE Saved(st', stack', wb', m)
  <2>1. CASE x = c /\ m = l
    <3>1. WbInv(s, TRUE, LineOnly(l))
      BY <1>1, <1>2, <1>5, <2>1, ChainUp DEF Exclusive
    <3>2. WbInv(Tail(s), TRUE, LineOnly(l))
      BY <1>1, <1>2, <3>1, WbPopped
    <3>3. Carries(stack'[p], wb'[p], l)
      BY <1>4, <1>5, <2>1, <3>2 DEF Carries
    <3> QED BY <2>1, <3>3 DEF Saved
  <2>2. CASE ~(x = c /\ m = l)
    BY <1>4, <1>5, <2>2 DEF Saved
  <2> QED BY <2>1, <2>2
<1>6. ASSUME NEW m \in Lines, Carries(s, wb[p], m) PROVE Saved(st', stack', wb', m)
  <2>1. wb[p] /\ WbInv(s, TRUE, LineOnly(m))
    BY <1>6 DEF Carries
  <2>2. WbInv(Tail(s), TRUE, LineOnly(m))
    BY <1>1, <1>2, <2>1, WbPopped
  <2>3. Carries(stack'[p], wb'[p], m)
    BY <1>4, <2>1, <2>2 DEF Carries
  <2> QED BY <2>3 DEF Saved
<1> HIDE DEF s
<1>7. \E r : stack' = [stack EXCEPT ![p] = r]
  BY <1>3
<1> QED BY <1>3, <1>4, <1>5, <1>6, <1>7, KeptStep DEF s

\* Every step keeps dirty lines.
LEMMA KeptNext ==
    ASSUME LockInv, MesiInv, KeptInv, [Next]_vars
    PROVE  KeptInv'
<1>1. ASSUME NEW p \in Cores, Start(p) \/ Step(p) PROVE KeptInv'
  BY <1>1, KeptIdleSteps, KeptInvLock, KeptInvChildren, KeptEvictChildren, KeptEvictSelf, KeptFetch,
     KeptPut, KeptGetS, KeptGetX, KeptInvSelf DEF Step
<1>2. CASE UNCHANGED vars
  BY <1>2 DEF vars, KeptInv, Saved
<1> QED BY <1>1, <1>2 DEF Next

\* A line written by a store is in M in some cache, or on its way to memory, until memory has it.
THEOREM NeverLost == Spec => []NoLostWriteback
<1>1. Init => LockInv /\ MesiInv /\ KeptInv
  <2>1. Init => KeptInv
    BY DEF Init, KeptInv
  <2> QED BY <2>1, LockInit, MesiInit
<1>2. LockInv /\ MesiInv /\ KeptInv /\ [Next]_vars => LockInv' /\ MesiInv' /\ KeptInv'
  BY LockNext, MesiNext, KeptNext
<1>3. LockInv /\ MesiInv /\ KeptInv => NoLostWriteback
  BY CarriedLine DEF KeptInv, Saved, NoLostWriteback
<1> QED BY <1>1, <1>2, <1>3, PTL DEF Spec

============================================================================
