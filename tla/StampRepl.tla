----------------------------- MODULE StampRepl -----------------------------
(***************************************************************************)
(* The replacement policies of repl_policies.h over one set of a set       *)
(* associative array (cache_arrays.cpp): LRU, with and without sharers,    *)
(* NRU and LFU.  TreeLRU inherits rank() of LRU and never uses its tree.   *)
(***************************************************************************)
EXTENDS Integers, FiniteSets, FiniteSetsExt

CONSTANTS
    Addrs, NoLine,
    Lines,      \* 0 .. numLines - 1
    ScoreBits,  \* width of the score in LRU's rank(): 32
    MaxOps      \* bound: operations

VARIABLES
    policy, tag, valid, shared,     \* numSharers is 0 or 1
    timestamp, array, acc, youngLines,
    ops,
    used, shifts                    \* history: when each line was used since its insertion,
                                    \* and when NRU shifted

vars == <<policy, tag, valid, shared, timestamp, array, acc, youngLines, ops, used, shifts>>
history == <<used, shifts>>

Init ==
    /\ policy \in {"LRU", "LRUNoSh", "NRU", "LFU"}
    /\ tag = [l \in Lines |-> NoLine] /\ valid = [l \in Lines |-> FALSE] /\ shared = [l \in Lines |-> 0]
    /\ timestamp = 1 /\ array = [l \in Lines |-> 0] /\ acc = [l \in Lines |-> 0] /\ youngLines = 0
    /\ ops = 0
    /\ used = [l \in Lines |-> {}] /\ shifts = {0}

IsLRU == policy \in {"LRU", "LRUNoSh"}

updateNRU(arr, id) ==
    LET young == youngLines + 1 - arr[id] \div 2
        set == [arr EXCEPT ![id] = IF @ >= 2 THEN @ ELSE @ + 2]
        shift == young >= Cardinality(Lines) \div 2
    IN  /\ array' = IF shift THEN [l \in Lines |-> set[l] \div 2] ELSE set
        /\ youngLines' = IF shift THEN 0 ELSE young
        /\ shifts' = IF shift THEN shifts \cup {ops + 1} ELSE shifts

\* update() of a line whose entries are arr and a, after replaced() if it was one.
update(arr, a, id) ==
    CASE IsLRU -> /\ array' = [arr EXCEPT ![id] = timestamp] /\ timestamp' = timestamp + 1
                  /\ acc' = a /\ UNCHANGED <<youngLines, shifts>>
      [] policy = "NRU" -> updateNRU(arr, id) /\ acc' = a /\ UNCHANGED timestamp
      [] policy = "LFU" -> /\ array' = [arr EXCEPT ![id] = (a[id] * @ + timestamp) \div (a[id] + 1)]
                           /\ acc' = [a EXCEPT ![id] = @ + 1] /\ timestamp' = timestamp + 1000
                           /\ UNCHANGED <<youngLines, shifts>>

Lookup(addr) == {l \in Lines : tag[l] = addr}

Hit(addr) ==
    \E id \in Lookup(addr) :
        /\ update(array, acc, id)
        /\ valid' = [valid EXCEPT ![id] = TRUE]
        /\ used' = [used EXCEPT ![id] = @ \cup {ops + 1}]
        /\ UNCHANGED <<tag, shared>>

-----------------------------------------------------------------------------
\* Mutant: the age of an invalid line counts.
scoreStale(l) == (IF policy = "LRU" THEN shared[l] * timestamp ELSE 0) + array[l]

wholeScore(l) == (IF policy = "LRU" THEN shared[l] * timestamp ELSE 0) + (IF valid[l] THEN array[l] ELSE 0)

\* rank() keeps it in a uint32_t.
score(l) == wholeScore(l) % 2 ^ ScoreBits

invFreq(l) == (timestamp - array[l]) \div acc[l]

\* LFUReplPolicy::Rank
lessThan(l, m) ==
    \/ ~valid[l] /\ valid[m]
    \/ /\ valid[l] = valid[m]
       /\ \/ shared[l] = 0 /\ shared[m] > 0
          \/ /\ shared[l] = shared[m]
             /\ acc[l] = 0 \/ (acc[m] # 0 /\ invFreq(l) > invFreq(m))

Better(l, m) == IF policy = "LFU" THEN lessThan(l, m) ELSE score(l) < score(m)

\* The scan of the candidates: a candidate replaces the best of those before it.
Best[n \in Lines] == IF n = 0 THEN 0 ELSE IF Better(n, Best[n - 1]) THEN n ELSE Best[n - 1]

NRUCands == {l \in Lines : \A m \in Lines : array[l] <= array[m]}
Nth(S, n) == CHOOSE x \in S : Cardinality({y \in S : y < x}) = n

rank == IF policy = "NRU" THEN Nth(NRUCands, youngLines % Cardinality(NRUCands))
                          ELSE Best[Cardinality(Lines) - 1]

\* preinsert, the eviction and postinsert.  The new line has no sharers yet.
Miss(addr) ==
    /\ Lookup(addr) = {}
    /\ LET id == rank
           a == IF policy = "LFU" THEN [acc EXCEPT ![id] = 0] ELSE acc
           arr == IF policy = "LFU" THEN array ELSE [array EXCEPT ![id] = 0]
       IN  /\ update(arr, a, id)
           /\ tag' = [tag EXCEPT ![id] = addr]
           /\ valid' = [valid EXCEPT ![id] = TRUE] /\ shared' = [shared EXCEPT ![id] = 0]
           /\ used' = [used EXCEPT ![id] = {ops + 1}]

\* What the coherence controller does to a line: a child fetches it, or gives it up; it is invalidated.
Fetched(l) == valid[l] /\ shared' = [shared EXCEPT ![l] = 1 - @] /\ UNCHANGED valid
Invalidated(l) == valid[l] /\ valid' = [valid EXCEPT ![l] = FALSE] /\ shared' = [shared EXCEPT ![l] = 0]

\* Addresses that miss differ in nothing but their names: one of them stands for all.
Absent == CHOOSE addr \in Addrs : Lookup(addr) = {}

Next ==
    /\ ops < MaxOps /\ ops' = ops + 1
    /\ UNCHANGED policy
    /\ \/ Miss(Absent) \/ \E addr \in Addrs : Hit(addr)
       \/ /\ \E l \in Lines : Fetched(l) \/ Invalidated(l)
          /\ UNCHANGED <<tag, timestamp, array, acc, youngLines, history>>

Spec == Init /\ [][Next]_vars

-----------------------------------------------------------------------------
LastUse(l) == IF used[l] = {} THEN 0 ELSE Max(used[l])
\* NRU: was the line used since the last shift, and between the last two?
Epochs(l) ==
    LET s == Max(shifts)
        r == IF shifts = {s} THEN s ELSE Max(shifts \ {s})
    IN  (IF \E u \in used[l] : u > s THEN 2 ELSE 0) + (IF \E u \in used[l] : r < u /\ u <= s THEN 1 ELSE 0)

\* Is l a better victim than m, by what happened to them?
Colder(l, m) ==
    CASE IsLRU -> \/ shared[l] < shared[m] /\ policy = "LRU"
                  \/ /\ shared[l] = shared[m] \/ policy = "LRUNoSh"
                     /\ \/ ~valid[l] /\ valid[m]
                        \/ valid[l] = valid[m] /\ valid[l] /\ LastUse(l) < LastUse(m)
      [] policy = "NRU" -> Epochs(l) < Epochs(m)
      [] OTHER -> \/ ~valid[l] /\ valid[m]
                  \/ /\ valid[l] = valid[m]
                     /\ shared[l] < shared[m]
                  \/ /\ valid[l] = valid[m] /\ shared[l] = shared[m]
                     /\ acc[l] > 0 /\ acc[m] > 0
                     /\ \A u \in used[l] : \A w \in used[m] : u + 1 < w
                     /\ Cardinality(used[l]) < Cardinality(used[m])

\* LRU: no more of one score is lost in `s' than of the other.
CutAlike(l, m) == IsLRU => wholeScore(l) \div 2 ^ ScoreBits = wholeScore(m) \div 2 ^ ScoreBits

\* No candidate should have gone before the victim: for LRU by "(1) valid (if not valid, it's 0),
\* (2) sharers, and (3) timestamp", for NRU what was used in an earlier interval, for LFU a line
\* used less, and before every use of the victim.  For LRU this is so among the lines whose
\* scores are cut alike: once sharers times accesses exceed 32 bits (repl_policies.h:125) a line
\* with sharers that was used last goes before an unused one, against the comment on score().
VictimIsColdest ==
    [][\A l \in Lines : tag'[l] # tag[l] => \A m \in Lines : CutAlike(l, m) => ~Colder(m, l)]_vars
=============================================================================
