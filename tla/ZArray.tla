------------------------------- MODULE ZArray -------------------------------
(***************************************************************************)
(* The zcache array (ZArray of cache_arrays.cpp): a line may sit in one    *)
(* position of each way; to make room, a breadth-first walk collects the   *)
(* lines that can move to let another one in, the policy chooses one to    *)
(* evict, and the lines on its path move one step.  Lookups that come      *)
(* between the choice and the moves find the array as it was.              *)
(***************************************************************************)
EXTENDS Integers, Sequences, FiniteSets, FiniteSetsExt, SequencesExt

CONSTANTS
    Addrs, NoLine,
    ways, numSets,
    cands,
    Hash            \* Hash[w][a]: the set of address a in way w

Ways == 0 .. ways - 1
Positions == 0 .. ways * numSets - 1

VARIABLES
    array,          \* line id -> address
    lookupArray,    \* position -> line id
    swapArray,      \* positions to move, between preinsert() and postinsert()
    incoming

vars == <<array, lookupArray, swapArray, incoming>>

Init ==
    /\ array = [i \in Positions |-> NoLine]
    /\ lookupArray = [p \in Positions |-> p]
    /\ swapArray = <<>> /\ incoming = NoLine

Pos(w, a) == w * numSets + Hash[w][a]

\* The ways in which address a is found, and the line.
lookup(a) == {lookupArray[Pos(w, a)] : w \in Ways} \cap {i \in Positions : array[i] = a}

-----------------------------------------------------------------------------
Walk(p, parent) == [pos |-> p, lineId |-> lookupArray[p], parentIdx |-> parent]

\* The candidates added by those at index n, but the line itself.
Children(cs, n) ==
    LET all == [w \in 1 .. ways |-> Walk(Pos(w - 1, array[cs[n].lineId]), n)]
    IN  SelectSeq(all, LAMBDA c : c.lineId # cs[n].lineId)

AllValid(cs) == \A k \in DOMAIN cs : array[cs[k].lineId] # NoLine

\* The walk after expanding n candidates, until there are enough or a free line is seen.
Fringe(a) ==
    LET f[n \in 0 .. cands] ==
            IF n = 0 THEN [w \in 1 .. ways |-> Walk(Pos(w - 1, a), 0)]
            ELSE LET cs == f[n - 1]
                 IN  IF Len(cs) < cands /\ AllValid(cs) THEN cs \o Children(cs, n) ELSE cs
    IN  f[cands]

Candidates(a) == SubSeq(Fringe(a), 1, Min({Len(Fringe(a)), cands}))

\* The walk may come to a line twice; the first path to it has no loop.
FirstIdx(cs, i) == Min({k \in DOMAIN cs : cs[k].lineId = i})

\* The positions from candidate k up to a seed.
PathUp(cs, k) ==
    LET up[n \in 0 .. cands] ==
            IF n = 0 THEN <<k>>
            ELSE LET p == up[n - 1] IN IF Last(p) = 0 THEN p ELSE Append(p, cs[Last(p)].parentIdx)
    IN  [j \in 1 .. Len(up[cands]) - 1 |-> cs[up[cands][j]].pos]

\* Mutant: the moves begin at the seed.
PathDown(cs, k) == Reverse(PathUp(cs, k))

Path(cs, k) == PathUp(cs, k)

\* rankCands() returns any of the candidates, whatever the policy; a line not valid first.
preinsert(a) ==
    /\ incoming = NoLine /\ lookup(a) = {}
    /\ LET cs == Candidates(a)
       IN  \E i \in {cs[k].lineId : k \in DOMAIN cs} :
            /\ array[i] = NoLine \/ AllValid(cs)
            /\ swapArray' = Path(cs, FirstIdx(cs, i))
    /\ incoming' = a
    /\ UNCHANGED <<array, lookupArray>>

postinsert ==
    /\ incoming # NoLine
    /\ LET n == Len(swapArray)
           id == lookupArray[swapArray[1]]
           \* One after the other, from the chosen line to the seed.
           moved[k \in 0 .. n - 1] ==
               IF k = 0 THEN lookupArray
                        ELSE [moved[k - 1] EXCEPT ![swapArray[k]] = moved[k - 1][swapArray[k + 1]]]
       IN  /\ lookupArray' = [moved[n - 1] EXCEPT ![swapArray[n]] = id]
           /\ array' = [array EXCEPT ![id] = incoming]
    /\ swapArray' = <<>> /\ incoming' = NoLine

Next == postinsert \/ \E a \in Addrs : preinsert(a)
Spec == Init /\ [][Next]_vars

-----------------------------------------------------------------------------
\* However the lines were moved: every position still holds another line, every line is found
\* by a lookup of its address, once, and swapArray is as long as its allocation at most.
EveryLineIsFound ==
    /\ \A p, q \in Positions : p # q => lookupArray[p] # lookupArray[q]
    /\ \A i \in Positions : array[i] # NoLine => lookup(array[i]) = {i}
    /\ Len(swapArray) <= cands \div ways + 2
=============================================================================
