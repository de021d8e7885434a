----------------------------- MODULE PrioQueue -----------------------------
(***************************************************************************)
(* The event queue of a simulation domain (prio_queue.h): B blocks of      *)
(* Width cycles from curBlock on, a circular array, hold the near          *)
(* elements; the map feMap the far ones, which move to the blocks whenever *)
(* curBlock passes a multiple of B/2.                                      *)
(***************************************************************************)
EXTENDS Naturals, Sequences, SequencesExt, FiniteSetsExt

CONSTANTS
    Elems, None,
    B,          \* number of blocks, even (1024 in the code)
    Width,      \* cycles per block (64: one bit of occ each)
    Delays,     \* how far ahead of the last event new ones are enqueued
    MaxCycle    \* bound on the cycles

VARIABLES
    blocks,     \* blocks[i][o]: the elements of block i at offset o, last in first out
    feMap,      \* elements and cycles, by cycle and, within one, by age
    curBlock,
    out         \* the element dequeued last and its cycle

vars == <<blocks, feMap, curBlock, out>>

Slots == {<<i, o>> : i \in 0 .. B - 1, o \in 0 .. Width - 1}
Occupied(bs, i) == {o \in 0 .. Width - 1 : bs[i, o] # <<>>}
Put(bs, e, cycle) == [bs EXCEPT ![(cycle \div Width) % B, cycle % Width] = <<e>> \o @]

Init ==
    /\ blocks = [x \in Slots |-> <<>>] /\ feMap = <<>> /\ curBlock = 0
    /\ out = <<None, 0>>

Near == UNION {Range(blocks[x]) : x \in Slots}
Far == {feMap[i][1] : i \in DOMAIN feMap}

enqueue(e, cycle) ==
    /\ e \notin Near \cup Far
    /\ IF cycle \div Width < curBlock + B
       THEN blocks' = Put(blocks, e, cycle) /\ UNCHANGED feMap
       ELSE /\ feMap' = LET n == Cardinality({i \in DOMAIN feMap : feMap[i][2] <= cycle})
                        IN InsertAt(feMap, n + 1, <<e, cycle>>)
            /\ UNCHANGED blocks
    /\ UNCHANGED <<curBlock, out>>

\* Mutant: far elements come back only when curBlock has wrapped around.
RefillLate(q, b) ==
    IF b % B = 0
    THEN [blocks |-> FoldLeft(LAMBDA bs, x : IF x[2] < (b + B) * Width THEN Put(bs, x[1], x[2]) ELSE bs, q.blocks, q.feMap),
          feMap |-> SelectSeq(q.feMap, LAMBDA x : x[2] >= (b + B) * Width)]
    ELSE q

\* The loop of dequeue() to the first populated block: the far elements that come back when
\* it passes block b.
Refill(q, b) ==
    IF b % (B \div 2) = 0
    THEN [blocks |-> FoldLeft(LAMBDA bs, x : IF x[2] < (b + B) * Width THEN Put(bs, x[1], x[2]) ELSE bs, q.blocks, q.feMap),
          feMap |-> SelectSeq(q.feMap, LAMBDA x : x[2] >= (b + B) * Width)]
    ELSE q

dequeue ==
    /\ Near \cup Far # {}
    /\ LET last == MaxCycle \div Width
           at[b \in curBlock .. last] ==
               IF b = curBlock THEN [blocks |-> blocks, feMap |-> feMap] ELSE Refill(at[b - 1], b)
           b == Min({x \in curBlock .. last : Occupied(at[x].blocks, x % B) # {}})
           o == Min(Occupied(at[b].blocks, b % B))
           slot == at[b].blocks[b % B, o]
       IN /\ curBlock' = b
          /\ blocks' = [at[b].blocks EXCEPT ![b % B, o] = Tail(@)]
          /\ feMap' = at[b].feMap
          /\ out' = <<Head(slot), b * Width + o>>

firstCycle ==
    LET occ == {i \in 0 .. B - 1 : Occupied(blocks, (curBlock + i) % B) # {}}
        i == Min(occ)
        cycle == (curBlock + i) * Width + Min(Occupied(blocks, (curBlock + i) % B))
    IN CASE occ = {} -> feMap[1][2]
         [] occ # {} /\ (i < B \div 2 \/ feMap = <<>>) -> cycle
         [] OTHER -> Min({cycle, feMap[1][2]})

\* ContentionSim enqueues no event before its domain's clock, the cycle of the last one.
Next ==
    \/ \E e \in Elems, d \in Delays : out[2] + d <= MaxCycle /\ enqueue(e, out[2] + d)
    \/ dequeue

Spec == Init /\ [][Next]_vars

-----------------------------------------------------------------------------
\* The cycle a slot stands for, from curBlock on.
CycleOf(x) == (curBlock + ((x[1] + B - (curBlock % B)) % B)) * Width + x[2]

queued == [e \in Near \cup Far |->
              IF e \in Near THEN CycleOf(CHOOSE x \in Slots : e \in Range(blocks[x]))
              ELSE feMap[CHOOSE i \in DOMAIN feMap : feMap[i][1] = e][2]]

Bag == INSTANCE SortedBag WITH Cycles <- 0 .. MaxCycle, first <- IF Near \cup Far = {} THEN None ELSE firstCycle

\* The queue is a sorted bag: no element is lost, doubled or moved to another cycle by the
\* circular array, and dequeue() and firstCycle() always agree on the earliest one.
ImplementsSortedBag == Bag!Spec
=============================================================================
