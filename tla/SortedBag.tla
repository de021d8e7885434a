----------------------------- MODULE SortedBag -----------------------------
(***************************************************************************)
(* What a priority queue of timing events promises: elements leave in the *)
(* order of their cycles, and the earliest cycle is known at any time.     *)
(***************************************************************************)
EXTENDS Naturals

CONSTANTS Elems, None, Cycles

VARIABLES
    queued,     \* the cycle each queued element was enqueued for
    first,      \* the earliest of them, None when the queue is empty
    out         \* the last element dequeued and the cycle returned with it

vars == <<queued, first, out>>

Earliest(q) == IF DOMAIN q = {} THEN None
               ELSE CHOOSE c \in {q[e] : e \in DOMAIN q} : \A e \in DOMAIN q : c <= q[e]

Init == queued = [e \in {} |-> 0] /\ first = None /\ out = <<None, 0>>

Enqueue(e, cycle) ==
    /\ e \notin DOMAIN queued /\ cycle >= out[2]
    /\ queued' = [x \in DOMAIN queued \cup {e} |-> IF x = e THEN cycle ELSE queued[x]]
    /\ first' = Earliest(queued')
    /\ UNCHANGED out

Dequeue(e) ==
    /\ e \in DOMAIN queued /\ queued[e] = first
    /\ queued' = [x \in DOMAIN queued \ {e} |-> queued[x]]
    /\ first' = Earliest(queued')
    /\ out' = <<e, queued[e]>>

Next == \E e \in Elems : Dequeue(e) \/ \E cycle \in Cycles : Enqueue(e, cycle)

Spec == Init /\ [][Next]_vars
=============================================================================
