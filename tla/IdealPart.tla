----------------------------- MODULE IdealPart -----------------------------
(***************************************************************************)
(* The fully associative partitioned cache (IdealLRUPartArray and          *)
(* IdealLRUPartReplPolicy of ideal_arrays.h): an LRU list of lines for     *)
(* each partition, a map from addresses to lines.  With one partition it   *)
(* is IdealLRUArray.                                                       *)
(***************************************************************************)
EXTENDS Integers, Sequences, SequencesExt, FiniteSetsExt

CONSTANTS
    Addrs, NoLine,
    numLines,
    partitions,
    Targets,        \* target sizes in lines
    MaxOps          \* bound: operations

Lines == 0 .. numLines - 1
Parts == 0 .. partitions - 1

VARIABLES
    lineMap,        \* address -> lines, one at most
    lineAddrs, part,
    lruList,        \* of each partition, from the most to the least recently used
    size, target,
    ops, uses       \* history: the addresses from the last used

vars == <<lineMap, lineAddrs, part, lruList, size, target, ops, uses>>

Init ==
    /\ lineMap = [a \in Addrs |-> {}] /\ lineAddrs = [l \in Lines |-> NoLine] /\ part = [l \in Lines |-> 0]
    /\ lruList = [p \in Parts |-> IF p = 0 THEN [i \in 1 .. numLines |-> numLines - i] ELSE <<>>]
    /\ size = [p \in Parts |-> IF p = 0 THEN numLines ELSE 0]
    /\ target = [p \in Parts |-> numLines \div partitions]
    /\ ops = 0 /\ uses = <<>>

\* Line l goes to the front of p's list.
MoveToFront(l, p) ==
    LET without == [lruList EXCEPT ![part[l]] = Remove(@, l)]
    IN  [without EXCEPT ![p] = <<l>> \o @]

Used(a) == uses' = <<a>> \o Remove(uses, a)

\* lookup and update(); the access may be another partition's.
Hit(a) ==
    /\ \E l \in lineMap[a] : lruList' = MoveToFront(l, part[l])
    /\ Used(a)
    /\ UNCHANGED <<lineMap, lineAddrs, part, size, target>>

\* How far p is over its target, as a fraction: is it more for p than for q?
Over(p) == size[p] - target[p]
MoreOver(p, q) == Over(p) * (target[q] + 1) > Over(q) * (target[p] + 1)

\* Nobody over the target: evict from one's own partition, or from the least short one.
VictimPart(q) ==
    LET able == {p \in Parts : size[p] > 0 /\ (Over(p) > 0 \/ size[q] = 0)}
    IN  IF able = {} THEN q
        ELSE Min({p \in able : \A r \in able : ~MoreOver(r, p)})

rank(q) == Last(lruList[VictimPart(q)])

\* preinsert, and postinsert with replaced() and update().
Miss(a, q) ==
    /\ lineMap[a] = {}
    /\ LET l == rank(q)
           old == lineAddrs[l]
       IN  /\ lineMap' = [b \in Addrs |-> IF b = a THEN {l} ELSE IF b = old THEN {} ELSE lineMap[b]]
           /\ lineAddrs' = [lineAddrs EXCEPT ![l] = a]
           /\ part' = [part EXCEPT ![l] = q]
           /\ lruList' = MoveToFront(l, q)
           /\ size' = [p \in Parts |-> size[p] - (IF p = part[l] THEN 1 ELSE 0) + (IF p = q THEN 1 ELSE 0)]
    /\ Used(a)
    /\ UNCHANGED target

setPartitionSizes(t) == target' = t /\ UNCHANGED <<lineMap, lineAddrs, part, lruList, size, uses>>

Next ==
    /\ ops < MaxOps /\ ops' = ops + 1
    /\ \/ \E a \in Addrs : Hit(a) \/ \E q \in Parts : Miss(a, q)
       \/ \E t \in Targets : setPartitionSizes(t)

Spec == Init /\ [][Next]_vars

-----------------------------------------------------------------------------
\* "assert(size == lruList.size())", and more: the lists hold each line once, in that of its
\* partition, in the order of their last uses, and the map finds what is there.
ListsExact ==
    /\ \A p \in Parts : /\ size[p] = Len(lruList[p])
                        /\ ToSet(lruList[p]) = {l \in Lines : part[l] = p}
                        /\ IsInjective(lruList[p])
    /\ \A a \in Addrs, l \in Lines : l \in lineMap[a] <=> lineAddrs[l] = a
    /\ \A p \in Parts : \A i, j \in 1 .. Len(lruList[p]) :
        i < j => LET x == lineAddrs[lruList[p][i]]
                     y == lineAddrs[lruList[p][j]]
                 IN  y # NoLine => x # NoLine /\ SelectInSeq(uses, LAMBDA u : u = x)
                                                 < SelectInSeq(uses, LAMBDA u : u = y)
=============================================================================
