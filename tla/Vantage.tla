------------------------------ MODULE Vantage ------------------------------
(***************************************************************************)
(* The Vantage policy (VantageReplPolicy of part_repl_policies.h) with     *)
(* coarse timestamps of a few bits, over any candidates of the cache:      *)
(* partitions above their targets demote old candidates to an unmanaged    *)
(* region, from which victims are taken; a setpoint for each partition,    *)
(* moved by feedback, says which candidates are old.                       *)
(***************************************************************************)
EXTENDS Integers, FiniteSets, Sequences, FiniteSetsExt, SequencesExt

CONSTANTS
    Addrs, NoLine,
    Lines,          \* 0 .. totalSize - 1
    Cands,          \* candidate lists of the array, sequences
    Targets,        \* allocations in lines, as setPartitionSizes computes them
    Managed,        \* targetManagedSize
    HitsPerTick,    \* hits of a coarse timestamp, size / 16 in the code
    Bts,            \* 256, the coarse timestamps told apart
    Interval,       \* 256, candidates between two adjustments of a setpoint
    MaxOps          \* bound: operations

Parts == DOMAIN (CHOOSE t \in Targets : TRUE)
P == Cardinality(Parts)     \* the unmanaged region
Regions == Parts \cup {P}

VARIABLES
    smoothTransients,
    line,           \* of each line: addr, ts, bts, p, op
    size, extendedSize, target, longTerm,
    curBts, curBtsHits, setpoint, cands, dems,
    timestamp, failed, ops

sizes == <<size, extendedSize, target, longTerm>>
clocks == <<curBts, curBtsHits, setpoint, cands, dems>>
vars == <<smoothTransients, line, sizes, clocks, timestamp, failed, ops>>

Zero == [r \in Regions |-> 0]
Init ==
    /\ smoothTransients \in BOOLEAN
    /\ line = [l \in Lines |-> [addr |-> NoLine, ts |-> 0, bts |-> 0, p |-> P, op |-> P]]
    /\ size = [Zero EXCEPT ![P] = Cardinality(Lines)] /\ extendedSize = size
    /\ target = [r \in Regions |-> IF r = P THEN 0 ELSE Managed \div P] /\ longTerm = target
    /\ curBts = Zero /\ curBtsHits = Zero /\ setpoint = Zero /\ cands = Zero /\ dems = Zero
    /\ timestamp = 1 /\ failed = FALSE /\ ops = 0

-----------------------------------------------------------------------------
\* takeOneLine, n times: any partition above its long-term target gives one.
Excess(t, p) == Max({t[p] - longTerm'[p], 0})
Taken(t, n) ==
    {u \in [Regions -> 0 .. Cardinality(Lines)] :
        /\ \A r \in Regions : t[r] - Excess(t, r) <= u[r] /\ u[r] <= t[r]
        /\ SumFunction(t) - SumFunction(u) = n}
CanTake(t, n) == SumFunction([r \in Regions |-> Excess(t, r)]) >= n

\* Out of partition p goes to target t, and n lines are taken from the others.
Retarget(t, n) ==
    IF CanTake(t, n) THEN target' \in Taken(t, n) /\ UNCHANGED failed
                     ELSE failed' = TRUE /\ UNCHANGED target

\* The coarse timestamp of region p, which has s lines, after an access.
Tick(p, s) ==
    LET over == curBtsHits[p] + 1 >= s \div HitsPerTick
        n == IF over THEN 1 ELSE 0
    IN  /\ curBts' = [curBts EXCEPT ![p] = @ + n]
        /\ curBtsHits' = [curBtsHits EXCEPT ![p] = IF over THEN 0 ELSE @ + 1]

Hit(a, q) ==
    \E l \in Lines :
        /\ line[l].addr = a
        /\ LET p == IF line[l].p = P THEN q ELSE line[l].p     \* promoted
               s == IF p = line[l].p THEN size ELSE [size EXCEPT ![p] = @ + 1, ![P] = @ - 1]
           IN  /\ line' = [line EXCEPT ![l] = [@ EXCEPT !.p = p, !.ts = timestamp, !.bts = curBts[p]]]
               /\ size' = s
               /\ Tick(p, s[p])
               /\ setpoint' = [setpoint EXCEPT ![p] = @ + curBts'[p] - curBts[p]]
        /\ timestamp' = timestamp + 1
        /\ UNCHANGED <<extendedSize, target, longTerm, cands, dems, failed>>

-----------------------------------------------------------------------------
\* Is candidate l of p at or behind the setpoint, in the few bits of the timestamps?
Old(l, p) == (curBts[p] - line[l].bts) % Bts >= (curBts[p] - setpoint[p]) % Bts

\* The feedback, with a maximum aperture of 1/2 reached at a tenth over the target: is the
\* aperture times n more, or less, than the d demoted?
OverMax(s, t) == 10 * s >= 11 * t
Aimed(s, t, n, d) == IF OverMax(s, t) THEN <<n, 2 * d>> ELSE <<10 * (s - t) * n, 2 * t * d>>

\* As unsigned numbers: a setpoint below 0 is after every timestamp.
Before(set, bts) == 0 <= set /\ set < bts

\* Candidate l in its turn, in state x: it may be demoted, and the setpoint adjusted.
Demote(x, l) ==
    LET p == line[l].p
        skip == line[l].ts = 0 \/ p = P \/ x.size[p] <= target[p]
        dem == IF Old(l, p) THEN 1 ELSE 0
        s == x.size[p] - dem
        n == x.cands[p] + 1
        d == x.dems[p] + dem
        aim == Aimed(s, target[p], n, d)
        move == IF n < Interval \/ (s <= target[p] /\ ~OverMax(s, target[p])) THEN 0
                ELSE IF aim[2] < aim[1] THEN (IF Before(x.set[p], curBts[p]) THEN 1 ELSE 0)
                ELSE IF aim[2] > aim[1] /\ curBts[p] - x.set[p] < Bts - 1 THEN -1 ELSE 0
    IN  IF skip THEN x
        ELSE [size |-> [x.size EXCEPT ![p] = s, ![P] = @ + dem],
              gone |-> IF dem = 1 THEN x.gone \cup {l} ELSE x.gone,
              cands |-> [x.cands EXCEPT ![p] = IF n >= Interval THEN 0 ELSE n],
              dems |-> [x.dems EXCEPT ![p] = IF n >= Interval THEN 0 ELSE d],
              set |-> [x.set EXCEPT ![p] = @ + move]]

Demoted(C) ==
    FoldLeft(Demote, [size |-> size, gone |-> {}, cands |-> cands, dems |-> dems, set |-> setpoint], C)

\* Mutant: a line just demoted leaves its old partition again.
LeftTwice(x, v) == line[v].p

\* The region the victim v leaves, after the demotions of x.
Left(x, v) == IF v \in x.gone THEN P ELSE line[v].p

\* The victim: an empty line, or the least recently used of the unmanaged ones, or of all.
Victim(C, gone) ==
    LET unmanaged == {l \in C : line[l].p = P \/ l \in gone}
        from == IF unmanaged = {} THEN C ELSE unmanaged
        empty == {l \in C : line[l].ts = 0}
    IN  IF empty # {} THEN Min(empty)
        ELSE CHOOSE l \in from : \A m \in from : line[l].ts <= line[m].ts

\* rank() over candidates C, replaced() and update() by an access of partition q.
Miss(a, q, C) ==
    /\ \A l \in Lines : line[l].addr # a
    /\ LET x == Demoted(C)
           v == Victim(Range(C), x.gone)
           from == Left(x, v)
           s == [r \in Regions |-> x.size[r] - (IF r = from THEN 1 ELSE 0) + (IF r = q THEN 1 ELSE 0)]
       IN  /\ line' = [l \in Lines |->
                   IF l = v THEN [addr |-> a, ts |-> timestamp, bts |-> curBts[q], p |-> q, op |-> q]
                   ELSE IF l \in x.gone THEN [line[l] EXCEPT !.p = P] ELSE line[l]]
           /\ size' = s
           /\ extendedSize' = [r \in Regions |-> extendedSize[r] - (IF r = line[v].op THEN 1 ELSE 0)
                                                                 + (IF r = q THEN 1 ELSE 0)]
           /\ cands' = x.cands /\ dems' = x.dems
           /\ UNCHANGED longTerm
           /\ IF target[q] < longTerm[q]
              THEN Retarget([target EXCEPT ![q] = @ + 1], 1)
              ELSE UNCHANGED <<target, failed>>
           /\ Tick(q, s[q])
           /\ setpoint' = [x.set EXCEPT ![q] = @ + curBts'[q] - curBts[q]]
    /\ timestamp' = timestamp + 1

\* With smooth transients the growing partitions get what they fill, and the others give it.
setPartitionSizes(s) ==
    LET all == [r \in Regions |-> IF r = P THEN longTerm[P] ELSE s[r]]
        grown(r) == Max({target[r], Min({s[r], size[r] + 1})})
        t == [r \in Regions |-> IF r # P /\ s[r] > target[r] THEN grown(r) ELSE target[r]]
    IN  /\ longTerm' = all
        /\ IF smoothTransients THEN Retarget(t, SumFunction(t) - SumFunction(target))
                               ELSE target' = all /\ UNCHANGED failed
        /\ UNCHANGED <<line, size, extendedSize, clocks, timestamp>>

\* Addresses that miss differ in nothing but their names: one of them stands for all.
Absent == CHOOSE a \in Addrs : \A l \in Lines : line[l].addr # a

Next ==
    /\ ~failed /\ ops < MaxOps /\ ops' = ops + 1 /\ UNCHANGED smoothTransients
    /\ \/ \E q \in Parts :
            (\E a \in Addrs : Hit(a, q)) \/ (\E C \in Cands : Miss(Absent, q, C))
       \/ \E s \in Targets : setPartitionSizes(s)

Spec == Init /\ [][Next]_vars

-----------------------------------------------------------------------------
\* Sizes are the numbers of lines, whatever was promoted, demoted and evicted, extended sizes
\* those of the partitions they were brought in for; and the setpoint of a partition is
\* never ahead of its timestamp nor a full turn of the few bits behind.
SizesMatch ==
    /\ \A r \in Regions : /\ size[r] = Cardinality({l \in Lines : line[l].p = r})
                          /\ extendedSize[r] = Cardinality({l \in Lines : line[l].op = r})
    /\ \A p \in Parts : curBts[p] - setpoint[p] \in 0 .. Bts - 1

\* "assert(linesLeft > 0)" (part_repl_policies.h:630): with smooth transients whoever grows finds a
\* partition to take a line from, whatever order they grow and shrink in, as long as the long-term
\* targets are not more than the managed lines they started from; it may fail only if they are,
\* as those of the lookahead algorithm are with several partitions.
AssertsHold ==
    failed => smoothTransients /\ SumFunctionOnSet(longTerm, Parts) > P * (Managed \div P)
=============================================================================
