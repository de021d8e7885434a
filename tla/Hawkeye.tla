------------------------------ MODULE Hawkeye ------------------------------
(***************************************************************************)
(* The Hawkeye policy (hawkeye_repl.h) over one set: OPTgen replays the    *)
(* accesses and tells which of them Belady's optimal policy would hit;     *)
(* its answers train a predictor by pc; the prediction ages and chooses    *)
(* victims.  Addresses are those OPTgen sees: get_set_index() and its      *)
(* callers shift the line address by the bits of the line size once more.  *)
(***************************************************************************)
EXTENDS Integers, Sequences, FiniteSets, FiniteSetsExt, Functions

CONSTANTS
    Addrs, NoLine,
    PCs,
    Sets,       \* the sets there may be: records of
                \*   ways: their lines
                \*   vectorTimes: the history is that many times as long as the set (8)
                \*   friendly: the counter from which a pc is predicted cache friendly (4)
                \*   trained: the counter's maximum (7)
    MaxFeeds    \* bound: accesses given to OPTgen

VARIABLES
    set,
    tag, array, array_pcs,      \* the lines: address, RRIP value, last pc
    predictor,
    count, hist, occ,           \* OPTgen: access_count, history, occupancy_vector
    stuck,                      \* a loop of cache_access() does not end
    trace, hits,                \* history: the accesses given to OPTgen, and its hits
    program, answers            \* history: the accesses of the program, and which were answered to
                                \* be hits when they were given first

vars == <<set, tag, array, array_pcs, predictor, count, hist, occ, stuck, trace, hits, program, answers>>
optgen == <<count, hist, occ, stuck, trace, hits>>

Lines == 0 .. set.ways - 1
Averse == 7
VectorSize == set.ways * set.vectorTimes

Init ==
    /\ set \in Sets
    /\ tag = [l \in Lines |-> NoLine] /\ array = [l \in Lines |-> Averse]
    /\ array_pcs = [l \in Lines |-> CHOOSE p \in PCs : TRUE]
    /\ predictor = [p \in PCs |-> 0]
    /\ count = 0 /\ hist = [i \in 0 .. VectorSize - 1 |-> NoLine] /\ occ = [i \in 0 .. VectorSize - 1 |-> 0]
    /\ stuck = FALSE /\ trace = <<>> /\ hits = 0 /\ program = <<>> /\ answers = {}

\* Does the length of the buffer divide 2^32?
WrapsRight == (65536 % VectorSize) * (65536 % VectorSize) % VectorSize = 0

\* wrap_index: unsigned vector_size makes 2^32 - 1 of -1.
wrap_index(i) ==
    IF i >= 0 THEN i % VectorSize
              ELSE ((65536 % VectorSize) * (65536 % VectorSize) + VectorSize + i) % VectorSize

\* The positions visited backwards from position i, as long as none repeats.
Back[n \in 0 .. VectorSize, i \in 0 .. VectorSize - 1] ==
    IF n = 0 THEN i ELSE wrap_index(Back[n - 1, i] - 1)

\* Mutant: one more line fits.
HasRoomMore(n) == n <= set.ways
HasRoom(n) == n < set.ways

\* cache_access on the state o, with fields n, h, c, the last result and whether a loop never ended.
\* The usage interval is the positions from i up to, not including, the present one.
CacheAccess(o, a) ==
    LET now == wrap_index(o.n + 1)
        h == [o.h EXCEPT ![now] = a]
        c == [o.c EXCEPT ![now] = 0]
        ends == {k \in 1 .. VectorSize : Back[k, now] = now \/ h[Back[k, now]] = a}
        i == Back[Min(ends), now]
        interval == IF i <= now THEN i .. now - 1 ELSE (i .. VectorSize - 1) \cup (0 .. now - 1)
        hit == i # now /\ \A j \in interval : HasRoom(c[j])
    IN  IF ends = {} THEN [o EXCEPT !.stuck = TRUE, !.hit = FALSE]
        ELSE [n |-> o.n + 1, h |-> h, stuck |-> FALSE, hit |-> hit,
              c |-> IF hit THEN [j \in DOMAIN c |-> IF j \in interval THEN c[j] + 1 ELSE c[j]] ELSE c]

Old == [n |-> count, h |-> hist, c |-> occ, stuck |-> stuck, hit |-> FALSE]

train_instruction(pred, pc, taken) ==
    [pred EXCEPT ![pc] = IF taken THEN (IF @ < set.trained THEN @ + 1 ELSE @) ELSE (IF @ > 0 THEN @ - 1 ELSE @)]
predict_instruction(pred, pc) == pred[pc] >= set.friendly

Fed(o) == count' = o.n /\ hist' = o.h /\ occ' = o.c /\ stuck' = o.stuck
Hits(o) == IF o.hit THEN 1 ELSE 0
\* OPTgen's first answer to an access of the program.
Answered(a, o) ==
    /\ program' = Append(program, a)
    /\ answers' = IF o.hit THEN answers \cup {Len(program')} ELSE answers

\* update() of line id, on the state left by `arr', `pcs' and `pred'.
update(arr, pcs, pred, o, id, pc) ==
    LET p == train_instruction(pred, pc, o.hit)
    IN  /\ predictor' = p
        /\ array' = [arr EXCEPT ![id] = IF predict_instruction(p, pc) THEN 0 ELSE Averse]
        /\ array_pcs' = [pcs EXCEPT ![id] = pc]
        /\ Fed(o)

Hit(a, pc) ==
    \E id \in Lines :
        /\ tag[id] = a
        /\ LET o == CacheAccess(Old, a)
           IN  /\ update(array, array_pcs, predictor, o, id, pc)
               /\ trace' = Append(trace, a) /\ hits' = hits + Hits(o)
               /\ Answered(a, o)
        /\ UNCHANGED tag

\* rank(): the first averse line, or the last of the oldest, whose pc is then trained down.
rank(pred, friendly) ==
    LET aged == [l \in Lines |-> IF ~friendly /\ array[l] < Averse - 1 THEN array[l] + 1 ELSE array[l]]
        averse == {l \in Lines : aged[l] = Averse}
        oldest == Max({l \in Lines : \A m \in Lines : aged[m] <= aged[l]})
    IN  IF averse # {} THEN [victim |-> Min(averse), aged |-> aged, pred |-> pred]
        ELSE [victim |-> oldest, aged |-> aged, pred |-> train_instruction(pred, array_pcs[oldest], FALSE)]

\* A miss is given to OPTgen twice: by rank() and by the update() of postinsert.
Miss(a, pc) ==
    /\ \A l \in Lines : tag[l] # a
    /\ LET o == CacheAccess(Old, a)
           pred == train_instruction(predictor, pc, o.hit)
           r == rank(pred, predict_instruction(pred, pc))
           o2 == CacheAccess(o, a)
       IN  /\ update(r.aged, array_pcs, r.pred, o2, r.victim, pc)
           /\ tag' = [tag EXCEPT ![r.victim] = a]
           /\ trace' = trace \o <<a, a>> /\ hits' = hits + Hits(o) + Hits(o2)
           /\ Answered(a, o)

\* Addresses not seen, or forgotten, differ in nothing but their names: one of them stands for all.
Seen == Addrs \cap (Range(tag) \cup Range(hist))
One(S) == IF S = {} THEN {} ELSE {CHOOSE x \in S : TRUE}

Next ==
    /\ ~stuck /\ Len(trace) < MaxFeeds
    /\ \E a \in Seen \cup One(Addrs \ Seen), pc \in PCs : Hit(a, pc) \/ Miss(a, pc)
    /\ UNCHANGED set

Spec == Init /\ [][Next]_vars

-----------------------------------------------------------------------------
\* The usage intervals of a sequence of accesses: the time of an access and that of the one before
\* of the same line, if the last `reach' accesses hold it.
Intervals(seq, reach) ==
    {<<s, t>> \in (1 .. Len(seq)) \X (1 .. Len(seq)) :
        /\ s < t /\ t - s < reach /\ seq[s] = seq[t]
        /\ \A u \in s + 1 .. t - 1 : seq[u] # seq[t]}
Fits(I) == \A u \in 1 .. Len(trace) : Cardinality({v \in I : v[1] <= u /\ u < v[2]}) <= set.ways

\* Of what OPTgen is given, in which every miss stands twice (rank() and update() call
\* cache_access(), hawkeye_repl.h:267), its hits are as many as those of an optimal policy, which
\* may bypass the cache, in as many lines, if the length of its buffer divides 2^32.
OptgenIsOptimal ==
    WrapsRight => hits = Max({Cardinality(I) : I \in {J \in SUBSET Intervals(trace, VectorSize) : Fits(J)}})

\* Of the program's own accesses it is only a lower bound: whatever it answers first to be hits
\* "in the past" Belady's policy can hit together.  The second of the two accesses of a
\* miss occupies the cache, so that some that Belady's policy hits are answered to be misses.
NeverAboveBelady ==
    Fits({v \in Intervals(program, Len(program)) : v[2] \in answers}) /\
    \A t \in answers : \E v \in Intervals(program, Len(program)) : v[2] = t

\* "Wrap an index in the circular buffer": if the length of the buffer does not divide 2^32,
\* wrap_index(-1) is not its last position, the positions between are never looked at, and the
\* search may go round in a part of the buffer for ever.  Else it always comes to its end.
SearchEnds == stuck => ~WrapsRight
=============================================================================
