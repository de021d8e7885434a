----------------------------- MODULE GlobalHeap -----------------------------
(***************************************************************************)
(* The heap in the shared segment of all simulated processes: dlmalloc's   *)
(* mspace on one segment that cannot grow.  Every call holds the futex     *)
(* lock of the segment from its first to its last line (galloc.cpp), so a  *)
(* call is one step.  Addresses and chunk sizes count units of 8 bytes,    *)
(* requests and alignments bytes; the fields of a chunk that are user data *)
(* while it is in use are not kept.                                        *)
(***************************************************************************)
EXTENDS Integers, Sequences, FiniteSets, SequencesExt, FiniteSetsExt

CONSTANTS
    Small,          \* units from which a chunk goes to a tree bin, a power of 2 (32)
    TreeBins,       \* NTREEBINS (32)
    Start, End,     \* the first chunk after the mspace's own, and the end of the segment
    Requests, Arrays, Aligned,  \* arguments of gm_malloc, gm_calloc and gm_memalign
    MaxRequest,     \* no larger request is tried
    MaxCalls, MaxFrees

MIN_CHUNK_SIZE == 4
CHUNK_OVERHEAD == 1
None == 0           \* the null pointer
Bin == -1           \* the parent of the root of a tree bin

VARIABLES
    heap,       \* head: the chunks with size, cinuse, pinuse; foot: prev_foot of a chunk;
                \* top, dv, dvsize; small: the small bins, first chunk first; root, node: the tree bins
    owned,      \* the pointers given out, with what was asked for
    calls, frees,
    exhausted,  \* gm_malloc has panicked
    misfit      \* a large request did not get the best of the chunks
heapVars == <<heap, owned, calls, frees, exhausted, misfit>>

\* Bytes to the size of a chunk.
request2size(bytes) == Max({MIN_CHUNK_SIZE, (bytes + 15) \div 8})

is_small(s) == s < Small

\* The tree bin of a size: two bins for every power of 2.
compute_tree_index(s) ==
    LET X == s \div Small
        K == CHOOSE k \in 0 .. 16 : 2 ^ k <= X /\ X < 2 ^ (k + 1)
    IN IF X > 65535 THEN TreeBins - 1 ELSE 2 * K + ((s \div (((2 ^ K) * Small) \div 2)) % 2)

\* The bit of s that chooses the child at depth d of bin i, after leftshift_for_tree_index(i).
ChildBit(s, i, d) ==
    LET unit == ((Small \div 4) * 2 ^ (i \div 2)) \div (2 ^ d) IN IF unit = 0 THEN 0 ELSE (s \div unit) % 2

SizeOf(h, p) == h.head[p].size
NextOf(h, p) == p + SizeOf(h, p)
Sizes == MIN_CHUNK_SIZE .. (Small - 1)
Bins == 0 .. (TreeBins - 1)

With(f, x, v) == [y \in DOMAIN f \cup {x} |-> IF y = x THEN v ELSE f[y]]
Less(f, x) == [y \in DOMAIN f \ {x} |-> f[y]]

\* The head at p: user data where there is no chunk yet.
HeadAt(h, p) == IF p \in DOMAIN h.head THEN h.head[p] ELSE [size |-> 0, cinuse |-> FALSE, pinuse |-> FALSE]

\* set_inuse keeps the chunk's own pinuse.
MarkInUse(h, p, s, pin) ==
    [h EXCEPT !.head = With(With(@, p, [size |-> s, cinuse |-> TRUE, pinuse |-> pin]),
                            p + s, [HeadAt(h, p + s) EXCEPT !.pinuse = TRUE])]
set_inuse_and_pinuse(h, p, s) == MarkInUse(h, p, s, TRUE)
set_inuse(h, p, s) == MarkInUse(h, p, s, HeadAt(h, p).pinuse)

set_size_and_pinuse_of_inuse_chunk(h, p, s) ==
    [h EXCEPT !.head = With(@, p, [size |-> s, cinuse |-> TRUE, pinuse |-> TRUE])]

set_size_and_pinuse_of_free_chunk(h, p, s) ==
    [h EXCEPT !.head = With(@, p, [size |-> s, cinuse |-> FALSE, pinuse |-> TRUE]), !.foot = With(@, p + s, s)]

set_free_with_pinuse(h, p, s, n) ==
    set_size_and_pinuse_of_free_chunk([h EXCEPT !.head[n].pinuse = FALSE], p, s)

-----------------------------------------------------------------------------
(* Small bins. *)
insert_small_chunk(h, p, s) == [h EXCEPT !.small[s] = <<p>> \o @]
unlink_small_chunk(h, p, s) == [h EXCEPT !.small[s] = SelectSeq(@, LAMBDA q : q # p)]
unlink_first_small_chunk(h, s) == [h EXCEPT !.small[s] = Tail(@)]

\* The remainder of a split becomes the designated victim, the old one goes to its bin.
replace_dv(h, p, s) ==
    LET binned == IF h.dvsize # 0 THEN insert_small_chunk(h, h.dv, h.dvsize) ELSE h
    IN [binned EXCEPT !.dv = p, !.dvsize = s]

-----------------------------------------------------------------------------
(* Tree bins: binary tries by the bits of the size, of rings of chunks of one size. *)
treemap(h) == {i \in Bins : h.root[i] # None}

\* The nodes from the root of bin i along the bits of s, until one has that size.
PathTo(h, s, i) ==
    LET path[d \in 0 .. 16] ==
            IF d = 0 THEN IF h.root[i] = None THEN <<>> ELSE <<h.root[i]>>
            ELSE LET before == path[d - 1] IN
                 IF Len(before) < d \/ SizeOf(h, Last(before)) = s THEN before
                 ELSE LET c == h.node[Last(before)].child[ChildBit(s, i, d - 1)]
                      IN IF c = None THEN before ELSE Append(before, c)
    IN path[16]

\* A new size becomes a leaf below the end of its path; a size that is there gets one more in the ring.
InsertAfter(h, x, s, i, path) ==
    LET alone == [index |-> i, fd |-> x, bk |-> x, parent |-> Bin, child |-> [b \in 0 .. 1 |-> None]]
        T == Last(path)
        F == h.node[T].fd
    IN CASE path = <<>> -> [h EXCEPT !.root[i] = x, !.node = With(@, x, alone)]
         [] path # <<>> /\ SizeOf(h, T) = s ->
                [h EXCEPT !.node = [With([@ EXCEPT ![T].fd = x], x, [alone EXCEPT !.fd = F, !.bk = T, !.parent = None])
                                        EXCEPT ![F].bk = x]]
         [] OTHER -> [h EXCEPT !.node = [With(@, x, [alone EXCEPT !.parent = T])
                                            EXCEPT ![T].child[ChildBit(s, i, Len(path) - 1)] = x]]

insert_large_chunk(h, x, s) == InsertAfter(h, x, s, compute_tree_index(s), PathTo(h, s, compute_tree_index(s)))

\* What takes the place of node x: the chunk before it in its ring; or the leaf reached by right
\* children, by left ones where there is no right; or nothing.
Heir(node, x) ==
    LET leaf[y \in DOMAIN node] ==
            LET c == node[y].child IN
            IF c[1] # None THEN leaf[c[1]] ELSE IF c[0] # None THEN leaf[c[0]] ELSE y
    IN CASE node[x].bk # x -> node[x].bk
         [] node[x].bk = x /\ leaf[x] # x -> leaf[x]
         [] OTHER -> None

Replaced(child, x, r) == [b \in 0 .. 1 |-> IF child[b] = x THEN r ELSE child[b]]

\* The heir leaves its place: the ring closes, or the leaf's parent loses it.
Cut(node, x, R) ==
    IF node[x].bk # x THEN [[node EXCEPT ![node[x].fd].bk = R] EXCEPT ![R].fd = node[x].fd]
    ELSE IF R = None THEN node ELSE [node EXCEPT ![node[R].parent].child = Replaced(@, R, None)]

\* The heir takes the parent and the children of x.
Inherit(node, x, R) ==
    LET X == node[x] IN
    [y \in DOMAIN node |->
        CASE y = R -> [node[y] EXCEPT !.parent = X.parent,
                                      !.child = [b \in 0 .. 1 |-> IF X.child[b] # None THEN X.child[b] ELSE @[b]]]
          [] y = X.parent -> [node[y] EXCEPT !.child = Replaced(@, x, R)]
          [] y \in {X.child[0], X.child[1]} -> [node[y] EXCEPT !.parent = R]
          [] OTHER -> node[y]]

UnlinkNode(h, x, R) ==
    IF h.node[x].parent = None THEN [h EXCEPT !.node = Less(Cut(@, x, R), x)]
    ELSE [h EXCEPT !.node = Less(Inherit(Cut(@, x, R), x, R), x),
                   !.root[h.node[x].index] = IF @ = x THEN R ELSE @]

unlink_large_chunk(h, x) == UnlinkNode(h, x, Heir(h.node, x))

insert_chunk(h, p, s) == IF is_small(s) THEN insert_small_chunk(h, p, s) ELSE insert_large_chunk(h, p, s)
unlink_chunk(h, p, s) == IF is_small(s) THEN unlink_small_chunk(h, p, s) ELSE unlink_large_chunk(h, p)

-----------------------------------------------------------------------------
(* Allocation.  A result is the heap and the chunk, or None. *)

\* t and its leftmost descendants.
LeftChain(h, t) ==
    LET chain[y \in DOMAIN h.node] ==
            LET c == h.node[y].child
                next == IF c[0] # None THEN c[0] ELSE c[1]
            IN IF next = None THEN <<y>> ELSE <<y>> \o chain[next]
    IN IF t = None THEN <<>> ELSE chain[t]

\* The first of the nodes with the smallest size that holds nb, or None.
FirstLeast(h, nodes) ==
    IF nodes = <<>> THEN None
    ELSE LET least == Min({SizeOf(h, nodes[k]) : k \in DOMAIN nodes})
         IN nodes[Min({k \in DOMAIN nodes : SizeOf(h, nodes[k]) = least})]
Fit(h, nodes, nb) == FirstLeast(h, SelectSeq(nodes, LAMBDA t : SizeOf(h, t) >= nb))

\* Where the search of tmalloc_large goes on after the path: to the least subtree not taken on the
\* way, or when nothing was found to the next bin; nowhere after an exact fit.
Onward(h, nb, i, path) ==
    LET right == [d \in DOMAIN path |-> IF ChildBit(nb, i, d - 1) = 0 THEN h.node[path[d]].child[1] ELSE None]
        untaken == SelectSeq(right, LAMBDA t : t # None)
        above == {j \in treemap(h) : j > i}
    IN CASE path # <<>> /\ SizeOf(h, Last(path)) = nb -> None
         [] untaken # <<>> /\ SizeOf(h, Last(path)) # nb -> Last(untaken)
         [] OTHER -> IF Fit(h, path, nb) # None \/ above = {} THEN None ELSE h.root[Min(above)]

\* The best fit of a large request, unless the designated victim fits as well.
Better(h, nb, v) == IF v # None /\ (h.dvsize < nb \/ SizeOf(h, v) < h.dvsize) THEN v ELSE None
OnPath(h, nb, i, path) == Better(h, nb, Fit(h, path \o LeftChain(h, Onward(h, nb, i, path)), nb))
tmalloc_large(h, nb) == OnPath(h, nb, compute_tree_index(nb), PathTo(h, nb, compute_tree_index(nb)))

\* A small request takes the smallest tree chunk.
tmalloc_small(h, nb) == Fit(h, LeftChain(h, h.root[Min(treemap(h))]), nb)

\* Which chunk serves a request.  Small: the bin of the size or the next one, then the designated
\* victim if it is large enough, then a larger small bin, then the trees.  Large: the trees.  Then
\* the designated victim, then the top.
Source(h, nb) ==
    LET small == is_small(nb)
        FirstOf(sizes) == LET full == {s \in sizes \cap Sizes : h.small[s] # <<>>}
                          IN IF full = {} THEN None ELSE Head(h.small[Min(full)])
        binned == IF ~small THEN None
                  ELSE IF FirstOf({nb, nb + 1}) # None \/ nb <= h.dvsize THEN FirstOf({nb, nb + 1}) ELSE FirstOf(nb .. Small)
        tree == CASE treemap(h) = {} -> None
                  [] treemap(h) # {} /\ ~small -> tmalloc_large(h, nb)
                  [] OTHER -> IF nb > h.dvsize THEN tmalloc_small(h, nb) ELSE None
    IN CASE binned # None -> [from |-> "bin", p |-> binned]
         [] binned = None /\ tree # None -> [from |-> "tree", p |-> tree]
         [] OTHER -> IF nb <= h.dvsize THEN [from |-> "dv", p |-> h.dv]
                     ELSE IF nb < SizeOf(h, h.top) THEN [from |-> "top", p |-> h.top]
                     ELSE [from |-> "none", p |-> None]

\* The first nb units of the chunk p; what remains is a chunk if it is large enough, and goes back
\* to the trees, to the designated victim or to the top.
Unlinked(h, from, p) ==
    CASE from = "bin" -> unlink_first_small_chunk(h, SizeOf(h, p))
      [] from = "tree" -> unlink_large_chunk(h, p)
      [] OTHER -> [h EXCEPT !.dv = None, !.dvsize = 0]
Split(h, p, nb, rsize) ==
    set_size_and_pinuse_of_free_chunk(set_size_and_pinuse_of_inuse_chunk(h, p, nb), p + nb, rsize)
Carve(h, from, p, nb, rsize) ==
    CASE from = "none" -> h
      [] from = "top" -> set_size_and_pinuse_of_inuse_chunk(
                            [h EXCEPT !.top = p + nb, !.head = With(@, p + nb, [size |-> rsize, cinuse |-> FALSE, pinuse |-> TRUE])],
                            p, nb)
      [] from # "none" /\ from # "top" /\ rsize < MIN_CHUNK_SIZE -> set_inuse_and_pinuse(Unlinked(h, from, p), p, rsize + nb)
      [] from = "tree" /\ ~is_small(nb) /\ rsize >= MIN_CHUNK_SIZE ->
            insert_chunk(Split(Unlinked(h, from, p), p, nb, rsize), p + nb, rsize)
      [] OTHER -> replace_dv(Split(Unlinked(h, from, p), p, nb, rsize), p + nb, rsize)

Served(h, nb, s) == [h |-> Carve(h, s.from, s.p, nb, IF s.p = None THEN 0 ELSE SizeOf(h, s.p) - nb), p |-> s.p]
mspace_malloc(h, nb) == Served(h, nb, Source(h, nb))

-----------------------------------------------------------------------------
(* Release. *)

Absorbed(h, p) == [h EXCEPT !.head = Less(@, p), !.foot = Less(@, p)]

\* Mutant: the chunk before is merged without being taken out of its bin.
BackwardLinked(h, p) ==
    IF h.head[p].pinuse THEN [h |-> h, p |-> p, next |-> NextOf(h, p)]
    ELSE [h |-> Absorbed(h, p), p |-> p - h.foot[p], next |-> NextOf(h, p)]

\* The free chunk before a freed one is taken out of its bin, unless it is the designated victim.
Backward(h, p) ==
    LET prev == p - h.foot[p] IN
    IF h.head[p].pinuse THEN [h |-> h, p |-> p, next |-> NextOf(h, p)]
    ELSE [h |-> Absorbed(IF prev = h.dv THEN h ELSE unlink_chunk(h, prev, h.foot[p]), p), p |-> prev, next |-> NextOf(h, p)]

\* The merged chunk goes to its bin, unless it is the designated victim, that has grown.
Settle(h, p, s) == IF p = h.dv THEN [h EXCEPT !.dvsize = s] ELSE insert_chunk(h, p, s)

\* The chunk from p to next is free: merge with what follows, the top, the designated victim or another.
Forward(h, p, next, all) ==
    CASE h.head[next].cinuse -> Settle(set_free_with_pinuse(h, p, next - p, next), p, next - p)
      [] next = h.top ->
            [Absorbed(h, next) EXCEPT !.top = p, !.head = With(@, p, [size |-> all, cinuse |-> FALSE, pinuse |-> TRUE]),
                                      !.dv = IF p = @ THEN None ELSE @, !.dvsize = IF p = h.dv THEN 0 ELSE @]
      [] next = h.dv -> set_size_and_pinuse_of_free_chunk([Absorbed(h, next) EXCEPT !.dv = p, !.dvsize = all], p, all)
      [] OTHER -> Settle(set_size_and_pinuse_of_free_chunk(Absorbed(unlink_chunk(h, next, all - next + p), next), p, all), p, all)

Merged(b) == Forward(b.h, b.p, b.next, b.next - b.p + SizeOf(b.h, b.next))
mspace_free(h, p) == Merged(Backward(h, p))

-----------------------------------------------------------------------------
(* Aligned allocation: a chunk with room to spare, of which the ends are freed. *)
Leader(h, p, newp) ==
    IF newp = p THEN h ELSE set_inuse(set_inuse(h, newp, NextOf(h, p) - newp), p, newp - p)
Trailer(h, newp, nb) ==
    IF SizeOf(h, newp) <= nb + MIN_CHUNK_SIZE THEN h
    ELSE set_inuse(set_inuse(h, newp, nb), newp + nb, SizeOf(h, newp) - nb)
FreeEnds(h, p, newp, end) ==
    LET led == IF newp = p THEN h ELSE mspace_free(h, p)
    IN IF NextOf(h, newp) = end THEN led ELSE mspace_free(led, NextOf(h, newp))

AlignIn(got, p, align, nb) ==
    LET br == ((p + 2 + align - 1) \div align) * align - 2
        newp == IF (p + 2) % align = 0 THEN p ELSE IF br - p >= MIN_CHUNK_SIZE THEN br ELSE br + align
    IN IF p = None THEN got
       ELSE [h |-> FreeEnds(Trailer(Leader(got.h, p, newp), newp, nb), p, newp, NextOf(got.h, p)), p |-> newp]
AlignGot(got, align, nb) == AlignIn(got, got.p, align, nb)

internal_memalign(h, alignment, nb) ==
    AlignGot(mspace_malloc(h, request2size((nb + alignment \div 8 + MIN_CHUNK_SIZE - CHUNK_OVERHEAD) * 8)), alignment \div 8, nb)

-----------------------------------------------------------------------------
\* init_user_mstate: everything after the mspace's own chunk is the top.
HeapInit ==
    /\ heap = [head |-> Start :> [size |-> End - Start, cinuse |-> FALSE, pinuse |-> TRUE],
               foot |-> <<>>, top |-> Start, dv |-> None, dvsize |-> 0,
               small |-> [s \in Sizes |-> <<>>], root |-> [i \in Bins |-> None], node |-> <<>>]
    /\ owned = <<>> /\ calls = 0 /\ frees = 0 /\ exhausted = FALSE /\ misfit = FALSE

Give(result, bytes, alignment) ==
    /\ calls < MaxCalls /\ ~exhausted
    /\ calls' = calls + 1
    /\ exhausted' = (result.p = None)
    /\ heap' = result.h
    /\ owned' = IF result.p = None THEN owned ELSE With(owned, result.p, [nb |-> request2size(bytes), align |-> alignment])
    /\ UNCHANGED frees

\* The free tree chunk for a large request leaves no better one in the trees.
Misfits(h, nb) ==
    LET v == tmalloc_large(h, nb) IN
    /\ ~is_small(nb)
    /\ \E x \in DOMAIN h.node : /\ SizeOf(h, x) >= nb
                                /\ \/ v # None /\ SizeOf(h, x) < SizeOf(h, v)
                                   \/ v = None /\ (h.dvsize < nb \/ SizeOf(h, x) < h.dvsize)

gm_malloc(bytes) ==
    /\ Give(mspace_malloc(heap, request2size(bytes)), bytes, 8)
    /\ misfit' = (misfit \/ Misfits(heap, request2size(bytes)))

gm_calloc(n, size) ==
    /\ IF n * size > MaxRequest THEN Give([h |-> heap, p |-> None], 0, 8)
                                ELSE Give(mspace_malloc(heap, request2size(n * size)), n * size, 8)
    /\ UNCHANGED misfit

gm_memalign(alignment, bytes) ==
    /\ Give(internal_memalign(heap, alignment, request2size(bytes)), bytes, alignment)
    /\ UNCHANGED misfit

gm_free(p) ==
    /\ p \in DOMAIN owned /\ frees < MaxFrees /\ ~exhausted
    /\ heap' = mspace_free(heap, p)
    /\ owned' = Less(owned, p)
    /\ frees' = frees + 1
    /\ UNCHANGED <<calls, exhausted, misfit>>

HeapNext ==
    \/ \E bytes \in Requests : gm_malloc(bytes)
    \/ \E a \in Arrays : gm_calloc(a[1], a[2])
    \/ \E a \in Aligned : gm_memalign(a[1], a[2])
    \/ \E p \in DOMAIN owned : gm_free(p)

HeapSpec == HeapInit /\ [][HeapNext]_heapVars

-----------------------------------------------------------------------------
FreeChunks == {p \in DOMAIN heap.head : ~heap.head[p].cinuse}
Binned == UNION {Range(heap.small[s]) : s \in Sizes}

\* The chunks tile the segment; the boundary tags say what the neighbours are; no two free chunks touch.
TagsExact ==
    /\ \A p \in DOMAIN heap.head \ {heap.top} :
            /\ NextOf(heap, p) \in DOMAIN heap.head
            /\ \A q \in DOMAIN heap.head : ~(p < q /\ q < NextOf(heap, p))
            /\ heap.head[NextOf(heap, p)].pinuse = heap.head[p].cinuse
            /\ ~heap.head[p].cinuse => /\ heap.foot[NextOf(heap, p)] = SizeOf(heap, p)
                                       /\ heap.head[NextOf(heap, p)].cinuse
    /\ Start \in DOMAIN heap.head /\ NextOf(heap, heap.top) = End

\* Who asked owns a chunk of its own, aligned, large enough and not much larger.
OwnersServed ==
    /\ DOMAIN owned = DOMAIN heap.head \ FreeChunks
    /\ \A p \in DOMAIN owned :
            /\ SizeOf(heap, p) \in owned[p].nb .. (owned[p].nb + MIN_CHUNK_SIZE)
            /\ (p + 2) % (owned[p].align \div 8) = 0

\* A free chunk is in one place, the one of its size.
FreeInOnePlace ==
    /\ FreeChunks = {heap.top} \cup ({heap.dv} \ {None}) \cup Binned \cup DOMAIN heap.node
    /\ Cardinality(FreeChunks) = 1 + (IF heap.dv = None THEN 0 ELSE 1) + Cardinality(DOMAIN heap.node)
                                    + FoldSet(LAMBDA s, n : n + Len(heap.small[s]), 0, Sizes)
    /\ \A s \in Sizes : \A p \in Range(heap.small[s]) : SizeOf(heap, p) = s
    /\ heap.dvsize = IF heap.dv = None THEN 0 ELSE SizeOf(heap, heap.dv)

\* do_check_tree: every tree chunk is found from its size, and the rings and parents are linked both ways.
TreesOrdered ==
    \A x \in DOMAIN heap.node :
        LET X == heap.node[x]
            path == PathTo(heap, SizeOf(heap, x), X.index)
        IN /\ X.index = compute_tree_index(SizeOf(heap, x)) /\ ~is_small(SizeOf(heap, x))
           /\ path # <<>> /\ SizeOf(heap, Last(path)) = SizeOf(heap, x)
           /\ (X.parent # None) = (x = Last(path))
           /\ X.parent # None => X.parent = IF Len(path) = 1 THEN Bin ELSE path[Len(path) - 1]
           /\ heap.node[X.fd].bk = x /\ heap.node[X.bk].fd = x /\ SizeOf(heap, X.fd) = SizeOf(heap, x)

\* The invariant of the heap.
HeapSound == TagsExact /\ OwnersServed /\ FreeInOnePlace /\ TreesOrdered /\ ~misfit
=============================================================================
