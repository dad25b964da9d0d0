------------------------------ MODULE UMalloc ------------------------------
(* The user-level allocator of xv6 (user/umalloc.c).  Memory is counted in   *)
(* units of one header; base, which is in the program's data, is unit 0 and  *)
(* the break starts above it.  A block is its header and what follows.       *)
EXTENDS Integers, FiniteSets

CONSTANTS NUNITS,   \* units that sbrk() can give out
          NALLOC,   \* the least that morecore() asks for
          Sizes     \* sizes asked for, in units without the header

\* Requests are below 2 GB, 2^27 units with the header: from there on
\* nu * sizeof(Header) does not fit the int that sbrk() takes, sbrk() gives too
\* little or even takes memory back, and morecore() does not notice.
ASSUME UMallocAssumption ==
  {NUNITS, NALLOC} \subseteq Nat \ {0} /\ Sizes \subseteq 1 .. 2 ^ 27 - 2

VARIABLES heap,    \* s: the headers' ptr and size, freep, and the break
          live,    \* live[a]: the units of the block malloc() returned at a
          gaps     \* units that the program took with sbrk() itself
heapvars == <<heap, live, gaps>>

base == 0
NULL == -1
Units == 0 .. NUNITS
ptr(h, p)  == h.s[p].ptr
size(h, p) == h.s[p].size
\* A header inside a block, and the ptr of a block in use, are the user's data
\* and left out.
Data == [ptr |-> 0, size |-> 0]
Absorb(h, p, bp) == [h EXCEPT !.s[p] = [ptr |-> h.s[bp].ptr, size |-> @.size + h.s[bp].size],
                              !.s[bp] = Data]

\* The block of the list after which bp belongs.
RECURSIVE Place(_, _, _)
Place(h, p, bp) ==
  LET next == ptr(h, p)
  IN  IF (bp > p /\ bp < next) \/ (p >= next /\ (bp > p \/ bp < next)) THEN p
      ELSE Place(h, next, bp)

\* Mutant of Joined: the upper neighbour is not joined.
JoinedBelow(h, p, bp) ==
  LET h1 == [h EXCEPT !.s[bp].ptr = ptr(h, p), !.freep = p]
  IN  IF p + size(h, p) = bp THEN Absorb(h1, p, bp) ELSE [h1 EXCEPT !.s[p].ptr = bp]

\* free(): bp goes in after p and is joined with the neighbours it touches.
Joined(h, p, bp) ==
  LET next == ptr(h, p)
      h1   == IF bp + size(h, bp) = next THEN Absorb(h, bp, next)
              ELSE [h EXCEPT !.s[bp].ptr = next]
      h2   == [h1 EXCEPT !.freep = p]
  IN  IF p + size(h, p) = bp THEN Absorb(h2, p, bp) ELSE [h2 EXCEPT !.s[p].ptr = bp]
Freed(h, bp) == Joined(h, Place(h, h.freep, bp), bp)

\* morecore(): the heap with at least nu units more, or, where sbrk() fails, as
\* it was.
morecore(h, nu) ==
  LET n  == IF nu < NALLOC THEN NALLOC ELSE nu
      hp == h.brk
  IN  IF hp + n > NUNITS THEN h
      ELSE Freed([h EXCEPT !.brk = hp + n, !.s[hp].size = n], hp)

\* malloc()'s loop, at prevp and the block p after it: the first block large
\* enough, its end if it is larger; after one round, more core.
RECURSIVE Search(_, _, _, _)
Search(h, prevp, p, nu) ==
  LET rest == size(h, p) - nu
      more == morecore(h, nu)
  IN  IF rest = 0 THEN [h |-> [h EXCEPT !.s[prevp].ptr = ptr(h, p), !.s[p].ptr = 0, !.freep = prevp], a |-> p]
      ELSE IF rest > 0
      THEN [h |-> [h EXCEPT !.s[p].size = rest, !.s[p + rest].size = nu, !.freep = prevp],
            a |-> p + rest]
      ELSE IF p # h.freep THEN Search(h, p, ptr(h, p), nu)
      ELSE IF more = h THEN [h |-> h, a |-> NULL]
      ELSE Search(more, more.freep, ptr(more, more.freep), nu)

malloc(n) ==
  LET h == IF heap.freep = NULL
           THEN [heap EXCEPT !.freep = base, !.s[base] = [ptr |-> base, size |-> 0]] ELSE heap
      r == Search(h, h.freep, ptr(h, h.freep), n + 1)
  IN  /\ heap' = r.h /\ UNCHANGED gaps
      /\ live' = [a \in (DOMAIN live \cup {r.a}) \ {NULL} |-> IF a = r.a THEN n + 1 ELSE live[a]]

free(a) ==
  /\ heap' = Freed(heap, a) /\ UNCHANGED gaps
  /\ live' = [b \in DOMAIN live \ {a} |-> live[b]]

\* sbrk(): the program moves the break for itself.
sbrk ==
  /\ heap.brk + 1 <= NUNITS /\ gaps = {}
  /\ heap' = [heap EXCEPT !.brk = @ + 1] /\ gaps' = {heap.brk} /\ UNCHANGED live

HeapInit ==
  /\ heap = [s |-> [u \in Units |-> Data], freep |-> NULL, brk |-> 1]
  /\ live = [a \in {} |-> 0] /\ gaps = {}

HeapNext ==
  \/ \E n \in Sizes : malloc(n)
  \/ \E a \in DOMAIN live : free(a)
  \/ sbrk

HeapSpec == HeapInit /\ [][HeapNext]_heapvars

-----------------------------------------------------------------------------
RECURSIVE ListFrom(_, _, _)
ListFrom(h, p, seen) == IF p \in seen THEN seen ELSE ListFrom(h, ptr(h, p), seen \cup {p})

\* malloc(), morecore() and free(): the free list is one ring through base,
\* in the order of addresses; every unit below the break is in exactly one
\* block, free or handed out with the size asked for, or the program's own;
\* no two free blocks touch, so what was freed can be given out as a whole.
HeapSound ==
  heap.freep # NULL =>
    LET ring  == ListFrom(heap, heap.freep, {})
        frees == ring \ {base}
        Block(a) == a .. a + size(heap, a) - 1
        Higher(a) == {b \in ring : b > a}
    IN  /\ base \in ring /\ frees \cap DOMAIN live = {}
        /\ \A a \in ring : ptr(heap, a) = IF Higher(a) = {} THEN base
                                           ELSE CHOOSE b \in Higher(a) : \A c \in Higher(a) : b <= c
        /\ \A a \in DOMAIN live : size(heap, a) = live[a]
        /\ \A u \in 1 .. heap.brk - 1 :
             Cardinality({a \in frees \cup DOMAIN live : u \in Block(a)}) =
               IF u \in gaps THEN 0 ELSE 1
        /\ \A a \in frees : a + size(heap, a) \notin frees
=============================================================================
