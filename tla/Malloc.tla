------------------------------- MODULE Malloc -------------------------------
(***************************************************************************)
(* malloc() and free() of user programs (user/umalloc.c).  The address     *)
(* space is counted in units of sizeof(Header); unit 0 is the variable     *)
(* base, and the heap begins at HeapStart.  m is the allocator's state:    *)
(* the headers, freep (NULL before the first call) and the break.          *)
(***************************************************************************)
EXTENDS Integers, Sequences, FiniteSets, FiniteSetsExt

CONSTANTS HeapEnd,      \* sbrk() fails beyond this unit
          UnitBytes,    \* sizeof(Header)
          MinCore,      \* units that morecore() asks for at least
          Requests,     \* sizes in bytes that the program asks for
          MaxHeapCalls  \* bound: calls in a behaviour

VARIABLES m,            \* the allocator
          held,         \* blocks the program has been given
          grown,        \* units the program took with sbrk() itself
          heapCalls

heapVars == <<m, held, grown, heapCalls>>

HeapStart == 2
Base == 0
NULL == -1
Header(ptr, size) == [ptr |-> ptr, size |-> size]

HeapInit ==
    /\ m = [hdr |-> [u \in 0 .. HeapEnd - 1 |-> Header(0, 0)], freep |-> NULL,
            brk |-> HeapStart]
    /\ held = {} /\ grown = {}
    /\ heapCalls = 0

Ptr(a, p) == a.hdr[p].ptr
Size(a, p) == a.hdr[p].size

-----------------------------------------------------------------------------
(* free(): the free block after which bp belongs, searched from p on. *)
RECURSIVE Slot(_, _, _)

Slot(a, bp, p) ==
    LET q == Ptr(a, p)
    IN  IF (p < bp /\ bp < q) \/ (p >= q /\ (bp > p \/ bp < q)) THEN p
        ELSE Slot(a, bp, q)

(* bp is joined with the block above it, and with the block below it. *)
JoinUpper(a, bp, p) ==
    LET q == Ptr(a, p)
    IN  [a EXCEPT !.hdr[bp] =
            IF bp + @.size = q THEN Header(Ptr(a, q), @.size + Size(a, q))
            ELSE Header(q, @.size)]

JoinLower(a, bp, p) ==
    [a EXCEPT !.freep = p,
              !.hdr[p] = IF p + @.size = bp
                         THEN Header(Ptr(a, bp), @.size + Size(a, bp))
                         ELSE Header(bp, @.size)]

Insert(a, bp, p) == JoinLower(JoinUpper(a, bp, p), bp, p)

FreeBlock(a, bp) == Insert(a, bp, Slot(a, bp, a.freep))

-----------------------------------------------------------------------------
(* malloc() *)

Nunits(nbytes) == (nbytes + UnitBytes - 1) \div UnitBytes + 1

(* The first call makes base the only block of the list. *)
Prepared(a) ==
    IF a.freep # NULL THEN a
    ELSE [a EXCEPT !.freep = Base, !.hdr[Base] = Header(Base, 0)]

CoreUnits(nu) == Max({nu, MinCore})

Morecore(a, nu) ==
    FreeBlock([a EXCEPT !.brk = @ + CoreUnits(nu),
                        !.hdr[a.brk].size = CoreUnits(nu)], a.brk)

Carve_NoShrink(a, prevp, p, nu) ==
    [a |-> [a EXCEPT !.hdr[p + Size(a, p) - nu].size = nu, !.freep = prevp],
     block |-> p + Size(a, p) - nu]

(* A block p that is large enough gives its upper part, or itself. *)
Carve(a, prevp, p, nu) ==
    IF Size(a, p) = nu
    THEN [a |-> [a EXCEPT !.hdr[prevp].ptr = Ptr(a, p), !.freep = prevp], block |-> p]
    ELSE [a |-> [a EXCEPT !.hdr[p].size = @ - nu,
                          !.hdr[p + Size(a, p) - nu].size = nu, !.freep = prevp],
          block |-> p + Size(a, p) - nu]

(* The loop: once around the list, then more memory. *)
RECURSIVE Search(_, _, _, _)

Search(a, prevp, p, nu) ==
    IF Size(a, p) >= nu THEN Carve(a, prevp, p, nu)
    ELSE IF p # a.freep THEN Search(a, p, Ptr(a, p), nu)
    ELSE IF a.brk + CoreUnits(nu) > HeapEnd THEN [a |-> a, block |-> NULL]
    ELSE LET b == Morecore(a, nu)
         IN  Search(b, b.freep, Ptr(b, b.freep), nu)

Allocation_SkipsFirst(a, nbytes) ==
    Search(a, Ptr(a, a.freep), Ptr(a, Ptr(a, a.freep)), Nunits(nbytes))

Allocation(a, nbytes) == Search(a, a.freep, Ptr(a, a.freep), Nunits(nbytes))

-----------------------------------------------------------------------------
(* The program *)

HeapCall == heapCalls < MaxHeapCalls /\ heapCalls' = heapCalls + 1

Malloc(nbytes) ==
    /\ HeapCall
    /\ LET r == Allocation(Prepared(m), nbytes)
       IN  /\ m' = r.a
           /\ held' = held \cup ({r.block} \ {NULL})
    /\ UNCHANGED grown

FreeCall(bp) ==
    /\ HeapCall
    /\ bp \in held
    /\ m' = FreeBlock(m, bp)
    /\ held' = held \ {bp}
    /\ UNCHANGED grown

(* sbrk() by the program itself leaves a gap between two parts of the heap.*)
Sbrk(n) ==
    /\ HeapCall
    /\ m.brk + n <= HeapEnd
    /\ m' = [m EXCEPT !.brk = @ + n]
    /\ grown' = grown \cup m.brk .. m.brk + n - 1
    /\ UNCHANGED held

HeapNext ==
    \/ \E n \in Requests : Malloc(n)
    \/ \E bp \in held : FreeCall(bp)
    \/ Sbrk(1)

-----------------------------------------------------------------------------
RECURSIVE ListFrom(_, _)

(* The blocks after p in the list, up to base. *)
ListFrom(p, n) ==
    IF p = Base \/ n = 0 THEN <<>> ELSE <<p>> \o ListFrom(Ptr(m, p), n - 1)

FreeList == IF m.freep = NULL THEN <<>> ELSE ListFrom(Ptr(m, Base), HeapEnd)
FreeBlocks == {FreeList[k] : k \in DOMAIN FreeList}

Units(bp) == bp .. bp + Size(m, bp) - 1

(* Every unit of the heap is in exactly one block, free or given to the    *)
(* program, or was taken by its own sbrk(): no two blocks overlap and none *)
(* is lost, whatever the order of the calls (umalloc.c:24, 63).  The free  *)
(* list is in the order of addresses and free neighbours are joined; freep *)
(* is in it (umalloc.c:30-43).                                             *)
HeapPartitioned ==
    /\ UNION {Units(b) : b \in held \cup FreeBlocks} \cup grown = HeapStart .. m.brk - 1
    /\ \A b, c \in held \cup FreeBlocks : b # c => Units(b) \cap Units(c) = {}
    /\ \A b \in held \cup FreeBlocks : Units(b) \cap grown = {}
    /\ \A k \in 1 .. Len(FreeList) - 1 :
          FreeList[k] + Size(m, FreeList[k]) < FreeList[k + 1]
    /\ m.freep \in FreeBlocks \cup {Base, NULL}

(* malloc() asks for more memory, or fails, only when no free block is     *)
(* large enough, wherever in the list freep is (umalloc.c:74-88).          *)
GrowsOnlyWhenFull ==
    [][\A n \in Requests :
          /\ Malloc(n) /\ (m'.brk # m.brk \/ held' = held)
          => \A b \in FreeBlocks : Size(m, b) < Nunits(n)]_heapVars
=============================================================================
