-------------------------------- MODULE Heap --------------------------------
(***************************************************************************)
(* The kernel heap, kernel/src/memory/heap.rs: a doubly linked free list   *)
(* threaded through block headers.  Addresses are offsets from heap_start, *)
(* which is page aligned; sizes are in a unit of which HeaderSize,         *)
(* MinAlloc and PageSize are small multiples.  `blocks' is the memory at   *)
(* the addresses where headers were written: blocks are split and never    *)
(* merged (coalesce_free_blocks is empty), so a header stays where it is.  *)
(* A request is its size: find_free_block ignores the alignment asked for. *)
(* Everything runs under KERNEL_HEAP.  Statistics are left out.            *)
(***************************************************************************)
EXTENDS Integers, FiniteSets, FiniteSetsExt

CONSTANTS
    HeapSize, PageSize, HeaderSize, MinAlloc, MaxAlloc,
    Requests    \* sizes of the layouts asked for

HeapAssumption ==
    /\ {HeapSize, PageSize, HeaderSize, MinAlloc, MaxAlloc} \subseteq Nat \ {0}
    /\ HeapSize % PageSize = 0 /\ HeaderSize < PageSize
    /\ Requests \subseteq Nat

VARIABLES
    blocks,         \* address -> [size, is_free, next, prev]
    head            \* free_list_head

vars == <<blocks, head>>

Nil == -1
BlockHeader(size) == [size |-> size, is_free |-> TRUE, next |-> Nil, prev |-> Nil]
data_ptr(a) == a + HeaderSize
align_up(a) == ((a + PageSize - 1) \div PageSize) * PageSize

-----------------------------------------------------------------------------
\* add_to_free_list(a), as a change of the headers; the head becomes a
Pushed(bs, hd, a) ==
    [x \in DOMAIN bs |->
        CASE x = a -> [bs[x] EXCEPT !.next = hd, !.prev = Nil]
          [] x # a /\ x = hd -> [bs[x] EXCEPT !.prev = a]
          [] OTHER -> bs[x]]

\* Mutant: the block after the removed one keeps pointing back to it
UnlinkedOneWay(bs, a) ==
    [x \in DOMAIN bs |->
        CASE x = a -> [bs[x] EXCEPT !.next = Nil, !.prev = Nil]
          [] x # a /\ x = bs[a].prev -> [bs[x] EXCEPT !.next = bs[a].next]
          [] OTHER -> bs[x]]

\* remove_from_free_list(a)
Unlinked(bs, a) ==
    [x \in DOMAIN bs |->
        CASE x = a -> [bs[x] EXCEPT !.next = Nil, !.prev = Nil]
          [] x # a /\ x = bs[a].prev -> [bs[x] EXCEPT !.next = bs[a].next]
          [] x # a /\ x = bs[a].next -> [bs[x] EXCEPT !.prev = bs[a].prev]
          [] OTHER -> bs[x]]

HeadAfterUnlink(bs, hd, a) == IF bs[a].prev = Nil THEN bs[a].next ELSE hd

\* the n-th block of the free list, Nil past its end
Listed[n \in Nat] ==
    IF n = 0 THEN head
    ELSE IF Listed[n - 1] = Nil THEN Nil ELSE blocks[Listed[n - 1]].next

ListLength == Min({n \in 0..Cardinality(DOMAIN blocks) + 1 : n > Cardinality(DOMAIN blocks) \/ Listed[n] = Nil})

\* find_free_block: room for the size even from the next page boundary on
Fits(a, size) ==
    blocks[a].is_free /\ blocks[a].size >= size + (align_up(data_ptr(a)) - data_ptr(a))

Fitting(size) == {n \in 0..(ListLength - 1) : Fits(Listed[n], size)}

\* split_block, before the remainder is put on the free list
Split(bs, a, size) ==
    LET rest == bs[a].size - size - HeaderSize IN
    IF bs[a].size < size + HeaderSize + MinAlloc THEN bs
    ELSE [x \in DOMAIN bs \cup {data_ptr(a) + size} |->
            IF x = a THEN [bs[a] EXCEPT !.size = size]
            ELSE IF x = data_ptr(a) + size THEN BlockHeader(rest) ELSE bs[x]]

-----------------------------------------------------------------------------
\* KernelHeapAllocator::init
Init ==
    /\ blocks = [a \in {0} |-> BlockHeader(HeapSize - HeaderSize)]
    /\ head = 0

ChargedSize(r) == IF r < MinAlloc THEN MinAlloc ELSE r

allocate(r) ==
    LET size == ChargedSize(r) IN
    /\ size <= MaxAlloc /\ Fitting(size) # {}
    /\ LET a == Listed[Min(Fitting(size))]
           split == Split(blocks, a, size)
           rest == data_ptr(a) + size
           linked == IF split = blocks THEN blocks ELSE Pushed(split, head, rest)
           hd == IF split = blocks THEN head ELSE rest
           used == [linked EXCEPT ![a].is_free = FALSE]
       IN  /\ blocks' = Unlinked(used, a)
           /\ head' = HeadAfterUnlink(used, hd, a)

\* "Allocation too large" or "Out of memory"
allocate_fails(r) ==
    /\ ChargedSize(r) > MaxAlloc \/ Fitting(ChargedSize(r)) = {}
    /\ UNCHANGED vars

\* anything else is reported as corruption or double free
MayFree(a) == a \in DOMAIN blocks /\ ~ blocks[a].is_free

deallocate(a) ==
    /\ MayFree(a)
    /\ blocks' = Pushed([blocks EXCEPT ![a].is_free = TRUE], head, a)
    /\ head' = a

Next ==
    \/ \E r \in Requests : allocate(r) \/ allocate_fails(r)
    \/ \E a \in DOMAIN blocks : deallocate(a)

Spec == Init /\ [][Next]_vars
-----------------------------------------------------------------------------
TypeOK ==
    /\ DOMAIN blocks \subseteq 0..(HeapSize - 1)
    /\ \A a \in DOMAIN blocks :
        /\ blocks[a].size \in 1..HeapSize
        /\ {blocks[a].next, blocks[a].prev} \subseteq DOMAIN blocks \cup {Nil}
    /\ head \in DOMAIN blocks \cup {Nil}

\* The blocks tile the heap: each ends where the next begins and the last where the heap
\* does, so no two allocations overlap and none reaches into a header.
BlocksTile ==
    /\ 0 \in DOMAIN blocks
    /\ \A a \in DOMAIN blocks :
        LET end == a + HeaderSize + blocks[a].size IN
        /\ end \in DOMAIN blocks \cup {HeapSize}
        /\ \A b \in DOMAIN blocks : ~ (a < b /\ b < end)

\* The free list holds every free block once and no other, in both directions: what
\* validate_heap looks for never happens, and no free block is lost.
FreeListExact ==
    LET free == {a \in DOMAIN blocks : blocks[a].is_free} IN
    /\ ListLength = Cardinality(free)
    /\ {Listed[n] : n \in 0..(ListLength - 1)} = free
    /\ head # Nil => blocks[head].prev = Nil
    /\ \A a \in free : blocks[a].next # Nil => blocks[blocks[a].next].prev = a
=============================================================================
