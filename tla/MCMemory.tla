------------------------------ MODULE MCMemory ------------------------------
(***************************************************************************)
(* Small instances of the memory components: those of Memory, and the      *)
(* kernel heap, again as a sum.                                            *)
(*                                                                         *)
(*  - frames, vmm: eight page frames; 0 is low memory, 3 holds the bitmap, *)
(*    5 is a device hole, and two available areas overlap in frame 4; four *)
(*    pages with two last-level tables;                                    *)
(*  - heap: three pages of eight units, headers of two, requests below the *)
(*    minimum, in between, above a page and above the maximum;             *)
(*  - config: three swap configurations, two of equal priority;            *)
(*  - manager: up to three swap devices of one or two slots, three pages;  *)
(*  - swapper: two tracked pages out of three, all four algorithms.        *)
(***************************************************************************)
EXTENDS Memory

CONSTANTS p1, p2, p3

VARIABLES blocks, head

heapVars == <<blocks, head>>

MCMemoryMap ==
    << [first |-> 0, last |-> 4, available |-> TRUE],
       [first |-> 5, last |-> 5, available |-> FALSE],
       [first |-> 4, last |-> 4, available |-> TRUE],
       [first |-> 6, last |-> 7, available |-> TRUE] >>
MCPriority == [c \in Configs |-> IF c = "partition" THEN 10 ELSE 5]
MCPageOrder == <<p1, p2, p3>>

KernelHeap == INSTANCE Heap WITH
    HeapSize <- 24, PageSize <- 8, HeaderSize <- 2, MinAlloc <- 2, MaxAlloc <- 12,
    Requests <- {1, 4, 9, 13}

ASSUME HeapAssumption == KernelHeap!HeapAssumption

SumInit == part \in MemoryParts \cup {"heap"} /\ MemoryStart /\ KernelHeap!Init

\* bound: page replacement by the clock or by lists, not by both in turn
ClockOrLists == clock'.pages = << >> \/ (lru'.pages = << >> /\ fifo' = << >>)

\* bound: one page at a time is accessed more than once
OneAccessedTwice == Cardinality({p \in DOMAIN access_count' : access_count'[p] > 1}) <= 1

SumNext ==
    \/ MemoryNext /\ UNCHANGED heapVars /\ ClockOrLists /\ OneAccessedTwice
    \/ part = "heap" /\ KernelHeap!Next /\ UNCHANGED memoryVars

SumSpec == SumInit /\ [][SumNext]_<<memoryVars, heapVars>>
-----------------------------------------------------------------------------
\* heap.rs: splits leave blocks that tile the heap, so that allocations never overlap, and the
\* doubly linked free list holds every free block once and no other.
HeapWellFormed == KernelHeap!TypeOK /\ KernelHeap!BlocksTile /\ KernelHeap!FreeListExact
=============================================================================
