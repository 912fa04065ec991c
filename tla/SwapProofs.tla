------------------------------ MODULE SwapProofs -----------------------------
(***************************************************************************)
(* The swap devices, for every number of devices, slots and pages.  The    *)
(* swap manager keeps its two maps, its bitmaps, its totals and the        *)
(* contents of its slots in agreement and implements the abstract swap     *)
(* space; the configurations keep the active indices valid and in order.   *)
(***************************************************************************)
EXTENDS SwapConfig, SwapManager, CollectionTheorems, TLAPS

LEMMA MinFacts ==
    ASSUME NEW T \in SUBSET Nat, T # {}
    PROVE  Min(T) \in T /\ \A y \in T : Min(T) <= y
<1>1. \E m \in T : \A k \in T : m <= k
    BY SmallestNumber
<1>. QED BY <1>1, Zenon DEF Min

-----------------------------------------------------------------------------
(* One device and its slot allocator. *)
Device ==
    [kind : {"file", "partition"},
     storage : UNION {[Slots(n) -> PageFrames \cup {Nothing}] : n \in SlotCounts}]

Allocator ==
    [bitmap : SUBSET Nat, free_slots : Int, total_slots : Nat, next_free_hint : Nat]

\* the counter of free slots is exact, and a partition, which is never written, has none taken
Fits(d, a) ==
    /\ d \in Device /\ a \in Allocator
    /\ a.total_slots \in SlotCounts /\ DOMAIN d.storage = Slots(a.total_slots)
    /\ a.bitmap \subseteq Slots(a.total_slots) /\ a.next_free_hint \in Slots(a.total_slots)
    /\ a.free_slots = a.total_slots - Cardinality(a.bitmap)
    /\ d.kind = "partition" => a.bitmap = {}

LEMMA SlotFacts ==
    ASSUME NEW n \in SlotCounts
    PROVE  n \in Nat \ {0} /\ IsFiniteSet(Slots(n)) /\ Cardinality(Slots(n)) = n /\ 0 \in Slots(n)
           /\ Slots(n) \subseteq Nat
<1>1. n \in Nat \ {0}
    BY SwapAssumption
<1>. QED BY <1>1, FS_Interval DEF Slots

LEMMA FitsFacts ==
    ASSUME NEW d, NEW a, Fits(d, a)
    PROVE  /\ slot_count(d) = a.total_slots /\ a.total_slots \in Nat \ {0}
           /\ IsFiniteSet(a.bitmap) /\ Cardinality(a.bitmap) \in Nat /\ a.free_slots \in Nat
           /\ d.storage \in [Slots(a.total_slots) -> PageFrames \cup {Nothing}]
           /\ HasFree(a) => \E s \in Slots(a.total_slots) : s \notin a.bitmap
<1> DEFINE n == a.total_slots
           S == Slots(n)
<1>1. /\ n \in Nat \ {0} /\ n \in SlotCounts /\ IsFiniteSet(S) /\ Cardinality(S) = n
      /\ DOMAIN d.storage = S /\ a.bitmap \subseteq S /\ a.free_slots = n - Cardinality(a.bitmap)
    BY SlotFacts DEF Fits
<1>2. IsFiniteSet(a.bitmap) /\ Cardinality(a.bitmap) <= n /\ (Cardinality(a.bitmap) = n => a.bitmap = S)
    BY <1>1, FS_Subset
<1>3. Cardinality(a.bitmap) \in Nat
    BY <1>2, FS_CardinalityType
<1>4. slot_count(d) = n
    BY <1>1 DEF slot_count
<1>5. d.storage \in [S -> PageFrames \cup {Nothing}]
    <2>1. d.storage \in UNION {[Slots(m) -> PageFrames \cup {Nothing}] : m \in SlotCounts}
        BY DEF Fits, Device
    <2>2. PICK m \in SlotCounts : d.storage \in [Slots(m) -> PageFrames \cup {Nothing}]
        BY <2>1
    <2>. QED BY <1>1, <2>2
<1> HIDE DEF n, S
<1>6. a.free_slots \in Nat
    BY <1>1, <1>2, <1>3
<1>7. ASSUME HasFree(a) PROVE \E s \in S : s \notin a.bitmap
    <2>1. Cardinality(a.bitmap) # n
        BY <1>1, <1>3, <1>7 DEF HasFree
    <2>2. a.bitmap # S
        BY <1>1, <2>1
    <2>. QED BY <1>1, <2>2, Zenon
<1>. QED BY <1>1, <1>2, <1>3, <1>4, <1>5, <1>6, <1>7 DEF n, S

\* The search from the hint around to the hint finds a slot that is free.
LEMMA NextFreeFacts ==
    ASSUME NEW d, NEW a, Fits(d, a), HasFree(a)
    PROVE  NextFree(a) \in Slots(a.total_slots) /\ NextFree(a) \notin a.bitmap
<1> DEFINE n == a.total_slots
           h == a.next_free_hint
           T == {k \in Slots(n) : (h + k) % n \notin a.bitmap}
<1>1. n \in Nat \ {0} /\ h \in Slots(n)
    BY FitsFacts DEF Fits
<1>2. PICK s \in Slots(n) : s \notin a.bitmap
    BY FitsFacts
<1>3. NextFree(a) = (h + Min(T)) % n
    BY DEF NextFree
<1>4. T \in SUBSET Nat
    BY <1>1 DEF Slots
<1> DEFINE k == IF s >= h THEN s - h ELSE s - h + n
<1>5. T # {}
    <2> HIDE DEF n, h
    <2>1. k \in Slots(n) /\ s \in Nat /\ s < n /\ h \in Nat /\ h < n
        BY <1>1, <1>2 DEF Slots
    <2>2. h + k = s \/ h + k = s + n
        BY <1>1, <2>1
    <2>3. s % n = s /\ (s + n) % n = s
        BY <1>1, <2>1
    <2>4. (h + k) % n = s
        BY <2>2, <2>3
    <2> HIDE DEF k
    <2>. QED BY <1>2, <2>1, <2>4
<1>6. Min(T) \in T
    <2> HIDE DEF T
    <2>. QED BY <1>4, <1>5, MinFacts
<1> HIDE DEF n, h
<1>7. (h + Min(T)) % n \notin a.bitmap /\ Min(T) \in Nat
    BY <1>4, <1>6, Zenon
<1> HIDE DEF T
<1>8. h + Min(T) \in Nat
    BY <1>1, <1>7 DEF Slots
<1>9. (h + Min(T)) % n \in Slots(n)
    <2> DEFINE z == h + Min(T)
    <2> HIDE DEF z
    <2>1. z \in Nat => z % n \in 0 .. (n - 1)
        BY <1>1
    <2>. QED BY <1>8, <2>1 DEF Slots, z
<1>. QED BY <1>3, <1>7, <1>9 DEF n

\* What allocating the next slot, giving it back, and a write that fails leave behind
LEMMA AllocateFacts ==
    ASSUME NEW d, NEW a, Fits(d, a), HasFree(a), d.kind = "file",
           NEW e, e \in Device, e.kind = "file", DOMAIN e.storage = DOMAIN d.storage
    PROVE  /\ Fits(e, allocate_slot(a))
           /\ allocate_slot(a).bitmap = a.bitmap \cup {NextFree(a)}
           /\ allocate_slot(a).total_slots = a.total_slots
           /\ allocate_slot(a).free_slots = a.free_slots - 1
<1> DEFINE s == NextFree(a)
           n == a.total_slots
           h == (s + 1) % n
           b == allocate_slot(a)
<1>1. s \in Slots(n) /\ s \notin a.bitmap /\ n \in Nat \ {0} /\ a \in Allocator /\ n \in SlotCounts
    BY NextFreeFacts, FitsFacts DEF Fits
<1> HIDE DEF s
<1>2. s \in Nat /\ h \in Slots(n) /\ h \in Nat
    BY <1>1 DEF Slots
<1>3. /\ b.bitmap = a.bitmap \cup {s} /\ b.total_slots = n
      /\ b.free_slots = a.free_slots - 1 /\ b.next_free_hint = h /\ b \in Allocator
    <2> DEFINE x == a.bitmap \cup {s}
               y == a.free_slots - 1
    <2>1. x \in SUBSET Nat /\ y \in Int
        BY <1>1, <1>2 DEF Allocator
    <2>2. b = [a EXCEPT !.bitmap = x, !.free_slots = y, !.next_free_hint = h]
        BY DEF allocate_slot, s
    <2> HIDE DEF h, b, x, y
    <2>3. b.bitmap = x /\ b.free_slots = y /\ b.next_free_hint = h /\ b \in Allocator
         /\ b.total_slots = a.total_slots
        BY <1>1, <1>2, <2>1, <2>2, Zenon DEF Allocator
    <2>. QED BY <2>3 DEF x, y
<1>5. Cardinality(a.bitmap \cup {s}) = Cardinality(a.bitmap) + 1 /\ Cardinality(a.bitmap) \in Nat
    BY <1>1, FitsFacts, FS_AddElement, Zenon
<1>6. a.free_slots = n - Cardinality(a.bitmap) /\ a.bitmap \subseteq Slots(n) /\ DOMAIN e.storage = Slots(n)
    BY DEF Fits
<1>7. b.free_slots = n - Cardinality(b.bitmap)
    BY <1>1, <1>3, <1>5, <1>6
<1> HIDE DEF b, h, n
<1>8. Fits(e, b)
    BY <1>1, <1>2, <1>3, <1>6, <1>7 DEF Fits
<1>. QED BY <1>3, <1>8 DEF b, s, n

LEMMA DeallocateFacts ==
    ASSUME NEW d, NEW a, Fits(d, a), NEW s \in a.bitmap
    PROVE  /\ Fits(d, deallocate_slot(a, s))
           /\ deallocate_slot(a, s).bitmap = a.bitmap \ {s}
           /\ deallocate_slot(a, s).total_slots = a.total_slots
           /\ deallocate_slot(a, s).free_slots = a.free_slots + 1
<1> DEFINE n == a.total_slots
           h == IF s < a.next_free_hint THEN s ELSE a.next_free_hint
           b == deallocate_slot(a, s)
<1>1. s \in Slots(n) /\ n \in Nat \ {0} /\ a \in Allocator /\ n \in SlotCounts
      /\ a.next_free_hint \in Slots(n)
    BY FitsFacts DEF Fits
<1>2. s \in Nat /\ h \in Slots(n) /\ h \in Nat
    BY <1>1 DEF Slots
<1>3. /\ b.bitmap = a.bitmap \ {s} /\ b.total_slots = n
      /\ b.free_slots = a.free_slots + 1 /\ b.next_free_hint = h /\ b \in Allocator
    <2> DEFINE x == a.bitmap \ {s}
               y == a.free_slots + 1
    <2>1. x \in SUBSET Nat /\ y \in Int
        BY <1>1, <1>2 DEF Allocator
    <2>2. b = [a EXCEPT !.bitmap = x, !.free_slots = y, !.next_free_hint = h]
        BY DEF deallocate_slot
    <2> HIDE DEF h, b, x, y
    <2>3. b.bitmap = x /\ b.free_slots = y /\ b.next_free_hint = h /\ b \in Allocator
         /\ b.total_slots = a.total_slots
        BY <1>1, <1>2, <2>1, <2>2, Zenon DEF Allocator
    <2>. QED BY <2>3 DEF x, y
<1>5. Cardinality(a.bitmap \ {s}) = Cardinality(a.bitmap) - 1 /\ Cardinality(a.bitmap) \in Nat
    BY FitsFacts, FS_RemoveElement, Zenon
<1>6. /\ a.free_slots = n - Cardinality(a.bitmap) /\ a.bitmap \subseteq Slots(n)
      /\ d \in Device /\ DOMAIN d.storage = Slots(n) /\ d.kind # "partition"
    BY DEF Fits
<1>7. b.free_slots = n - Cardinality(b.bitmap)
    BY <1>1, <1>3, <1>5, <1>6
<1> HIDE DEF b, h, n
<1>8. Fits(d, b)
    BY <1>1, <1>2, <1>3, <1>6, <1>7 DEF Fits
<1>. QED BY <1>3, <1>8 DEF b, n

LEMMA FailedWriteFacts ==
    ASSUME NEW d, NEW a, Fits(d, a)
    PROVE  /\ Fits(d, AfterFailedWrite(a))
           /\ AfterFailedWrite(a).bitmap = a.bitmap
           /\ AfterFailedWrite(a).total_slots = a.total_slots
           /\ AfterFailedWrite(a).free_slots = a.free_slots
<1>1. CASE ~ HasFree(a)
    BY <1>1 DEF AfterFailedWrite
<1>2. CASE HasFree(a)
    <2> DEFINE s == NextFree(a)
               n == a.total_slots
               h == (s + 1) % n
               g == IF s < h THEN s ELSE h
               b == allocate_slot(a)
               c == deallocate_slot(b, s)
    <2>1. s \in Slots(n) /\ s \notin a.bitmap /\ n \in Nat \ {0} /\ a \in Allocator
        BY <1>2, NextFreeFacts, FitsFacts DEF Fits
    <2>2. AfterFailedWrite(a) = c
        BY <1>2 DEF AfterFailedWrite
    <2> HIDE DEF s
    <2>3. s \in Nat /\ h \in Slots(n) /\ h \in Nat
        BY <2>1 DEF Slots
    <2>4. g \in Slots(n) /\ g \in Nat
        BY <2>1, <2>3
    <2>5. /\ b.bitmap = a.bitmap \cup {s} /\ b.total_slots = n /\ b \in Allocator
          /\ b.free_slots = a.free_slots - 1 /\ b.next_free_hint = h
        <3> DEFINE x == a.bitmap \cup {s}
                   y == a.free_slots - 1
        <3>1. x \in SUBSET Nat /\ y \in Int
            BY <2>1, <2>3 DEF Allocator
        <3>2. b = [a EXCEPT !.bitmap = x, !.free_slots = y, !.next_free_hint = h]
            BY DEF allocate_slot, s
        <3> HIDE DEF h, b, x, y
        <3>3. b.bitmap = x /\ b.free_slots = y /\ b.next_free_hint = h /\ b \in Allocator
             /\ b.total_slots = a.total_slots
            BY <2>1, <2>3, <3>1, <3>2, Zenon DEF Allocator
        <3>. QED BY <3>3 DEF x, y
    <2> HIDE DEF b, h
    <2>6. /\ c.bitmap = b.bitmap \ {s} /\ c.total_slots = n
          /\ c.free_slots = b.free_slots + 1 /\ c.next_free_hint = g /\ c \in Allocator
        <3> DEFINE x == b.bitmap \ {s}
                   y == b.free_slots + 1
        <3>1. x \in SUBSET Nat /\ y \in Int
            BY <2>5 DEF Allocator
        <3>2. c = [b EXCEPT !.bitmap = x, !.free_slots = y, !.next_free_hint = g]
            BY <2>5 DEF deallocate_slot
        <3> HIDE DEF g, c, x, y
        <3>3. c.bitmap = x /\ c.free_slots = y /\ c.next_free_hint = g /\ c \in Allocator
             /\ c.total_slots = b.total_slots
            BY <2>4, <2>5, <3>1, <3>2, Zenon DEF Allocator
        <3>. QED BY <2>5, <3>3 DEF x, y
    <2> HIDE DEF c, g
    <2>7. c.bitmap = a.bitmap /\ c.free_slots = a.free_slots
        <3>1. a.free_slots \in Int
            BY FitsFacts
        <3>. QED BY <2>1, <2>5, <2>6, <3>1
    <2>8. Fits(d, c)
        BY <2>4, <2>6, <2>7 DEF Fits, n
    <2>. QED BY <2>2, <2>6, <2>7, <2>8 DEF n
<1>. QED BY <1>1, <1>2

-----------------------------------------------------------------------------
(* The inductive invariant of the manager.  It speaks of page_to_swap, from which the other
   map and the bitmaps follow: a page is at one slot because the slot holds it. *)
Dev(p) == page_to_swap[p].device_index
Slot(p) == page_to_swap[p].slot
InSwap == DOMAIN page_to_swap

DevicesOK ==
    /\ devices \in Seq(Device) /\ allocators \in Seq(Allocator) /\ Len(allocators) = Len(devices)
    /\ \A i \in 1..Len(devices) : Fits(devices[i], allocators[i])

MapsOK ==
    /\ InSwap \subseteq PageFrames /\ IsFiniteSet(InSwap)
    /\ \A p \in InSwap :
        /\ Dev(p) \in 1..Len(devices) /\ Slot(p) \in allocators[Dev(p)].bitmap
        /\ devices[Dev(p)].storage[Slot(p)] = p
    /\ \A i \in 1..Len(devices) : \A s \in allocators[i].bitmap :
        \E p \in InSwap : Dev(p) = i /\ Slot(p) = s
    /\ DOMAIN swap_to_page = {<<Dev(p), Slot(p)>> : p \in InSwap}
    /\ \A p \in InSwap : swap_to_page[<<Dev(p), Slot(p)>>] = p

Totals == [i \in 1..Len(devices) |-> allocators[i].total_slots]
Frees == [i \in 1..Len(devices) |-> allocators[i].free_slots]
FileTotals == [i \in 1..Len(devices) |->
                  IF devices[i].kind = "file" THEN allocators[i].total_slots ELSE 0]
FileFrees == [i \in 1..Len(devices) |->
                  IF devices[i].kind = "file" THEN allocators[i].free_slots ELSE 0]

\* The slots of files are those that hold a page and those that are free, so there is room as
\* long as a file has a free slot.
SumsOK ==
    /\ total_stats \in [total_slots : Int, used_slots : Int, free_slots : Int]
    /\ total_stats.total_slots = Sum(Totals) /\ total_stats.free_slots = Sum(Frees)
    /\ total_stats.used_slots = Sum(Totals) - Sum(Frees)
    /\ Sum(FileTotals) = Cardinality(InSwap) + Sum(FileFrees)

ManagerInv == DevicesOK /\ MapsOK /\ SumsOK

LEMMA SumTypes ==
    ASSUME DevicesOK
    PROVE  /\ Len(devices) \in Nat /\ IsFiniteSet(1..Len(devices))
           /\ Totals \in Seq(Nat) /\ Frees \in Seq(Nat)
           /\ FileTotals \in Seq(Nat) /\ FileFrees \in Seq(Nat)
           /\ Len(Totals) = Len(devices) /\ Len(Frees) = Len(devices)
           /\ Len(FileTotals) = Len(devices) /\ Len(FileFrees) = Len(devices)
           /\ Sum(Totals) \in Nat /\ Sum(Frees) \in Nat
           /\ Sum(FileTotals) \in Nat /\ Sum(FileFrees) \in Nat
           /\ FileSlots = Sum(FileTotals)
<1> DEFINE n == Len(devices)
<1>1. n \in Nat /\ DOMAIN devices = 1..n /\ DOMAIN allocators = 1..n
    BY DEF DevicesOK
<1>2. \A i \in 1..n : /\ slot_count(devices[i]) = allocators[i].total_slots
                      /\ allocators[i].total_slots \in Nat /\ allocators[i].free_slots \in Nat
    BY FitsFacts DEF DevicesOK
<1>3. FileSlots = Sum(FileTotals)
    <2> DEFINE f == [i \in DOMAIN devices |->
                       IF devices[i].kind = "file" THEN slot_count(devices[i]) ELSE 0]
    <2>1. f = FileTotals
        BY <1>1, <1>2 DEF FileTotals
    <2>. QED BY <2>1, Zenon DEF FileSlots
<1> HIDE DEF n
<1>4. IsFiniteSet(1..n)
    BY <1>1, FS_Interval
<1>5. /\ Totals \in [1..n -> Nat] /\ Frees \in [1..n -> Nat]
      /\ FileTotals \in [1..n -> Nat] /\ FileFrees \in [1..n -> Nat]
    BY <1>2 DEF Totals, Frees, FileTotals, FileFrees, n
<1>6. /\ Sum(Totals) \in Nat /\ Sum(Frees) \in Nat
      /\ Sum(FileTotals) \in Nat /\ Sum(FileFrees) \in Nat
    BY <1>4, <1>5, SumNat, Zenon
<1>7. \A f \in [1..n -> Nat] : f \in Seq(Nat) /\ Len(f) = n
    BY <1>1
<1>. QED BY <1>1, <1>3, <1>4, <1>5, <1>6, <1>7 DEF n

LEMMA ManagerInvAgrees == ManagerInv => SwapMapsAgree
<1> SUFFICES ASSUME ManagerInv PROVE SwapMapsAgree
    OBVIOUS
<1> USE DEF ManagerInv
<1>1. DOMAIN devices = 1..Len(devices) /\ DOMAIN allocators = 1..Len(devices)
      /\ \A i \in 1..Len(devices) : Fits(devices[i], allocators[i])
    BY DEF DevicesOK
<1>2. ManagerTypeOK
    <2>1. ASSUME NEW i \in DOMAIN devices
          PROVE  /\ devices[i].kind \in {"file", "partition"}
                 /\ slot_count(devices[i]) \in SlotCounts
                 /\ Range(devices[i].storage) \subseteq PageFrames \cup {Nothing}
                 /\ allocators[i].bitmap \subseteq DOMAIN devices[i].storage
                 /\ allocators[i].next_free_hint \in DOMAIN devices[i].storage
        <3>1. Fits(devices[i], allocators[i])
            BY <1>1, <2>1
        <3>2. /\ slot_count(devices[i]) = allocators[i].total_slots
              /\ devices[i].storage \in [Slots(allocators[i].total_slots) -> PageFrames \cup {Nothing}]
            BY <3>1, FitsFacts
        <3>3. Range(devices[i].storage) \subseteq PageFrames \cup {Nothing}
            BY <3>2 DEF Range
        <3>. QED BY <3>1, <3>2, <3>3 DEF Fits, Device
    <2>2. Range(swap_to_page) \subseteq PageFrames
        BY DEF MapsOK, Range
    <2>. QED BY <2>1, <2>2 DEF ManagerTypeOK, DevicesOK, MapsOK, InSwap
<1>3. MapsInverse
    BY DEF MapsInverse, MapsOK, InSwap, Dev, Slot
<1>4. BitmapIsMapping
    <2>1. ASSUME NEW i \in DOMAIN devices
          PROVE  allocators[i].bitmap =
                    {s \in DOMAIN devices[i].storage : <<i, s>> \in DOMAIN swap_to_page}
        <3>1. allocators[i].bitmap \subseteq DOMAIN devices[i].storage
            BY <1>1, <2>1 DEF Fits
        <3>2. \A s : <<i, s>> \in DOMAIN swap_to_page <=> \E p \in InSwap : Dev(p) = i /\ Slot(p) = s
            BY DEF MapsOK
        <3>. QED BY <1>1, <2>1, <3>1, <3>2 DEF MapsOK
    <2>. QED BY <1>1, <2>1 DEF BitmapIsMapping, Fits
<1>5. SwapInReadsBack
    BY <1>1 DEF SwapInReadsBack, MapsOK, InSwap, Dev, Slot
<1>6. StatsAddUp
    <2>1. /\ [i \in DOMAIN allocators |-> allocators[i].total_slots] = Totals
          /\ [i \in DOMAIN allocators |-> allocators[i].free_slots] = Frees
        BY <1>1 DEF Totals, Frees
    <2>. QED BY <2>1, Zenon DEF StatsAddUp, SumsOK
<1>. QED BY <1>2, <1>3, <1>4, <1>5, <1>6 DEF SwapMapsAgree

LEMMA NewDevice ==
    ASSUME NEW n \in SlotCounts, NEW d, d = FileSwapDevice(n) \/ d = PartitionSwapDevice(n)
    PROVE  /\ d \in Device /\ slot_count(d) = n /\ n \in Nat /\ Fits(d, SwapAllocator(n))
           /\ SwapAllocator(n).bitmap = {} /\ SwapAllocator(n) \in Allocator
           /\ SwapAllocator(n).free_slots = n /\ SwapAllocator(n).total_slots = n
<1> DEFINE f == [s \in Slots(n) |-> Nothing]
           a == SwapAllocator(n)
<1>1. d.storage = f /\ d = [kind |-> d.kind, storage |-> f] /\ d.kind \in {"file", "partition"}
    BY DEF FileSwapDevice, PartitionSwapDevice
<1>2. n \in Nat /\ Cardinality(Slots(n)) = n /\ 0 \in Slots(n)
    BY SlotFacts
<1>3. f \in [Slots(n) -> PageFrames \cup {Nothing}] /\ DOMAIN f = Slots(n)
    OBVIOUS
<1> HIDE DEF f
<1>4. d \in Device
    BY <1>1, <1>3 DEF Device
<1>5. slot_count(d) = n
    BY <1>1, <1>2, <1>3 DEF slot_count
<1>6. a.bitmap = {} /\ a.free_slots = n /\ a.total_slots = n /\ a.next_free_hint = 0 /\ a \in Allocator
    BY <1>2 DEF SwapAllocator, Allocator
<1> HIDE DEF a
<1>7. Fits(d, a)
    BY <1>1, <1>2, <1>3, <1>4, <1>6, FS_EmptySet DEF Fits
<1>. QED BY <1>2, <1>4, <1>5, <1>6, <1>7 DEF a

\* A table with one more entry is the table with the entry appended.
IsTable(g, n) == g = [i \in 1..n |-> g[i]]

LEMMA AppendedTable ==
    ASSUME NEW k \in Nat, NEW f \in Seq(Nat), Len(f) = k, NEW v \in Nat, NEW g,
           IsTable(g, k + 1), \A i \in 1..k : g[i] = f[i], g[k + 1] = v
    PROVE  g = Append(f, v)
<1> DEFINE h == Append(f, v)
<1>1. h \in Seq(Nat) /\ Len(h) = k + 1 /\ h[k + 1] = v /\ \A i \in 1..k : h[i] = f[i]
    OBVIOUS
<1> HIDE DEF h
<1>2. h = [i \in 1..(k + 1) |-> h[i]]
    BY <1>1
<1>3. \A i \in 1..(k + 1) : i \in 1..k \/ i = k + 1
    OBVIOUS
<1>4. \A i \in 1..(k + 1) : g[i] = h[i]
    BY <1>1, <1>3
<1>5. g = h
    BY <1>2, <1>4 DEF IsTable
<1>. QED BY <1>5 DEF h

LEMMA AddDevice ==
    ASSUME ManagerInv, NEW n \in SlotCounts, NEW d,
           d = FileSwapDevice(n) \/ d = PartitionSwapDevice(n), add_device(d)
    PROVE  ManagerInv' /\ InSwap' = InSwap
<1> DEFINE k == Len(devices)
           a == SwapAllocator(n)
<1>1. /\ d \in Device /\ slot_count(d) = n /\ n \in Nat /\ Fits(d, a) /\ a \in Allocator
      /\ a.bitmap = {} /\ a.free_slots = n /\ a.total_slots = n
    BY NewDevice
<1>2. DevicesOK /\ MapsOK /\ SumsOK
    BY DEF ManagerInv
<1>3. /\ devices' = Append(devices, d) /\ allocators' = Append(allocators, a)
      /\ page_to_swap' = page_to_swap /\ swap_to_page' = swap_to_page
      /\ total_stats' = [total_stats EXCEPT !.total_slots = @ + n, !.free_slots = @ + n]
    BY <1>1 DEF add_device
<1> HIDE DEF a
<1>4. /\ k \in Nat /\ devices \in Seq(Device) /\ allocators \in Seq(Allocator) /\ Len(allocators) = k
    BY <1>2 DEF DevicesOK
<1>5. /\ devices' \in Seq(Device) /\ allocators' \in Seq(Allocator)
      /\ Len(devices') = k + 1 /\ Len(allocators') = k + 1
      /\ \A i \in 1..k : devices'[i] = devices[i] /\ allocators'[i] = allocators[i]
      /\ devices'[k + 1] = d /\ allocators'[k + 1] = a
    BY <1>1, <1>3, <1>4
<1>6. InSwap' = InSwap /\ \A p : Dev(p)' = Dev(p) /\ Slot(p)' = Slot(p)
    BY <1>3 DEF InSwap, Dev, Slot
<1>7. \A i \in 1..(k + 1) : i \in 1..k \/ i = k + 1
    BY <1>4
<1>8. DevicesOK'
    <2>1. \A i \in 1..(k + 1) : Fits(devices'[i], allocators'[i])
        BY <1>1, <1>2, <1>5, <1>7 DEF DevicesOK
    <2>. QED BY <1>5, <2>1 DEF DevicesOK, Fits, Device, Allocator, slot_count
<1>9. MapsOK'
    <2>1. \A p \in InSwap : /\ Dev(p) \in 1..k /\ Slot(p) \in allocators[Dev(p)].bitmap
                            /\ devices[Dev(p)].storage[Slot(p)] = p
        BY <1>2 DEF MapsOK
    <2>2. \A p \in InSwap : /\ Dev(p) \in 1..(k + 1) /\ Slot(p) \in allocators'[Dev(p)].bitmap
                            /\ devices'[Dev(p)].storage[Slot(p)] = p
        BY <1>4, <1>5, <2>1
    <2>3. \A i \in 1..(k + 1) : \A s \in allocators'[i].bitmap : \E p \in InSwap : Dev(p) = i /\ Slot(p) = s
        BY <1>1, <1>2, <1>5, <1>7 DEF MapsOK
    <2>4. /\ DOMAIN swap_to_page' = {<<Dev(p), Slot(p)>> : p \in InSwap}
          /\ \A p \in InSwap : swap_to_page'[<<Dev(p), Slot(p)>>] = p
        BY <1>2, <1>3 DEF MapsOK
    <2>5. InSwap \subseteq PageFrames /\ IsFiniteSet(InSwap)
        BY <1>2 DEF MapsOK
    <2>. QED BY <1>5, <1>6, <2>2, <2>3, <2>4, <2>5 DEF MapsOK
<1>10. SumsOK'
    <2> DEFINE v == IF d.kind = "file" THEN n ELSE 0
    <2>1. /\ Totals \in Seq(Nat) /\ Frees \in Seq(Nat) /\ FileTotals \in Seq(Nat) /\ FileFrees \in Seq(Nat)
          /\ Len(Totals) = k /\ Len(Frees) = k /\ Len(FileTotals) = k /\ Len(FileFrees) = k
          /\ Sum(Totals) \in Int /\ Sum(Frees) \in Int /\ Sum(FileTotals) \in Int /\ Sum(FileFrees) \in Int
        BY <1>2, SumTypes
    <2>2a. v \in Nat
        BY <1>1
    <2>2. Totals' = Append(Totals, n)
        <3> DEFINE g == Totals'
        <3>1. /\ IsTable(g, k + 1) /\ g[k + 1] = n
              /\ \A i \in 1..k : g[i] = Totals[i]
            BY <1>1, <1>4, <1>5 DEF IsTable, Totals
        <3> HIDE DEF g, v, k
        <3>2. k \in Nat /\ Totals \in Seq(Nat) /\ Len(Totals) = k /\ n \in Nat
            BY <1>1, <1>4, <2>1, <2>2a
        <3>3. g = Append(Totals, n)
            BY <3>1, <3>2, AppendedTable
        <3>. QED BY <3>3 DEF g
    <2>3. Frees' = Append(Frees, n)
        <3> DEFINE g == Frees'
        <3>1. /\ IsTable(g, k + 1) /\ g[k + 1] = n
              /\ \A i \in 1..k : g[i] = Frees[i]
            BY <1>1, <1>4, <1>5 DEF IsTable, Frees
        <3> HIDE DEF g, v, k
        <3>2. k \in Nat /\ Frees \in Seq(Nat) /\ Len(Frees) = k /\ n \in Nat
            BY <1>1, <1>4, <2>1, <2>2a
        <3>3. g = Append(Frees, n)
            BY <3>1, <3>2, AppendedTable
        <3>. QED BY <3>3 DEF g
    <2>4. FileTotals' = Append(FileTotals, v)
        <3> DEFINE g == FileTotals'
        <3>1. /\ IsTable(g, k + 1) /\ g[k + 1] = v
              /\ \A i \in 1..k : g[i] = FileTotals[i]
            BY <1>1, <1>4, <1>5 DEF IsTable, FileTotals
        <3> HIDE DEF g, v, k
        <3>2. k \in Nat /\ FileTotals \in Seq(Nat) /\ Len(FileTotals) = k /\ v \in Nat
            BY <1>1, <1>4, <2>1, <2>2a
        <3>3. g = Append(FileTotals, v)
            BY <3>1, <3>2, AppendedTable
        <3>. QED BY <3>3 DEF g
    <2>5. FileFrees' = Append(FileFrees, v)
        <3> DEFINE g == FileFrees'
        <3>1. /\ IsTable(g, k + 1) /\ g[k + 1] = v
              /\ \A i \in 1..k : g[i] = FileFrees[i]
            BY <1>1, <1>4, <1>5 DEF IsTable, FileFrees
        <3> HIDE DEF g, v, k
        <3>2. k \in Nat /\ FileFrees \in Seq(Nat) /\ Len(FileFrees) = k /\ v \in Nat
            BY <1>1, <1>4, <2>1, <2>2a
        <3>3. g = Append(FileFrees, v)
            BY <3>1, <3>2, AppendedTable
        <3>. QED BY <3>3 DEF g
    <2>6. v \in Int /\ n \in Int
        BY <1>1
    <2>7. \A f \in Seq(Nat) : f \in Seq(Int)
        OBVIOUS
    <2> HIDE DEF v
    <2>8. /\ Sum(Totals') = Sum(Totals) + n /\ Sum(Frees') = Sum(Frees) + n
          /\ Sum(FileTotals') = Sum(FileTotals) + v /\ Sum(FileFrees') = Sum(FileFrees) + v
        BY <2>1, <2>2, <2>3, <2>4, <2>5, <2>6, <2>7, SumAppend, Zenon
    <2>9. Cardinality(InSwap) \in Nat
        BY <1>2, FS_CardinalityType DEF MapsOK
    <2>10. /\ total_stats' \in [total_slots : Int, used_slots : Int, free_slots : Int]
           /\ total_stats'.total_slots = total_stats.total_slots + n
           /\ total_stats'.free_slots = total_stats.free_slots + n
           /\ total_stats'.used_slots = total_stats.used_slots
        <3> DEFINE x == total_stats.total_slots + n
                   y == total_stats.free_slots + n
        <3>1. total_stats \in [total_slots : Int, used_slots : Int, free_slots : Int]
            BY <1>2 DEF SumsOK
        <3>2. total_stats' = [total_stats EXCEPT !.total_slots = x, !.free_slots = y]
            BY <1>3
        <3>3. x \in Int /\ y \in Int
            BY <2>6, <3>1
        <3> HIDE DEF x, y
        <3>4. /\ total_stats' \in [total_slots : Int, used_slots : Int, free_slots : Int]
              /\ total_stats'.total_slots = x /\ total_stats'.free_slots = y
              /\ total_stats'.used_slots = total_stats.used_slots
            BY <3>1, <3>2, <3>3, Zenon
        <3>. QED BY <3>4 DEF x, y
    <2>11. /\ total_stats \in [total_slots : Int, used_slots : Int, free_slots : Int]
           /\ total_stats.total_slots = Sum(Totals) /\ total_stats.free_slots = Sum(Frees)
           /\ total_stats.used_slots = Sum(Totals) - Sum(Frees)
           /\ Sum(FileTotals) = Cardinality(InSwap) + Sum(FileFrees)
        BY <1>2 DEF SumsOK
    <2>12. /\ total_stats'.total_slots = Sum(Totals') /\ total_stats'.free_slots = Sum(Frees')
           /\ total_stats'.used_slots = Sum(Totals') - Sum(Frees')
        BY <2>1, <2>6, <2>8, <2>10, <2>11
    <2>13. Sum(FileTotals') = Cardinality(InSwap) + Sum(FileFrees')
        BY <2>1, <2>6, <2>8, <2>9, <2>11
    <2>. QED BY <1>6, <2>10, <2>12, <2>13 DEF SumsOK
<1>. QED BY <1>6, <1>8, <1>9, <1>10 DEF ManagerInv

\* No page is on a later device, so that no index moves.
LEMMA RemoveDevice ==
    ASSUME ~ RemoveBelowUsed, ManagerInv, NEW i, remove_device(i)
    PROVE  ManagerInv' /\ InSwap' = InSwap
<1> DEFINE k == Len(devices)
<1>1. DevicesOK /\ MapsOK /\ SumsOK
    BY DEF ManagerInv
<1>2. /\ k \in Nat /\ devices \in Seq(Device) /\ allocators \in Seq(Allocator) /\ Len(allocators) = k
      /\ \A j \in 1..k : Fits(devices[j], allocators[j])
    BY <1>1 DEF DevicesOK
<1>3. /\ i \in 1..k /\ allocators[i].bitmap = {} /\ ~ UsedAfter(i)
      /\ devices' = RemovedAt(devices, i) /\ allocators' = RemovedAt(allocators, i)
      /\ page_to_swap' = page_to_swap
      /\ total_stats' = [total_stats EXCEPT !.total_slots = @ - allocators[i].total_slots,
                                            !.free_slots = @ - allocators[i].free_slots]
    BY <1>2 DEF remove_device, MayRemove
<1>4. InSwap' = InSwap /\ \A p : Dev(p)' = Dev(p) /\ Slot(p)' = Slot(p)
    BY <1>3 DEF InSwap, Dev, Slot
<1>5. \A p \in InSwap : /\ Dev(p) \in 1..k /\ Dev(p) < i /\ Slot(p) \in allocators[Dev(p)].bitmap
                        /\ devices[Dev(p)].storage[Slot(p)] = p
    <2>1. \A p \in InSwap : /\ Dev(p) \in 1..k /\ Slot(p) \in allocators[Dev(p)].bitmap
                            /\ devices[Dev(p)].storage[Slot(p)] = p
        BY <1>1 DEF MapsOK
    <2>2. \A p \in InSwap : ~ (Dev(p) > i)
        BY <1>3 DEF UsedAfter, InSwap, Dev
    <2>. QED BY <1>2, <1>3, <2>1, <2>2
<1>6. /\ devices' \in Seq(Device) /\ Len(devices') = k - 1 /\ k - 1 \in Nat
      /\ \A j \in 1..(k - 1) : devices'[j] = IF j < i THEN devices[j] ELSE devices[j + 1]
    BY <1>2, <1>3, RemovedAtFacts, Zenon
<1>7. /\ allocators' \in Seq(Allocator) /\ Len(allocators') = k - 1
      /\ \A j \in 1..(k - 1) : allocators'[j] = IF j < i THEN allocators[j] ELSE allocators[j + 1]
    BY <1>2, <1>3, RemovedAtFacts
<1>8. \A j \in 1..(k - 1) : j \in 1..k /\ j + 1 \in 1..k
    BY <1>2
<1>9. DevicesOK'
    <2>1. \A j \in 1..(k - 1) : Fits(devices'[j], allocators'[j])
        BY <1>2, <1>6, <1>7, <1>8, Zenon
    <2>. QED BY <1>6, <1>7, <2>1, Zenon DEF DevicesOK, Fits, Device, Allocator, slot_count
<1>10. swap_to_page' = swap_to_page
       \/ /\ DOMAIN swap_to_page' = DOMAIN swap_to_page
          /\ \A e \in DOMAIN swap_to_page : swap_to_page'[e] = swap_to_page[e]
    <2> DEFINE kept == {e \in DOMAIN swap_to_page : e[1] # i}
               old(e) == IF e[1] >= i THEN <<e[1] + 1, e[2]>> ELSE e
               low(e) == <<IF e[1] > i THEN e[1] - 1 ELSE e[1], e[2]>>
               new == {low(e) : e \in kept}
    <2>1. swap_to_page' = [e \in new |-> swap_to_page[old(e)]]
        BY DEF remove_device
    <2>2. \A e \in DOMAIN swap_to_page : \E p \in InSwap : e = <<Dev(p), Slot(p)>>
        BY <1>1 DEF MapsOK
    <2>3. \A e \in DOMAIN swap_to_page : e[1] \in Nat /\ e[1] < i /\ e = <<e[1], e[2]>>
        BY <1>2, <1>5, <2>2
    <2>4. \A e \in DOMAIN swap_to_page : e \in kept /\ low(e) = e /\ old(e) = e
        BY <1>2, <1>3, <2>3
    <2>5. new = DOMAIN swap_to_page
        <3> HIDE DEF low
        <3>. QED BY <2>4
    <2> HIDE DEF new, old
    <2>. QED BY <2>1, <2>4, <2>5
<1>11. MapsOK'
    <2>1. \A p \in InSwap : /\ Dev(p) \in 1..(k - 1) /\ Slot(p) \in allocators'[Dev(p)].bitmap
                            /\ devices'[Dev(p)].storage[Slot(p)] = p
        <3> SUFFICES ASSUME NEW p \in InSwap
                     PROVE  /\ Dev(p) \in 1..(k - 1) /\ Slot(p) \in allocators'[Dev(p)].bitmap
                            /\ devices'[Dev(p)].storage[Slot(p)] = p
            OBVIOUS
        <3>1. Dev(p) \in 1..(k - 1) /\ Dev(p) < i
            BY <1>2, <1>3, <1>5
        <3>2. devices'[Dev(p)] = devices[Dev(p)] /\ allocators'[Dev(p)] = allocators[Dev(p)]
            BY <1>6, <1>7, <3>1
        <3>. QED BY <1>5, <3>1, <3>2
    <2>2. ASSUME NEW j \in 1..(k - 1), NEW s \in allocators'[j].bitmap
          PROVE  \E p \in InSwap : Dev(p) = j /\ Slot(p) = s
        <3>1. CASE j < i
            BY <1>1, <1>7, <1>8, <2>2, <3>1 DEF MapsOK
        <3>2. CASE j >= i
            <4>1. s \in allocators[j + 1].bitmap /\ j + 1 \in 1..k
                BY <1>2, <1>3, <1>7, <1>8, <2>2, <3>2
            <4>2. PICK p \in InSwap : Dev(p) = j + 1
                BY <1>1, <4>1 DEF MapsOK
            <4>. QED BY <1>2, <1>3, <1>5, <3>2, <4>2
        <3>. QED BY <1>2, <1>3, <3>1, <3>2
    <2>3. /\ DOMAIN swap_to_page' = {<<Dev(p), Slot(p)>> : p \in InSwap}
          /\ \A p \in InSwap : swap_to_page'[<<Dev(p), Slot(p)>>] = p
        BY <1>1, <1>10 DEF MapsOK
    <2>4. InSwap \subseteq PageFrames /\ IsFiniteSet(InSwap)
        BY <1>1 DEF MapsOK
    <2>. QED BY <1>4, <1>6, <2>1, <2>2, <2>3, <2>4 DEF MapsOK
<1>12. SumsOK'
    <2> DEFINE n == allocators[i].total_slots
               m == allocators[i].free_slots
               v == IF devices[i].kind = "file" THEN n ELSE 0
    <2>1. n \in Int /\ m = n /\ v \in Int
        <3>1. Fits(devices[i], allocators[i])
            BY <1>2, <1>3
        <3>2. n \in Nat /\ m = n - Cardinality({})
            BY <1>3, <3>1, FitsFacts, Zenon DEF Fits
        <3>3. Cardinality({}) = 0
            BY FS_EmptySet
        <3> HIDE DEF n, m
        <3>. QED BY <3>2, <3>3
    <2>2. /\ Totals \in Seq(Nat) /\ Frees \in Seq(Nat) /\ FileTotals \in Seq(Nat) /\ FileFrees \in Seq(Nat)
          /\ Len(Totals) = k /\ Len(Frees) = k /\ Len(FileTotals) = k /\ Len(FileFrees) = k
          /\ Sum(Totals) \in Int /\ Sum(Frees) \in Int /\ Sum(FileTotals) \in Int /\ Sum(FileFrees) \in Int
        BY <1>1, SumTypes
    <2>3. \A f \in Seq(Nat) : f \in Seq(Int)
        OBVIOUS
    <2>4. Totals[i] = n /\ Frees[i] = m /\ FileTotals[i] = v /\ (m = n => FileFrees[i] = v)
        BY <1>3 DEF Totals, Frees, FileTotals, FileFrees
    <2>5. Totals' = RemovedAt(Totals, i)
        BY <1>2, <1>6, <1>7, <1>8, <2>2, Zenon DEF Totals, RemovedAt
    <2>6. Frees' = RemovedAt(Frees, i)
        BY <1>2, <1>6, <1>7, <1>8, <2>2, Zenon DEF Frees, RemovedAt
    <2>7. FileTotals' = RemovedAt(FileTotals, i)
        BY <1>2, <1>6, <1>7, <1>8, <2>2, Zenon DEF FileTotals, RemovedAt
    <2>8. FileFrees' = RemovedAt(FileFrees, i)
        BY <1>2, <1>6, <1>7, <1>8, <2>2, Zenon DEF FileFrees, RemovedAt
    <2> HIDE DEF v, n, m
    <2>9. /\ Sum(Totals) = n + Sum(Totals') /\ Sum(Frees) = n + Sum(Frees')
          /\ Sum(FileTotals) = v + Sum(FileTotals') /\ Sum(FileFrees) = v + Sum(FileFrees')
        BY <1>3, <2>1, <2>2, <2>3, <2>4, <2>5, <2>6, <2>7, <2>8, SumRemovedAt, Zenon
    <2>10. /\ Sum(Totals') \in Int /\ Sum(Frees') \in Int
           /\ Sum(FileTotals') \in Int /\ Sum(FileFrees') \in Int
        BY <1>3, <2>2, <2>3, <2>5, <2>6, <2>7, <2>8, RemovedAtFacts, SumSeqInt
    <2>11. Cardinality(InSwap) \in Nat
        BY <1>1, FS_CardinalityType DEF MapsOK
    <2>12. /\ total_stats' \in [total_slots : Int, used_slots : Int, free_slots : Int]
           /\ total_stats'.total_slots = total_stats.total_slots - n
           /\ total_stats'.free_slots = total_stats.free_slots - n
           /\ total_stats'.used_slots = total_stats.used_slots
        <3> DEFINE x == total_stats.total_slots - n
                   y == total_stats.free_slots - n
        <3>1. total_stats \in [total_slots : Int, used_slots : Int, free_slots : Int]
            BY <1>1 DEF SumsOK
        <3>2. total_stats' = [total_stats EXCEPT !.total_slots = x, !.free_slots = y]
            BY <1>3, <2>1 DEF n, m
        <3>3. x \in Int /\ y \in Int
            BY <2>1, <3>1
        <3> HIDE DEF x, y
        <3>4. /\ total_stats' \in [total_slots : Int, used_slots : Int, free_slots : Int]
              /\ total_stats'.total_slots = x /\ total_stats'.free_slots = y
              /\ total_stats'.used_slots = total_stats.used_slots
            BY <3>1, <3>2, <3>3, Zenon
        <3>. QED BY <3>4 DEF x, y
    <2>13. n \in Int /\ v \in Int
        BY <2>1
    <2>14. /\ Sum(Totals') = Sum(Totals) - n /\ Sum(Frees') = Sum(Frees) - n
           /\ Sum(FileTotals') = Sum(FileTotals) - v /\ Sum(FileFrees') = Sum(FileFrees) - v
        <3>1. ASSUME NEW x \in Int, NEW y \in Int, NEW z \in Int, x = y + z PROVE z = x - y
            BY <3>1
        <3>2. Sum(Totals') = Sum(Totals) - n
            BY <2>2, <2>9, <2>10, <2>13, <3>1
        <3>3. Sum(Frees') = Sum(Frees) - n
            BY <2>2, <2>9, <2>10, <2>13, <3>1
        <3>4. Sum(FileTotals') = Sum(FileTotals) - v
            BY <2>2, <2>9, <2>10, <2>13, <3>1
        <3>5. Sum(FileFrees') = Sum(FileFrees) - v
            BY <2>2, <2>9, <2>10, <2>13, <3>1
        <3>. QED BY <3>2, <3>3, <3>4, <3>5
    <2>15. /\ total_stats.total_slots = Sum(Totals) /\ total_stats.free_slots = Sum(Frees)
           /\ total_stats.used_slots = Sum(Totals) - Sum(Frees)
           /\ Sum(FileTotals) = Cardinality(InSwap) + Sum(FileFrees)
        BY <1>1 DEF SumsOK
    <2>16. /\ total_stats'.total_slots = Sum(Totals') /\ total_stats'.free_slots = Sum(Frees')
           /\ total_stats'.used_slots = Sum(Totals') - Sum(Frees')
        BY <2>1, <2>2, <2>12, <2>14, <2>15
    <2>17. Sum(FileTotals') = Cardinality(InSwap) + Sum(FileFrees')
        BY <2>1, <2>2, <2>11, <2>14, <2>15
    <2>. QED BY <1>4, <2>12, <2>16, <2>17 DEF SumsOK
<1>. QED BY <1>4, <1>9, <1>11, <1>12 DEF ManagerInv

\* The allocators move: only the number of free slots of file i changes, by c.
Moves(i, c) ==
    /\ Len(devices') = Len(devices)
    /\ \A j \in 1..Len(devices) :
        /\ devices'[j].kind = devices[j].kind
        /\ allocators'[j].total_slots = allocators[j].total_slots
        /\ allocators'[j].free_slots =
               IF j = i THEN allocators[j].free_slots + c ELSE allocators[j].free_slots

LEMMA SumsMove ==
    ASSUME DevicesOK, NEW i \in 1..Len(devices), devices[i].kind = "file", NEW c \in Int, Moves(i, c)
    PROVE  /\ Totals' = Totals /\ FileTotals' = FileTotals
           /\ Sum(Frees') = Sum(Frees) + c /\ Sum(FileFrees') = Sum(FileFrees) + c
<1> DEFINE n == Len(devices)
<1>1. Totals' = Totals /\ FileTotals' = FileTotals
    BY DEF Moves, Totals, FileTotals
<1>2. /\ Frees \in Seq(Nat) /\ FileFrees \in Seq(Nat) /\ Len(Frees) = n /\ Len(FileFrees) = n
      /\ IsFiniteSet(1..n) /\ n \in Nat /\ Sum(Frees) \in Int /\ Sum(FileFrees) \in Int
    BY SumTypes
<1>3. Frees \in [1..n -> Int] /\ FileFrees \in [1..n -> Int]
    BY <1>2
<1> DEFINE v == allocators[i].free_slots + c
<1>4. Frees[i] = allocators[i].free_slots /\ FileFrees[i] = allocators[i].free_slots
    BY DEF Frees, FileFrees
<1>5. allocators[i].free_slots \in Int /\ v \in Int
    BY <1>3, <1>4
<1>6. Frees' = [Frees EXCEPT ![i] = v]
    BY Zenon DEF Frees, Moves
<1>7. FileFrees' = [FileFrees EXCEPT ![i] = v]
    BY Zenon DEF FileFrees, Moves
<1> HIDE DEF v
<1>8. /\ Sum(Frees') = Sum(Frees) - Frees[i] + v
      /\ Sum(FileFrees') = Sum(FileFrees) - FileFrees[i] + v
    BY <1>2, <1>3, <1>5, <1>6, <1>7, SumUpdate, Zenon
<1>9. \A x, y \in Int : x - y + (y + c) = x + c
    OBVIOUS
<1>10. v = Frees[i] + c /\ v = FileFrees[i] + c /\ Frees[i] \in Int /\ FileFrees[i] \in Int
    BY <1>4, <1>5 DEF v
<1>11. Sum(Frees') = Sum(Frees) + c /\ Sum(FileFrees') = Sum(FileFrees) + c
    BY <1>2, <1>8, <1>9, <1>10, Zenon
<1>. QED BY <1>1, <1>11

\* Devices that were tried in vain look as before.
LEMMA TriedFacts ==
    ASSUME DevicesOK, NEW u
    PROVE  /\ Tried(u) \in Seq(Allocator) /\ Len(Tried(u)) = Len(devices)
           /\ \A j \in 1..Len(devices) :
                /\ Fits(devices[j], Tried(u)[j]) /\ Tried(u)[j].bitmap = allocators[j].bitmap
                /\ Tried(u)[j].total_slots = allocators[j].total_slots
                /\ Tried(u)[j].free_slots = allocators[j].free_slots
                /\ ~ (j < u) => Tried(u)[j] = allocators[j]
<1> DEFINE n == Len(devices)
           t == Tried(u)
<1>1. n \in Nat /\ DOMAIN allocators = 1..n /\ \A j \in 1..n : Fits(devices[j], allocators[j])
    BY DEF DevicesOK
<1>2. t = [j \in 1..n |-> IF j < u /\ devices[j].kind = "partition"
                           THEN AfterFailedWrite(allocators[j]) ELSE allocators[j]]
    BY <1>1 DEF Tried
<1>3. ASSUME NEW j \in 1..n
      PROVE  /\ Fits(devices[j], t[j]) /\ t[j].bitmap = allocators[j].bitmap
             /\ t[j].total_slots = allocators[j].total_slots
             /\ t[j].free_slots = allocators[j].free_slots
             /\ ~ (j < u) => t[j] = allocators[j]
    <2>1. t[j] = allocators[j] \/ (j < u /\ t[j] = AfterFailedWrite(allocators[j]))
        BY <1>2, <1>3
    <2> HIDE DEF t
    <2>. QED BY <1>1, <2>1, FailedWriteFacts, Zenon
<1>4. t \in [1..n -> Allocator]
    <2>1. \A j \in 1..n : t[j] \in Allocator
        BY <1>3 DEF Fits
    <2> HIDE DEF n
    <2>2. t = [j \in 1..n |-> t[j]]
        BY <1>2
    <2> HIDE DEF t
    <2>. QED BY <2>1, <2>2
<1> HIDE DEF n, t
<1>5. t \in Seq(Allocator) /\ Len(t) = n
    BY <1>1, <1>4
<1>. QED BY <1>3, <1>5 DEF t, n

\* Every device was tried: only hints of partitions moved.
LEMMA SwapOutFails ==
    ASSUME ManagerInv, NEW p, swap_out_page_fails(p)
    PROVE  ManagerInv' /\ InSwap' = InSwap
<1> DEFINE n == Len(devices)
<1>1. DevicesOK /\ MapsOK /\ SumsOK
    BY DEF ManagerInv
<1>2. /\ devices' = devices /\ page_to_swap' = page_to_swap /\ swap_to_page' = swap_to_page
      /\ total_stats' = total_stats /\ allocators' = Tried(n + 1)
    BY DEF swap_out_page_fails
<1>3. /\ allocators' \in Seq(Allocator) /\ Len(allocators') = n
      /\ \A j \in 1..n : /\ Fits(devices[j], allocators'[j])
                         /\ allocators'[j].bitmap = allocators[j].bitmap
                         /\ allocators'[j].total_slots = allocators[j].total_slots
                         /\ allocators'[j].free_slots = allocators[j].free_slots
    BY <1>1, <1>2, TriedFacts
<1>4. DevicesOK'
    BY <1>1, <1>2, <1>3, Zenon DEF DevicesOK, Fits, Device, Allocator
<1>5. InSwap' = InSwap /\ \A q : Dev(q)' = Dev(q) /\ Slot(q)' = Slot(q)
    BY <1>2 DEF InSwap, Dev, Slot
<1>6. MapsOK'
    BY <1>1, <1>2, <1>3, <1>5, Zenon DEF MapsOK
<1>7. Totals' = Totals /\ Frees' = Frees /\ FileTotals' = FileTotals /\ FileFrees' = FileFrees
    BY <1>2, <1>3 DEF Totals, Frees, FileTotals, FileFrees
<1>8. SumsOK'
    BY <1>1, <1>2, <1>5, <1>7 DEF SumsOK
<1>. QED BY <1>4, <1>5, <1>6, <1>8 DEF ManagerInv

\* A page is stored: there was room, and no slot that holds a page is written.
LEMMA SwapOut ==
    ASSUME ManagerInv, NEW p \in PageFrames, swap_out_page(p)
    PROVE  /\ ManagerInv' /\ p \notin InSwap /\ InSwap' = InSwap \cup {p}
           /\ FileSlots' = FileSlots /\ Cardinality(InSwap) < FileSlots
<1> DEFINE n == Len(devices)
           i == Min(Writable)
           s == NextFree(allocators[i])
<1>1. DevicesOK /\ MapsOK /\ SumsOK
    BY DEF ManagerInv
<1>2. /\ n \in Nat /\ devices \in Seq(Device) /\ allocators \in Seq(Allocator) /\ Len(allocators) = n
      /\ \A j \in 1..n : Fits(devices[j], allocators[j])
    BY <1>1 DEF DevicesOK
<1>3. i \in 1..n /\ devices[i].kind = "file" /\ HasFree(allocators[i])
    <2>1. Writable \in SUBSET Nat /\ Writable # {}
        BY <1>2 DEF Writable, swap_out_page
    <2>2. i \in Writable
        BY <2>1, MinFacts
    <2>. QED BY <1>2, <2>2 DEF Writable
<1>4. /\ p \notin InSwap
      /\ devices' = [devices EXCEPT ![i].storage[s] = p]
      /\ allocators' = [Tried(i) EXCEPT ![i] = allocate_slot(@)]
      /\ page_to_swap' = [q \in InSwap \cup {p} |->
            IF q = p THEN [device_index |-> i, slot |-> s] ELSE page_to_swap[q]]
      /\ swap_to_page' = [e \in DOMAIN swap_to_page \cup {<<i, s>>} |->
            IF e = <<i, s>> THEN p ELSE swap_to_page[e]]
      /\ total_stats' = [total_stats EXCEPT !.used_slots = @ + 1, !.free_slots = @ - 1]
    BY DEF swap_out_page, NotSwapped, InSwap
<1>5. s \in Slots(allocators[i].total_slots) /\ s \notin allocators[i].bitmap
    BY <1>2, <1>3, NextFreeFacts
<1> HIDE DEF i, s
<1> DEFINE a == allocate_slot(allocators[i])
<1>6. /\ devices' \in [1..n -> Device] /\ devices'[i].kind = "file"
      /\ DOMAIN devices'[i].storage = DOMAIN devices[i].storage
      /\ devices'[i].storage[s] = p
      /\ \A r \in DOMAIN devices[i].storage : r # s => devices'[i].storage[r] = devices[i].storage[r]
      /\ \A j \in 1..n : j # i => devices'[j] = devices[j]
    <2> DEFINE d == devices[i]
               e == [d EXCEPT !.storage = [d.storage EXCEPT ![s] = p]]
               m == allocators[i].total_slots
    <2>1. devices' = [devices EXCEPT ![i] = e]
        BY <1>3, <1>4
    <2>2. /\ m \in SlotCounts /\ s \in Slots(m) /\ d \in Device
          /\ d.storage \in [Slots(m) -> PageFrames \cup {Nothing}]
        BY <1>2, <1>3, <1>5, FitsFacts, Zenon DEF Fits
    <2>3. [d.storage EXCEPT ![s] = p] \in [Slots(m) -> PageFrames \cup {Nothing}]
        BY <2>2
    <2> DEFINE g == [d.storage EXCEPT ![s] = p]
    <2>4. g[s] = p /\ DOMAIN g = DOMAIN d.storage /\ \A r \in DOMAIN d.storage : r # s => g[r] = d.storage[r]
        BY <2>2
    <2> HIDE DEF g, m, d
    <2>5. e \in Device /\ e.storage = g /\ e.kind = d.kind
        BY <2>2, <2>3 DEF Device, g
    <2>6. devices \in [1..n -> Device]
        BY <1>2
    <2> HIDE DEF e
    <2>7. devices' \in [1..n -> Device] /\ devices'[i] = e /\ \A j \in 1..n : j # i => devices'[j] = devices[j]
        BY <1>3, <2>1, <2>5, <2>6
    <2>. QED BY <1>3, <2>4, <2>5, <2>7 DEF d
<1>7. /\ devices' \in Seq(Device) /\ Len(devices') = n
    BY <1>2, <1>6
<1>8. /\ Fits(devices'[i], a) /\ a.bitmap = allocators[i].bitmap \cup {s}
      /\ a.total_slots = allocators[i].total_slots /\ a.free_slots = allocators[i].free_slots - 1
    <2>1. devices'[i] \in Device
        BY <1>3, <1>6
    <2>. QED BY <1>2, <1>3, <1>6, <2>1, AllocateFacts DEF s
<1>9. /\ allocators' \in Seq(Allocator) /\ Len(allocators') = n /\ allocators'[i] = a
      /\ \A j \in 1..n : j # i => /\ Fits(devices[j], allocators'[j])
                                  /\ allocators'[j].bitmap = allocators[j].bitmap
                                  /\ allocators'[j].total_slots = allocators[j].total_slots
                                  /\ allocators'[j].free_slots = allocators[j].free_slots
    <2> DEFINE t == Tried(i)
    <2>1. /\ t \in Seq(Allocator) /\ Len(t) = n
          /\ \A j \in 1..n : /\ Fits(devices[j], t[j]) /\ t[j].bitmap = allocators[j].bitmap
                             /\ t[j].total_slots = allocators[j].total_slots
                             /\ t[j].free_slots = allocators[j].free_slots
                             /\ ~ (j < i) => t[j] = allocators[j]
        BY <1>1, TriedFacts
    <2>2. t[i] = allocators[i]
        BY <1>2, <1>3, <2>1
    <2>3. allocators' = [t EXCEPT ![i] = a]
        BY <1>4, <2>2
    <2>4. a \in Allocator
        BY <1>8 DEF Fits
    <2> HIDE DEF t, a
    <2>5. allocators' \in Seq(Allocator) /\ Len(allocators') = n /\ allocators'[i] = a
          /\ \A j \in 1..n : j # i => allocators'[j] = t[j]
        BY <1>3, <2>1, <2>3, <2>4
    <2>. QED BY <2>1, <2>5
<1> HIDE DEF a
<1>10. DevicesOK'
    <2>1. \A j \in 1..n : Fits(devices'[j], allocators'[j])
        BY <1>6, <1>8, <1>9
    <2>. QED BY <1>7, <1>9, <2>1, Zenon DEF DevicesOK, Fits, Device, Allocator
<1>11. /\ InSwap' = InSwap \cup {p}
       /\ Dev(p)' = i /\ Slot(p)' = s
       /\ \A q \in InSwap : Dev(q)' = Dev(q) /\ Slot(q)' = Slot(q)
    BY <1>4 DEF InSwap, Dev, Slot
<1>12. \A q \in InSwap : /\ Dev(q) \in 1..n /\ Slot(q) \in allocators[Dev(q)].bitmap
                         /\ devices[Dev(q)].storage[Slot(q)] = q
                         /\ <<Dev(q), Slot(q)>> # <<i, s>>
    BY <1>1, <1>5 DEF MapsOK
<1>13. MapsOK'
    <2>1. ASSUME NEW q \in InSwap
          PROVE  /\ Slot(q) \in allocators'[Dev(q)].bitmap /\ devices'[Dev(q)].storage[Slot(q)] = q
        <3>1. CASE Dev(q) # i
            BY <1>6, <1>9, <1>12, <3>1
        <3>2. CASE Dev(q) = i
            <4>1. Slot(q) # s /\ Slot(q) \in allocators[i].bitmap
                BY <1>12, <3>2
            <4>2. Slot(q) \in DOMAIN devices[i].storage
                BY <1>2, <1>3, <4>1, Zenon DEF Fits
            <4>. QED BY <1>6, <1>8, <1>9, <1>12, <3>2, <4>1, <4>2
        <3>. QED BY <3>1, <3>2
    <2>2. s \in allocators'[i].bitmap /\ devices'[i].storage[s] = p
        BY <1>6, <1>8, <1>9
    <2>3. \A q \in InSwap' : /\ Dev(q)' \in 1..n /\ Slot(q)' \in allocators'[Dev(q)'].bitmap
                             /\ devices'[Dev(q)'].storage[Slot(q)'] = q
        BY <1>3, <1>11, <1>12, <2>1, <2>2
    <2>4. ASSUME NEW j \in 1..n, NEW r \in allocators'[j].bitmap
          PROVE  \E q \in InSwap' : Dev(q)' = j /\ Slot(q)' = r
        <3>1. CASE j = i /\ r = s
            BY <1>11, <3>1
        <3>2. CASE ~ (j = i /\ r = s)
            <4>1. r \in allocators[j].bitmap
                BY <1>8, <1>9, <2>4, <3>2
            <4>2. PICK q \in InSwap : Dev(q) = j /\ Slot(q) = r
                BY <1>1, <4>1 DEF MapsOK
            <4>. QED BY <1>11, <4>2
        <3>. QED BY <3>1, <3>2
    <2>5. DOMAIN swap_to_page' = {<<Dev(q)', Slot(q)'>> : q \in InSwap'}
        <3>1. DOMAIN swap_to_page' = DOMAIN swap_to_page \cup {<<i, s>>}
            BY <1>4
        <3>2. DOMAIN swap_to_page = {<<Dev(q), Slot(q)>> : q \in InSwap}
            BY <1>1 DEF MapsOK
        <3>. QED BY <1>11, <3>1, <3>2
    <2>6. \A q \in InSwap' : swap_to_page'[<<Dev(q)', Slot(q)'>>] = q
        <3>1. swap_to_page'[<<i, s>>] = p
            BY <1>4
        <3>2. ASSUME NEW q \in InSwap PROVE swap_to_page'[<<Dev(q), Slot(q)>>] = q
            <4>1. <<Dev(q), Slot(q)>> \in DOMAIN swap_to_page /\ swap_to_page[<<Dev(q), Slot(q)>>] = q
                BY <1>1 DEF MapsOK
            <4>. QED BY <1>4, <1>12, <4>1
        <3>. QED BY <1>11, <3>1, <3>2
    <2>7. InSwap' \subseteq PageFrames /\ IsFiniteSet(InSwap')
        BY <1>1, <1>11, FS_AddElement DEF MapsOK
    <2>. QED BY <1>7, <2>3, <2>4, <2>5, <2>6, <2>7 DEF MapsOK
<1>14. Moves(i, -1)
    BY <1>3, <1>6, <1>7, <1>8, <1>9, Zenon DEF Moves
<1>15. /\ Totals' = Totals /\ FileTotals' = FileTotals
       /\ Sum(Frees') = Sum(Frees) - 1 /\ Sum(FileFrees') = Sum(FileFrees) - 1
    <2>1. -1 \in Int
        OBVIOUS
    <2>2. Sum(Frees) \in Int /\ Sum(FileFrees) \in Int
        BY <1>1, SumTypes
    <2>. QED BY <1>1, <1>3, <1>14, <2>1, <2>2, SumsMove
<1>16. Cardinality(InSwap') = Cardinality(InSwap) + 1 /\ Cardinality(InSwap) \in Nat
    BY <1>1, <1>4, <1>11, FS_AddElement, FS_CardinalityType DEF MapsOK
<1>17. /\ total_stats' \in [total_slots : Int, used_slots : Int, free_slots : Int]
       /\ total_stats'.total_slots = total_stats.total_slots
       /\ total_stats'.free_slots = total_stats.free_slots - 1
       /\ total_stats'.used_slots = total_stats.used_slots + 1
    <2> DEFINE x == total_stats.used_slots + 1
               y == total_stats.free_slots - 1
    <2>1. total_stats \in [total_slots : Int, used_slots : Int, free_slots : Int]
        BY <1>1 DEF SumsOK
    <2>2. total_stats' = [total_stats EXCEPT !.used_slots = x, !.free_slots = y]
        BY <1>4
    <2>3. x \in Int /\ y \in Int
        BY <2>1
    <2> HIDE DEF x, y
    <2>4. /\ total_stats' \in [total_slots : Int, used_slots : Int, free_slots : Int]
          /\ total_stats'.used_slots = x /\ total_stats'.free_slots = y
          /\ total_stats'.total_slots = total_stats.total_slots
        BY <2>1, <2>2, <2>3, Zenon
    <2>. QED BY <2>4 DEF x, y
<1>18. /\ Sum(Totals) \in Int /\ Sum(Frees) \in Int /\ Sum(FileTotals) \in Int /\ Sum(FileFrees) \in Int
       /\ FileSlots = Sum(FileTotals)
    BY <1>1, SumTypes
<1>19. SumsOK'
    BY <1>1, <1>15, <1>16, <1>17, <1>18 DEF SumsOK
<1>20. FileFrees[i] <= Sum(FileFrees) /\ FileFrees[i] = allocators[i].free_slots
    <2>1. FileFrees \in Seq(Nat) /\ Len(FileFrees) = n /\ IsFiniteSet(1..n)
        BY <1>1, SumTypes
    <2>2. FileFrees \in [1..n -> Nat]
        BY <2>1
    <2>3. FileFrees[i] <= Sum(FileFrees)
        BY <1>3, <2>1, <2>2, SumNat
    <2>. QED BY <1>3, <2>3, Zenon DEF FileFrees
<1>21. allocators[i].free_slots \in Nat /\ allocators[i].free_slots > 0
    BY <1>2, <1>3, FitsFacts DEF HasFree
<1>22. Cardinality(InSwap) < FileSlots
    <2>1. Sum(FileTotals) = Cardinality(InSwap) + Sum(FileFrees)
        BY <1>1 DEF SumsOK
    <2>. QED BY <1>16, <1>18, <1>20, <1>21, <2>1
<1>23. FileSlots' = FileSlots
    <2>1. \A j \in 1..n : slot_count(devices'[j]) = slot_count(devices[j]) /\ devices'[j].kind = devices[j].kind
        BY <1>3, <1>6 DEF slot_count
    <2>2. DOMAIN devices = 1..n /\ DOMAIN devices' = 1..n
        BY <1>2, <1>6
    <2> DEFINE f == [j \in 1..n |-> IF devices[j].kind = "file" THEN slot_count(devices[j]) ELSE 0]
               g == [j \in 1..n |-> IF devices'[j].kind = "file" THEN slot_count(devices'[j]) ELSE 0]
    <2>3. f = g
        BY <2>1
    <2>4. FileSlots = Sum(f) /\ FileSlots' = Sum(g)
        BY <2>2, Zenon DEF FileSlots, slot_count
    <2>. QED BY <2>3, <2>4
<1>. QED BY <1>4, <1>10, <1>11, <1>13, <1>19, <1>22, <1>23 DEF ManagerInv

\* A page is read back: its slot is free again, and it is the only page that was there.
LEMMA SwapIn ==
    ASSUME ManagerInv, NEW p, swap_in_page(p)
    PROVE  ManagerInv' /\ p \in InSwap /\ InSwap' = InSwap \ {p} /\ FileSlots' = FileSlots
<1> DEFINE n == Len(devices)
           i == Dev(p)
           s == Slot(p)
           a == deallocate_slot(allocators[i], s)
<1>1. DevicesOK /\ MapsOK /\ SumsOK
    BY DEF ManagerInv
<1>2. /\ n \in Nat /\ devices \in Seq(Device) /\ allocators \in Seq(Allocator) /\ Len(allocators) = n
      /\ \A j \in 1..n : Fits(devices[j], allocators[j])
    BY <1>1 DEF DevicesOK
<1>3. /\ p \in InSwap /\ devices' = devices
      /\ i \in 1..n /\ devices[i].kind = "file" /\ s \in allocators[i].bitmap
      /\ allocators' = [allocators EXCEPT ![i] = a]
      /\ page_to_swap' = [q \in InSwap \ {p} |-> page_to_swap[q]]
      /\ swap_to_page' = [e \in DOMAIN swap_to_page \ {<<i, s>>} |-> swap_to_page[e]]
      /\ total_stats' = [total_stats EXCEPT !.used_slots = @ - 1, !.free_slots = @ + 1]
    BY <1>2 DEF swap_in_page, InSwap, Dev, Slot, Restrict
<1>4. /\ Fits(devices[i], a) /\ a.bitmap = allocators[i].bitmap \ {s}
      /\ a.total_slots = allocators[i].total_slots /\ a.free_slots = allocators[i].free_slots + 1
    BY <1>2, <1>3, DeallocateFacts
<1> HIDE DEF i, s, a
<1>5. /\ allocators' \in Seq(Allocator) /\ Len(allocators') = n /\ allocators'[i] = a
      /\ \A j \in 1..n : j # i => allocators'[j] = allocators[j]
    <2>1. a \in Allocator
        BY <1>4 DEF Fits
    <2>. QED BY <1>2, <1>3, <2>1
<1>6. DevicesOK'
    <2>1. \A j \in 1..n : Fits(devices[j], allocators'[j])
        BY <1>2, <1>4, <1>5
    <2>. QED BY <1>1, <1>3, <1>5, <2>1, Zenon DEF DevicesOK, Fits, Device, Allocator
<1>7. InSwap' = InSwap \ {p} /\ \A q \in InSwap \ {p} : Dev(q)' = Dev(q) /\ Slot(q)' = Slot(q)
    BY <1>3 DEF InSwap, Dev, Slot
<1>8. \A q \in InSwap : /\ Dev(q) \in 1..n /\ Slot(q) \in allocators[Dev(q)].bitmap
                        /\ devices[Dev(q)].storage[Slot(q)] = q
                        /\ q # p => <<Dev(q), Slot(q)>> # <<i, s>>
    BY <1>1, <1>3 DEF MapsOK, i, s
<1>9. MapsOK'
    <2>1. \A q \in InSwap \ {p} : Slot(q) \in allocators'[Dev(q)].bitmap
        BY <1>3, <1>4, <1>5, <1>8
    <2>2. ASSUME NEW j \in 1..n, NEW r \in allocators'[j].bitmap
          PROVE  \E q \in InSwap' : Dev(q)' = j /\ Slot(q)' = r
        <3>1. r \in allocators[j].bitmap /\ ~ (j = i /\ r = s)
            BY <1>4, <1>5, <2>2
        <3>2. PICK q \in InSwap : Dev(q) = j /\ Slot(q) = r
            BY <1>1, <3>1 DEF MapsOK
        <3>3. q # p
            BY <3>1, <3>2 DEF i, s
        <3>. QED BY <1>7, <3>2, <3>3
    <2>3. DOMAIN swap_to_page' = {<<Dev(q)', Slot(q)'>> : q \in InSwap'}
        <3>1. DOMAIN swap_to_page' = DOMAIN swap_to_page \ {<<i, s>>}
            BY <1>3
        <3>2. DOMAIN swap_to_page = {<<Dev(q), Slot(q)>> : q \in InSwap}
            BY <1>1 DEF MapsOK
        <3>3. <<Dev(p), Slot(p)>> = <<i, s>>
            BY DEF i, s
        <3>. QED BY <1>7, <1>8, <3>1, <3>2, <3>3
    <2>4. \A q \in InSwap' : swap_to_page'[<<Dev(q)', Slot(q)'>>] = q
        <3>1. ASSUME NEW q \in InSwap \ {p} PROVE swap_to_page'[<<Dev(q), Slot(q)>>] = q
            <4>1. <<Dev(q), Slot(q)>> \in DOMAIN swap_to_page /\ swap_to_page[<<Dev(q), Slot(q)>>] = q
                BY <1>1 DEF MapsOK
            <4>. QED BY <1>3, <1>8, <4>1
        <3>. QED BY <1>7, <3>1
    <2>5. InSwap' \subseteq PageFrames /\ IsFiniteSet(InSwap')
        BY <1>1, <1>7, FS_RemoveElement DEF MapsOK
    <2>6. \A q \in InSwap' : /\ Dev(q)' \in 1..n /\ Slot(q)' \in allocators'[Dev(q)'].bitmap
                             /\ devices[Dev(q)'].storage[Slot(q)'] = q
        BY <1>7, <1>8, <2>1
    <2>. QED BY <1>3, <2>2, <2>3, <2>4, <2>5, <2>6, Zenon DEF MapsOK
<1>10. Moves(i, 1)
    BY <1>3, <1>4, <1>5 DEF Moves
<1>11. /\ Totals' = Totals /\ FileTotals' = FileTotals
       /\ Sum(Frees') = Sum(Frees) + 1 /\ Sum(FileFrees') = Sum(FileFrees) + 1
    BY <1>1, <1>3, <1>10, SumsMove
<1>12. Cardinality(InSwap') = Cardinality(InSwap) - 1 /\ Cardinality(InSwap) \in Nat
    BY <1>1, <1>3, <1>7, FS_RemoveElement, FS_CardinalityType DEF MapsOK
<1>13. /\ total_stats' \in [total_slots : Int, used_slots : Int, free_slots : Int]
       /\ total_stats'.total_slots = total_stats.total_slots
       /\ total_stats'.free_slots = total_stats.free_slots + 1
       /\ total_stats'.used_slots = total_stats.used_slots - 1
    <2> DEFINE x == total_stats.used_slots - 1
               y == total_stats.free_slots + 1
    <2>1. total_stats \in [total_slots : Int, used_slots : Int, free_slots : Int]
        BY <1>1 DEF SumsOK
    <2>2. total_stats' = [total_stats EXCEPT !.used_slots = x, !.free_slots = y]
        BY <1>3
    <2>3. x \in Int /\ y \in Int
        BY <2>1
    <2> HIDE DEF x, y
    <2>4. /\ total_stats' \in [total_slots : Int, used_slots : Int, free_slots : Int]
          /\ total_stats'.used_slots = x /\ total_stats'.free_slots = y
          /\ total_stats'.total_slots = total_stats.total_slots
        BY <2>1, <2>2, <2>3, Zenon
    <2>. QED BY <2>4 DEF x, y
<1>14. /\ Sum(Totals) \in Int /\ Sum(Frees) \in Int /\ Sum(FileTotals) \in Int /\ Sum(FileFrees) \in Int
    BY <1>1, SumTypes
<1>15. SumsOK'
    BY <1>1, <1>11, <1>12, <1>13, <1>14 DEF SumsOK
<1>16. FileSlots' = FileSlots
    BY <1>3 DEF FileSlots, slot_count
<1>. QED BY <1>3, <1>6, <1>7, <1>9, <1>15, <1>16 DEF ManagerInv

LEMMA ManagerStart == ManagerInit => ManagerInv /\ InSwap = {} /\ FileSlots = 0
<1> SUFFICES ASSUME ManagerInit PROVE ManagerInv /\ InSwap = {} /\ FileSlots = 0
    OBVIOUS
<1>1. /\ devices = << >> /\ allocators = << >> /\ InSwap = {} /\ DOMAIN swap_to_page = {}
      /\ total_stats = [total_slots |-> 0, used_slots |-> 0, free_slots |-> 0]
    BY DEF ManagerInit, InSwap, Empty
<1>2. DevicesOK
    BY <1>1 DEF DevicesOK
<1>3. MapsOK
    BY <1>1, FS_EmptySet DEF MapsOK
<1>4. DOMAIN Totals = {} /\ DOMAIN Frees = {} /\ DOMAIN FileTotals = {} /\ DOMAIN FileFrees = {}
    BY <1>1 DEF Totals, Frees, FileTotals, FileFrees
<1>5. Sum(Totals) = 0 /\ Sum(Frees) = 0 /\ Sum(FileTotals) = 0 /\ Sum(FileFrees) = 0
    BY <1>4, SumEmpty
<1>6. SumsOK
    BY <1>1, <1>5, FS_EmptySet DEF SumsOK
<1>. QED BY <1>1, <1>2, <1>3, <1>5, <1>6, SumTypes DEF ManagerInv

LEMMA ManagerStep ==
    ASSUME ~ RemoveBelowUsed, ManagerInv, [ManagerNext]_managerVars
    PROVE  ManagerInv'
<1>1. CASE UNCHANGED managerVars
    BY <1>1, SMTT(30) DEF managerVars, ManagerInv, DevicesOK, MapsOK, SumsOK, InSwap, Dev, Slot,
                Totals, Frees, FileTotals, FileFrees
<1>2. ASSUME NEW n \in SlotCounts, add_device(FileSwapDevice(n)) \/ add_device(PartitionSwapDevice(n))
      PROVE  ManagerInv'
    BY <1>2, AddDevice
<1>3. ASSUME NEW i, remove_device(i) PROVE ManagerInv'
    BY <1>3, RemoveDevice
<1>4. ASSUME NEW p \in PageFrames, swap_out_page(p) \/ swap_out_page_fails(p) \/ swap_in_page(p)
      PROVE  ManagerInv'
    BY <1>4, SwapOut, SwapOutFails, SwapIn
<1>. QED BY <1>1, <1>2, <1>3, <1>4 DEF ManagerNext

\* For every number of devices, slots and pages, and every order of adding and removing
\* devices, swapping out, failing to, and swapping in: the maps, bitmaps, slots and totals
\* agree, as long as no device is removed while a later one holds pages (then they do not:
\* IndicesUpdated).
THEOREM ManagerMapsAgree == ~ RemoveBelowUsed => (ManagerSpec => []SwapMapsAgree)
<1> SUFFICES ASSUME ~ RemoveBelowUsed PROVE ManagerSpec => []SwapMapsAgree
    OBVIOUS
<1>1. ManagerInit => ManagerInv
    BY ManagerStart
<1>2. ManagerInv /\ [ManagerNext]_managerVars => ManagerInv'
    BY ManagerStep
<1>3. ManagerInv => SwapMapsAgree
    BY ManagerInvAgrees
<1>. QED BY <1>1, <1>2, <1>3, PTL DEF ManagerSpec

SpaceHolds == FileSlots \in Nat /\ FileSlots >= Cardinality(InSwap)

LEMMA ManagerHolds == ManagerInv => SpaceHolds
<1> SUFFICES ASSUME ManagerInv PROVE SpaceHolds
    OBVIOUS
<1>1. /\ Sum(FileTotals) \in Nat /\ Sum(FileFrees) \in Nat /\ FileSlots = Sum(FileTotals)
      /\ Sum(FileTotals) = Cardinality(InSwap) + Sum(FileFrees)
    BY SumTypes DEF ManagerInv, SumsOK
<1>2. Cardinality(InSwap) \in Nat
    BY FS_CardinalityType DEF ManagerInv, MapsOK
<1>. QED BY <1>1, <1>2 DEF SpaceHolds

LEMMA ManagerHoldsNext == ManagerInv' => SpaceHolds'
BY ManagerHolds, PTL

LEMMA SpaceStep ==
    ASSUME ~ RemoveBelowUsed, ManagerInv, [ManagerNext]_managerVars
    PROVE  [Space!SpaceNext]_(Space!spaceVars)
<1>0. ManagerInv' /\ FileSlots' \in Nat /\ FileSlots' >= Cardinality(InSwap')
    BY ManagerStep, ManagerHoldsNext DEF SpaceHolds
<1>1. \A S : Space!Cardinality(S) = Cardinality(S)
    BY Zenon DEF Space!Cardinality, Cardinality
<1>2. CASE UNCHANGED managerVars
    BY <1>2 DEF managerVars, Space!spaceVars, FileSlots, slot_count
<1>3. InSwap' = InSwap => Space!Resize
    BY <1>0, <1>1 DEF Space!Resize, InSwap
<1>4. ASSUME NEW n \in SlotCounts, add_device(FileSwapDevice(n)) \/ add_device(PartitionSwapDevice(n))
      PROVE  InSwap' = InSwap
    BY <1>4, AddDevice
<1>5. ASSUME NEW i, remove_device(i) PROVE InSwap' = InSwap
    BY <1>5, RemoveDevice
<1>6. ASSUME NEW p \in PageFrames, swap_out_page(p) PROVE Space!Keep(p)
    BY <1>1, <1>6, SwapOut DEF Space!Keep, Space!Room, InSwap
<1>7. ASSUME NEW p \in PageFrames, swap_out_page_fails(p) PROVE InSwap' = InSwap
    BY <1>7, SwapOutFails
<1>8. ASSUME NEW p \in PageFrames, swap_in_page(p) PROVE Space!GiveBack(p)
    BY <1>8, SwapIn, Zenon DEF Space!GiveBack, InSwap
<1>. QED BY <1>2, <1>3, <1>4, <1>5, <1>6, <1>7, <1>8 DEF ManagerNext, Space!SpaceNext

\* The swap manager implements the abstract swap space that page replacement relies on: a page
\* is kept from its swap-out to its swap-in, changes of devices lose none, and a swap-out
\* succeeds only while the files have room.
THEOREM ManagerImplementsSpace == ~ RemoveBelowUsed => (ManagerSpec => ImplementsSwapSpace)
<1> SUFFICES ASSUME ~ RemoveBelowUsed PROVE ManagerSpec => ImplementsSwapSpace
    OBVIOUS
<1>1. ManagerInit => ManagerInv /\ Space!SpaceInit
    BY ManagerStart DEF Space!SpaceInit, InSwap
<1>2. ManagerInv /\ [ManagerNext]_managerVars => ManagerInv'
    BY ManagerStep
<1>3. ManagerInv /\ [ManagerNext]_managerVars => [Space!SpaceNext]_(Space!spaceVars)
    BY SpaceStep
<1>. QED BY <1>1, <1>2, <1>3, PTL DEF ManagerSpec, ImplementsSwapSpace, Space!SpaceSpec

-----------------------------------------------------------------------------
\* The configurations.  PriorityIn is PriorityAt for a list of configurations other than the
\* current one; Valid is the invariant, for any list, active indices and devices.
ConfigRecord == [id : Configs, enabled : BOOLEAN]
PriorityIn(cs, i) == Priority[cs[i + 1].id]

AreEnabled(cs, s) == \A k \in 1..Len(s) : s[k] \in 0..(Len(cs) - 1) /\ cs[s[k] + 1].enabled
AreSorted(cs, s) == \A j, k \in 1..Len(s) : j < k => PriorityIn(cs, s[j]) >= PriorityIn(cs, s[k])
HaveDevices(cs, s, d) ==
    \A i \in 0..(Len(cs) - 1) : Cardinality(Places(s, i)) <= Cardinality(Places(d, cs[i + 1].id))

Valid(cs, s, d) ==
    /\ cs \in Seq(ConfigRecord) /\ s \in Seq(Int) /\ d \in Seq(Configs)
    /\ AreEnabled(cs, s) /\ AreSorted(cs, s) /\ HaveDevices(cs, s, d)

ConfigInv == Valid(configs, active_devices, configured_devices)

LEMMA ConfigInvSound == ConfigInv => ActiveDevicesValid
    BY Zenon DEF ConfigInv, Valid, AreEnabled, AreSorted, HaveDevices, PriorityIn, Places,
       ActiveDevicesValid, ActiveAreEnabled, ActiveSorted, ActiveHaveDevices, Indices, Config, PriorityAt

LEMMA ConfigFacts ==
    ASSUME NEW cs \in Seq(ConfigRecord)
    PROVE  /\ Len(cs) \in Nat
           /\ \A i \in 0..(Len(cs) - 1) :
                i + 1 \in 1..Len(cs) /\ cs[i + 1] \in ConfigRecord /\ cs[i + 1].id \in Configs
                /\ PriorityIn(cs, i) \in Nat
<1>1. Len(cs) \in Nat
    OBVIOUS
<1>2. \A i \in 0..(Len(cs) - 1) : i + 1 \in 1..Len(cs)
    BY <1>1
<1>3. \A j \in 1..Len(cs) : cs[j] \in ConfigRecord
    OBVIOUS
<1>4. \A c \in ConfigRecord : c.id \in Configs /\ Priority[c.id] \in Nat
    BY ConfigAssumption DEF ConfigRecord
<1>. QED BY <1>1, <1>2, <1>3, <1>4 DEF PriorityIn

\* How many entries of s go before the one at place k
RankOf(s, k) == Cardinality(Before(s, k))

LEMMA BeforeGrows ==
    ASSUME configs \in Seq(ConfigRecord), NEW s \in Seq(Indices), NEW j \in 1..Len(s)
    PROVE  /\ RankOf(s, j) \in 0..(Len(s) - 1)
           /\ \A k \in 1..Len(s) : j \in Before(s, k) => RankOf(s, j) < RankOf(s, k)
           /\ \A k \in 1..Len(s) : j # k => j \in Before(s, k) \/ k \in Before(s, j)
<1> DEFINE n == Len(s)
           p(k) == PriorityAt(s[k])
           B(k) == Before(s, k)
<1>1. n \in Nat /\ \A k \in 1..n : p(k) \in Nat
    <2>1. \A k \in 1..n : s[k] \in Indices
        OBVIOUS
    <2>2. \A i \in Indices : PriorityAt(i) \in Nat
        BY ConfigFacts DEF Indices, PriorityAt, Config, PriorityIn
    <2>. QED BY <2>1, <2>2
<1>2. \A k : \A x : x \in B(k) <=> x \in 1..n /\ (p(x) > p(k) \/ (p(x) = p(k) /\ x < k))
    BY DEF Before
<1> HIDE DEF n, p, B
<1>3. IsFiniteSet(1..n) /\ Cardinality(1..n) = n
    BY <1>1, FS_Interval
<1>4. \A k : IsFiniteSet(B(k)) /\ Cardinality(B(k)) \in Nat
    <2> TAKE k
    <2>1. B(k) \in SUBSET (1..n)
        BY <1>2
    <2>. QED BY <1>3, <2>1, FS_Subset, FS_CardinalityType
<1>5. j \in 1..n /\ j \notin B(j)
    BY <1>1, <1>2 DEF n
<1>6. ASSUME NEW T, IsFiniteSet(T), B(j) \subseteq T, j \in T
      PROVE  Cardinality(B(j)) < Cardinality(T)
    <2>1. B(j) \in SUBSET T /\ B(j) # T
        BY <1>5, <1>6
    <2>2. Cardinality(B(j)) <= Cardinality(T) /\ Cardinality(B(j)) # Cardinality(T)
        BY <1>6, <2>1, FS_Subset
    <2>3. Cardinality(T) \in Nat
        BY <1>6, FS_CardinalityType
    <2>. QED BY <1>4, <2>2, <2>3
<1>7. Cardinality(B(j)) < n
    <2>1. B(j) \subseteq 1..n
        BY <1>2
    <2>. QED BY <1>3, <1>5, <1>6, <2>1, Zenon
<1>8. ASSUME NEW k \in 1..n, j \in B(k) PROVE Cardinality(B(j)) < Cardinality(B(k))
    <2>1. p(j) > p(k) \/ (p(j) = p(k) /\ j < k)
        BY <1>2, <1>8
    <2>2. ASSUME NEW x \in B(j) PROVE x \in B(k)
        <3>1. x \in 1..n /\ (p(x) > p(j) \/ (p(x) = p(j) /\ x < j))
            BY <1>2
        <3>2. p(x) \in Nat /\ p(j) \in Nat /\ p(k) \in Nat /\ x \in Int /\ j \in Int /\ k \in Int
            BY <1>1, <1>5, <3>1
        <3>3. p(x) > p(k) \/ (p(x) = p(k) /\ x < k)
            BY <2>1, <3>1, <3>2
        <3>. QED BY <1>2, <3>1, <3>3
    <2>. QED BY <1>4, <1>6, <1>8, <2>2, Zenon
<1>9. ASSUME NEW k \in 1..n, j # k PROVE j \in B(k) \/ k \in B(j)
    <2>1. p(j) \in Nat /\ p(k) \in Nat /\ j \in Int /\ k \in Int
        BY <1>1, <1>5
    <2>. QED BY <1>2, <1>5, <1>9, <2>1
<1>10. \A k : RankOf(s, k) = Cardinality(B(k))
    BY DEF RankOf, B
<1>11. RankOf(s, j) \in 0..(n - 1)
    BY <1>1, <1>4, <1>7, <1>10
<1>. QED BY <1>8, <1>9, <1>10, <1>11 DEF n, B

\* The sort draws every entry once and puts higher priorities first.
LEMMA SortedFacts ==
    ASSUME configs \in Seq(ConfigRecord), NEW s \in Seq(Indices)
    PROVE  /\ Sorted(s) \in Seq(Indices)
           /\ \E g : Drawn(Sorted(s), s, g)
           /\ \A j, k \in 1..Len(Sorted(s)) :
                j < k => PriorityAt(Sorted(s)[j]) >= PriorityAt(Sorted(s)[k])
<1> DEFINE n == Len(s)
           f == [k \in 1..n |-> RankOf(s, k)]
           c(m) == CHOOSE k \in 1..n : RankOf(s, k) = m - 1
           g == [m \in 1..n |-> c(m)]
           t == Sorted(s)
<1>1. n \in Nat /\ \A k \in 1..n : s[k] \in Indices
    OBVIOUS
<1>2. \A k \in 1..n : RankOf(s, k) \in 0..(n - 1)
    BY BeforeGrows
<1>3. \A j, k \in 1..n : j \in Before(s, k) => RankOf(s, j) < RankOf(s, k)
    BY BeforeGrows
<1>4. \A j, k \in 1..n : j # k => j \in Before(s, k) \/ k \in Before(s, j)
    BY BeforeGrows
<1>5. t = [m \in 1..n |-> s[c(m)]]
    BY Zenon DEF Sorted, RankOf
<1>6. \A j \in 1..n : \A k : PriorityAt(s[j]) > PriorityAt(s[k]) => j \in Before(s, k)
    BY DEF Before
<1> HIDE DEF n, t
<1>7. f \in Injection(1..n, 0..(n - 1))
    <2>1. ASSUME NEW j \in 1..n, NEW k \in 1..n, RankOf(s, j) = RankOf(s, k), j # k PROVE FALSE
        <3>1. RankOf(s, j) < RankOf(s, k) \/ RankOf(s, k) < RankOf(s, j)
            BY <1>3, <1>4, <2>1
        <3>2. RankOf(s, j) \in Int
            BY <1>2
        <3>. QED BY <2>1, <3>1, <3>2
    <2>. QED BY <1>2, <2>1 DEF Injection, IsInjective
<1>8. /\ IsFiniteSet(1..n) /\ Cardinality(1..n) = n
      /\ IsFiniteSet(0..(n - 1)) /\ Cardinality(0..(n - 1)) = n
    <2>1. IsFiniteSet(1..n) /\ Cardinality(1..n) = n
        BY <1>1, FS_Interval
    <2>2. IsFiniteSet(0..(n - 1)) /\ Cardinality(0..(n - 1)) = n
        BY <1>1, Below
    <2>. QED BY <2>1, <2>2
<1>9. f \in Surjection(1..n, 0..(n - 1))
    BY <1>7, <1>8, FS_Injection
<1>10. ASSUME NEW m \in 1..n PROVE c(m) \in 1..n /\ RankOf(s, c(m)) = m - 1
    <2>1. m - 1 \in 0..(n - 1)
        BY <1>1
    <2>2. PICK k \in 1..n : f[k] = m - 1
        BY <1>9, <2>1, Zenon DEF Surjection
    <2>3. RankOf(s, k) = m - 1
        BY <2>2
    <2>. QED BY <2>3, Zenon
<1> HIDE DEF c
<1>11. g \in [1..n -> 1..n] /\ \A m \in 1..n : g[m] = c(m) /\ t[m] = s[g[m]] /\ RankOf(s, g[m]) = m - 1
    BY <1>5, <1>10
<1>12. t \in Seq(Indices) /\ Len(t) = n
    <2>1. t \in [1..n -> Indices]
        BY <1>1, <1>5, <1>10, Zenon
    <2>. QED BY <1>1, <2>1
<1> HIDE DEF g
<1>13. \A j, k \in 1..n : g[j] = g[k] => j = k
    <2> SUFFICES ASSUME NEW j \in 1..n, NEW k \in 1..n, g[j] = g[k] PROVE j = k
        OBVIOUS
    <2>1. j - 1 = k - 1
        BY <1>11
    <2>. QED BY <1>1, <2>1
<1>14. Drawn(t, s, g)
    BY <1>11, <1>12, <1>13 DEF Drawn, n
<1>15. ASSUME NEW j \in 1..n, NEW k \in 1..n, j < k PROVE PriorityAt(t[j]) >= PriorityAt(t[k])
    <2>1. g[j] \in 1..n /\ g[k] \in 1..n /\ RankOf(s, g[j]) = j - 1 /\ RankOf(s, g[k]) = k - 1
        BY <1>11, Zenon
    <2>2. ~ (PriorityAt(s[g[k]]) > PriorityAt(s[g[j]]))
        <3> SUFFICES ASSUME PriorityAt(s[g[k]]) > PriorityAt(s[g[j]]) PROVE FALSE
            OBVIOUS
        <3>1. RankOf(s, g[k]) < RankOf(s, g[j])
            BY <1>3, <1>6, <2>1
        <3>. QED BY <1>1, <1>15, <2>1, <3>1
    <2>3. \A i \in Indices : PriorityAt(i) \in Nat
        BY ConfigFacts DEF Indices, PriorityAt, Config, PriorityIn
    <2>4. PriorityAt(s[g[k]]) \in Nat /\ PriorityAt(s[g[j]]) \in Nat
        BY <1>1, <2>1, <2>3
    <2>5. PriorityAt(s[g[j]]) >= PriorityAt(s[g[k]])
        BY <2>2, <2>4
    <2>. QED BY <1>11, <2>5
<1>. QED BY <1>12, <1>14, <1>15 DEF t

LEMMA ValidGrows ==
    ASSUME NEW cs, NEW s, NEW d, Valid(cs, s, d), NEW c \in ConfigRecord
    PROVE  Valid(Append(cs, c), s, d)
<1> DEFINE n == Len(cs)
           e == Append(cs, c)
<1>1. cs \in Seq(ConfigRecord) /\ s \in Seq(Int) /\ d \in Seq(Configs)
    BY DEF Valid
<1>2. n \in Nat /\ e \in Seq(ConfigRecord) /\ Len(e) = n + 1 /\ \A i \in 1..n : e[i] = cs[i]
    BY <1>1
<1> HIDE DEF e, n
<1>3. \A i \in 0..(n - 1) : i + 1 \in 1..n /\ i \in 0..(n + 1 - 1)
    BY <1>2
<1>4. \A k \in 1..Len(s) : s[k] \in 0..(n - 1) /\ cs[s[k] + 1].enabled
    BY DEF Valid, AreEnabled, n
<1>5. AreEnabled(e, s)
    BY <1>2, <1>3, <1>4 DEF AreEnabled
<1>6. \A k \in 1..Len(s) : PriorityIn(e, s[k]) = PriorityIn(cs, s[k])
    BY <1>2, <1>3, <1>4 DEF PriorityIn
<1>7. AreSorted(e, s)
    BY <1>6 DEF Valid, AreSorted
<1>8. HaveDevices(e, s, d)
    <2> SUFFICES ASSUME NEW i \in 0..(n + 1 - 1)
                 PROVE  Cardinality(Places(s, i)) <= Cardinality(Places(d, e[i + 1].id))
        BY <1>2 DEF HaveDevices
    <2>1. CASE i \in 0..(n - 1)
        BY <1>2, <1>3, <2>1, Zenon DEF Valid, HaveDevices, n
    <2>2. CASE i \notin 0..(n - 1)
        <3>1. Places(s, i) = {}
            BY <1>4, <2>2 DEF Places
        <3>2. Cardinality(Places(d, e[i + 1].id)) \in Nat
            BY <1>1, PlacesFacts
        <3>. QED BY <3>1, <3>2, FS_EmptySet
    <2>. QED BY <2>1, <2>2
<1>. QED BY <1>1, <1>2, <1>5, <1>7, <1>8 DEF Valid, e

\* Some of the active indices go, the others keep their order and stay enabled.
LEMMA ValidDrawn ==
    ASSUME NEW cs, NEW s, NEW d, Valid(cs, s, d), NEW e \in Seq(ConfigRecord), NEW t \in Seq(Int),
           Len(e) = Len(cs), \A i \in 1..Len(cs) : e[i].id = cs[i].id,
           NEW g, Drawn(t, s, g), \A j, k \in 1..Len(t) : j < k => g[j] < g[k],
           \A k \in 1..Len(t) : t[k] \in 0..(Len(cs) - 1) => e[t[k] + 1].enabled
    PROVE  Valid(e, t, d)
<1>1. cs \in Seq(ConfigRecord) /\ s \in Seq(Int) /\ d \in Seq(Configs)
    BY DEF Valid
<1>2. \A k \in 1..Len(t) : g[k] \in 1..Len(s) /\ t[k] = s[g[k]]
    BY DEF Drawn
<1>3. \A k \in 1..Len(s) : s[k] \in 0..(Len(cs) - 1)
    BY DEF Valid, AreEnabled
<1>4. AreEnabled(e, t)
    BY <1>2, <1>3, Zenon DEF AreEnabled
<1>5. \A i \in 0..(Len(cs) - 1) : e[i + 1].id = cs[i + 1].id
    BY <1>1, ConfigFacts
<1>6. \A k \in 1..Len(t) : PriorityIn(e, t[k]) = PriorityIn(cs, s[g[k]])
    BY <1>2, <1>3, <1>5, Zenon DEF PriorityIn
<1>7. AreSorted(e, t)
    BY <1>2, <1>6, Zenon DEF Valid, AreSorted
<1>8. HaveDevices(e, t, d)
    <2> SUFFICES ASSUME NEW i \in 0..(Len(cs) - 1)
                 PROVE  Cardinality(Places(t, i)) <= Cardinality(Places(d, e[i + 1].id))
        BY DEF HaveDevices
    <2>1. Cardinality(Places(s, i)) <= Cardinality(Places(d, e[i + 1].id))
        BY <1>5, Zenon DEF Valid, HaveDevices
    <2>2. Cardinality(Places(t, i)) <= Cardinality(Places(s, i))
        BY <1>1, DrawnCount
    <2>3. /\ Cardinality(Places(t, i)) \in Nat /\ Cardinality(Places(s, i)) \in Nat
          /\ Cardinality(Places(d, e[i + 1].id)) \in Nat
        BY <1>1, PlacesFacts, Zenon
    <2>. QED BY <2>1, <2>2, <2>3, SMTT(30)
<1>. QED BY <1>1, <1>4, <1>7, <1>8 DEF Valid

\* remove_config: the indices above the removed one follow their configurations down.
LEMMA ValidRenumbered ==
    ASSUME NEW cs, NEW s, NEW d, Valid(cs, s, d), NEW i \in 0..(Len(cs) - 1),
           \A k \in 1..Len(s) : s[k] # i
    PROVE  Valid(RemovedAt(cs, i + 1), Renumbered(i, s), d)
<1> DEFINE n == Len(cs)
           e == RemovedAt(cs, i + 1)
           t == Renumbered(i, s)
<1>1. cs \in Seq(ConfigRecord) /\ s \in Seq(Int) /\ d \in Seq(Configs)
    BY DEF Valid
<1>2. n \in Nat /\ i + 1 \in 1..n /\ i \in Int
    BY <1>1, ConfigFacts
<1>3. /\ n - 1 \in Nat /\ e \in Seq(ConfigRecord) /\ Len(e) = n - 1
      /\ \A k \in 1..(n - 1) : e[k] = IF k < i + 1 THEN cs[k] ELSE cs[k + 1]
    BY <1>1, <1>2, RemovedAtFacts, Zenon
<1>4. Len(s) \in Nat /\ \A k \in 1..Len(s) : s[k] \in 0..(n - 1) /\ cs[s[k] + 1].enabled /\ s[k] # i
    BY <1>1 DEF Valid, AreEnabled
<1>5. t = [k \in 1..Len(s) |-> IF s[k] > i THEN s[k] - 1 ELSE s[k]]
    BY DEF Renumbered
<1> HIDE DEF e, t, n
<1>6. t \in Seq(Int) /\ Len(t) = Len(s)
    <2>1. t \in [1..Len(s) -> Int]
        BY <1>2, <1>4, <1>5
    <2>. QED BY <1>4, <2>1
<1>7. ASSUME NEW x \in 0..(n - 2)
      PROVE  /\ x < i => e[x + 1] = cs[x + 1]
             /\ x >= i => e[x + 1] = cs[x + 2]
    <2>1. x + 1 \in 1..(n - 1) /\ (x < i <=> x + 1 < i + 1) /\ (x + 1) + 1 = x + 2
        BY <1>2, <1>3
    <2>2. e[x + 1] = IF x + 1 < i + 1 THEN cs[x + 1] ELSE cs[(x + 1) + 1]
        BY <1>3, <2>1, Zenon
    <2>. QED BY <1>2, <2>1, <2>2
<1>8. ASSUME NEW k \in 1..Len(s) PROVE t[k] \in 0..(n - 2) /\ e[t[k] + 1] = cs[s[k] + 1]
    <2>1. s[k] \in 0..(n - 1) /\ s[k] # i /\ t[k] = IF s[k] > i THEN s[k] - 1 ELSE s[k]
        BY <1>4, <1>5
    <2>2. CASE s[k] > i
        <3> DEFINE x == s[k] - 1
        <3>1. x \in 0..(n - 2) /\ x >= i /\ x + 2 = s[k] + 1 /\ t[k] = x
            BY <1>2, <2>1, <2>2
        <3> HIDE DEF x
        <3>. QED BY <1>7, <3>1
    <2>3. CASE ~ (s[k] > i)
        <3> DEFINE x == s[k]
        <3>1. x \in 0..(n - 2) /\ x < i /\ t[k] = x
            BY <1>2, <2>1, <2>3
        <3> HIDE DEF x
        <3>2. e[x + 1] = cs[x + 1]
            BY <1>7, <3>1
        <3>. QED BY <3>1, <3>2 DEF x
    <2>. QED BY <2>2, <2>3
<1>9. 0..(n - 1 - 1) = 0..(n - 2)
    BY <1>2
<1>10. AreEnabled(e, t)
    BY <1>3, <1>4, <1>6, <1>8, <1>9, Zenon DEF AreEnabled
<1>11. AreSorted(e, t)
    <2>1. \A k \in 1..Len(s) : PriorityIn(e, t[k]) = PriorityIn(cs, s[k])
        BY <1>8 DEF PriorityIn
    <2>. QED BY <1>6, <2>1 DEF Valid, AreSorted
<1>12. HaveDevices(e, t, d)
    <2> SUFFICES ASSUME NEW x \in 0..(n - 2)
                 PROVE  Cardinality(Places(t, x)) <= Cardinality(Places(d, e[x + 1].id))
        BY <1>3, <1>9, Zenon DEF HaveDevices
    <2>1. \A y \in 0..(n - 1) : Cardinality(Places(s, y)) <= Cardinality(Places(d, cs[y + 1].id))
        BY Zenon DEF Valid, HaveDevices, n
    <2>2. CASE x < i
        <3>1. Places(t, x) = Places(s, x)
            <4>1. \A k \in 1..Len(s) : t[k] = x <=> s[k] = x
                BY <1>2, <1>4, <1>5, <2>2
            <4>. QED BY <1>6, <4>1 DEF Places
        <3>2. x \in 0..(n - 1)
            BY <1>2
        <3>. QED BY <1>7, <2>1, <2>2, <3>1, <3>2
    <2>3. CASE x >= i
        <3> DEFINE y == x + 1
        <3>1. y \in 0..(n - 1) /\ y + 1 = x + 2
            BY <1>2
        <3>2. Places(t, x) = Places(s, y)
            <4>1. \A k \in 1..Len(s) : t[k] = x <=> s[k] = y
                BY <1>2, <1>4, <1>5, <2>3
            <4>. QED BY <1>6, <4>1 DEF Places
        <3> HIDE DEF y
        <3>3. e[x + 1] = cs[y + 1]
            BY <1>7, <2>3, <3>1
        <3>. QED BY <2>1, <3>1, <3>2, <3>3
    <2>. QED BY <1>2, <2>2, <2>3, SMTT(30)
<1>. QED BY <1>1, <1>3, <1>6, <1>10, <1>11, <1>12 DEF Valid, e, t

\* Activation: the configurations `order' get a device each and are sorted in.
LEMMA Activated ==
    ASSUME ConfigInv, NEW order \in Seq(Indices), NEW ids \in Seq(Configs), Len(ids) = Len(order),
           \A k \in 1..Len(order) : ids[k] = Config(order[k]).id,
           NEW e \in Seq(ConfigRecord), Len(e) = Len(configs),
           \A i \in 1..Len(configs) : e[i].id = configs[i].id /\ (configs[i].enabled => e[i].enabled),
           \A k \in 1..Len(order) : e[order[k] + 1].enabled
    PROVE  Valid(e, Sorted(active_devices \o order), configured_devices \o ids)
<1> DEFINE a == active_devices
           s == a \o order
           t == Sorted(s)
           b == configured_devices
           d == b \o ids
           n == Len(configs)
<1>1. /\ configs \in Seq(ConfigRecord) /\ a \in Seq(Int) /\ b \in Seq(Configs)
      /\ AreEnabled(configs, a) /\ HaveDevices(configs, a, b)
    BY DEF ConfigInv, Valid
<1>2. n \in Nat /\ Indices = 0..(n - 1) /\ \A i \in Indices : i \in Int /\ i + 1 \in 1..n
    BY <1>1, ConfigFacts DEF Indices
<1>3. \A k \in 1..Len(a) : a[k] \in Indices /\ configs[a[k] + 1].enabled
    BY <1>1, <1>2 DEF AreEnabled
<1>4. a \in Seq(Indices)
    BY <1>1, <1>3
<1> HIDE DEF a, b, n
<1>5. /\ s \in Seq(Indices) /\ Len(s) = Len(a) + Len(order) /\ Len(a) \in Nat /\ Len(order) \in Nat
      /\ \A k \in 1..Len(a) : s[k] = a[k]
      /\ \A k \in 1..Len(order) : s[Len(a) + k] = order[k]
    BY <1>4
<1>6. d \in Seq(Configs)
    BY <1>1
<1> HIDE DEF s, d
<1>7. \A k \in 1..Len(s) : s[k] \in Indices /\ e[s[k] + 1].enabled
    <2> SUFFICES ASSUME NEW k \in 1..Len(s) PROVE s[k] \in Indices /\ e[s[k] + 1].enabled
        OBVIOUS
    <2>0. s[k] \in Indices
        BY <1>5
    <2>1. CASE k <= Len(a)
        <3>1. k \in 1..Len(a)
            BY <1>5, <2>1
        <3>2. s[k] = a[k] /\ configs[a[k] + 1].enabled /\ a[k] + 1 \in 1..n
            BY <1>2, <1>3, <1>5, <3>1
        <3>. QED BY <2>0, <3>2 DEF n
    <2>2. CASE k > Len(a)
        <3> DEFINE j == k - Len(a)
        <3>1. j \in 1..Len(order) /\ Len(a) + j = k
            BY <1>5, <2>2
        <3> HIDE DEF j
        <3>2. s[k] = order[j]
            BY <1>5, <3>1
        <3>. QED BY <2>0, <3>1, <3>2
    <2>. QED BY <1>5, <2>1, <2>2
<1>8. PICK g : Drawn(t, s, g)
    BY <1>1, <1>5, SortedFacts, Zenon
<1>9. /\ t \in Seq(Indices)
      /\ \A j, k \in 1..Len(t) : j < k => PriorityAt(t[j]) >= PriorityAt(t[k])
    BY <1>1, <1>5, SortedFacts, Zenon
<1> HIDE DEF t
<1>10. \A k \in 1..Len(t) : t[k] \in Indices /\ e[t[k] + 1].enabled
    BY <1>7, <1>8, SMTT(30) DEF Drawn
<1>11. AreEnabled(e, t)
    BY <1>2, <1>10 DEF AreEnabled, n
<1>12. \A i \in Indices : PriorityIn(e, i) = PriorityAt(i) /\ e[i + 1].id = configs[i + 1].id
    BY <1>2 DEF PriorityIn, PriorityAt, Config, n
<1>13. AreSorted(e, t)
    BY <1>9, <1>10, <1>12 DEF AreSorted
<1>14. ASSUME NEW u \in Seq(Indices) PROVE u \in Seq(Int)
    <2>1. \A k \in 1..Len(u) : u[k] \in Indices
        OBVIOUS
    <2>2. \A k \in 1..Len(u) : u[k] \in Int
        BY <1>2, <2>1
    <2>3. Len(u) \in Nat /\ u = [k \in 1..Len(u) |-> u[k]]
        OBVIOUS
    <2>4. u \in [1..Len(u) -> Int]
        BY <2>2, <2>3
    <2>. QED BY <2>3, <2>4
<1>15. s \in Seq(Int) /\ t \in Seq(Int) /\ order \in Seq(Int)
    BY <1>5, <1>9, <1>14
<1>16. HaveDevices(e, t, d)
    <2> SUFFICES ASSUME NEW i \in Indices
                 PROVE  Cardinality(Places(t, i)) <= Cardinality(Places(d, e[i + 1].id))
        BY <1>2 DEF HaveDevices, n
    <2> DEFINE x == configs[i + 1].id
    <2>1. Cardinality(Places(t, i)) <= Cardinality(Places(s, i))
        BY <1>8, <1>15, DrawnCount
    <2>2. Cardinality(Places(s, i)) = Cardinality(Places(a, i)) + Cardinality(Places(order, i))
        BY <1>1, <1>15, PlacesConcat, Zenon DEF s
    <2>3. Cardinality(Places(d, x)) = Cardinality(Places(b, x)) + Cardinality(Places(ids, x))
        <3>1. b \in Seq(Configs) /\ ids \in Seq(Configs)
            BY <1>1, Zenon
        <3> HIDE DEF x
        <3>. QED BY <3>1, PlacesConcat, Zenon DEF d
    <2>4. Cardinality(Places(a, i)) <= Cardinality(Places(b, x))
        BY <1>1, <1>2 DEF HaveDevices, n
    <2>5. Cardinality(Places(order, i)) <= Cardinality(Places(ids, x))
        <3>1. Places(order, i) \in SUBSET Places(ids, x)
            BY Zenon DEF Places, Config
        <3>2. IsFiniteSet(Places(ids, x))
            BY PlacesFacts
        <3>. QED BY <3>1, <3>2, FS_Subset
    <2> HIDE DEF x
    <2>6. /\ Cardinality(Places(a, i)) \in Nat /\ Cardinality(Places(order, i)) \in Nat
          /\ Cardinality(Places(t, i)) \in Nat
        BY <1>1, <1>15, PlacesFacts, Zenon
    <2>7. Cardinality(Places(b, x)) \in Nat /\ Cardinality(Places(ids, x)) \in Nat
        BY <1>1, PlacesFacts, Zenon
    <2>8. Cardinality(Places(t, i)) <= Cardinality(Places(d, x))
        BY <2>1, <2>2, <2>3, <2>4, <2>5, <2>6, <2>7, SMTT(30)
    <2>. QED BY <1>12, <2>8, Zenon DEF x
<1>. QED BY <1>6, <1>11, <1>13, <1>15, <1>16, Zenon DEF Valid, t, s, a, b, d

SetEnabled(cs, n, v) == [cs EXCEPT ![n].enabled = v]

LEMMA EnabledSet ==
    ASSUME NEW cs \in Seq(ConfigRecord), NEW n \in 1..Len(cs), NEW v \in BOOLEAN
    PROVE  LET e == SetEnabled(cs, n, v)
           IN  /\ e \in Seq(ConfigRecord) /\ Len(e) = Len(cs) /\ e[n].enabled = v
               /\ \A j \in 1..Len(cs) : e[j].id = cs[j].id
               /\ \A j \in 1..Len(cs) : j # n => e[j].enabled = cs[j].enabled
<1> DEFINE r == [cs[n] EXCEPT !.enabled = v]
           e == [cs EXCEPT ![n] = r]
<1>1. cs[n] \in ConfigRecord
    OBVIOUS
<1>2. r \in ConfigRecord /\ r.id = cs[n].id /\ r.enabled = v
    BY <1>1 DEF ConfigRecord
<1> HIDE DEF r
<1>3. /\ e \in Seq(ConfigRecord) /\ Len(e) = Len(cs) /\ e[n] = r
      /\ \A j \in 1..Len(cs) : j # n => e[j] = cs[j]
    BY <1>2
<1> HIDE DEF e
<1>4. /\ e \in Seq(ConfigRecord) /\ Len(e) = Len(cs) /\ e[n].enabled = v
      /\ \A j \in 1..Len(cs) : e[j].id = cs[j].id
      /\ \A j \in 1..Len(cs) : j # n => e[j].enabled = cs[j].enabled
    BY <1>2, <1>3
<1>. QED BY <1>4 DEF e, r, SetEnabled

LEMMA ConfigStart == ConfigInit => ConfigInv
<1> SUFFICES ASSUME ConfigInit PROVE ConfigInv
    OBVIOUS
<1>1. configs \in Seq(ConfigRecord) /\ active_devices = << >> /\ configured_devices = << >>
    <2>1. ASSUME NEW c \in Configs, configs = <<[id |-> c, enabled |-> TRUE]>>
          PROVE  configs \in Seq(ConfigRecord)
        <3> DEFINE r == [id |-> c, enabled |-> TRUE]
        <3>1. r \in ConfigRecord
            BY DEF ConfigRecord
        <3> HIDE DEF r
        <3>2. <<r>> \in Seq(ConfigRecord)
            BY <3>1
        <3>. QED BY <2>1, <3>2 DEF r
    <2>2. configs = << >> \/ \E c \in Configs : configs = <<[id |-> c, enabled |-> TRUE]>>
        BY Zenon DEF ConfigInit
    <2>3. configs = << >> => configs \in Seq(ConfigRecord)
        OBVIOUS
    <2>4. active_devices = << >> /\ configured_devices = << >>
        BY DEF ConfigInit
    <2>. QED BY <2>1, <2>2, <2>3, <2>4, Zenon
<1>2. \A x : Places(<< >>, x) = {}
    BY DEF Places
<1>3. Len(<< >>) = 0 /\ << >> \in Seq(Int) /\ << >> \in Seq(Configs)
    OBVIOUS
<1>4. HaveDevices(configs, << >>, << >>)
    <2> DEFINE z == << >>
    <2>1. \A x : Cardinality(Places(z, x)) = 0
        BY <1>2, FS_EmptySet
    <2> HIDE DEF z
    <2>2. HaveDevices(configs, z, z)
        BY <2>1 DEF HaveDevices
    <2>. QED BY <2>2 DEF z
<1>5. AreEnabled(configs, << >>) /\ AreSorted(configs, << >>)
    BY <1>3 DEF AreEnabled, AreSorted
<1>. QED BY <1>1, <1>3, <1>4, <1>5 DEF ConfigInv, Valid

LEMMA ConfigStep == ConfigInv /\ [ConfigNext]_configVars => ConfigInv'
<1> SUFFICES ASSUME ConfigInv, [ConfigNext]_configVars PROVE ConfigInv'
    OBVIOUS
<1> DEFINE a == active_devices
           b == configured_devices
<1>0. Valid(configs, a, b) /\ configs \in Seq(ConfigRecord) /\ a \in Seq(Int) /\ b \in Seq(Configs)
    BY DEF ConfigInv, Valid
<1>0a. /\ Len(configs) \in Nat /\ Indices = 0..(Len(configs) - 1)
       /\ \A i \in Indices : i + 1 \in 1..Len(configs) /\ Config(i).id \in Configs
    BY <1>0, ConfigFacts, Zenon DEF Indices, Config
<1>0b. \A k \in 1..Len(a) : a[k] \in Indices /\ configs[a[k] + 1].enabled
    BY <1>0, <1>0a DEF Valid, AreEnabled
<1>1. CASE UNCHANGED configVars
    BY <1>1, Zenon DEF ConfigInv, Valid, AreEnabled, AreSorted, HaveDevices, PriorityIn, configVars
<1>2. ASSUME NEW c \in Configs, NEW en \in BOOLEAN, add_config(c, en) PROVE ConfigInv'
    <2>1. [id |-> c, enabled |-> en] \in ConfigRecord
        BY DEF ConfigRecord
    <2>2. Valid(Append(configs, [id |-> c, enabled |-> en]), a, b)
        BY <1>0, <2>1, ValidGrows
    <2>. QED BY <1>2, <2>2 DEF add_config, ConfigInv
<1>3. ASSUME NEW i \in Indices, remove_config(i) PROVE ConfigInv'
    <2> DEFINE w == Without(a, i)
    <2>1. w \in Seq(Int)
        BY <1>0, WithoutFacts
    <2>2. \A k \in 1..Len(w) : w[k] # i
        BY <1>0, WithoutDrawn
    <2>3. PICK g : Drawn(w, a, g) /\ \A j, k \in 1..Len(w) : j < k => g[j] < g[k]
        BY <1>0, WithoutDrawn
    <2> HIDE DEF w, a, b
    <2>4. \A k \in 1..Len(w) : configs[w[k] + 1].enabled
        BY <1>0b, <2>3 DEF Drawn
    <2>5. Valid(configs, w, b)
        BY <1>0, <2>1, <2>3, <2>4, ValidDrawn, Zenon
    <2>6. Valid(RemovedAt(configs, i + 1), Renumbered(i, w), b)
        BY <1>0a, <2>2, <2>5, ValidRenumbered
    <2>. QED BY <1>3, <2>6 DEF remove_config, ConfigInv, w, a, b
<1>4. ASSUME NEW i \in Indices, disable_config(i) PROVE ConfigInv'
    <2> DEFINE w == Without(a, i)
               e == SetEnabled(configs, i + 1, FALSE)
    <2>1. w \in Seq(Int)
        BY <1>0, WithoutFacts
    <2>2. \A k \in 1..Len(w) : w[k] # i
        BY <1>0, WithoutDrawn
    <2>3. PICK g : Drawn(w, a, g) /\ \A j, k \in 1..Len(w) : j < k => g[j] < g[k]
        BY <1>0, WithoutDrawn
    <2>4. /\ e \in Seq(ConfigRecord) /\ Len(e) = Len(configs)
          /\ \A j \in 1..Len(configs) : e[j].id = configs[j].id
          /\ \A j \in 1..Len(configs) : j # i + 1 => e[j].enabled = configs[j].enabled
        <3> DEFINE m == i + 1
        <3>1. m \in 1..Len(configs)
            BY <1>0a
        <3> HIDE DEF m
        <3> DEFINE v == FALSE
        <3>2. v \in BOOLEAN
            OBVIOUS
        <3> HIDE DEF v
        <3>3. LET f == SetEnabled(configs, m, v)
              IN  /\ f \in Seq(ConfigRecord) /\ Len(f) = Len(configs) /\ f[m].enabled = v
                  /\ \A j \in 1..Len(configs) : f[j].id = configs[j].id
                  /\ \A j \in 1..Len(configs) : j # m => f[j].enabled = configs[j].enabled
            BY <1>0, <3>1, <3>2, EnabledSet, SMTT(30)
        <3>. QED BY <3>3, Zenon DEF m, v
    <2> HIDE DEF w, e, a, b
    <2>5. \A k \in 1..Len(w) : e[w[k] + 1].enabled
        <3> SUFFICES ASSUME NEW k \in 1..Len(w) PROVE e[w[k] + 1].enabled
            OBVIOUS
        <3>1. w[k] \in Indices /\ configs[w[k] + 1].enabled /\ w[k] # i
            BY <1>0b, <2>2, <2>3 DEF Drawn
        <3>2. w[k] + 1 \in 1..Len(configs) /\ w[k] + 1 # i + 1
            BY <1>0a, <3>1
        <3>. QED BY <2>4, <3>1, <3>2
    <2>6. Valid(e, w, b)
        BY <1>0, <2>1, <2>3, <2>4, <2>5, ValidDrawn, Zenon
    <2>. QED BY <1>4, <2>6 DEF disable_config, ConfigInv, SetEnabled, w, e, a, b
<1>5. ASSUME NEW i \in Indices, enable_config(i) PROVE ConfigInv'
    <2> DEFINE e == SetEnabled(configs, i + 1, TRUE)
               x == Config(i).id
    <2>1. /\ e \in Seq(ConfigRecord) /\ Len(e) = Len(configs) /\ e[i + 1].enabled
          /\ \A j \in 1..Len(configs) : e[j].id = configs[j].id
          /\ \A j \in 1..Len(configs) : configs[j].enabled => e[j].enabled
        <3> DEFINE m == i + 1
        <3>1. m \in 1..Len(configs)
            BY <1>0a
        <3> HIDE DEF m
        <3> DEFINE v == TRUE
        <3>2. v \in BOOLEAN
            OBVIOUS
        <3> HIDE DEF v
        <3>3. LET f == SetEnabled(configs, m, v)
              IN  /\ f \in Seq(ConfigRecord) /\ Len(f) = Len(configs) /\ f[m].enabled = v
                  /\ \A j \in 1..Len(configs) : f[j].id = configs[j].id
                  /\ \A j \in 1..Len(configs) : j # m => f[j].enabled = configs[j].enabled
            BY <1>0, <3>1, <3>2, EnabledSet, SMTT(30)
        <3>. QED BY <3>3, Zenon DEF m, v
    <2>2. configs' = e
        BY <1>5 DEF enable_config, SetEnabled
    <2>3. x \in Configs
        BY <1>0a
    <2>4. CASE active_devices' = Sorted(Append(a, i)) /\ configured_devices' = Append(b, x)
        <3> DEFINE o == <<i>>
                   y == <<x>>
        <3>1. /\ o \in Seq(Indices) /\ y \in Seq(Configs) /\ Len(o) = 1 /\ Len(y) = 1
              /\ o[1] = i /\ y[1] = x
            BY <2>3
        <3>2. Append(a, i) = a \o o /\ Append(b, x) = b \o y
            <4>1. i \in Int
                BY <1>0a
            <4>2. Append(a, i) = a \o <<i>>
                BY <1>0, <4>1, AppendConcat
            <4>3. Append(b, x) = b \o <<x>>
                BY <1>0, <2>3, AppendConcat
            <4>. QED BY <4>2, <4>3
        <3> HIDE DEF o, y, e
        <3>3. \A k \in 1..Len(o) : y[k] = Config(o[k]).id /\ e[o[k] + 1].enabled
            BY <2>1, <3>1, SMTT(30)
        <3>4. Valid(e, Sorted(a \o o), b \o y)
            BY <2>1, <3>1, <3>3, Activated, Zenon
        <3>. QED BY <2>2, <2>4, <3>2, <3>4 DEF ConfigInv
    <2>5. CASE UNCHANGED <<configured_devices, active_devices>>
        <3> HIDE DEF e
        <3>1. AreEnabled(e, a)
            BY <1>0a, <1>0b, <2>1 DEF AreEnabled
        <3>2. \A k \in Indices : e[k + 1].id = configs[k + 1].id
            BY <1>0a, <2>1
        <3>3. AreSorted(e, a)
            BY <1>0, <1>0b, <3>2, Zenon DEF Valid, AreSorted, PriorityIn
        <3>4. HaveDevices(e, a, b)
            BY <1>0, <1>0a, <2>1, <3>2, Zenon DEF Valid, HaveDevices
        <3>5. Valid(e, a, b)
            BY <1>0, <2>1, <3>1, <3>3, <3>4 DEF Valid
        <3>. QED BY <2>2, <2>5, <3>5 DEF ConfigInv
    <2>. QED BY <1>5, <2>4, <2>5 DEF enable_config
<1>6. CASE initialize_all
    <2>1. PICK ok \in SUBSET {i \in Indices : Config(i).enabled} :
            LET order == Ascending(ok) IN
            /\ configured_devices' = b \o [k \in 1..Len(order) |-> Config(order[k]).id]
            /\ active_devices' = Sorted(a \o order)
            /\ UNCHANGED configs
        BY <1>6, Zenon DEF initialize_all
    <2> DEFINE o == Ascending(ok)
               y == [k \in 1..Len(o) |-> Config(o[k]).id]
               m == Cardinality(ok)
    <2>2. ok \in SUBSET Int /\ IsFiniteSet(ok)
        <3>1. IsFiniteSet(0..(Len(configs) - 1))
            BY <1>0a, FS_Interval
        <3>2. ok \in SUBSET (0..(Len(configs) - 1))
            BY <1>0a
        <3>3. IsFiniteSet(ok)
            BY <3>1, <3>2, FS_Subset, Zenon
        <3>. QED BY <3>2, <3>3
    <2>3. m \in Nat /\ o \in [1..m -> ok]
        BY <2>2, AscendingFacts
    <2>4. configured_devices' = b \o y /\ active_devices' = Sorted(a \o o) /\ configs' = configs
        BY <2>1
    <2>5. ok \subseteq Indices /\ \A i \in ok : configs[i + 1].enabled
        BY DEF Config
    <2> HIDE DEF o, m
    <2>6. o \in Seq(Indices) /\ Len(o) = m /\ \A k \in 1..m : o[k] \in ok
        <3>1. o \in [1..m -> Indices]
            BY <2>3, <2>5
        <3>. QED BY <2>3, <3>1
    <2>7. y \in Seq(Configs) /\ Len(y) = Len(o) /\ \A k \in 1..Len(o) : y[k] = Config(o[k]).id
        <3>1. y \in [1..m -> Configs]
            BY <1>0a, <2>5, <2>6
        <3>2. \A k \in 1..m : y[k] = Config(o[k]).id
            BY <2>6
        <3> HIDE DEF y
        <3>. QED BY <2>3, <2>6, <3>1, <3>2
    <2> HIDE DEF y
    <2>8. Valid(configs, Sorted(a \o o), b \o y)
        BY <1>0, <2>5, <2>6, <2>7, Activated, Zenon
    <2>. QED BY <2>4, <2>8 DEF ConfigInv
<1>. QED BY <1>1, <1>2, <1>3, <1>4, <1>5, <1>6 DEF ConfigNext

\* For every set of configurations and priorities: through additions, removals, activations and
\* failed activations, the active indices name enabled configurations with a device each, in
\* order of priority.
THEOREM ActiveStayValid == ConfigSpec => []ActiveDevicesValid
    BY ConfigStart, ConfigStep, ConfigInvSound, PTL DEF ConfigSpec
=============================================================================
