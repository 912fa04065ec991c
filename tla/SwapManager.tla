----------------------------- MODULE SwapManager -----------------------------
(***************************************************************************)
(* kernel/src/memory/swap.rs with the devices of swap_file.rs.             *)
(*                                                                         *)
(* A device is a file, which stores pages, or a partition, whose I/O       *)
(* always fails (it is a placeholder).  A stored page's data is abstracted *)
(* to the page it was taken from.  Slots and device indices count from 0   *)
(* in the code and from 1 here, except that slots keep their numbers       *)
(* because next_free_hint computes with them.                              *)
(***************************************************************************)
EXTENDS Collections, FiniteSetsExt

CONSTANTS
    PageFrames,         \* page frames that may be swapped out
    SlotCounts,         \* sizes, in slots, of the devices that may be added
    MaxDevices,         \* bound on devices present at a time
    RemoveBelowUsed,    \* is a device removed while a later one holds pages?
    Nothing             \* content of a slot never written

ASSUME SwapAssumption ==
    /\ SlotCounts \subseteq Nat \ {0}
    /\ MaxDevices \in Nat
    /\ RemoveBelowUsed \in BOOLEAN
    /\ Nothing \notin PageFrames

VARIABLES
    devices,        \* Vec<Box<dyn SwapDevice>>
    allocators,     \* Vec<SwapAllocator>, one per device
    page_to_swap,   \* page -> its SwapEntry
    swap_to_page,   \* <<device, slot>> -> page
    total_stats

managerVars == <<devices, allocators, page_to_swap, swap_to_page, total_stats>>

Slots(n) == 0..(n - 1)
Empty == [x \in {} |-> x]

FileSwapDevice(n) == [kind |-> "file", storage |-> [s \in Slots(n) |-> Nothing]]
PartitionSwapDevice(n) == [kind |-> "partition", storage |-> [s \in Slots(n) |-> Nothing]]
slot_count(d) == Cardinality(DOMAIN d.storage)

-----------------------------------------------------------------------------
\* SwapAllocator::new; `bitmap' is the set of allocated slots
SwapAllocator(n) ==
    [bitmap |-> {}, free_slots |-> n, total_slots |-> n, next_free_hint |-> 0]

\* the first free slot from the hint on, wrapping around
NextFree(a) ==
    LET i == Min({k \in Slots(a.total_slots) : (a.next_free_hint + k) % a.total_slots \notin a.bitmap})
    IN  (a.next_free_hint + i) % a.total_slots

HasFree(a) == a.free_slots > 0

\* Mutant: the slot is not marked
AllocatedUnmarked(a) ==
    [a EXCEPT !.free_slots = @ - 1, !.next_free_hint = (NextFree(a) + 1) % a.total_slots]

allocate_slot(a) ==
    [a EXCEPT !.bitmap = @ \cup {NextFree(a)},
              !.free_slots = @ - 1,
              !.next_free_hint = (NextFree(a) + 1) % a.total_slots]

deallocate_slot(a, s) ==
    [a EXCEPT !.bitmap = @ \ {s},
              !.free_slots = @ + 1,
              !.next_free_hint = IF s < @ THEN s ELSE @]

\* a slot was taken, the write failed, and the slot was given back
AfterFailedWrite(a) ==
    IF HasFree(a) THEN deallocate_slot(allocate_slot(a), NextFree(a)) ELSE a

-----------------------------------------------------------------------------
ManagerInit ==
    /\ devices = << >> /\ allocators = << >>
    /\ page_to_swap = Empty /\ swap_to_page = Empty
    /\ total_stats = [total_slots |-> 0, used_slots |-> 0, free_slots |-> 0]

add_device(d) ==
    /\ Len(devices) < MaxDevices
    /\ devices' = Append(devices, d)
    /\ allocators' = Append(allocators, SwapAllocator(slot_count(d)))
    /\ total_stats' = [total_stats EXCEPT !.total_slots = @ + slot_count(d),
                                          !.free_slots = @ + slot_count(d)]
    /\ UNCHANGED <<page_to_swap, swap_to_page>>

UsedAfter(i) == \E p \in DOMAIN page_to_swap : page_to_swap[p].device_index > i

\* Mutant: the allocated slots of the removed device are not looked at
RemoveUnchecked(i) == TRUE

\* a device with allocated slots is not removed
MayRemove(i) == allocators[i].bitmap = {}

\* the indices of later devices move down by one in swap_to_page
remove_device(i) ==
    /\ i \in DOMAIN devices /\ MayRemove(i)
    /\ RemoveBelowUsed \/ ~ UsedAfter(i)
    /\ devices' = RemovedAt(devices, i)
    /\ allocators' = RemovedAt(allocators, i)
    /\ total_stats' = [total_stats EXCEPT !.total_slots = @ - allocators[i].total_slots,
                                          !.free_slots = @ - allocators[i].free_slots]
    /\ LET kept == {e \in DOMAIN swap_to_page : e[1] # i}
           old(e) == IF e[1] >= i THEN <<e[1] + 1, e[2]>> ELSE e
           new == {<<IF e[1] > i THEN e[1] - 1 ELSE e[1], e[2]>> : e \in kept}
       IN  swap_to_page' = [e \in new |-> swap_to_page[old(e)]]
    /\ UNCHANGED page_to_swap

\* the devices that take the page: files with a free slot
Writable == {i \in DOMAIN devices : devices[i].kind = "file" /\ HasFree(allocators[i])}

\* devices before `upto' were tried in vain; a partition's hint may have moved
Tried(upto) ==
    [i \in DOMAIN allocators |->
        IF i < upto /\ devices[i].kind = "partition"
        THEN AfterFailedWrite(allocators[i]) ELSE allocators[i]]

NotSwapped(p) == p \notin DOMAIN page_to_swap

swap_out_page(p) ==
    /\ NotSwapped(p) /\ Writable # {}
    /\ LET i == Min(Writable)
           s == NextFree(allocators[i])
       IN  /\ devices' = [devices EXCEPT ![i].storage[s] = p]
           /\ allocators' = [Tried(i) EXCEPT ![i] = allocate_slot(@)]
           /\ page_to_swap' = [q \in DOMAIN page_to_swap \cup {p} |->
                  IF q = p THEN [device_index |-> i, slot |-> s] ELSE page_to_swap[q]]
           /\ swap_to_page' = [e \in DOMAIN swap_to_page \cup {<<i, s>>} |->
                  IF e = <<i, s>> THEN p ELSE swap_to_page[e]]
    /\ total_stats' = [total_stats EXCEPT !.used_slots = @ + 1, !.free_slots = @ - 1]

\* Err(NoSpace): every device was tried
swap_out_page_fails(p) ==
    /\ NotSwapped(p) /\ Writable = {}
    /\ allocators' = Tried(Len(devices) + 1)
    /\ UNCHANGED <<devices, page_to_swap, swap_to_page, total_stats>>

\* reading a device or slot that is not there is an error or an index panic
swap_in_page(p) ==
    /\ p \in DOMAIN page_to_swap
    /\ LET i == page_to_swap[p].device_index
           s == page_to_swap[p].slot
       IN  /\ i \in DOMAIN devices /\ devices[i].kind = "file"
           /\ s \in allocators[i].bitmap
           /\ allocators' = [allocators EXCEPT ![i] = deallocate_slot(@, s)]
           /\ page_to_swap' = Restrict(page_to_swap, DOMAIN page_to_swap \ {p})
           /\ swap_to_page' = Restrict(swap_to_page, DOMAIN swap_to_page \ {<<i, s>>})
    /\ total_stats' = [total_stats EXCEPT !.used_slots = @ - 1, !.free_slots = @ + 1]
    /\ UNCHANGED devices

ManagerNext ==
    \/ \E n \in SlotCounts : add_device(FileSwapDevice(n)) \/ add_device(PartitionSwapDevice(n))
    \/ \E i \in 1..MaxDevices : remove_device(i)
    \/ \E p \in PageFrames : swap_out_page(p) \/ swap_out_page_fails(p) \/ swap_in_page(p)

ManagerSpec == ManagerInit /\ [][ManagerNext]_managerVars
-----------------------------------------------------------------------------
ManagerTypeOK ==
    /\ \A i \in DOMAIN devices :
        /\ devices[i].kind \in {"file", "partition"}
        /\ slot_count(devices[i]) \in SlotCounts
        /\ Range(devices[i].storage) \subseteq PageFrames \cup {Nothing}
        /\ allocators[i].bitmap \subseteq DOMAIN devices[i].storage
        /\ allocators[i].next_free_hint \in DOMAIN devices[i].storage
    /\ Len(allocators) = Len(devices)
    /\ DOMAIN page_to_swap \subseteq PageFrames
    /\ Range(swap_to_page) \subseteq PageFrames

\* The two maps are inverse to each other: every page in swap has one slot, every slot
\* that holds a page is found from it, and both name a device that is there.
MapsInverse ==
    /\ \A p \in DOMAIN page_to_swap :
        LET e == <<page_to_swap[p].device_index, page_to_swap[p].slot>>
        IN  e \in DOMAIN swap_to_page /\ swap_to_page[e] = p
    /\ \A e \in DOMAIN swap_to_page :
        LET p == swap_to_page[e]
        IN  /\ p \in DOMAIN page_to_swap
            /\ e = <<page_to_swap[p].device_index, page_to_swap[p].slot>>

\* A slot is allocated in its device's bitmap exactly while some page is mapped to it: no
\* slot leaks through a failed write, a removed device or a swap-in.
BitmapIsMapping ==
    \A i \in DOMAIN devices :
        /\ allocators[i].bitmap = {s \in DOMAIN devices[i].storage : <<i, s>> \in DOMAIN swap_to_page}
        /\ allocators[i].free_slots = allocators[i].total_slots - Cardinality(allocators[i].bitmap)

\* total_stats, which is updated step by step, is what the allocators add up to.
StatsAddUp ==
    /\ total_stats.total_slots = Sum([i \in DOMAIN allocators |-> allocators[i].total_slots])
    /\ total_stats.free_slots = Sum([i \in DOMAIN allocators |-> allocators[i].free_slots])
    /\ total_stats.used_slots = total_stats.total_slots - total_stats.free_slots

\* swap_in_page gives back the data that was swapped out: the slot a page is mapped to
\* still holds that page, whatever was added, removed and swapped meanwhile.
SwapInReadsBack ==
    \A p \in DOMAIN page_to_swap :
        /\ page_to_swap[p].device_index \in DOMAIN devices
        /\ devices[page_to_swap[p].device_index].storage[page_to_swap[p].slot] = p

\* The page maps, the slot bitmaps, the contents of the slots and the totals, which every
\* operation updates one after the other, agree with each other.
SwapMapsAgree ==
    ManagerTypeOK /\ MapsInverse /\ BitmapIsMapping /\ SwapInReadsBack /\ StatsAddUp

\* swap.rs:304 "Update device indices in mappings": after a device is removed the entries
\* of page_to_swap, too, name the device their page is on.
IndicesUpdated ==
    \A p \in DOMAIN page_to_swap :
        <<page_to_swap[p].device_index, page_to_swap[p].slot>> \in DOMAIN swap_to_page

-----------------------------------------------------------------------------
\* slots that can be written, the capacity SwapSpace speaks of
FileSlots ==
    Sum([i \in DOMAIN devices |-> IF devices[i].kind = "file" THEN slot_count(devices[i]) ELSE 0])

Space == INSTANCE SwapSpace WITH
    SwapPages <- PageFrames, swapped <- DOMAIN page_to_swap, capacity <- FileSlots

\* The swap manager implements SwapSpace: a page swapped out is kept until it is swapped
\* in, never more pages than there are slots, and changing devices loses none.
ImplementsSwapSpace == Space!SpaceSpec
=============================================================================
