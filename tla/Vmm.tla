-------------------------------- MODULE Vmm --------------------------------
(***************************************************************************)
(* The kernel's address space, kernel/src/memory/vmm.rs, over the page     *)
(* frame allocator (PhysicalMemory, booted).                               *)
(*                                                                         *)
(* A call holds VIRTUAL_MEMORY_MANAGER throughout, but every page table it *)
(* needs is a frame from the allocator, behind a lock of its own.  So a    *)
(* call is taken step by step, one table or one page at a time, and `op'   *)
(* is the call that holds the lock; other users of the allocator run in    *)
(* between.  They return only frames they hold.                            *)
(*                                                                         *)
(* The page tables are those of the x86_64 crate, modelled from how it is  *)
(* used here: two pages share a table of the last level, and all tables of *)
(* the last level hang off one above it.  Which frame a page leads to and  *)
(* its protection flags are left out: no operation reads them.             *)
(***************************************************************************)
EXTENDS PhysicalMemory

CONSTANTS
    Pages           \* pages are numbered 0..Pages - 1

VARIABLES
    tables,         \* set of [path, frame]: the page tables in use
    mapped,         \* the pages that translate to a frame
    op              \* << >>, or <<kind, next page, last page>>

vmmVars == <<tables, mapped, op>>

ASSUME VmmAssumption == Pages \in Nat \ {0}

\* external: the tables on the way to a page, from the top
Path(page) == << <<2, 0>>, <<1, page \div 2>> >>
Present == {t.path : t \in tables}
Missing(page) == {i \in DOMAIN Path(page) : Path(page)[i] \notin Present}
TableFrames == {t.frame : t \in tables}
is_mapped(page) == page \in mapped

-----------------------------------------------------------------------------
VmmInit == tables = {} /\ mapped = {} /\ op = << >>

\* map_virtual_range, and map_virtual_to_physical when first = last: the lock is taken
map_range(first, last) ==
    /\ Booted /\ op = << >>
    /\ op' = <<"map", first, last>>
    /\ UNCHANGED <<vars, tables, mapped>>

unmap_range(first, last) ==
    /\ Booted /\ op = << >>
    /\ op' = <<"unmap", first, last>>
    /\ UNCHANGED <<vars, tables, mapped>>

Advanced == IF op[2] = op[3] THEN << >> ELSE <<op[1], op[2] + 1, op[3]>>

\* KoshFrameAllocator::allocate_frame for the first table that is missing
CreateTable ==
    /\ op # << >> /\ op[1] = "map" /\ Missing(op[2]) # {}
    /\ allocate_frame
    /\ tables' = tables \cup {[path |-> Path(op[2])[Min(Missing(op[2]))], frame |-> Min(free)]}
    /\ UNCHANGED <<mapped, op>>

\* FrameAllocationFailed: the tables and the pages made so far stay
NoFrameForTable ==
    /\ op # << >> /\ op[1] = "map" /\ Missing(op[2]) # {}
    /\ ~ (free_frames # 0 /\ free # {})
    /\ op' = << >>
    /\ UNCHANGED <<vars, tables, mapped>>

\* all tables are there: the entry is written, or the call ends with PageAlreadyMapped
map_page ==
    /\ op # << >> /\ op[1] = "map" /\ Missing(op[2]) = {}
    /\ \/ /\ ~ is_mapped(op[2])
          /\ mapped' = mapped \cup {op[2]}
          /\ op' = Advanced
       \/ is_mapped(op[2]) /\ op' = << >> /\ UNCHANGED mapped
    /\ UNCHANGED <<vars, tables>>

\* Mutant: a table goes back to the allocator with the page unmapped last
unmap_page_freeing ==
    LET path == Path(op[2])[2] IN
    /\ op # << >> /\ op[1] = "unmap"
    /\ is_mapped(op[2])
    /\ mapped' = mapped \ {op[2]}
    /\ mark_frames_free({t.frame : t \in {u \in tables : u.path = path}})
    /\ owned' = owned \ {t.frame : t \in {u \in tables : u.path = path}}
    /\ tables' = {t \in tables : t.path # path}
    /\ op' = Advanced
    /\ UNCHANGED <<reserved_frames, area, frame>>

\* neither the frame nor the tables are released; PageNotMapped ends the call
unmap_page ==
    /\ op # << >> /\ op[1] = "unmap"
    /\ \/ /\ is_mapped(op[2])
          /\ mapped' = mapped \ {op[2]}
          /\ op' = Advanced
       \/ ~ is_mapped(op[2]) /\ op' = << >> /\ UNCHANGED mapped
    /\ UNCHANGED <<vars, tables>>

\* other users of the allocator
OtherUsers ==
    /\ \/ parse_memory_map
       \/ allocate_frame
       \/ \E f \in owned \ TableFrames : deallocate_frames(f, 1)
    /\ UNCHANGED vmmVars

VmmNext ==
    \/ \E first, last \in 0..(Pages - 1) :
          first <= last /\ (map_range(first, last) \/ unmap_range(first, last))
    \/ CreateTable \/ NoFrameForTable \/ map_page \/ unmap_page
    \/ OtherUsers

VmmSpec == Init /\ VmmInit /\ [][VmmNext]_<<vars, vmmVars>>
-----------------------------------------------------------------------------
\* The page tables stay what they are, whatever fails halfway and whoever else allocates:
\* no two of them share a frame, none is in a frame that is free, and every mapped page
\* has all the tables on its way.
PageTablesSound ==
    /\ \A s, t \in tables : s.path = t.path \/ s.frame = t.frame => s = t
    /\ TableFrames \subseteq owned /\ TableFrames \cap free = {}
    /\ \A p \in mapped : Missing(p) = {}
=============================================================================
