--------------------------- MODULE PhysicalMemory ---------------------------
(***************************************************************************)
(* The bitmap allocator of page frames, kernel/src/memory/physical.rs.     *)
(*                                                                         *)
(* The bitmap is the set `free' of frames whose bit is clear.  The boot    *)
(* loader's memory map is a sequence of areas [first, last, available] in  *)
(* frames; parse_memory_map walks it one frame per step.  The counters are *)
(* usize fields: they wrap modulo 2^Width, as in a release build (a build  *)
(* with overflow checks stops at the first subtraction from zero).         *)
(*                                                                         *)
(* `owned' is not in the code: it is what callers hold, i.e. frames handed *)
(* out and not returned.  Callers return frames they hold, and may return  *)
(* one twice while it is still free or name one past the end.              *)
(***************************************************************************)
EXTENDS Integers, Sequences, FiniteSets, FiniteSetsExt

CONSTANTS
    TotalFrames,    \* frames below the end of the last available area
    Reserved,       \* low memory and the frames under the bitmap itself
    MemoryMap,      \* the areas reported by the boot loader
    Width           \* bits of a usize

ASSUME PhysicalAssumption ==
    /\ TotalFrames \in Nat \ {0}
    /\ Reserved \subseteq 0..(TotalFrames - 1)
    /\ MemoryMap \in Seq([first : Nat, last : Nat, available : BOOLEAN])
    /\ Width \in Nat \ {0} /\ 2^Width \in Nat    \* the latter spares the provers powers
    /\ TotalFrames < 2^Width

VARIABLES
    free,               \* frames whose bit in the bitmap is 0
    free_frames, used_frames, reserved_frames,
    area, frame,        \* parse_memory_map: position, area > Len(MemoryMap) when done
    owned

vars == <<free, free_frames, used_frames, reserved_frames, area, frame, owned>>

Frames == 0..(TotalFrames - 1)
Wrap(n) == n % 2^Width
Booted == area > Len(MemoryMap)

-----------------------------------------------------------------------------
is_frame_free(f) == f \in free

\* mark_frame_used for each of these frames: a bit that is set already is left alone
mark_frames_used(frames) ==
    /\ free' = free \ frames
    /\ free_frames' = Wrap(free_frames - Cardinality(frames \cap free))
    /\ used_frames' = Wrap(used_frames + Cardinality(frames \cap free))

\* Mutant: no test that the frame was used
MarkFreeUnconditional(frames) ==
    /\ free' = free \cup (frames \cap Frames)
    /\ used_frames' = Wrap(used_frames - Cardinality(frames \cap Frames))
    /\ free_frames' = Wrap(free_frames + Cardinality(frames \cap Frames))

\* mark_frame_free for each of these frames
mark_frames_free(frames) ==
    LET freed == (frames \cap Frames) \ free IN
    /\ free' = free \cup freed
    /\ used_frames' = Wrap(used_frames - Cardinality(freed))
    /\ free_frames' = Wrap(free_frames + Cardinality(freed))

-----------------------------------------------------------------------------
\* PhysicalMemoryManager::new: the bitmap is all ones, every counter zero
Init ==
    /\ free = {} /\ free_frames = 0 /\ used_frames = 0 /\ reserved_frames = 0
    /\ area = 1 /\ frame = (IF MemoryMap = << >> THEN 0 ELSE MemoryMap[1].first)
    /\ owned = {}

\* parse_memory_map: `continue' for low memory and for the bitmap's own frames
Skipped(f) == f \in Reserved

\* one iteration of the inner loops of parse_memory_map, or the end of one, at once when the
\* area is empty
parse_memory_map ==
    /\ ~ Booted
    /\ LET a == MemoryMap[area] IN
       \/ /\ frame > a.last
          /\ area' = area + 1
          /\ frame' = IF area < Len(MemoryMap) THEN MemoryMap[area + 1].first ELSE 0
          /\ UNCHANGED <<free, free_frames, used_frames, reserved_frames>>
       \/ /\ frame <= a.last
          /\ frame' = frame + 1 /\ UNCHANGED area
          /\ \/ /\ a.available /\ Skipped(frame)
                /\ reserved_frames' = reserved_frames + 1
                /\ UNCHANGED <<free, free_frames, used_frames>>
             \/ /\ a.available /\ ~ Skipped(frame)
                /\ mark_frames_free({frame})
                /\ UNCHANGED reserved_frames
             \/ /\ ~ a.available
                /\ reserved_frames' = reserved_frames + (IF frame \in Frames THEN 1 ELSE 0)
                /\ UNCHANGED <<free, free_frames, used_frames>>
    /\ UNCHANGED owned

\* the first clear bit, when the counter says there is one
allocate_frame ==
    /\ Booted
    /\ free_frames # 0 /\ free # {}
    /\ mark_frames_used({Min(free)})
    /\ owned' = owned \cup {Min(free)}
    /\ UNCHANGED <<reserved_frames, area, frame>>

\* consecutive_free after looking at frame f
RunEndingAt[f \in Frames] ==
    IF ~ is_frame_free(f) THEN 0 ELSE IF f = 0 THEN 1 ELSE RunEndingAt[f - 1] + 1

\* Mutant: the run is not reset by a used frame
RunsFoundLoose(count) ==
    {f - count + 1 : f \in {g \in Frames : Cardinality(free \cap 0..g) = count /\ g + 1 >= count}}

\* frames at which the scan of allocate_frames has found `count' in a row
RunsFound(count) == {f - count + 1 : f \in {g \in Frames : RunEndingAt[g] = count}}

allocate_frames(count) ==
    /\ Booted
    /\ count > 1 /\ free_frames >= count /\ RunsFound(count) # {}
    /\ LET start == Min(RunsFound(count))
           run == start..(start + count - 1)
       IN  mark_frames_used(run) /\ owned' = owned \cup run
    /\ UNCHANGED <<reserved_frames, area, frame>>

\* frames past the end and frames that are free already are ignored
deallocate_frames(start, count) ==
    LET run == start..(start + count - 1) IN
    /\ Booted
    /\ run \cap Frames \subseteq owned \cup free
    /\ mark_frames_free(run)
    /\ owned' = owned \ run
    /\ UNCHANGED <<reserved_frames, area, frame>>

Next ==
    \/ parse_memory_map
    \/ allocate_frame
    \/ \E count \in 2..TotalFrames : allocate_frames(count)
    \/ \E start \in 0..TotalFrames, count \in 1..TotalFrames : deallocate_frames(start, count)

Spec == Init /\ [][Next]_vars
-----------------------------------------------------------------------------
\* the frames boot makes allocatable
Usable ==
    {f \in Frames \ Reserved :
        \E i \in 1..Len(MemoryMap) :
            MemoryMap[i].available /\ f \in MemoryMap[i].first..MemoryMap[i].last}

TypeOK ==
    /\ free \subseteq Frames
    /\ free_frames \in 0..(2^Width - 1) /\ used_frames \in 0..(2^Width - 1)
    /\ reserved_frames \in Nat
    /\ area \in 1..(Len(MemoryMap) + 1) /\ frame \in Nat
    /\ owned \subseteq Frames

\* The counters follow the bitmap through every allocation, double free and overlap of
\* memory areas: free_frames is the number of clear bits, and used_frames moves against
\* it (it counts from the zero it was given when every bit was set).
CountersFollowBitmap ==
    /\ free_frames = Cardinality(free)
    /\ Wrap(free_frames + used_frames) = 0

\* No frame is handed out twice, lost or invented: after boot every usable frame is either
\* free or held by a caller, and reserved frames are neither; and the counters follow the
\* bitmap.
FramesConserved ==
    /\ TypeOK /\ CountersFollowBitmap
    /\ free \cap owned = {}
    /\ Booted => free \cup owned = Usable

\* The scan of allocate_frames finds the first run of `count' free frames whenever there
\* is one, and only such runs.
FirstFitIsExact ==
    \A count \in 2..TotalFrames :
        LET runs == {s \in Frames : s + count <= TotalFrames /\ s..(s + count - 1) \subseteq free}
        IN  /\ (runs = {}) = (RunsFound(count) = {})
            /\ runs # {} => Min(RunsFound(count)) = Min(runs)
=============================================================================
