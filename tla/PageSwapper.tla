----------------------------- MODULE PageSwapper -----------------------------
(***************************************************************************)
(* kernel/src/memory/swap_algorithm.rs: the replacement algorithms and the *)
(* PageSwapper that drives them, on top of the swap space it uses          *)
(* (SwapSpace, which SwapManager implements).                              *)
(*                                                                         *)
(* Every entry point holds PAGE_SWAPPER for its whole run, so a call is    *)
(* one step except swap_out_pages, whose iterations each lock SWAP_MANAGER *)
(* anew: devices may be added or removed between them.  Timestamps matter  *)
(* by their order only: `recency' lists page_info by last_access, oldest   *)
(* first.  Statistics are left out.  A page that is in swap is reached     *)
(* through handle_page_fault, never through record_page_access.            *)
(***************************************************************************)
EXTENDS Collections, FiniteSetsExt, SwapSpace

CONSTANTS
    PageOrder,      \* SwapPages in the order of their frame numbers
    MaxPages,       \* max_pages of PageSwapper::new
    MaxCapacity,    \* bound on the slots of swap space
    MaxAccesses,    \* bound on access_count
    Algorithms      \* the algorithms that are set

None == "none"

ASSUME SwapperAssumption ==
    /\ PageOrder \in Seq(SwapPages)
    /\ Range(PageOrder) = SwapPages /\ IsInjective(PageOrder) /\ None \notin SwapPages
    /\ MaxPages \in Nat \ {0} /\ MaxCapacity \in Nat /\ MaxAccesses \in Nat
    /\ Algorithms \subseteq {"LRU", "FIFO", "Clock", "LFU"}

VARIABLES
    algorithm,
    lru,            \* [pages: most recent first, positions: page -> index]
    fifo,           \* oldest first
    clock,          \* [pages: sequence of <<page, referenced>>, hand: 0..Len]
    recency, access_count,      \* page_info
    threshold,      \* memory_pressure_threshold
    loop,           \* swap_out_pages: [todo: iterations left, pressure: BOOLEAN]
    panicked

replacementVars == <<algorithm, lru, fifo, clock, recency, access_count, threshold, loop, panicked>>
swapperVars == <<replacementVars, spaceVars>>

-----------------------------------------------------------------------------
\* LRUReplacer
Positions(pages) == [p \in Range(pages) |-> (CHOOSE i \in DOMAIN pages : pages[i] = p) - 1]

lru_access_page(l, p) ==
    LET at == IF p \in DOMAIN l.positions THEN l.positions[p] + 1 ELSE 0
        rest == IF at = 0 THEN l.pages ELSE RemovedAt(l.pages, at)
        moved == <<p>> \o rest
        kept == IF Len(moved) > MaxPages THEN SubSeq(moved, 1, MaxPages) ELSE moved
    IN  [pages |-> kept, positions |-> Restrict(Positions(moved), Range(kept))]

lru_victim(l) == IF l.pages = << >> THEN None ELSE l.pages[Len(l.pages)]

lru_remove_page(l, p) ==
    IF p \notin DOMAIN l.positions THEN l
    ELSE LET at == l.positions[p] IN
         [pages |-> RemovedAt(l.pages, at + 1),
          positions |-> [q \in DOMAIN l.positions \ {p} |->
              IF l.positions[q] > at THEN l.positions[q] - 1 ELSE l.positions[q]]]

\* FIFOReplacer
fifo_add_page(f, p) ==
    IF p \in Range(f) THEN f
    ELSE LET g == Append(f, p) IN IF Len(g) > MaxPages THEN Tail(g) ELSE g

fifo_victim(f) == IF f = << >> THEN None ELSE Head(f)

-----------------------------------------------------------------------------
\* ClockReplacer.  Positions count from 0 as the hand does.
ClockPages(c) == {c.pages[i][1] : i \in DOMAIN c.pages}
AtHand(c) == IF c.hand >= Len(c.pages) THEN 0 ELSE c.hand
PassedBy(c, k) == (AtHand(c) + k) % Len(c.pages)

\* how many pages the hand passes before one whose bit is clear; all of them when none is
SecondChances(c) ==
    LET clear == {k \in 0..(Len(c.pages) - 1) : ~ c.pages[PassedBy(c, k) + 1][2]}
    IN  IF clear = {} THEN Len(c.pages) ELSE Min(clear)

\* the bits of the pages the hand passes are cleared
Cleared(c, n) ==
    [i \in DOMAIN c.pages |->
        <<c.pages[i][1], c.pages[i][2] /\ \A k \in 0..(n - 1) : PassedBy(c, k) # i - 1>>]

clock_access_page(c, p) ==
    LET n == Len(c.pages) IN
    CASE p \in ClockPages(c) ->
            [c EXCEPT !.pages = [i \in DOMAIN @ |-> IF @[i][1] = p THEN <<p, TRUE>> ELSE @[i]]]
      [] p \notin ClockPages(c) /\ n < MaxPages ->
            [c EXCEPT !.pages = Append(@, <<p, TRUE>>)]
      [] OTHER ->   \* replace_page
            LET skip == SecondChances(c)
                at == PassedBy(c, skip)
            IN  [pages |-> [Cleared(c, skip) EXCEPT ![at + 1] = <<p, TRUE>>], hand |-> at + 1]

\* all bits set: the hand comes back to start_position and the loop is left, unless the
\* hand was at 0, which it never comes back to
LoopBroken(c) == SecondChances(c) = Len(c.pages) /\ c.hand # 0

\* pages[clock_hand] past the end
ClockOutOfBounds(c) == c.pages # << >> /\ LoopBroken(c) /\ c.hand = Len(c.pages)

clock_victim(c) ==
    CASE c.pages = << >> -> [victim |-> None, clock |-> c]
      [] c.pages # << >> /\ LoopBroken(c) ->
            [victim |-> c.pages[AtHand(c) + 1][1],
             clock |-> [c EXCEPT !.pages = Cleared(c, Len(c.pages))]]
      [] OTHER ->
            LET skip == SecondChances(c)
                at == PassedBy(c, skip)
            IN  [victim |-> c.pages[at + 1][1],
                 clock |-> [pages |-> Cleared(c, skip), hand |-> at + 1]]

clock_remove_page(c, p) ==
    IF p \notin ClockPages(c) THEN c
    ELSE LET pos == (CHOOSE i \in DOMAIN c.pages : c.pages[i][1] = p) - 1
             left == RemovedAt(c.pages, pos + 1)
         IN  [pages |-> left,
              hand |-> IF c.hand > pos THEN c.hand - 1
                       ELSE IF c.hand >= Len(left) /\ left # << >> THEN 0 ELSE c.hand]

-----------------------------------------------------------------------------
Idle == loop.todo = 0 /\ ~ panicked

SwapperInit ==
    /\ SpaceInit
    /\ algorithm \in Algorithms
    /\ lru = [pages |-> << >>, positions |-> << >>]
    /\ fifo = << >>
    /\ clock = [pages |-> << >>, hand |-> 0]
    /\ recency = << >> /\ access_count = << >>
    /\ threshold = MaxPages
    /\ loop = [todo |-> 0, pressure |-> FALSE]
    /\ panicked = FALSE

Count(p) == IF p \in DOMAIN access_count THEN access_count[p] ELSE 0

access_page(p) ==
    /\ Count(p) < MaxAccesses
    /\ recency' = Append(Without(recency, p), p)
    /\ access_count' = [q \in DOMAIN access_count \cup {p} |->
                            IF q = p THEN Count(p) + 1 ELSE access_count[q]]
    /\ lru' = IF algorithm = "LRU" THEN lru_access_page(lru, p) ELSE lru
    /\ fifo' = IF algorithm = "FIFO" THEN fifo_add_page(fifo, p) ELSE fifo
    /\ clock' = IF algorithm = "Clock" THEN clock_access_page(clock, p) ELSE clock
    /\ UNCHANGED <<algorithm, threshold, loop, panicked>>

record_page_access(p) == Idle /\ p \notin swapped /\ access_page(p) /\ UNCHANGED spaceVars

handle_page_fault(p) == Idle /\ GiveBack(p) /\ access_page(p)

set_algorithm(a) ==
    /\ Idle /\ algorithm' = a
    /\ UNCHANGED <<lru, fifo, clock, recency, access_count, threshold, loop, panicked, spaceVars>>

set_memory_pressure_threshold(t) ==
    /\ Idle /\ threshold' = t
    /\ UNCHANGED <<algorithm, lru, fifo, clock, recency, access_count, loop, panicked, spaceVars>>

get_current_page_count ==
    CASE algorithm = "LRU" -> Len(lru.pages)
      [] algorithm = "FIFO" -> Len(fifo)
      [] algorithm = "Clock" -> Len(clock.pages)
      [] algorithm = "LFU" -> Len(recency)

StartLoop(n, pressure) ==
    /\ Idle /\ loop' = [todo |-> n, pressure |-> pressure]
    /\ UNCHANGED <<algorithm, lru, fifo, clock, recency, access_count, threshold, panicked, spaceVars>>

\* Mutant: one page too few
Excess_off_by_one == get_current_page_count - threshold - 1

Excess == get_current_page_count - threshold

check_memory_pressure == Excess > 0 /\ StartLoop(Excess, TRUE)

swap_out_pages(n) == StartLoop(n, FALSE)

\* min_by_key over a map ordered by frame number: the first of the least counts
LeastUsed ==
    LET known == Picked(PageOrder, {i \in DOMAIN PageOrder : PageOrder[i] \in DOMAIN access_count}) IN
    IF known = << >> THEN None
    ELSE known[Min({i \in DOMAIN known :
                    \A j \in DOMAIN known : access_count[known[i]] <= access_count[known[j]]})]

select_victim_page ==
    CASE algorithm = "LRU" -> lru_victim(lru)
      [] algorithm = "FIFO" -> fifo_victim(fifo)
      [] algorithm = "Clock" -> clock_victim(clock).victim
      [] algorithm = "LFU" -> LeastUsed

ClockAfterSelect == IF algorithm = "Clock" THEN clock_victim(clock).clock ELSE clock

\* Mutant: the page leaves only the replacer of the current algorithm
remove_page_from_current(p) ==
    /\ lru' = IF algorithm = "LRU" THEN lru_remove_page(lru, p) ELSE lru
    /\ fifo' = IF algorithm = "FIFO" THEN Without(fifo, p) ELSE fifo
    /\ clock' = IF algorithm = "Clock" THEN clock_remove_page(ClockAfterSelect, p) ELSE clock

remove_page_from_tracking(p) ==
    /\ lru' = lru_remove_page(lru, p)
    /\ fifo' = Without(fifo, p)
    /\ clock' = clock_remove_page(ClockAfterSelect, p)

\* swap_out_page(victim) succeeds
SwapOutVictim ==
    LET v == select_victim_page IN
    /\ v \in DOMAIN access_count
    /\ Keep(v)
    /\ remove_page_from_tracking(v)
    /\ recency' = Without(recency, v)
    /\ access_count' = Restrict(access_count, DOMAIN access_count \ {v})
    /\ loop' = [loop EXCEPT !.todo = @ - 1]
    /\ UNCHANGED panicked

\* no victim, or swap_out_page fails: the loop is left
SwapOutStops ==
    LET v == select_victim_page IN
    /\ v = None \/ (v \in DOMAIN access_count /\ (v \in swapped \/ ~ Room))
    /\ clock' = ClockAfterSelect
    /\ loop' = [loop EXCEPT !.todo = 0]
    /\ UNCHANGED <<lru, fifo, recency, access_count, panicked, spaceVars>>

SwapOutPanics ==
    /\ algorithm = "Clock" /\ ClockOutOfBounds(clock)
    /\ panicked' = TRUE
    /\ UNCHANGED <<lru, fifo, clock, recency, access_count, loop, spaceVars>>

\* one iteration of swap_out_pages
SwapOutIteration ==
    /\ loop.todo > 0 /\ ~ panicked
    /\ IF algorithm = "Clock" /\ ClockOutOfBounds(clock) THEN SwapOutPanics
       ELSE SwapOutVictim \/ SwapOutStops
    /\ UNCHANGED <<algorithm, threshold>>

\* swap devices are added and removed by others
SwapSpaceChanges ==
    /\ \E c \in 0..MaxCapacity : c # capacity /\ capacity' = c
    /\ ~ panicked /\ Resize /\ UNCHANGED replacementVars

SwapperNext ==
    \/ \E p \in SwapPages : record_page_access(p) \/ handle_page_fault(p)
    \/ \E a \in Algorithms \ {algorithm} : set_algorithm(a)
    \/ \E t \in (0..MaxPages) \ {threshold} : set_memory_pressure_threshold(t)
    \/ check_memory_pressure
    \/ \E n \in 1..2 : swap_out_pages(n)
    \/ SwapOutIteration
    \/ SwapSpaceChanges

SwapperSpec == SwapperInit /\ [][SwapperNext]_swapperVars
-----------------------------------------------------------------------------
SwapperTypeOK ==
    /\ algorithm \in Algorithms
    /\ swapped \subseteq SwapPages /\ capacity \in 0..MaxCapacity
    /\ Range(lru.pages) \subseteq SwapPages /\ Range(fifo) \subseteq SwapPages
    /\ ClockPages(clock) \subseteq SwapPages /\ clock.hand \in 0..Len(clock.pages)
    /\ Len(lru.pages) <= MaxPages /\ Len(fifo) <= MaxPages /\ Len(clock.pages) <= MaxPages
    /\ Range(recency) = DOMAIN access_count
    /\ threshold \in 0..MaxPages

\* Whatever algorithms were in force when, a page that some replacer would name as victim
\* has its page_info and is in memory: swap_out_pages never picks a page that is in swap.
TrackedInMemory ==
    LET tracked == Range(lru.pages) \cup Range(fifo) \cup ClockPages(clock) IN
    /\ tracked \subseteq DOMAIN access_count
    /\ DOMAIN access_count \cap swapped = {}

\* No replacer names a victim that is in swap or is not tracked, and the clock hand stays on
\* the ring or one past its end.
VictimsAreInMemory == SwapperTypeOK /\ TrackedInMemory

\* A pressure pass that swaps out all the pages it set out to brings the page count down
\* to the threshold.
PressureRelieved ==
    [][ loop.pressure /\ loop.todo = 1 /\ loop'.todo = 0 /\ swapped' # swapped
            => get_current_page_count' <= threshold' ]_swapperVars
=============================================================================
