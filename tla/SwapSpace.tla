------------------------------ MODULE SwapSpace ------------------------------
(***************************************************************************)
(* What swap space promises its users: a page is kept from the moment it   *)
(* is swapped out until it is swapped in, and at most `capacity' pages at  *)
(* a time.  SwapManager is shown to implement this; PageSwapper uses it.   *)
(***************************************************************************)
EXTENDS Naturals, FiniteSets

CONSTANT SwapPages

VARIABLES
    swapped,    \* pages kept in swap
    capacity    \* slots of the devices that can be written

spaceVars == <<swapped, capacity>>

SpaceInit == swapped = {} /\ capacity = 0

\* the devices change, but never below what they hold
Resize == capacity' \in Nat /\ capacity' >= Cardinality(swapped) /\ UNCHANGED swapped

Room == Cardinality(swapped) < capacity

Keep(p) ==
    /\ p \notin swapped /\ Room
    /\ swapped' = swapped \cup {p} /\ UNCHANGED capacity

GiveBack(p) == p \in swapped /\ swapped' = swapped \ {p} /\ UNCHANGED capacity

SpaceNext == Resize \/ \E p \in SwapPages : Keep(p) \/ GiveBack(p)

SpaceSpec == SpaceInit /\ [][SpaceNext]_spaceVars
=============================================================================
