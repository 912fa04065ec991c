----------------------------- MODULE Collections ----------------------------
(***************************************************************************)
(* What the code does with the collections of the Rust library that the    *)
(* community modules do not have, or only among much else.  Positions      *)
(* count from 1.                                                           *)
(***************************************************************************)
EXTENDS Integers, Sequences, FiniteSets, Functions

\* iter().sum(), and the loops that add up counters
Sum(f) == FoldFunction(+, 0, f)

\* the numbers of a finite set in increasing order
Ascending(ns) ==
    [k \in 1 .. Cardinality(ns) |-> CHOOSE n \in ns : Cardinality({m \in ns : m < n}) = k - 1]

\* filter: the elements of s at the positions ix, in their order
Picked(s, ix) == [k \in 1 .. Cardinality(ix) |-> s[Ascending(ix)[k]]]

\* retain(|y| y != x)
Without(s, x) == Picked(s, {i \in 1 .. Len(s) : s[i] # x})

\* Vec::remove
RemovedAt(s, i) == [k \in 1 .. Len(s) - 1 |-> IF k < i THEN s[k] ELSE s[k + 1]]
=============================================================================
