------------------------- MODULE DependencyResolver -------------------------
(***************************************************************************)
(* Driver dependencies, userspace/driver-manager/src/                      *)
(* dependency_resolver.rs: the map from a driver to its dependents and the *)
(* worklist algorithm get_unload_order, one action per iteration of its    *)
(* loop.  Only one caller uses the resolver: the order is computed between *)
(* two changes of the map.                                                 *)
(***************************************************************************)
EXTENDS Collections

CONSTANTS
    Drivers,
    MaxDependents     \* bound: entries of one driver's list of dependents

VARIABLES
    dependents,       \* [Drivers -> Seq(Drivers)]; no entry and an empty list are the same
    target,           \* driver get_unload_order was called for, or NoDriver
    to_unload, unload_order

vars == <<dependents, target, to_unload, unload_order>>

NoDriver == "none"

ResolverAssumption == MaxDependents \in Nat /\ NoDriver \notin Drivers

Init ==
    /\ dependents = [d \in Drivers |-> << >>]
    /\ target = NoDriver /\ to_unload = << >> /\ unload_order = << >>

Idle == target = NoDriver

add_dependency(dependent, dependency) ==
    /\ Idle /\ Len(dependents[dependency]) < MaxDependents
    /\ dependents' = [dependents EXCEPT ![dependency] = Append(@, dependent)]
    /\ UNCHANGED <<target, to_unload, unload_order>>

remove_dependency(dependent, dependency) ==
    /\ Idle
    /\ dependents' = [dependents EXCEPT ![dependency] = Without(@, dependent)]
    /\ UNCHANGED <<target, to_unload, unload_order>>

get_unload_order(d) ==
    /\ Idle
    /\ target' = d /\ to_unload' = <<d>> /\ unload_order' = << >>
    /\ UNCHANGED dependents

\* Mutant: drivers already listed are pushed again
PushedAll(d) == dependents[d]

\* the dependents that are pushed for d
Pushed(d) ==
    Picked(dependents[d], {i \in 1 .. Len(dependents[d]) : dependents[d][i] \notin Range(unload_order)})

\* Mutant: a driver met twice is listed twice
ListedAgain(d) == Append(unload_order, d)

Listed(d) == IF d \in Range(unload_order) THEN unload_order ELSE Append(unload_order, d)

Iterate ==
    /\ to_unload # << >>
    /\ LET current == to_unload[Len(to_unload)] IN
       /\ to_unload' = SubSeq(to_unload, 1, Len(to_unload) - 1) \o Pushed(current)
       /\ unload_order' = Listed(current)
    /\ UNCHANGED <<dependents, target>>

\* the caller takes the reversed list
Return ==
    /\ ~ Idle /\ to_unload = << >>
    /\ target' = NoDriver /\ unload_order' = << >>
    /\ UNCHANGED <<dependents, to_unload>>

Next ==
    \/ \E d, e \in Drivers : add_dependency(d, e) \/ remove_dependency(d, e)
    \/ \E d \in Drivers : get_unload_order(d)
    \/ Iterate \/ Return

\* The loop is one function call: it runs on until it ends.
Spec == Init /\ [][Next]_vars /\ WF_vars(Iterate) /\ WF_vars(Return)
-----------------------------------------------------------------------------
\* closed under dependents
Closed(ds) == \A d \in ds : Range(dependents[d]) \subseteq ds

\* the drivers that depend on d, directly or not, and d: the least closed set
Affected(d) ==
    {x \in Drivers : \A ds \in SUBSET Drivers : d \in ds /\ Closed(ds) => x \in ds}

Ready == ~ Idle /\ to_unload = << >>
Order == [i \in DOMAIN unload_order |-> unload_order[Len(unload_order) + 1 - i]]

\* The order lists the driver and everything that depends on it, however indirectly, once
\* each, and the driver last, also when the dependencies form a cycle.
OrderIsComplete ==
    Ready => /\ Range(Order) = Affected(target)
             /\ IsInjective(Order)
             /\ Order[Len(Order)] = target

\* Each call returns, with duplicate entries and with cycles too.
OrderTerminates == (~ Idle) ~> Idle
=============================================================================
