--------------------------- MODULE DriverManager ----------------------------
(***************************************************************************)
(* The driver manager service, userspace/driver-manager/src: main.rs,      *)
(* driver_registry.rs, isolation.rs and driver_loader.rs.  Requests are    *)
(* handled one at a time; each action is one request with every step it    *)
(* takes before it fails.  The loader returns a binary without data or     *)
(* dependencies, so resolve_dependencies succeeds and start_driver_process *)
(* always fails.  Nothing calls add_dependency: has_dependents is FALSE.   *)
(* Listing drivers and SendToDriver, whose answer is made up by the        *)
(* manager, change nothing and are no steps.                               *)
(***************************************************************************)
EXTENDS Integers, Sequences, FiniteSets, Functions

CONSTANTS
    Paths,
    Essential,       \* sequence of the paths that initialize loads
    FirstProcess,    \* 1000 in the code
    MaxLoads,        \* bound: calls of load_driver
    MaxProcesses     \* bound: processes created

DriverAssumption ==
    /\ \A i \in DOMAIN Essential : Essential[i] \in Paths
    /\ {FirstProcess, MaxLoads, MaxProcesses} \subseteq Nat

VARIABLES
    drivers,          \* registry: driver id -> [path, process]
    path_to_id,       \* registry: path -> driver id
    processes,        \* isolation: process id -> [driver, limit]
    next_driver_id, next_process_id,
    tried,            \* essential drivers that initialize has tried to load
    up                \* until shutdown

vars == <<drivers, path_to_id, processes, next_driver_id, next_process_id, tried, up>>

Put(f, k, v) == [x \in DOMAIN f \cup {k} |-> IF x = k THEN v ELSE f[x]]
Without(f, ks) == Restrict(f, DOMAIN f \ ks)

DriverProcess(id) == [driver |-> id, limit |-> "default"]

Init ==
    /\ drivers = << >> /\ path_to_id = << >> /\ processes = << >>
    /\ next_driver_id = 1 /\ next_process_id = FirstProcess /\ tried = 0 /\ up = TRUE

create_driver_process(id) ==
    /\ processes' = Put(processes, next_process_id, DriverProcess(id))
    /\ next_process_id' = next_process_id + 1

\* ResourceBusy when the path is in use
register_driver(id, path, process) ==
    IF path \in DOMAIN path_to_id THEN UNCHANGED <<drivers, path_to_id>>
    ELSE /\ drivers' = Put(drivers, id, [path |-> path, process |-> process])
         /\ path_to_id' = Put(path_to_id, path, id)

\* load_driver always returns an error: ResourceBusy, or InitializationFailed from
\* start_driver_process
load_driver(path) ==
    /\ next_driver_id <= MaxLoads /\ next_process_id < FirstProcess + MaxProcesses
    /\ next_driver_id' = next_driver_id + 1
    /\ create_driver_process(next_driver_id)
    /\ register_driver(next_driver_id, path, next_process_id)

\* one turn of the loop of initialize, which goes on after an error
initialize ==
    /\ tried < Len(Essential)
    /\ load_driver(Essential[tried + 1]) /\ tried' = tried + 1
    /\ UNCHANGED up

Serving == tried = Len(Essential) /\ up

LoadDriver(path) == Serving /\ load_driver(path) /\ UNCHANGED <<tried, up>>

\* Mutant: the process is left running
StoppedNot(ids) == processes

\* stop_driver_process for the drivers ids
Stopped(ids) == Without(processes, {drivers[d].process : d \in ids})

Unloaded(ids) ==
    /\ processes' = Stopped(ids)
    /\ drivers' = Without(drivers, ids)
    /\ path_to_id' = Without(path_to_id, {drivers[d].path : d \in ids})
    /\ UNCHANGED <<next_driver_id, next_process_id>>

unload_driver(id) ==
    /\ Serving /\ id \in DOMAIN drivers
    /\ drivers[id].process \in DOMAIN processes
    /\ Unloaded({id})
    /\ UNCHANGED <<tried, up>>

\* shutdown unloads every listed driver
shutdown ==
    /\ Serving /\ up' = FALSE /\ UNCHANGED tried
    /\ Unloaded({d \in DOMAIN drivers : drivers[d].process \in DOMAIN processes})

\* DriverIsolation's own operations, on a process id
set_memory_limit(q) ==
    /\ Serving /\ q \in DOMAIN processes
    /\ processes' = [processes EXCEPT ![q].limit = "set"]
    /\ UNCHANGED <<drivers, path_to_id, next_driver_id, next_process_id, tried, up>>

restart_driver(q) ==
    /\ Serving /\ q \in DOMAIN processes /\ next_process_id < FirstProcess + MaxProcesses
    /\ processes' = Put(Without(processes, {q}), next_process_id, DriverProcess(processes[q].driver))
    /\ next_process_id' = next_process_id + 1
    /\ UNCHANGED <<drivers, path_to_id, next_driver_id, tried, up>>

Next ==
    \/ initialize
    \/ \E p \in Paths : LoadDriver(p)
    \/ \E id \in DOMAIN drivers : unload_driver(id)
    \/ \E q \in DOMAIN processes : set_memory_limit(q) \/ restart_driver(q)
    \/ shutdown

Spec == Init /\ [][Next]_vars
-----------------------------------------------------------------------------
\* A driver leaves the registry only together with the process the registry has for it, and
\* no two registered drivers share one.
UnloadStopsProcess ==
    [][\A d \in DOMAIN drivers : d \notin DOMAIN drivers' =>
        /\ drivers[d].process \in DOMAIN processes \ DOMAIN processes'
        /\ processes[drivers[d].process].driver = d]_vars
=============================================================================
