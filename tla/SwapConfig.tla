----------------------------- MODULE SwapConfig -----------------------------
(***************************************************************************)
(* The swap configuration, kernel/src/memory/swap_config.rs: a list of     *)
(* configurations, the indices of the active ones sorted by priority, and  *)
(* what activating one does to the swap manager's device list.  Indices    *)
(* start at 0.  A configuration is identified by its place in the          *)
(* enumeration of Configs, which the code does not record.                 *)
(***************************************************************************)
EXTENDS Collections

CONSTANTS
    Configs,       \* configurations that can be added
    Priority,      \* [Configs -> Nat]
    MaxActivations \* bound: device activations

ASSUME ConfigAssumption == Priority \in [Configs -> Nat] /\ MaxActivations \in Nat

VARIABLES
    configs,          \* Seq of [id, enabled]
    active_devices,   \* Seq of indices into configs
    configured_devices
                      \* the swap manager's devices: ids of the configurations they came from

configVars == <<configs, active_devices, configured_devices>>

Config(i) == configs[i + 1]
Indices == 0..(Len(configs) - 1)
Ids == {configs[k].id : k \in 1..Len(configs)}

ConfigInit ==
    /\ configs \in {<< >>} \cup {<<[id |-> c, enabled |-> TRUE]>> : c \in Configs}
    /\ active_devices = << >> /\ configured_devices = << >>

add_config(c, enabled) ==
    /\ c \notin Ids
    /\ configs' = Append(configs, [id |-> c, enabled |-> enabled])
    /\ UNCHANGED <<active_devices, configured_devices>>

\* Mutant: the indices above the removed one are left alone
RenumberedNot(i, s) == s

\* the loop at the end of remove_config
Renumbered(i, s) == [k \in 1..Len(s) |-> IF s[k] > i THEN s[k] - 1 ELSE s[k]]

remove_config(i) ==
    /\ i \in Indices
    /\ active_devices' = Renumbered(i, Without(active_devices, i))
    /\ configs' = RemovedAt(configs, i + 1)
    /\ UNCHANGED configured_devices

disable_config(i) ==
    /\ i \in Indices
    /\ configs' = [configs EXCEPT ![i + 1].enabled = FALSE]
    /\ active_devices' = Without(active_devices, i)
    /\ UNCHANGED configured_devices

PriorityAt(i) == Priority[Config(i).id]

\* a stable sort by decreasing priority: the places whose entries go before that of place k
Before(s, k) ==
    {j \in 1..Len(s) :
        \/ PriorityAt(s[j]) > PriorityAt(s[k])
        \/ PriorityAt(s[j]) = PriorityAt(s[k]) /\ j < k}

Sorted(s) ==
    [n \in 1..Len(s) |-> s[CHOOSE k \in 1..Len(s) : Cardinality(Before(s, k)) = n - 1]]

\* enable_config and activate_device; creating or adding the device may fail after
\* `enabled' is set
enable_config(i) ==
    /\ i \in Indices
    /\ configs' = [configs EXCEPT ![i + 1].enabled = TRUE]
    /\ \/ /\ Len(configured_devices) < MaxActivations
          /\ configured_devices' = Append(configured_devices, Config(i).id)
          /\ active_devices' = Sorted(Append(active_devices, i))
       \/ UNCHANGED <<configured_devices, active_devices>>

\* initialize_all: each enabled configuration in order, any of which may fail.  Each is pushed
\* and sorted in; as the sort is stable, sorting once after the last push is the same.
initialize_all ==
    \E ok \in SUBSET {i \in Indices : Config(i).enabled} :
        LET order == Ascending(ok) IN
        /\ Len(configured_devices) + Len(order) <= MaxActivations
        /\ configured_devices' = configured_devices \o [k \in 1..Len(order) |-> Config(order[k]).id]
        /\ active_devices' = Sorted(active_devices \o order)
        /\ UNCHANGED configs

ConfigNext ==
    \/ \E c \in Configs, e \in BOOLEAN : add_config(c, e)
    \/ \E i \in Indices : remove_config(i) \/ disable_config(i) \/ enable_config(i)
    \/ initialize_all

ConfigSpec == ConfigInit /\ [][ConfigNext]_configVars
-----------------------------------------------------------------------------
\* Active indices name configurations that exist and are enabled, whatever was removed
\* below them: remove_config renumbers, disable_config filters.
ActiveAreEnabled ==
    \A k \in 1..Len(active_devices) :
        active_devices[k] \in Indices /\ Config(active_devices[k]).enabled

\* active_devices stays sorted by decreasing priority through activations in any order,
\* removals and renumbering (swap_config.rs:44).
ActiveSorted ==
    \A j, k \in 1..Len(active_devices) :
        j < k => PriorityAt(active_devices[j]) >= PriorityAt(active_devices[k])

\* Every active configuration has a device in the swap manager for each time it is listed.
ActiveHaveDevices ==
    \A i \in Indices :
        Cardinality({k \in 1..Len(active_devices) : active_devices[k] = i})
            <= Cardinality({k \in 1..Len(configured_devices) : configured_devices[k] = Config(i).id})

\* Whatever was removed, the active indices name enabled configurations, each with a device in
\* the swap manager, sorted by decreasing priority.
ActiveDevicesValid == ActiveAreEnabled /\ ActiveSorted /\ ActiveHaveDevices
=============================================================================
