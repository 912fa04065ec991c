------------------------------ MODULE Programs ------------------------------
(***************************************************************************)
(* The init process, the driver manager, its dependency resolver and the   *)
(* keyboard driver.  They are separate programs that share no state (the   *)
(* resolver is not called by the manager's requests), so their composite   *)
(* is a sum: `part' is the one that moves in a behaviour, the others stay  *)
(* in their initial state.                                                 *)
(***************************************************************************)
EXTENDS Integers

CONSTANTS
    EssentialServices, Shell, MaxRestarts, MaxWaitCycles,              \* init
    Drivers, MaxDependents,                                            \* resolver
    DriverPaths, EssentialDrivers, FirstProcess, MaxLoads, MaxProcesses,
    Keys, DefaultSize, Sizes, MaxEvents                                \* keyboard

VARIABLES
    part,
    pc, spawned, service, process, shutdown_requested, wait_cycles,
    dependents, target, to_unload, unload_order,
    drivers, path_to_id, processes, next_driver_id, next_process_id, tried, up,
    status, event_queue, modifiers, extended_scancode, max_queue_size, wire, held, produced

initVars == <<pc, spawned, service, process, shutdown_requested, wait_cycles>>
resolverVars == <<dependents, target, to_unload, unload_order>>
driverVars == <<drivers, path_to_id, processes, next_driver_id, next_process_id, tried, up>>
keyboardVars == <<status, event_queue, modifiers, extended_scancode, max_queue_size,
                  wire, held, produced>>
programVars == <<part, initVars, resolverVars, driverVars, keyboardVars>>

InitProc == INSTANCE InitProcess WITH Essential <- EssentialServices
Resolver == INSTANCE DependencyResolver
Manager == INSTANCE DriverManager WITH Paths <- DriverPaths, Essential <- EssentialDrivers
Input == INSTANCE Keyboard

ASSUME ProgramAssumptions ==
    /\ InitProc!InitAssumption /\ Resolver!ResolverAssumption
    /\ Manager!DriverAssumption /\ Input!KeyboardAssumption

ProgramParts == {"init", "resolver", "drivers", "keyboard"}

ProgramsStart == InitProc!Init /\ Resolver!Init /\ Manager!Init /\ Input!Init

ProgramsInit == part \in ProgramParts /\ ProgramsStart

OfInit(A) ==
    part = "init" /\ A /\ UNCHANGED <<part, resolverVars, driverVars, keyboardVars>>
OfResolver(A) ==
    part = "resolver" /\ A /\ UNCHANGED <<part, initVars, driverVars, keyboardVars>>
OfManager(A) ==
    part = "drivers" /\ A /\ UNCHANGED <<part, initVars, resolverVars, keyboardVars>>
OfKeyboard(A) ==
    part = "keyboard" /\ A /\ UNCHANGED <<part, initVars, resolverVars, driverVars>>

ProgramsNext ==
    \/ OfInit(InitProc!Next) \/ OfResolver(Resolver!Next)
    \/ OfManager(Manager!Next) \/ OfKeyboard(Input!Next)

ProgramsSpec == ProgramsInit /\ [][ProgramsNext]_programVars
-----------------------------------------------------------------------------
\* init: after a shutdown no registered service's process is left running.
ShutdownLeavesNothing == InitProc!ShutdownLeavesNothing

\* init: a requested shutdown completes, also when services ignore SIGTERM.
ShutdownCompletes == InitProc!ShutdownCompletes

\* dependency_resolver.rs: get_unload_order lists exactly what is affected, once each, the
\* driver itself last.
OrderIsComplete == Resolver!OrderIsComplete

\* dependency_resolver.rs: its worklist runs empty, with cycles and duplicates too.
OrderTerminates == Resolver!OrderTerminates

\* A driver leaves the registry only together with its process.
UnloadStopsProcess == Manager!UnloadStopsProcess

\* drivers/keyboard: SHIFT, CTRL and ALT are set only while a key that sets them is down.
NoStuckModifier == Input!NoStuckModifier

\* drivers/keyboard: the queue holds the latest events, in order, without a gap.
EventsAreLatest == Input!EventsAreLatest
=============================================================================
