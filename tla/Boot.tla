-------------------------------- MODULE Boot --------------------------------
(***************************************************************************)
(* The start of the kernel on x86_64: _start and the panic handler of      *)
(* kernel/src/main.rs, init_kernel of kernel/src/boot.rs and what its      *)
(* stages need of one another.  There is one context.  A stage initialises *)
(* its subsystem and then tests it; kept are the subsystems that are up,   *)
(* the KERNEL_HEAP lock, and whether the stage allocates on the heap: an   *)
(* allocation that fails panics, and a lock taken twice is waited for for  *)
(* ever.  The settings the self tests leave behind are left out.           *)
(*                                                                         *)
(* The build is the release build of scripts/build.sh, in which counters   *)
(* wrap instead of panicking.                                              *)
(***************************************************************************)
EXTENDS Naturals, Sequences

CONSTANTS
    Failing,                         \* subsystems whose initialisation returns an error
    LevelSamples, ChargingSamples    \* lengths of the battery monitor's histories, 20 and 10

\* the calls of init_kernel, in order, with the five subsystems of init_power_management
Stages == <<"platform", "cpu", "gdt", "memory_map", "physical", "virtual", "heap", "swap",
            "process", "ipc", "syscall", "cpu_scaling", "idle", "battery", "policy",
            "responsiveness", "console">>

VARIABLES
    outcome,      \* "loading", "running", "complete" or "panic"
    stage,        \* index of the stage that runs
    step,         \* "init" or "test"
    up,           \* the subsystems that are initialised
    heap_lock     \* KERNEL_HEAP is held

vars == <<outcome, stage, step, up, heap_lock>>

Init == outcome = "loading" /\ stage = 1 /\ step = "init" /\ up = {} /\ heap_lock = FALSE

Run(s, what) == outcome = "running" /\ Stages[stage] = s /\ step = what

\* main.rs: the multiboot information is read, or boot panics
_start ==
    /\ outcome = "loading" /\ outcome' \in {"running", "panic"}
    /\ UNCHANGED <<stage, step, up, heap_lock>>

panic == outcome' = "panic" /\ UNCHANGED <<stage, step, up, heap_lock>>

\* the stage is over; after the last one _start prints its last line and halts
NextStage(brought_up) ==
    /\ up' = up \cup brought_up
    /\ step' = "init"
    /\ IF stage = Len(Stages) THEN outcome' = "complete" /\ UNCHANGED stage
       ELSE stage' = stage + 1 /\ UNCHANGED outcome
    /\ UNCHANGED heap_lock

\* GlobalAlloc::alloc: null while the heap has no memory, which ends in a panic; the lock is
\* not taken twice by one context
AllocFails == "heap" \notin up /\ ~ heap_lock
AllocWorks == "heap" \in up /\ ~ heap_lock

\* a function that initialises s and, after success, tests it; `allocates' tells whether the
\* two allocate
Succeed(s, allocates) ==
    /\ s \notin Failing
    /\ \/ allocates /\ AllocFails /\ panic
       \/ (allocates => AllocWorks) /\ NextStage({s})

\* match init() { Ok => test, Err => panic! } and the same with a warning
Require(s, allocates) ==
    Run(s, "init") /\ (Succeed(s, allocates) \/ (s \in Failing /\ panic))
Try(s, allocates) ==
    Run(s, "init") /\ (Succeed(s, allocates) \/ (s \in Failing /\ NextStage({})))

init_platform_abstraction == Require("platform", FALSE)

\* these cannot fail: without a memory map there is only a warning
init_cpu_state      == Run("cpu", "init") /\ NextStage({"cpu"})
init_gdt            == Run("gdt", "init") /\ NextStage({"gdt"})
parse_memory_map    == Run("memory_map", "init") /\ NextStage({})
test_console_output == Run("console", "init") /\ NextStage({})

init_physical_memory == Require("physical", FALSE)

\* setup_kernel_memory_layout pushes three regions to a Vec
init_virtual_memory == Require("virtual", TRUE)

init_swap_management    == Try("swap", TRUE)
init_process_management == Require("process", TRUE)
init_ipc_system         == Require("ipc", TRUE)
init_syscall_interface  == Require("syscall", TRUE)

\* KernelHeapAllocator::init takes its frames from the frame allocator
init_heap_allocator ==
    /\ Run("heap", "init")
    /\ IF "heap" \in Failing \/ "physical" \notin up THEN panic
       ELSE up' = up \cup {"heap"} /\ step' = "test" /\ UNCHANGED <<outcome, stage, heap_lock>>

\* test_heap_allocator: the lock guard of `match KERNEL_HEAP.lock().allocate(layout)' lives to
\* the end of the match, whose arm pushes to a Vec
test_heap_lock ==
    /\ Run("heap", "test") /\ ~ heap_lock /\ heap_lock' = TRUE
    /\ UNCHANGED <<outcome, stage, step, up>>
test_heap_push ==
    /\ Run("heap", "test") /\ heap_lock
    /\ AllocWorks /\ NextStage({})

\* battery_monitor::init takes a sample, which looks up charging_history at every index of
\* level_history
battery_init ==
    /\ Run("battery", "init")
    /\ IF LevelSamples > ChargingSamples THEN panic
       ELSE NextStage({"battery"} \ Failing)

\* the five subsystems of init_power_management: power_policy::init pushes its callback
\* to a Vec if there is a battery monitor, and the test of all five follows the last one
init_power_management ==
    \/ Try("cpu_scaling", FALSE) \/ Try("idle", FALSE)
    \/ battery_init
    \/ Try("policy", "battery" \in up)
    \/ Try("responsiveness", TRUE)

Next ==
    \/ _start
    \/ init_platform_abstraction \/ init_cpu_state \/ init_gdt \/ parse_memory_map
    \/ init_physical_memory \/ init_virtual_memory
    \/ init_heap_allocator \/ test_heap_lock \/ test_heap_push
    \/ init_swap_management \/ init_process_management \/ init_ipc_system
    \/ init_syscall_interface \/ init_power_management \/ test_console_output

Spec == Init /\ [][Next]_vars /\ WF_vars(Next)
-----------------------------------------------------------------------------
\* VIRTUALBOX_SETUP.md:138 lists among what to expect "Kernel reaches "initialized
\* successfully" message": with valid multiboot information and no failing device boot
\* completes.
BootCompletes == (outcome = "running" /\ Failing = {}) ~> (outcome = "complete")
=============================================================================
