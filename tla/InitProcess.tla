---------------------------- MODULE InitProcess -----------------------------
(***************************************************************************)
(* The init process, userspace/init/src/main.rs, service_manager.rs and    *)
(* process_spawner.rs: it spawns the essential services and a shell, reaps *)
(* children, checks services and shuts them down, while the services' own  *)
(* processes may exit at any moment.  The kernel's side of fork, wait and  *)
(* kill is taken from how init uses it: wait does not block, SIGKILL ends  *)
(* a process, kill fails only on a process that has been reaped.           *)
(***************************************************************************)
EXTENDS Integers, Sequences, FiniteSets

CONSTANTS
    Essential,        \* Seq of the essential services, in the order they are started
    Shell,
    MaxRestarts, MaxWaitCycles

InitAssumption == MaxRestarts \in Nat /\ MaxWaitCycles \in Nat

Names == {Essential[i] : i \in 1..Len(Essential)} \cup {Shell}
States == {"Unregistered", "Starting", "Running", "Stopping", "Stopped", "Failed"}

VARIABLES
    pc,               \* "spawn", "settle", "shell", "reap", "check", "wait", "done"
    spawned,          \* essential services tried so far
    service,          \* [Names -> [state, restart_count]]
    process,          \* [Names -> {"none", "alive", "zombie", "gone"}]: the kernel's view
    shutdown_requested,
    wait_cycles

vars == <<pc, spawned, service, process, shutdown_requested, wait_cycles>>

Init ==
    /\ pc = "spawn" /\ spawned = 0
    /\ service = [n \in Names |-> [state |-> "Unregistered", restart_count |-> 0]]
    /\ process = [n \in Names |-> "none"]
    /\ shutdown_requested = FALSE /\ wait_cycles = 0

Registered == {n \in Names : service[n].state # "Unregistered"}
all_services_stopped == \A n \in Registered : service[n].state = "Stopped"

\* spawn_service or spawn_process, then register_service; fork may fail
Spawn(n) ==
    \/ /\ process' = [process EXCEPT ![n] = "alive"]
       /\ service' = [service EXCEPT ![n].state = "Starting"]
    \/ UNCHANGED <<process, service>>

SpawnEssential ==
    /\ pc = "spawn"
    /\ IF spawned < Len(Essential)
       THEN Spawn(Essential[spawned + 1]) /\ spawned' = spawned + 1 /\ UNCHANGED pc
       ELSE pc' = "settle" /\ UNCHANGED <<process, service, spawned>>
    /\ UNCHANGED <<shutdown_requested, wait_cycles>>

\* check_services
Checked(s) ==
    CASE s.state = "Starting" -> [s EXCEPT !.state = "Running"]
      [] s.state = "Failed" /\ s.restart_count < MaxRestarts ->
            [state |-> "Starting", restart_count |-> s.restart_count + 1]
      [] OTHER -> s

WaitForServices ==
    /\ pc = "settle" /\ pc' = "shell"
    /\ service' = [n \in Names |-> Checked(service[n])]
    /\ UNCHANGED <<spawned, process, shutdown_requested, wait_cycles>>

SpawnShell ==
    /\ pc = "shell" /\ pc' = "reap"
    /\ Spawn(Shell)
    /\ UNCHANGED <<spawned, shutdown_requested, wait_cycles>>

\* handle_process_exit
Exited(s) ==
    CASE s.state = "Stopping" -> [s EXCEPT !.state = "Stopped"]
      [] s.state \in {"Running", "Starting"} -> [s EXCEPT !.state = "Failed"]
      [] OTHER -> s

\* one round of handle_child_processes
Reap(n) ==
    /\ pc \in {"reap", "wait"} /\ process[n] = "zombie"
    /\ process' = [process EXCEPT ![n] = "gone"]
    /\ service' = [service EXCEPT ![n] = Exited(@)]
    /\ UNCHANGED <<pc, spawned, shutdown_requested, wait_cycles>>

NoZombies == \A n \in Names : process[n] # "zombie"

ReapedAll ==
    /\ pc = "reap" /\ NoZombies /\ pc' = "check"
    /\ UNCHANGED <<spawned, service, process, shutdown_requested, wait_cycles>>

\* Mutant: a service told to stop counts as stopped
ShutDownAtOnce(n, s) ==
    IF s.state # "Running" THEN s ELSE [s EXCEPT !.state = "Stopped"]

\* shutdown_all_services for one service
ShutDown(n, s) ==
    IF s.state # "Running" THEN s
    ELSE [s EXCEPT !.state = IF process[n] \in {"alive", "zombie"} THEN "Stopping" ELSE "Stopped"]

\* the rest of a main loop iteration
CheckServices ==
    /\ pc = "check"
    /\ LET checked == [n \in Names |-> Checked(service[n])] IN
       IF shutdown_requested
       THEN service' = [n \in Names |-> ShutDown(n, checked[n])] /\ pc' = "wait"
       ELSE service' = checked /\ pc' = "reap"
    /\ UNCHANGED <<spawned, process, shutdown_requested, wait_cycles>>

Waiting == ~ all_services_stopped /\ wait_cycles < MaxWaitCycles

\* Mutant: the cycles are not counted
WaitCycleUncounted ==
    /\ pc = "wait" /\ Waiting /\ NoZombies
    /\ wait_cycles' = 0
    /\ UNCHANGED <<pc, spawned, service, process, shutdown_requested>>

WaitCycle ==
    /\ pc = "wait" /\ Waiting /\ NoZombies
    /\ wait_cycles' = wait_cycles + 1
    /\ UNCHANGED <<pc, spawned, service, process, shutdown_requested>>

\* force_kill_all if anything is left, and the end of the process
Finish ==
    /\ pc = "wait" /\ ~ Waiting /\ pc' = "done"
    /\ process' = [n \in Names |->
            IF n \in Registered /\ service[n].state # "Stopped" /\ process[n] = "alive"
            THEN "zombie" ELSE process[n]]
    /\ service' = [n \in Names |->
            IF n \in Registered THEN [service[n] EXCEPT !.state = "Stopped"] ELSE service[n]]
    /\ UNCHANGED <<spawned, shutdown_requested, wait_cycles>>

\* the environment: a process exits, someone asks for a shutdown
Exit(n) ==
    /\ process[n] = "alive"
    /\ process' = [process EXCEPT ![n] = "zombie"]
    /\ UNCHANGED <<pc, spawned, service, shutdown_requested, wait_cycles>>

request_shutdown ==
    /\ pc \in {"reap", "check"} /\ ~ shutdown_requested
    /\ shutdown_requested' = TRUE
    /\ UNCHANGED <<pc, spawned, service, process, wait_cycles>>

InitSteps ==
    \/ SpawnEssential \/ WaitForServices \/ SpawnShell \/ ReapedAll \/ CheckServices
    \/ WaitCycle \/ Finish
    \/ \E n \in Names : Reap(n)

Next == InitSteps \/ request_shutdown \/ \E n \in Names : Exit(n)

\* Init is scheduled again and again; nothing is assumed of the services.
Spec == Init /\ [][Next]_vars /\ WF_vars(InitSteps)
-----------------------------------------------------------------------------
\* When shutdown is over no registered service's process is left running, whether it
\* ignored SIGTERM, died in between, had failed before or was still starting.
ShutdownLeavesNothing ==
    pc = "done" => all_services_stopped /\ \A n \in Registered : process[n] # "alive"

\* A requested shutdown completes, also when services never react to SIGTERM.
ShutdownCompletes == shutdown_requested ~> (pc = "done")
=============================================================================
