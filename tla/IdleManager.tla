---------------------------- MODULE IdleManager -----------------------------
(***************************************************************************)
(* CPU idle states, kernel/src/power/idle_management.rs.  Callers pass the *)
(* time, taken from one clock that does not go back.  The five thresholds  *)
(* (10, 20, 50, 100 and 500 ms in the code) are constants in that order.   *)
(* Every call runs under IDLE_MANAGER.  init finds C4 supported, so every  *)
(* state is available and find_fallback_state returns at once.             *)
(***************************************************************************)
EXTENDS Integers, FiniteSets

CONSTANTS
    Pids,
    IdleAfter, C1After, C2After, DeepAfter, C4After,
    MaxTime            \* bound: the clock stops here

IdleAssumption ==
    /\ {IdleAfter, C1After, C2After, DeepAfter, C4After, MaxTime} \subseteq Nat
    /\ IdleAfter <= C1After /\ C1After <= C2After /\ C2After <= DeepAfter /\ DeepAfter <= C4After

Activities == {"Interactive", "Background"}
NotTracked == "none"
Depths == 0..4         \* C0 .. C4

VARIABLES
    now,
    current_state, last_activity_time, prevent_deep_idle,
    active_processes,     \* [Pids -> Activities \cup {NotTracked}]
    time_in,              \* [Depths -> Nat]: stats.time_in_c0 .. time_in_c4
    total_idle_time

idleVars == <<now, current_state, last_activity_time, prevent_deep_idle, active_processes,
              time_in, total_idle_time>>

any_interactive(ps) == \E p \in Pids : ps[p] = "Interactive"

Init ==
    /\ now = 0 /\ current_state = 0 /\ last_activity_time = 0 /\ prevent_deep_idle = FALSE
    /\ active_processes = [p \in Pids |-> NotTracked]
    /\ time_in = [d \in Depths |-> 0] /\ total_idle_time = 0

\* select_idle_state; the middle branch is the one for prevent_deep_idle
select_idle_state(t) ==
    IF t < IdleAfter THEN 0
    ELSE IF any_interactive(active_processes)
    THEN IF t > C2After THEN 2 ELSE IF t > C1After THEN 1 ELSE 0
    ELSE IF prevent_deep_idle
    THEN IF t > DeepAfter THEN 2 ELSE IF t > C1After THEN 1 ELSE 0
    ELSE IF t > C4After THEN 4 ELSE IF t > DeepAfter THEN 3
    ELSE IF t > C2After THEN 2 ELSE IF t > C1After THEN 1 ELSE 0

enter_idle ==
    /\ current_state' = select_idle_state(now - last_activity_time)
    /\ UNCHANGED <<now, last_activity_time, prevent_deep_idle, active_processes, time_in,
                   total_idle_time>>

\* Mutant: the activity that ends the idle period is not recorded
exit_idle_unrecorded ==
    LET idle_time == now - last_activity_time IN
    /\ IF current_state = 0 THEN UNCHANGED <<time_in, total_idle_time>>
       ELSE /\ total_idle_time' = total_idle_time + idle_time
            /\ time_in' = [time_in EXCEPT ![current_state] = @ + idle_time]
    /\ current_state' = 0
    /\ UNCHANGED <<now, last_activity_time, prevent_deep_idle, active_processes>>

exit_idle ==
    LET idle_time == now - last_activity_time IN
    /\ IF current_state = 0 THEN UNCHANGED <<time_in, total_idle_time>>
       ELSE /\ total_idle_time' = total_idle_time + idle_time
            /\ time_in' = [time_in EXCEPT ![current_state] = @ + idle_time]
    /\ current_state' = 0
    /\ last_activity_time' = now
    /\ UNCHANGED <<now, prevent_deep_idle, active_processes>>

notify_process_activity(p, a) ==
    /\ active_processes' = [active_processes EXCEPT ![p] = a]
    /\ last_activity_time' = now
    /\ prevent_deep_idle' = any_interactive(active_processes')
    /\ UNCHANGED <<now, current_state, time_in, total_idle_time>>

\* Mutant: the flag is left as it was
remove_process_only(p) ==
    /\ active_processes' = [active_processes EXCEPT ![p] = NotTracked]
    /\ UNCHANGED <<now, current_state, last_activity_time, prevent_deep_idle, time_in,
                   total_idle_time>>

remove_process(p) ==
    /\ active_processes' = [active_processes EXCEPT ![p] = NotTracked]
    /\ prevent_deep_idle' = any_interactive(active_processes')
    /\ UNCHANGED <<now, current_state, last_activity_time, time_in, total_idle_time>>

Tick ==
    /\ now < MaxTime
    /\ now' = now + 1
    /\ UNCHANGED <<current_state, last_activity_time, prevent_deep_idle, active_processes,
                   time_in, total_idle_time>>

Next ==
    \/ enter_idle \/ exit_idle \/ Tick
    \/ \E p \in Pids : remove_process(p) \/ \E a \in Activities : notify_process_activity(p, a)

Spec == Init /\ [][Next]_idleVars
-----------------------------------------------------------------------------
\* Idle periods are counted once: each one starts at the latest activity, so together they
\* never exceed the time up to it, and they are divided among the states without remainder.
IdleTimeBounded ==
    /\ total_idle_time <= last_activity_time
    /\ total_idle_time = time_in[1] + time_in[2] + time_in[3] + time_in[4]

\* How deep a CPU goes follows the processes tracked now: no step goes deeper than C2 while an
\* interactive one is among them, and when none is, a long idle period leads to C4, since
\* prevent_deep_idle does not outlive the last interactive process.
DepthStep ==
    current_state' \notin {0, current_state} =>
        IF any_interactive(active_processes) THEN current_state' <= 2
        ELSE now - last_activity_time > C4After => current_state' = 4
=============================================================================
