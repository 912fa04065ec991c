----------------------------- MODULE CpuScaling -----------------------------
(***************************************************************************)
(* CPU frequency scaling, kernel/src/power/cpu_scaling.rs: governors, the  *)
(* load history, the interactive boost.  Frequencies are in MHz and keep   *)
(* the code's arithmetic.  Every call runs under CPU_SCALING.              *)
(***************************************************************************)
EXTENDS Integers, Collections

CONSTANTS
    Pids, Loads,       \* processes, load percentages reported
    min_frequency, max_frequency, InitialFrequency,
    HistoryLength,     \* entries of load_history
    BoostEnd,          \* what activate_interactive_boost stores in boost_end_time
    MaxTime            \* bound: the clock stops here

CpuAssumption ==
    /\ {min_frequency, max_frequency, BoostEnd, MaxTime} \subseteq Nat /\ Loads \subseteq 0..100
    /\ HistoryLength \in Nat \ {0}
    /\ InitialFrequency \in min_frequency..max_frequency

Governors == {"Performance", "PowerSave", "OnDemand", "Conservative", "Interactive"}
Activities == {"Interactive", "Background"}
NotTracked == "none"
Range_ == max_frequency - min_frequency

VARIABLES
    now,
    current_governor, current_frequency,
    load_history, load_index,
    process_activities,           \* [Pids -> Activities \cup {NotTracked}]
    boost_active, boost_end_time,
    rejected                      \* the last call ended with InvalidTransition

cpuVars == <<now, current_governor, current_frequency, load_history, load_index,
             process_activities, boost_active, boost_end_time, rejected>>

Init ==
    /\ now = 0 /\ current_governor = "OnDemand" /\ current_frequency = InitialFrequency
    /\ load_history = [i \in 0..(HistoryLength - 1) |-> 0] /\ load_index = 0
    /\ process_activities = [p \in Pids |-> NotTracked]
    /\ boost_active = FALSE /\ boost_end_time = 0 /\ rejected = FALSE

set_frequency(f) ==
    /\ rejected' = (f < min_frequency \/ f > max_frequency)
    /\ current_frequency' = IF f < min_frequency \/ f > max_frequency THEN current_frequency ELSE f

OnDemandTarget(load) ==
    IF load > 80 THEN max_frequency
    ELSE IF load > 50 THEN min_frequency + (Range_ * load) \div 100 ELSE min_frequency

\* Mutant: the last step up is not cut off at the maximum
ConservativeUnclamped(load) ==
    IF load > 75 /\ current_frequency < max_frequency THEN current_frequency + Range_ \div 10
    ELSE IF load < 25 /\ current_frequency > min_frequency
    THEN IF current_frequency - Range_ \div 10 < min_frequency THEN min_frequency
         ELSE current_frequency - Range_ \div 10
    ELSE current_frequency

ConservativeTarget(load) ==
    LET step_size == Range_ \div 10 IN
    IF load > 75 /\ current_frequency < max_frequency
    THEN IF current_frequency + step_size > max_frequency THEN max_frequency
         ELSE current_frequency + step_size
    ELSE IF load < 25 /\ current_frequency > min_frequency
    THEN IF current_frequency - step_size < min_frequency THEN min_frequency
         ELSE current_frequency - step_size
    ELSE current_frequency

InteractiveTarget(load, boost) ==
    IF boost \/ \E p \in Pids : process_activities[p] = "Interactive"
    THEN IF load > 30 THEN max_frequency ELSE min_frequency + Range_ \div 2
    ELSE IF load > 60 THEN max_frequency
    ELSE IF load > 30 THEN min_frequency + (Range_ * load) \div 100 ELSE min_frequency

get_average_load == Sum(load_history) \div HistoryLength
-----------------------------------------------------------------------------
set_governor(g) ==
    /\ current_governor' = g
    /\ CASE g = "Performance" -> set_frequency(max_frequency)
         [] g = "PowerSave" -> set_frequency(min_frequency)
         [] OTHER -> rejected' = FALSE /\ UNCHANGED current_frequency
    /\ UNCHANGED <<now, load_history, load_index, process_activities, boost_active,
                   boost_end_time>>

update_load(load) ==
    /\ load_history' = [load_history EXCEPT ![load_index] = load]
    /\ load_index' = (load_index + 1) % HistoryLength
    /\ CASE current_governor = "OnDemand" -> set_frequency(OnDemandTarget(load))
         [] current_governor = "Conservative" -> set_frequency(ConservativeTarget(load))
         [] current_governor = "Interactive" -> set_frequency(InteractiveTarget(load, boost_active))
         [] OTHER -> rejected' = FALSE /\ UNCHANGED current_frequency
    /\ UNCHANGED <<now, current_governor, process_activities, boost_active, boost_end_time>>

notify_process_activity(p, a) ==
    /\ process_activities' = [process_activities EXCEPT ![p] = a]
    /\ IF a = "Interactive"
       THEN boost_active' = TRUE /\ boost_end_time' = BoostEnd
       ELSE UNCHANGED <<boost_active, boost_end_time>>
    /\ rejected' = FALSE
    /\ UNCHANGED <<now, current_governor, current_frequency, load_history, load_index>>

remove_process(p) ==
    /\ process_activities' = [process_activities EXCEPT ![p] = NotTracked]
    /\ rejected' = FALSE
    /\ UNCHANGED <<now, current_governor, current_frequency, load_history, load_index,
                   boost_active, boost_end_time>>

tick ==
    /\ boost_active' = (boost_active /\ now < boost_end_time)
    /\ IF current_governor = "Interactive"
       THEN set_frequency(InteractiveTarget(get_average_load, boost_active'))
       ELSE rejected' = FALSE /\ UNCHANGED current_frequency
    /\ UNCHANGED <<now, current_governor, load_history, load_index, process_activities,
                   boost_end_time>>

\* the caller's clock, between calls
Clock ==
    /\ now < MaxTime /\ now' = now + 1
    /\ UNCHANGED <<current_governor, current_frequency, load_history, load_index,
                   process_activities, boost_active, boost_end_time, rejected>>

Next ==
    \/ \E g \in Governors : set_governor(g)
    \/ \E l \in Loads : update_load(l)
    \/ \E p \in Pids : remove_process(p) \/ \E a \in Activities : notify_process_activity(p, a)
    \/ tick \/ Clock

Spec == Init /\ [][Next]_cpuVars
-----------------------------------------------------------------------------
\* No governor ever asks for a frequency out of range, whatever sequence of governors and
\* loads led there: set_frequency's InvalidTransition is never returned and no update is lost.
FrequencyAlwaysAccepted ==
    ~ rejected /\ current_frequency \in min_frequency..max_frequency
=============================================================================
