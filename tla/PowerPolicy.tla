---------------------------- MODULE PowerPolicy -----------------------------
(***************************************************************************)
(* The power policy manager and the battery monitor it listens to,         *)
(* kernel/src/power/power_policy.rs and battery_monitor.rs, with the locks *)
(* of their two singletons.  Contexts call the policy manager's functions; *)
(* POWER_POLICY is held from the start of a call to its end, so the short  *)
(* calls are one step.  update() calls the battery monitor, which calls    *)
(* back: it takes several.  A caller reads the clock as it takes the lock. *)
(* The battery is the simulated one of the code.                           *)
(***************************************************************************)
EXTENDS Integers, Sequences, FiniteSets

CONSTANTS
    Contexts,
    Full, PluggedAt, LowLevel, CriticalLevel,   \* battery levels, 100, 20, 15 and 5
    LevelSamples, ChargingSamples,              \* lengths of level_history, charging_history
    PolicyInterval, MonitorInterval, BoostTime,
    MaxTime                                     \* bound: the clock stops here

PowerStates == {"Performance", "Balanced", "PowerSaver", "Critical"}
Free == "free"

PowerAssumption ==
    /\ {Full, PluggedAt, LowLevel, CriticalLevel, PolicyInterval, MonitorInterval, BoostTime,
        MaxTime} \subseteq Nat
    /\ {LevelSamples, ChargingSamples} \subseteq Nat \ {0}
    /\ CriticalLevel < LowLevel /\ LowLevel < PluggedAt /\ PluggedAt < Full /\ BoostTime > 0
    /\ Free \notin Contexts

VARIABLES
    now,
    phase,             \* "boot", "battery" (monitor initialised), "up", "panic"
    level, charging, history_index, last_sample,      \* the battery monitor
    current_state, boost_active, boost_end_time, last_policy_update, thermal,
    power_lock,        \* POWER_POLICY: Free or the context that holds it
    pc,                \* [Contexts -> {"idle", "sample", "callback", "decide"}]
    call_time,         \* current_time of the update() in progress
    overridden         \* not in the code: the state was set since the last decision

vars == <<now, phase, level, charging, history_index, last_sample, current_state, boost_active,
          boost_end_time, last_policy_update, thermal, power_lock, pc, call_time, overridden>>
battery == <<level, charging, history_index, last_sample>>
policy == <<current_state, boost_active, boost_end_time, last_policy_update, thermal, overridden>>

get_recommended_power_state ==
    IF level <= CriticalLevel THEN "Critical"
    ELSE IF level <= LowLevel THEN "PowerSaver"
    ELSE IF charging THEN "Performance" ELSE "Balanced"

\* simulate_battery_behavior
LevelAfter == IF charging THEN IF level < Full THEN level + 1 ELSE level
              ELSE IF level > 0 THEN level - 1 ELSE level
ChargingAfter == IF charging THEN LevelAfter < Full ELSE LevelAfter <= PluggedAt

\* calculate_discharge_rate, which estimate_time_remaining runs while not charging, reads
\* charging_history at the indices of level_history
ReadsOutOfBounds(charges) ==
    /\ ~ charges
    /\ \E i \in 1..(LevelSamples - 1) :
        (history_index + LevelSamples - i) % LevelSamples >= ChargingSamples

\* The events of a sample.  Levels move by one, so LevelChanged is not among them.
check_for_events ==
    {e \in {"Charging", "Discharging", "CriticalLevel", "LowLevel", "FullyCharged"} :
        \/ e = "Charging" /\ ~ charging /\ ChargingAfter
        \/ e = "Discharging" /\ charging /\ ~ ChargingAfter
        \/ e = "CriticalLevel" /\ ~ charging /\ LevelAfter <= CriticalLevel
        \/ e = "LowLevel" /\ ~ charging /\ CriticalLevel < LevelAfter /\ LevelAfter <= LowLevel
        \/ e = "FullyCharged" /\ ChargingAfter /\ LevelAfter >= Full}

\* handle_battery_event takes POWER_POLICY for these
ActedOn == {"Charging", "CriticalLevel", "LowLevel"}

\* Mutant: there is an event that takes POWER_POLICY for every change of level
CallsBackOnLevel == level # LevelAfter

CallsBack == check_for_events \cap ActedOn # {}
-----------------------------------------------------------------------------
Init ==
    /\ now = 0 /\ phase = "boot"
    /\ level = Full /\ charging = FALSE /\ history_index = 0 /\ last_sample = 0
    /\ current_state = "Balanced" /\ boost_active = FALSE /\ boost_end_time = 0
    /\ last_policy_update = 0 /\ thermal = FALSE
    /\ power_lock = Free /\ pc = [c \in Contexts |-> "idle"]
    /\ call_time = 0 /\ overridden = FALSE

\* battery_monitor::init: one sample, no events
battery_monitor_init ==
    /\ phase = "boot"
    /\ IF ReadsOutOfBounds(ChargingAfter)
       THEN phase' = "panic" /\ UNCHANGED <<level, charging>>
       ELSE phase' = "battery" /\ level' = LevelAfter /\ charging' = ChargingAfter
    /\ UNCHANGED <<now, history_index, last_sample, policy, power_lock, pc, call_time>>

\* power_policy::init: registers the callback, takes the recommended state
power_policy_init ==
    /\ phase = "battery" /\ phase' = "up"
    /\ current_state' = get_recommended_power_state
    /\ UNCHANGED <<now, battery, boost_active, boost_end_time, last_policy_update, thermal,
                   overridden, power_lock, pc, call_time>>

Enter(c) == phase = "up" /\ pc[c] = "idle" /\ power_lock = Free

set_power_state(c, s) ==
    /\ Enter(c)
    /\ current_state' = s /\ overridden' = TRUE
    /\ UNCHANGED <<now, phase, battery, boost_active, boost_end_time, last_policy_update, thermal,
                   power_lock, pc, call_time>>

notify_interactive(c) ==
    /\ Enter(c)
    /\ boost_active' = TRUE /\ boost_end_time' = now + BoostTime
    /\ UNCHANGED <<now, phase, battery, current_state, last_policy_update, thermal, overridden,
                   power_lock, pc, call_time>>

enable_thermal_throttling(c) ==
    /\ Enter(c)
    /\ thermal' = TRUE /\ overridden' = TRUE
    /\ current_state' = IF current_state = "Critical" THEN "Critical" ELSE "PowerSaver"
    /\ UNCHANGED <<now, phase, battery, boost_active, boost_end_time, last_policy_update,
                   power_lock, pc, call_time>>

disable_thermal_throttling(c) ==
    /\ Enter(c)
    /\ thermal' = FALSE /\ overridden' = FALSE
    /\ current_state' = get_recommended_power_state
    /\ UNCHANGED <<now, phase, battery, boost_active, boost_end_time, last_policy_update,
                   power_lock, pc, call_time>>

\* update(): takes the lock; not yet due, it returns at once
update(c) ==
    /\ Enter(c) /\ now - last_policy_update >= PolicyInterval
    /\ power_lock' = c /\ pc' = [pc EXCEPT ![c] = "sample"] /\ call_time' = now
    /\ UNCHANGED <<now, phase, battery, policy>>

\* battery_monitor::update under both locks.  An event on which handle_battery_event acts
\* leads to "callback", where the context waits for POWER_POLICY: the lock it holds itself,
\* so no step leaves it.
Sample(c) ==
    /\ pc[c] = "sample" /\ phase = "up"
    /\ IF call_time - last_sample < MonitorInterval
       THEN pc' = [pc EXCEPT ![c] = "decide"] /\ UNCHANGED <<phase, battery>>
       ELSE IF ReadsOutOfBounds(ChargingAfter)
       THEN phase' = "panic" /\ UNCHANGED <<battery, pc>>
       ELSE /\ level' = LevelAfter /\ charging' = ChargingAfter
            /\ history_index' = (history_index + 1) % (LevelSamples * ChargingSamples)
            /\ last_sample' = call_time
            /\ pc' = [pc EXCEPT ![c] = IF CallsBack THEN "callback" ELSE "decide"]
            /\ UNCHANGED phase
    /\ UNCHANGED <<now, policy, power_lock, call_time>>

\* Mutant: the recommendation is not applied
DecideKeepsState(c) ==
    /\ pc[c] = "decide" /\ phase = "up"
    /\ overridden' = FALSE
    /\ boost_active' = (boost_active /\ call_time < boost_end_time)
    /\ last_policy_update' = call_time
    /\ power_lock' = Free /\ pc' = [pc EXCEPT ![c] = "idle"]
    /\ UNCHANGED <<now, phase, battery, boost_end_time, thermal, current_state,
                   call_time>>

\* the rest of update()
Decide(c) ==
    /\ pc[c] = "decide" /\ phase = "up"
    /\ current_state' = get_recommended_power_state /\ overridden' = FALSE
    /\ boost_active' = (boost_active /\ call_time < boost_end_time)
    /\ last_policy_update' = call_time
    /\ power_lock' = Free /\ pc' = [pc EXCEPT ![c] = "idle"]
    /\ UNCHANGED <<now, phase, battery, boost_end_time, thermal, call_time>>

Clock ==
    /\ now < MaxTime /\ now' = now + 1
    /\ UNCHANGED <<phase, battery, policy, power_lock, pc, call_time>>

Next ==
    \/ battery_monitor_init \/ power_policy_init \/ Clock
    \/ \E c \in Contexts :
        \/ notify_interactive(c) \/ enable_thermal_throttling(c) \/ disable_thermal_throttling(c)
        \/ update(c) \/ Sample(c) \/ Decide(c)
        \/ \E s \in PowerStates : set_power_state(c, s)

Spec == Init /\ [][Next]_vars

\* an update() that has started keeps running
UpdateSteps == \E c \in Contexts : Sample(c) \/ Decide(c)
-----------------------------------------------------------------------------
\* Between calls the power state is the one recommended for the battery, unless a caller set
\* it since the last update or release of thermal throttling: a change of the battery inside
\* update() is never missed.
StateFollowsBattery ==
    phase = "up" /\ power_lock = Free /\ ~ overridden => current_state = get_recommended_power_state

\* update() holds POWER_POLICY while the battery monitor runs its callbacks: as long as the
\* battery is far from the level at which it is plugged in, every update() returns and the
\* lock is free again.
UpdateEnds ==
    \A c \in Contexts : pc[c] = "sample" /\ level > PluggedAt + 1 ~> pc[c] = "idle"

\* boot.rs:149 "Don't panic - power management is optional for basic functionality".
NoPanic == phase # "panic"
=============================================================================
