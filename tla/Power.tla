-------------------------------- MODULE Power -------------------------------
(***************************************************************************)
(* The four power managers, kernel/src/power, each under a lock of its     *)
(* own.  They share only the clock and the processes, so their composite   *)
(* is a sum: `part' is the manager that moves in a behaviour, the others   *)
(* stay in their initial state.  The bounds on the clock are the managers' *)
(* own.  Both histories of the battery monitor have one length: with the   *)
(* code's 20 and 10 the monitor panics at its first sample.                *)
(***************************************************************************)
EXTENDS Integers, Sequences

CONSTANTS
    Pids, CpuPids,
    IdleAfter, C1After, C2After, DeepAfter, C4After, IdleMaxTime,
    Loads, min_frequency, max_frequency, InitialFrequency, HistoryLength, BoostEnd, CpuMaxTime,
    BoostDuration, QueueLimit, EnoughInteractions, MaxCount, RespMaxTime,
    Contexts, Full, PluggedAt, LowLevel, CriticalLevel, Samples,
    PolicyInterval, MonitorInterval, BoostTime, PolicyMaxTime

VARIABLES
    part, now,
    idle_state, last_activity_time, prevent_deep_idle, active_processes, time_in, total_idle_time,
    current_governor, current_frequency, load_history, load_index, process_activities,
    boost_active, boost_end_time, rejected,
    interactions, boosts, queue, pressure, acted,
    phase, level, charging, history_index, last_sample, power_state, policy_boost, policy_boost_end,
    last_policy_update, thermal, power_lock, pc, call_time, overridden

idleVars == <<idle_state, last_activity_time, prevent_deep_idle, active_processes, time_in,
              total_idle_time>>
cpuVars == <<current_governor, current_frequency, load_history, load_index, process_activities,
             boost_active, boost_end_time, rejected>>
respVars == <<interactions, boosts, queue, pressure, acted>>
policyVars == <<phase, level, charging, history_index, last_sample, power_state, policy_boost,
                policy_boost_end, last_policy_update, thermal, power_lock, pc, call_time, overridden>>
vars == <<part, now, idleVars, cpuVars, respVars, policyVars>>

Idle == INSTANCE IdleManager WITH MaxTime <- IdleMaxTime, current_state <- idle_state

Cpu == INSTANCE CpuScaling WITH Pids <- CpuPids, MaxTime <- CpuMaxTime

Resp == INSTANCE Responsiveness WITH MaxTime <- RespMaxTime

Policy == INSTANCE PowerPolicy WITH
    LevelSamples <- Samples, ChargingSamples <- Samples, MaxTime <- PolicyMaxTime,
    current_state <- power_state, boost_active <- policy_boost, boost_end_time <- policy_boost_end

ASSUME PowerAssumptions ==
    /\ Idle!IdleAssumption /\ Cpu!CpuAssumption
    /\ Resp!ResponsivenessAssumption /\ Policy!PowerAssumption

Init ==
    /\ part \in {"idle", "cpu", "resp", "policy"}
    /\ Idle!Init /\ Cpu!Init /\ Resp!Init /\ Policy!Init

OfPolicy(A) == part = "policy" /\ A /\ UNCHANGED <<part, idleVars, cpuVars, respVars>>

Next ==
    \/ OfPolicy(Policy!Next)
    \/ /\ UNCHANGED part
       /\ \/ part = "idle" /\ Idle!Next /\ UNCHANGED <<cpuVars, respVars, policyVars>>
          \/ part = "cpu" /\ Cpu!Next /\ UNCHANGED <<idleVars, respVars, policyVars>>
          \/ part = "resp" /\ Resp!Next /\ UNCHANGED <<idleVars, cpuVars, policyVars>>

\* a context inside update() keeps running; nothing is assumed of the callers
Spec == Init /\ [][Next]_vars /\ WF_vars(OfPolicy(Policy!UpdateSteps))
-----------------------------------------------------------------------------
\* idle_management.rs: idle periods are counted once and divided among the states.
IdleTimeBounded == part = "idle" => Idle!IdleTimeBounded

\* idle_management.rs: no step goes deeper than C2 while an interactive process is tracked, and
\* once none is, a long idle period leads to C4: the cached prevent_deep_idle is not stale.
DepthFollowsProcesses == [][part = "idle" => Idle!DepthStep]_vars

\* cpu_scaling.rs: no governor asks for a frequency that is refused.
FrequencyAlwaysAccepted == Cpu!FrequencyAlwaysAccepted

\* responsiveness.rs: a process that interacted just now is not throttled.
RecentNotThrottled == part = "resp" => Resp!RecentNotThrottled

\* power_policy.rs: between calls the power state is the recommended one, unless it was set.
StateFollowsBattery == part = "policy" => Policy!StateFollowsBattery

\* power_policy.rs: an update() far from a battery event returns and gives the lock back.
UpdateEnds == Policy!UpdateEnds
=============================================================================
