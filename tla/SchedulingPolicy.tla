-------------------------- MODULE SchedulingPolicy --------------------------
(***************************************************************************)
(* The questions the scheduler asks of power management, as functions of   *)
(* the policy, the class of the process and the interactive boost:         *)
(* kernel/src/power/power_policy.rs, with the priority arithmetic of       *)
(* kernel/src/process/process.rs.  Priorities are 0 (System) to 3          *)
(* (Background).                                                           *)
(***************************************************************************)
EXTENDS Integers

Policies == {"Performance", "Balanced", "PowerSaver", "Critical"}
Classes == {"Critical", "Interactive", "Background", "Batch"}

\* ProcessPriority::boost and reduce saturate at both ends
boost(priority, levels) == IF priority < levels THEN 0 ELSE priority - levels

reduce(priority, levels) == IF priority + levels > 3 THEN 3 ELSE priority + levels

get_power_aware_priority(policy, class, boosted, base) ==
    CASE policy = "Performance" \/ class = "Critical" -> base
      [] policy = "Balanced" /\ class = "Interactive" -> IF boosted THEN boost(base, 1) ELSE base
      [] policy = "Balanced" /\ class = "Background" -> reduce(base, 1)
      [] policy = "Balanced" /\ class = "Batch" -> reduce(base, 2)
      [] policy \in {"PowerSaver", "Critical"} /\ class = "Interactive" -> reduce(base, 1)
      [] policy \in {"PowerSaver", "Critical"} /\ class = "Background" -> reduce(base, 2)
      [] policy \in {"PowerSaver", "Critical"} /\ class = "Batch" -> reduce(base, 3)

should_throttle_background(policy, class, boosted) ==
    CASE policy = "Performance" -> FALSE
      [] policy = "Balanced" -> class = "Batch" /\ ~ boosted
      [] policy \in {"PowerSaver", "Critical"} -> class \in {"Background", "Batch"}
=============================================================================
