----------------------------- MODULE PowerProofs -----------------------------
(***************************************************************************)
(* The four power managers for any processes, thresholds, frequencies,     *)
(* contexts and length of run.  Each has an inductive invariant of its     *)
(* own; a step of the composite is a step of the one manager that moves.   *)
(***************************************************************************)
EXTENDS Power, CollectionTheorems, TLAPS

LEMMA StepOfPart ==
    ASSUME [Next]_vars
    PROVE  /\ part' = part
           /\ part = "idle" => [Idle!Next]_(Idle!idleVars)
           /\ part = "cpu" => [Cpu!Next]_(Cpu!cpuVars)
           /\ part = "resp" => [Resp!Next]_(Resp!respVars)
           /\ part = "policy" => [Policy!Next]_(Policy!vars)
BY DEF Next, OfPolicy, vars, idleVars, cpuVars, respVars, policyVars,
       Idle!idleVars, Cpu!cpuVars, Resp!respVars, Policy!vars
-----------------------------------------------------------------------------
(***************************************************************************)
(* Idle periods do not overlap because both ends of one are recorded:      *)
(* last_activity_time is never ahead of the clock, and what exit_idle adds *)
(* is exactly the time it moves last_activity_time.                        *)
(***************************************************************************)
IdleInv ==
    /\ now \in Nat /\ last_activity_time \in Nat /\ last_activity_time <= now
    /\ idle_state \in Idle!Depths
    /\ time_in \in [Idle!Depths -> Nat] /\ total_idle_time \in Nat
    /\ Idle!IdleTimeBounded

LEMMA SelectDepth ==
    ASSUME NEW t
    PROVE  Idle!select_idle_state(t) \in Idle!Depths
BY DEF Idle!select_idle_state, Idle!Depths

LEMMA IdleInitInv == Idle!Init => IdleInv
BY DEF Idle!Init, IdleInv, Idle!IdleTimeBounded, Idle!Depths

LEMMA ExitStep ==
    ASSUME IdleInv, Idle!exit_idle
    PROVE  IdleInv'
<1>1. CASE idle_state = 0
    BY <1>1 DEF IdleInv, Idle!exit_idle, Idle!IdleTimeBounded, Idle!Depths
<1>2. CASE idle_state # 0
    <2> DEFINE t == now - last_activity_time
    <2>1. t \in Nat /\ idle_state \in 1 .. 4
        BY <1>2 DEF IdleInv, Idle!Depths
    <2>2. /\ time_in' = [time_in EXCEPT ![idle_state] = @ + t]
          /\ total_idle_time' = total_idle_time + t
          /\ last_activity_time' = last_activity_time + t
          /\ idle_state' = 0 /\ now' = now
        BY <1>2 DEF Idle!exit_idle, IdleInv
    <2>3. time_in' \in [Idle!Depths -> Nat]
        BY <2>1, <2>2 DEF IdleInv, Idle!Depths
    <2>4. /\ {0, 1, 2, 3, 4} \subseteq Idle!Depths
          /\ \A d \in Idle!Depths : time_in[d] \in Nat
                /\ time_in'[d] = IF d = idle_state THEN time_in[d] + t ELSE time_in[d]
        BY <2>1, <2>2 DEF IdleInv, Idle!Depths
    <2>5. time_in'[1] + time_in'[2] + time_in'[3] + time_in'[4]
            = time_in[1] + time_in[2] + time_in[3] + time_in[4] + t
        <3> HIDE DEF t
        <3>. QED BY <2>1, <2>4
    <2>6. Idle!IdleTimeBounded'
        BY <2>1, <2>2, <2>5 DEF IdleInv, Idle!IdleTimeBounded
    <2>. QED BY <2>1, <2>2, <2>3, <2>6 DEF IdleInv, Idle!Depths
<1>. QED BY <1>1, <1>2

LEMMA IdleNextInv == IdleInv /\ [Idle!Next]_(Idle!idleVars) => IdleInv'
<1> SUFFICES ASSUME IdleInv, [Idle!Next]_(Idle!idleVars) PROVE IdleInv'
    OBVIOUS
<1> USE DEF IdleInv, Idle!IdleTimeBounded
<1>1. CASE Idle!enter_idle
    BY <1>1, SelectDepth DEF Idle!enter_idle
<1>2. CASE Idle!exit_idle
    BY <1>2, ExitStep
<1>3. CASE Idle!Tick
    BY <1>3 DEF Idle!Tick
<1>4. CASE \E p \in Pids : Idle!remove_process(p)
    BY <1>4 DEF Idle!remove_process
<1>5. CASE \E p \in Pids, a \in Idle!Activities : Idle!notify_process_activity(p, a)
    BY <1>5 DEF Idle!notify_process_activity
<1>6. CASE UNCHANGED Idle!idleVars
    BY <1>6 DEF Idle!idleVars
<1>. QED BY <1>1, <1>2, <1>3, <1>4, <1>5, <1>6 DEF Idle!Next

\* However idle periods, activity reports and removals interleave, for any thresholds: no
\* idle time is counted twice, and the times of the states add up to the total.
THEOREM IdleTimeIsCountedOnce == Spec => []IdleTimeBounded
<1> DEFINE I == part = "idle" => IdleInv
<1>1. Init => I
    BY IdleInitInv DEF Init
<1>2. I /\ [Next]_vars => I'
    BY IdleNextInv, StepOfPart
<1>3. I => IdleTimeBounded
    BY DEF IdleInv, IdleTimeBounded
<1>. QED BY <1>1, <1>2, <1>3, PTL DEF Spec

\* prevent_deep_idle is computed anew whenever the tracked processes change.
FlagExact == prevent_deep_idle = Idle!any_interactive(active_processes)

LEMMA IdleDepthStep ==
    ASSUME IdleInv, FlagExact, [Idle!Next]_(Idle!idleVars)
    PROVE  FlagExact' /\ Idle!DepthStep
<1>1. CASE Idle!enter_idle
    <2> DEFINE t == now - last_activity_time
               d == Idle!select_idle_state(t)
    <2>1. t \in Nat
        BY DEF IdleInv
    <2>2. Idle!any_interactive(active_processes) => d <= 2
        BY DEF Idle!select_idle_state
    <2>3. ~ Idle!any_interactive(active_processes) /\ t > C4After => d = 4
        <3>1. IdleAfter \in Nat /\ C4After \in Nat /\ IdleAfter <= C4After
            BY PowerAssumptions DEF Idle!IdleAssumption
        <3>2. t > C4After => ~ (t < IdleAfter)
            BY <2>1, <3>1
        <3> HIDE DEF t
        <3>. QED BY <3>2 DEF FlagExact, Idle!select_idle_state
    <2>4. idle_state' = d
        BY <1>1 DEF Idle!enter_idle
    <2>5. FlagExact'
        BY <1>1 DEF Idle!enter_idle, FlagExact
    <2> HIDE DEF d
    <2>. QED BY <2>2, <2>3, <2>4, <2>5 DEF Idle!DepthStep
<1>2. CASE Idle!exit_idle
    BY <1>2 DEF Idle!exit_idle, Idle!DepthStep, FlagExact
<1>3. CASE Idle!Tick \/ UNCHANGED Idle!idleVars
    BY <1>3 DEF Idle!Tick, Idle!idleVars, Idle!DepthStep, FlagExact
<1>4. CASE \E p \in Pids : Idle!remove_process(p)
    BY <1>4 DEF Idle!remove_process, Idle!DepthStep, FlagExact
<1>5. CASE \E p \in Pids, a \in Idle!Activities : Idle!notify_process_activity(p, a)
    BY <1>5 DEF Idle!notify_process_activity, Idle!DepthStep, FlagExact
<1>. QED BY <1>1, <1>2, <1>3, <1>4, <1>5 DEF Idle!Next

\* For any processes and thresholds in order: enter_idle takes a CPU no deeper than C2 while an
\* interactive process is tracked, and to C4 after a long idle period when none is.
THEOREM DepthIsRight == Spec => DepthFollowsProcesses
<1> DEFINE I == part = "idle" => IdleInv /\ FlagExact
           A == part = "idle" => Idle!DepthStep
<1>1. Init => I
    BY IdleInitInv DEF Init, Idle!Init, FlagExact, Idle!any_interactive, Idle!NotTracked
<1>2. I /\ [Next]_vars => I'
    BY IdleNextInv, IdleDepthStep, StepOfPart
<1>3. I /\ [Next]_vars => [A]_vars
    BY IdleDepthStep, StepOfPart
<1>. QED BY <1>1, <1>2, <1>3, PTL DEF Spec, DepthFollowsProcesses
-----------------------------------------------------------------------------
(***************************************************************************)
(* Every governor's target lies between the two limits: the scaled ones    *)
(* because a load is at most 100 where the code scales by it, and the      *)
(* stepwise one because its last step is cut off.                          *)
(***************************************************************************)
CpuInv ==
    /\ Cpu!FrequencyAlwaysAccepted
    /\ load_history \in [0 .. HistoryLength - 1 -> Nat] /\ load_index \in 0 .. HistoryLength - 1
    /\ current_governor \in Cpu!Governors /\ boost_active \in BOOLEAN

LEMMA Scaled ==
    ASSUME NEW R \in Nat, NEW load \in 0 .. 100
    PROVE  (R * load) \div 100 \in 0 .. R
<1>1. R * load \in Nat /\ R * load <= R * 100
    OBVIOUS
<1>2. \A n \in Nat : n <= R * 100 => n \div 100 \in 0 .. R
    OBVIOUS
<1> HIDE <1>1
<1>. QED BY <1>1, <1>2

LEMMA CpuConstants ==
    /\ min_frequency \in Nat /\ max_frequency \in Nat /\ min_frequency <= max_frequency
    /\ Cpu!Range_ \in Nat /\ max_frequency = min_frequency + Cpu!Range_
    /\ HistoryLength \in Nat \ {0} /\ Loads \subseteq 0 .. 100
    /\ InitialFrequency \in min_frequency .. max_frequency
BY PowerAssumptions DEF Cpu!CpuAssumption, Cpu!Range_

\* set_frequency accepts a frequency between the limits
LEMMA SetFrequency ==
    ASSUME NEW f \in min_frequency .. max_frequency, Cpu!set_frequency(f)
    PROVE  Cpu!FrequencyAlwaysAccepted'
<1>1. (f < min_frequency \/ f > max_frequency) = FALSE
    BY CpuConstants
<1>2. rejected' = FALSE /\ current_frequency' = f
    BY <1>1, Zenon DEF Cpu!set_frequency
<1>. QED BY <1>2 DEF Cpu!FrequencyAlwaysAccepted

LEMMA TargetsInRange ==
    ASSUME CpuInv, NEW load \in Nat
    PROVE  /\ load <= 100 => Cpu!OnDemandTarget(load) \in min_frequency .. max_frequency
           /\ Cpu!ConservativeTarget(load) \in min_frequency .. max_frequency
           /\ \A boost \in BOOLEAN :
                Cpu!InteractiveTarget(load, boost) \in min_frequency .. max_frequency
<1> DEFINE R == Cpu!Range_
<1>1. /\ R \in Nat /\ min_frequency \in Nat /\ max_frequency = min_frequency + R
      /\ R \div 2 \in 0 .. R /\ R \div 10 \in 0 .. R
    BY CpuConstants
<1>2. load <= 100 => (R * load) \div 100 \in 0 .. R
    <2>1. load <= 100 => load \in 0 .. 100
        OBVIOUS
    <2> HIDE DEF R
    <2>. QED BY <1>1, <2>1, Scaled, Zenon
<1>3. current_frequency \in min_frequency .. max_frequency
    BY DEF CpuInv, Cpu!FrequencyAlwaysAccepted
<1> HIDE DEF R
<1>4. load <= 100 => Cpu!OnDemandTarget(load) \in min_frequency .. max_frequency
    BY <1>1, <1>2 DEF Cpu!OnDemandTarget, R
<1>5. Cpu!ConservativeTarget(load) \in min_frequency .. max_frequency
    BY <1>1, <1>3 DEF Cpu!ConservativeTarget, R
<1>6. ASSUME NEW boost \in BOOLEAN
      PROVE  Cpu!InteractiveTarget(load, boost) \in min_frequency .. max_frequency
    <2>1. load <= 60 => (R * load) \div 100 \in 0 .. R
        BY <1>2
    <2>. QED BY <1>1, <2>1 DEF Cpu!InteractiveTarget, R
<1>. QED BY <1>4, <1>5, <1>6

LEMMA AverageIsNat ==
    ASSUME CpuInv
    PROVE  Cpu!get_average_load \in Nat
<1>1. Cpu!Sum(load_history) = Sum(load_history)
    BY Zenon DEF Cpu!Sum, Cpu!FoldFunction, Cpu!FoldFunctionOnSet, Cpu!MapThenFoldSet,
                 Sum, FoldFunction, FoldFunctionOnSet, MapThenFoldSet
<1>2. IsFiniteSet(0 .. HistoryLength - 1)
    BY CpuConstants, FS_Interval
<1>3. Sum(load_history) \in Nat
    BY <1>2, SumNat, Zenon DEF CpuInv
<1>4. \A n \in Nat : n \div HistoryLength \in Nat
    BY CpuConstants
<1>. QED BY <1>1, <1>3, <1>4 DEF Cpu!get_average_load

LEMMA CpuInitInv == Cpu!Init => CpuInv
<1> SUFFICES ASSUME Cpu!Init PROVE CpuInv
    OBVIOUS
<1>1. boost_active \in BOOLEAN
    BY Zenon DEF Cpu!Init
<1>2. Cpu!FrequencyAlwaysAccepted /\ current_governor \in Cpu!Governors
    BY CpuConstants DEF Cpu!Init, Cpu!FrequencyAlwaysAccepted, Cpu!Governors
<1>3. load_history \in [0 .. HistoryLength - 1 -> Nat] /\ load_index \in 0 .. HistoryLength - 1
    BY CpuConstants DEF Cpu!Init
<1>. QED BY <1>1, <1>2, <1>3 DEF CpuInv

LEMMA CpuNextInv == CpuInv /\ [Cpu!Next]_(Cpu!cpuVars) => CpuInv'
<1> SUFFICES ASSUME CpuInv, [Cpu!Next]_(Cpu!cpuVars) PROVE CpuInv'
    OBVIOUS
<1>0. ASSUME rejected' = FALSE, UNCHANGED current_frequency PROVE Cpu!FrequencyAlwaysAccepted'
    BY <1>0 DEF CpuInv, Cpu!FrequencyAlwaysAccepted
<1>1. ASSUME NEW g \in Cpu!Governors, Cpu!set_governor(g) PROVE CpuInv'
    <2>1. Cpu!FrequencyAlwaysAccepted'
        <3>1. max_frequency \in min_frequency .. max_frequency
              /\ min_frequency \in min_frequency .. max_frequency
            BY CpuConstants
        <3>. QED BY <1>0, <1>1, <3>1, SetFrequency, Zenon DEF Cpu!set_governor
    <2>. QED BY <1>1, <2>1 DEF CpuInv, Cpu!set_governor
<1>2. ASSUME NEW l \in Loads, Cpu!update_load(l) PROVE CpuInv'
    <2>0. l \in Nat /\ l <= 100
        BY CpuConstants
    <2>1. Cpu!FrequencyAlwaysAccepted'
        <3>1. CASE current_governor = "OnDemand"
            BY <1>2, <2>0, <3>1, SetFrequency, TargetsInRange DEF Cpu!update_load
        <3>2. CASE current_governor = "Conservative"
            BY <1>2, <2>0, <3>2, SetFrequency, TargetsInRange DEF Cpu!update_load
        <3>3. CASE current_governor = "Interactive"
            <4>1. Cpu!InteractiveTarget(l, boost_active) \in min_frequency .. max_frequency
                BY <2>0, TargetsInRange DEF CpuInv
            <4>2. Cpu!set_frequency(Cpu!InteractiveTarget(l, boost_active))
                BY <1>2, <3>3, Zenon DEF Cpu!update_load
            <4>. QED BY <4>1, <4>2, SetFrequency
        <3>4. CASE current_governor \notin {"OnDemand", "Conservative", "Interactive"}
            BY <1>0, <1>2, <3>4, Zenon DEF Cpu!update_load
        <3>. QED BY <3>1, <3>2, <3>3, <3>4
    <2>2. (load_index + 1) % HistoryLength \in 0 .. HistoryLength - 1
        BY CpuConstants DEF CpuInv
    <2>. QED BY <1>2, <2>0, <2>1, <2>2 DEF CpuInv, Cpu!update_load
<1>3. ASSUME NEW p \in CpuPids, Cpu!remove_process(p) PROVE CpuInv'
    BY <1>0, <1>3, Zenon DEF CpuInv, Cpu!remove_process
<1>4. ASSUME NEW p \in CpuPids, NEW a \in Cpu!Activities, Cpu!notify_process_activity(p, a)
      PROVE  CpuInv'
    BY <1>0, <1>4, Zenon DEF CpuInv, Cpu!notify_process_activity
<1>5. CASE Cpu!tick
    <2>1. Cpu!FrequencyAlwaysAccepted'
        <3>1. CASE current_governor = "Interactive"
            <4>1. boost_active' \in BOOLEAN
                BY <1>5, Zenon DEF Cpu!tick
            <4>2. Cpu!InteractiveTarget(Cpu!get_average_load, boost_active')
                    \in min_frequency .. max_frequency
                BY <4>1, AverageIsNat, TargetsInRange
            <4>. QED BY <1>5, <3>1, <4>2, SetFrequency DEF Cpu!tick
        <3>2. CASE current_governor # "Interactive"
            BY <1>0, <1>5, <3>2, Zenon DEF Cpu!tick
        <3>. QED BY <3>1, <3>2
    <2>2. boost_active' \in BOOLEAN
        BY <1>5, Zenon DEF Cpu!tick
    <2>. QED BY <1>5, <2>1, <2>2 DEF CpuInv, Cpu!tick
<1>6. CASE Cpu!Clock \/ UNCHANGED Cpu!cpuVars
    BY <1>6 DEF CpuInv, Cpu!Clock, Cpu!cpuVars, Cpu!FrequencyAlwaysAccepted
<1>. QED BY <1>1, <1>2, <1>3, <1>4, <1>5, <1>6 DEF Cpu!Next

\* Whatever sequence of governors, loads and ticks led there, for any limits: no governor asks
\* for a frequency that set_frequency refuses, so no update is lost.
THEOREM NoFrequencyIsRefused == Spec => []FrequencyAlwaysAccepted
<1>1. Init => CpuInv
    BY CpuInitInv DEF Init
<1>2. CpuInv /\ [Next]_vars => CpuInv'
    <2> SUFFICES ASSUME CpuInv, [Next]_vars PROVE CpuInv'
        OBVIOUS
    <2>1. [Cpu!Next]_(Cpu!cpuVars) \/ UNCHANGED cpuVars
        BY DEF Next, OfPolicy, vars, Cpu!cpuVars
    <2>2. CASE UNCHANGED cpuVars
        BY <2>2 DEF cpuVars, CpuInv, Cpu!FrequencyAlwaysAccepted
    <2>. QED BY <2>1, <2>2, CpuNextInv
<1>3. CpuInv => FrequencyAlwaysAccepted
    BY DEF CpuInv, FrequencyAlwaysAccepted
<1>. QED BY <1>1, <1>2, <1>3, PTL DEF Spec
-----------------------------------------------------------------------------
(***************************************************************************)
(* A process keeps an entry in current_interactive_processes for as long   *)
(* as its own latest activity is recent, since no entry moves to an        *)
(* earlier end and only expired ones are cleaned up.                       *)
(***************************************************************************)
RespInv ==
    /\ now \in Nat
    /\ \A p \in DOMAIN boosts : boosts[p] \in Nat
    /\ \A p \in DOMAIN acted : acted[p] \in Nat /\ acted[p] <= now
    /\ \A p \in DOMAIN acted :
        now < acted[p] + BoostDuration => p \in DOMAIN boosts /\ boosts[p] >= acted[p] + BoostDuration

LEMMA RespInitInv == Resp!Init => RespInv
BY DEF Resp!Init, RespInv

LEMMA RespNextInv == RespInv /\ [Resp!Next]_(Resp!respVars) => RespInv'
<1> SUFFICES ASSUME RespInv, [Resp!Next]_(Resp!respVars) PROVE RespInv'
    OBVIOUS
<1>0. BoostDuration \in Nat
    BY PowerAssumptions DEF Resp!ResponsivenessAssumption
<1>1. CASE Resp!handle_touch_event
    <2>1. now + BoostDuration \in Nat
        BY <1>0 DEF RespInv
    <2>2. /\ DOMAIN boosts' = DOMAIN boosts \cup Resp!Handlers /\ now' = now /\ acted' = acted
          /\ \A p \in DOMAIN boosts' :
                boosts'[p] = IF p \in Resp!Handlers THEN now + BoostDuration ELSE boosts[p]
        BY <1>1 DEF Resp!handle_touch_event, Resp!PutAll
    <2>. QED BY <1>0, <2>1, <2>2 DEF RespInv
<1>2. ASSUME NEW p \in Pids, Resp!notify_interactive(p) PROVE RespInv'
    <2>1. now + BoostDuration \in Nat
        BY <1>0 DEF RespInv
    <2>2. /\ DOMAIN boosts' = DOMAIN boosts \cup {p} /\ now' = now
          /\ \A q \in DOMAIN boosts' : boosts'[q] = IF q = p THEN now + BoostDuration ELSE boosts[q]
          /\ DOMAIN acted' = DOMAIN acted \cup {p}
          /\ \A q \in DOMAIN acted' : acted'[q] = IF q = p THEN now ELSE acted[q]
        BY <1>2 DEF Resp!notify_interactive, Resp!Put
    <2>. QED BY <1>0, <2>1, <2>2 DEF RespInv
<1>3. ASSUME NEW p \in Pids, Resp!notify_other(p) PROVE RespInv'
    BY <1>3 DEF RespInv, Resp!notify_other
<1>4. ASSUME NEW high \in BOOLEAN, Resp!update_system_metrics(high) PROVE RespInv'
    <2>1. /\ DOMAIN boosts' = Resp!Live /\ now' = now /\ acted' = acted
          /\ \A p \in DOMAIN boosts' : boosts'[p] = boosts[p]
        BY <1>4 DEF Resp!update_system_metrics
    <2>. QED BY <1>0, <2>1 DEF RespInv, Resp!Live
<1>5. CASE Resp!Clock \/ UNCHANGED Resp!respVars
    BY <1>0, <1>5 DEF RespInv, Resp!Clock, Resp!respVars
<1>. QED BY <1>1, <1>2, <1>3, <1>4, <1>5 DEF Resp!Next

\* However touches, activities, clean-ups and the clock interleave: a process that interacted
\* less than BoostDuration ago is not throttled.
THEOREM RecentIsNeverThrottled == Spec => []RecentNotThrottled
<1> DEFINE I == part = "resp" => RespInv
<1>1. Init => I
    BY RespInitInv DEF Init
<1>2. I /\ [Next]_vars => I'
    BY RespNextInv, StepOfPart
<1>3. I => RecentNotThrottled
    <2>1. BoostDuration \in Nat
        BY PowerAssumptions DEF Resp!ResponsivenessAssumption
    <2>. QED BY <2>1 DEF RespInv, RecentNotThrottled, Resp!RecentNotThrottled, Resp!should_throttle_process
<1>. QED BY <1>1, <1>2, <1>3, PTL DEF Spec
-----------------------------------------------------------------------------
(***************************************************************************)
(* The battery changes only inside update(), whose context holds           *)
(* POWER_POLICY from the sample to the decision that follows it, so nobody *)
(* sees the state in between.                                              *)
(***************************************************************************)
\* Exactly the context that holds POWER_POLICY is inside update(), and Free is no context.
PolicyInv ==
    /\ pc \in [Contexts -> {"idle", "sample", "callback", "decide"}]
    /\ \A c \in Contexts : pc[c] # "idle" => power_lock = c
    /\ phase \in {"boot", "battery"} => power_lock = Policy!Free
    /\ Policy!StateFollowsBattery

LEMMA PolicyInitInv == Policy!Init => PolicyInv
BY DEF Policy!Init, PolicyInv, Policy!StateFollowsBattery

LEMMA CallStep ==
    ASSUME PolicyInv, NEW c \in Contexts,
           \/ Policy!notify_interactive(c) \/ Policy!enable_thermal_throttling(c)
           \/ Policy!disable_thermal_throttling(c)
           \/ \E s \in Policy!PowerStates : Policy!set_power_state(c, s)
    PROVE  PolicyInv'
BY DEF PolicyInv, Policy!StateFollowsBattery, Policy!get_recommended_power_state, Policy!battery, Policy!Enter,
       Policy!notify_interactive, Policy!enable_thermal_throttling, Policy!disable_thermal_throttling, Policy!set_power_state

LEMMA UpdateStep ==
    ASSUME Policy!Free \notin Contexts, PolicyInv, NEW c \in Contexts, Policy!update(c) \/ Policy!Sample(c) \/ Policy!Decide(c)
    PROVE  PolicyInv'
<1>1. CASE Policy!update(c)
    BY <1>1 DEF PolicyInv, Policy!StateFollowsBattery, Policy!update, Policy!Enter
<1>2. CASE Policy!Sample(c)
    <2>1. power_lock = c /\ power_lock # Policy!Free
        BY <1>2 DEF Policy!Sample, PolicyInv
    <2>2. /\ pc' \in [Contexts -> {"idle", "sample", "callback", "decide"}]
          /\ \A d \in Contexts : d # c => pc'[d] = pc[d]
          /\ power_lock' = power_lock /\ phase = "up" /\ phase' \in {"up", "panic"}
        BY <1>2 DEF Policy!Sample, PolicyInv
    <2>. QED BY <2>1, <2>2 DEF PolicyInv, Policy!StateFollowsBattery
<1>3. CASE Policy!Decide(c)
    <2>1. /\ pc' \in [Contexts -> {"idle", "sample", "callback", "decide"}]
          /\ \A d \in Contexts : pc'[d] # "idle" => pc[d] # "idle" /\ d # c
          /\ phase' = "up" /\ power_lock = c
        BY <1>3 DEF Policy!Decide, PolicyInv
    <2>2. \A d \in Contexts : pc'[d] = "idle"
        BY <2>1 DEF PolicyInv
    <2>3. power_state' = Policy!get_recommended_power_state'
        BY <1>3 DEF Policy!Decide, Policy!get_recommended_power_state, Policy!battery
    <2>. QED BY <2>1, <2>2, <2>3 DEF PolicyInv, Policy!StateFollowsBattery
<1>. QED BY <1>1, <1>2, <1>3

LEMMA PolicyNextInv == Policy!Free \notin Contexts /\ PolicyInv /\ [Policy!Next]_(Policy!vars) => PolicyInv'
<1> SUFFICES ASSUME Policy!Free \notin Contexts, PolicyInv, [Policy!Next]_(Policy!vars) PROVE PolicyInv'
    OBVIOUS
<1>1. CASE Policy!battery_monitor_init
    BY <1>1 DEF Policy!battery_monitor_init, PolicyInv, Policy!StateFollowsBattery
<1>2. CASE Policy!power_policy_init
    BY <1>2 DEF Policy!power_policy_init, PolicyInv, Policy!StateFollowsBattery, Policy!get_recommended_power_state, Policy!battery
<1>3. CASE Policy!Clock \/ UNCHANGED Policy!vars
    BY <1>3 DEF Policy!Clock, Policy!vars, PolicyInv, Policy!StateFollowsBattery, Policy!get_recommended_power_state, Policy!battery, Policy!policy
<1>4. ASSUME NEW c \in Contexts,
             \/ Policy!notify_interactive(c) \/ Policy!enable_thermal_throttling(c)
             \/ Policy!disable_thermal_throttling(c)
           \/ \E s \in Policy!PowerStates : Policy!set_power_state(c, s)
      PROVE  PolicyInv'
    BY <1>4, CallStep
<1>5. ASSUME NEW c \in Contexts, Policy!update(c) \/ Policy!Sample(c) \/ Policy!Decide(c) PROVE PolicyInv'
    BY <1>5, UpdateStep
<1>. QED BY <1>1, <1>2, <1>3, <1>4, <1>5 DEF Policy!Next

\* Whichever contexts call in, and however often the battery changes: when POWER_POLICY is
\* free and nobody set the state by hand, it is what get_recommended_power_state asks for.
THEOREM StateIsRecommended == Spec => []StateFollowsBattery
<1> DEFINE I == part = "policy" => PolicyInv
<1>1. Init => I
    BY PolicyInitInv DEF Init
<1>2. I /\ [Next]_vars => I'
    BY PolicyNextInv, PowerAssumptions, StepOfPart DEF Policy!PowerAssumption
<1>3. I => StateFollowsBattery
    BY DEF PolicyInv, StateFollowsBattery
<1>. QED BY <1>1, <1>2, <1>3, PTL DEF Spec
=============================================================================
