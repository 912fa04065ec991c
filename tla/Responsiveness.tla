--------------------------- MODULE Responsiveness ---------------------------
(***************************************************************************)
(* Interactive responsiveness, kernel/src/power/responsiveness.rs: which   *)
(* processes are boosted and until when, which are throttled, and the      *)
(* touch input queue.  Times come from one clock that does not go back.    *)
(* Every call runs under RESPONSIVENESS_OPTIMIZER.                         *)
(***************************************************************************)
EXTENDS Integers, Sequences, FiniteSets

CONSTANTS
    Pids,
    BoostDuration,     \* boost_duration_ms
    QueueLimit,        \* entries of touch_input_queue that are kept
    EnoughInteractions, \* interaction_count from which a process is not throttled
    MaxTime, MaxCount  \* bounds: the clock, interaction counts

ResponsivenessAssumption ==
    {BoostDuration, QueueLimit, EnoughInteractions, MaxTime, MaxCount} \subseteq Nat \ {0}

VARIABLES
    now,
    interactions,      \* process_interactions: pid -> [last, count]
    boosts,            \* current_interactive_processes: pid -> boost end time
    queue,             \* timestamps in touch_input_queue
    pressure,          \* load or memory usage is at its throttling threshold
    acted              \* not in the code: pid -> time of its own latest interactive activity

respVars == <<now, interactions, boosts, queue, pressure, acted>>

Put(f, k, v) == [x \in DOMAIN f \cup {k} |-> IF x = k THEN v ELSE f[x]]
PutAll(f, ks, v) == [x \in DOMAIN f \cup ks |-> IF x \in ks THEN v ELSE f[x]]

Init ==
    /\ now = 0 /\ interactions = << >> /\ boosts = << >> /\ queue = << >> /\ pressure = FALSE
    /\ acted = << >>

CountOf(p) == IF p \in DOMAIN interactions THEN interactions[p].count ELSE 0

\* update_process_interaction for each process of ps
Interacted(ps) ==
    [x \in DOMAIN interactions \cup ps |->
        IF x \in ps THEN [last |-> now, count |-> CountOf(x) + 1] ELSE interactions[x]]

\* trigger_interactive_boost: those that interacted within the boost duration
Recent == {p \in DOMAIN interactions : now - interactions[p].last < BoostDuration}

Queued(q, t) == IF Len(q) + 1 > QueueLimit THEN Tail(Append(q, t)) ELSE Append(q, t)

\* the processes find_touch_handlers returns: every one with an entry, expired or not
Handlers == DOMAIN boosts \cup Recent

handle_touch_event ==
    /\ \A p \in Handlers : CountOf(p) < MaxCount
    /\ queue' = Queued(queue, now)
    /\ boosts' = PutAll(boosts, Handlers, now + BoostDuration)
    /\ interactions' = Interacted(Handlers)
    /\ UNCHANGED <<now, pressure, acted>>

notify_interactive(p) ==
    /\ CountOf(p) < MaxCount
    /\ interactions' = Interacted({p})
    /\ boosts' = Put(boosts, p, now + BoostDuration)
    /\ acted' = Put(acted, p, now)
    /\ UNCHANGED <<now, queue, pressure>>

\* any other activity: the count decays, saturating at 0
notify_other(p) ==
    /\ p \in DOMAIN interactions
    /\ interactions' = [interactions EXCEPT ![p].count = IF @ = 0 THEN 0 ELSE @ - 1]
    /\ UNCHANGED <<now, boosts, queue, pressure, acted>>

\* Mutant: a boost is dropped one tick early
LiveLonger == {p \in DOMAIN boosts : now + 1 < boosts[p]}

Live == {p \in DOMAIN boosts : now < boosts[p]}

update_system_metrics(high) ==
    /\ pressure' = high
    /\ boosts' = [p \in Live |-> boosts[p]]
    /\ UNCHANGED <<now, interactions, queue, acted>>

Clock == now < MaxTime /\ now' = now + 1 /\ UNCHANGED <<interactions, boosts, queue, pressure, acted>>

\* should_throttle_process; enable_throttling is never cleared
should_throttle_process(p) ==
    /\ p \notin DOMAIN boosts /\ pressure
    /\ p \in DOMAIN interactions => interactions[p].count < EnoughInteractions

Next ==
    \/ handle_touch_event \/ Clock
    \/ \E p \in Pids : notify_interactive(p) \/ notify_other(p)
    \/ \E high \in BOOLEAN : update_system_metrics(high)

Spec == Init /\ [][Next]_respVars
-----------------------------------------------------------------------------
\* A process that interacted less than BoostDuration ago is not throttled, not even right
\* after the clean-up of expired boosts under pressure.
RecentNotThrottled ==
    \A p \in Pids : p \in DOMAIN acted /\ now - acted[p] < BoostDuration => ~ should_throttle_process(p)
=============================================================================
