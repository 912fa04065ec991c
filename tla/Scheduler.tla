------------------------------ MODULE Scheduler ------------------------------
(***************************************************************************)
(* The scheduler, kernel/src/process/scheduler.rs, on top of the process   *)
(* table.                                                                  *)
(*                                                                         *)
(* A call of schedule() holds the SCHEDULER lock from start to end, but    *)
(* every question it asks of the process table (get_runnable_processes,    *)
(* get_process, get_current_process, set_current_process) takes and        *)
(* releases the PROCESS_TABLE lock.  Each of these is one step here, and   *)
(* the public table operations of other contexts run between them.         *)
(*                                                                         *)
(* cpu_time_ms is 0 for every process: nothing calls Process::add_cpu_time.*)
(* Statistics are left out.                                                *)
(***************************************************************************)
EXTENDS ProcessTable, SchedulingPolicy

CONSTANTS
    Algorithms,     \* those set_scheduling_algorithm is called with
    PowerPolicies,  \* those the power policy manager switches between
    Class,          \* the power class of each pid; Background if never classified
    MaxChanges      \* bound on changes of algorithm, policy and throttling

ASSUME SchedulerAssumption ==
    /\ Algorithms \subseteq {"RoundRobin", "Priority", "CompletelyFair"}
    /\ PowerPolicies \subseteq Policies
    /\ Class \in [1..MaxProcesses -> Classes]
    /\ MaxChanges \in Nat

VARIABLES
    algorithm,
    last_scheduled_index,
    priority_queues,
    call,           \* where the current schedule() call is, with its locals
    policy,         \* power_policy: current_policy
    boosted,        \* power_policy: interactive_boost_active
    throttled,      \* pids for which responsiveness::should_throttle_process answers true
    changes

schedVars == <<algorithm, last_scheduled_index, priority_queues, call>>
powerVars == <<policy, boosted, throttled>>
vars == <<tableVars, schedVars, powerVars, changes>>

Levels == 0..3
NoQueues == [l \in Levels |-> << >>]
Idle == [pc |-> "idle", list |-> << >>, idx |-> 0, start |-> 0, choice |-> None]

\* get_process(pid) answers with a process that is_runnable
Runnable(pid) == Exists(processes, pid) /\ is_runnable(get_process(pid))

\* the queue update_priority_queues pushes pid to
QueueOf(pid) ==
    IF should_throttle_background(policy, Class[pid], boosted) \/ pid \in throttled
    THEN 3
    ELSE get_power_aware_priority(policy, Class[pid], boosted, get_process(pid).priority)

SInit ==
    /\ Init
    /\ algorithm = "RoundRobin" /\ last_scheduled_index = 0 /\ priority_queues = NoQueues
    /\ call = Idle
    /\ policy = "Balanced" /\ boosted = FALSE /\ throttled = {}
    /\ changes = 0

-----------------------------------------------------------------------------
At(pc) == call.pc = pc /\ Unlocked

schedule_next_process ==
    /\ call.pc = "idle"
    /\ call' = [Idle EXCEPT !.pc = "snapshot"]
    /\ UNCHANGED <<tableVars, algorithm, last_scheduled_index, priority_queues, powerVars, changes>>

\* reschedules only while some process is current
timer_tick ==
    /\ current_pid # None
    /\ Unlocked
    /\ schedule_next_process

\* the clear of update_priority_queues
QueuesAtStart == IF algorithm = "Priority" THEN NoQueues ELSE priority_queues

\* get_runnable_processes
Snapshot ==
    /\ At("snapshot")
    /\ LET list == get_runnable_processes
           begun == [call EXCEPT !.list = list, !.idx = IF algorithm = "RoundRobin"
                                                        THEN last_scheduled_index ELSE 0,
                                 !.start = last_scheduled_index]
       IN  call' = [begun EXCEPT !.pc = CASE algorithm = "Priority" -> "fill"
                                          [] algorithm # "Priority" /\ list = << >> -> "current"
                                          [] OTHER -> "scan"]
    /\ priority_queues' = QueuesAtStart
    /\ UNCHANGED <<tableVars, algorithm, last_scheduled_index, powerVars, changes>>

\* Mutant: the lowest level first
SearchOrderReversed(q) == q[3] \o q[2] \o q[1] \o q[0]

\* schedule_priority searches the queues from the highest level down
SearchOrder(q) == q[0] \o q[1] \o q[2] \o q[3]

\* one iteration of update_priority_queues; past the end, the queues are searched in turn
FillQueue ==
    /\ At("fill")
    /\ IF call.idx < Len(call.list)
       THEN LET pid == call.list[call.idx + 1] IN
            /\ priority_queues' = IF Exists(processes, pid)
                                  THEN [priority_queues EXCEPT ![QueueOf(pid)] = Append(@, pid)]
                                  ELSE priority_queues
            /\ call' = [call EXCEPT !.idx = @ + 1]
       ELSE LET all == SearchOrder(priority_queues) IN
            /\ call' = [call EXCEPT !.list = all, !.idx = 0,
                                    !.pc = IF all = << >> THEN "current" ELSE "scan"]
            /\ UNCHANGED priority_queues
    /\ UNCHANGED <<tableVars, algorithm, last_scheduled_index, powerVars, changes>>

Chosen(pid) == [call EXCEPT !.choice = pid, !.pc = "current"]

\* Mutant: the position is not advanced
NextIndexStay(i, n) == i

\* where the next round-robin search starts
NextIndex(i, n) == (i + 1) % n

\* Mutant: the search gives up one process early
SearchedAllEarly(i) == i + 2 >= call.start

SearchedAll(i) == i + 1 = call.start

\* one iteration of the loop in schedule_round_robin
RoundRobinStep ==
    /\ At("scan") /\ algorithm = "RoundRobin"
    /\ LET n == Len(call.list)
           i == IF call.idx >= n THEN 0 ELSE call.idx
           pid == call.list[i + 1]
       IN  IF Runnable(pid)
           THEN /\ last_scheduled_index' = NextIndex(i, n)
                /\ call' = Chosen(pid)
           ELSE /\ call' = [call EXCEPT !.idx = i + 1,
                                        !.pc = IF SearchedAll(i) THEN "current" ELSE "scan"]
                /\ UNCHANGED last_scheduled_index
    /\ UNCHANGED <<tableVars, algorithm, priority_queues, powerVars, changes>>

\* Move pid to the end of its queue
MovedToEnd(queues, pid) ==
    [l \in Levels |->
        IF pid \in Range(queues[l])
        THEN Append(Without(queues[l], pid), pid) ELSE queues[l]]

\* Mutant: the loop variable is not advanced past the last process
NextOrNoneStuck ==
    [call EXCEPT !.idx = IF call.idx + 1 = Len(call.list) THEN @ ELSE @ + 1]

NextOrNone ==
    [call EXCEPT !.idx = @ + 1,
                 !.pc = IF call.idx + 1 = Len(call.list) THEN "current" ELSE "scan"]

\* one iteration of the search in schedule_priority
PriorityStep ==
    /\ At("scan") /\ algorithm = "Priority"
    /\ LET pid == call.list[call.idx + 1]
       IN  IF Runnable(pid)
           THEN /\ call' = Chosen(pid)
                /\ priority_queues' = MovedToEnd(priority_queues, pid)
           ELSE call' = NextOrNone /\ UNCHANGED priority_queues
    /\ UNCHANGED <<tableVars, algorithm, last_scheduled_index, powerVars, changes>>

\* one iteration of schedule_cfs; with equal CPU times the first runnable one is kept
CfsStep ==
    /\ At("scan") /\ algorithm = "CompletelyFair"
    /\ LET pid == call.list[call.idx + 1]
           best == IF call.choice = None /\ Runnable(pid) THEN pid ELSE call.choice
       IN  call' = [NextOrNone EXCEPT !.choice = best]
    /\ UNCHANGED <<tableVars, algorithm, last_scheduled_index, priority_queues, powerVars, changes>>

\* get_current_process: nothing to do when the choice is current already
CompareCurrent ==
    /\ At("current") /\ call.choice # None
    /\ call' = IF current_pid = call.choice THEN Idle ELSE [call EXCEPT !.pc = "set"]
    /\ UNCHANGED <<tableVars, algorithm, last_scheduled_index, priority_queues, powerVars, changes>>

\* set_current_process(None), or of the choice; ProcessNotFound ends the call with an error
Switch ==
    /\ At("set") \/ (At("current") /\ call.choice = None)
    /\ set_current_process(call.choice)
    /\ call' = IF call.choice # None /\ Exists(processes, call.choice)
               THEN [call EXCEPT !.pc = "notify"] ELSE Idle
    /\ UNCHANGED <<algorithm, last_scheduled_index, priority_queues, powerVars, changes>>

\* get_process once more, and notify_power_management
Notify ==
    /\ At("notify")
    /\ LET interactive == /\ Exists(processes, call.choice)
                          /\ get_process(call.choice).priority <= 1
       IN  /\ boosted' = (boosted \/ interactive)
           /\ throttled' = IF interactive THEN throttled \ {call.choice} ELSE throttled
    /\ call' = Idle
    /\ UNCHANGED <<tableVars, algorithm, last_scheduled_index, priority_queues, policy, changes>>

\* takes the SCHEDULER lock, so never during a call
set_algorithm(a) ==
    /\ call.pc = "idle" /\ changes < MaxChanges
    /\ algorithm' = a
    /\ last_scheduled_index' = 0
    /\ priority_queues' = NoQueues
    /\ changes' = changes + 1
    /\ UNCHANGED <<tableVars, call, powerVars>>

-----------------------------------------------------------------------------
\* power management changes its mind between two steps of the scheduler
PowerChange ==
    /\ changes < MaxChanges /\ changes' = changes + 1
    /\ \/ policy' \in PowerPolicies /\ UNCHANGED <<boosted, throttled>>
       \/ boosted' = FALSE /\ UNCHANGED <<policy, throttled>>
       \/ \E pid \in 1..MaxProcesses :
             throttled' = throttled \cup {pid} /\ UNCHANGED <<policy, boosted>>
    /\ UNCHANGED <<tableVars, schedVars>>

\* the table operations of other contexts, those of ops
OtherContext(ops) ==
    /\ \/ /\ "create" \in ops
          /\ \E parent \in {None, current_pid}, p \in Priorities : create_process(parent, p)
       \/ "remove" \in ops /\ \E pid \in PidArgs : remove_process(pid)
       \/ "cleanup" \in ops /\ cleanup_zombies
       \/ CleanupNext
    /\ UNCHANGED <<schedVars, powerVars, changes>>

ScheduleStep ==
    \/ Snapshot \/ FillQueue \/ RoundRobinStep \/ PriorityStep \/ CfsStep
    \/ CompareCurrent \/ Switch \/ Notify

SNext(ops) ==
    \/ schedule_next_process \/ timer_tick \/ ScheduleStep
    \/ \E a \in Algorithms : set_algorithm(a)
    \/ PowerChange \/ OtherContext(ops)

\* The timer keeps asking for a decision, and a context that holds a lock or runs a call
\* keeps running.  Nothing is assumed of the other contexts.
Fairness ==
    WF_vars(schedule_next_process) /\ WF_vars(ScheduleStep)
    /\ WF_vars(CleanupNext /\ UNCHANGED <<schedVars, powerVars, changes>>)

-----------------------------------------------------------------------------
\* schedule() only leaves the CPU idle when it had to: once a call has decided on None,
\* no process of the list it searched (its snapshot, or what update_priority_queues queued of
\* it) is still runnable, however the other contexts interfered between the checks.
WorkConserving ==
    call.pc = "current" /\ call.choice = None =>
        \A pid \in Range(call.list) : ~ Runnable(pid)

Alive(pid) == Exists(processes, pid) /\ get_process(pid).state # "Zombie"

\* a live process gets the CPU, or goes away
Served(pid) == Alive(pid) ~> (current_pid = pid \/ ~ Alive(pid))

\* Round robin starves nobody: last_scheduled_index moves past the chosen process and
\* keeps moving while processes are created.
RoundRobinFair ==
    <>[](algorithm = "RoundRobin") => \A pid \in 1..MaxProcesses : Served(pid)

\* the process alone in the best occupied queue, with the answers power management gives
Top(pid) ==
    /\ Runnable(pid)
    /\ \A other \in 1..MaxProcesses \ {pid} : Runnable(other) => QueueOf(pid) < QueueOf(other)

\* Priority scheduling hands the CPU to the one process of the best level and leaves it
\* there, after any changes of policy, boost and throttling have died down.
TopPriorityRuns ==
    \A pid \in 1..MaxProcesses :
        <>[](algorithm = "Priority" /\ Top(pid)) => <>[](current_pid = pid)

\* Every call of schedule() comes to an end.
ScheduleReturns == (call.pc # "idle") ~> (call.pc = "idle")

-----------------------------------------------------------------------------
\* scheduler.rs:150 "We've checked all processes": the search of schedule_round_robin ends.
\* With a start of 0 the advanced index never equals it, so a search whose processes were all
\* removed after the snapshot goes on for ever.
SearchEnds == call.pc = "scan" ~> call.pc # "scan"

\* scheduler.rs:167 "Use round-robin within the same priority level" and :175 "Move this
\* process to the end of the queue for fairness".  The queues are rebuilt in table order
\* by every call, so the first of two processes of one level always wins.
PriorityFair ==
    <>[](/\ algorithm = "Priority"
         /\ \A p, q \in 1..MaxProcesses :
                Runnable(p) /\ Runnable(q) => QueueOf(p) = QueueOf(q))
        => \A pid \in 1..MaxProcesses : Served(pid)
=============================================================================
