---------------------------- MODULE ProcessTable ----------------------------
(***************************************************************************)
(* The kernel's process table, kernel/src/process/process.rs.              *)
(*                                                                         *)
(* Every public function takes the PROCESS_TABLE spin lock once, so every  *)
(* action below is one critical section.  cleanup_zombies removes several  *)
(* processes in one critical section; it is split into one step per        *)
(* removed process, and `cleaning' (its remaining zombie_pids) holds the   *)
(* lock against every other action meanwhile.                              *)
(*                                                                         *)
(* Left out: names, times, address spaces and CPU contexts, which no       *)
(* operation of the table reads.                                           *)
(***************************************************************************)
EXTENDS Collections

CONSTANTS
    MaxProcesses,   \* MAX_PROCESSES, 1024 in the kernel
    Priorities,     \* the priorities processes are created with
    None            \* Option::None, and an emptied slot

ASSUME TableAssumption ==
    /\ MaxProcesses \in Nat \ {0}
    /\ Priorities \subseteq 0..3
    /\ None \notin Int

VARIABLES
    processes,      \* Vec<Option<Process>>
    next_pid,
    current_pid,
    cleaning        \* zombie_pids still to be removed by cleanup_zombies

tableVars == <<processes, next_pid, current_pid, cleaning>>

PidArgs == 0..MaxProcesses      \* 0 is ProcessId::KERNEL, never in the table
States == {"Ready", "Running", "Blocked", "Zombie"}
ErrorExit == -1                 \* the code of children killed with their parent
ExitCodes == {ErrorExit}        \* codes are only told apart from None

Process ==
    [pid : Nat, parent_pid : Nat \cup {None}, state : States,
     priority : 0..3, exit_code : ExitCodes \cup {None}, children : SUBSET Nat]

\* None differs from every Some(process)
ASSUME NoneIsNoProcess == None \notin Process

-----------------------------------------------------------------------------
\* Some(process): the slot has not been taken
IsSome(ps, i) == ps[i] # None

\* the slot that get_process and get_process_mut find: the first live one with this pid
Hit(ps, i, pid) ==
    /\ IsSome(ps, i) /\ ps[i].pid = pid
    /\ \A j \in 1..(i - 1) : ~ (IsSome(ps, j) /\ ps[j].pid = pid)

Exists(ps, pid) == \E i \in DOMAIN ps : Hit(ps, i, pid)

get_process(pid) == processes[CHOOSE i \in DOMAIN processes : Hit(processes, i, pid)]

RunnableStates == {"Ready", "Running"}
is_runnable(p) == p.state \in RunnableStates

\* filter_map over the slots, in table order
PidsIn(ps, states) ==
    LET live == Picked(ps, {i \in DOMAIN ps : IsSome(ps, i) /\ ps[i].state \in states})
    IN  [k \in DOMAIN live |-> live[k].pid]

get_processes_by_state(s) == PidsIn(processes, {s})

get_runnable_processes == PidsIn(processes, RunnableStates)

process_count == Cardinality({i \in DOMAIN processes : IsSome(processes, i)})

\* the methods of Process
add_child(p, pid) == [p EXCEPT !.children = @ \cup {pid}]

remove_child(p, pid) == [p EXCEPT !.children = @ \ {pid}]

set_state(p, s) == [p EXCEPT !.state = s]

terminate(p, code) == [set_state(p, "Zombie") EXCEPT !.exit_code = code]

\* the same methods applied through get_process_mut
AddChildAt(ps, parent, pid) ==
    [i \in DOMAIN ps |-> IF Hit(ps, i, parent) THEN add_child(ps[i], pid) ELSE ps[i]]

RemoveChildAt(ps, parent, pid) ==
    [i \in DOMAIN ps |-> IF Hit(ps, i, parent) THEN remove_child(ps[i], pid) ELSE ps[i]]

SetStateAt(ps, pid, s) ==
    [i \in DOMAIN ps |-> IF Hit(ps, i, pid) THEN set_state(ps[i], s) ELSE ps[i]]

TerminateAt(ps, pids, code) ==
    [i \in DOMAIN ps |->
        IF \E c \in pids : Hit(ps, i, c) THEN terminate(ps[i], code) ELSE ps[i]]

\* Mutant: the removed process stays in its parent's children list
RemovedKeepsLink(ps, idx, pid) ==
    TerminateAt([ps EXCEPT ![idx] = None], ps[idx].children, ErrorExit)

\* the table after ProcessTable::remove_process(pid) has found pid in slot idx
Removed(ps, idx, pid) ==
    LET taken == [ps EXCEPT ![idx] = None]
    IN  TerminateAt(RemoveChildAt(taken, ps[idx].parent_pid, pid), ps[idx].children, ErrorExit)

\* Mutant: the previous process keeps its state
PreemptedNot(ps) == ps

\* a current process that is Running gives up the CPU
Preempted(ps) ==
    [i \in DOMAIN ps |->
        IF current_pid # None /\ Hit(ps, i, current_pid) /\ ps[i].state = "Running"
        THEN set_state(ps[i], "Ready") ELSE ps[i]]

-----------------------------------------------------------------------------
Unlocked == cleaning = << >>

Init ==
    /\ processes = << >>
    /\ next_pid = 1
    /\ current_pid = None
    /\ cleaning = << >>

NewProcess(pid, parent, priority) ==
    [pid |-> pid, parent_pid |-> parent, state |-> "Ready", priority |-> priority,
     exit_code |-> None, children |-> {}]

\* Mutant: an emptied slot is reused
create_process_reusing_slot(parent, priority) ==
    /\ Unlocked
    /\ next_pid' = next_pid + 1
    /\ \/ /\ Len(processes) < MaxProcesses
          /\ processes' = Append(AddChildAt(processes, parent, next_pid),
                                 NewProcess(next_pid, parent, priority))
       \/ \E i \in DOMAIN processes :
             /\ ~ IsSome(processes, i)
             /\ processes' = [AddChildAt(processes, parent, next_pid) EXCEPT
                                 ![i] = NewProcess(next_pid, parent, priority)]
    /\ UNCHANGED <<current_pid, cleaning>>

\* the slot count is tested, taken slots included; otherwise ProcessTableFull
create_process(parent, priority) ==
    /\ Unlocked
    /\ Len(processes) < MaxProcesses
    /\ next_pid' = next_pid + 1
    /\ processes' = Append(AddChildAt(processes, parent, next_pid),
                           NewProcess(next_pid, parent, priority))
    /\ UNCHANGED <<current_pid, cleaning>>

remove_process(pid) ==
    /\ Unlocked
    /\ \E i \in DOMAIN processes :
          /\ Hit(processes, i, pid)
          /\ processes' = Removed(processes, i, pid)
    /\ UNCHANGED <<next_pid, current_pid, cleaning>>

\* An unknown pid is ProcessNotFound, returned after the previous current
\* process has been made Ready and before current_pid is assigned.
set_current_process(pid) ==
    /\ Unlocked
    /\ \/ /\ pid = None \/ Exists(processes, pid)
          /\ processes' = SetStateAt(Preempted(processes), pid, "Running")
          /\ current_pid' = pid
       \/ /\ pid # None /\ ~ Exists(processes, pid)
          /\ processes' = Preempted(processes)
          /\ UNCHANGED current_pid
    /\ UNCHANGED <<next_pid, cleaning>>

\* get_process_mut(pid) followed by set_state; no transition is refused
set_process_state(pid, s) ==
    /\ Unlocked
    /\ Exists(processes, pid)
    /\ processes' = SetStateAt(processes, pid, s)
    /\ UNCHANGED <<next_pid, current_pid, cleaning>>

\* get_process_mut(pid) followed by terminate
terminate_process(pid, code) ==
    /\ Unlocked
    /\ Exists(processes, pid)
    /\ processes' = TerminateAt(processes, {pid}, code)
    /\ UNCHANGED <<next_pid, current_pid, cleaning>>

cleanup_zombies ==
    /\ Unlocked
    /\ cleaning' = get_processes_by_state("Zombie")
    /\ cleaning' # << >>
    /\ UNCHANGED <<processes, next_pid, current_pid>>

\* One remove_process of the loop.  Every snapshot pid is still there when its turn
\* comes (a removal only terminates others); were it not, this step would be stuck.
CleanupNext ==
    /\ cleaning # << >>
    /\ \E i \in DOMAIN processes :
          /\ Hit(processes, i, Head(cleaning))
          /\ processes' = Removed(processes, i, Head(cleaning))
    /\ cleaning' = Tail(cleaning)
    /\ UNCHANGED <<next_pid, current_pid>>

Next ==
    \/ \E parent \in PidArgs \cup {None}, p \in Priorities : create_process(parent, p)
    \/ \E pid \in PidArgs : remove_process(pid)
    \/ \E pid \in PidArgs \cup {None} : set_current_process(pid)
    \/ \E pid \in PidArgs, s \in {"Ready", "Blocked"} : set_process_state(pid, s)
    \/ \E pid \in PidArgs, code \in ExitCodes : terminate_process(pid, code)
    \/ cleanup_zombies
    \/ CleanupNext

Spec == Init /\ [][Next]_tableVars

-----------------------------------------------------------------------------
TypeOK ==
    /\ processes \in Seq(Process \cup {None})
    /\ Len(processes) <= MaxProcesses
    /\ next_pid \in Nat
    /\ current_pid \in Nat \cup {None}

\* A pid names one process for ever: slot i can only hold pid i and next_pid is one
\* past the last slot, so create_process never hands out a pid that is or was in use
\* and the linear searches of get_process have at most one match.
PidsAreSlots ==
    /\ next_pid = Len(processes) + 1
    /\ \A i \in DOMAIN processes : IsSome(processes, i) => processes[i].pid = i

\* At most one process is Running and it is current_pid: set_current_process demotes the
\* previous one on every path, the ProcessNotFound path included.
RunningIsCurrent ==
    \A i \in DOMAIN processes :
        IsSome(processes, i) /\ processes[i].state = "Running" => current_pid = processes[i].pid

\* The children lists are exactly the live processes that name this parent and were
\* created after it: remove_process and create_process keep both ends of the link in
\* step, and the links cannot form a cycle.
FamilyLinks ==
    \A i \in DOMAIN processes : IsSome(processes, i) =>
        processes[i].children =
            {c \in (i + 1)..Len(processes) :
                IsSome(processes, c) /\ processes[c].parent_pid = i}

\* A removed process never comes back, and a live one keeps its pid, parent and priority.
IdentityIsStable ==
    [][\A i \in DOMAIN processes :
          /\ i \in DOMAIN processes'
          /\ ~ IsSome(processes, i) => ~ IsSome(processes', i)
          /\ IsSome(processes, i) /\ IsSome(processes', i) =>
                /\ processes'[i].pid = processes[i].pid
                /\ processes'[i].parent_pid = processes[i].parent_pid
                /\ processes'[i].priority = processes[i].priority]_tableVars
=============================================================================
