------------------------- MODULE ProcessTableProofs -------------------------
(***************************************************************************)
(* The process table and the scheduler for every table size: the type      *)
(* invariant, PidsAreSlots, RunningIsCurrent and FamilyLinks of the table, *)
(* and WorkConserving of the scheduler.                                    *)
(*                                                                         *)
(* PidsAreSlots carries the argument for the table.  It turns the linear   *)
(* search of get_process_mut (Hit) into an index, after which every        *)
(* operation is a pointwise update of the slots.  The scheduler's rests on *)
(* a process that was passed by staying dead until the search has ended.   *)
(***************************************************************************)
EXTENDS Scheduler, CollectionTheorems, TLAPS

Table == Seq(Process \cup {None})

SlotPids(ps) == \A i \in DOMAIN ps : IsSome(ps, i) => ps[i].pid = i

\* The methods of Process keep a process a process and change one or two fields.
LEMMA AddChildFacts ==
    ASSUME NEW p \in Process, NEW c \in Nat
    PROVE  LET q == add_child(p, c)
           IN  /\ q \in Process /\ q.pid = p.pid /\ q.parent_pid = p.parent_pid
               /\ q.priority = p.priority /\ q.state = p.state /\ q.children = p.children \cup {c}
BY DEF Process, States, add_child

LEMMA RemoveChildFacts ==
    ASSUME NEW p \in Process, NEW c \in Nat
    PROVE  LET q == remove_child(p, c)
           IN  /\ q \in Process /\ q.pid = p.pid /\ q.parent_pid = p.parent_pid
               /\ q.priority = p.priority /\ q.state = p.state /\ q.children = p.children \ {c}
BY DEF Process, States, remove_child

LEMMA SetStateFacts ==
    ASSUME NEW p \in Process, NEW s \in States
    PROVE  LET q == set_state(p, s)
           IN  /\ q \in Process /\ q.pid = p.pid /\ q.parent_pid = p.parent_pid
               /\ q.priority = p.priority /\ q.state = s /\ q.children = p.children
BY DEF Process, States, set_state

LEMMA TerminateFacts ==
    ASSUME NEW p \in Process, NEW code \in ExitCodes
    PROVE  LET q == terminate(p, code)
           IN  /\ q \in Process /\ q.pid = p.pid /\ q.parent_pid = p.parent_pid
               /\ q.priority = p.priority /\ q.state = "Zombie" /\ q.children = p.children
BY Zenon DEF Process, States, terminate, set_state

\* A table is a function over its slots, each a process or None.
LEMMA TableByPoint ==
    ASSUME NEW ps \in Table, NEW r, r = [i \in DOMAIN ps |-> r[i]],
           \A i \in DOMAIN ps : r[i] \in Process \cup {None}
    PROVE  r \in Table /\ DOMAIN r = DOMAIN ps /\ Len(r) = Len(ps)
BY DEF Table

LEMMA SomeIsProcess ==
    ASSUME NEW ps \in Table, NEW i \in DOMAIN ps
    PROVE  /\ IsSome(ps, i) <=> ps[i] \in Process
           /\ ~ IsSome(ps, i) <=> ps[i] = None
           /\ i \in Nat
BY NoneIsNoProcess DEF Table, IsSome

\* The search for a pid can only end in the slot of that number.
LEMMA HitIsSlot ==
    ASSUME NEW ps \in Table, SlotPids(ps), NEW i \in DOMAIN ps, NEW pid
    PROVE  Hit(ps, i, pid) <=> IsSome(ps, i) /\ pid = i
<1>1. \A j \in 1..(i - 1) : j \in DOMAIN ps
    BY DEF Table
<1>2. i \in Nat
    BY DEF Table
<1>. QED
    BY <1>1, <1>2 DEF Hit, SlotPids, IsSome

\* The table updates, slot by slot.
LEMMA AddChildPointwise ==
    ASSUME NEW ps \in Table, SlotPids(ps), NEW parent, NEW pid, NEW i \in DOMAIN ps
    PROVE  AddChildAt(ps, parent, pid)[i] =
               IF IsSome(ps, i) /\ parent = i THEN add_child(ps[i], pid) ELSE ps[i]
BY HitIsSlot DEF AddChildAt

LEMMA RemoveChildPointwise ==
    ASSUME NEW ps \in Table, SlotPids(ps), NEW parent, NEW pid, NEW i \in DOMAIN ps
    PROVE  RemoveChildAt(ps, parent, pid)[i] =
               IF IsSome(ps, i) /\ parent = i THEN remove_child(ps[i], pid) ELSE ps[i]
BY HitIsSlot DEF RemoveChildAt

LEMMA SetStatePointwise ==
    ASSUME NEW ps \in Table, SlotPids(ps), NEW pid, NEW s, NEW i \in DOMAIN ps
    PROVE  SetStateAt(ps, pid, s)[i] =
               IF IsSome(ps, i) /\ pid = i THEN set_state(ps[i], s) ELSE ps[i]
BY HitIsSlot DEF SetStateAt

LEMMA TerminatePointwise ==
    ASSUME NEW ps \in Table, SlotPids(ps), NEW pids, NEW code, NEW i \in DOMAIN ps
    PROVE  TerminateAt(ps, pids, code)[i] =
               IF IsSome(ps, i) /\ i \in pids THEN terminate(ps[i], code) ELSE ps[i]
<1>1. (\E c \in pids : Hit(ps, i, c)) <=> IsSome(ps, i) /\ i \in pids
    BY HitIsSlot
<1>. QED
    BY <1>1 DEF TerminateAt

LEMMA PreemptedPointwise ==
    ASSUME NEW ps \in Table, SlotPids(ps), NEW i \in DOMAIN ps
    PROVE  Preempted(ps)[i] =
               IF IsSome(ps, i) /\ current_pid = i /\ ps[i].state = "Running"
               THEN set_state(ps[i], "Ready") ELSE ps[i]
<1>1. i # None
    BY SomeIsProcess, TableAssumption
<1>. QED
    BY <1>1, HitIsSlot DEF Preempted

\* What remove_process(k) leaves in each slot.
RemovedShape(ps, k, r) ==
    /\ r = [i \in DOMAIN ps |-> r[i]]
    /\ r[k] = None
    /\ \A i \in DOMAIN ps \ {k} : ~ IsSome(ps, i) => r[i] = None
    /\ \A i \in DOMAIN ps \ {k} : IsSome(ps, i) =>
          /\ r[i] \in Process
          /\ r[i].pid = i
          /\ r[i].parent_pid = ps[i].parent_pid
          /\ r[i].priority = ps[i].priority
          /\ i = ps[k].parent_pid => r[i].children = ps[i].children \ {k}
          /\ i # ps[k].parent_pid => r[i].children = ps[i].children
          /\ i \in ps[k].children => r[i].state = "Zombie"
          /\ i \notin ps[k].children => r[i].state = ps[i].state

LEMMA RemovedPointwise ==
    ASSUME NEW ps \in Table, SlotPids(ps), NEW k \in DOMAIN ps, IsSome(ps, k)
    PROVE  RemovedShape(ps, k, Removed(ps, k, k))
<1> DEFINE taken == [ps EXCEPT ![k] = None]
           parent == ps[k].parent_pid
           dying == ps[k].children
           unlinked == RemoveChildAt(taken, parent, k)
           r == Removed(ps, k, k)
<1>k. k \in Nat
    BY SomeIsProcess
<1>1. /\ taken \in Table /\ DOMAIN taken = DOMAIN ps /\ SlotPids(taken)
      /\ \A i \in DOMAIN ps \ {k} : taken[i] = ps[i]
      /\ taken[k] = None
    BY DEF SlotPids, IsSome, Table
<1>2. /\ unlinked = [i \in DOMAIN ps |-> unlinked[i]]
      /\ \A i \in DOMAIN ps : unlinked[i] =
             IF IsSome(taken, i) /\ parent = i THEN remove_child(taken[i], k) ELSE taken[i]
    <2>. HIDE DEF taken, parent
    <2>1. \A i \in DOMAIN taken : unlinked[i] =
             IF IsSome(taken, i) /\ parent = i THEN remove_child(taken[i], k) ELSE taken[i]
        BY <1>1, RemoveChildPointwise
    <2>. QED BY <1>1, <2>1 DEF RemoveChildAt
<1>3. /\ unlinked[k] = None
      /\ \A i \in DOMAIN ps \ {k} : ~ IsSome(ps, i) => unlinked[i] = None
      /\ \A i \in DOMAIN ps \ {k} : IsSome(ps, i) =>
             /\ unlinked[i] \in Process
             /\ unlinked[i].pid = i
             /\ unlinked[i].parent_pid = ps[i].parent_pid
             /\ unlinked[i].priority = ps[i].priority
             /\ unlinked[i].state = ps[i].state
             /\ unlinked[i].children = IF i = parent THEN ps[i].children \ {k} ELSE ps[i].children
    <2>. HIDE DEF unlinked, taken, parent
    <2>1. unlinked[k] = None /\ \A i \in DOMAIN ps \ {k} : ~ IsSome(ps, i) => unlinked[i] = None
        BY <1>1, <1>2 DEF IsSome
    <2>2. ASSUME NEW i \in DOMAIN ps \ {k}, IsSome(ps, i)
          PROVE  /\ unlinked[i] = IF i = parent THEN remove_child(ps[i], k) ELSE ps[i]
                 /\ ps[i] \in Process /\ ps[i].pid = i
        BY <1>1, <1>2, <2>2, SomeIsProcess DEF IsSome, SlotPids
    <2>3. ASSUME NEW i \in DOMAIN ps \ {k}, IsSome(ps, i)
          PROVE  /\ unlinked[i] \in Process
                 /\ unlinked[i].pid = i
                 /\ unlinked[i].parent_pid = ps[i].parent_pid
                 /\ unlinked[i].priority = ps[i].priority
                 /\ unlinked[i].state = ps[i].state
                 /\ unlinked[i].children =
                       IF i = parent THEN ps[i].children \ {k} ELSE ps[i].children
        <3>1. CASE i = parent
            BY <1>k, <2>2, <2>3, <3>1, RemoveChildFacts
        <3>2. CASE i # parent
            BY <2>2, <2>3, <3>2
        <3>. QED BY <3>1, <3>2
    <2>. QED BY <2>1, <2>3
<1>4. unlinked \in Table /\ DOMAIN unlinked = DOMAIN ps /\ SlotPids(unlinked)
    <2>. HIDE DEF unlinked
    <2>1. \A i \in DOMAIN ps : unlinked[i] \in Process \cup {None}
        BY <1>3, Zenon
    <2>2. unlinked \in Table /\ DOMAIN unlinked = DOMAIN ps
        BY <1>2, <2>1, TableByPoint
    <2>. QED BY <1>3, <2>2, Zenon DEF SlotPids, IsSome
<1>5. /\ r = [i \in DOMAIN ps |-> r[i]]
      /\ \A i \in DOMAIN ps : r[i] =
             IF IsSome(unlinked, i) /\ i \in dying THEN terminate(unlinked[i], ErrorExit) ELSE unlinked[i]
    <2>1. r = TerminateAt(unlinked, dying, ErrorExit)
        BY DEF Removed
    <2>. HIDE DEF unlinked, dying, r
    <2>2. \A i \in DOMAIN unlinked : r[i] =
             IF IsSome(unlinked, i) /\ i \in dying THEN terminate(unlinked[i], ErrorExit) ELSE unlinked[i]
        BY <1>4, <2>1, TerminatePointwise
    <2>. QED BY <1>4, <2>1, <2>2 DEF TerminateAt
<1>. HIDE DEF unlinked, dying, r
<1>6. r[k] = None /\ \A i \in DOMAIN ps \ {k} : ~ IsSome(ps, i) => r[i] = None
    BY <1>3, <1>5 DEF IsSome
<1>7. ASSUME NEW i \in DOMAIN ps \ {k}, IsSome(ps, i)
      PROVE  /\ r[i] \in Process
             /\ r[i].pid = i
             /\ r[i].parent_pid = ps[i].parent_pid
             /\ r[i].priority = ps[i].priority
             /\ r[i].children = unlinked[i].children
             /\ i \in dying => r[i].state = "Zombie"
             /\ i \notin dying => r[i].state = ps[i].state
    <2>1. unlinked[i] \in Process /\ IsSome(unlinked, i)
        BY <1>3, <1>7, NoneIsNoProcess, Zenon DEF IsSome
    <2>2. r[i] = IF i \in dying THEN terminate(unlinked[i], ErrorExit) ELSE unlinked[i]
        BY <1>5, <2>1
    <2>3. ErrorExit \in ExitCodes
        BY DEF ExitCodes
    <2>4. CASE i \in dying
        <3>1. r[i] = terminate(unlinked[i], ErrorExit)
            BY <2>2, <2>4
        <3>2. /\ r[i] \in Process /\ r[i].pid = unlinked[i].pid
              /\ r[i].parent_pid = unlinked[i].parent_pid
              /\ r[i].priority = unlinked[i].priority
              /\ r[i].state = "Zombie" /\ r[i].children = unlinked[i].children
            BY <2>1, <2>3, <3>1, TerminateFacts
        <3>3. /\ unlinked[i].pid = i
              /\ unlinked[i].parent_pid = ps[i].parent_pid
              /\ unlinked[i].priority = ps[i].priority
            BY <1>3, <1>7, Zenon
        <3>. QED BY <2>4, <3>2, <3>3
    <2>5. CASE i \notin dying
        BY <1>3, <1>7, <2>2, <2>5, Zenon
    <2>. QED BY <2>4, <2>5
<1>8. \A i \in DOMAIN ps \ {k} : IsSome(ps, i) =>
          /\ i = parent => r[i].children = ps[i].children \ {k}
          /\ i # parent => r[i].children = ps[i].children
    BY <1>3, <1>7, ZenonT(30)
<1>9. r = Removed(ps, k, k) /\ dying = ps[k].children
    BY DEF r, dying
<1>. QED
    BY <1>5, <1>6, <1>7, <1>8, <1>9 DEF RemovedShape

-----------------------------------------------------------------------------
IInv == TypeOK /\ PidsAreSlots /\ RunningIsCurrent /\ FamilyLinks

LEMMA IInvTable ==
    ASSUME IInv
    PROVE  /\ processes \in Table /\ SlotPids(processes)
           /\ DOMAIN processes = 1..Len(processes) /\ Len(processes) \in Nat
BY DEF IInv, TypeOK, PidsAreSlots, Table, SlotPids

\* A step that keeps every slot's occupancy, parent and children, whatever it does to
\* the states, keeps all but RunningIsCurrent.
LEMMA StateStep ==
    ASSUME IInv, next_pid' = next_pid, current_pid' \in Nat \cup {None},
           processes' = [i \in DOMAIN processes |-> processes'[i]],
           \A i \in DOMAIN processes : ~ IsSome(processes, i) => processes'[i] = None,
           \A i \in DOMAIN processes : IsSome(processes, i) =>
               /\ processes'[i] \in Process
               /\ processes'[i].pid = i
               /\ processes'[i].parent_pid = processes[i].parent_pid
               /\ processes'[i].children = processes[i].children
    PROVE  TypeOK' /\ PidsAreSlots' /\ FamilyLinks'
<1>1. processes' \in Table /\ DOMAIN processes' = DOMAIN processes /\ Len(processes') = Len(processes)
    BY IInvTable, TableByPoint
<1>2. \A i \in DOMAIN processes : IsSome(processes', i) <=> IsSome(processes, i)
    BY NoneIsNoProcess DEF IsSome
<1>3. TypeOK' /\ PidsAreSlots'
    BY <1>1, <1>2 DEF IInv, TypeOK, PidsAreSlots, Table
<1>4. FamilyLinks'
    <2> SUFFICES ASSUME NEW i \in DOMAIN processes, IsSome(processes, i)
                 PROVE  processes'[i].children =
                            {c \in (i + 1)..Len(processes') :
                                IsSome(processes', c) /\ processes'[c].parent_pid = i}
        BY <1>1, <1>2 DEF FamilyLinks
    <2>1. \A c \in (i + 1)..Len(processes) : c \in DOMAIN processes
        BY IInvTable
    <2>2. processes'[i].children = {c \in (i + 1)..Len(processes) :
                                      IsSome(processes, c) /\ processes[c].parent_pid = i}
        BY DEF IInv, FamilyLinks
    <2>. QED BY <1>1, <1>2, <2>1, <2>2
<1>. QED BY <1>3, <1>4

\* remove_process and one step of cleanup_zombies.
LEMMA RemoveStep ==
    ASSUME IInv, next_pid' = next_pid, current_pid' = current_pid,
           NEW k \in DOMAIN processes, NEW pid, Hit(processes, k, pid),
           processes' = Removed(processes, k, pid)
    PROVE  IInv'
<1>1. pid = k /\ IsSome(processes, k)
    BY IInvTable, HitIsSlot
<1>2. RemovedShape(processes, k, processes')
    BY <1>1, IInvTable, RemovedPointwise
<1>3. /\ processes' \in Table /\ DOMAIN processes' = DOMAIN processes
      /\ Len(processes') = Len(processes)
    <2>1. \A i \in DOMAIN processes : processes'[i] \in Process \cup {None}
        BY <1>2 DEF RemovedShape
    <2>2. processes' = [i \in DOMAIN processes |-> processes'[i]]
        BY <1>2 DEF RemovedShape
    <2>. QED BY <2>1, <2>2, IInvTable, TableByPoint
<1>4. \A i \in DOMAIN processes : IsSome(processes', i) <=> i # k /\ IsSome(processes, i)
    BY <1>2, NoneIsNoProcess DEF IsSome, RemovedShape
<1>5. TypeOK' /\ PidsAreSlots'
    BY <1>2, <1>3, <1>4 DEF IInv, TypeOK, PidsAreSlots, Table, RemovedShape
<1>6. RunningIsCurrent'
    <2> SUFFICES ASSUME NEW i \in DOMAIN processes \ {k}, IsSome(processes, i),
                        processes'[i].state = "Running"
                 PROVE  current_pid = i
        BY <1>2, <1>3, <1>4 DEF RunningIsCurrent, RemovedShape
    <2>1. processes[i].state = "Running"
        BY <1>2 DEF RemovedShape
    <2>. QED BY <2>1, IInvTable DEF IInv, RunningIsCurrent, SlotPids
<1>7. FamilyLinks'
    <2> SUFFICES ASSUME NEW i \in DOMAIN processes \ {k}, IsSome(processes, i)
                 PROVE  processes'[i].children =
                            {c \in (i + 1)..Len(processes) :
                                IsSome(processes', c) /\ processes'[c].parent_pid = i}
        BY <1>3, <1>4 DEF FamilyLinks
    <2>1. \A c \in (i + 1)..Len(processes) : c \in DOMAIN processes
        BY IInvTable
    <2>2. processes[i].children = {c \in (i + 1)..Len(processes) :
                                      IsSome(processes, c) /\ processes[c].parent_pid = i}
        BY DEF IInv, FamilyLinks
    <2>3. \A c \in (i + 1)..Len(processes) :
              IsSome(processes', c) /\ processes'[c].parent_pid = i <=>
              c # k /\ IsSome(processes, c) /\ processes[c].parent_pid = i
        BY <1>2, <1>4, <2>1 DEF RemovedShape
    <2>4. CASE i = processes[k].parent_pid
        <3>1. processes'[i].children = processes[i].children \ {k}
            BY <1>2, <2>4 DEF RemovedShape
        <3>. QED BY <2>2, <2>3, <3>1
    <2>5. CASE i # processes[k].parent_pid
        <3>1. processes'[i].children = processes[i].children
            BY <1>2, <2>5 DEF RemovedShape
        <3>. QED BY <2>2, <2>3, <2>5, <3>1
    <2>. QED BY <2>4, <2>5
<1>. QED BY <1>5, <1>6, <1>7 DEF IInv

LEMMA CreateStep ==
    ASSUME IInv, NEW parent \in Nat \cup {None}, NEW priority \in 0..3,
           create_process(parent, priority)
    PROVE  IInv'
<1> DEFINE n == Len(processes)
           new == NewProcess(next_pid, parent, priority)
           old == AddChildAt(processes, parent, next_pid)
<1>1. /\ n \in Nat /\ n < MaxProcesses /\ next_pid = n + 1
      /\ next_pid' = n + 2 /\ current_pid' = current_pid
      /\ processes' = Append(old, new)
      /\ processes \in Table /\ SlotPids(processes) /\ DOMAIN processes = 1..n
      /\ MaxProcesses \in Nat
    BY IInvTable, TableAssumption DEF create_process, IInv, PidsAreSlots
<1>2. new \in Process /\ new # None /\ new.pid = n + 1 /\ new.parent_pid = parent
      /\ new.children = {} /\ new.state = "Ready"
    BY <1>1, NoneIsNoProcess DEF NewProcess, Process, States
<1>3. ASSUME NEW i \in 1..n
      PROVE  /\ ~ IsSome(processes, i) => old[i] = None
             /\ IsSome(processes, i) =>
                   /\ old[i] \in Process
                   /\ old[i].pid = i
                   /\ old[i].parent_pid = processes[i].parent_pid
                   /\ old[i].state = processes[i].state
                   /\ i = parent => old[i].children = processes[i].children \cup {n + 1}
                   /\ i # parent => old[i].children = processes[i].children
    <2>1. old[i] = IF IsSome(processes, i) /\ parent = i
                   THEN add_child(processes[i], next_pid) ELSE processes[i]
        BY <1>1, <1>3, AddChildPointwise
    <2>. HIDE DEF old
    <2>2. CASE ~ IsSome(processes, i)
        BY <2>1, <2>2 DEF IsSome
    <2>3. CASE IsSome(processes, i)
        <3>1. processes[i] \in Process /\ processes[i].pid = i
            BY <1>1, <1>3, <2>3, SomeIsProcess DEF SlotPids
        <3>2. CASE parent = i
            <4>1. old[i] = add_child(processes[i], n + 1)
                BY <1>1, <2>1, <2>3, <3>2
            <4>2. n + 1 \in Nat
                BY <1>1
            <4>3. /\ old[i] \in Process /\ old[i].pid = processes[i].pid
                  /\ old[i].parent_pid = processes[i].parent_pid
                  /\ old[i].state = processes[i].state
                  /\ old[i].children = processes[i].children \cup {n + 1}
                <5>. DEFINE p == processes[i]
                            c == n + 1
                <5>1. p \in Process /\ c \in Nat /\ old[i] = add_child(p, c)
                    BY <3>1, <4>1, <4>2
                <5>. HIDE DEF n, p, c
                <5>2. /\ old[i] \in Process /\ old[i].pid = p.pid
                      /\ old[i].parent_pid = p.parent_pid /\ old[i].state = p.state
                      /\ old[i].children = p.children \cup {c}
                    BY <5>1, AddChildFacts
                <5>. QED BY <5>2 DEF p, c
            <4>. QED BY <2>3, <3>1, <3>2, <4>3
        <3>3. CASE parent # i
            BY <2>1, <2>3, <3>1, <3>3
        <3>. QED BY <3>2, <3>3
    <2>. QED BY <2>2, <2>3
<1>4. old \in Table /\ DOMAIN old = 1..n /\ Len(old) = n
    <2>1. old = [i \in DOMAIN processes |-> old[i]]
        BY DEF AddChildAt
    <2>2. \A i \in DOMAIN processes : old[i] \in Process \cup {None}
        BY <1>1, <1>3
    <2>. HIDE DEF old
    <2>. QED BY <1>1, <2>1, <2>2, TableByPoint
<1>. HIDE DEF old, new
<1>5. /\ processes' \in Table /\ Len(processes') = n + 1 /\ DOMAIN processes' = 1..(n + 1)
      /\ processes'[n + 1] = new
      /\ \A i \in 1..n : processes'[i] = old[i]
    <2>1. old \in Seq(Process \cup {None}) /\ new \in Process \cup {None}
        BY <1>2, <1>4 DEF Table
    <2>2. Append(old, new) \in Seq(Process \cup {None}) /\ Len(Append(old, new)) = n + 1
        BY <1>4, <2>1
    <2>3. Append(old, new)[n + 1] = new /\ \A i \in 1..n : Append(old, new)[i] = old[i]
        BY <1>1, <1>4, <2>1
    <2>. QED BY <1>1, <2>2, <2>3 DEF Table
<1>6. /\ IsSome(processes', n + 1)
      /\ \A i \in 1..n : IsSome(processes', i) <=> IsSome(processes, i)
    BY <1>2, <1>3, <1>5, NoneIsNoProcess DEF IsSome
<1>7. TypeOK'
    BY <1>1, <1>5 DEF IInv, TypeOK, Table
<1>8. PidsAreSlots'
    <2>1. ASSUME NEW i \in 1..(n + 1), IsSome(processes', i) PROVE processes'[i].pid = i
        <3>1. CASE i = n + 1
            BY <1>2, <1>5, <3>1
        <3>2. CASE i \in 1..n
            BY <1>3, <1>5, <1>6, <2>1, <3>2
        <3>3. i = n + 1 \/ i \in 1..n
            BY <1>1, <2>1
        <3>. QED BY <3>1, <3>2, <3>3
    <2>. QED BY <1>1, <1>5, <2>1 DEF PidsAreSlots
<1>9. RunningIsCurrent'
    <2>1. ASSUME NEW i \in 1..(n + 1), IsSome(processes', i), processes'[i].state = "Running"
          PROVE  current_pid = i
        <3>1. i # n + 1
            BY <1>2, <1>5, <2>1
        <3>2. i \in 1..n /\ IsSome(processes, i)
            BY <1>1, <1>6, <2>1, <3>1
        <3>3. processes[i].state = "Running"
            BY <1>3, <1>5, <2>1, <3>2
        <3>. QED BY <1>1, <3>2, <3>3 DEF IInv, RunningIsCurrent, SlotPids
    <2>. QED BY <1>1, <1>5, <1>8, <2>1 DEF RunningIsCurrent, PidsAreSlots
<1>10. FamilyLinks'
    <2> SUFFICES ASSUME NEW i \in 1..(n + 1), IsSome(processes', i)
                 PROVE  processes'[i].children =
                            {c \in (i + 1)..(n + 1) :
                                IsSome(processes', c) /\ processes'[c].parent_pid = i}
        BY <1>5 DEF FamilyLinks
    <2>1. CASE i = n + 1
        <3>1. (i + 1)..(n + 1) = {}
            BY <1>1, <2>1
        <3>. QED BY <1>2, <1>5, <2>1, <3>1
    <2>2. CASE i \in 1..n
        <3>1. processes[i].children = {c \in (i + 1)..n :
                                         IsSome(processes, c) /\ processes[c].parent_pid = i}
            BY <1>1, <1>6, <2>2 DEF IInv, FamilyLinks
        <3>2. \A c \in (i + 1)..n :
                  IsSome(processes', c) /\ processes'[c].parent_pid = i <=>
                  IsSome(processes, c) /\ processes[c].parent_pid = i
            <4>1. \A c \in (i + 1)..n : c \in 1..n
                BY <1>1, <2>2
            <4>. QED BY <1>3, <1>5, <1>6, <4>1
        <3>3. IsSome(processes', n + 1) /\ (processes'[n + 1].parent_pid = i <=> i = parent)
            BY <1>2, <1>5, <1>6
        <3>4. \A c : c \in (i + 1)..(n + 1) <=> c \in (i + 1)..n \/ c = n + 1
            BY <1>1, <2>2
        <3>5. i = parent => processes'[i].children = processes[i].children \cup {n + 1}
            BY <1>3, <1>5, <1>6, <2>2
        <3>6. i # parent => processes'[i].children = processes[i].children
            BY <1>3, <1>5, <1>6, <2>2
        <3>7. CASE i = parent
            BY <3>1, <3>2, <3>3, <3>4, <3>5, <3>7
        <3>8. CASE i # parent
            BY <3>1, <3>2, <3>3, <3>4, <3>6, <3>8
        <3>. QED BY <3>7, <3>8
    <2>3. i = n + 1 \/ i \in 1..n
        BY <1>1
    <2>. QED BY <2>1, <2>2, <2>3
<1>. QED BY <1>7, <1>8, <1>9, <1>10 DEF IInv

\* set_current_process, on both of its paths: first the demotion, then the switch.
LEMMA PreemptedFacts ==
    ASSUME IInv
    PROVE  LET r == Preempted(processes)
           IN  /\ r \in Table /\ SlotPids(r) /\ DOMAIN r = DOMAIN processes
               /\ r = [i \in DOMAIN processes |-> r[i]]
               /\ \A i \in DOMAIN processes : ~ IsSome(processes, i) => r[i] = None
               /\ \A i \in DOMAIN processes : IsSome(processes, i) =>
                     /\ r[i] \in Process /\ r[i].pid = i
                     /\ r[i].parent_pid = processes[i].parent_pid
                     /\ r[i].children = processes[i].children
                     /\ r[i].state # "Running"
<1> DEFINE r == Preempted(processes)
<1>1. processes \in Table /\ SlotPids(processes)
    BY IInvTable
<1>2. r = [i \in DOMAIN processes |-> r[i]]
    BY DEF Preempted
<1>3. \A i \in DOMAIN processes : r[i] =
          IF IsSome(processes, i) /\ current_pid = i /\ processes[i].state = "Running"
          THEN set_state(processes[i], "Ready") ELSE processes[i]
    BY <1>1, PreemptedPointwise
<1>. HIDE DEF r
<1>4. \A i \in DOMAIN processes : ~ IsSome(processes, i) => r[i] = None
    BY <1>3 DEF IsSome
<1>5. ASSUME NEW i \in DOMAIN processes, IsSome(processes, i)
      PROVE  /\ r[i] \in Process /\ r[i].pid = i
             /\ r[i].parent_pid = processes[i].parent_pid
             /\ r[i].children = processes[i].children
             /\ r[i].state # "Running"
    <2>1. processes[i] \in Process /\ processes[i].pid = i
        BY <1>1, <1>5, SomeIsProcess DEF SlotPids
    <2>2. CASE current_pid = i /\ processes[i].state = "Running"
        <3>1. r[i] = set_state(processes[i], "Ready")
            BY <1>3, <1>5, <2>2
        <3>2. "Ready" \in States
            BY DEF States
        <3>. QED BY <2>1, <3>1, <3>2, SetStateFacts
    <2>3. CASE ~ (current_pid = i /\ processes[i].state = "Running")
        <3>1. processes[i].state # "Running"
            BY <1>5, <2>1, <2>3 DEF IInv, RunningIsCurrent
        <3>. QED BY <1>3, <1>5, <2>1, <2>3, <3>1
    <2>. QED BY <2>2, <2>3
<1>6. r \in Table /\ DOMAIN r = DOMAIN processes
    <2>1. \A i \in DOMAIN processes : r[i] \in Process \cup {None}
        BY <1>4, <1>5
    <2>. QED BY <1>1, <1>2, <2>1, TableByPoint
<1>7. SlotPids(r)
    BY <1>4, <1>5, <1>6 DEF SlotPids, IsSome
<1>8. r = Preempted(processes)
    BY DEF r
<1>. QED BY <1>2, <1>4, <1>5, <1>6, <1>7, <1>8

LEMMA SetCurrentStep ==
    ASSUME IInv, NEW pid \in Nat \cup {None}, set_current_process(pid)
    PROVE  IInv'
<1> DEFINE r == Preempted(processes)
<1>1. /\ r \in Table /\ SlotPids(r) /\ DOMAIN r = DOMAIN processes
      /\ r = [i \in DOMAIN processes |-> r[i]]
      /\ \A i \in DOMAIN processes : ~ IsSome(processes, i) => r[i] = None
      /\ \A i \in DOMAIN processes : IsSome(processes, i) =>
            /\ r[i] \in Process /\ r[i].pid = i
            /\ r[i].parent_pid = processes[i].parent_pid
            /\ r[i].children = processes[i].children
            /\ r[i].state # "Running"
    BY PreemptedFacts
<1>2. next_pid' = next_pid /\ current_pid \in Nat \cup {None}
    BY DEF set_current_process, IInv, TypeOK
<1>. HIDE DEF r
<1>3. CASE processes' = r /\ current_pid' = current_pid
    <2>1. TypeOK' /\ PidsAreSlots' /\ FamilyLinks'
        BY <1>1, <1>2, <1>3, StateStep
    <2>2. RunningIsCurrent'
        BY <1>1, <1>3 DEF RunningIsCurrent, IsSome
    <2>. QED BY <2>1, <2>2 DEF IInv
<1>4. CASE processes' = SetStateAt(r, pid, "Running") /\ current_pid' = pid
    <2>1. /\ processes' = [i \in DOMAIN processes |-> processes'[i]]
          /\ DOMAIN processes' = DOMAIN processes
        BY <1>1, <1>4 DEF SetStateAt
    <2>2. \A i \in DOMAIN r : processes'[i] =
              IF IsSome(r, i) /\ pid = i THEN set_state(r[i], "Running") ELSE r[i]
        BY <1>1, <1>4, SetStatePointwise
    <2>3. \A i \in DOMAIN processes : ~ IsSome(processes, i) => processes'[i] = None
        BY <1>1, <2>2 DEF IsSome
    <2>4. ASSUME NEW i \in DOMAIN processes, IsSome(processes, i)
          PROVE  /\ processes'[i] \in Process /\ processes'[i].pid = i
                 /\ processes'[i].parent_pid = processes[i].parent_pid
                 /\ processes'[i].children = processes[i].children
                 /\ processes'[i].state = "Running" => i = pid
        <3>1. r[i] \in Process /\ IsSome(r, i)
            BY <1>1, <2>4, NoneIsNoProcess DEF IsSome
        <3>2. CASE pid = i
            <4>1. processes'[i] = set_state(r[i], "Running")
                BY <1>1, <2>2, <3>1, <3>2
            <4>2. "Running" \in States
                BY DEF States
            <4>3. /\ processes'[i] \in Process /\ processes'[i].pid = r[i].pid
                  /\ processes'[i].parent_pid = r[i].parent_pid
                  /\ processes'[i].children = r[i].children
                BY <3>1, <4>1, <4>2, SetStateFacts
            <4>. QED BY <1>1, <2>4, <3>2, <4>3
        <3>3. CASE pid # i
            <4>1. processes'[i] = r[i]
                BY <1>1, <2>2, <3>3
            <4>. QED BY <1>1, <2>4, <4>1
        <3>. QED BY <3>2, <3>3
    <2>5. TypeOK' /\ PidsAreSlots' /\ FamilyLinks'
        BY <1>2, <1>4, <2>1, <2>3, <2>4, StateStep
    <2>6. RunningIsCurrent'
        BY <1>4, <2>1, <2>3, <2>4 DEF RunningIsCurrent, IsSome
    <2>. QED BY <2>5, <2>6 DEF IInv
<1>. QED BY <1>3, <1>4 DEF set_current_process, r

\* set_state and terminate through get_process_mut: s is never Running here.
LEMMA SetProcessStateStep ==
    ASSUME IInv, NEW pid, NEW s \in States \ {"Running"}, set_process_state(pid, s)
    PROVE  IInv'
<1>1. processes \in Table /\ SlotPids(processes)
    BY IInvTable
<1>2. /\ processes' = [i \in DOMAIN processes |-> processes'[i]]
      /\ DOMAIN processes' = DOMAIN processes
      /\ next_pid' = next_pid /\ current_pid' = current_pid
      /\ current_pid \in Nat \cup {None}
    BY DEF set_process_state, SetStateAt, IInv, TypeOK
<1>3. \A i \in DOMAIN processes : processes'[i] =
          IF IsSome(processes, i) /\ pid = i THEN set_state(processes[i], s) ELSE processes[i]
    BY <1>1, SetStatePointwise DEF set_process_state
<1>4. \A i \in DOMAIN processes : ~ IsSome(processes, i) => processes'[i] = None
    BY <1>3 DEF IsSome
<1>5. ASSUME NEW i \in DOMAIN processes, IsSome(processes, i)
      PROVE  /\ processes'[i] \in Process /\ processes'[i].pid = i
             /\ processes'[i].parent_pid = processes[i].parent_pid
             /\ processes'[i].children = processes[i].children
             /\ processes'[i].state = "Running" => current_pid = i
    <2>1. processes[i] \in Process /\ processes[i].pid = i
        BY <1>1, <1>5, SomeIsProcess DEF SlotPids
    <2>2. CASE pid = i
        <3>1. processes'[i] = set_state(processes[i], s)
            BY <1>3, <1>5, <2>2
        <3>. QED BY <2>1, <3>1, SetStateFacts
    <2>3. CASE pid # i
        <3>1. processes'[i] = processes[i]
            BY <1>3, <2>3
        <3>. QED BY <1>5, <2>1, <3>1 DEF IInv, RunningIsCurrent
    <2>. QED BY <2>2, <2>3
<1>6. TypeOK' /\ PidsAreSlots' /\ FamilyLinks'
    BY <1>2, <1>4, <1>5, StateStep
<1>7. RunningIsCurrent'
    BY <1>2, <1>4, <1>5 DEF RunningIsCurrent, IsSome
<1>. QED BY <1>6, <1>7 DEF IInv

LEMMA TerminateStep ==
    ASSUME IInv, NEW pid, NEW code \in ExitCodes, terminate_process(pid, code)
    PROVE  IInv'
<1>1. processes \in Table /\ SlotPids(processes)
    BY IInvTable
<1>2. /\ processes' = [i \in DOMAIN processes |-> processes'[i]]
      /\ DOMAIN processes' = DOMAIN processes
      /\ next_pid' = next_pid /\ current_pid' = current_pid
      /\ current_pid \in Nat \cup {None}
    BY DEF terminate_process, TerminateAt, IInv, TypeOK
<1>3. \A i \in DOMAIN processes : processes'[i] =
          IF IsSome(processes, i) /\ i \in {pid} THEN terminate(processes[i], code)
          ELSE processes[i]
    BY <1>1, TerminatePointwise DEF terminate_process
<1>4. \A i \in DOMAIN processes : ~ IsSome(processes, i) => processes'[i] = None
    BY <1>3 DEF IsSome
<1>5. ASSUME NEW i \in DOMAIN processes, IsSome(processes, i)
      PROVE  /\ processes'[i] \in Process /\ processes'[i].pid = i
             /\ processes'[i].parent_pid = processes[i].parent_pid
             /\ processes'[i].children = processes[i].children
             /\ processes'[i].state = "Running" => current_pid = i
    <2>1. processes[i] \in Process /\ processes[i].pid = i
        BY <1>1, <1>5, SomeIsProcess DEF SlotPids
    <2>2. CASE pid = i
        <3>1. processes'[i] = terminate(processes[i], code)
            BY <1>3, <1>5, <2>2
        <3>. QED BY <2>1, <3>1, TerminateFacts
    <2>3. CASE pid # i
        <3>1. processes'[i] = processes[i]
            BY <1>3, <2>3
        <3>. QED BY <1>5, <2>1, <3>1 DEF IInv, RunningIsCurrent
    <2>. QED BY <2>2, <2>3
<1>6. TypeOK' /\ PidsAreSlots' /\ FamilyLinks'
    BY <1>2, <1>4, <1>5, StateStep
<1>7. RunningIsCurrent'
    BY <1>2, <1>4, <1>5 DEF RunningIsCurrent, IsSome
<1>. QED BY <1>6, <1>7 DEF IInv

LEMMA UnchangedStep ==
    ASSUME IInv, UNCHANGED <<processes, next_pid, current_pid>>
    PROVE  IInv'
BY DEF IInv, TypeOK, PidsAreSlots, RunningIsCurrent, FamilyLinks, IsSome

LEMMA InitIInv == Init => IInv
<1> SUFFICES ASSUME Init PROVE IInv
    OBVIOUS
<1>1. /\ processes = << >> /\ next_pid = 1 /\ current_pid = None
      /\ << >> \in Seq(Process \cup {None}) /\ Len(<< >>) = 0 /\ DOMAIN << >> = {}
    BY DEF Init
<1>. QED
    BY <1>1, TableAssumption DEF IInv, TypeOK, PidsAreSlots, RunningIsCurrent, FamilyLinks

\* One step of the table, whichever operation it is.
LEMMA NextIInv == IInv /\ [Next]_tableVars => IInv'
<1> SUFFICES ASSUME IInv, [Next]_tableVars PROVE IInv'
    OBVIOUS
<1>a. PidArgs \subseteq Nat /\ Priorities \subseteq 0..3
    BY TableAssumption DEF PidArgs
<1>1. CASE \E parent \in PidArgs \cup {None}, p \in Priorities : create_process(parent, p)
    BY <1>1, <1>a, CreateStep
<1>2. CASE \E pid \in PidArgs : remove_process(pid)
    BY <1>2, RemoveStep DEF remove_process
<1>3. CASE \E pid \in PidArgs \cup {None} : set_current_process(pid)
    BY <1>3, <1>a, SetCurrentStep
<1>4. CASE \E pid \in PidArgs, s \in {"Ready", "Blocked"} : set_process_state(pid, s)
    <2>1. {"Ready", "Blocked"} \subseteq States \ {"Running"}
        BY DEF States
    <2>. QED BY <1>4, <2>1, SetProcessStateStep
<1>5. CASE \E pid \in PidArgs, code \in ExitCodes : terminate_process(pid, code)
    BY <1>5, TerminateStep
<1>6. CASE cleanup_zombies
    BY <1>6, UnchangedStep DEF cleanup_zombies
<1>7. CASE CleanupNext
    BY <1>7, RemoveStep DEF CleanupNext
<1>8. CASE UNCHANGED tableVars
    BY <1>8, UnchangedStep DEF tableVars
<1>. QED
    BY <1>1, <1>2, <1>3, <1>4, <1>5, <1>6, <1>7, <1>8 DEF Next

\* For every table size: the invariant holds in every reachable state of the table.
THEOREM IInvInvariant == Spec => []IInv
BY InitIInv, NextIInv, PTL DEF Spec

\* Every reachable table is well typed and never outgrows MAX_PROCESSES.
THEOREM TypeCorrect == Spec => []TypeOK
<1>1. IInv => TypeOK
    BY DEF IInv
<1>. QED BY <1>1, IInvInvariant, PTL

\* No pid is ever handed out twice and every search by pid has at most one match.
THEOREM PidsAreUnique == Spec => []PidsAreSlots
<1>1. IInv => PidsAreSlots
    BY DEF IInv
<1>. QED BY <1>1, IInvInvariant, PTL

\* Whatever sequence of calls is made, at most current_pid is Running.
THEOREM OneRunningProcess == Spec => []RunningIsCurrent
<1>1. IInv => RunningIsCurrent
    BY DEF IInv
<1>. QED BY <1>1, IInvInvariant, PTL

\* Parent and child links always agree, and every child is younger than its parent.
THEOREM LinksAgree == Spec => []FamilyLinks
<1>1. IInv => FamilyLinks
    BY DEF IInv
<1>. QED BY <1>1, IInvInvariant, PTL

-----------------------------------------------------------------------------
\* What IdentityIsStable says of the table before and after a step
SameIdentity(ps, r) ==
    \A i \in DOMAIN ps :
        /\ i \in DOMAIN r
        /\ ~ IsSome(ps, i) => ~ IsSome(r, i)
        /\ IsSome(ps, i) /\ IsSome(r, i) =>
              /\ r[i].pid = ps[i].pid
              /\ r[i].parent_pid = ps[i].parent_pid
              /\ r[i].priority = ps[i].priority

LEMMA SameIdentityTrans ==
    ASSUME NEW a, NEW b, NEW c, SameIdentity(a, b), SameIdentity(b, c)
    PROVE  SameIdentity(a, c)
BY DEF SameIdentity

LEMMA AddChildSame ==
    ASSUME NEW ps \in Table, NEW parent, NEW pid \in Nat
    PROVE  /\ SameIdentity(ps, AddChildAt(ps, parent, pid))
           /\ AddChildAt(ps, parent, pid) \in Table
           /\ Len(AddChildAt(ps, parent, pid)) = Len(ps)
<1> DEFINE r == AddChildAt(ps, parent, pid)
<1>1. DOMAIN r = DOMAIN ps
    BY DEF AddChildAt
<1>2. ASSUME NEW i \in DOMAIN ps, ~ IsSome(ps, i) PROVE r[i] = ps[i]
    BY <1>2 DEF AddChildAt, Hit
<1>3. ASSUME NEW i \in DOMAIN ps, IsSome(ps, i)
      PROVE  /\ r[i] \in Process /\ r[i].pid = ps[i].pid
             /\ r[i].parent_pid = ps[i].parent_pid /\ r[i].priority = ps[i].priority
    <2>1. ps[i] \in Process
        BY <1>3, SomeIsProcess
    <2>2. r[i] \in {ps[i], add_child(ps[i], pid)}
        BY DEF AddChildAt
    <2>. QED BY <2>1, <2>2, AddChildFacts
<1>5. r = [i \in DOMAIN ps |-> r[i]]
    BY DEF AddChildAt
<1> HIDE DEF r
<1>4. SameIdentity(ps, r)
    BY <1>1, <1>2, <1>3 DEF SameIdentity, IsSome
<1>6. r \in Table /\ Len(r) = Len(ps)
    BY <1>2, <1>3, <1>5, SomeIsProcess, TableByPoint
<1>. QED BY <1>4, <1>6 DEF r

\* Changing the states of processes, in any way, keeps a table with the same identities.
LEMMA StatesSame ==
    ASSUME NEW ps \in Table, NEW r, r = [i \in DOMAIN ps |-> r[i]],
           \A i \in DOMAIN ps : ~ IsSome(ps, i) => r[i] = ps[i],
           \A i \in DOMAIN ps : IsSome(ps, i) =>
               \/ r[i] = ps[i]
               \/ \E s \in States : r[i] = set_state(ps[i], s)
               \/ \E code \in ExitCodes : r[i] = terminate(ps[i], code)
    PROVE  SameIdentity(ps, r) /\ r \in Table
<1>1. ASSUME NEW i \in DOMAIN ps, IsSome(ps, i)
      PROVE  /\ r[i] \in Process /\ r[i].pid = ps[i].pid
             /\ r[i].parent_pid = ps[i].parent_pid /\ r[i].priority = ps[i].priority
    <2>1. ps[i] \in Process
        BY <1>1, SomeIsProcess
    <2>. QED BY <1>1, <2>1, SetStateFacts, TerminateFacts
<1>2. \A i \in DOMAIN ps : r[i] \in Process \cup {None}
    BY <1>1, SomeIsProcess
<1>3. r \in Table /\ DOMAIN r = DOMAIN ps
    BY <1>2, TableByPoint
<1>4. SameIdentity(ps, r)
    BY <1>1, <1>3 DEF SameIdentity, IsSome
<1>. QED BY <1>3, <1>4

LEMMA PreemptedSame ==
    ASSUME processes \in Table
    PROVE  SameIdentity(processes, Preempted(processes)) /\ Preempted(processes) \in Table
<1>1. "Ready" \in States
    BY DEF States
<1>2. Preempted(processes) = [i \in DOMAIN processes |-> Preempted(processes)[i]]
    BY DEF Preempted
<1>3. \A i \in DOMAIN processes :
        /\ ~ IsSome(processes, i) => Preempted(processes)[i] = processes[i]
        /\ Preempted(processes)[i] \in {processes[i], set_state(processes[i], "Ready")}
    BY DEF Preempted, Hit
<1>. QED BY <1>1, <1>2, <1>3, StatesSame

LEMMA SetStateSame ==
    ASSUME NEW ps \in Table, NEW pid, NEW s \in States
    PROVE  SameIdentity(ps, SetStateAt(ps, pid, s))
<1>1. SetStateAt(ps, pid, s) = [i \in DOMAIN ps |-> SetStateAt(ps, pid, s)[i]]
    BY DEF SetStateAt
<1>2. \A i \in DOMAIN ps :
        /\ ~ IsSome(ps, i) => SetStateAt(ps, pid, s)[i] = ps[i]
        /\ SetStateAt(ps, pid, s)[i] \in {ps[i], set_state(ps[i], s)}
    BY DEF SetStateAt, Hit
<1>. QED BY <1>1, <1>2, StatesSame

LEMMA TerminateSame ==
    ASSUME NEW ps \in Table, NEW pids, NEW code \in ExitCodes
    PROVE  SameIdentity(ps, TerminateAt(ps, pids, code))
<1>1. TerminateAt(ps, pids, code) = [i \in DOMAIN ps |-> TerminateAt(ps, pids, code)[i]]
    BY DEF TerminateAt
<1>2. \A i \in DOMAIN ps :
        /\ ~ IsSome(ps, i) => TerminateAt(ps, pids, code)[i] = ps[i]
        /\ TerminateAt(ps, pids, code)[i] \in {ps[i], terminate(ps[i], code)}
    BY DEF TerminateAt, Hit
<1>. QED BY <1>1, <1>2, StatesSame

\* A removal empties one slot and keeps the identity of all others.
LEMMA RemovedSame ==
    ASSUME IInv, NEW k \in DOMAIN processes, NEW pid, Hit(processes, k, pid),
           processes' = Removed(processes, k, pid)
    PROVE  SameIdentity(processes, processes')
<1>1. pid = k /\ IsSome(processes, k)
    BY IInvTable, HitIsSlot
<1>2. RemovedShape(processes, k, processes')
    BY <1>1, IInvTable, RemovedPointwise
<1>3. \A i \in DOMAIN processes : IsSome(processes, i) => processes[i].pid = i
    BY IInvTable DEF SlotPids
<1>4. DOMAIN processes' = DOMAIN processes /\ processes'[k] = None
    BY <1>2 DEF RemovedShape
<1>. QED BY <1>2, <1>3, <1>4 DEF RemovedShape, SameIdentity, IsSome

LEMMA IdentityStep == IInv /\ [Next]_tableVars => [SameIdentity(processes, processes')]_tableVars
<1> SUFFICES ASSUME IInv, Next PROVE SameIdentity(processes, processes')
    BY DEF tableVars
<1>t. processes \in Table /\ PidArgs \subseteq Nat
    BY IInvTable, TableAssumption DEF PidArgs
<1>1. CASE \E parent \in PidArgs \cup {None}, p \in Priorities : create_process(parent, p)
    <2>1. PICK parent, p : create_process(parent, p)
        BY <1>1
    <2> DEFINE old == AddChildAt(processes, parent, next_pid)
               new == NewProcess(next_pid, parent, p)
    <2>2. next_pid \in Nat /\ processes' = Append(old, new)
        BY <2>1, IInvTable DEF create_process, IInv, PidsAreSlots
    <2>3. SameIdentity(processes, old) /\ old \in Seq(Process \cup {None})
        BY <1>t, <2>2, AddChildSame DEF Table
    <2> HIDE DEF old, new
    <2>4. /\ DOMAIN Append(old, new) = 1 .. Len(old) + 1
          /\ \A i \in DOMAIN old : i \in DOMAIN Append(old, new) /\ Append(old, new)[i] = old[i]
        BY <2>3
    <2>5. SameIdentity(old, processes')
        BY <2>2, <2>3, <2>4 DEF SameIdentity, IsSome
    <2>. QED BY <2>3, <2>5, SameIdentityTrans
<1>2. CASE (\E pid \in PidArgs : remove_process(pid)) \/ CleanupNext
    BY <1>2, RemovedSame DEF remove_process, CleanupNext
<1>3. CASE \E pid \in PidArgs \cup {None} : set_current_process(pid)
    <2>1. "Running" \in States
        BY DEF States
    <2>. QED BY <1>3, <1>t, <2>1, PreemptedSame, SetStateSame, SameIdentityTrans
         DEF set_current_process
<1>4. CASE \E pid \in PidArgs, s \in {"Ready", "Blocked"} : set_process_state(pid, s)
    <2>1. {"Ready", "Blocked"} \subseteq States
        BY DEF States
    <2>. QED BY <1>4, <1>t, <2>1, SetStateSame DEF set_process_state
<1>5. CASE \E pid \in PidArgs, code \in ExitCodes : terminate_process(pid, code)
    BY <1>5, <1>t, TerminateSame DEF terminate_process
<1>6. CASE cleanup_zombies
    BY <1>6 DEF cleanup_zombies, SameIdentity
<1>. QED BY <1>1, <1>2, <1>3, <1>4, <1>5, <1>6 DEF Next

\* Whatever sequence of calls is made, for every table size: a removed process never comes
\* back, and a live one keeps its pid, its parent and its priority.
THEOREM IdentitiesAreStable == Spec => IdentityIsStable
<1>1. Spec => [][SameIdentity(processes, processes')]_tableVars
    BY InitIInv, NextIInv, IdentityStep, PTL DEF Spec
<1>. QED BY <1>1 DEF IdentityIsStable, SameIdentity
-----------------------------------------------------------------------------
(* The scheduler.  A process that cannot run does not become runnable while a call searches. *)
Dead(ps, pid) == pid \in DOMAIN ps /\ (IsSome(ps, pid) => ps[pid].state \notin RunnableStates)

CallRecord ==
    [pc : {"idle", "snapshot", "fill", "scan", "current", "set", "notify"},
     list : Seq(Nat), idx : Nat, start : Nat, choice : Nat \cup {None}]

InTable(s) == \A k \in 1..Len(s) : s[k] \in DOMAIN processes

\* the process at position j of the list, counted from 0, cannot run
DeadAt(j) == Dead(processes, call.list[j + 1])

\* What a search has left behind it cannot run: in round robin everything from `start' to the
\* index, or, once the index has wrapped, all but what lies between the index and `start'.
Searching ==
    LET n == Len(call.list) IN
    /\ n > 0
    /\ algorithm = "RoundRobin" =>
          /\ call.idx >= call.start =>
                \A j \in 0..(n - 1) : call.start <= j /\ j < call.idx => DeadAt(j)
          /\ call.idx < call.start /\ call.start <= n =>
                \A j \in 0..(n - 1) : j < call.idx \/ j >= call.start => DeadAt(j)
    /\ algorithm # "RoundRobin" =>
          /\ call.idx < n
          /\ call.choice = None => \A j \in 0..(n - 1) : j < call.idx => DeadAt(j)

SchedInv ==
    /\ IInv
    /\ call \in CallRecord /\ last_scheduled_index \in Nat
    /\ algorithm \in {"RoundRobin", "Priority", "CompletelyFair"}
    /\ InTable(call.list)
    /\ call.pc = "fill" =>
          /\ algorithm = "Priority"
          /\ priority_queues \in [Levels -> Seq(Nat)]
          /\ \A l \in Levels : InTable(priority_queues[l])
    /\ call.pc = "scan" => Searching
    /\ call.pc = "current" /\ call.choice = None => \A j \in 0..(Len(call.list) - 1) : DeadAt(j)

LEMMA RunnableIsSlot ==
    ASSUME IInv, NEW pid
    PROVE  Runnable(pid) <=> /\ pid \in DOMAIN processes /\ IsSome(processes, pid)
                             /\ processes[pid].state \in RunnableStates
<1>1. \A i \in DOMAIN processes : Hit(processes, i, pid) <=> IsSome(processes, i) /\ pid = i
    BY IInvTable, HitIsSlot
<1>2. Exists(processes, pid) <=> pid \in DOMAIN processes /\ IsSome(processes, pid)
    BY <1>1 DEF Exists
<1>3. Exists(processes, pid) => get_process(pid) = processes[pid]
    <2> SUFFICES ASSUME Exists(processes, pid) PROVE get_process(pid) = processes[pid]
        OBVIOUS
    <2> DEFINE c == CHOOSE i \in DOMAIN processes : Hit(processes, i, pid)
    <2>1. c \in DOMAIN processes /\ Hit(processes, c, pid)
        BY Zenon DEF Exists
    <2>2. c = pid
        BY <1>1, <2>1
    <2>. QED BY <2>2, Zenon DEF get_process
<1>. QED BY <1>2, <1>3 DEF Runnable, is_runnable

LEMMA DeadIsNotRunnable ==
    ASSUME IInv, NEW pid
    PROVE  /\ Dead(processes, pid) => ~ Runnable(pid)
           /\ pid \in DOMAIN processes /\ ~ Runnable(pid) => Dead(processes, pid)
BY RunnableIsSlot DEF Dead

\* The table operations of other contexts keep the table's invariant and revive nobody.
LEMMA OthersRevive ==
    ASSUME IInv, NEW ops, OtherContext(ops)
    PROVE  /\ IInv' /\ DOMAIN processes \subseteq DOMAIN processes'
           /\ \A pid : Dead(processes, pid) => Dead(processes', pid)
<1>0. processes \in Table /\ SlotPids(processes) /\ current_pid \in Nat \cup {None}
    BY IInvTable DEF IInv, TypeOK
<1>1. ASSUME NEW parent \in {None, current_pid}, NEW p \in Priorities, create_process(parent, p)
      PROVE  /\ IInv' /\ DOMAIN processes \subseteq DOMAIN processes'
             /\ \A pid : Dead(processes, pid) => Dead(processes', pid)
    <2> DEFINE old == AddChildAt(processes, parent, next_pid)
               new == NewProcess(next_pid, parent, p)
    <2>1. p \in 0..3 /\ parent \in Nat \cup {None}
        BY <1>0, TableAssumption
    <2>2. IInv'
        BY <1>1, <2>1, CreateStep
    <2>3. processes' = Append(old, new) /\ next_pid \in Nat
        BY <1>1 DEF create_process, IInv, TypeOK
    <2>4. old \in Table /\ DOMAIN old = DOMAIN processes
        BY <1>0, <2>3, AddChildSame DEF AddChildAt
    <2>5. \A i \in DOMAIN processes : IsSome(processes, i) =>
            IsSome(old, i) /\ old[i].state = processes[i].state
        <3> SUFFICES ASSUME NEW i \in DOMAIN processes, IsSome(processes, i)
                     PROVE  IsSome(old, i) /\ old[i].state = processes[i].state
            OBVIOUS
        <3>1. processes[i] \in Process
            BY <1>0, SomeIsProcess
        <3>2. old[i] = processes[i] \/ old[i] = add_child(processes[i], next_pid)
            BY <1>0, AddChildPointwise
        <3>3. add_child(processes[i], next_pid) \in Process
              /\ add_child(processes[i], next_pid).state = processes[i].state
            BY <2>3, <3>1, AddChildFacts
        <3>. QED BY <3>1, <3>2, <3>3, NoneIsNoProcess DEF IsSome
    <2>6. \A i \in DOMAIN processes : ~ IsSome(processes, i) => ~ IsSome(old, i)
        BY <1>0, AddChildPointwise DEF IsSome
    <2> HIDE DEF old, new
    <2>7. \A i \in DOMAIN old : i \in DOMAIN Append(old, new) /\ Append(old, new)[i] = old[i]
        BY <2>4 DEF Table
    <2>8. \A i \in DOMAIN processes : i \in DOMAIN processes' /\ processes'[i] = old[i]
        BY <2>3, <2>4, <2>7
    <2>. QED BY <2>2, <2>5, <2>6, <2>8, Zenon DEF Dead, IsSome
<1>2. ASSUME NEW k \in DOMAIN processes, NEW pid, Hit(processes, k, pid),
             processes' = Removed(processes, k, pid), next_pid' = next_pid, current_pid' = current_pid
      PROVE  /\ IInv' /\ DOMAIN processes \subseteq DOMAIN processes'
             /\ \A q : Dead(processes, q) => Dead(processes', q)
    <2>1. IInv'
        BY <1>2, RemoveStep
    <2>2. pid = k /\ IsSome(processes, k)
        BY <1>0, <1>2, HitIsSlot
    <2>3. RemovedShape(processes, k, processes')
        BY <1>0, <1>2, <2>2, RemovedPointwise
    <2>4. DOMAIN processes' = DOMAIN processes /\ processes'[k] = None
        BY <2>3 DEF RemovedShape
    <2>5. \A i \in DOMAIN processes \ {k} :
            /\ ~ IsSome(processes, i) => processes'[i] = None
            /\ IsSome(processes, i) => processes'[i].state \in {"Zombie", processes[i].state}
        BY <2>3 DEF RemovedShape
    <2>6. "Zombie" \notin RunnableStates
        BY DEF RunnableStates
    <2>. QED BY <2>1, <2>4, <2>5, <2>6 DEF Dead, IsSome
<1>3. CASE \E pid \in PidArgs : remove_process(pid)
    BY <1>2, <1>3 DEF remove_process
<1>4. CASE CleanupNext
    BY <1>2, <1>4 DEF CleanupNext
<1>5. CASE cleanup_zombies
    <2>1. IInv' /\ processes' = processes
        BY <1>5, UnchangedStep DEF cleanup_zombies
    <2>. QED BY <2>1
<1>. QED BY <1>1, <1>3, <1>4, <1>5 DEF OtherContext

\* The pids of a snapshot are those of processes of the table.
LEMMA PidsInFacts ==
    ASSUME IInv, NEW states
    PROVE  /\ PidsIn(processes, states) \in Seq(Nat)
           /\ InTable(PidsIn(processes, states))
<1> DEFINE ix == {i \in DOMAIN processes : IsSome(processes, i) /\ processes[i].state \in states}
           live == Picked(processes, ix)
           n == Cardinality(ix)
           s == PidsIn(processes, states)
<1>1. /\ processes \in Table /\ SlotPids(processes)
      /\ DOMAIN processes = 1..Len(processes) /\ Len(processes) \in Nat
    BY IInvTable
<1>2. ix \in SUBSET (1..Len(processes))
    BY <1>1
<1>3. \A i \in ix : processes[i].pid = i
    BY <1>1 DEF SlotPids
<1>4. s = [k \in DOMAIN live |-> live[k].pid]
    BY DEF PidsIn
<1> HIDE DEF ix
<1>5. /\ live \in Table /\ Len(live) = n /\ n \in Nat
      /\ \A k \in 1..n : Ascending(ix)[k] \in ix /\ live[k] = processes[Ascending(ix)[k]]
    BY <1>1, <1>2, PickedFacts DEF Table
<1> HIDE DEF live, n, s
<1>6. DOMAIN live = 1..n
    BY <1>5 DEF Table
<1>7. s \in [1..n -> Nat] /\ \A k \in 1..n : s[k] \in DOMAIN processes
    <2>1. \A k \in 1..n : live[k].pid \in ix
        BY <1>3, <1>5
    <2>2. \A k \in 1..n : live[k].pid \in 1..Len(processes) /\ live[k].pid \in Nat
        <3>1. \A x \in ix : x \in 1..Len(processes)
            BY <1>2
        <3>2. \A x \in 1..Len(processes) : x \in Nat
            BY <1>1
        <3>. QED BY <2>1, <3>1, <3>2
    <2>3. s = [k \in 1..n |-> live[k].pid]
        BY <1>4, <1>6
    <2>. QED BY <1>1, <2>2, <2>3
<1>8. s \in Seq(Nat) /\ Len(s) = n
    BY <1>5, <1>7
<1>. QED BY <1>7, <1>8 DEF InTable, s

\* A step that leaves the table alone and ends or does not start a search
LEMMA QuietCall ==
    ASSUME SchedInv, IInv', DOMAIN processes \subseteq DOMAIN processes',
           call' \in CallRecord, last_scheduled_index' \in Nat,
           algorithm' \in {"RoundRobin", "Priority", "CompletelyFair"},
           call'.list \in {call.list, << >>}, call'.pc \in {"idle", "snapshot", "set", "notify"}
    PROVE  SchedInv'
<1>1. InTable(call.list)'
    <2>1. CASE call'.list = call.list
        BY <2>1 DEF SchedInv, InTable
    <2>2. CASE call'.list = << >>
        <3>1. Len(call'.list) = 0
            BY <2>2
        <3>2. \A k \in 1..Len(call'.list) : FALSE
            BY <3>1
        <3>. QED BY <3>2 DEF InTable
    <2>. QED BY <2>1, <2>2
<1>. QED BY <1>1 DEF SchedInv

LEMMA SnapshotStep ==
    ASSUME SchedInv, Snapshot
    PROVE  SchedInv'
<1> DEFINE list == get_runnable_processes
<1>1. /\ UNCHANGED <<processes, next_pid, current_pid, algorithm, last_scheduled_index>>
      /\ priority_queues' = QueuesAtStart
      /\ call' = [call EXCEPT !.list = list,
                              !.idx = IF algorithm = "RoundRobin" THEN last_scheduled_index ELSE 0,
                              !.start = last_scheduled_index,
                              !.pc = CASE algorithm = "Priority" -> "fill"
                                       [] algorithm # "Priority" /\ list = << >> -> "current"
                                       [] OTHER -> "scan"]
    BY DEF Snapshot, tableVars, SchedInv, CallRecord
<1>2. IInv /\ call \in CallRecord /\ last_scheduled_index \in Nat
      /\ algorithm \in {"RoundRobin", "Priority", "CompletelyFair"}
    BY DEF SchedInv
<1>3. list \in Seq(Nat) /\ InTable(list)
    BY <1>2, PidsInFacts DEF get_runnable_processes
<1> HIDE DEF list
<1>4. /\ call' \in CallRecord /\ call'.list = list /\ call'.start = last_scheduled_index
      /\ call'.choice = call.choice
      /\ call'.idx = IF algorithm = "RoundRobin" THEN last_scheduled_index ELSE 0
      /\ algorithm = "Priority" => call'.pc = "fill"
      /\ algorithm # "Priority" /\ list = << >> => call'.pc = "current"
      /\ algorithm # "Priority" /\ list # << >> => call'.pc = "scan"
    <2> DEFINE pc == CASE algorithm = "Priority" -> "fill"
                       [] algorithm # "Priority" /\ list = << >> -> "current"
                       [] OTHER -> "scan"
               idx == IF algorithm = "RoundRobin" THEN last_scheduled_index ELSE 0
    <2>1. /\ algorithm = "Priority" => pc = "fill"
          /\ algorithm # "Priority" /\ list = << >> => pc = "current"
          /\ algorithm # "Priority" /\ list # << >> => pc = "scan"
        BY <1>2
    <2>2. idx \in Nat /\ pc \in {"fill", "current", "scan"}
        BY <1>2, <2>1
    <2>3. call' = [call EXCEPT !.list = list, !.idx = idx, !.start = last_scheduled_index, !.pc = pc]
        BY <1>1
    <2>4. idx = IF algorithm = "RoundRobin" THEN last_scheduled_index ELSE 0
        OBVIOUS
    <2> HIDE DEF pc, idx
    <2>5. /\ call' \in CallRecord /\ call'.list = list /\ call'.start = last_scheduled_index
          /\ call'.choice = call.choice /\ call'.idx = idx /\ call'.pc = pc
        BY <1>2, <1>3, <2>2, <2>3 DEF CallRecord
    <2>. QED BY <2>1, <2>4, <2>5
<1>5. IInv'
    BY <1>1, <1>2, UnchangedStep
<1>6. InTable(call.list)'
    BY <1>1, <1>3, <1>4 DEF InTable
<1>7. CASE algorithm = "Priority"
    <2>1. priority_queues' = NoQueues
        BY <1>1, <1>7 DEF QueuesAtStart
    <2>2. priority_queues' \in [Levels -> Seq(Nat)] /\ \A l \in Levels : Len(priority_queues'[l]) = 0
        BY <2>1 DEF NoQueues
    <2>3. \A l \in Levels : InTable(priority_queues[l])'
        BY <2>2 DEF InTable
    <2>. QED BY <1>1, <1>2, <1>4, <1>5, <1>6, <1>7, <2>2, <2>3 DEF SchedInv
<1>8. CASE algorithm # "Priority" /\ list = << >>
    <2>1. Len(call'.list) = 0
        BY <1>4, <1>8
    <2>2. \A j \in 0..(Len(call'.list) - 1) : FALSE
        BY <2>1
    <2>. QED BY <1>1, <1>2, <1>4, <1>5, <1>6, <1>8, <2>2 DEF SchedInv
<1>9. CASE algorithm # "Priority" /\ list # << >>
    <2>1. Len(list) \in Nat /\ Len(list) > 0
        BY <1>3, <1>9
    <2>2. Searching'
        BY <1>1, <1>2, <1>4, <1>9, <2>1 DEF Searching
    <2>. QED BY <1>1, <1>2, <1>4, <1>5, <1>6, <1>9, <2>2 DEF SchedInv
<1>. QED BY <1>7, <1>8, <1>9

LEMMA FillStep ==
    ASSUME SchedInv, FillQueue
    PROVE  SchedInv'
<1>1. /\ UNCHANGED <<processes, next_pid, current_pid, algorithm, last_scheduled_index>>
      /\ call.pc = "fill"
    BY DEF FillQueue, At, tableVars
<1>2. /\ IInv /\ call \in CallRecord /\ last_scheduled_index \in Nat /\ algorithm = "Priority"
      /\ InTable(call.list) /\ priority_queues \in [Levels -> Seq(Nat)]
      /\ \A l \in Levels : InTable(priority_queues[l])
    BY <1>1 DEF SchedInv
<1>3. IInv'
    BY <1>1, <1>2, UnchangedStep
<1>4. call.list \in Seq(Nat) /\ call.idx \in Nat
    BY <1>2 DEF CallRecord
<1>5. CASE call.idx < Len(call.list)
    <2> DEFINE k == call.idx + 1
               pid == call.list[k]
               q == priority_queues
               l == QueueOf(pid)
    <2>1. k \in 1..Len(call.list)
        BY <1>4, <1>5
    <2>2. /\ call' = [call EXCEPT !.idx = k]
          /\ \/ priority_queues' = q
             \/ priority_queues' = [q EXCEPT ![l] = Append(@, pid)]
        BY <1>5 DEF FillQueue
    <2>3. pid \in Nat /\ pid \in DOMAIN processes
        BY <1>2, <1>4, <2>1 DEF InTable
    <2>4. k \in Nat
        BY <1>4
    <2> HIDE DEF k, pid, l
    <2>5. call' \in CallRecord /\ call'.list = call.list /\ call'.pc = "fill"
        BY <1>1, <1>2, <2>2, <2>4 DEF CallRecord
    <2>6. InTable(call.list)'
        BY <1>1, <1>2, <2>5 DEF InTable
    <2>7. /\ priority_queues' \in [Levels -> Seq(Nat)]
          /\ \A m \in Levels : InTable(priority_queues'[m])
        <3>1. CASE priority_queues' = q
            BY <1>2, <3>1
        <3>2. CASE priority_queues' = [q EXCEPT ![l] = Append(@, pid)]
            <4>1. ASSUME NEW m \in Levels
                  PROVE  priority_queues'[m] \in Seq(Nat) /\ InTable(priority_queues'[m])
                <5> DEFINE s == q[m]
                           t == Append(s, pid)
                <5>1. s \in Seq(Nat) /\ InTable(s)
                    BY <1>2
                <5>2. priority_queues'[m] = IF m = l THEN t ELSE s
                    BY <1>2, <3>2
                <5> HIDE DEF s
                <5>3. t \in Seq(Nat) /\ Len(t) = Len(s) + 1 /\ Len(s) \in Nat
                      /\ \A i \in 1..Len(t) : t[i] = IF i = Len(s) + 1 THEN pid ELSE s[i]
                    BY <2>3, <5>1
                <5> HIDE DEF t
                <5>4. \A i \in 1..Len(t) : i \in 1..Len(s) \/ i = Len(s) + 1
                    BY <5>3
                <5>5. \A i \in 1..Len(t) : t[i] \in DOMAIN processes
                    BY <2>3, <5>1, <5>3, <5>4 DEF InTable
                <5>6. InTable(t)
                    BY <5>5 DEF InTable
                <5>. QED BY <5>1, <5>2, <5>3, <5>6
            <4>2. priority_queues' = [m \in Levels |-> priority_queues'[m]]
                BY <1>2, <3>2
            <4>. QED BY <4>1, <4>2
        <3>. QED BY <2>2, <3>1, <3>2
    <2>8. \A m \in Levels : InTable(priority_queues[m])'
        BY <1>1, <2>7 DEF InTable
    <2>. QED BY <1>1, <1>2, <1>3, <2>5, <2>6, <2>7, <2>8 DEF SchedInv
<1>6. CASE ~ (call.idx < Len(call.list))
    <2> DEFINE all == SearchOrder(priority_queues)
    <2>1. call' = [call EXCEPT !.list = all, !.idx = 0,
                               !.pc = IF all = << >> THEN "current" ELSE "scan"]
        BY <1>6 DEF FillQueue
    <2>2. all \in Seq(Nat) /\ InTable(all)
        <3>1. ASSUME NEW s \in Seq(Nat), NEW t \in Seq(Nat), InTable(s), InTable(t)
              PROVE  s \o t \in Seq(Nat) /\ InTable(s \o t)
            <4> DEFINE u == s \o t
            <4>1. /\ u \in Seq(Nat) /\ Len(u) = Len(s) + Len(t) /\ Len(s) \in Nat /\ Len(t) \in Nat
                  /\ \A i \in 1..Len(s) : u[i] = s[i]
                  /\ \A i \in 1..Len(t) : u[Len(s) + i] = t[i]
                OBVIOUS
            <4> HIDE DEF u
            <4>2. ASSUME NEW i \in 1..Len(u) PROVE u[i] \in DOMAIN processes
                <5>1. CASE i <= Len(s)
                    <6>1. i \in 1..Len(s)
                        BY <4>1, <5>1
                    <6>. QED BY <3>1, <4>1, <6>1 DEF InTable
                <5>2. CASE i > Len(s)
                    <6> DEFINE j == i - Len(s)
                    <6>1. j \in 1..Len(t) /\ Len(s) + j = i
                        BY <4>1, <5>2
                    <6> HIDE DEF j
                    <6>2. u[i] = t[j] /\ t[j] \in DOMAIN processes
                        BY <3>1, <4>1, <6>1 DEF InTable
                    <6>. QED BY <6>2
                <5>. QED BY <4>1, <5>1, <5>2
            <4>3. InTable(u)
                BY <4>2 DEF InTable
            <4>. QED BY <4>1, <4>3 DEF u
        <3> DEFINE a == priority_queues[0]
                   b == priority_queues[1]
                   c == priority_queues[2]
                   d == priority_queues[3]
        <3>2. {0, 1, 2, 3} \subseteq Levels
            BY DEF Levels
        <3>3. /\ a \in Seq(Nat) /\ b \in Seq(Nat) /\ c \in Seq(Nat) /\ d \in Seq(Nat)
              /\ InTable(a) /\ InTable(b) /\ InTable(c) /\ InTable(d)
            BY <1>2, <3>2
        <3>4. all = ((a \o b) \o c) \o d
            BY DEF SearchOrder
        <3> HIDE DEF a, b, c, d, all
        <3>5. a \o b \in Seq(Nat) /\ InTable(a \o b)
            BY <3>1, <3>3
        <3>6. (a \o b) \o c \in Seq(Nat) /\ InTable((a \o b) \o c)
            BY <3>1, <3>3, <3>5
        <3>7. ((a \o b) \o c) \o d \in Seq(Nat) /\ InTable(((a \o b) \o c) \o d)
            BY <3>1, <3>3, <3>6
        <3>. QED BY <3>4, <3>7
    <2> HIDE DEF all
    <2>3. /\ call' \in CallRecord /\ call'.list = all /\ call'.idx = 0
          /\ call'.choice = call.choice
          /\ all = << >> => call'.pc = "current"
          /\ all # << >> => call'.pc = "scan"
        BY <1>2, <2>1, <2>2 DEF CallRecord
    <2>4. InTable(call.list)'
        BY <1>1, <2>2, <2>3 DEF InTable
    <2>5. CASE all = << >>
        <3>1. Len(call'.list) = 0
            BY <2>3, <2>5
        <3>2. \A j \in 0..(Len(call'.list) - 1) : FALSE
            BY <3>1
        <3>. QED BY <1>1, <1>2, <1>3, <2>3, <2>4, <2>5, <3>2 DEF SchedInv
    <2>6. CASE all # << >>
        <3>1. Len(all) \in Nat /\ Len(all) > 0
            BY <2>2, <2>6
        <3>2. Searching'
            BY <1>1, <1>2, <2>3, <3>1 DEF Searching
        <3>. QED BY <1>1, <1>2, <1>3, <2>3, <2>4, <2>6, <3>2 DEF SchedInv
    <2>. QED BY <2>5, <2>6
<1>. QED BY <1>5, <1>6

\* What a step of a search knows before it looks at the next process
LEMMA AtScan ==
    ASSUME SchedInv, call.pc = "scan"
    PROVE  /\ IInv /\ call \in CallRecord /\ call.list \in Seq(Nat) /\ call.idx \in Nat
           /\ call.start \in Nat /\ Len(call.list) \in Nat /\ Len(call.list) > 0 /\ Searching
           /\ last_scheduled_index \in Nat
           /\ algorithm \in {"RoundRobin", "Priority", "CompletelyFair"}
           /\ InTable(call.list)
           /\ \A j \in 0..(Len(call.list) - 1) :
                call.list[j + 1] \in Nat /\ (~ Runnable(call.list[j + 1]) => DeadAt(j))
<1>1. /\ IInv /\ call \in CallRecord /\ Searching /\ InTable(call.list) /\ last_scheduled_index \in Nat
      /\ algorithm \in {"RoundRobin", "Priority", "CompletelyFair"}
    BY DEF SchedInv
<1>2. call.list \in Seq(Nat) /\ call.idx \in Nat /\ call.start \in Nat
    BY <1>1 DEF CallRecord
<1>3. Len(call.list) \in Nat /\ Len(call.list) > 0
    BY <1>1, <1>2 DEF Searching
<1>4. \A j \in 0..(Len(call.list) - 1) : j + 1 \in 1..Len(call.list)
    BY <1>3
<1>5. \A k \in 1..Len(call.list) : call.list[k] \in Nat /\ call.list[k] \in DOMAIN processes
    BY <1>1, <1>2 DEF InTable
<1>. QED BY <1>1, <1>2, <1>3, <1>4, <1>5, DeadIsNotRunnable DEF DeadAt

LEMMA RoundRobinSearch ==
    ASSUME SchedInv, RoundRobinStep
    PROVE  SchedInv'
<1> DEFINE n == Len(call.list)
           i == IF call.idx >= n THEN 0 ELSE call.idx
           pid == call.list[i + 1]
<1>1. /\ call.pc = "scan" /\ algorithm = "RoundRobin"
      /\ UNCHANGED <<processes, next_pid, current_pid, algorithm>>
    BY DEF RoundRobinStep, At, tableVars
<1>2. /\ IInv /\ call \in CallRecord /\ call.list \in Seq(Nat) /\ call.idx \in Nat
      /\ call.start \in Nat /\ n \in Nat /\ n > 0 /\ InTable(call.list)
      /\ last_scheduled_index \in Nat /\ Searching
      /\ \A j \in 0..(n - 1) :
            call.list[j + 1] \in Nat /\ (~ Runnable(call.list[j + 1]) => DeadAt(j))
    BY <1>1, AtScan
<1>3. i \in 0..(n - 1) /\ (call.idx >= n => i = 0) /\ (call.idx < n => i = call.idx)
    BY <1>2
<1>4. IInv'
    BY <1>1, <1>2, UnchangedStep
<1>5. CASE Runnable(pid)
    <2>1. last_scheduled_index' = NextIndex(i, n) /\ call' = Chosen(pid)
        BY <1>5 DEF RoundRobinStep
    <2>2. pid \in Nat
        BY <1>2, <1>3
    <2> HIDE DEF i, n, pid
    <2>3. NextIndex(i, n) \in Nat
        BY <1>2, <1>3 DEF NextIndex
    <2>4. /\ call' \in CallRecord /\ call'.list = call.list /\ call'.pc = "current"
          /\ call'.choice = pid
        BY <1>2, <2>1, <2>2 DEF Chosen, CallRecord
    <2>5. call'.choice # None
        BY <2>2, <2>4, TableAssumption
    <2>6. InTable(call.list)'
        BY <1>1, <1>2, <2>4 DEF InTable
    <2>. QED BY <1>1, <1>4, <2>1, <2>3, <2>4, <2>5, <2>6 DEF SchedInv
<1>6. CASE ~ Runnable(pid)
    <2>1. /\ last_scheduled_index' = last_scheduled_index
          /\ call' = [call EXCEPT !.idx = i + 1,
                                  !.pc = IF i + 1 = call.start THEN "current" ELSE "scan"]
        BY <1>6 DEF RoundRobinStep, SearchedAll
    <2>2. DeadAt(i)
        BY <1>2, <1>3, <1>6
    <2>3. /\ call.idx >= call.start =>
                \A j \in 0..(n - 1) : call.start <= j /\ j < call.idx => DeadAt(j)
          /\ call.idx < call.start /\ call.start <= n =>
                \A j \in 0..(n - 1) : j < call.idx \/ j >= call.start => DeadAt(j)
        BY <1>1, <1>2 DEF Searching
    <2> DEFINE m == i + 1
    <2>4. m \in Nat
        BY <1>2, <1>3
    <2>5. /\ call' \in CallRecord /\ call'.list = call.list /\ call'.start = call.start
          /\ call'.idx = m /\ call'.choice = call.choice
          /\ m = call.start => call'.pc = "current"
          /\ m # call.start => call'.pc = "scan"
        <3> HIDE DEF m
        <3>1. call' = [call EXCEPT !.idx = m, !.pc = IF m = call.start THEN "current" ELSE "scan"]
            BY <2>1 DEF m
        <3>. QED BY <1>2, <2>4, <3>1 DEF CallRecord
    <2>6. InTable(call.list)'
        BY <1>1, <1>2, <2>5 DEF InTable
    <2>7. \A j : DeadAt(j) => DeadAt(j)'
        BY <1>1, <2>5 DEF DeadAt
    <2> HIDE DEF i, n
    <2>8. CASE m = call.start
        <3>1. ASSUME NEW j \in 0..(n - 1) PROVE DeadAt(j)
            <4>1. CASE call.idx >= n
                <5>1. i = 0 /\ call.start = 1 /\ call.idx >= call.start
                    BY <1>2, <1>3, <2>8, <4>1
                <5>2. j = 0 \/ (call.start <= j /\ j < call.idx)
                    BY <1>2, <4>1, <5>1
                <5>. QED BY <2>2, <2>3, <5>1, <5>2
            <4>2. CASE call.idx < n
                <5>1. i = call.idx /\ call.idx < call.start /\ call.start <= n
                    BY <1>2, <1>3, <2>8, <4>2
                <5>2. j = i \/ j < call.idx \/ j >= call.start
                    BY <1>2, <2>8, <5>1
                <5>. QED BY <2>2, <2>3, <5>1, <5>2
            <4>. QED BY <1>2, <4>1, <4>2
        <3>2. \A j \in 0..(Len(call'.list) - 1) : DeadAt(j)'
            BY <2>5, <2>7, <3>1 DEF n
        <3>. QED BY <1>1, <1>2, <1>4, <2>1, <2>5, <2>6, <2>8, <3>2 DEF SchedInv
    <2>9. CASE m # call.start
        <3>1. m >= call.start =>
                \A j \in 0..(n - 1) : call.start <= j /\ j < m => DeadAt(j)
            BY <1>2, <1>3, <2>2, <2>3, <2>9
        <3>2. m < call.start /\ call.start <= n =>
                \A j \in 0..(n - 1) : j < m \/ j >= call.start => DeadAt(j)
            BY <1>2, <1>3, <2>2, <2>3, <2>9
        <3>3. Searching'
            BY <1>1, <1>2, <2>5, <2>7, <3>1, <3>2 DEF Searching, n
        <3>. QED BY <1>1, <1>2, <1>4, <2>1, <2>5, <2>6, <2>9, <3>3 DEF SchedInv
    <2>. QED BY <2>8, <2>9
<1>. QED BY <1>5, <1>6

\* The searches of schedule_priority and schedule_cfs go through the list once.
LEMMA OnePassSearch ==
    ASSUME SchedInv, call.pc = "scan", algorithm # "RoundRobin",
           UNCHANGED <<processes, next_pid, current_pid, algorithm, last_scheduled_index>>,
           NEW best \in Nat \cup {None},
           best = None => call.choice = None /\ ~ Runnable(call.list[call.idx + 1]),
           call' = [NextOrNone EXCEPT !.choice = best]
    PROVE  SchedInv'
<1> DEFINE n == Len(call.list)
           m == call.idx + 1
<1>1. /\ IInv /\ call \in CallRecord /\ call.list \in Seq(Nat) /\ call.idx \in Nat
      /\ n \in Nat /\ n > 0 /\ InTable(call.list) /\ last_scheduled_index \in Nat /\ Searching
      /\ algorithm \in {"RoundRobin", "Priority", "CompletelyFair"}
      /\ \A j \in 0..(n - 1) : ~ Runnable(call.list[j + 1]) => DeadAt(j)
    BY AtScan
<1>2. call.idx < n /\ (call.choice = None => \A j \in 0..(n - 1) : j < call.idx => DeadAt(j))
    BY <1>1 DEF Searching
<1>3. m \in Nat
    BY <1>1
<1>4. IInv'
    BY <1>1, UnchangedStep
<1>5. call' = [call EXCEPT !.idx = m, !.choice = best, !.pc = IF m = n THEN "current" ELSE "scan"]
    BY <1>1 DEF NextOrNone, CallRecord
<1>6. best = None => \A j \in 0..(n - 1) : j < m => DeadAt(j)
    <2> SUFFICES ASSUME best = None, NEW j \in 0..(n - 1), j < m PROVE DeadAt(j)
        OBVIOUS
    <2>1. j < call.idx \/ j = call.idx
        BY <1>1
    <2>. QED BY <1>1, <1>2, <2>1
<1> HIDE DEF m, n
<1>7. /\ call' \in CallRecord /\ call'.list = call.list /\ call'.idx = m /\ call'.choice = best
      /\ m = n => call'.pc = "current"
      /\ m # n => call'.pc = "scan"
    BY <1>1, <1>3, <1>5 DEF CallRecord
<1>8. InTable(call.list)'
    BY <1>1, <1>7 DEF InTable
<1>9. \A j : DeadAt(j) => DeadAt(j)'
    BY <1>7 DEF DeadAt
<1>10. CASE m = n
    <2>1. best = None => \A j \in 0..(n - 1) : DeadAt(j)
        BY <1>1, <1>6, <1>10
    <2>2. call'.choice = None => \A j \in 0..(Len(call'.list) - 1) : DeadAt(j)'
        BY <1>7, <1>9, <2>1 DEF n
    <2>. QED BY <1>1, <1>4, <1>7, <1>8, <1>10, <2>2 DEF SchedInv
<1>11. CASE m # n
    <2>1. m < n
        BY <1>1, <1>2, <1>11 DEF m
    <2>2. Searching'
        BY <1>1, <1>6, <1>7, <1>9, <2>1 DEF Searching, n
    <2>. QED BY <1>1, <1>4, <1>7, <1>8, <1>11, <2>2 DEF SchedInv
<1>. QED BY <1>10, <1>11

LEMMA PrioritySearch ==
    ASSUME SchedInv, PriorityStep
    PROVE  SchedInv'
<1> DEFINE pid == call.list[call.idx + 1]
<1>1. /\ call.pc = "scan" /\ algorithm = "Priority"
      /\ UNCHANGED <<processes, next_pid, current_pid, algorithm, last_scheduled_index>>
    BY DEF PriorityStep, At, tableVars
<1>2. /\ IInv /\ call \in CallRecord /\ call.idx \in Nat /\ InTable(call.list) /\ Searching
      /\ Len(call.list) \in Nat /\ last_scheduled_index \in Nat
      /\ \A j \in 0..(Len(call.list) - 1) : call.list[j + 1] \in Nat
    BY <1>1, AtScan
<1>3. call.idx \in 0..(Len(call.list) - 1)
    BY <1>1, <1>2 DEF Searching
<1>4. pid \in Nat /\ pid # None
    BY <1>2, <1>3, TableAssumption
<1>5. CASE Runnable(pid)
    <2>1. call' = Chosen(pid)
        BY <1>5 DEF PriorityStep
    <2> HIDE DEF pid
    <2>2. /\ call' \in CallRecord /\ call'.list = call.list /\ call'.pc = "current"
          /\ call'.choice = pid
        BY <1>2, <1>4, <2>1 DEF Chosen, CallRecord
    <2>3. InTable(call.list)'
        BY <1>1, <1>2, <2>2 DEF InTable
    <2>4. IInv'
        BY <1>1, <1>2, UnchangedStep
    <2>. QED BY <1>1, <1>2, <1>4, <2>2, <2>3, <2>4 DEF SchedInv
<1>6. CASE ~ Runnable(pid)
    <2>1. call' = NextOrNone
        BY <1>6 DEF PriorityStep
    <2>2. call.choice \in Nat \cup {None}
        BY <1>2 DEF CallRecord
    <2>3. NextOrNone = [NextOrNone EXCEPT !.choice = call.choice]
        BY <1>2 DEF NextOrNone, CallRecord
    <2>. QED BY <1>1, <1>6, <2>1, <2>2, <2>3, OnePassSearch
<1>. QED BY <1>5, <1>6

LEMMA CfsSearch ==
    ASSUME SchedInv, CfsStep
    PROVE  SchedInv'
<1> DEFINE pid == call.list[call.idx + 1]
           best == IF call.choice = None /\ Runnable(pid) THEN pid ELSE call.choice
<1>1. /\ call.pc = "scan" /\ algorithm = "CompletelyFair"
      /\ UNCHANGED <<processes, next_pid, current_pid, algorithm, last_scheduled_index>>
      /\ call' = [NextOrNone EXCEPT !.choice = best]
    BY DEF CfsStep, At, tableVars
<1>2. /\ call \in CallRecord /\ call.idx \in Nat /\ Searching /\ Len(call.list) \in Nat
      /\ \A j \in 0..(Len(call.list) - 1) : call.list[j + 1] \in Nat
    BY <1>1, AtScan
<1>3. call.idx \in 0..(Len(call.list) - 1)
    BY <1>1, <1>2 DEF Searching
<1>4. pid \in Nat /\ pid # None
    BY <1>2, <1>3, TableAssumption
<1>5. call.choice \in Nat \cup {None}
    BY <1>2 DEF CallRecord
<1>6. best \in Nat \cup {None} /\ (best = None => call.choice = None /\ ~ Runnable(pid))
    BY <1>4, <1>5
<1> HIDE DEF best
<1>. QED BY <1>1, <1>6, OnePassSearch

LEMMA SwitchStep ==
    ASSUME SchedInv, CompareCurrent \/ Switch \/ Notify
    PROVE  SchedInv'
<1>1. IInv /\ call \in CallRecord /\ last_scheduled_index \in Nat
      /\ algorithm \in {"RoundRobin", "Priority", "CompletelyFair"}
    BY DEF SchedInv
<1>2. UNCHANGED <<algorithm, last_scheduled_index>>
    BY DEF CompareCurrent, Switch, Notify
<1>3. Idle \in CallRecord /\ Idle.list = << >> /\ Idle.pc = "idle"
    <2>1. << >> \in Seq(Nat)
        OBVIOUS
    <2>. QED BY <2>1 DEF Idle, CallRecord
<1>4. /\ call' \in CallRecord /\ call'.list \in {call.list, << >>}
      /\ call'.pc \in {"idle", "snapshot", "set", "notify"}
    <2>1. call' = Idle \/ \E pc \in {"set", "notify"} : call' = [call EXCEPT !.pc = pc]
        BY DEF CompareCurrent, Switch, Notify
    <2>2. ASSUME NEW pc \in {"set", "notify"}, call' = [call EXCEPT !.pc = pc]
          PROVE  call' \in CallRecord /\ call'.list = call.list /\ call'.pc = pc
        BY <1>1, <2>2 DEF CallRecord
    <2>. QED BY <1>3, <2>1, <2>2
<1>5. IInv' /\ DOMAIN processes \subseteq DOMAIN processes'
    <2>1. CASE CompareCurrent \/ Notify
        <3>1. UNCHANGED <<processes, next_pid, current_pid>>
            BY <2>1 DEF CompareCurrent, Notify, tableVars
        <3>. QED BY <1>1, <3>1, UnchangedStep
    <2>2. CASE Switch
        <3>1. set_current_process(call.choice) /\ call.choice \in Nat \cup {None}
            BY <1>1, <2>2 DEF Switch, CallRecord
        <3>2. IInv'
            BY <1>1, <3>1, SetCurrentStep
        <3>3. DOMAIN processes' = DOMAIN processes
            <4>1. DOMAIN Preempted(processes) = DOMAIN processes
                BY DEF Preempted
            <4>2. \A ps, pid, s : DOMAIN SetStateAt(ps, pid, s) = DOMAIN ps
                BY DEF SetStateAt
            <4>. QED BY <3>1, <4>1, <4>2 DEF set_current_process
        <3>. QED BY <3>2, <3>3
    <2>. QED BY <2>1, <2>2
<1>. QED BY <1>1, <1>2, <1>4, <1>5, QuietCall

\* A step of another context, or none, while a call may be under way
LEMMA OutsideStep ==
    ASSUME SchedInv, IInv', DOMAIN processes \subseteq DOMAIN processes',
           \A pid : Dead(processes, pid) => Dead(processes', pid),
           UNCHANGED <<algorithm, last_scheduled_index, priority_queues, call>>
    PROVE  SchedInv'
<1>1. \A s : InTable(s) => InTable(s)'
    BY DEF InTable
<1>2. \A j : DeadAt(j) => DeadAt(j)'
    BY DEF DeadAt
<1>3. Searching => Searching'
    BY <1>2 DEF Searching
<1>4. InTable(call.list)'
    BY <1>1 DEF SchedInv
<1>5. call.pc = "fill" => \A l \in Levels : InTable(priority_queues[l])'
    BY <1>1 DEF SchedInv
<1>. QED BY <1>2, <1>3, <1>4, <1>5 DEF SchedInv

LEMMA SchedStep ==
    ASSUME SchedInv, NEW ops, [SNext(ops)]_vars
    PROVE  SchedInv'
<1>0. /\ IInv /\ last_scheduled_index \in Nat /\ call \in CallRecord
      /\ algorithm \in {"RoundRobin", "Priority", "CompletelyFair"}
    BY DEF SchedInv
<1>1. CASE UNCHANGED vars \/ PowerChange
    <2>1. UNCHANGED <<processes, next_pid, current_pid, algorithm, last_scheduled_index,
                      priority_queues, call>>
        BY <1>1 DEF vars, PowerChange, tableVars, schedVars
    <2>2. IInv'
        BY <1>0, <2>1, UnchangedStep
    <2>. QED BY <2>1, <2>2, OutsideStep
<1>2. CASE schedule_next_process \/ timer_tick
    <2> DEFINE begun == [Idle EXCEPT !.pc = "snapshot"]
    <2>1. /\ UNCHANGED <<processes, next_pid, current_pid, algorithm, last_scheduled_index>>
          /\ call' = begun
        BY <1>2 DEF schedule_next_process, timer_tick, tableVars
    <2>2. begun \in CallRecord /\ begun.list = << >> /\ begun.pc = "snapshot"
        <3>1. << >> \in Seq(Nat)
            OBVIOUS
        <3>. QED BY <3>1 DEF Idle, CallRecord
    <2> HIDE DEF begun
    <2>3. IInv'
        BY <1>0, <2>1, UnchangedStep
    <2>. QED BY <1>0, <2>1, <2>2, <2>3, QuietCall
<1>3. CASE \E a \in Algorithms : set_algorithm(a)
    <2>1. /\ UNCHANGED <<processes, next_pid, current_pid, call>>
          /\ call.pc = "idle" /\ last_scheduled_index' = 0 /\ algorithm' \in Algorithms
        BY <1>3 DEF set_algorithm, tableVars
    <2>2. algorithm' \in {"RoundRobin", "Priority", "CompletelyFair"}
        BY <2>1, SchedulerAssumption
    <2>3. IInv'
        BY <1>0, <2>1, UnchangedStep
    <2>. QED BY <1>0, <2>1, <2>2, <2>3, QuietCall
<1>4. CASE OtherContext(ops)
    <2>1. UNCHANGED <<algorithm, last_scheduled_index, priority_queues, call>>
        BY <1>4 DEF OtherContext, schedVars
    <2>. QED BY <1>0, <1>4, <2>1, OthersRevive, OutsideStep
<1>5. CASE ScheduleStep
    BY <1>5, SnapshotStep, FillStep, RoundRobinSearch, PrioritySearch, CfsSearch, SwitchStep
       DEF ScheduleStep
<1>. QED BY <1>1, <1>2, <1>3, <1>4, <1>5 DEF SNext

LEMMA SchedStart == SInit => SchedInv
<1> SUFFICES ASSUME SInit PROVE SchedInv
    OBVIOUS
<1>1. IInv /\ call = Idle /\ last_scheduled_index = 0 /\ algorithm = "RoundRobin"
    BY InitIInv DEF SInit
<1>2. Idle \in CallRecord /\ Idle.list = << >> /\ Idle.pc = "idle"
    <2>1. << >> \in Seq(Nat)
        OBVIOUS
    <2>. QED BY <2>1 DEF Idle, CallRecord
<1>3. InTable(call.list)
    <2>1. Len(call.list) = 0
        BY <1>1, <1>2
    <2>2. \A k \in 1..Len(call.list) : FALSE
        BY <2>1
    <2>. QED BY <2>2 DEF InTable
<1>. QED BY <1>1, <1>2, <1>3 DEF SchedInv

LEMMA SchedInvSound == SchedInv => WorkConserving
<1> SUFFICES ASSUME SchedInv, call.pc = "current", call.choice = None,
                    NEW pid \in Range(call.list)
             PROVE  ~ Runnable(pid)
    BY DEF WorkConserving
<1>1. call.list \in Seq(Nat) /\ IInv
    BY DEF SchedInv, CallRecord
<1>2. Len(call.list) \in Nat /\ DOMAIN call.list = 1..Len(call.list)
    BY <1>1
<1>3. PICK k \in 1..Len(call.list) : pid = call.list[k]
    BY <1>2, Zenon DEF Range
<1> DEFINE j == k - 1
<1>4. j \in 0..(Len(call.list) - 1) /\ j + 1 = k
    BY <1>2
<1> HIDE DEF j
<1>5. DeadAt(j)
    BY <1>4 DEF SchedInv
<1>6. Dead(processes, pid)
    BY <1>3, <1>4, <1>5 DEF DeadAt
<1>. QED BY <1>1, <1>6, DeadIsNotRunnable

\* For every table size, algorithm and set of table operations that other contexts run between
\* the steps of schedule(): a call that settles on no process has none left that could run.
THEOREM IdleOnlyWithoutWork ==
    ASSUME NEW CONSTANT ops
    PROVE  SInit /\ [][SNext(ops)]_vars => []WorkConserving
<1>1. SchedInv /\ [SNext(ops)]_vars => SchedInv'
    BY SchedStep
<1>. QED BY <1>1, SchedStart, SchedInvSound, PTL
=============================================================================
