----------------------------- MODULE MCScheduler -----------------------------
(***************************************************************************)
(* Small instances of the scheduler.  `ops', fixed in a behaviour, are the *)
(* table operations other contexts perform while schedule() runs: with     *)
(* removals a call may find its whole snapshot gone, and what is said of   *)
(* every call coming to an end is said of the behaviours without them.     *)
(* Where all operations interleave, power management changes once less.    *)
(***************************************************************************)
EXTENDS Scheduler

CONSTANT CallerSets

VARIABLE ops

\* pid 1 is classified Interactive, the others keep the default class
OneInteractive == [pid \in 1..MaxProcesses |-> IF pid = 1 THEN "Interactive" ELSE "Background"]

\* nobody calls classify_process
Unclassified == [pid \in 1..MaxProcesses |-> "Background"]

CreateOnly == {"create"}
AllCallers == {CreateOnly, {"create", "remove", "cleanup"}}
OnlyCreate == {CreateOnly}
CreateAndRemove == {{"create", "remove"}}

MCInit == SInit /\ ops \in CallerSets
MCNext == SNext(ops) /\ UNCHANGED ops /\ (ops # CreateOnly => changes' < MaxChanges)
MCSpec == MCInit /\ [][MCNext]_<<vars, ops>> /\ Fairness
-----------------------------------------------------------------------------
\* scheduler.rs, round robin: a live process gets the CPU or goes away.
RoundRobinServes == ops = CreateOnly => RoundRobinFair

\* scheduler.rs, priorities: the CPU settles on the one process of the best level.
TopPriorityKept == ops = CreateOnly => TopPriorityRuns

\* scheduler.rs: every call of schedule() comes to an end.
CallsReturn == ops = CreateOnly => ScheduleReturns
=============================================================================
