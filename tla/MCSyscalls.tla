----------------------------- MODULE MCSyscalls -----------------------------
(***************************************************************************)
(* Small instances of the process table by itself and of the system calls  *)
(* over it.  They work on the same variables; `part' says which runs:      *)
(*                                                                         *)
(*  - table: every operation on a table of three processes;                *)
(*  - syscalls: every call number and four that are none, arguments on     *)
(*    both sides of every test, in builds of either kind, with words of 20 *)
(*    and 16 bits, queues of one message and two messages in all.          *)
(***************************************************************************)
EXTENDS Syscalls

VARIABLE part

ArgValues == {0, 1, 2, 1025, Word32 + 2, Word64 - 1}
OneVaried == {[<<1, 1, 1, 1, 0>> EXCEPT ![i] = v] : i \in 1..3, v \in ArgValues}
MmapArgs == {<<1, 1, 0, 0, fd>> : fd \in {1, 1025, Word64 - 1}}
FewArgs == {<<0, 0, 0, 0, 0>>, <<1, 1, 1, 1, 0>>}
FewArgCalls ==
    {Number[s] : s \in Unchecked \cup FirstNonZero} \cup {0, 8, 64, 102}
ManyArgCalls == {Number[s] : s \in DOMAIN Number} \ FewArgCalls
MCCalls == (FewArgCalls \X FewArgs) \cup (ManyArgCalls \X OneVaried) \cup ({10} \X MmapArgs)

MCRights == {<<1, 1>>, <<1, 2>>}

ASSUME SyscallsAssumption == SyscallAssumption

MCInit == part \in {"table", "syscalls"} /\ SyscallInit /\ (part = "table" => ~ debug)

MCNext ==
    /\ UNCHANGED part
    /\ \/ part = "table" /\ Next /\ UNCHANGED sysVars
       \/ part = "syscalls" /\ SyscallNext

MCSpec == MCInit /\ [][MCNext]_<<part, tableVars, sysVars>>
=============================================================================
