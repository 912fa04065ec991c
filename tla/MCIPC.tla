-------------------------------- MODULE MCIPC --------------------------------
(***************************************************************************)
(* Small instances of IPC and of the capabilities it is built on.  They    *)
(* work on the same variables; `part' says which workload runs:            *)
(*                                                                         *)
(*  - calls: two contexts that send, receive and reply, two capabilities   *)
(*    and two messages in all, of a size that fills a queue with one;      *)
(*  - policies: the same with one message, while the security policies    *)
(*    grant their capabilities;                                            *)
(*  - queues: one context sends and receives three messages of two sizes   *)
(*    and two priorities, and queues come and go;                          *)
(*  - caps: two types of capabilities, three of them granted, by channels  *)
(*    and by the policies.                                                 *)
(***************************************************************************)
EXTENDS IPC, TLC

VARIABLE part

\* contexts are told apart by nothing but their names
ContextSymmetry == Permutations(Contexts)

MCInit == part \in {"calls", "policies", "queues", "caps"} /\ Init

Created(ids, caps) == Cardinality(made') <= ids /\ next_capability_id' <= caps + 1

\* every message is as long and as urgent as the first allowed
Uniform == \A c \in Contexts : ctx'[c].msg.size # 1 /\ ctx'[c].msg.priority # 1

\* one context, one capability and nothing taken away but queues
OneSender ==
    /\ Created(3, 1)
    /\ alive' = alive
    /\ \E c \in Contexts : \A d \in Contexts \ {c} : ctx'[d].pc = "idle"
    /\ \A p \in Pids : process_capabilities[p] \subseteq process_capabilities'[p]

MCNext ==
    /\ UNCHANGED part
    /\ \/ part = "calls" /\ Next /\ UNCHANGED granting /\ Created(2, 2) /\ Uniform
       \/ part = "policies" /\ Next /\ Created(1, 2) /\ Uniform /\ UNCHANGED alive
       \/ part = "queues" /\ Next /\ UNCHANGED granting /\ OneSender
       \/ part = "caps" /\ CapNext /\ UNCHANGED <<queueVars, ipcVars>>

MCSpec == MCInit /\ [][MCNext]_<<part, vars>>
=============================================================================
