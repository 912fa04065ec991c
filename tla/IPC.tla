--------------------------------- MODULE IPC ---------------------------------
(***************************************************************************)
(* kernel/src/ipc/message.rs over the process table (reduced to which      *)
(* processes are in it), the capability manager and the message queues.    *)
(*                                                                         *)
(* send_message and receive_message take three locks one after the other   *)
(* and hold none of them across two steps, so each step of a call is a     *)
(* step here, and Contexts run them concurrently with the creation and     *)
(* removal of processes, channels and capabilities.  generate_message_id   *)
(* reads and writes a `static mut' without a lock: two steps.  Process ids *)
(* are never used again (ProcessTable), so every process that will send or *)
(* receive is there at the start.                                          *)
(***************************************************************************)
EXTENDS MessageQueues, Capabilities

CONSTANTS
    Contexts,       \* contexts that call into the kernel
    MessagePriorities,
    Sizes,          \* sizes of messages
    MaxIds          \* bound on messages created

ASSUME IPCAssumption == MessagePriorities \subseteq Nat /\ Sizes \subseteq Nat

VARIABLES
    alive,          \* processes in the process table
    next_message_id,
    ctx,            \* what each context is doing: [pc, msg]
    made,           \* not in the code: messages created, as <<context, id>> pairs
    received, lost  \* not in the code: arrival numbers received, or gone with a queue

ipcVars == <<alive, next_message_id, ctx, made, received, lost>>
vars == <<queueVars, capVars, ipcVars>>

NoMessage == [sender |-> 0, receiver |-> 0, priority |-> 0, size |-> 0, message_id |-> 0]
At(c, pc) == ctx[c].pc = pc
Goto(c, pc, msg) == ctx' = [ctx EXCEPT ![c] = [pc |-> pc, msg |-> msg]]
Return(c) == Goto(c, "idle", NoMessage)
LocalStep == UNCHANGED <<queueVars, capVars, alive, next_message_id, made, received, lost>>

Init ==
    /\ QueueInit /\ CapInit
    /\ alive = Pids
    /\ next_message_id = 1
    /\ ctx = [c \in Contexts |-> [pc |-> "idle", msg |-> NoMessage]]
    /\ made = {} /\ received = {} /\ lost = {}

-----------------------------------------------------------------------------
\* takes neither the queue nor the capabilities of the process away
remove_process(p) ==
    /\ p \in alive
    /\ alive' = alive \ {p}
    /\ UNCHANGED <<queueVars, capVars, next_message_id, ctx, made, received, lost>>

\* create_message or create_reply: generate_message_id reads the counter
ReadId(c, s, r, priority, size) ==
    /\ Cardinality(made) < MaxIds
    /\ Goto(c, "id", [sender |-> s, receiver |-> r, priority |-> priority, size |-> size,
                      message_id |-> next_message_id])
    /\ LocalStep

create_message(c, s, r, priority, size) == At(c, "idle") /\ ReadId(c, s, r, priority, size)

\* reply_message: to the sender, with the priority of the original
reply_message(c, size) ==
    LET original == ctx[c].msg IN
    At(c, "received") /\ ReadId(c, original.receiver, original.sender, original.priority, size)

WriteId(c) ==
    /\ At(c, "id")
    /\ next_message_id' = ctx[c].msg.message_id + 1
    /\ made' = made \cup {<<c, ctx[c].msg.message_id>>}
    /\ Goto(c, "sender", ctx[c].msg)
    /\ UNCHANGED <<queueVars, capVars, alive, received, lost>>

\* send_message, step by step
CheckSender(c) ==
    /\ At(c, "sender")
    /\ IF ctx[c].msg.sender \in alive THEN Goto(c, "receiver", ctx[c].msg) ELSE Return(c)
    /\ LocalStep

CheckReceiver(c) ==
    /\ At(c, "receiver")
    /\ IF ctx[c].msg.receiver \in alive THEN Goto(c, "capability", ctx[c].msg) ELSE Return(c)
    /\ LocalStep

\* Mutant: the right to send the other way is looked up
MaySendSwapped(m) == check_capability(m.receiver, "SendMessage", ProcessResource(m.sender))

MaySend(m) == check_capability(m.sender, "SendMessage", ProcessResource(m.receiver))

CheckCapability(c) ==
    /\ At(c, "capability")
    /\ IF MaySend(ctx[c].msg) THEN Goto(c, "enqueue", ctx[c].msg) ELSE Return(c)
    /\ LocalStep

Enqueue(c) ==
    /\ At(c, "enqueue")
    /\ LET m == ctx[c].msg IN
       enqueue_message(m.receiver, m) \/ enqueue_message_full(m.receiver, m)
    /\ Return(c)
    /\ UNCHANGED <<capVars, alive, next_message_id, made, received, lost>>

\* receive_message, step by step; the message is kept for a reply
receive_message(c, p) ==
    /\ At(c, "idle") /\ p \in alive
    /\ Goto(c, "dequeue", [NoMessage EXCEPT !.receiver = p])
    /\ LocalStep

\* Mutant: the message is looked at and stays in the queue
PeekedOnly(c) ==
    LET p == ctx[c].msg.receiver IN
    /\ At(c, "dequeue")
    /\ HasQueue(p) /\ queues[p].messages # << >>
    /\ received' = received \cup {Head(queues[p].messages).arrival}
    /\ Goto(c, "received", Head(queues[p].messages))
    /\ UNCHANGED <<queueVars, capVars, alive, next_message_id, made, lost>>

Dequeue(c) ==
    LET p == ctx[c].msg.receiver IN
    /\ At(c, "dequeue")
    /\ \/ /\ dequeue_message(p)
          /\ received' = received \cup {Head(queues[p].messages).arrival}
          /\ Goto(c, "received", Head(queues[p].messages))
       \/ /\ QueueOf(p).messages = << >>
          /\ Return(c)
          /\ UNCHANGED <<queueVars, received>>
    /\ UNCHANGED <<capVars, alive, next_message_id, made, lost>>

\* the caller is done with the message it received
Forget(c) == At(c, "received") /\ Return(c) /\ LocalStep

Arrivals(p) == {m.arrival : m \in Range(queues[p].messages)}

\* the queue system's own interface
QueueOps(p) ==
    \/ /\ create_message_queue(p) /\ UNCHANGED lost
    \/ /\ remove_message_queue(p)
       /\ lost' = lost \cup Arrivals(p)

Manage ==
    \/ /\ \E p \in Pids : QueueOps(p)
       /\ UNCHANGED <<capVars, alive, next_message_id, ctx, made, received>>
    \/ /\ \/ \E a, b \in Pids : a # b /\ (create_secure_ipc_channel(a, b) \/ ChannelOtherHalf(b, a))
          \/ \E p \in Pids, id \in 1..MaxCapabilities : revoke_capability(p, id)
          \/ \E p \in Pids : \/ grant_system_process_capabilities(p)
                             \/ grant_user_process_capabilities(p)
          \/ GrantNext
       /\ UNCHANGED <<queueVars, ipcVars>>

Call(c) ==
    \/ \E s, r \in Pids, priority \in MessagePriorities, size \in Sizes :
        s # r /\ create_message(c, s, r, priority, size)
    \/ \E size \in Sizes : reply_message(c, size)
    \/ WriteId(c)
    \/ CheckSender(c) \/ CheckReceiver(c) \/ CheckCapability(c) \/ Enqueue(c)
    \/ \E p \in Pids : receive_message(c, p)
    \/ Dequeue(c) \/ Forget(c)

Next ==
    \/ \E p \in Pids : remove_process(p)
    \/ \E c \in Contexts : Call(c)
    \/ Manage

Spec == Init /\ [][Next]_vars
-----------------------------------------------------------------------------
\* However sends, receipts, removals and revocations interleave, a message that was taken in
\* is in exactly one place: still queued, received once, or gone with a removed queue.
ExactlyOnce ==
    LET queued == UNION {Arrivals(p) : p \in DOMAIN queues} IN
    /\ queued \cup received \cup lost = 0..(accepted - 1)
    /\ queued \cap received = {} /\ queued \cap lost = {} /\ received \cap lost = {}

\* A queued message is for the owner of the queue, and its sender held the right to send to
\* that process (a right that may have been revoked since).
DeliveryAuthorized ==
    \A p \in DOMAIN queues : \A m \in Range(queues[p].messages) :
        /\ m.receiver = p
        /\ \E r \in {ProcessResource(p), AnyResource} : <<m.sender, "SendMessage", r>> \in held

\* message.rs:283 "Generate a unique message ID".
MessageIdsUnique == \A a, b \in made : a[2] = b[2] => a = b
=============================================================================
