---------------------------- MODULE MessageQueues ----------------------------
(***************************************************************************)
(* kernel/src/ipc/queue.rs: one bounded priority queue per process, and    *)
(* the manager that holds them.  A message is a record with a priority     *)
(* (0 is the highest) and a size; what else it carries is up to the user   *)
(* of this module.  Every operation runs under MESSAGE_QUEUE_MANAGER.      *)
(*                                                                         *)
(* `accepted' is not in the code: it numbers the messages taken in, so     *)
(* that order of arrival can be spoken of (the field `arrival').           *)
(***************************************************************************)
EXTENDS Collections, FiniteSetsExt

CONSTANTS
    MaxMessages,    \* MAX_MESSAGES_PER_QUEUE
    MaxSize         \* MAX_QUEUE_SIZE_BYTES

ASSUME QueueAssumption == MaxMessages \in Nat \ {0} /\ MaxSize \in Nat

VARIABLES
    queues,             \* process id -> its queue, for the processes that have one
    total_messages,
    accepted

queueVars == <<queues, total_messages, accepted>>

MessageQueue == [messages |-> << >>, total_size |-> 0]
HasQueue(p) == p \in DOMAIN queues
QueueOf(p) == IF HasQueue(p) THEN queues[p] ELSE MessageQueue
SetQueue(p, q) == [r \in DOMAIN queues \cup {p} |-> IF r = p THEN q ELSE queues[r]]

can_accept_message(q, m) ==
    Len(q.messages) < MaxMessages /\ q.total_size + m.size <= MaxSize

\* Mutant: a message goes before the others of its priority
InsertPosBeforeEqual(messages, m) ==
    LET later == {i \in DOMAIN messages : messages[i].priority >= m.priority}
    IN  IF later = {} THEN Len(messages) + 1 ELSE Min(later)

\* before the first message of lower urgency, or at the end
InsertPos(messages, m) ==
    LET later == {i \in DOMAIN messages : messages[i].priority > m.priority}
    IN  IF later = {} THEN Len(messages) + 1 ELSE Min(later)

Inserted(messages, m) ==
    LET pos == InsertPos(messages, m)
    IN  SubSeq(messages, 1, pos - 1) \o <<m>> \o SubSeq(messages, pos, Len(messages))

\* MessageQueue::enqueue of an acceptable message
Enqueued(q, m) ==
    [messages |-> Inserted(q.messages, m),
     total_size |-> q.total_size + m.size]

\* MessageQueue::dequeue of a queue that is not empty (saturating_sub)
Dequeued(q) ==
    LET size == Head(q.messages).size IN
    [messages |-> Tail(q.messages),
     total_size |-> IF size > q.total_size THEN 0 ELSE q.total_size - size]

-----------------------------------------------------------------------------
QueueInit == queues = << >> /\ total_messages = 0 /\ accepted = 0

create_message_queue(p) ==
    /\ ~ HasQueue(p)
    /\ queues' = SetQueue(p, MessageQueue)
    /\ UNCHANGED <<total_messages, accepted>>

remove_message_queue(p) ==
    /\ HasQueue(p)
    /\ queues' = Restrict(queues, DOMAIN queues \ {p})
    /\ UNCHANGED <<total_messages, accepted>>

Stamped(m) == [f \in DOMAIN m \cup {"arrival"} |-> IF f = "arrival" THEN accepted ELSE m[f]]

\* get_or_create_queue, then enqueue
enqueue_message(p, m) ==
    /\ can_accept_message(QueueOf(p), m)
    /\ queues' = SetQueue(p, Enqueued(QueueOf(p), Stamped(m)))
    /\ total_messages' = total_messages + 1
    /\ accepted' = accepted + 1

\* Err(QueueFull): the queue has been created all the same
enqueue_message_full(p, m) ==
    /\ ~ can_accept_message(QueueOf(p), m)
    /\ queues' = SetQueue(p, QueueOf(p))
    /\ UNCHANGED <<total_messages, accepted>>

dequeue_message(p) ==
    /\ HasQueue(p) /\ queues[p].messages # << >>
    /\ queues' = SetQueue(p, Dequeued(queues[p]))
    /\ total_messages' = IF total_messages = 0 THEN 0 ELSE total_messages - 1
    /\ UNCHANGED accepted

-----------------------------------------------------------------------------
\* Messages leave a queue by priority and, within a priority, in order of arrival.
PriorityThenFIFO ==
    \A p \in DOMAIN queues :
        LET ms == queues[p].messages IN
        \A i, j \in DOMAIN ms : i < j =>
            \/ ms[i].priority < ms[j].priority
            \/ ms[i].priority = ms[j].priority /\ ms[i].arrival < ms[j].arrival

TotalSize(messages) == Sum([i \in DOMAIN messages |-> messages[i].size])

\* total_size, kept incrementally, is the size of the messages in the queue, and neither
\* limit is ever exceeded.
SizesAccounted ==
    \A p \in DOMAIN queues :
        LET q == queues[p] IN
        /\ q.total_size = TotalSize(q.messages)
        /\ q.total_size <= MaxSize /\ Len(q.messages) <= MaxMessages

\* Queues are sorted by priority and arrival, and accounted for exactly within both limits.
QueuesWellFormed == PriorityThenFIFO /\ SizesAccounted
=============================================================================
