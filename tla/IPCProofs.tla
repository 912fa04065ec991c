------------------------------ MODULE IPCProofs ------------------------------
(***************************************************************************)
(* Messages between processes, for any number of contexts, processes and   *)
(* messages: each is in one place, from a sender that was allowed to send, *)
(* and queues are sorted.  From the bottom up: insertion into a sequence,  *)
(* one queue, all queues, the capability sets, the contexts.               *)
(***************************************************************************)
EXTENDS IPC, CollectionTheorems, SequenceTheorems, TLAPS

\* Messages on their way, and messages in a queue
Messages == [sender : Pids, receiver : Pids, priority : Nat, size : Nat, message_id : Nat]
Stored == [sender : Pids, receiver : Pids, priority : Nat, size : Nat, message_id : Nat,
           arrival : Nat]

LEMMA StampedFacts ==
    ASSUME NEW m \in Messages, accepted \in Nat
    PROVE  /\ Stamped(m) \in Stored
           /\ Stamped(m).arrival = accepted /\ Stamped(m).priority = m.priority
           /\ Stamped(m).sender = m.sender /\ Stamped(m).receiver = m.receiver
<1> DEFINE s == [sender |-> m.sender, receiver |-> m.receiver, priority |-> m.priority,
                 size |-> m.size, message_id |-> m.message_id, arrival |-> accepted]
<1>1. DOMAIN m = {"sender", "receiver", "priority", "size", "message_id"}
    BY DEF Messages
<1>2. Stamped(m) = s
    BY <1>1 DEF Stamped
<1>3. s \in Stored
    BY DEF Stored, Messages
<1>. QED BY <1>2, <1>3

\* Every set of naturals has a least element.
LEMMA MinFacts ==
    ASSUME NEW T \in SUBSET Nat, T # {}
    PROVE  Min(T) \in T /\ \A y \in T : Min(T) <= y
<1>1. \E m \in T : \A k \in T : m <= k
    BY SmallestNumber
<1>. QED BY <1>1, Zenon DEF Min

\* VecDeque::insert at place k
InsertAt(s, k, e) == SubSeq(s, 1, k - 1) \o <<e>> \o SubSeq(s, k, Len(s))

IsInsertion(S, s, k, e, t) ==
    /\ t \in Seq(S) /\ Len(t) = Len(s) + 1
    /\ \A i \in 1 .. Len(s) + 1 : t[i] = IF i < k THEN s[i] ELSE IF i = k THEN e ELSE s[i - 1]

LEMMA InsertAtFacts ==
    ASSUME NEW S, NEW s \in Seq(S), NEW e \in S, NEW k \in 1 .. Len(s) + 1
    PROVE  IsInsertion(S, s, k, e, InsertAt(s, k, e))
<1> DEFINE a == SubSeq(s, 1, k - 1)
           b == SubSeq(s, k, Len(s))
<1>1. a \in Seq(S) /\ Len(a) = k - 1 /\ \A i \in 1 .. k - 1 : a[i] = s[i]
    BY SubSeqProperties
<1>2. b \in Seq(S) /\ Len(b) = Len(s) - k + 1 /\ \A i \in 1 .. Len(s) - k + 1 : b[i] = s[k + i - 1]
    BY SubSeqProperties
<1>3. InsertAt(s, k, e) = (a \o <<e>>) \o b
    BY DEF InsertAt
<1> HIDE DEF a, b
<1>4. /\ a \o <<e>> \in Seq(S) /\ Len(a \o <<e>>) = k
      /\ \A i \in 1 .. k : (a \o <<e>>)[i] = IF i < k THEN s[i] ELSE e
    BY <1>1
<1> DEFINE c == a \o <<e>>
<1> HIDE DEF c
<1>5. c \in Seq(S) /\ Len(c) = k /\ \A i \in 1 .. k : c[i] = IF i < k THEN s[i] ELSE e
    BY <1>4 DEF c
<1>6. /\ c \o b \in Seq(S) /\ Len(c \o b) = Len(s) + 1
      /\ \A i \in 1 .. Len(s) + 1 : (c \o b)[i] = IF i <= k THEN c[i] ELSE b[i - k]
    <2>1. Len(c) + Len(b) = Len(s) + 1
        BY <1>2, <1>5
    <2>. QED BY <1>2, <1>5, <2>1, ConcatProperties
<1>7. \A i \in 1 .. Len(s) + 1 : i > k => i - k \in 1 .. Len(s) - k + 1 /\ k + (i - k) - 1 = i - 1
    OBVIOUS
<1>8. \A i \in 1 .. Len(s) + 1 :
        (c \o b)[i] = IF i < k THEN s[i] ELSE IF i = k THEN e ELSE s[i - 1]
    BY <1>2, <1>5, <1>6, <1>7
<1>9. IsInsertion(S, s, k, e, c \o b)
    BY <1>6, <1>8 DEF IsInsertion
<1>. QED BY <1>3, <1>9 DEF c

-----------------------------------------------------------------------------
(* One queue: sorted, no arrival number twice, all of them below n. *)
Sorted(s) ==
    \A i, j \in DOMAIN s : i < j =>
        \/ s[i].priority < s[j].priority
        \/ s[i].priority = s[j].priority /\ s[i].arrival < s[j].arrival

Distinct(s) == \A i, j \in DOMAIN s : s[i].arrival = s[j].arrival => i = j

Older(s, n) == \A i \in DOMAIN s : s[i].arrival < n

QueueOK(s, n) == s \in Seq(Stored) /\ Sorted(s) /\ Distinct(s) /\ Older(s, n)

LEMMA StoredTypes ==
    ASSUME NEW m \in Stored
    PROVE  m.priority \in Nat /\ m.arrival \in Nat /\ m.sender \in Pids /\ m.receiver \in Pids
BY DEF Stored

LEMMA ElementTypes ==
    ASSUME NEW s \in Seq(Stored), NEW i \in 1 .. Len(s)
    PROVE  s[i] \in Stored /\ s[i].priority \in Nat /\ s[i].arrival \in Nat
<1>1. s[i] \in Stored
    OBVIOUS
<1>. QED BY <1>1, StoredTypes

\* What is before the place of insertion is at least as urgent, what is after it is less so.
LEMMA InsertPosFacts ==
    ASSUME NEW s \in Seq(Stored), Sorted(s), NEW e \in Stored
    PROVE  /\ InsertPos(s, e) \in 1 .. Len(s) + 1
           /\ \A i \in 1 .. Len(s) : i < InsertPos(s, e) => s[i].priority <= e.priority
           /\ \A i \in 1 .. Len(s) : i >= InsertPos(s, e) => s[i].priority > e.priority
<1> DEFINE later == {i \in DOMAIN s : s[i].priority > e.priority}
           k == InsertPos(s, e)
<1>1. k = IF later = {} THEN Len(s) + 1 ELSE Min(later)
    BY DEF InsertPos
<1>2. DOMAIN s = 1 .. Len(s) /\ Len(s) \in Nat /\ later \in SUBSET Nat
    OBVIOUS
<1>3. e.priority \in Nat /\ \A i \in 1 .. Len(s) : s[i].priority \in Nat
    BY StoredTypes, ElementTypes
<1> HIDE DEF k
<1>4. CASE later = {}
    <2>1. k = Len(s) + 1 /\ \A i \in 1 .. Len(s) : ~ (s[i].priority > e.priority)
        BY <1>1, <1>2, <1>4
    <2> HIDE DEF later
    <2>. QED BY <1>2, <1>3, <2>1 DEF k
<1>5. CASE later # {}
    <2>1. k \in later /\ \A i \in later : k <= i
        BY <1>1, <1>2, <1>5, MinFacts, ZenonT(30)
    <2>2. k \in 1 .. Len(s) /\ s[k].priority > e.priority
        BY <1>2, <2>1
    <2>3. \A i \in 1 .. Len(s) : i < k => s[i].priority <= e.priority
        BY <1>2, <1>3, <2>1, <2>2
    <2>4. \A i \in 1 .. Len(s) : i >= k => s[i].priority >= s[k].priority
        BY <1>2, <1>3, <2>2 DEF Sorted
    <2>5. \A i \in 1 .. Len(s) : i >= k => s[i].priority > e.priority
        BY <1>3, <2>2, <2>4
    <2>. QED BY <1>2, <2>2, <2>3, <2>5 DEF k
<1>. QED BY <1>4, <1>5

\* MessageQueue::enqueue keeps a queue sorted and adds the message.
LEMMA InsertedFacts ==
    ASSUME NEW n \in Nat, NEW s, QueueOK(s, n), NEW e \in Stored, e.arrival = n
    PROVE  QueueOK(Inserted(s, e), n + 1) /\ Range(Inserted(s, e)) = Range(s) \cup {e}
<1> DEFINE k == InsertPos(s, e)
           t == InsertAt(s, k, e)
<1>1. s \in Seq(Stored) /\ Sorted(s) /\ Distinct(s) /\ Older(s, n)
    BY DEF QueueOK
<1>2. /\ k \in 1 .. Len(s) + 1
      /\ \A i \in 1 .. Len(s) : i < k => s[i].priority <= e.priority
      /\ \A i \in 1 .. Len(s) : i >= k => s[i].priority > e.priority
    BY <1>1, InsertPosFacts
<1> HIDE DEF k
<1>3. /\ t \in Seq(Stored) /\ Len(t) = Len(s) + 1
      /\ \A i \in 1 .. Len(s) + 1 : t[i] = IF i < k THEN s[i] ELSE IF i = k THEN e ELSE s[i - 1]
    <2>1. IsInsertion(Stored, s, k, e, t)
        BY <1>1, <1>2, InsertAtFacts, Zenon
    <2>. QED BY <2>1 DEF IsInsertion
<1> HIDE DEF t
<1>4. DOMAIN s = 1 .. Len(s) /\ Len(s) \in Nat /\ DOMAIN t = 1 .. Len(s) + 1 /\ k \in Nat
    BY <1>1, <1>2, <1>3
<1>5. /\ e.priority \in Nat /\ e.arrival \in Nat
      /\ \A i \in 1 .. Len(s) : s[i].priority \in Nat /\ s[i].arrival \in Nat /\ s[i].arrival < n
    BY <1>1, <1>4, StoredTypes, ElementTypes, Zenon DEF Older
<1>6. Older(t, n + 1)
    <2>1. ASSUME NEW i \in DOMAIN t
          PROVE  t[i] = e \/ \E j \in 1 .. Len(s) : t[i] = s[j]
        <3>1. CASE i < k
            <4>1. i \in 1 .. Len(s) /\ t[i] = s[i]
                BY <1>2, <1>3, <1>4, <3>1
            <4>. QED BY <4>1
        <3>2. CASE i = k
            BY <1>3, <1>4, <3>2
        <3>3. CASE i > k
            <4>1. i - 1 \in 1 .. Len(s) /\ t[i] = s[i - 1]
                BY <1>2, <1>3, <1>4, <3>3
            <4>. QED BY <4>1
        <3>. QED BY <1>4, <3>1, <3>2, <3>3
    <2>2. e.arrival < n + 1 /\ \A j \in 1 .. Len(s) : s[j].arrival < n + 1
        BY <1>5
    <2>. QED BY <2>1, <2>2, Zenon DEF Older
<1>7. ASSUME NEW i \in DOMAIN t, NEW j \in DOMAIN t, i < j
      PROVE  /\ t[i].arrival # t[j].arrival
             /\ \/ t[i].priority < t[j].priority
                \/ t[i].priority = t[j].priority /\ t[i].arrival < t[j].arrival
    <2>1. CASE j < k
        <3>1. i \in 1 .. Len(s) /\ j \in 1 .. Len(s) /\ i # j /\ t[i] = s[i] /\ t[j] = s[j]
            BY <1>2, <1>3, <1>4, <1>7, <2>1
        <3>. QED BY <1>1, <1>4, <1>7, <3>1 DEF Sorted, Distinct
    <2>2. CASE j = k
        <3>1. i \in 1 .. Len(s) /\ t[i] = s[i] /\ t[j] = e
            BY <1>2, <1>3, <1>4, <1>7, <2>2
        <3>. QED BY <1>2, <1>4, <1>5, <1>7, <2>2, <3>1
    <2>3. CASE j > k /\ i < k
        <3>1. i \in 1 .. Len(s) /\ j - 1 \in 1 .. Len(s) /\ i < j - 1 /\ t[i] = s[i] /\ t[j] = s[j - 1]
            BY <1>2, <1>3, <1>4, <1>7, <2>3
        <3>. QED BY <1>1, <1>4, <3>1 DEF Sorted, Distinct
    <2>4. CASE j > k /\ i = k
        <3>1. j - 1 \in 1 .. Len(s) /\ j - 1 >= k /\ t[i] = e /\ t[j] = s[j - 1]
            BY <1>2, <1>3, <1>4, <1>7, <2>4
        <3>. QED BY <1>2, <1>5, <3>1
    <2>5. CASE j > k /\ i > k
        <3>1. i - 1 \in 1 .. Len(s) /\ j - 1 \in 1 .. Len(s) /\ i - 1 < j - 1
              /\ t[i] = s[i - 1] /\ t[j] = s[j - 1]
            BY <1>2, <1>3, <1>4, <1>7, <2>5
        <3>. QED BY <1>1, <1>4, <3>1 DEF Sorted, Distinct
    <2>. QED BY <1>4, <2>1, <2>2, <2>3, <2>4, <2>5
<1>8. Sorted(t)
    BY <1>7 DEF Sorted
<1>9. Distinct(t)
    BY <1>4, <1>7 DEF Distinct
<1>10. Range(t) = Range(s) \cup {e}
    <2>1. \A i \in DOMAIN t : t[i] \in Range(s) \cup {e}
        BY <1>2, <1>3, <1>4 DEF Range
    <2>2. t[k] = e /\ k \in DOMAIN t
        BY <1>2, <1>3, <1>4
    <2>3. ASSUME NEW i \in DOMAIN s
          PROVE  \E j \in DOMAIN t : t[j] = s[i]
        <3>1. CASE i < k
            BY <1>3, <1>4, <3>1
        <3>2. CASE i >= k
            <4>1. i + 1 \in DOMAIN t /\ t[i + 1] = s[(i + 1) - 1] /\ (i + 1) - 1 = i
                BY <1>3, <1>4, <3>2
            <4>. QED BY <4>1
        <3>. QED BY <1>4, <3>1, <3>2
    <2>. QED BY <2>1, <2>2, <2>3, ZenonT(30) DEF Range
<1>11. t = Inserted(s, e)
    BY DEF t, k, InsertAt, Inserted
<1>. QED BY <1>3, <1>6, <1>8, <1>9, <1>10, <1>11 DEF QueueOK

\* MessageQueue::dequeue takes the first message out and leaves the queue sorted.
LEMMA Removed ==
    ASSUME NEW n, NEW s, QueueOK(s, n), s # << >>
    PROVE  /\ QueueOK(Tail(s), n)
           /\ Head(s) \in Stored /\ Head(s) \in Range(s)
           /\ Range(Tail(s)) \subseteq Range(s)
           /\ \A x \in Range(s) : x \in Range(Tail(s)) \/ x = Head(s)
           /\ \A x \in Range(Tail(s)) : x.arrival # Head(s).arrival
<1> DEFINE t == Tail(s)
<1>1. s \in Seq(Stored) /\ Sorted(s) /\ Distinct(s) /\ Older(s, n)
    BY DEF QueueOK
<1>2. /\ t \in Seq(Stored) /\ Len(t) = Len(s) - 1 /\ Head(s) = s[1] /\ Len(s) \in Nat \ {0}
      /\ \A i \in 1 .. Len(s) - 1 : t[i] = s[i + 1]
    BY <1>1, HeadTailProperties, EmptySeq
<1>3. DOMAIN s = 1 .. Len(s) /\ DOMAIN t = 1 .. Len(s) - 1
    BY <1>1, <1>2
<1> HIDE DEF t
<1>4. \A i \in DOMAIN t : i + 1 \in DOMAIN s /\ t[i] = s[i + 1] /\ i + 1 # 1
    BY <1>2, <1>3
<1>5. Older(t, n)
    BY <1>1, <1>4 DEF Older
<1>6. Sorted(t)
    BY <1>1, <1>3, <1>4 DEF Sorted
<1>7. Distinct(t)
    BY <1>1, <1>3, <1>4 DEF Distinct
<1>8. 1 \in DOMAIN s
    BY <1>2, <1>3
<1>9. \A x \in Range(t) : x.arrival # Head(s).arrival
    <2>1. \A i \in DOMAIN t : t[i].arrival # s[1].arrival
        BY <1>1, <1>4, <1>8 DEF Distinct
    <2>. QED BY <1>2, <2>1, Zenon DEF Range
<1>10. ASSUME NEW i \in DOMAIN s
       PROVE  s[i] = Head(s) \/ \E j \in DOMAIN t : t[j] = s[i]
    <2>1. CASE i = 1
        BY <1>2, <2>1
    <2>2. CASE i # 1
        <3>1. i - 1 \in DOMAIN t /\ t[i - 1] = s[(i - 1) + 1] /\ (i - 1) + 1 = i
            BY <1>2, <1>3, <2>2
        <3>. QED BY <3>1
    <2>. QED BY <2>1, <2>2
<1>11. Head(s) \in Stored /\ Head(s) \in Range(s)
    BY <1>1, <1>2, <1>8 DEF Range
<1>12. Range(t) \subseteq Range(s)
    BY <1>4, Zenon DEF Range
<1>13. \A x \in Range(s) : x \in Range(t) \/ x = Head(s)
    BY <1>10, Zenon DEF Range
<1>. QED BY <1>2, <1>5, <1>6, <1>7, <1>9, <1>11, <1>12, <1>13 DEF QueueOK, t

-----------------------------------------------------------------------------
(* All queues.  InQueue and QueuedIn speak of a value qs of `queues'. *)
InQueue(qs, p, m) == p \in DOMAIN qs /\ m \in Range(qs[p].messages)
QueuedIn(qs) == UNION {{m.arrival : m \in Range(qs[p].messages)} : p \in DOMAIN qs}

OneQueueEach(qs) ==
    \A p, q \in DOMAIN qs : \A m \in Range(qs[p].messages), k \in Range(qs[q].messages) :
        m.arrival = k.arrival => p = q

QueuesOK ==
    /\ accepted \in Nat
    /\ \A p \in DOMAIN queues : QueueOK(queues[p].messages, accepted)
    /\ OneQueueEach(queues)

QInv == QueuesOK /\ ExactlyOnce /\ DeliveryAuthorized

Authorized(rights, m) ==
    \E r \in {ProcessResource(m.receiver), AnyResource} : <<m.sender, "SendMessage", r>> \in rights

LEMMA QueuedFacts ==
    ASSUME NEW qs
    PROVE  \A x : x \in QueuedIn(qs) <=> \E p, m : InQueue(qs, p, m) /\ x = m.arrival
<1> DEFINE A(p) == {m.arrival : m \in Range(qs[p].messages)}
<1>1. \A p, x : x \in A(p) <=> \E m \in Range(qs[p].messages) : x = m.arrival
    BY Zenon
<1>2. \A x : x \in QueuedIn(qs) <=> \E p \in DOMAIN qs : x \in A(p)
    BY Zenon DEF QueuedIn
<1> HIDE DEF A
<1>3. ASSUME NEW x, x \in QueuedIn(qs)
      PROVE  \E p, m : InQueue(qs, p, m) /\ x = m.arrival
    <2>1. PICK p \in DOMAIN qs : x \in A(p)
        BY <1>2, <1>3, Zenon
    <2>2. PICK m \in Range(qs[p].messages) : x = m.arrival
        BY <1>1, <2>1, Zenon
    <2>. QED BY <2>2, Zenon DEF InQueue
<1>4. ASSUME NEW x, NEW p, NEW m, InQueue(qs, p, m), x = m.arrival
      PROVE  x \in QueuedIn(qs)
    BY <1>1, <1>2, <1>4, Zenon DEF InQueue
<1>. QED BY <1>3, <1>4, Zenon

\* ExactlyOnce for the parts it speaks of
Once(qs, in, out, n) ==
    /\ QueuedIn(qs) \cup in \cup out = 0..(n - 1)
    /\ QueuedIn(qs) \cap in = {} /\ QueuedIn(qs) \cap out = {} /\ in \cap out = {}

LEMMA OnceFacts ==
    /\ ExactlyOnce <=> Once(queues, received, lost, accepted)
    /\ ExactlyOnce' <=> Once(queues', received', lost', accepted')
BY Zenon DEF ExactlyOnce, Once, QueuedIn, Arrivals

LEMMA EmptyQueueOK ==
    ASSUME NEW n
    PROVE  QueueOK(<< >>, n) /\ Range(<< >>) = {}
<1>1. << >> \in Seq(Stored) /\ DOMAIN << >> = {}
    OBVIOUS
<1>. QED BY <1>1 DEF QueueOK, Sorted, Distinct, Older, Range

LEMMA OlderStill ==
    ASSUME NEW n \in Nat, NEW s, QueueOK(s, n)
    PROVE  QueueOK(s, n + 1)
<1>1. \A i \in DOMAIN s : s[i].arrival \in Nat
    BY ElementTypes DEF QueueOK
<1>. QED BY <1>1 DEF QueueOK, Older

\* Messages in a queue are Stored and arrived before now.
LEMMA QueuedTypes ==
    ASSUME QueuesOK, NEW p, NEW m, InQueue(queues, p, m)
    PROVE  m \in Stored /\ m.arrival \in Nat /\ m.arrival < accepted
<1>1. QueueOK(queues[p].messages, accepted)
    BY DEF QueuesOK, InQueue
<1>2. PICK i \in DOMAIN queues[p].messages : m = queues[p].messages[i]
    BY Zenon DEF InQueue, Range
<1>. QED BY <1>1, <1>2, ElementTypes DEF QueueOK, Older

\* What is in a queue has one place in it.
LEMMA OnePlace ==
    ASSUME QueuesOK, NEW p, NEW q, NEW m, NEW k, InQueue(queues, p, m), InQueue(queues, q, k),
           m.arrival = k.arrival
    PROVE  p = q
BY DEF QueuesOK, OneQueueEach, InQueue

LEMMA OnePlaceEach ==
    ASSUME NEW qs,
           ASSUME NEW p, NEW q, NEW m, NEW k, InQueue(qs, p, m), InQueue(qs, q, k),
                  m.arrival = k.arrival
           PROVE  p = q
    PROVE  OneQueueEach(qs)
<1> SUFFICES ASSUME NEW p \in DOMAIN qs, NEW q \in DOMAIN qs, NEW m \in Range(qs[p].messages),
                    NEW k \in Range(qs[q].messages), m.arrival = k.arrival
             PROVE  p = q
    BY DEF OneQueueEach
<1>1. InQueue(qs, p, m) /\ InQueue(qs, q, k)
    BY DEF InQueue
<1>. QED BY <1>1

\* A step that leaves every queue as it was, or makes an empty one.
LEMMA EmptyQueueStep ==
    ASSUME QInv, UNCHANGED <<accepted, received, lost, held>>, NEW p,
           NEW q, q.messages = QueueOf(p).messages, queues' = SetQueue(p, q)
    PROVE  QInv'
<1>1. DOMAIN queues' = DOMAIN queues \cup {p}
    BY DEF SetQueue
<1>2. \A r \in DOMAIN queues : queues'[r].messages = queues[r].messages
    BY DEF SetQueue, QueueOf, HasQueue
<1>3. p \notin DOMAIN queues => queues'[p].messages = << >>
    BY DEF SetQueue, QueueOf, HasQueue, MessageQueue
<1>4. \A r, m : InQueue(queues', r, m) <=> InQueue(queues, r, m)
    BY <1>1, <1>2, <1>3, EmptyQueueOK, Zenon DEF InQueue
<1>5. QueuesOK'
    <2>1. \A r \in DOMAIN queues' : QueueOK(queues'[r].messages, accepted')
        BY <1>1, <1>2, <1>3, EmptyQueueOK, Zenon DEF QInv, QueuesOK
    <2>2. ASSUME NEW r, NEW t, NEW m, NEW k, InQueue(queues', r, m), InQueue(queues', t, k),
                 m.arrival = k.arrival
          PROVE  r = t
        BY <1>4, <2>2, OnePlace DEF QInv
    <2>3. OneQueueEach(queues')
        BY <2>2, OnePlaceEach, ZenonT(30)
    <2>. QED BY <2>1, <2>3 DEF QInv, QueuesOK
<1>6. QueuedIn(queues') = QueuedIn(queues)
    <2>1. \A x : x \in QueuedIn(queues') <=> x \in QueuedIn(queues)
        <3>1. ASSUME NEW x, x \in QueuedIn(queues')
              PROVE  x \in QueuedIn(queues)
            BY <1>4, <3>1, QueuedFacts
        <3>2. ASSUME NEW x, x \in QueuedIn(queues)
              PROVE  x \in QueuedIn(queues')
            BY <1>4, <3>2, QueuedFacts
        <3>. QED BY <3>1, <3>2, Zenon
    <2>. QED BY <2>1, Zenon
<1>7. ExactlyOnce'
    BY <1>6, OnceFacts, Zenon DEF QInv, Once
<1>8. DeliveryAuthorized'
    BY <1>4, Zenon DEF QInv, DeliveryAuthorized, InQueue
<1>. QED BY <1>5, <1>7, <1>8 DEF QInv

\* Enqueue: the message gets the next arrival number and is nowhere else.
LEMMA EnqueueStep ==
    ASSUME QInv, UNCHANGED <<received, lost, held>>, NEW m \in Messages, Authorized(held, m),
           enqueue_message(m.receiver, m)
    PROVE  QInv'
<1> DEFINE p == m.receiver
           e == Stamped(m)
           old == QueueOf(p).messages
           new == Inserted(old, e)
<1>1. accepted \in Nat /\ QueuesOK /\ ExactlyOnce /\ DeliveryAuthorized
    BY DEF QInv, QueuesOK
<1>2. /\ e \in Stored /\ e.arrival = accepted
      /\ e.sender = m.sender /\ e.receiver = p
    BY <1>1, StampedFacts
<1>3. accepted' = accepted + 1 /\ queues' = SetQueue(p, Enqueued(QueueOf(p), e))
    BY DEF enqueue_message
<1>4. /\ DOMAIN queues' = DOMAIN queues \cup {p} /\ queues'[p].messages = new
      /\ \A r \in DOMAIN queues : r # p => queues'[r] = queues[r]
    BY <1>3 DEF SetQueue, Enqueued
<1>5. QueueOK(old, accepted) /\ \A x : x \in Range(old) <=> InQueue(queues, p, x)
    <2>1. CASE p \in DOMAIN queues
        <3>1. old = queues[p].messages
            BY <2>1 DEF QueueOf, HasQueue
        <3>. QED BY <1>1, <2>1, <3>1 DEF QueuesOK, InQueue
    <2>2. CASE p \notin DOMAIN queues
        <3>1. old = << >>
            BY <2>2 DEF QueueOf, HasQueue, MessageQueue
        <3>. QED BY <2>2, <3>1, EmptyQueueOK DEF InQueue
    <2>. QED BY <2>1, <2>2
<1> HIDE DEF p, e, old
<1>6. QueueOK(new, accepted + 1) /\ Range(new) = Range(old) \cup {e}
    BY <1>1, <1>2, <1>5, InsertedFacts
<1> HIDE DEF new
<1>7. \A r, x : InQueue(queues', r, x) <=> InQueue(queues, r, x) \/ (r = p /\ x = e)
    <2>1. \A x : InQueue(queues', p, x) <=> InQueue(queues, p, x) \/ x = e
        BY <1>4, <1>5, <1>6 DEF InQueue
    <2>2. \A r, x : r # p => (InQueue(queues', r, x) <=> InQueue(queues, r, x))
        BY <1>4 DEF InQueue
    <2>. QED BY <2>1, <2>2, Zenon
<1>8. QueuesOK'
    <2>1. ASSUME NEW r \in DOMAIN queues'
          PROVE  QueueOK(queues'[r].messages, accepted')
        <3>1. CASE r = p
            BY <1>3, <1>4, <1>6, <3>1
        <3>2. CASE r # p
            <4>1. queues'[r] = queues[r] /\ QueueOK(queues[r].messages, accepted)
                BY <1>1, <1>4, <3>2 DEF QueuesOK
            <4>. QED BY <1>1, <1>3, <4>1, OlderStill
        <3>. QED BY <3>1, <3>2
    <2>2. ASSUME NEW r, NEW t, NEW x, NEW k, InQueue(queues', r, x), InQueue(queues', t, k),
                 x.arrival = k.arrival
          PROVE  r = t
        <3>1. CASE InQueue(queues, r, x) /\ InQueue(queues, t, k)
            BY <1>1, <2>2, <3>1, OnePlace
        <3>2. CASE InQueue(queues, r, x) /\ k = e
            BY <1>1, <1>2, <2>2, <3>2, QueuedTypes
        <3>3. CASE InQueue(queues, t, k) /\ x = e
            BY <1>1, <1>2, <2>2, <3>3, QueuedTypes
        <3>4. CASE r = p /\ t = p
            BY <3>4
        <3>. QED BY <1>7, <2>2, <3>1, <3>2, <3>3, <3>4, Zenon
    <2>3. OneQueueEach(queues')
        BY <2>2, OnePlaceEach, ZenonT(30)
    <2>. QED BY <1>1, <1>3, <2>1, <2>3 DEF QueuesOK
<1>9. ExactlyOnce'
    <2>1. \A x : x \in QueuedIn(queues') <=> x \in QueuedIn(queues) \/ x = accepted
        <3>1. ASSUME NEW x, x \in QueuedIn(queues')
              PROVE  x \in QueuedIn(queues) \/ x = accepted
            BY <1>2, <1>7, <3>1, QueuedFacts
        <3>2. ASSUME NEW x, x \in QueuedIn(queues)
              PROVE  x \in QueuedIn(queues')
            BY <1>7, <3>2, QueuedFacts
        <3>3. accepted \in QueuedIn(queues')
            BY <1>2, <1>7, QueuedFacts
        <3>. QED BY <3>1, <3>2, <3>3, Zenon
    <2>2. Once(queues, received, lost, accepted)
        BY <1>1, OnceFacts
    <2>3. 0..((accepted + 1) - 1) = 0..(accepted - 1) \cup {accepted} /\ accepted \notin 0..(accepted - 1)
        BY <1>1
    <2>4. Once(queues', received, lost, accepted + 1)
        BY <2>1, <2>2, <2>3 DEF Once
    <2>. QED BY <1>3, <2>4, OnceFacts
<1>10. DeliveryAuthorized'
    <2>1. ASSUME NEW r, NEW x, InQueue(queues', r, x)
          PROVE  /\ x.receiver = r
                 /\ \E w \in {ProcessResource(r), AnyResource} : <<x.sender, "SendMessage", w>> \in held
        <3>1. CASE InQueue(queues, r, x)
            BY <1>1, <3>1 DEF DeliveryAuthorized, InQueue
        <3>2. CASE r = p /\ x = e
            BY <1>2, <3>2 DEF Authorized, p
        <3>. QED BY <1>7, <2>1, <3>1, <3>2
    <2>. QED BY <2>1 DEF DeliveryAuthorized, InQueue
<1>. QED BY <1>8, <1>9, <1>10 DEF QInv

\* Messages leave the queues for `received' or for `lost': those with an arrival number of
\* `gone', and what stays keeps its place.
LEMMA LeaveStep ==
    ASSUME QInv, UNCHANGED <<accepted, held>>, NEW gone,
           \A r \in DOMAIN queues' : QueueOK(queues'[r].messages, accepted),
           \A r, x : InQueue(queues', r, x) => InQueue(queues, r, x) /\ x.arrival \notin gone,
           \A r, x : InQueue(queues, r, x) => InQueue(queues', r, x) \/ x.arrival \in gone,
           gone \subseteq QueuedIn(queues),
           \/ received' = received \cup gone /\ lost' = lost
           \/ received' = received /\ lost' = lost \cup gone
    PROVE  QInv'
<1>1. accepted \in Nat /\ QueuesOK /\ ExactlyOnce /\ DeliveryAuthorized
    BY DEF QInv, QueuesOK
<1>2. QueuesOK'
    <2>1. ASSUME NEW r, NEW t, NEW x, NEW k, InQueue(queues', r, x), InQueue(queues', t, k),
                 x.arrival = k.arrival
          PROVE  r = t
        BY <1>1, <2>1, OnePlace
    <2>2. OneQueueEach(queues')
        BY <2>1, OnePlaceEach, ZenonT(30)
    <2>. QED BY <1>1, <2>2 DEF QueuesOK
<1>3. ExactlyOnce'
    <2>1. \A x : x \in QueuedIn(queues') <=> x \in QueuedIn(queues) /\ x \notin gone
        <3>1. ASSUME NEW x, x \in QueuedIn(queues')
              PROVE  x \in QueuedIn(queues) /\ x \notin gone
            BY <3>1, QueuedFacts
        <3>2. ASSUME NEW x, x \in QueuedIn(queues), x \notin gone
              PROVE  x \in QueuedIn(queues')
            BY <3>2, QueuedFacts
        <3>. QED BY <3>1, <3>2, Zenon
    <2>2. Once(queues, received, lost, accepted)
        BY <1>1, OnceFacts
    <2>3. Once(queues', received', lost', accepted)
        BY <2>1, <2>2 DEF Once
    <2>. QED BY <2>3, OnceFacts
<1>4. DeliveryAuthorized'
    BY <1>1 DEF DeliveryAuthorized, InQueue
<1>. QED BY <1>2, <1>3, <1>4 DEF QInv

LEMMA DequeueStep ==
    ASSUME QInv, UNCHANGED <<lost, held>>, NEW p, dequeue_message(p),
           received' = received \cup {Head(queues[p].messages).arrival}
    PROVE  QInv' /\ Head(queues[p].messages) \in Stored
<1> DEFINE s == queues[p].messages
           h == Head(s)
<1>1. p \in DOMAIN queues /\ s # << >> /\ accepted' = accepted
    BY DEF dequeue_message, HasQueue
<1>2. QueuesOK /\ QueueOK(s, accepted)
    BY <1>1 DEF QInv, QueuesOK
<1>3. /\ QueueOK(Tail(s), accepted) /\ h \in Stored /\ h \in Range(s)
      /\ Range(Tail(s)) \subseteq Range(s)
      /\ \A x \in Range(s) : x \in Range(Tail(s)) \/ x = h
      /\ \A x \in Range(Tail(s)) : x.arrival # h.arrival
    BY <1>1, <1>2, Removed, Zenon
<1>4. /\ DOMAIN queues' = DOMAIN queues /\ queues'[p].messages = Tail(s)
      /\ \A r \in DOMAIN queues : r # p => queues'[r] = queues[r]
    BY <1>1, Zenon DEF dequeue_message, SetQueue, Dequeued
<1> HIDE DEF s, h
<1>5. InQueue(queues, p, h)
    BY <1>1, <1>3 DEF InQueue, s
<1>6. \A r \in DOMAIN queues' : QueueOK(queues'[r].messages, accepted)
    BY <1>2, <1>3, <1>4, ZenonT(30) DEF QueuesOK
<1>7. ASSUME NEW r, NEW x, InQueue(queues', r, x)
      PROVE  InQueue(queues, r, x) /\ x.arrival \notin {h.arrival}
    <2>1. CASE r = p
        BY <1>1, <1>3, <1>4, <1>7, <2>1 DEF InQueue, s
    <2>2. CASE r # p
        <3>1. InQueue(queues, r, x)
            BY <1>4, <1>7, <2>2 DEF InQueue
        <3>. QED BY <1>2, <1>5, <2>2, <3>1, OnePlace
    <2>. QED BY <2>1, <2>2
<1>8. ASSUME NEW r, NEW x, InQueue(queues, r, x)
      PROVE  InQueue(queues', r, x) \/ x.arrival \in {h.arrival}
    BY <1>3, <1>4, <1>8 DEF InQueue, s
<1>9. {h.arrival} \subseteq QueuedIn(queues)
    BY <1>5, QueuedFacts
<1>10. received' = received \cup {h.arrival}
    BY DEF h, s
<1>11. QInv'
    BY <1>1, <1>6, <1>7, <1>8, <1>9, <1>10, LeaveStep, ZenonT(30)
<1>. QED BY <1>3, <1>11 DEF h, s

LEMMA RemoveQueueStep ==
    ASSUME QInv, UNCHANGED <<received, held>>, NEW p, remove_message_queue(p),
           lost' = lost \cup Arrivals(p)
    PROVE  QInv'
<1>1. /\ p \in DOMAIN queues /\ accepted' = accepted
      /\ DOMAIN queues' = DOMAIN queues \ {p}
      /\ \A r \in DOMAIN queues' : queues'[r] = queues[r]
    BY DEF remove_message_queue, HasQueue, Restrict
<1>2. \A a : a \in Arrivals(p) <=> \E x : InQueue(queues, p, x) /\ a = x.arrival
    BY <1>1 DEF Arrivals, InQueue
<1>3. QueuesOK
    BY DEF QInv
<1>4. \A r \in DOMAIN queues' : QueueOK(queues'[r].messages, accepted)
    BY <1>1, <1>3 DEF QueuesOK
<1>5. ASSUME NEW r, NEW x, InQueue(queues', r, x)
      PROVE  InQueue(queues, r, x) /\ x.arrival \notin Arrivals(p)
    <2>1. InQueue(queues, r, x) /\ r # p
        BY <1>1, <1>5 DEF InQueue
    <2>. QED BY <1>2, <1>3, <2>1, OnePlace
<1>6. ASSUME NEW r, NEW x, InQueue(queues, r, x)
      PROVE  InQueue(queues', r, x) \/ x.arrival \in Arrivals(p)
    <2>1. CASE r = p
        BY <1>2, <1>6, <2>1
    <2>2. CASE r # p
        BY <1>1, <1>6, <2>2 DEF InQueue
    <2>. QED BY <2>1, <2>2
<1>7. Arrivals(p) \subseteq QueuedIn(queues)
    BY <1>2, QueuedFacts
<1>. QED BY <1>1, <1>4, <1>5, <1>6, <1>7, LeaveStep

-----------------------------------------------------------------------------
(* Capabilities: a set holds only what was granted to its process. *)
CapInv ==
    \A p \in Pids : \A cap \in process_capabilities[p] : <<p, cap.type, cap.resource>> \in held

LEMMA CapInitInv == CapInit => CapInv
BY DEF CapInit, CapInv

\* A grant adds a capability and what it allows; the sets of the others stay as they are.
LEMMA GrantStep ==
    ASSUME CapInv, NEW p, NEW type, NEW resource, Granted(p, type, resource)
    PROVE  CapInv'
<1> DEFINE cap == [id |-> next_capability_id, type |-> type, resource |-> resource, owner |-> p,
                   delegatable |-> FALSE]
<1>1. /\ process_capabilities' = [process_capabilities EXCEPT ![p] = @ \cup {cap}]
      /\ held' = held \cup {<<p, type, resource>>}
    BY DEF Granted
<1>2. cap.type = type /\ cap.resource = resource
    OBVIOUS
<1> HIDE DEF cap
<1>3. ASSUME NEW q \in Pids, NEW c \in process_capabilities'[q]
      PROVE  c \in process_capabilities[q] \/ (q = p /\ c = cap)
    BY <1>1, <1>3
<1>. QED BY <1>1, <1>2, <1>3, Zenon DEF CapInv

LEMMA RevokeStep ==
    ASSUME CapInv, NEW p, NEW id, revoke_capability(p, id)
    PROVE  CapInv'
<1>1. \A q \in Pids : process_capabilities'[q] \subseteq process_capabilities[q]
    BY DEF revoke_capability
<1>. QED BY <1>1, Zenon DEF CapInv, revoke_capability

LEMMA CapNextInv == CapInv /\ [CapNext]_capVars => CapInv'
<1> SUFFICES ASSUME CapInv, [CapNext]_capVars PROVE CapInv'
    OBVIOUS
<1>1. CASE \E p \in Pids, t \in Types, q \in Pids : create_capability(p, t, ProcessResource(q))
    BY <1>1, GrantStep DEF create_capability
<1>2. CASE \E p \in Pids, id \in 1..MaxCapabilities : revoke_capability(p, id)
    BY <1>2, RevokeStep
<1>3. CASE \E p \in Pids : grant_system_process_capabilities(p) \/ grant_user_process_capabilities(p)
    BY <1>3, Zenon DEF grant_system_process_capabilities, grant_user_process_capabilities, StartGrant, CapInv
<1>4. CASE GrantNext
    BY <1>4, GrantStep DEF GrantNext
<1>5. CASE \E a, b \in Pids : create_secure_ipc_channel(a, b) \/ ChannelOtherHalf(b, a)
    BY <1>5, GrantStep DEF create_secure_ipc_channel, ChannelOtherHalf
<1>6. CASE UNCHANGED capVars
    BY <1>6, Zenon DEF capVars, CapInv
<1>7. CASE \E p, q \in Pids, id \in 1..MaxCapabilities : delegate_capability(p, q, id)
    BY <1>6, <1>7, GrantStep DEF delegate_capability, create_capability
<1>. QED
    BY <1>1, <1>2, <1>3, <1>4, <1>5, <1>6, <1>7
    DEF CapNext, revoke_process_capabilities, cleanup_expired_capabilities

\* However grants, channels and revocations interleave: check_capability says yes only for
\* what was granted, for that resource or for any.
THEOREM EveryRightHasACause == CapSpec => []RightsHaveCause
<1>1. CapInv => RightsHaveCause
    BY DEF CapInv, RightsHaveCause, check_capability, matches
<1>. QED BY <1>1, CapInitInv, CapNextInv, PTL DEF CapSpec

-----------------------------------------------------------------------------
(* The contexts: what they carry, and that the right to send was checked. *)
CtxOK ==
    /\ next_message_id \in Nat
    /\ ctx = [c \in Contexts |-> ctx[c]]
    /\ \A c \in Contexts :
        /\ ctx[c].pc \in {"id", "sender", "receiver", "capability", "enqueue"} => ctx[c].msg \in Messages
        /\ ctx[c].pc = "received" => ctx[c].msg \in Stored
        /\ ctx[c].pc = "enqueue" => Authorized(held, ctx[c].msg)

IInv == QInv /\ CtxOK /\ CapInv

LEMMA GotoStep ==
    ASSUME CtxOK, held \subseteq held', next_message_id' \in Nat, NEW c \in Contexts, NEW pc, NEW msg,
           Goto(c, pc, msg),
           pc \in {"id", "sender", "receiver", "capability", "enqueue"} => msg \in Messages,
           pc = "received" => msg \in Stored,
           pc = "enqueue" => Authorized(held, msg)
    PROVE  CtxOK'
<1>1. /\ ctx' = [d \in Contexts |-> ctx'[d]]
      /\ ctx'[c].pc = pc /\ ctx'[c].msg = msg
      /\ \A d \in Contexts : d # c => ctx'[d] = ctx[d]
    BY DEF Goto, CtxOK
<1>2. \A m : Authorized(held, m) => Authorized(held', m)
    BY DEF Authorized
<1>3. ASSUME NEW d \in Contexts
      PROVE  /\ ctx'[d].pc \in {"id", "sender", "receiver", "capability", "enqueue"} => ctx'[d].msg \in Messages
             /\ ctx'[d].pc = "received" => ctx'[d].msg \in Stored
             /\ ctx'[d].pc = "enqueue" => Authorized(held', ctx'[d].msg)
    <2>1. CASE d = c
        BY <1>1, <1>2, <2>1
    <2>2. CASE d # c
        BY <1>1, <1>2, <2>2 DEF CtxOK
    <2>. QED BY <2>1, <2>2
<1>. QED BY <1>1, <1>3 DEF CtxOK

\* Steps that touch no queue
LEMMA QInvKept ==
    ASSUME QInv, UNCHANGED <<queues, accepted, received, lost>>, held \subseteq held'
    PROVE  QInv'
<1>1. QueuesOK'
    BY DEF QInv, QueuesOK
<1>2. ExactlyOnce'
    BY OnceFacts DEF QInv
<1>3. DeliveryAuthorized'
    BY DEF QInv, DeliveryAuthorized
<1>. QED BY <1>1, <1>2, <1>3 DEF QInv

LEMMA CapInvKept ==
    ASSUME CapInv, UNCHANGED capVars
    PROVE  CapInv' /\ held' = held
BY Zenon DEF CapInv, capVars

LEMMA LocalGoto ==
    ASSUME IInv, LocalStep, NEW c \in Contexts, NEW pc, NEW msg, Goto(c, pc, msg),
           pc \in {"id", "sender", "receiver", "capability", "enqueue"} => msg \in Messages,
           pc = "received" => msg \in Stored,
           pc = "enqueue" => Authorized(held, msg)
    PROVE  IInv'
<1>1. /\ UNCHANGED <<queues, accepted, received, lost>> /\ UNCHANGED capVars
      /\ next_message_id' = next_message_id
    BY DEF LocalStep, queueVars
<1>2. CapInv' /\ held' = held
    BY <1>1, CapInvKept DEF IInv
<1>3. QInv'
    BY <1>1, <1>2, QInvKept DEF IInv
<1>4. CtxOK'
    BY <1>1, <1>2, GotoStep DEF IInv, CtxOK
<1>. QED BY <1>2, <1>3, <1>4 DEF IInv

\* One call of a context
LEMMA CallStep ==
    ASSUME IInv, NEW c \in Contexts, Call(c)
    PROVE  IInv'
<1>1. /\ QInv /\ CtxOK /\ CapInv /\ next_message_id \in Nat
      /\ ctx[c].pc \in {"id", "sender", "receiver", "capability", "enqueue"} => ctx[c].msg \in Messages
      /\ ctx[c].pc = "received" => ctx[c].msg \in Stored
      /\ ctx[c].pc = "enqueue" => Authorized(held, ctx[c].msg)
    BY DEF IInv, CtxOK
<1>2. ASSUME NEW s \in Pids, NEW r \in Pids, NEW priority \in Nat, NEW size \in Sizes,
             ReadId(c, s, r, priority, size)
      PROVE  IInv'
    <2> DEFINE m == [sender |-> s, receiver |-> r, priority |-> priority, size |-> size,
                     message_id |-> next_message_id]
    <2>1. m \in Messages
        BY <1>1, IPCAssumption DEF Messages
    <2>2. Goto(c, "id", m) /\ LocalStep
        BY <1>2 DEF ReadId
    <2> HIDE DEF m
    <2>. QED BY <2>1, <2>2, LocalGoto
<1>3. CASE \E s, r \in Pids, priority \in MessagePriorities, size \in Sizes :
            s # r /\ create_message(c, s, r, priority, size)
    BY <1>2, <1>3, IPCAssumption DEF create_message
<1>4. CASE \E size \in Sizes : reply_message(c, size)
    BY <1>1, <1>2, <1>4 DEF reply_message, At, Stored
<1>5. CASE WriteId(c)
    <2>1. /\ UNCHANGED <<queues, accepted, received, lost>> /\ UNCHANGED capVars
          /\ next_message_id' = ctx[c].msg.message_id + 1
          /\ Goto(c, "sender", ctx[c].msg) /\ ctx[c].pc = "id"
        BY <1>5 DEF WriteId, queueVars, At
    <2>2. ctx[c].msg \in Messages /\ next_message_id' \in Nat
        <3>1. ctx[c].msg \in Messages
            BY <1>1, <2>1
        <3>2. ctx[c].msg.message_id \in Nat
            BY <3>1 DEF Messages
        <3>. QED BY <2>1, <3>1, <3>2
    <2>3. CapInv' /\ held' = held
        BY <1>1, <2>1, CapInvKept
    <2>4. QInv'
        BY <1>1, <2>1, <2>3, QInvKept
    <2>5. CtxOK'
        BY <1>1, <2>1, <2>2, <2>3, GotoStep
    <2>. QED BY <2>3, <2>4, <2>5 DEF IInv
<1>6. ASSUME LocalStep, Return(c)
      PROVE  IInv'
    BY <1>6, LocalGoto DEF Return
<1>7. CASE CheckSender(c)
    BY <1>1, <1>6, <1>7, LocalGoto DEF CheckSender, At
<1>8. CASE CheckReceiver(c)
    BY <1>1, <1>6, <1>8, LocalGoto DEF CheckReceiver, At
<1>9. CASE CheckCapability(c)
    <2>1. ctx[c].msg \in Messages /\ LocalStep
        BY <1>1, <1>9 DEF CheckCapability, At
    <2>2. CASE MaySend(ctx[c].msg)
        <3>1. ctx[c].msg.sender \in Pids
            BY <2>1 DEF Messages
        <3>2. Authorized(held, ctx[c].msg)
            BY <1>1, <2>2, <3>1 DEF MaySend, check_capability, matches, CapInv, Authorized
        <3>. QED BY <1>9, <2>1, <2>2, <3>2, LocalGoto DEF CheckCapability
    <2>3. CASE ~ MaySend(ctx[c].msg)
        BY <1>6, <1>9, <2>1, <2>3 DEF CheckCapability
    <2>. QED BY <2>2, <2>3
<1>10. CASE Enqueue(c)
    <2> DEFINE m == ctx[c].msg
    <2>1. /\ m \in Messages /\ Authorized(held, m) /\ Return(c)
          /\ enqueue_message(m.receiver, m) \/ enqueue_message_full(m.receiver, m)
          /\ UNCHANGED capVars /\ UNCHANGED <<received, lost>>
          /\ next_message_id' = next_message_id
        BY <1>1, <1>10 DEF Enqueue, At
    <2> HIDE DEF m
    <2>2. CapInv' /\ held' = held
        BY <1>1, <2>1, CapInvKept
    <2>3. ASSUME enqueue_message(m.receiver, m)
          PROVE  QInv'
        BY <1>1, <2>1, <2>2, <2>3, EnqueueStep
    <2>4. ASSUME enqueue_message_full(m.receiver, m)
          PROVE  QInv'
        <3>1. queues' = SetQueue(m.receiver, QueueOf(m.receiver)) /\ accepted' = accepted
            BY <2>4 DEF enqueue_message_full
        <3>. QED BY <1>1, <2>1, <2>2, <3>1, EmptyQueueStep
    <2>5. CtxOK'
        BY <1>1, <2>1, <2>2, GotoStep DEF Return
    <2>. QED BY <2>1, <2>2, <2>3, <2>4, <2>5 DEF IInv
<1>11. CASE \E p \in Pids : receive_message(c, p)
    BY <1>11, LocalGoto DEF receive_message
<1>12. CASE Dequeue(c)
    <2> DEFINE p == ctx[c].msg.receiver
    <2>1. /\ UNCHANGED capVars /\ next_message_id' = next_message_id /\ lost' = lost
          /\ \/ /\ dequeue_message(p)
                /\ received' = received \cup {Head(queues[p].messages).arrival}
                /\ Goto(c, "received", Head(queues[p].messages))
             \/ Return(c) /\ UNCHANGED <<queueVars, received>>
        BY <1>12, ZenonT(30) DEF Dequeue
    <2> HIDE DEF p
    <2>2. CapInv' /\ held' = held
        BY <1>1, <2>1, CapInvKept
    <2>3. CASE /\ dequeue_message(p)
               /\ received' = received \cup {Head(queues[p].messages).arrival}
               /\ Goto(c, "received", Head(queues[p].messages))
        <3>1. QInv' /\ Head(queues[p].messages) \in Stored
            BY <1>1, <2>1, <2>2, <2>3, DequeueStep
        <3>2. CtxOK'
            BY <1>1, <2>1, <2>2, <2>3, <3>1, GotoStep
        <3>. QED BY <2>2, <3>1, <3>2 DEF IInv
    <2>4. CASE Return(c) /\ UNCHANGED <<queueVars, received>>
        <3>1. QInv'
            BY <1>1, <2>1, <2>2, <2>4, QInvKept DEF queueVars
        <3>2. CtxOK'
            BY <1>1, <2>1, <2>2, <2>4, GotoStep DEF Return
        <3>. QED BY <2>2, <3>1, <3>2 DEF IInv
    <2>. QED BY <2>1, <2>3, <2>4
<1>13. CASE Forget(c)
    BY <1>6, <1>13 DEF Forget
<1>. QED BY <1>3, <1>4, <1>5, <1>7, <1>8, <1>9, <1>10, <1>11, <1>12, <1>13 DEF Call

LEMMA HeldGrows == [CapNext]_capVars => held \subseteq held'
<1>1. ASSUME NEW p, NEW type, NEW resource, Granted(p, type, resource)
      PROVE  held \subseteq held'
    BY <1>1 DEF Granted
<1>2. CASE UNCHANGED capVars
    BY <1>2 DEF capVars
<1>3. CASE \E p \in Pids, id \in 1..MaxCapabilities : revoke_capability(p, id)
    BY <1>3 DEF revoke_capability
<1>4. CASE \E p \in Pids : grant_system_process_capabilities(p) \/ grant_user_process_capabilities(p)
    BY <1>4, Zenon DEF grant_system_process_capabilities, grant_user_process_capabilities, StartGrant
<1>. QED
    BY <1>1, <1>2, <1>3, <1>4, Zenon
    DEF CapNext, create_capability, GrantNext, create_secure_ipc_channel, ChannelOtherHalf,
        revoke_process_capabilities, delegate_capability, cleanup_expired_capabilities

\* The queue system's own operations, and those of the capability manager
LEMMA ManageStep ==
    ASSUME IInv, Manage
    PROVE  IInv'
<1>1. CASE /\ \E p \in Pids : QueueOps(p)
           /\ UNCHANGED <<capVars, alive, next_message_id, ctx, made, received>>
    <2>1. PICK p \in Pids : QueueOps(p)
        BY <1>1
    <2>2. CapInv' /\ held' = held
        BY <1>1, CapInvKept DEF IInv
    <2>3. CtxOK'
        BY <1>1, <2>2 DEF IInv, CtxOK
    <2>4. ASSUME create_message_queue(p), UNCHANGED lost
          PROVE  QInv'
        <3>1. /\ queues' = SetQueue(p, MessageQueue) /\ accepted' = accepted
              /\ QueueOf(p) = MessageQueue
            BY <2>4 DEF create_message_queue, QueueOf
        <3>. QED BY <1>1, <2>2, <2>4, <3>1, EmptyQueueStep DEF IInv
    <2>5. ASSUME remove_message_queue(p), lost' = lost \cup Arrivals(p)
          PROVE  QInv'
        BY <1>1, <2>2, <2>5, RemoveQueueStep DEF IInv
    <2>. QED BY <2>1, <2>2, <2>3, <2>4, <2>5 DEF QueueOps, IInv
<1>2. CASE CapNext /\ UNCHANGED <<queueVars, ipcVars>>
    <2>1. CapInv' /\ held \subseteq held'
        BY <1>2, CapNextInv, HeldGrows DEF IInv
    <2>2. QInv'
        BY <1>2, <2>1, QInvKept DEF IInv, queueVars, ipcVars
    <2>3. ctx' = ctx /\ next_message_id' = next_message_id
        BY <1>2 DEF ipcVars
    <2>4. \A m : Authorized(held, m) => Authorized(held', m)
        BY <2>1 DEF Authorized
    <2>5. CtxOK'
        BY <2>3, <2>4 DEF IInv, CtxOK
    <2>. QED BY <2>1, <2>2, <2>5 DEF IInv
<1>3. (\/ \E a, b \in Pids : a # b /\ (create_secure_ipc_channel(a, b) \/ ChannelOtherHalf(b, a))
       \/ \E p \in Pids, id \in 1..MaxCapabilities : revoke_capability(p, id)
       \/ \E p \in Pids : \/ grant_system_process_capabilities(p)
                          \/ grant_user_process_capabilities(p)
       \/ GrantNext) => CapNext
    BY Zenon DEF CapNext
<1>. QED BY <1>1, <1>2, <1>3, Zenon DEF Manage

LEMMA InitIInv == Init => IInv
<1> SUFFICES ASSUME Init PROVE IInv
    OBVIOUS
<1>1. queues = << >> /\ accepted = 0 /\ received = {} /\ lost = {} /\ DOMAIN queues = {}
    BY DEF Init, QueueInit
<1>2. CapInv
    BY CapInitInv DEF Init
<1>3. CtxOK
    BY DEF Init, CtxOK
<1>4. QueuesOK
    BY <1>1 DEF QueuesOK, OneQueueEach
<1>5. ExactlyOnce
    BY <1>1 DEF ExactlyOnce
<1>6. DeliveryAuthorized
    BY <1>1 DEF DeliveryAuthorized
<1>. QED BY <1>2, <1>3, <1>4, <1>5, <1>6 DEF IInv, QInv

LEMMA NextIInv == IInv /\ [Next]_vars => IInv'
<1> SUFFICES ASSUME IInv, [Next]_vars PROVE IInv'
    OBVIOUS
<1>1. ASSUME UNCHANGED <<queueVars, capVars, next_message_id, ctx, received, lost>>
      PROVE  IInv'
    <2>1. CapInv' /\ held' = held
        BY <1>1, CapInvKept DEF IInv
    <2>2. QInv'
        BY <1>1, <2>1, QInvKept DEF IInv, queueVars
    <2>3. CtxOK'
        BY <1>1, <2>1 DEF IInv, CtxOK
    <2>. QED BY <2>1, <2>2, <2>3 DEF IInv
<1>2. CASE \E p \in Pids : remove_process(p)
    BY <1>1, <1>2 DEF remove_process
<1>3. CASE \E c \in Contexts : Call(c)
    BY <1>3, CallStep
<1>4. CASE Manage
    BY <1>4, ManageStep
<1>5. CASE UNCHANGED vars
    BY <1>1, <1>5 DEF vars, ipcVars
<1>. QED BY <1>2, <1>3, <1>4, <1>5 DEF Next

\* However sends, receipts, removals and revocations of any number of contexts and processes
\* interleave, a message that was taken in is queued once, or was received once, or went with
\* a removed queue.
THEOREM NoMessageTwice == Spec => []ExactlyOnce
<1>1. IInv => ExactlyOnce
    BY DEF IInv, QInv
<1>. QED BY <1>1, InitIInv, NextIInv, PTL DEF Spec

\* A message in a queue is for the owner of the queue, and its sender held the right to send
\* to it, although the check and the enqueue are two steps.
THEOREM OnlyAuthorizedMessages == Spec => []DeliveryAuthorized
<1>1. IInv => DeliveryAuthorized
    BY DEF IInv, QInv
<1>. QED BY <1>1, InitIInv, NextIInv, PTL DEF Spec

-----------------------------------------------------------------------------
(* total_size follows the messages. *)
Bytes(s) == [i \in DOMAIN s |-> s[i].size]

LEMMA BytesFacts ==
    ASSUME NEW s \in Seq(Stored)
    PROVE  /\ Bytes(s) \in Seq(Int) /\ Len(Bytes(s)) = Len(s)
           /\ \A i \in 1 .. Len(s) : Bytes(s)[i] = s[i].size /\ s[i].size \in Nat
           /\ TotalSize(s) = Sum(Bytes(s))
<1>1. DOMAIN s = 1 .. Len(s) /\ \A i \in 1 .. Len(s) : s[i] \in Stored
    OBVIOUS
<1>2. \A m \in Stored : m.size \in Nat
    BY DEF Stored
<1>. QED BY <1>1, <1>2 DEF Bytes, TotalSize

LEMMA SizeOfQueue ==
    ASSUME NEW s \in Seq(Stored)
    PROVE  TotalSize(s) \in Nat /\ \A i \in 1 .. Len(s) : s[i].size <= TotalSize(s)
<1>1. Bytes(s) \in [1 .. Len(s) -> Nat]
    <2>1. DOMAIN s = 1 .. Len(s) /\ \A i \in 1 .. Len(s) : s[i].size \in Nat
        BY BytesFacts
    <2>. QED BY <2>1 DEF Bytes
<1>2. IsFiniteSet(1 .. Len(s))
    BY FS_Interval
<1>3. Sum(Bytes(s)) \in Nat /\ \A i \in 1 .. Len(s) : Bytes(s)[i] <= Sum(Bytes(s))
    BY <1>1, <1>2, SumNat, Zenon
<1>. QED BY <1>3, BytesFacts

\* A queue t that is s with one more message at k has the size of both.
LEMMA OneMore ==
    ASSUME NEW s \in Seq(Stored), NEW t \in Seq(Stored), NEW k \in 1 .. Len(t),
           Len(t) = Len(s) + 1, \A i \in 1 .. Len(s) : s[i] = IF i < k THEN t[i] ELSE t[i + 1]
    PROVE  TotalSize(t) = TotalSize(s) + t[k].size
<1>1. Len(Bytes(t)) = Len(t) /\ Bytes(t) \in Seq(Int) /\ Len(t) \in Nat
    BY BytesFacts
<1>2. Bytes(s) = RemovedAt(Bytes(t), k)
    <2>1. DOMAIN s = 1 .. Len(t) - 1 /\ Len(Bytes(t)) = Len(t)
        BY <1>1
    <2>2. ASSUME NEW i \in 1 .. Len(t) - 1
          PROVE  s[i].size = IF i < k THEN Bytes(t)[i] ELSE Bytes(t)[i + 1]
        <3>1. i \in 1 .. Len(s) /\ i \in 1 .. Len(t) /\ i + 1 \in 1 .. Len(t)
            BY <1>1
        <3>2. Bytes(t)[i] = t[i].size /\ Bytes(t)[i + 1] = t[i + 1].size
            BY <3>1, BytesFacts
        <3>. QED BY <3>1, <3>2
    <2>. QED BY <2>1, <2>2 DEF Bytes, RemovedAt
<1>3. Sum(Bytes(t)) = Bytes(t)[k] + Sum(RemovedAt(Bytes(t), k))
    BY <1>1, SumRemovedAt
<1>4. Bytes(t)[k] = t[k].size /\ t[k].size \in Nat /\ TotalSize(s) \in Nat
    BY BytesFacts, SizeOfQueue
<1>. QED BY <1>2, <1>3, <1>4, BytesFacts

LEMMA InsertedSize ==
    ASSUME NEW s \in Seq(Stored), Sorted(s), NEW e \in Stored
    PROVE  TotalSize(Inserted(s, e)) = TotalSize(s) + e.size /\ Len(Inserted(s, e)) = Len(s) + 1
<1> DEFINE k == InsertPos(s, e)
           t == Inserted(s, e)
<1>1. k \in 1 .. Len(s) + 1
    BY InsertPosFacts
<1>2. IsInsertion(Stored, s, k, e, t)
    <2>1. t = InsertAt(s, k, e)
        BY DEF InsertAt, Inserted
    <2> HIDE DEF k
    <2>. QED BY <1>1, <2>1, InsertAtFacts
<1> HIDE DEF k, t
<1>3. /\ t \in Seq(Stored) /\ Len(t) = Len(s) + 1 /\ k \in 1 .. Len(t) /\ t[k] = e
      /\ \A i \in 1 .. Len(s) : s[i] = IF i < k THEN t[i] ELSE t[i + 1]
    BY <1>1, <1>2 DEF IsInsertion
<1>4. TotalSize(t) = TotalSize(s) + e.size
    BY <1>3, OneMore
<1>. QED BY <1>3, <1>4 DEF t

LEMMA TailSize ==
    ASSUME NEW s \in Seq(Stored), s # << >>
    PROVE  TotalSize(s) = TotalSize(Tail(s)) + Head(s).size /\ Len(Tail(s)) = Len(s) - 1
<1> DEFINE t == Tail(s)
<1>1. /\ t \in Seq(Stored) /\ Len(s) = Len(t) + 1 /\ Head(s) = s[1] /\ Len(s) \in Nat \ {0}
      /\ \A i \in 1 .. Len(t) : t[i] = s[i + 1]
    BY HeadTailProperties, EmptySeq
<1> HIDE DEF t
<1>2. 1 \in 1 .. Len(s) /\ \A i \in 1 .. Len(t) : t[i] = IF i < 1 THEN s[i] ELSE s[i + 1]
    BY <1>1
<1>3. TotalSize(s) = TotalSize(t) + s[1].size
    BY <1>1, <1>2, OneMore
<1>. QED BY <1>1, <1>3 DEF t

\* What a step does to the queues
QueueStep ==
    \/ queues' = queues
    \/ \E p : queues' = SetQueue(p, QueueOf(p))
    \/ \E m \in Messages : enqueue_message(m.receiver, m)
    \/ \E p : dequeue_message(p) \/ remove_message_queue(p)

LEMMA QueueSteps == IInv /\ [Next]_vars => QueueStep
<1> SUFFICES ASSUME IInv, [Next]_vars PROVE QueueStep
    OBVIOUS
<1>1. ASSUME UNCHANGED queueVars PROVE QueueStep
    BY <1>1 DEF queueVars, QueueStep
<1>2. ASSUME NEW c \in Contexts, Call(c) PROVE QueueStep
    <2>1. CASE Enqueue(c)
        <3> DEFINE m == ctx[c].msg
        <3>1. /\ m \in Messages
              /\ enqueue_message(m.receiver, m) \/ enqueue_message_full(m.receiver, m)
            BY <2>1 DEF Enqueue, At, IInv, CtxOK
        <3> HIDE DEF m
        <3>. QED BY <3>1, Zenon DEF QueueStep, enqueue_message_full
    <2>2. CASE Dequeue(c)
        BY <1>1, <2>2, Zenon DEF Dequeue, QueueStep
    <2>3. CASE LocalStep \/ WriteId(c)
        BY <1>1, <2>3, Zenon DEF LocalStep, WriteId
    <2>. QED
        BY <1>2, <2>1, <2>2, <2>3, Zenon
        DEF Call, create_message, reply_message, ReadId, CheckSender, CheckReceiver,
            CheckCapability, receive_message, Forget
<1>3. CASE Manage
    <2>1. ASSUME NEW p \in Pids, create_message_queue(p) PROVE QueueStep
        BY <2>1, Zenon DEF create_message_queue, QueueOf, QueueStep
    <2>. QED BY <1>1, <1>3, <2>1, Zenon DEF Manage, QueueOps, QueueStep
<1>4. CASE \E p \in Pids : remove_process(p)
    BY <1>1, <1>4, Zenon DEF remove_process
<1>5. CASE UNCHANGED vars
    BY <1>1, <1>5, Zenon DEF vars
<1>. QED BY <1>2, <1>3, <1>4, <1>5, Zenon DEF Next

Accounted(q) ==
    /\ q.total_size = TotalSize(q.messages)
    /\ q.total_size <= MaxSize /\ Len(q.messages) <= MaxMessages

LEMMA EmptyAccounted == Accounted(MessageQueue)
<1>1. DOMAIN Bytes(<< >>) = {} /\ TotalSize(<< >>) = Sum(Bytes(<< >>))
    BY DEF Bytes, TotalSize
<1>2. TotalSize(<< >>) = 0
    BY <1>1, SumEmpty
<1>. QED BY <1>2, QueueAssumption DEF Accounted, MessageQueue

\* One queue is replaced by one that is accounted for.
LEMMA OneAccounted ==
    ASSUME SizesAccounted, NEW p, NEW q, Accounted(q), queues' = SetQueue(p, q)
    PROVE  SizesAccounted'
<1>1. \A r \in DOMAIN queues : Accounted(queues[r])
    BY Zenon DEF SizesAccounted, Accounted
<1>2. /\ DOMAIN queues' = DOMAIN queues \cup {p} /\ queues'[p] = q
      /\ \A r \in DOMAIN queues : r # p => queues'[r] = queues[r]
    BY DEF SetQueue
<1>3. \A r \in DOMAIN queues' : Accounted(queues'[r])
    BY <1>1, <1>2
<1>. QED BY <1>3, Zenon DEF SizesAccounted, Accounted

LEMMA SizesStep == IInv /\ SizesAccounted /\ [Next]_vars => SizesAccounted'
<1> SUFFICES ASSUME IInv, SizesAccounted, [Next]_vars PROVE SizesAccounted'
    OBVIOUS
<1>1. \A p \in DOMAIN queues : Accounted(queues[p]) /\ QueueOK(queues[p].messages, accepted)
    BY Zenon DEF SizesAccounted, Accounted, IInv, QInv, QueuesOK
<1>2. \A p : Accounted(QueueOf(p)) /\ QueueOK(QueueOf(p).messages, accepted)
    BY <1>1, EmptyAccounted, EmptyQueueOK DEF QueueOf, HasQueue, MessageQueue
<1>3. CASE queues' = queues
    BY <1>3 DEF SizesAccounted
<1>4. CASE \E p : queues' = SetQueue(p, QueueOf(p))
    BY <1>2, <1>4, OneAccounted
<1>5. ASSUME NEW m \in Messages, enqueue_message(m.receiver, m) PROVE SizesAccounted'
    <2> DEFINE q == QueueOf(m.receiver)
               e == Stamped(m)
               n == Enqueued(q, e)
    <2>1. e \in Stored /\ e.size = m.size /\ m.size \in Nat
        <3>1. accepted \in Nat
            BY DEF IInv, QInv, QueuesOK
        <3>2. e \in Stored
            BY <3>1, StampedFacts
        <3>. QED BY <3>2 DEF Stamped, Messages
    <2>2. can_accept_message(q, m) /\ queues' = SetQueue(m.receiver, n)
        BY <1>5 DEF enqueue_message
    <2>3. Accounted(q) /\ q.messages \in Seq(Stored) /\ Sorted(q.messages)
        BY <1>2 DEF QueueOK
    <2> HIDE DEF q, e
    <2>4. /\ TotalSize(Inserted(q.messages, e)) = TotalSize(q.messages) + e.size
          /\ Len(Inserted(q.messages, e)) = Len(q.messages) + 1
        BY <2>1, <2>3, InsertedSize
    <2>5. /\ n.messages = Inserted(q.messages, e) /\ n.total_size = q.total_size + e.size
        BY DEF Enqueued
    <2>6. Accounted(n)
        <3>1. Len(q.messages) \in Nat /\ Len(q.messages) < MaxMessages
              /\ q.total_size + m.size <= MaxSize
            BY <2>2, <2>3 DEF can_accept_message
        <3> HIDE DEF n
        <3>. QED BY <2>1, <2>3, <2>4, <2>5, <3>1, QueueAssumption DEF Accounted
    <2> HIDE DEF n
    <2>. QED BY <2>2, <2>6, OneAccounted
<1>6. ASSUME NEW p, dequeue_message(p) PROVE SizesAccounted'
    <2> DEFINE q == queues[p]
               n == Dequeued(q)
    <2>1. p \in DOMAIN queues /\ q.messages # << >> /\ queues' = SetQueue(p, n)
        BY <1>6, Zenon DEF dequeue_message, HasQueue
    <2>2. Accounted(q) /\ q.messages \in Seq(Stored)
        BY <1>1, <2>1 DEF QueueOK
    <2> HIDE DEF q
    <2>3. /\ TotalSize(q.messages) = TotalSize(Tail(q.messages)) + Head(q.messages).size
          /\ Len(Tail(q.messages)) = Len(q.messages) - 1
        BY <2>1, <2>2, TailSize
    <2>4. /\ Tail(q.messages) \in Seq(Stored) /\ Head(q.messages) \in Stored
          /\ Len(q.messages) \in Nat
        BY <2>1, <2>2
    <2>5. TotalSize(Tail(q.messages)) \in Nat /\ Head(q.messages).size \in Nat
        BY <2>4, SizeOfQueue DEF Stored
    <2>6. /\ n.messages = Tail(q.messages)
          /\ n.total_size = IF Head(q.messages).size > q.total_size THEN 0
                            ELSE q.total_size - Head(q.messages).size
        BY DEF Dequeued
    <2> HIDE DEF n
    <2>7. Accounted(n)
        BY <2>2, <2>3, <2>4, <2>5, <2>6, QueueAssumption DEF Accounted
    <2>. QED BY <2>1, <2>7, OneAccounted
<1>7. ASSUME NEW p, remove_message_queue(p) PROVE SizesAccounted'
    <2>1. DOMAIN queues' \subseteq DOMAIN queues /\ \A r \in DOMAIN queues' : queues'[r] = queues[r]
        BY <1>7 DEF remove_message_queue, Restrict
    <2>. QED BY <2>1 DEF SizesAccounted
<1>. QED BY <1>3, <1>4, <1>5, <1>6, <1>7, QueueSteps, Zenon DEF QueueStep

\* Every queue is sorted by priority and, within a priority, by arrival, holds no more
\* messages and bytes than its limits, and counts the bytes it holds exactly: the subtraction
\* of dequeue never saturates.
THEOREM QueuesStayWellFormed == Spec => []QueuesWellFormed
<1>1. Init => SizesAccounted
    BY DEF Init, QueueInit, SizesAccounted
<1>2. IInv /\ SizesAccounted => QueuesWellFormed
    BY DEF IInv, QInv, QueuesOK, QueueOK, Sorted, PriorityThenFIFO, QueuesWellFormed
<1>. QED BY <1>1, <1>2, InitIInv, NextIInv, SizesStep, PTL DEF Spec
=============================================================================
