---------------------------- MODULE MessageQueue ----------------------------
(* winpr/libwinpr/utils/collections/MessageQueue.c: the growing circular     *)
(* queue through which the threads of the client hand each other messages.   *)
(* Every function of it runs under queue->lock, so each is one operator on   *)
(* the value of the queue; a caller of MessageQueue_Wait blocks until the    *)
(* event is set. The time stamp of a message, which nothing reads, is left   *)
(* out, and so is the failure of an allocation.                              *)
EXTENDS Integers, Sequences

CONSTANTS WMQ_QUIT,  \* MessageQueue_PostQuit's message
          Zero       \* what calloc and ZeroMemory leave in a slot

MessageQueue_New(capacity) ==
    [array |-> [i \in 0..(capacity - 1) |-> Zero],
     head |-> 0, tail |-> 0, size |-> 0, capacity |-> capacity, event |-> FALSE]

\* mutant: what lies before tail stays where it is
GrowInPlace(q) ==
    LET old == q.capacity
    IN  [array |-> [i \in 0..(2 * old - 1) |-> IF i < old THEN q.array[i] ELSE Zero],
         head |-> q.head, tail |-> q.tail + old, size |-> q.size, capacity |-> 2 * old,
         event |-> q.event]

\* a full queue doubles: the slots before tail move behind the old end, so that
\* what the queue holds is contiguous from head on
Grow(q) ==
    LET old == q.capacity
    IN  [array |-> [i \in 0..(2 * old - 1) |->
                       IF i < old THEN q.array[i]
                       ELSE IF i - old < q.tail THEN q.array[i - old]
                       ELSE Zero],
         head |-> q.head, tail |-> q.tail + old, size |-> q.size, capacity |-> 2 * old,
         event |-> q.event]

\* mutant: tail does not wrap
StoreUnwrapped(q, m) ==
    [array |-> [q.array EXCEPT ![q.tail] = m], head |-> q.head,
     tail |-> q.tail + 1, size |-> q.size + 1, capacity |-> q.capacity,
     event |-> TRUE]

Store(q, m) ==
    [array |-> [q.array EXCEPT ![q.tail] = m], head |-> q.head,
     tail |-> (q.tail + 1) % q.capacity, size |-> q.size + 1, capacity |-> q.capacity,
     event |-> TRUE]

MessageQueue_Dispatch(q, m) == Store(IF q.size = q.capacity THEN Grow(q) ELSE q, m)

\* MessageQueue_Wait returns
MessageQueue_Wait(q) == q.event

\* the message MessageQueue_Get and MessageQueue_Peek(..., TRUE) return, and
\* the queue they leave; both do nothing on an empty queue
Oldest(q) == q.array[q.head]

Dequeue(q) ==
    [array |-> [q.array EXCEPT ![q.head] = Zero], head |-> (q.head + 1) % q.capacity,
     tail |-> q.tail, size |-> q.size - 1, capacity |-> q.capacity, event |-> q.size > 1]

-----------------------------------------------------------------------------
\* the i-th slot from head on
At(head, capacity, i) == IF head + i < capacity THEN head + i ELSE head + i - capacity
Slot(q, i) == At(q.head, q.capacity, i)

\* the messages the queue holds, oldest first
Contents(q) == [i \in 1..q.size |-> q.array[Slot(q, i - 1)]]

\* a queue of messages in S: size slots from head, circularly, up to tail
WellFormed(q, S) ==
    /\ q \in [array : [0..(q.capacity - 1) -> S \cup {Zero}],
              head : Nat, tail : Nat, size : Nat, capacity : Nat, event : BOOLEAN]
    /\ q.capacity > 0
    /\ q.size <= q.capacity
    /\ q.head < q.capacity
    /\ q.tail = Slot(q, q.size)
    /\ q.event = (q.size > 0)
    /\ \A i \in 0..(q.size - 1) : q.array[Slot(q, i)] \in S
=============================================================================
