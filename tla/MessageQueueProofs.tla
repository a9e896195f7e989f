------------------------- MODULE MessageQueueProofs -------------------------
(* The growing circular queue of MessageQueue.c is a first-in first-out      *)
(* queue, for every capacity, content and position of head and tail. The     *)
(* lemmas speak of the fields of a queue: array A, head h, tail t, size n,    *)
(* capacity k and event e.                                                    *)
EXTENDS MessageQueue, TLAPS, SequenceTheorems

Queue(A, h, t, n, k, e) ==
    [array |-> A, head |-> h, tail |-> t, size |-> n, capacity |-> k, event |-> e]

Items(A, h, n, k) == [i \in 1..n |-> A[At(h, k, i - 1)]]

Fields(A, h, t, n, k, e, S) ==
    /\ h \in Nat /\ t \in Nat /\ n \in Nat /\ k \in Nat
    /\ A \in [0..(k - 1) -> S \cup {Zero}]
    /\ k > 0 /\ n <= k /\ h < k /\ t = At(h, k, n) /\ e = (n > 0)
    /\ \A i \in 0..(n - 1) : A[At(h, k, i)] \in S

\* q is a well formed queue with these fields
HasFields(q, A, h, t, n, k, e, S) ==
    /\ Fields(A, h, t, n, k, e, S)
    /\ Contents(q) = Items(A, h, n, k)
    /\ q.array = A /\ q.head = h /\ q.tail = t /\ q.size = n /\ q.capacity = k /\ q.event = e

\* a queue is well formed when its fields are
LEMMA QueueIntro ==
    ASSUME NEW A, NEW h, NEW t, NEW n, NEW k, NEW e, NEW S, Fields(A, h, t, n, k, e, S)
    PROVE  /\ WellFormed(Queue(A, h, t, n, k, e), S)
           /\ Contents(Queue(A, h, t, n, k, e)) = Items(A, h, n, k)
<1> DEFINE q == Queue(A, h, t, n, k, e)
<1>1. /\ q.array = A /\ q.head = h /\ q.tail = t /\ q.size = n /\ q.capacity = k /\ q.event = e
  BY DEF Queue
<1>2. e \in BOOLEAN BY DEF Fields
<1>3. q \in [array : [0..(k - 1) -> S \cup {Zero}], head : Nat, tail : Nat, size : Nat,
             capacity : Nat, event : BOOLEAN]
  BY <1>2 DEF Queue, Fields
<1>4. WellFormed(q, S)
  BY <1>1, <1>3, Zenon DEF WellFormed, Slot, Fields
<1>5. Contents(q) = Items(A, h, n, k)
  BY <1>1, Zenon DEF Contents, Items, Slot
<1> QED BY <1>4, <1>5

\* and every well formed queue is given by such fields
LEMMA QueueElim ==
    ASSUME NEW q, NEW S, WellFormed(q, S)
    PROVE  \E A, h, t, n, k, e : HasFields(q, A, h, t, n, k, e, S)
<1>1. Fields(q.array, q.head, q.tail, q.size, q.capacity, q.event, S)
  <2>1. q \in [array : [0..(q.capacity - 1) -> S \cup {Zero}],
               head : Nat, tail : Nat, size : Nat, capacity : Nat, event : BOOLEAN]
    BY Zenon DEF WellFormed
  <2>2. /\ q.array \in [0..(q.capacity - 1) -> S \cup {Zero}]
        /\ q.head \in Nat /\ q.tail \in Nat /\ q.size \in Nat /\ q.capacity \in Nat
    BY <2>1
  <2> QED BY <2>2, Zenon DEF WellFormed, Fields, Slot
<1>2. Contents(q) = Items(q.array, q.head, q.size, q.capacity)
  BY Zenon DEF Contents, Items, Slot
<1>3. HasFields(q, q.array, q.head, q.tail, q.size, q.capacity, q.event, S)
  BY <1>1, <1>2, Zenon DEF HasFields
<1> QED BY <1>3, Zenon

\* one step around the buffer
LEMMA Wrap ==
    ASSUME NEW c \in Nat, c > 0, NEW i \in Nat, i < c
    PROVE  (i + 1) % c = IF i + 1 = c THEN 0 ELSE i + 1
<1>1. CASE i + 1 = c BY <1>1
<1>2. CASE i + 1 < c BY <1>2
<1> QED BY <1>1, <1>2

\* MessageQueue_New: empty
LEMMA NewQueue ==
    ASSUME NEW c \in Nat \ {0}, NEW S
    PROVE  /\ WellFormed(MessageQueue_New(c), S)
           /\ Contents(MessageQueue_New(c)) = <<>>
<1> DEFINE A == [i \in 0..(c - 1) |-> Zero]
<1>1. MessageQueue_New(c) = Queue(A, 0, 0, 0, c, FALSE)
  BY DEF MessageQueue_New, Queue
<1>2. Fields(A, 0, 0, 0, c, FALSE, S)
  <2>1. ~(0 > 0) OBVIOUS
  <2>2. FALSE = (0 > 0) BY <2>1
  <2>3. A \in [0..(c - 1) -> S \cup {Zero}] OBVIOUS
  <2>4. 0 = At(0, c, 0) BY DEF At
  <2>5. \A i \in 0..(0 - 1) : A[At(0, c, i)] \in S OBVIOUS
  <2> HIDE DEF A
  <2> QED BY <2>2, <2>3, <2>4, <2>5 DEF Fields
<1>3. Items(A, 0, 0, c) = <<>> BY DEF Items
<1> QED BY <1>1, <1>2, <1>3, QueueIntro

\* what a queue holds is a sequence of messages
LEMMA ItemsType ==
    ASSUME NEW A, NEW h, NEW t, NEW n, NEW k, NEW e, NEW S, Fields(A, h, t, n, k, e, S)
    PROVE  Items(A, h, n, k) \in Seq(S) /\ Len(Items(A, h, n, k)) = n
<1>1. n \in Nat /\ \A i \in 0..(n - 1) : A[At(h, k, i)] \in S BY DEF Fields
<1>2. \A i \in 1..n : A[At(h, k, i - 1)] \in S BY <1>1
<1> QED BY <1>1, <1>2 DEF Items

\* the contents of a queue have its size
LEMMA ContentsType ==
    ASSUME NEW S, NEW q, WellFormed(q, S)
    PROVE  Contents(q) \in Seq(S) /\ Len(Contents(q)) = q.size
<1>1. PICK A, h, t, n, k, e : HasFields(q, A, h, t, n, k, e, S)
  BY QueueElim, Zenon
<1>2. Fields(A, h, t, n, k, e, S) /\ Contents(q) = Items(A, h, n, k) /\ q.size = n
  BY <1>1, Zenon DEF HasFields
<1>3. Items(A, h, n, k) \in Seq(S) /\ Len(Items(A, h, n, k)) = n
  BY <1>2, ItemsType
<1> QED BY <1>2, <1>3, Zenon

\* a full queue that doubles holds what it held
LEMMA GrowKeeps ==
    ASSUME NEW S, NEW q, WellFormed(q, S), q.size = q.capacity
    PROVE  /\ WellFormed(Grow(q), S)
           /\ Contents(Grow(q)) = Contents(q)
           /\ Grow(q).size # Grow(q).capacity
<1>0. PICK A, h, t, n, k, e : HasFields(q, A, h, t, n, k, e, S)
  BY QueueElim, Zenon
<1>1. /\ Fields(A, h, t, n, k, e, S)
      /\ Contents(q) = Items(A, h, n, k)
      /\ q.array = A /\ q.head = h /\ q.tail = t /\ q.size = n /\ q.capacity = k /\ q.event = e
  BY <1>0, Zenon DEF HasFields
<1>2. /\ h \in Nat /\ t \in Nat /\ n \in Nat /\ k \in Nat /\ k > 0 /\ h < k /\ t = At(h, k, n)
      /\ A \in [0..(k - 1) -> S \cup {Zero}] /\ e = (n > 0)
      /\ \A i \in 0..(n - 1) : A[At(h, k, i)] \in S
  BY <1>1, Zenon DEF Fields
<1>3. n = k /\ t = h
  <2>1. n = k BY <1>1, Zenon
  <2> QED BY <1>2, <2>1 DEF At
<1> DEFINE B == [i \in 0..(2 * k - 1) |->
                    IF i < k THEN A[i] ELSE IF i - k < t THEN A[i - k] ELSE Zero]
<1>4. Grow(q) = Queue(B, h, t + k, n, 2 * k, e)
  BY <1>1, Zenon DEF Grow, Queue
<1>5. B \in [0..(2 * k - 1) -> S \cup {Zero}] BY <1>2, <1>3
<1>6. \A i \in 0..(n - 1) : B[At(h, 2 * k, i)] = A[At(h, k, i)]
  BY <1>2, <1>3 DEF At
<1> HIDE DEF B
<1>7. Fields(B, h, t + k, n, 2 * k, e, S)
  <2>1. /\ t + k \in Nat /\ 2 * k \in Nat /\ 2 * k > 0 /\ n <= 2 * k /\ h < 2 * k
        /\ t + k = At(h, 2 * k, n)
    BY <1>2, <1>3 DEF At
  <2>2. \A i \in 0..(n - 1) : B[At(h, 2 * k, i)] \in S BY <1>2, <1>6
  <2> QED BY <1>2, <1>5, <2>1, <2>2, Zenon DEF Fields
<1>8. Items(B, h, n, 2 * k) = Items(A, h, n, k)
  <2>1. \A i \in 1..n : B[At(h, 2 * k, i - 1)] = A[At(h, k, i - 1)] BY <1>2, <1>6
  <2> QED BY <2>1, Zenon DEF Items
<1>9. n # 2 * k BY <1>2, <1>3
<1>10. Grow(q).size = n /\ Grow(q).capacity = 2 * k BY <1>4 DEF Queue
<1> QED BY <1>1, <1>4, <1>7, <1>8, <1>9, <1>10, QueueIntro

\* storing in a queue that is not full appends
LEMMA StoreAppends ==
    ASSUME NEW S, NEW q, WellFormed(q, S), NEW m \in S, q.size # q.capacity
    PROVE  /\ WellFormed(Store(q, m), S)
           /\ Contents(Store(q, m)) = Append(Contents(q), m)
<1>0. PICK A, h, t, n, k, e : HasFields(q, A, h, t, n, k, e, S)
  BY QueueElim, Zenon
<1>1. /\ Fields(A, h, t, n, k, e, S)
      /\ Contents(q) = Items(A, h, n, k)
      /\ q.array = A /\ q.head = h /\ q.tail = t /\ q.size = n /\ q.capacity = k /\ q.event = e
  BY <1>0, Zenon DEF HasFields
<1>2. /\ h \in Nat /\ t \in Nat /\ n \in Nat /\ k \in Nat /\ k > 0 /\ h < k /\ t = At(h, k, n)
      /\ A \in [0..(k - 1) -> S \cup {Zero}] /\ n <= k
      /\ \A i \in 0..(n - 1) : A[At(h, k, i)] \in S
  BY <1>1, Zenon DEF Fields
<1>3. n < k /\ t < k BY <1>1, <1>2 DEF At
<1>4. PICK w : w = n + 1 OBVIOUS
<1>5. PICK f : f = (w > 0) OBVIOUS
<1>6. w > 0 /\ w \in Nat /\ w <= k BY <1>2, <1>3, <1>4
<1>7. f = TRUE BY <1>5, <1>6
<1>8. PICK u : u = (t + 1) % k OBVIOUS
<1>9. u = IF t + 1 = k THEN 0 ELSE t + 1 BY <1>2, <1>3, <1>8, Wrap
<1>10. PICK B : B = [A EXCEPT ![t] = m] OBVIOUS
<1>11. Store(q, m) = Queue(B, h, u, w, k, f)
  BY <1>1, <1>4, <1>7, <1>8, <1>10, Zenon DEF Store, Queue
<1>12. B \in [0..(k - 1) -> S \cup {Zero}] BY <1>2, <1>3, <1>10
<1>13. \A i \in 0..(n - 1) : B[At(h, k, i)] = A[At(h, k, i)]
  BY <1>2, <1>3, <1>10 DEF At
<1>14. B[At(h, k, n)] = m BY <1>2, <1>3, <1>10 DEF At
<1>15. Fields(B, h, u, w, k, f, S)
  <2>1. \A i \in 0..(w - 1) : B[At(h, k, i)] \in S BY <1>2, <1>4, <1>13, <1>14
  <2>2. u \in Nat /\ u = At(h, k, w) BY <1>2, <1>3, <1>4, <1>9 DEF At
  <2> QED BY <1>2, <1>5, <1>6, <1>12, <2>1, <2>2, Zenon DEF Fields
<1>16. Items(B, h, w, k) = Append(Items(A, h, n, k), m)
  <2>1. Items(A, h, n, k) \in Seq(S) /\ Len(Items(A, h, n, k)) = n BY <1>1, ItemsType
  <2>2. Items(B, h, w, k) \in Seq(S) /\ Len(Items(B, h, w, k)) = w BY <1>15, ItemsType
  <2>3. \A i \in 1..n : Items(B, h, w, k)[i] = Items(A, h, n, k)[i]
    BY <1>2, <1>4, <1>13 DEF Items
  <2>4. Items(B, h, w, k)[w] = m BY <1>2, <1>4, <1>14 DEF Items
  <2> QED BY <1>2, <1>4, <2>1, <2>2, <2>3, <2>4
<1> QED BY <1>1, <1>11, <1>15, <1>16, QueueIntro

\* MessageQueue_Dispatch appends the message to what the queue holds, also when
\* the queue is full and doubles while its contents wrap around the end.
THEOREM DispatchAppends ==
    ASSUME NEW S, NEW q, WellFormed(q, S), NEW m \in S
    PROVE  /\ WellFormed(MessageQueue_Dispatch(q, m), S)
           /\ Contents(MessageQueue_Dispatch(q, m)) = Append(Contents(q), m)
<1>1. CASE q.size = q.capacity
  BY <1>1, GrowKeeps, StoreAppends DEF MessageQueue_Dispatch
<1>2. CASE q.size # q.capacity
  BY <1>2, StoreAppends DEF MessageQueue_Dispatch
<1> QED BY <1>1, <1>2

\* MessageQueue_Get and MessageQueue_Peek take the oldest message and leave the
\* others in their order.
THEOREM DequeueTakesFirst ==
    ASSUME NEW S, NEW q, WellFormed(q, S), q.size > 0
    PROVE  /\ WellFormed(Dequeue(q), S)
           /\ Contents(q) # <<>>
           /\ Oldest(q) \in S
           /\ Oldest(q) = Head(Contents(q))
           /\ Contents(Dequeue(q)) = Tail(Contents(q))
<1>0. PICK A, h, t, n, k, e : HasFields(q, A, h, t, n, k, e, S)
  BY QueueElim, Zenon
<1>1. /\ Fields(A, h, t, n, k, e, S)
      /\ Contents(q) = Items(A, h, n, k)
      /\ q.array = A /\ q.head = h /\ q.tail = t /\ q.size = n /\ q.capacity = k /\ q.event = e
  BY <1>0, Zenon DEF HasFields
<1>2. /\ h \in Nat /\ t \in Nat /\ n \in Nat /\ k \in Nat /\ k > 0 /\ h < k /\ t = At(h, k, n)
      /\ A \in [0..(k - 1) -> S \cup {Zero}] /\ n <= k
      /\ \A i \in 0..(n - 1) : A[At(h, k, i)] \in S
  BY <1>1, Zenon DEF Fields
<1>3. n > 0 BY <1>1
<1> DEFINE B == [A EXCEPT ![h] = Zero]
           g == IF h + 1 = k THEN 0 ELSE h + 1
<1>4. Dequeue(q) = Queue(B, g, t, n - 1, k, n > 1)
  <2>1. (h + 1) % k = g BY <1>2, Wrap
  <2> QED BY <1>1, <2>1, Zenon DEF Dequeue, Queue
<1>5. B \in [0..(k - 1) -> S \cup {Zero}] BY <1>2
<1>6. \A i \in 0..(n - 2) : B[At(g, k, i)] = A[At(h, k, i + 1)]
  BY <1>2, <1>3 DEF At
<1>7. g \in Nat /\ g < k /\ t = At(g, k, n - 1) BY <1>2, <1>3 DEF At
<1> HIDE DEF B, g
<1>8. Fields(B, g, t, n - 1, k, n > 1, S)
  <2>1. \A i \in 0..(n - 1 - 1) : B[At(g, k, i)] \in S BY <1>2, <1>6
  <2>2. n - 1 \in Nat /\ n - 1 <= k BY <1>2, <1>3
  <2>3. (n > 1) = (n - 1 > 0) BY <1>2
  <2> QED BY <1>2, <1>5, <1>7, <2>1, <2>2, <2>3, Zenon DEF Fields
<1>9. Items(A, h, n, k) \in Seq(S) /\ Len(Items(A, h, n, k)) = n BY <1>1, ItemsType
<1>10. Items(B, g, n - 1, k) = Tail(Items(A, h, n, k))
  <2>1. Items(B, g, n - 1, k) \in Seq(S) /\ Len(Items(B, g, n - 1, k)) = n - 1
    BY <1>8, ItemsType
  <2>2. \A i \in 1..(n - 1) : Items(B, g, n - 1, k)[i] = Items(A, h, n, k)[i + 1]
    BY <1>2, <1>6 DEF Items
  <2> HIDE DEF Items
  <2> QED BY <1>2, <1>3, <1>9, <2>1, <2>2
<1>11. A[h] = Items(A, h, n, k)[1] /\ A[h] \in S
  <2>1. At(h, k, 0) = h BY <1>2 DEF At
  <2> QED BY <1>2, <1>3, <2>1 DEF Items
<1>12. Oldest(q) = A[h] BY <1>1, Zenon DEF Oldest
<1>13. Contents(q) # <<>> /\ Oldest(q) = Head(Contents(q))
  BY <1>1, <1>3, <1>9, <1>11, <1>12
<1> QED BY <1>1, <1>4, <1>8, <1>10, <1>11, <1>12, <1>13, QueueIntro

-----------------------------------------------------------------------------
(* The contents of a queue beside what has been taken from it, as sequences. *)

\* moving the first of the one sequence behind the other
LEMMA MoveHead ==
    ASSUME NEW S, NEW u \in Seq(S), NEW v \in Seq(S), v # <<>>
    PROVE  Append(u, Head(v)) \o Tail(v) = u \o v
OBVIOUS

\* appending to the second of two sequences
LEMMA AppendBehind ==
    ASSUME NEW S, NEW u \in Seq(S), NEW v \in Seq(S), NEW x \in S
    PROVE  u \o Append(v, x) = Append(u \o v, x)
OBVIOUS

\* a sequence of one element has nothing behind its head
LEMMA OneMore ==
    ASSUME NEW T, NEW u \in Seq(T), NEW v \in Seq(T), Len(v) = 1
    PROVE  u \o Tail(v) = u
<1>1. Tail(v) = <<>>
  <2>1. v # <<>> OBVIOUS
  <2>2. Tail(v) \in Seq(T) /\ Len(Tail(v)) = Len(v) - 1 BY <2>1, HeadTailProperties
  <2>3. Len(Tail(v)) = 0 BY <2>2
  <2>4. Tail(v) # <<>> => Len(Tail(v)) # 0 BY <2>2, EmptySeq
  <2> QED BY <2>3, <2>4
<1>2. u \o <<>> = u OBVIOUS
<1> QED BY <1>1, <1>2

\* a message that is nowhere in p does not come first in what p ends with
LEMMA QuitComesNot ==
    ASSUME NEW T, NEW x, NEW p \in Seq(T), NEW u \in Seq(T), NEW v \in Seq(T),
           \A i \in 1..Len(p) : p[i] # x, v # <<>>, Head(v) = x
    PROVE  u \o v # p
<1>1. Len(v) > 0 /\ v[1] = x OBVIOUS
<1>2. Len(u \o v) = Len(u) + Len(v) OBVIOUS
<1>3. (u \o v)[Len(u) + 1] = x BY <1>1
<1>4. Len(u) + 1 \in 1..Len(u \o v) BY <1>1, <1>2
<1> QED BY <1>3, <1>4

\* a message that comes first and is nowhere in p comes after all of it
LEMMA QuitIsLast ==
    ASSUME NEW T, NEW x \in T, NEW p \in Seq(T), NEW u \in Seq(T), NEW v \in Seq(T),
           \A i \in 1..Len(p) : p[i] # x,
           v # <<>>, Head(v) = x, u \o v = Append(p, x)
    PROVE  u \o Tail(v) = p
<1>1. Len(v) > 0 /\ v[1] = x OBVIOUS
<1>2. Len(u) + Len(v) = Len(p) + 1
  <2>1. Len(u \o v) = Len(u) + Len(v) OBVIOUS
  <2>2. Len(Append(p, x)) = Len(p) + 1 OBVIOUS
  <2> QED BY <2>1, <2>2
<1>3. Append(p, x)[Len(u) + 1] = x
  <2>1. (u \o v)[Len(u) + 1] = v[1] BY <1>1
  <2> QED BY <1>1, <2>1
<1>4. Len(u) = Len(p)
  <2>1. Len(u) <= Len(p) BY <1>1, <1>2
  <2>2. CASE Len(u) < Len(p)
    <3>1. Len(u) + 1 \in 1..Len(p) BY <2>2
    <3>2. Append(p, x)[Len(u) + 1] = p[Len(u) + 1] BY <3>1
    <3> QED BY <1>3, <3>1, <3>2
  <2> QED BY <2>1, <2>2
<1>5. Len(v) = 1
  <2>1. Len(u) \in Nat /\ Len(v) \in Nat OBVIOUS
  <2>2. \A a, b \in Nat : a + b = a + 1 => b = 1 OBVIOUS
  <2> QED BY ONLY <1>2, <1>4, <2>1, <2>2
<1>6. u \o Tail(v) = u BY ONLY <1>5, u \in Seq(T), v \in Seq(T), OneMore
<1>7. \A i \in 1..Len(p) : u[i] = p[i]
  <2> TAKE i \in 1..Len(p)
  <2>1. (u \o v)[i] = u[i] BY <1>4
  <2>2. Append(p, x)[i] = p[i] OBVIOUS
  <2> QED BY <2>1, <2>2
<1>8. u = p BY <1>4, <1>7
<1> QED BY <1>6, <1>8

=============================================================================
