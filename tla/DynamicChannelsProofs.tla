----------------------- MODULE DynamicChannelsProofs -----------------------
(* PDUs are handled in the order of their arrival, nothing a thread uses is   *)
(* freed under it, the capabilities are told first, at most one write of each *)
(* thread is late, the pieces of a message stay together on their way to the  *)
(* server and the server's messages are delivered whole and in order, for     *)
(* every set of channel ids, every queue capacity and any number of PDUs,     *)
(* writes and connections. The queue is replaced by its contents with the     *)
(* theorems of MessageQueueProofs.                                            *)
EXTENDS DynamicChannels, MessageQueueProofs

Queued == Arriving \cup {WMQ_QUIT}

\* what is needed of the peer and the bounds to know the type of a PDU
PeerOK ==
    /\ messages \in [ChannelIds -> Seq(1..2)]
    /\ budget \in [pdus : Nat, device : Nat]

\* the life of the thread and of its queue, along freerdp_channels_disconnect
ThreadOK ==
    /\ main \in {"loop", "flush", "join"} => thread \in {"run", "exited"} /\ queue # NoQueue
    /\ main \in {"free", "idle", "closed", "late write"} => thread = "none" /\ queue = NoQueue /\ ~open
    /\ thread # "run" => job["drdynvc"] = <<>>
    /\ main \in {"idle", "closed", "late write"} => job["device"] = <<>>

\* what the queue holds, along freerdp_channels_disconnect
OrderOK ==
    /\ main \in {"loop", "flush"} => handled \o Contents(queue) = posted
    /\ main = "join" => handled \o Contents(queue) \in {posted, Append(posted, WMQ_QUIT)}

InChannel == {"enter", "leave", "open"}
DeviceOps == {"write", "post", "enter", "leave"}

\* a step in a channel finds it, and a program that closes a channel does
\* nothing else with one
ProgramOK(j, d) ==
    \A i \in DOMAIN j :
        /\ j[i].op \in InChannel \cup {"create"} => j[i].pdu.ch \in ChannelIds
        /\ j[i].op \in InChannel => d[j[i].pdu.ch] # NoChannel
        /\ j[i].op = "close" => \A k \in DOMAIN j : j[k].op \notin InChannel

ChannelOK ==
    /\ \A t \in Threads : ProgramOK(job[t], dvc)
    /\ \A i \in DOMAIN job["device"] : /\ job["device"][i].op \in DeviceOps
                                       /\ job["device"][i].pdu.ch \in ChannelIds
    /\ \A c \in ChannelIds : dvc[c] # NoChannel => Len(dvc[c].data) <= 1

IInv == TypeOK /\ PeerOK /\ ThreadOK /\ OrderOK /\ ChannelOK

-----------------------------------------------------------------------------
(* Facts about PDUs, programs and sequences.                                 *)

\* what Pdu makes is a PDU
LEMMA PduType ==
    ASSUME connection \in Nat, NEW ty \in ServerTypes \cup ClientTypes,
           NEW c \in ChannelIds \cup {"none"}, NEW m \in Nat, NEW i \in 1..2, NEW n \in 1..2
    PROVE  Pdu(ty, c, m, i, n) \in Pdus /\ Pdu(ty, c, m, i, n).ch = c
BY DEF Pdu, Pdus

\* a PDU without data
LEMMA SimpleType ==
    ASSUME connection \in Nat, NEW ty \in ServerTypes \cup ClientTypes,
           NEW c \in ChannelIds \cup {"none"}
    PROVE  Simple(ty, c) \in Pdus /\ Simple(ty, c).ch = c
BY PduType DEF Simple

\* a piece of a message
LEMMA PieceType ==
    ASSUME connection \in Nat, NEW c \in ChannelIds, NEW m \in Nat, NEW i \in 1..2, NEW n \in 1..2
    PROVE  Piece(c, m, i, n) \in Pdus /\ Piece(c, m, i, n).ch = c
<1>1. "DATA_FIRST" \in ServerTypes /\ "DATA" \in ServerTypes BY DEF ServerTypes
<1> QED BY <1>1, PduType DEF Piece

\* a step of a program
LEMMA OpType ==
    ASSUME NEW o \in Ops, NEW p \in Pdus
    PROVE  Op(o, p) \in Steps /\ Op(o, p).op = o /\ Op(o, p).pdu = p
BY DEF Op, Steps

WritesOn(p, c) ==
    p \in Seq(Steps) /\ \A i \in DOMAIN p : p[i].op \in DeviceOps /\ p[i].pdu.ch = c

\* a program that writes a message is made of steps in its channel
LEMMA WriteProgram ==
    ASSUME connection \in Nat, NEW c \in ChannelIds, NEW m \in Nat, NEW n \in 1..2
    PROVE  WritesOn(dvcman_write_channel(c, m, n), c)
<1>0. PICK p : p = dvcman_write_channel(c, m, n) OBVIOUS
<1>1. PICK e : e = Op("enter", Simple("DATA", c)) OBVIOUS
<1>2. PICK l : l = Op("leave", Simple("DATA", c)) OBVIOUS
<1>3. PICK w : w = [i \in 1..n |-> Write(Piece(c, m, i, n))] OBVIOUS
<1>4. p = <<e>> \o w \o <<l>> BY <1>0, <1>1, <1>2, <1>3, Zenon DEF dvcman_write_channel
<1>5. Simple("DATA", c) \in Pdus /\ Simple("DATA", c).ch = c BY SimpleType DEF ServerTypes
<1>6. e \in Steps /\ e.op = "enter" /\ e.pdu.ch = c BY <1>1, <1>5, OpType DEF Ops
<1>7. l \in Steps /\ l.op = "leave" /\ l.pdu.ch = c BY <1>2, <1>5, OpType DEF Ops
<1>8. \A i \in 1..n : /\ Write(Piece(c, m, i, n)) \in Steps
                      /\ Write(Piece(c, m, i, n)).op = "write"
                      /\ Write(Piece(c, m, i, n)).pdu.ch = c
  <2> TAKE i \in 1..n
  <2>1. i \in 1..2 OBVIOUS
  <2>2. Piece(c, m, i, n) \in Pdus /\ Piece(c, m, i, n).ch = c BY <2>1, PieceType
  <2> QED BY <2>2, OpType DEF Write, Ops
<1>9. w \in Seq(Steps) /\ Len(w) = n BY <1>3, <1>8
<1>10. \A i \in 1..n : w[i].op = "write" /\ w[i].pdu.ch = c BY <1>3, <1>8
<1>11. p \in Seq(Steps) /\ Len(p) = n + 2 BY <1>4, <1>6, <1>7, <1>9
<1>12. \A i \in 1..(n + 2) : p[i] = IF i = 1 THEN e ELSE IF i = n + 2 THEN l ELSE w[i - 1]
  BY <1>4, <1>9, <1>6, <1>7
<1>13. \A i \in 1..(n + 2) : p[i].op \in DeviceOps /\ p[i].pdu.ch = c
  BY <1>6, <1>7, <1>10, <1>12 DEF DeviceOps
<1>14. DOMAIN p = 1..(n + 2) BY <1>11
<1> QED BY <1>0, <1>11, <1>13, <1>14, Zenon DEF WritesOn

\* a sequence with an empty domain
LEMMA NothingIn ==
    ASSUME NEW S, NEW s \in Seq(S), DOMAIN s = {}
    PROVE  s = <<>>
<1>1. s # <<>> => Len(s) \in Nat \ {0} BY EmptySeq
<1>2. DOMAIN s = 1..Len(s) OBVIOUS
<1>3. Len(s) \in Nat \ {0} => 1 \in 1..Len(s) OBVIOUS
<1> QED BY <1>1, <1>2, <1>3

\* what is left of a thread's program
LEMMA GoesType ==
    ASSUME NEW j \in [Threads -> Seq(Steps)], NEW t, NEW p \in Seq(Steps)
    PROVE  [j EXCEPT ![t] = p] \in [Threads -> Seq(Steps)]
OBVIOUS

-----------------------------------------------------------------------------
(* The queues.                                                               *)

\* a well formed queue is not the freed one
LEMMA QueueNotFreed ==
    ASSUME NEW S, NEW q, WellFormed(q, S)
    PROVE  q # NoQueue
<1>1. NoQueue.capacity = 0 BY DEF NoQueue
<1>2. q.capacity > 0 BY Zenon DEF WellFormed
<1> QED BY <1>1, <1>2

\* a new queue of drdynvc
LEMMA NewQueueOK ==
    WellFormed(MessageQueue_New(QueueCapacity), Queued) /\ Contents(MessageQueue_New(QueueCapacity)) = <<>>
BY NewQueue, ChannelsAssumption DEF ChannelsAssumption

\* receiving a chunk keeps the queue, the stream and the order
LEMMA ReceiveStep ==
    ASSUME IInv, main = "loop", NEW p \in Arriving, NEW first \in BOOLEAN, NEW last \in BOOLEAN,
           DataReceived(p, first, last)
    PROVE  /\ WellFormed(queue', Queued)
           /\ dataIn' = NoStream \/ dataIn'.pdu \in Arriving
           /\ posted' \in Seq(Arriving)
           /\ error' \in BOOLEAN
           /\ handled \o Contents(queue') = posted'
<1> DEFINE got == (IF first THEN 0 ELSE dataIn.got) + 1
           total == IF first THEN (IF last THEN 1 ELSE 2) ELSE dataIn.total
<1>1. /\ WellFormed(queue, Queued) /\ handled \o Contents(queue) = posted
      /\ handled \in Seq(Arriving) /\ posted \in Seq(Arriving) /\ error \in BOOLEAN
      /\ dataIn = NoStream \/ dataIn.pdu \in Arriving
  BY Zenon DEF IInv, TypeOK, ThreadOK, OrderOK, PeerOK, Queued
<1>2. CASE ~last
  <2>1. /\ dataIn' = [pdu |-> p, got |-> got, total |-> total]
        /\ queue' = queue /\ posted' = posted /\ error' = error
    BY <1>2, Zenon DEF DataReceived
  <2>2. dataIn'.pdu = p BY <2>1
  <2> QED BY <1>1, <2>1, <2>2, Zenon
<1>3. CASE last /\ got # total
  <2>1. error' = TRUE /\ dataIn' = dataIn /\ queue' = queue /\ posted' = posted
    BY <1>3, Zenon DEF DataReceived
  <2> QED BY <1>1, <2>1, Zenon
<1>4. CASE last /\ got = total
  <2>1. /\ dataIn' = NoStream /\ queue' = MessageQueue_Dispatch(queue, p)
        /\ posted' = Append(posted, p) /\ error' = error
    BY <1>4, Zenon DEF DataReceived
  <2>2. p \in Queued BY DEF Queued
  <2>3. WellFormed(queue', Queued) /\ Contents(queue') = Append(Contents(queue), p)
    BY <1>1, <2>1, <2>2, DispatchAppends
  <2>4. Contents(queue) \in Seq(Queued) BY <1>1, ContentsType
  <2>5. handled \in Seq(Queued) BY <1>1 DEF Queued
  <2>6. handled \o Append(Contents(queue), p) = Append(handled \o Contents(queue), p)
    BY <2>2, <2>4, <2>5, AppendBehind
  <2>7. posted' \in Seq(Arriving) BY <1>1, <2>1
  <2> QED BY <1>1, <2>1, <2>3, <2>6, <2>7, Zenon
<1> QED BY <1>2, <1>3, <1>4

\* what the server sends is a PDU, and it stays well typed
LEMMA ServerStep ==
    ASSUME IInv, NEW p, ServerSends(p)
    PROVE  p \in Arriving /\ messages' \in [ChannelIds -> Seq(1..2)]
<1>1. messages \in [ChannelIds -> Seq(1..2)] /\ connection \in Nat
  BY Zenon DEF IInv, TypeOK, PeerOK
<1>2. \A c \in ChannelIds : Len(messages[c]) \in Nat /\ Len(messages[c]) + 1 \in Nat BY <1>1
<1>3. p \in Pdus /\ (p = Simple("CAPABILITY_REQUEST", "none") \/ p.ch \in ChannelIds)
  <2>0. \/ p = Simple("CAPABILITY_REQUEST", "none")
        \/ \E c \in ChannelIds : \E ty \in {"CREATE_REQUEST", "CREATE_UNHEARD", "CLOSE_REQUEST"} :
               p = Simple(ty, c)
        \/ \E c \in ChannelIds : \E n \in 1..2 : p = Piece(c, Len(messages[c]) + 1, 1, n)
        \/ \E c \in ChannelIds : p = Piece(c, Len(messages[c]), 2, 2)
    BY Zenon DEF ServerSends
  <2>1. CASE p = Simple("CAPABILITY_REQUEST", "none")
    BY <1>1, <2>1, SimpleType DEF ServerTypes
  <2>2. CASE \E c \in ChannelIds : \E ty \in {"CREATE_REQUEST", "CREATE_UNHEARD", "CLOSE_REQUEST"} :
               p = Simple(ty, c)
    BY <1>1, <2>2, SimpleType DEF ServerTypes
  <2>3. CASE \E c \in ChannelIds : \E n \in 1..2 : p = Piece(c, Len(messages[c]) + 1, 1, n)
    BY <1>1, <1>2, <2>3, PieceType
  <2>4. CASE \E c \in ChannelIds : p = Piece(c, Len(messages[c]), 2, 2)
    BY <1>1, <1>2, <2>4, PieceType
  <2> QED BY <2>0, <2>1, <2>2, <2>3, <2>4
<1>4. messages' \in [ChannelIds -> Seq(1..2)]
  <2>1. \/ messages' = messages
        \/ \E c \in ChannelIds : \E n \in 1..2 : messages' = [messages EXCEPT ![c] = Append(@, n)]
    BY Zenon DEF ServerSends
  <2>2. CASE \E c \in ChannelIds : \E n \in 1..2 : messages' = [messages EXCEPT ![c] = Append(@, n)]
    BY <1>1, <2>2
  <2> QED BY <1>1, <2>1, <2>2
<1>5. Simple("CAPABILITY_REQUEST", "none").type = "CAPABILITY_REQUEST"
  BY DEF Simple, Pdu
<1> QED BY <1>3, <1>4, <1>5 DEF Arriving
-----------------------------------------------------------------------------
(* The steps of the session thread.                                          *)

\* a step that leaves the programs and the channels alone
LEMMA ChannelsKept ==
    ASSUME ChannelOK, job' = job, dvc' = dvc
    PROVE  ChannelOK'
BY Zenon DEF ChannelOK, ProgramOK

\* the queues, the PDUs and the order, from one state to the next
LEMMA Received ==
    ASSUME IInv, main = "loop",
           NEW p \in Arriving, NEW first \in BOOLEAN, NEW last \in BOOLEAN,
           DataReceived(p, first, last),
           messages' \in [ChannelIds -> Seq(1..2)], budget' \in [pdus : Nat, device : Nat],
           UNCHANGED <<main, connected, open, writes, state, thread, job, dvc, lock, connection,
                       handled>>
    PROVE  IInv'
<1>1. /\ WellFormed(queue', Queued)
      /\ dataIn' = NoStream \/ dataIn'.pdu \in Arriving
      /\ posted' \in Seq(Arriving)
      /\ error' \in BOOLEAN
      /\ handled \o Contents(queue') = posted'
  BY ReceiveStep, Zenon
<1>2. TypeOK' BY <1>1, Zenon DEF IInv, TypeOK, Queued
<1>3. PeerOK' BY Zenon DEF PeerOK
<1>4. ThreadOK'
  <2>1. queue' # NoQueue BY <1>1, QueueNotFreed
  <2> QED BY <2>1 DEF IInv, ThreadOK
<1>5. OrderOK'
  <2>1. handled' \o Contents(queue') = posted' BY <1>1, Zenon
  <2> QED BY <2>1 DEF OrderOK
<1>6. ChannelOK' BY ChannelsKept, Zenon DEF IInv
<1> QED BY <1>2, <1>3, <1>4, <1>5, <1>6, Zenon DEF IInv

\* a chunk that begins a PDU
LEMMA FirstKeeps ==
    ASSUME IInv, NEW last \in BOOLEAN, ReceiveFirst(last)
    PROVE  IInv'
<1>1. PICK p \in ServerPdus : ServerSends(p) /\ DataReceived(p, TRUE, last)
  BY Zenon DEF ReceiveFirst
<1>2. p \in Arriving /\ messages' \in [ChannelIds -> Seq(1..2)] BY <1>1, ServerStep, Zenon
<1>3. budget' \in [pdus : Nat, device : Nat]
  <2>1. budget \in [pdus : Nat, device : Nat] BY Zenon DEF IInv, PeerOK
  <2>2. budget.pdus > 0 /\ budget' = [budget EXCEPT !.pdus = @ - 1] BY Zenon DEF ReceiveFirst
  <2> QED BY <2>1, <2>2
<1>4. /\ main = "loop"
      /\ UNCHANGED <<main, connected, open, writes, state, thread, job, dvc, lock, connection,
                     handled>>
  BY Zenon DEF ReceiveFirst
<1> QED BY <1>1, <1>2, <1>3, <1>4, Received, Zenon

\* the chunk that ends it
LEMMA RestKeeps ==
    ASSUME IInv, ReceiveRest
    PROVE  IInv'
<1>1. main = "loop" /\ dataIn # NoStream /\ DataReceived(dataIn.pdu, FALSE, TRUE)
  BY Zenon DEF ReceiveRest
<1>2. dataIn.pdu \in Arriving BY <1>1, Zenon DEF IInv, TypeOK
<1>3. /\ messages' = messages /\ budget' = budget
      /\ UNCHANGED <<main, connected, open, writes, state, thread, job, dvc, lock, connection,
                     handled>>
  BY Zenon DEF ReceiveRest, peer
<1>4. messages' \in [ChannelIds -> Seq(1..2)] /\ budget' \in [pdus : Nat, device : Nat]
  BY <1>3, Zenon DEF IInv, PeerOK
<1> QED BY <1>1, <1>2, <1>3, <1>4, Received, Zenon

\* a connection: main was idle, so that nothing is open and no thread runs
LEMMA ConnectKeeps ==
    ASSUME IInv, freerdp_channels_post_connect
    PROVE  IInv'
<1>1. ~open BY DEF IInv, ThreadOK, freerdp_channels_post_connect
<1>2. /\ main' = "loop" /\ connected' = TRUE /\ open' = TRUE /\ error' = error
      /\ posted' = <<>> /\ handled' = <<>>
      /\ messages' = [c \in ChannelIds |-> <<>>]
      /\ queue' = MessageQueue_New(QueueCapacity)
      /\ dvc' = [c \in ChannelIds |-> NoChannel]
      /\ state' = "CAPABILITIES" /\ thread' = "run"
      /\ job' = [job EXCEPT !["drdynvc"] = <<>>]
      /\ writes' = writes /\ dataIn' = dataIn /\ lock' = lock /\ budget' = budget
      /\ connection' = connection + 1
  BY <1>1, Zenon DEF freerdp_channels_post_connect
<1>3. /\ WellFormed(queue', Queued) /\ Contents(queue') = <<>> BY <1>2, NewQueueOK, Zenon
<1>4. job \in [Threads -> Seq(Steps)] /\ connection \in Nat BY Zenon DEF IInv, TypeOK
<1>5. TypeOK'
  <2>1. posted' \in Seq(Arriving) /\ handled' \in Seq(Arriving) BY <1>2
  <2>2. job' \in [Threads -> Seq(Steps)]
    <3>1. <<>> \in Seq(Steps) OBVIOUS
    <3> QED BY <1>2, <1>4, <3>1, GoesType, Zenon
  <2>3. dvc' \in [ChannelIds -> DvcChannels \cup {NoChannel}] BY <1>2
  <2>4. connection' \in Nat BY <1>2, <1>4
  <2> QED BY <1>2, <1>3, <2>1, <2>2, <2>3, <2>4, Zenon DEF IInv, TypeOK, Queued
<1>6. PeerOK'
  <2>1. messages' \in [ChannelIds -> Seq(1..2)] BY <1>2
  <2> QED BY <1>2, <2>1, Zenon DEF IInv, PeerOK
<1>7. ThreadOK'
  <2>1. queue' # NoQueue BY <1>3, QueueNotFreed
  <2> QED BY <1>2, <2>1 DEF ThreadOK
<1>8. OrderOK'
  <2>1. handled' \o Contents(queue') = posted' BY <1>2, <1>3
  <2> QED BY <1>2, <2>1 DEF OrderOK
<1>9. ChannelOK'
  <2>1. job["device"] = <<>> BY DEF IInv, ThreadOK, freerdp_channels_post_connect
  <2> QED BY <1>2, <1>4, <2>1 DEF ChannelOK, ProgramOK, Threads
<1> QED BY <1>5, <1>6, <1>7, <1>8, <1>9, Zenon DEF IInv

\* one message drained
LEMMA SyncKeeps ==
    ASSUME IInv, freerdp_channels_process_sync
    PROVE  IInv'
<1>1. /\ main' = main /\ connected' = connected /\ open' = open /\ error' = error
      /\ queue' = queue /\ dataIn' = dataIn /\ state' = state /\ thread' = thread
      /\ lock' = lock /\ job' = job /\ dvc' = dvc /\ posted' = posted /\ handled' = handled
      /\ connection' = connection /\ messages' = messages /\ budget' = budget
      /\ writes' = Dequeue(writes) /\ writes.size > 0
  BY Zenon DEF freerdp_channels_process_sync
<1>2. WellFormed(writes, Pdus \cup {WMQ_QUIT}) BY Zenon DEF IInv, TypeOK
<1>3. WellFormed(writes', Pdus \cup {WMQ_QUIT})
  <2>1. WellFormed(Dequeue(writes), Pdus \cup {WMQ_QUIT}) BY <1>1, <1>2, DequeueTakesFirst
  <2> QED BY <1>1, <2>1, Zenon
<1>4. TypeOK' BY <1>1, <1>3, Zenon DEF IInv, TypeOK
<1>5. PeerOK' BY <1>1, Zenon DEF IInv, PeerOK
<1>6. ThreadOK' BY <1>1, Zenon DEF IInv, ThreadOK
<1>7. OrderOK' BY <1>1, Zenon DEF IInv, OrderOK
<1>8. ChannelOK' BY <1>1, ChannelsKept, Zenon DEF IInv
<1> QED BY <1>4, <1>5, <1>6, <1>7, <1>8, Zenon DEF IInv

\* a disconnection begins
LEMMA DisconnectKeeps ==
    ASSUME IInv, freerdp_channels_disconnect
    PROVE  IInv'
<1>1. /\ main = "loop" /\ main' = "flush" /\ connected' = FALSE /\ open' = open /\ error' = error
      /\ queue' = queue /\ dataIn' = dataIn /\ state' = state /\ thread' = thread
      /\ lock' = lock /\ job' = job /\ dvc' = dvc /\ posted' = posted /\ handled' = handled
      /\ connection' = connection /\ messages' = messages /\ budget' = budget
      /\ writes' = writes
  BY Zenon DEF freerdp_channels_disconnect, peer
<1>2. TypeOK' BY <1>1, Zenon DEF IInv, TypeOK
<1>3. PeerOK' BY <1>1, Zenon DEF IInv, PeerOK
<1>4. ThreadOK' BY <1>1 DEF IInv, ThreadOK
<1>5. OrderOK'
  <2>1. handled' \o Contents(queue') = posted' BY <1>1, Zenon DEF IInv, OrderOK
  <2> QED BY <1>1, <2>1 DEF OrderOK
<1>6. ChannelOK' BY <1>1, ChannelsKept, Zenon DEF IInv
<1> QED BY <1>2, <1>3, <1>4, <1>5, <1>6, Zenon DEF IInv

\* the quit message is posted behind everything that has arrived
LEMMA PostQuitKeeps ==
    ASSUME IInv, PostQuit
    PROVE  IInv'
<1>1. /\ main = "flush" /\ main' = "join" /\ connected' = connected /\ open' = open
      /\ error' = error /\ dataIn' = dataIn /\ state' = state /\ thread' = thread
      /\ lock' = lock /\ job' = job /\ dvc' = dvc /\ posted' = posted /\ handled' = handled
      /\ connection' = connection /\ messages' = messages /\ budget' = budget
      /\ writes' = writes /\ queue' = MessageQueue_Dispatch(queue, WMQ_QUIT)
  BY Zenon DEF PostQuit, peer
<1>2. /\ WellFormed(queue, Queued) /\ handled \o Contents(queue) = posted
      /\ handled \in Seq(Arriving)
  BY <1>1, Zenon DEF IInv, TypeOK, ThreadOK, OrderOK, Queued
<1>3. WMQ_QUIT \in Queued BY DEF Queued
<1>4. /\ WellFormed(queue', Queued)
      /\ Contents(queue') = Append(Contents(queue), WMQ_QUIT)
  <2>1. /\ WellFormed(MessageQueue_Dispatch(queue, WMQ_QUIT), Queued)
        /\ Contents(MessageQueue_Dispatch(queue, WMQ_QUIT)) = Append(Contents(queue), WMQ_QUIT)
    BY <1>2, <1>3, DispatchAppends
  <2> QED BY <1>1, <2>1, Zenon
<1>5. handled' \o Contents(queue') = Append(posted', WMQ_QUIT)
  <2>1. Contents(queue) \in Seq(Queued) BY <1>2, ContentsType
  <2>2. handled \in Seq(Queued) BY <1>2 DEF Queued
  <2>3. handled \o Append(Contents(queue), WMQ_QUIT) = Append(handled \o Contents(queue), WMQ_QUIT)
    BY <1>3, <2>1, <2>2, AppendBehind
  <2> QED BY <1>1, <1>2, <1>4, <2>3, Zenon
<1>6. TypeOK' BY <1>1, <1>4, Zenon DEF IInv, TypeOK, Queued
<1>7. PeerOK' BY <1>1, Zenon DEF IInv, PeerOK
<1>8. ThreadOK'
  <2>1. queue' # NoQueue BY <1>4, QueueNotFreed
  <2> QED BY <1>1, <2>1 DEF IInv, ThreadOK
<1>9. OrderOK' BY <1>1, <1>5 DEF OrderOK
<1>10. ChannelOK' BY <1>1, ChannelsKept, Zenon DEF IInv
<1> QED BY <1>6, <1>7, <1>8, <1>9, <1>10, Zenon DEF IInv

\* the queue is freed when the thread has ended, and with it the channel closed
LEMMA DisconnectedKeeps ==
    ASSUME IInv, event_disconnected
    PROVE  IInv'
<1>1. /\ main = "join" /\ thread = "exited"
      /\ main' = "free" /\ connected' = connected /\ open' = FALSE
      /\ error' = error /\ dataIn' = NoStream /\ state' = state /\ thread' = "none"
      /\ lock' = lock /\ job' = job /\ dvc' = dvc /\ posted' = posted /\ handled' = handled
      /\ connection' = connection /\ messages' = messages /\ budget' = budget
      /\ writes' = writes /\ queue' = NoQueue
  BY Zenon DEF event_disconnected, peer
<1>2. TypeOK' BY <1>1, Zenon DEF IInv, TypeOK
<1>3. PeerOK' BY <1>1, Zenon DEF IInv, PeerOK
<1>4. ThreadOK' BY <1>1 DEF IInv, ThreadOK
<1>5. OrderOK' BY <1>1 DEF OrderOK
<1>6. ChannelOK' BY <1>1, ChannelsKept, Zenon DEF IInv
<1> QED BY <1>2, <1>3, <1>4, <1>5, <1>6, Zenon DEF IInv

\* the channels are freed when no thread is in one
LEMMA FreeKeeps ==
    ASSUME IInv, dvcman_free
    PROVE  IInv'
<1>1. /\ main = "free" /\ main' = "idle" /\ connected' = connected /\ open' = open
      /\ error' = error /\ dataIn' = dataIn /\ state' = state /\ thread' = thread
      /\ lock' = lock /\ job' = job /\ dvc' = [c \in ChannelIds |-> NoChannel]
      /\ posted' = posted /\ handled' = handled
      /\ connection' = connection /\ messages' = messages /\ budget' = budget
      /\ writes' = writes /\ queue' = queue
  BY Zenon DEF dvcman_free, peer
<1>2. job["drdynvc"] = <<>> BY <1>1 DEF IInv, ThreadOK
<1>3. job \in [Threads -> Seq(Steps)] BY Zenon DEF IInv, TypeOK
<1>4. job["device"] = <<>>
  <2>1. \A i \in DOMAIN job["device"] : job["device"][i].pdu.ch \in ChannelIds
    BY Zenon DEF IInv, ChannelOK
  <2>2. DOMAIN job["device"] = {} BY <2>1, Zenon DEF dvcman_free, OnClose
  <2>3. job["device"] \in Seq(Steps) BY <1>3 DEF Threads
  <2> QED BY <2>2, <2>3, NothingIn
<1>5. TypeOK'
  <2>1. dvc' \in [ChannelIds -> DvcChannels \cup {NoChannel}] BY <1>1
  <2> QED BY <1>1, <2>1, Zenon DEF IInv, TypeOK
<1>6. PeerOK' BY <1>1, Zenon DEF IInv, PeerOK
<1>7. ThreadOK' BY <1>1, <1>4 DEF IInv, ThreadOK
<1>8. OrderOK' BY <1>1 DEF OrderOK
<1>9. ChannelOK' BY <1>1, <1>2, <1>4 DEF ChannelOK, ProgramOK, Threads
<1> QED BY <1>5, <1>6, <1>7, <1>8, <1>9, Zenon DEF IInv

\* the channels are closed for good
LEMMA CloseKeeps ==
    ASSUME IInv, freerdp_channels_close
    PROVE  IInv'
<1>1. /\ main = "idle" /\ main' \in {"closed", "late write"}
      /\ connected' = connected /\ open' = open
      /\ error' = error /\ dataIn' = dataIn /\ state' = state /\ thread' = thread
      /\ lock' = lock /\ job' = job /\ dvc' = dvc
      /\ posted' = posted /\ handled' = handled
      /\ connection' = connection /\ messages' = messages /\ budget' = budget
      /\ writes' = MessageQueue_Dispatch(writes, WMQ_QUIT) \/ writes' = writes
      /\ queue' = queue
  BY Zenon DEF freerdp_channels_close, peer
<1>2. WellFormed(writes', Pdus \cup {WMQ_QUIT})
  <2>1. WellFormed(writes, Pdus \cup {WMQ_QUIT}) BY Zenon DEF IInv, TypeOK
  <2>2. WMQ_QUIT \in Pdus \cup {WMQ_QUIT} OBVIOUS
  <2>3. WellFormed(MessageQueue_Dispatch(writes, WMQ_QUIT), Pdus \cup {WMQ_QUIT})
    BY <2>1, <2>2, DispatchAppends
  <2> QED BY <1>1, <2>1, <2>3, Zenon
<1>3. TypeOK' BY <1>1, <1>2, Zenon DEF IInv, TypeOK
<1>4. PeerOK' BY <1>1, Zenon DEF IInv, PeerOK
<1>5. ThreadOK' BY <1>1 DEF IInv, ThreadOK
<1>6. OrderOK' BY <1>1 DEF OrderOK
<1>7. ChannelOK' BY <1>1, ChannelsKept, Zenon DEF IInv
<1> QED BY <1>3, <1>4, <1>5, <1>6, <1>7, Zenon DEF IInv

-----------------------------------------------------------------------------
(* The steps of the writing threads.                                         *)

\* a thread goes on with its program: what a program needs of the channels
LEMMA GoesOn ==
    ASSUME IInv, NEW t \in Threads, NEW p \in Seq(Steps), job' = [job EXCEPT ![t] = p],
           ProgramOK(p, dvc'),
           \A s \in Threads \ {t} : ProgramOK(job[s], dvc'),
           t = "device" => \A i \in DOMAIN p : p[i].op \in DeviceOps /\ p[i].pdu.ch \in ChannelIds,
           \A c \in ChannelIds : dvc'[c] # NoChannel => Len(dvc'[c].data) <= 1
    PROVE  job' \in [Threads -> Seq(Steps)] /\ ChannelOK'
<1>1. job \in [Threads -> Seq(Steps)] BY Zenon DEF IInv, TypeOK
<1>2. job' \in [Threads -> Seq(Steps)] BY <1>1, GoesType, Zenon
<1>3. job'[t] = p /\ \A s \in Threads \ {t} : job'[s] = job[s] BY <1>1
<1>4. \A s \in Threads : ProgramOK(job'[s], dvc')
  <2> TAKE s \in Threads
  <2>1. CASE s = t BY <1>3, <2>1, Zenon
  <2>2. CASE s # t BY <1>3, <2>2, Zenon
  <2> QED BY <2>1, <2>2
<1>5. \A i \in DOMAIN job'["device"] : /\ job'["device"][i].op \in DeviceOps
                                       /\ job'["device"][i].pdu.ch \in ChannelIds
  <2>1. CASE t = "device" BY <1>3, <2>1, Zenon
  <2>2. CASE t # "device"
    <3>1. "device" \in Threads \ {t} BY <2>2 DEF Threads
    <3>2. job'["device"] = job["device"] BY <1>3, <3>1, Zenon
    <3> QED BY <3>2, Zenon DEF IInv, ChannelOK
  <2> QED BY <2>1, <2>2
<1>6. ChannelOK'
  <2>1. \A s \in Threads : ProgramOK(job[s], dvc)' BY <1>4, Zenon DEF ProgramOK
  <2> QED BY <1>5, <2>1, Zenon DEF ChannelOK
<1> QED BY <1>2, <1>6

\* a program is that of a thread that runs: where main then is
LEMMA Running ==
    ASSUME IInv, NEW t \in Threads, job[t] # <<>>
    PROVE  /\ main \notin {"idle", "closed", "late write"}
           /\ t = "drdynvc" => thread = "run" /\ main \in {"loop", "flush", "join"}
<1>1. main \in {"idle", "loop", "flush", "join", "free", "closed", "late write"}
  BY Zenon DEF IInv, TypeOK
<1> QED BY <1>1 DEF IInv, ThreadOK, Threads

\* what every step of a program leaves alone
Aside == UNCHANGED <<main, connected, open, queue, dataIn, connection, posted, handled, messages,
                     budget>>

\* the types of what a step of a program may change
StepTypes ==
    /\ WellFormed(writes, Pdus \cup {WMQ_QUIT})
    /\ state \in {"INITIAL", "CAPABILITIES", "READY"}
    /\ error \in BOOLEAN
    /\ lock \in [ChannelIds -> Threads \cup {"none"}]
    /\ dvc \in [ChannelIds -> DvcChannels \cup {NoChannel}]

\* the thread goes on, or it is drdynvc's and ends
MayEnd(t, p) == thread' = thread \/ (t = "drdynvc" /\ thread' = "exited" /\ p = <<>>)

\* a step of a program that leaves the queue, main and the peer alone
LEMMA ProgramStep ==
    ASSUME IInv, NEW t \in Threads, job[t] # <<>>,
           Aside,
           job' \in [Threads -> Seq(Steps)], ChannelOK',
           NEW p \in Seq(Steps), job' = [job EXCEPT ![t] = p],
           StepTypes', MayEnd(t, p)
    PROVE  IInv'
<1> USE DEF Aside, StepTypes, MayEnd
<1>1. /\ main \notin {"idle", "closed", "late write"}
      /\ t = "drdynvc" => thread = "run" /\ main \in {"loop", "flush", "join"}
  BY Running, Zenon
<1>2. TypeOK'
  <2>1. thread' \in {"none", "run", "exited"} BY Zenon DEF IInv, TypeOK
  <2> QED BY <2>1, Zenon DEF IInv, TypeOK
<1>3. PeerOK' BY Zenon DEF IInv, PeerOK
<1>4. ThreadOK'
  <2>1. job \in [Threads -> Seq(Steps)] BY Zenon DEF IInv, TypeOK
  <2>2. t # "drdynvc" => job'["drdynvc"] = job["drdynvc"] BY <2>1 DEF Threads
  <2>3. t = "drdynvc" => job'["drdynvc"] = p BY <2>1 DEF Threads
  <2>4. /\ main \in {"loop", "flush", "join"} => thread \in {"run", "exited"} /\ queue # NoQueue
        /\ main \in {"free", "idle", "closed", "late write"} => thread = "none" /\ queue = NoQueue /\ ~open
        /\ thread # "run" => job["drdynvc"] = <<>>
    BY Zenon DEF IInv, ThreadOK
  <2>5. thread' # "run" => job'["drdynvc"] = <<>> BY <1>1, <2>2, <2>3, <2>4, Zenon
  <2>6. main' \in {"loop", "flush", "join"} => thread' \in {"run", "exited"} /\ queue' # NoQueue
    BY <2>4, Zenon
  <2>7. main' \in {"free", "idle", "closed", "late write"} =>
           thread' = "none" /\ queue' = NoQueue /\ ~open'
    BY <1>1, <2>4
  <2>8. main' \in {"idle", "closed", "late write"} => job'["device"] = <<>> BY <1>1, Zenon
  <2> QED BY <2>5, <2>6, <2>7, <2>8, Zenon DEF ThreadOK
<1>5. OrderOK' BY Zenon DEF IInv, OrderOK
<1> QED BY <1>2, <1>3, <1>4, <1>5, Zenon DEF IInv

\* the steps of a program that do nothing in a channel
Harmless == {"write", "post", "exit"}

\* what is left of a program, with harmless steps added, is a good program
LEMMA SubProgram ==
    ASSUME NEW j \in Seq(Steps), NEW d, ProgramOK(j, d), NEW p \in Seq(Steps),
           \A i \in DOMAIN p : (\E k \in DOMAIN j : p[i] = j[k]) \/ p[i].op \in Harmless
    PROVE  ProgramOK(p, d)
<1> SUFFICES ASSUME NEW i \in DOMAIN p
             PROVE  /\ p[i].op \in InChannel \cup {"create"} => p[i].pdu.ch \in ChannelIds
                    /\ p[i].op \in InChannel => d[p[i].pdu.ch] # NoChannel
                    /\ p[i].op = "close" => \A k \in DOMAIN p : p[k].op \notin InChannel
  BY Zenon DEF ProgramOK
<1>1. \A o \in Harmless : o \notin InChannel /\ o # "create" /\ o # "close" BY DEF Harmless, InChannel
<1>2. CASE p[i].op \in Harmless BY <1>1, <1>2
<1>3. CASE \E k \in DOMAIN j : p[i] = j[k]
  <2>1. PICK k \in DOMAIN j : p[i] = j[k] BY <1>3
  <2>2. /\ j[k].op \in InChannel \cup {"create"} => j[k].pdu.ch \in ChannelIds
        /\ j[k].op \in InChannel => d[j[k].pdu.ch] # NoChannel
        /\ j[k].op = "close" => \A l \in DOMAIN j : j[l].op \notin InChannel
    BY Zenon DEF ProgramOK
  <2>3. p[i].op = "close" => \A m \in DOMAIN p : p[m].op \notin InChannel
    BY <1>1, <2>1, <2>2, Zenon
  <2> QED BY <2>1, <2>2, <2>3, Zenon
<1> QED BY <1>2, <1>3, Zenon

\* the step a thread is at
LEMMA HeadStep ==
    ASSUME IInv, NEW t \in Threads, NEW o, Runs(t, o)
    PROVE  /\ job[t] \in Seq(Steps) /\ job[t] # <<>>
           /\ Head(job[t]) \in Steps /\ Head(job[t]).op = o /\ Head(job[t]).pdu \in Pdus
           /\ 1 \in DOMAIN job[t] /\ Head(job[t]) = job[t][1]
           /\ Tail(job[t]) \in Seq(Steps)
           /\ \A i \in DOMAIN Tail(job[t]) : \E k \in DOMAIN job[t] : Tail(job[t])[i] = job[t][k]
           /\ o \in InChannel \cup {"create"} => Head(job[t]).pdu.ch \in ChannelIds
           /\ t = "device" => o \in DeviceOps
<1>1. job[t] \in Seq(Steps) BY DEF IInv, TypeOK
<1>2. job[t] # <<>> /\ Head(job[t]).op = o BY Zenon DEF Runs
<1>3. PICK j \in Seq(Steps) : j = job[t] BY <1>1
<1>4. /\ Head(j) \in Steps /\ Tail(j) \in Seq(Steps) /\ Len(Tail(j)) = Len(j) - 1
      /\ \A i \in 1..Len(Tail(j)) : Tail(j)[i] = j[i + 1]
  BY <1>2, <1>3, HeadTailProperties
<1>5. Len(j) \in Nat \ {0} BY <1>2, <1>3, EmptySeq
<1>6. DOMAIN j = 1..Len(j) /\ DOMAIN Tail(j) = 1..Len(Tail(j)) BY <1>4
<1>7. 1 \in DOMAIN j /\ Head(j) = j[1] BY <1>5, <1>6
<1>8. \A i \in DOMAIN Tail(j) : \E k \in DOMAIN j : Tail(j)[i] = j[k]
  <2> TAKE i \in DOMAIN Tail(j)
  <2>1. i \in 1..(Len(j) - 1) BY <1>4, <1>6
  <2>2. i + 1 \in DOMAIN j BY <1>5, <1>6, <2>1
  <2> QED BY <1>4, <1>6, <2>2
<1>9. Head(j).pdu \in Pdus BY <1>4 DEF Steps
<1>10. ProgramOK(j, dvc) BY <1>3, Zenon DEF IInv, ChannelOK
<1>11. o \in InChannel \cup {"create"} => Head(j).pdu.ch \in ChannelIds
  BY <1>2, <1>3, <1>7, <1>10, Zenon DEF ProgramOK
<1>12. t = "device" => o \in DeviceOps
  BY <1>2, <1>3, <1>7, Zenon DEF IInv, ChannelOK
<1> QED BY <1>1, <1>2, <1>3, <1>4, <1>7, <1>8, <1>9, <1>11, <1>12, Zenon

\* p consists of steps of t's program and of harmless ones
LeftOver(t, p) ==
    \A i \in DOMAIN p : \/ \E k \in DOMAIN job[t] : p[i] = job[t][k]
                        \/ /\ p[i].op \in Harmless
                           /\ t = "device" => p[i].op \in DeviceOps /\ p[i].pdu.ch \in ChannelIds

\* a program that goes on with what is left of it, maybe with harmless steps,
\* the channels unchanged
LEMMA GoesOnAlone ==
    ASSUME IInv, NEW t \in Threads, NEW p \in Seq(Steps), job' = [job EXCEPT ![t] = p],
           dvc' = dvc, LeftOver(t, p)
    PROVE  job' \in [Threads -> Seq(Steps)] /\ ChannelOK'
<1>1. /\ \A s \in Threads : ProgramOK(job[s], dvc)
      /\ \A i \in DOMAIN job["device"] : /\ job["device"][i].op \in DeviceOps
                                         /\ job["device"][i].pdu.ch \in ChannelIds
      /\ \A c \in ChannelIds : dvc[c] # NoChannel => Len(dvc[c].data) <= 1
      /\ job \in [Threads -> Seq(Steps)]
  BY Zenon DEF IInv, TypeOK, ChannelOK
<1>2. job[t] \in Seq(Steps) BY <1>1
<1>3. \A i \in DOMAIN p : (\E k \in DOMAIN job[t] : p[i] = job[t][k]) \/ p[i].op \in Harmless
  BY Zenon DEF LeftOver
<1>4. ProgramOK(p, dvc) BY <1>1, <1>2, <1>3, SubProgram, Zenon
<1>5. ProgramOK(p, dvc') /\ \A s \in Threads \ {t} : ProgramOK(job[s], dvc')
  BY <1>1, <1>4, Zenon
<1>6. t = "device" => \A i \in DOMAIN p : p[i].op \in DeviceOps /\ p[i].pdu.ch \in ChannelIds
  BY <1>1, Zenon DEF LeftOver
<1>7. \A c \in ChannelIds : dvc'[c] # NoChannel => Len(dvc'[c].data) <= 1 BY <1>1, Zenon
<1> QED BY <1>5, <1>6, <1>7, GoesOn, Zenon

\* the program of a step that fails
LEMMA FailingOK ==
    ASSUME IInv, NEW t \in Threads
    PROVE  Failing(t) \in Seq(Steps) /\ LeftOver(t, Failing(t))
<1> USE DEF LeftOver
<1>1. job[t] \in Seq(Steps) /\ connection \in Nat
  <2>1. job \in [Threads -> Seq(Steps)] /\ connection \in Nat BY Zenon DEF IInv, TypeOK
  <2> QED BY <2>1
<1>2. PICK a : a = IF job[t] # <<>> /\ job[t][Len(job[t])].op = "leave"
                   THEN <<job[t][Len(job[t])]>> ELSE <<>>
  OBVIOUS
<1>3. PICK e : e = Op("exit", Simple("CLOSED", "none")) OBVIOUS
<1>4. PICK b : b = IF t = "drdynvc" THEN <<e>> ELSE <<>> OBVIOUS
<1>5. Failing(t) = a \o b BY <1>2, <1>3, <1>4, Zenon DEF Failing
<1>6. e \in Steps /\ e.op = "exit"
  <2>1. Simple("CLOSED", "none") \in Pdus BY <1>1, SimpleType DEF ClientTypes
  <2> QED BY <1>3, <2>1, OpType DEF Ops
<1>7. job[t] # <<>> => Len(job[t]) \in DOMAIN job[t] /\ job[t][Len(job[t])] \in Steps
  BY <1>1, EmptySeq
<1>8. a = <<>> \/ \E k \in DOMAIN job[t] : a = <<job[t][k]>> /\ job[t][k] \in Steps
  BY <1>2, <1>7, Zenon
<1>9. b = <<>> \/ (b = <<e>> /\ t = "drdynvc") BY <1>4, Zenon
<1>10. "exit" \in Harmless /\ "drdynvc" # "device" BY DEF Harmless
<1>11. CASE a = <<>> /\ b = <<>> BY <1>5, <1>11
<1>12. CASE a = <<>> /\ b = <<e>> /\ t = "drdynvc" BY <1>5, <1>6, <1>10, <1>12
<1>13. ASSUME NEW k \in DOMAIN job[t], a = <<job[t][k]>>, job[t][k] \in Steps, b = <<>>
       PROVE  /\ a \o b \in Seq(Steps)
              /\ \A i \in DOMAIN (a \o b) : (a \o b)[i] = job[t][k]
  BY <1>13
<1>14. ASSUME NEW k \in DOMAIN job[t], a = <<job[t][k]>>, job[t][k] \in Steps, b = <<e>>
       PROVE  /\ a \o b \in Seq(Steps)
              /\ \A i \in DOMAIN (a \o b) : (a \o b)[i] = job[t][k] \/ (a \o b)[i] = e
  BY <1>6, <1>14
<1>15. CASE \E k \in DOMAIN job[t] : a = <<job[t][k]>> /\ job[t][k] \in Steps
  <2>1. PICK k \in DOMAIN job[t] : a = <<job[t][k]>> /\ job[t][k] \in Steps BY <1>15
  <2>2. CASE b = <<>> BY <1>5, <1>13, <2>1, <2>2, Zenon
  <2>3. CASE b = <<e>> /\ t = "drdynvc"
    <3>1. /\ a \o b \in Seq(Steps)
          /\ \A i \in DOMAIN (a \o b) : (a \o b)[i] = job[t][k] \/ (a \o b)[i] = e
      BY <1>14, <2>1, <2>3, Zenon
    <3>2. e.op \in Harmless /\ t # "device" BY <1>6, <1>10, <2>3
    <3> QED BY <1>5, <3>1, <3>2, Zenon
  <2> QED BY <1>9, <2>2, <2>3, Zenon
<1> QED BY <1>8, <1>9, <1>11, <1>12, <1>15, Zenon

\* a step put before a program
LEMMA Prefixed ==
    ASSUME NEW o \in Steps, NEW u \in Seq(Steps), NEW p, p = <<o>> \o u
    PROVE  p \in Seq(Steps) /\ \A i \in DOMAIN p : p[i] = o \/ \E k \in DOMAIN u : p[i] = u[k]
<1>1. p \in Seq(Steps) /\ Len(p) = Len(u) + 1 OBVIOUS
<1>2. \A i \in 1..Len(p) : p[i] = IF i = 1 THEN o ELSE u[i - 1] OBVIOUS
<1>3. DOMAIN p = 1..Len(p) /\ DOMAIN u = 1..Len(u) BY <1>1
<1>4. \A i \in 1..Len(p) : i # 1 => i - 1 \in 1..Len(u) BY <1>1
<1> QED BY <1>1, <1>2, <1>3, <1>4

\* a step that changes nothing but the program
LEMMA StepAlone ==
    ASSUME IInv, NEW t \in Threads, job[t] # <<>>, Aside,
           UNCHANGED <<writes, state, thread, dvc, lock, error>>,
           NEW p \in Seq(Steps), job' = [job EXCEPT ![t] = p],
           job' \in [Threads -> Seq(Steps)], ChannelOK'
    PROVE  IInv'
<1>1. StepTypes' BY Zenon DEF IInv, TypeOK, StepTypes
<1>2. MayEnd(t, p) BY Zenon DEF MayEnd
<1> QED BY <1>1, <1>2, ProgramStep, Zenon

\* the tests of a write
LEMMA CheckWriteKeeps ==
    ASSUME IInv, NEW t \in Threads, CheckWrite(t), Aside
    PROVE  IInv'
<1>1. Runs(t, "write") /\ UNCHANGED <<writes, state, thread, dvc, lock, error>>
  BY Zenon DEF CheckWrite
<1>2. /\ job[t] \in Seq(Steps) /\ job[t] # <<>>
      /\ Head(job[t]) \in Steps /\ Head(job[t]).pdu \in Pdus
      /\ 1 \in DOMAIN job[t] /\ Head(job[t]) = job[t][1]
      /\ Tail(job[t]) \in Seq(Steps)
      /\ \A i \in DOMAIN Tail(job[t]) : \E k \in DOMAIN job[t] : Tail(job[t])[i] = job[t][k]
  BY <1>1, HeadStep, Zenon
<1>3. CASE job' = [job EXCEPT ![t] = Failing(t)]
  <2>1. Failing(t) \in Seq(Steps) /\ LeftOver(t, Failing(t)) BY FailingOK
  <2>2. job' \in [Threads -> Seq(Steps)] /\ ChannelOK' BY <1>1, <1>3, <2>1, GoesOnAlone, Zenon
  <2> QED BY <1>1, <1>2, <1>3, <2>1, <2>2, StepAlone, Zenon
<1>4. CASE job' = [job EXCEPT ![t] = <<Op("post", Head(job[t]).pdu)>> \o Tail(job[t])]
  <2>1. PICK o : o = Op("post", Head(job[t]).pdu) OBVIOUS
  <2>2. o \in Steps /\ o.op = "post" /\ o.pdu = job[t][1].pdu BY <1>2, <2>1, OpType DEF Ops
  <2>3. PICK u \in Seq(Steps) : u = Tail(job[t]) BY <1>2
  <2>4. PICK p : p = <<o>> \o u OBVIOUS
  <2>5. p \in Seq(Steps) /\ \A i \in DOMAIN p : p[i] = o \/ \E k \in DOMAIN u : p[i] = u[k]
    BY <2>2, <2>3, <2>4, Prefixed
  <2>6. "post" \in Harmless /\ "post" \in DeviceOps BY DEF Harmless, DeviceOps
  <2>7. t = "device" => o.pdu.ch \in ChannelIds
    BY <1>2, <2>2, Zenon DEF IInv, ChannelOK
  <2>8. LeftOver(t, p)
    <3> SUFFICES ASSUME NEW i \in DOMAIN p
                 PROVE  \/ \E k \in DOMAIN job[t] : p[i] = job[t][k]
                        \/ /\ p[i].op \in Harmless
                           /\ t = "device" => p[i].op \in DeviceOps /\ p[i].pdu.ch \in ChannelIds
      BY Zenon DEF LeftOver
    <3>1. CASE p[i] = o
      <4>1. p[i].op = "post" /\ (t = "device" => p[i].pdu.ch \in ChannelIds) BY <2>2, <2>7, <3>1, Zenon
      <4> QED BY <2>6, <4>1, Zenon
    <3>2. CASE \E k \in DOMAIN u : p[i] = u[k] BY <1>2, <2>3, <3>2, Zenon
    <3> QED BY <2>5, <3>1, <3>2, Zenon
  <2>9. job' = [job EXCEPT ![t] = p] BY <1>4, <2>1, <2>3, <2>4, Zenon
  <2>10. job' \in [Threads -> Seq(Steps)] /\ ChannelOK' BY <1>1, <2>5, <2>8, <2>9, GoesOnAlone, Zenon
  <2> QED BY <1>1, <1>2, <2>5, <2>9, <2>10, StepAlone, Zenon
<1> QED BY <1>3, <1>4, Zenon DEF CheckWrite, Goes

\* the post of a write
LEMMA PostWriteKeeps ==
    ASSUME IInv, NEW t \in Threads, PostWrite(t), Aside
    PROVE  IInv'
<1>1. /\ Runs(t, "post") /\ UNCHANGED <<state, thread, dvc, lock, error>>
      /\ writes' = MessageQueue_Dispatch(writes, Head(job[t]).pdu)
      /\ job' = [job EXCEPT ![t] = Tail(job[t])]
  BY Zenon DEF PostWrite, Goes
<1>2. /\ job[t] # <<>> /\ Head(job[t]).pdu \in Pdus /\ Tail(job[t]) \in Seq(Steps)
      /\ \A i \in DOMAIN Tail(job[t]) : \E k \in DOMAIN job[t] : Tail(job[t])[i] = job[t][k]
  BY <1>1, HeadStep, Zenon
<1>3. job' \in [Threads -> Seq(Steps)] /\ ChannelOK'
  <2>1. dvc' = dvc /\ job' = [job EXCEPT ![t] = Tail(job[t])] BY <1>1, Zenon
  <2>2. LeftOver(t, Tail(job[t])) BY <1>2, Zenon DEF LeftOver
  <2> QED BY <1>2, <2>1, <2>2, GoesOnAlone, Zenon
<1>4. WellFormed(writes', Pdus \cup {WMQ_QUIT})
  <2>1. WellFormed(writes, Pdus \cup {WMQ_QUIT}) BY Zenon DEF IInv, TypeOK
  <2>2. Head(job[t]).pdu \in Pdus \cup {WMQ_QUIT} BY <1>2
  <2>3. WellFormed(MessageQueue_Dispatch(writes, Head(job[t]).pdu), Pdus \cup {WMQ_QUIT})
    BY <2>1, <2>2, DispatchAppends
  <2> QED BY <1>1, <2>3, Zenon
<1>5. StepTypes' BY <1>1, <1>4, Zenon DEF IInv, TypeOK, StepTypes
<1>6. MayEnd(t, Tail(job[t])) BY <1>1, Zenon DEF MayEnd
<1> QED BY <1>1, <1>2, <1>3, <1>5, <1>6, ProgramStep, Zenon

\* the critical section of a channel is entered, or left
LEMMA LockKeeps ==
    ASSUME IInv, NEW t \in Threads, EnterChannel(t) \/ LeaveChannel(t), Aside
    PROVE  IInv'
<1>1. /\ Runs(t, "enter") \/ Runs(t, "leave")
      /\ UNCHANGED <<writes, state, thread, dvc, error>>
      /\ \E h \in Threads \cup {"none"} : lock' = [lock EXCEPT ![Head(job[t]).pdu.ch] = h]
      /\ job' = [job EXCEPT ![t] = Tail(job[t])]
  <2>1. t \in Threads \cup {"none"} /\ "none" \in Threads \cup {"none"} OBVIOUS
  <2> QED BY <2>1, Zenon DEF EnterChannel, LeaveChannel, Goes
<1>2. /\ job[t] # <<>> /\ Tail(job[t]) \in Seq(Steps)
      /\ \A i \in DOMAIN Tail(job[t]) : \E k \in DOMAIN job[t] : Tail(job[t])[i] = job[t][k]
  BY <1>1, HeadStep, Zenon
<1>3. job' \in [Threads -> Seq(Steps)] /\ ChannelOK'
  <2>1. dvc' = dvc /\ job' = [job EXCEPT ![t] = Tail(job[t])] BY <1>1, Zenon
  <2>2. LeftOver(t, Tail(job[t])) BY <1>2, Zenon DEF LeftOver
  <2> QED BY <1>2, <2>1, <2>2, GoesOnAlone, Zenon
<1>4. lock' \in [ChannelIds -> Threads \cup {"none"}]
  <2>1. lock \in [ChannelIds -> Threads \cup {"none"}] BY Zenon DEF IInv, TypeOK
  <2>2. PICK h \in Threads \cup {"none"} : lock' = [lock EXCEPT ![Head(job[t]).pdu.ch] = h] BY <1>1
  <2> QED BY ONLY <2>1, <2>2
<1>5. StepTypes' BY <1>1, <1>4, Zenon DEF IInv, TypeOK, StepTypes
<1>6. MayEnd(t, Tail(job[t])) BY <1>1, Zenon DEF MayEnd
<1> QED BY <1>1, <1>2, <1>3, <1>5, <1>6, ProgramStep, Zenon

\* the thread exits with its error
LEMMA ExitKeeps ==
    ASSUME IInv, NEW t \in Threads, ExitThread(t), Aside
    PROVE  IInv'
<1>1. /\ Runs(t, "exit") /\ UNCHANGED <<writes, state, dvc, lock>>
      /\ error' = TRUE /\ thread' = "exited" /\ job' = [job EXCEPT ![t] = <<>>]
  BY Zenon DEF ExitThread, Goes
<1>2. job[t] # <<>> /\ (t = "device" => "exit" \in DeviceOps) BY <1>1, HeadStep, Zenon
<1>3. t = "drdynvc" BY <1>2 DEF DeviceOps, Threads
<1>4. <<>> \in Seq(Steps) /\ DOMAIN <<>> = {} OBVIOUS
<1>5. job' \in [Threads -> Seq(Steps)] /\ ChannelOK'
  <2>1. LeftOver(t, <<>>) BY <1>4, Zenon DEF LeftOver
  <2> QED BY <1>1, <1>4, <2>1, GoesOnAlone, Zenon
<1>6. StepTypes' BY <1>1, Zenon DEF IInv, TypeOK, StepTypes
<1>7. MayEnd(t, <<>>) BY <1>1, <1>3, Zenon DEF MayEnd
<1> QED BY <1>1, <1>2, <1>4, <1>5, <1>6, <1>7, ProgramStep, Zenon

\* a channel is set to a new value: no program loses a channel by it
LEMMA SetChannel ==
    ASSUME IInv, NEW c \in ChannelIds, NEW r \in DvcChannels, Len(r.data) <= 1,
           dvc' = [dvc EXCEPT ![c] = r]
    PROVE  /\ dvc' \in [ChannelIds -> DvcChannels \cup {NoChannel}]
           /\ dvc'[c] # NoChannel
           /\ \A d \in ChannelIds : dvc'[d] # NoChannel => Len(dvc'[d].data) <= 1
           /\ \A s \in Threads : ProgramOK(job[s], dvc')
<1>1. dvc \in [ChannelIds -> DvcChannels \cup {NoChannel}] BY Zenon DEF IInv, TypeOK
<1>2. r # NoChannel BY ChannelsAssumption DEF ChannelsAssumption
<1>3. dvc' \in [ChannelIds -> DvcChannels \cup {NoChannel}] BY ONLY <1>1, dvc' = [dvc EXCEPT ![c] = r], r \in DvcChannels
<1>4. dvc'[c] = r /\ \A d \in ChannelIds : d # c => dvc'[d] = dvc[d] BY <1>1
<1>5. \A d \in ChannelIds : dvc[d] # NoChannel => Len(dvc[d].data) <= 1 BY Zenon DEF IInv, ChannelOK
<1>6. \A d \in ChannelIds : dvc'[d] # NoChannel => Len(dvc'[d].data) <= 1
  <2> TAKE d \in ChannelIds
  <2>1. CASE d = c BY <1>4, <2>1, Zenon
  <2>2. CASE d # c BY <1>4, <1>5, <2>2, Zenon
  <2> QED BY <2>1, <2>2
<1>7. \A d \in ChannelIds : dvc[d] # NoChannel => dvc'[d] # NoChannel BY <1>2, <1>4, Zenon
<1>8. \A s \in Threads : ProgramOK(job[s], dvc)  BY Zenon DEF IInv, ChannelOK
<1>9. \A s \in Threads : ProgramOK(job[s], dvc')
  <2> SUFFICES ASSUME NEW s \in Threads, NEW i \in DOMAIN job[s]
               PROVE  /\ job[s][i].op \in InChannel \cup {"create"} => job[s][i].pdu.ch \in ChannelIds
                      /\ job[s][i].op \in InChannel => dvc'[job[s][i].pdu.ch] # NoChannel
                      /\ job[s][i].op = "close" => \A k \in DOMAIN job[s] : job[s][k].op \notin InChannel
    BY Zenon DEF ProgramOK
  <2>1. /\ job[s][i].op \in InChannel \cup {"create"} => job[s][i].pdu.ch \in ChannelIds
        /\ job[s][i].op \in InChannel => dvc[job[s][i].pdu.ch] # NoChannel
        /\ job[s][i].op = "close" => \A k \in DOMAIN job[s] : job[s][k].op \notin InChannel
    BY <1>8, Zenon DEF ProgramOK
  <2>2. job[s][i].op \in InChannel => job[s][i].op \in InChannel \cup {"create"} OBVIOUS
  <2> QED BY <1>7, <2>1, <2>2, Zenon
<1> QED BY <1>2, <1>3, <1>4, <1>6, <1>9, Zenon

\* a program of two steps
LEMMA TwoSteps ==
    ASSUME NEW a \in Steps, NEW b \in Steps, NEW p, p = <<a, b>>
    PROVE  p \in Seq(Steps) /\ p # <<>> /\ \A i \in DOMAIN p : p[i] = a \/ p[i] = b
<1>1. p \in Seq(Steps) /\ Len(p) = 2 /\ p[1] = a /\ p[2] = b OBVIOUS
<1>2. DOMAIN p = 1..2 BY <1>1
<1>3. p # <<>> BY <1>1
<1>4. \A i \in 1..2 : i = 1 \/ i = 2 OBVIOUS
<1> QED BY <1>1, <1>2, <1>3, <1>4

\* two programs of one step
LEMMA Pair ==
    ASSUME NEW a \in Steps, NEW b \in Steps
    PROVE  <<a>> \o <<b>> = <<a, b>>
<1>1. <<a>> \in Seq(Steps) /\ <<b>> \in Seq(Steps) /\ <<a, b>> \in Seq(Steps) OBVIOUS
<1>2. Len(<<a>> \o <<b>>) = 2 /\ (<<a>> \o <<b>>)[1] = a /\ (<<a>> \o <<b>>)[2] = b BY <1>1
<1>3. <<a>> \o <<b>> \in Seq(Steps) BY <1>1
<1>4. \A i \in 1..2 : (<<a>> \o <<b>>)[i] = <<a, b>>[i] BY <1>2
<1> QED BY <1>1, <1>2, <1>3, <1>4, SeqEqual

\* a program that writes, then opens or closes a channel
LEMMA WriteThen ==
    ASSUME NEW d, NEW c \in ChannelIds, NEW w \in Pdus, NEW q \in Pdus, q.ch = c,
           NEW o \in {"open", "close", "create"}, o = "open" => d[c] # NoChannel,
           NEW p, p = <<Write(w), Op(o, q)>> \/ p = <<Op(o, q), Write(w)>>
    PROVE  p \in Seq(Steps) /\ ProgramOK(p, d)
<1>1. PICK a : a = Write(w) OBVIOUS
<1>2. PICK b : b = Op(o, q) OBVIOUS
<1>3. a \in Steps /\ a.op = "write" BY <1>1, OpType DEF Write, Ops
<1>4. b \in Steps /\ b.op = o /\ b.pdu = q BY <1>2, OpType DEF Ops
<1>5. p = <<a, b>> \/ p = <<b, a>> BY <1>1, <1>2, Zenon
<1>6. p \in Seq(Steps) /\ \A i \in DOMAIN p : p[i] = a \/ p[i] = b
  <2>1. CASE p = <<a, b>> BY <1>3, <1>4, <2>1, TwoSteps
  <2>2. CASE p = <<b, a>> BY <1>3, <1>4, <2>2, TwoSteps
  <2> QED BY <1>5, <2>1, <2>2
<1>7. "write" \notin InChannel /\ "create" \notin InChannel /\ "close" \notin InChannel BY DEF InChannel
<1>8. ASSUME NEW i \in DOMAIN p
      PROVE  /\ p[i].op \in InChannel \cup {"create"} => p[i].pdu.ch \in ChannelIds
             /\ p[i].op \in InChannel => d[p[i].pdu.ch] # NoChannel
             /\ p[i].op = "close" => \A k \in DOMAIN p : p[k].op \notin InChannel
  <2>1. CASE p[i] = a
    <3>1. p[i].op = "write" BY <1>3, <2>1
    <3>2. "write" \notin InChannel \cup {"create"} BY <1>7
    <3> QED BY <1>7, <3>1, <3>2
  <2>2. CASE p[i] = b
    <3>1. p[i].op = o /\ p[i].pdu = q BY <1>4, <2>2, Zenon
    <3>2. o \in InChannel => o = "open" BY <1>7
    <3>3. o = "close" => \A k \in DOMAIN p : p[k].op \notin InChannel
      <4> SUFFICES ASSUME o = "close", NEW k \in DOMAIN p PROVE p[k].op \notin InChannel OBVIOUS
      <4>1. p[k] = a \/ p[k] = b BY <1>6, Zenon
      <4>2. a.op \notin InChannel /\ b.op \notin InChannel BY <1>3, <1>4, <1>7
      <4> QED BY <4>1, <4>2, Zenon
    <3> QED BY <3>1, <3>2, <3>3, Zenon
  <2> QED BY <1>6, <2>1, <2>2, Zenon
<1> QED BY <1>6, <1>8, Zenon DEF ProgramOK

\* dvcman_create_channel and the answer
LEMMA CreateKeeps ==
    ASSUME IInv, NEW t \in Threads, CreateChannel(t), Aside
    PROVE  IInv'
<1>1. PICK q : q = Head(job[t]).pdu OBVIOUS
<1>2. /\ Runs(t, "create") /\ state' = "READY" /\ UNCHANGED <<writes, thread, lock, error>>
  BY Zenon DEF CreateChannel
<1>3. /\ job[t] # <<>> /\ q \in Pdus /\ q.ch \in ChannelIds /\ (t = "device" => "create" \in DeviceOps)
  <2>1. "create" \in InChannel \cup {"create"} OBVIOUS
  <2> QED BY <1>1, <1>2, <2>1, HeadStep, Zenon
<1>4. t # "device" BY <1>3 DEF DeviceOps
<1>5. connection \in Nat /\ dvc \in [ChannelIds -> DvcChannels \cup {NoChannel}]
  BY Zenon DEF IInv, TypeOK
<1>6. Simple("CREATED", q.ch) \in Pdus /\ Simple("NOT_CREATED", q.ch) \in Pdus
  BY <1>3, <1>5, SimpleType DEF ClientTypes
<1>7. \/ /\ dvc' = [dvc EXCEPT ![q.ch] = [opened |-> FALSE, data |-> <<>>]]
         /\ job' = [job EXCEPT ![t] = <<Write(Simple("CREATED", q.ch)), Op("open", q)>>]
      \/ /\ dvc' = dvc
         /\ job' = [job EXCEPT ![t] = <<Write(Simple("NOT_CREATED", q.ch)), Op("close", q)>>]
  BY <1>1, Zenon DEF CreateChannel, Goes
<1>8. ASSUME NEW p \in Seq(Steps), job' = [job EXCEPT ![t] = p], ProgramOK(p, dvc'),
             \A s \in Threads : ProgramOK(job[s], dvc'),
             \A d \in ChannelIds : dvc'[d] # NoChannel => Len(dvc'[d].data) <= 1,
             dvc' \in [ChannelIds -> DvcChannels \cup {NoChannel}]
      PROVE  IInv'
  <2>1. job' \in [Threads -> Seq(Steps)] /\ ChannelOK' BY <1>4, <1>8, GoesOn, Zenon
  <2>2. StepTypes' BY <1>2, <1>8, Zenon DEF IInv, TypeOK, StepTypes
  <2>3. MayEnd(t, p) BY <1>2, Zenon DEF MayEnd
  <2> QED BY <1>3, <1>8, <2>1, <2>2, <2>3, ProgramStep, Zenon
<1>9. CASE /\ dvc' = [dvc EXCEPT ![q.ch] = [opened |-> FALSE, data |-> <<>>]]
           /\ job' = [job EXCEPT ![t] = <<Write(Simple("CREATED", q.ch)), Op("open", q)>>]
  <2>1. PICK r : r = [opened |-> FALSE, data |-> <<>>] OBVIOUS
  <2>2. r \in DvcChannels /\ Len(r.data) <= 1 BY <2>1 DEF DvcChannels
  <2>3. /\ dvc' \in [ChannelIds -> DvcChannels \cup {NoChannel}]
        /\ dvc'[q.ch] # NoChannel
        /\ \A d \in ChannelIds : dvc'[d] # NoChannel => Len(dvc'[d].data) <= 1
        /\ \A s \in Threads : ProgramOK(job[s], dvc')
    BY <1>3, <1>9, <2>1, <2>2, SetChannel, Zenon
  <2>4. PICK p : p = <<Write(Simple("CREATED", q.ch)), Op("open", q)>> OBVIOUS
  <2>5. p \in Seq(Steps) /\ ProgramOK(p, dvc') BY <1>3, <1>6, <2>3, <2>4, WriteThen
  <2> QED BY <1>8, <1>9, <2>3, <2>4, <2>5, Zenon
<1>10. CASE /\ dvc' = dvc
            /\ job' = [job EXCEPT ![t] = <<Write(Simple("NOT_CREATED", q.ch)), Op("close", q)>>]
  <2>1. PICK p : p = <<Write(Simple("NOT_CREATED", q.ch)), Op("close", q)>> OBVIOUS
  <2>2. p \in Seq(Steps) /\ ProgramOK(p, dvc') BY <1>3, <1>6, <2>1, WriteThen
  <2>3. /\ \A s \in Threads : ProgramOK(job[s], dvc')
        /\ \A d \in ChannelIds : dvc'[d] # NoChannel => Len(dvc'[d].data) <= 1
        /\ dvc' \in [ChannelIds -> DvcChannels \cup {NoChannel}]
    BY <1>5, <1>10, Zenon DEF IInv, ChannelOK
  <2> QED BY <1>8, <1>10, <2>1, <2>2, <2>3, Zenon
<1> QED BY <1>7, <1>9, <1>10, Zenon

\* dvcman_open_channel
LEMMA OpenKeeps ==
    ASSUME IInv, NEW t \in Threads, OpenChannel(t), Aside
    PROVE  IInv'
<1>1. PICK c : c = Head(job[t]).pdu.ch OBVIOUS
<1>2. PICK r : r = [opened |-> TRUE, data |-> dvc[c].data] OBVIOUS
<1>3. /\ Runs(t, "open") /\ UNCHANGED <<writes, state, thread, lock, error>>
      /\ job' = [job EXCEPT ![t] = Tail(job[t])]
  BY Zenon DEF OpenChannel, Goes
<1>4. "open" \in InChannel \cup {"create"} /\ "open" \in InChannel /\ "open" \notin DeviceOps
  BY DEF InChannel, DeviceOps
<1>5. /\ job[t] # <<>> /\ c \in ChannelIds /\ 1 \in DOMAIN job[t] /\ job[t][1].op = "open"
      /\ job[t][1].pdu.ch = c /\ job[t] \in Seq(Steps) /\ Tail(job[t]) \in Seq(Steps)
      /\ \A i \in DOMAIN Tail(job[t]) : \E k \in DOMAIN job[t] : Tail(job[t])[i] = job[t][k]
      /\ t # "device"
  BY <1>1, <1>3, <1>4, HeadStep, Zenon
<1>6. dvc \in [ChannelIds -> DvcChannels \cup {NoChannel}] BY Zenon DEF IInv, TypeOK
<1>7. dvc' = [dvc EXCEPT ![c] = r] BY <1>1, <1>2, <1>5, <1>6 DEF OpenChannel
<1>8. dvc[c] # NoChannel BY <1>4, <1>5, Zenon DEF IInv, ChannelOK, ProgramOK
<1>9. Len(dvc[c].data) <= 1 BY <1>5, <1>8, Zenon DEF IInv, ChannelOK
<1>10. r \in DvcChannels /\ Len(r.data) <= 1
  <2>1. dvc[c] \in DvcChannels BY <1>5, <1>6, <1>8
  <2> QED BY <1>2, <1>9, <2>1 DEF DvcChannels
<1>11. /\ dvc' \in [ChannelIds -> DvcChannels \cup {NoChannel}]
       /\ \A d \in ChannelIds : dvc'[d] # NoChannel => Len(dvc'[d].data) <= 1
       /\ \A s \in Threads : ProgramOK(job[s], dvc')
  BY <1>5, <1>7, <1>10, SetChannel, Zenon
<1>12. ProgramOK(Tail(job[t]), dvc') BY <1>5, <1>11, SubProgram, Zenon
<1>13. job' \in [Threads -> Seq(Steps)] /\ ChannelOK' BY <1>3, <1>5, <1>11, <1>12, GoesOn, Zenon
<1>14. StepTypes' BY <1>3, <1>11, Zenon DEF IInv, TypeOK, StepTypes
<1>15. MayEnd(t, Tail(job[t])) BY <1>3, Zenon DEF MayEnd
<1> QED BY <1>3, <1>5, <1>13, <1>14, <1>15, ProgramStep, Zenon

\* dvcman_close_channel: no other thread is in the channel, and the program that
\* closes it is not either
LEMMA CloseChannelKeeps ==
    ASSUME IInv, NEW t \in Threads, CloseChannel(t), Aside
    PROVE  IInv'
<1>1. PICK c : c = Head(job[t]).pdu.ch OBVIOUS
<1>2. /\ Runs(t, "close") /\ UNCHANGED <<writes, state, thread, lock, error>>
      /\ job' = [job EXCEPT ![t] = Tail(job[t])]
      /\ dvc' = [dvc EXCEPT ![c] = NoChannel] /\ OnClose({c})
  BY <1>1, Zenon DEF CloseChannel, Goes
<1>3. "close" \notin DeviceOps BY DEF DeviceOps
<1>4. /\ job[t] # <<>> /\ 1 \in DOMAIN job[t] /\ job[t][1].op = "close"
      /\ job[t] \in Seq(Steps) /\ Tail(job[t]) \in Seq(Steps)
      /\ \A i \in DOMAIN Tail(job[t]) : \E k \in DOMAIN job[t] : Tail(job[t])[i] = job[t][k]
      /\ t # "device"
  BY <1>2, <1>3, HeadStep, Zenon
<1>5. dvc \in [ChannelIds -> DvcChannels \cup {NoChannel}] BY Zenon DEF IInv, TypeOK
<1>6. /\ dvc' \in [ChannelIds -> DvcChannels \cup {NoChannel}]
      /\ \A d \in ChannelIds : d # c => dvc'[d] = dvc[d]
      /\ \A d \in ChannelIds : d = c => dvc'[d] = NoChannel
  BY <1>2, <1>5
<1>7. \A d \in ChannelIds : dvc'[d] # NoChannel => Len(dvc'[d].data) <= 1
  <2> TAKE d \in ChannelIds
  <2>1. CASE d = c BY <1>6, <2>1, Zenon
  <2>2. CASE d # c
    <3>1. dvc'[d] = dvc[d] BY <1>6, <2>2, Zenon
    <3>2. dvc[d] # NoChannel => Len(dvc[d].data) <= 1 BY Zenon DEF IInv, ChannelOK
    <3> QED BY <3>1, <3>2, Zenon
  <2> QED BY <2>1, <2>2
<1>8. \A s \in Threads : ProgramOK(job[s], dvc) BY Zenon DEF IInv, ChannelOK
<1>9. \A k \in DOMAIN job[t] : job[t][k].op \notin InChannel BY <1>4, <1>8, Zenon DEF ProgramOK
<1>10. ProgramOK(job[t], dvc') BY <1>8, <1>9, Zenon DEF ProgramOK
<1>11. ProgramOK(Tail(job[t]), dvc') BY <1>4, <1>10, SubProgram, Zenon
<1>12. \A i \in DOMAIN job["device"] : job["device"][i].pdu.ch # c
  BY <1>2 DEF OnClose
<1>13. ProgramOK(job["device"], dvc')
  <2>1. ProgramOK(job["device"], dvc) BY <1>8 DEF Threads
  <2>2. ASSUME NEW i \in DOMAIN job["device"], job["device"][i].op \in InChannel
        PROVE  dvc'[job["device"][i].pdu.ch] # NoChannel
    <3>1. "device" \in Threads BY DEF Threads
    <3>2. job["device"][i].pdu.ch \in ChannelIds BY Zenon DEF IInv, ChannelOK
    <3>3. dvc[job["device"][i].pdu.ch] # NoChannel BY <2>1, <2>2, Zenon DEF ProgramOK
    <3> QED BY <1>6, <1>12, <3>2, <3>3, Zenon
  <2> QED BY <2>1, <2>2, Zenon DEF ProgramOK
<1>14. \A s \in Threads \ {t} : ProgramOK(job[s], dvc') BY <1>4, <1>13 DEF Threads
<1>15. job' \in [Threads -> Seq(Steps)] /\ ChannelOK' BY <1>2, <1>4, <1>7, <1>11, <1>14, GoesOn, Zenon
<1>16. StepTypes' BY <1>2, <1>6, Zenon DEF IInv, TypeOK, StepTypes
<1>17. MayEnd(t, Tail(job[t])) BY <1>2, Zenon DEF MayEnd
<1> QED BY <1>2, <1>4, <1>15, <1>16, <1>17, ProgramStep, Zenon

-----------------------------------------------------------------------------
(* Taking a message, and the device.                                         *)

\* what a program that writes a message needs of the channels
LEMMA WriteOK ==
    ASSUME connection \in Nat, NEW c \in ChannelIds, NEW m \in Nat, NEW n \in 1..2,
           NEW d, d[c] # NoChannel,
           NEW p, p = dvcman_write_channel(c, m, n)
    PROVE  /\ p \in Seq(Steps) /\ ProgramOK(p, d)
           /\ \A i \in DOMAIN p : p[i].op \in DeviceOps /\ p[i].pdu.ch \in ChannelIds
<1>1. /\ p \in Seq(Steps)
      /\ \A i \in DOMAIN p : p[i].op \in DeviceOps /\ p[i].pdu.ch = c
  <2>1. WritesOn(dvcman_write_channel(c, m, n), c) BY WriteProgram
  <2> QED BY <2>1, Zenon DEF WritesOn
<1>2. "close" \notin DeviceOps BY DEF DeviceOps
<1>3. ProgramOK(p, d) BY <1>1, <1>2, Zenon DEF ProgramOK
<1> QED BY <1>1, <1>3, Zenon

\* a device begins to write
LEMMA DeviceKeeps ==
    ASSUME IInv, NEW c \in ChannelIds, NEW n \in 1..2, DeviceWrite(c, n)
    PROVE  IInv'
<1>0. PICK m : m = MaxPdus + budget.device OBVIOUS
<1>1. PICK p : p = dvcman_write_channel(c, m, n) OBVIOUS
<1>2. /\ dvc[c] # NoChannel /\ main \in {"loop", "flush", "join"}
      /\ budget.device > 0 /\ budget' = [budget EXCEPT !.device = @ - 1]
      /\ job' = [job EXCEPT !["device"] = p]
      /\ UNCHANGED <<main, connected, open, writes, queue, dataIn, state, thread, dvc, lock, error,
                     connection, posted, handled, messages>>
  BY <1>0, <1>1, Zenon DEF DeviceWrite, Goes, peer
<1>3. /\ connection \in Nat /\ budget \in [pdus : Nat, device : Nat]
      /\ messages \in [ChannelIds -> Seq(1..2)] /\ job \in [Threads -> Seq(Steps)]
  BY Zenon DEF IInv, TypeOK, PeerOK
<1>4. m \in Nat /\ budget' \in [pdus : Nat, device : Nat]
  <2>1. m \in Nat BY <1>0, <1>3, ChannelsAssumption DEF ChannelsAssumption
  <2>2. budget.device > 0 /\ budget' = [budget EXCEPT !.device = @ - 1] BY <1>2, Zenon
  <2>3. budget' \in [pdus : Nat, device : Nat] BY <1>3, <2>2
  <2> QED BY <2>1, <2>3
<1>5. /\ p \in Seq(Steps) /\ ProgramOK(p, dvc)
      /\ \A i \in DOMAIN p : p[i].op \in DeviceOps /\ p[i].pdu.ch \in ChannelIds
  BY <1>1, <1>2, <1>3, <1>4, WriteOK, Zenon
<1>6. "device" \in Threads BY DEF Threads
<1>7. job' \in [Threads -> Seq(Steps)] /\ ChannelOK'
  <2>1. /\ ProgramOK(p, dvc') /\ \A s \in Threads \ {"device"} : ProgramOK(job[s], dvc')
        /\ \A d \in ChannelIds : dvc'[d] # NoChannel => Len(dvc'[d].data) <= 1
    BY <1>2, <1>5, Zenon DEF IInv, ChannelOK
  <2> QED BY <1>2, <1>5, <1>6, <2>1, GoesOn, Zenon
<1>8. TypeOK' BY <1>2, <1>7, Zenon DEF IInv, TypeOK
<1>9. PeerOK' BY <1>2, <1>3, <1>4, Zenon DEF PeerOK
<1>10. ThreadOK'
  <2>1. job'["drdynvc"] = job["drdynvc"] BY <1>2, <1>3 DEF Threads
  <2> QED BY <1>2, <2>1 DEF IInv, ThreadOK
<1>11. OrderOK' BY <1>2, Zenon DEF IInv, OrderOK
<1> QED BY <1>7, <1>8, <1>9, <1>10, <1>11, Zenon DEF IInv

\* what a handler leaves to the thread and to the channels
Handled ==
    /\ job' \in [Threads -> Seq(Steps)] /\ ChannelOK'
    /\ state' \in {"INITIAL", "CAPABILITIES", "READY"}
    /\ dvc' \in [ChannelIds -> DvcChannels \cup {NoChannel}]
    /\ job'["device"] = job["device"]

\* a handler that gives the thread a program and leaves the channels alone
LEMMA HandledAlone ==
    ASSUME IInv, NEW p \in Seq(Steps), job' = [job EXCEPT !["drdynvc"] = p], dvc' = dvc,
           ProgramOK(p, dvc), state' \in {"INITIAL", "CAPABILITIES", "READY"}
    PROVE  Handled
<1>1. "drdynvc" \in Threads /\ "drdynvc" # "device" BY DEF Threads
<1>2. /\ ProgramOK(p, dvc') /\ \A s \in Threads \ {"drdynvc"} : ProgramOK(job[s], dvc')
      /\ \A d \in ChannelIds : dvc'[d] # NoChannel => Len(dvc'[d].data) <= 1
      /\ dvc' \in [ChannelIds -> DvcChannels \cup {NoChannel}]
      /\ job \in [Threads -> Seq(Steps)]
  BY Zenon DEF IInv, ChannelOK, TypeOK
<1>3. job' \in [Threads -> Seq(Steps)] /\ ChannelOK' BY <1>1, <1>2, GoesOn, Zenon
<1>4. job'["device"] = job["device"] BY <1>2 DEF Threads
<1> QED BY <1>2, <1>3, <1>4, Zenon DEF Handled

\* a program of one step
LEMMA OneStep ==
    ASSUME NEW a \in Steps, NEW d, a.op \notin InChannel,
           a.op = "create" => a.pdu.ch \in ChannelIds, NEW p, p = <<a>>
    PROVE  p \in Seq(Steps) /\ ProgramOK(p, d)
<1>1. p \in Seq(Steps) /\ DOMAIN p = {1} /\ p[1] = a OBVIOUS
<1>2. \A i \in DOMAIN p : p[i] = a BY <1>1
<1> QED BY <1>1, <1>2 DEF ProgramOK

\* drdynvc_process_capability_request
LEMMA CapabilityKeeps ==
    ASSUME IInv, NEW p \in Arriving, process_capability_request(p)
    PROVE  Handled
<1>1. PICK a : a = Write(Simple("CAPABILITIES", "none")) OBVIOUS
<1>2. PICK g : g = <<a>> OBVIOUS
<1>3. /\ state' = "READY" /\ dvc' = dvc /\ job' = [job EXCEPT !["drdynvc"] = g]
  BY <1>1, <1>2, Zenon DEF process_capability_request, Goes
<1>4. connection \in Nat BY Zenon DEF IInv, TypeOK
<1>5. Simple("CAPABILITIES", "none") \in Pdus BY <1>4, SimpleType DEF ClientTypes
<1>6. a \in Steps /\ a.op = "write" BY <1>1, <1>5, OpType DEF Write, Ops
<1>7. "write" \notin InChannel BY DEF InChannel
<1>8. g \in Seq(Steps) /\ ProgramOK(g, dvc) BY <1>2, <1>6, <1>7, OneStep
<1> QED BY <1>3, <1>8, HandledAlone

\* drdynvc_process_create_request
LEMMA CreateRequestKeeps ==
    ASSUME IInv, NEW p \in Arriving, process_create_request(p)
    PROVE  Handled
<1>1. PICK a : a = Write(Simple("CAPABILITIES", "none")) OBVIOUS
<1>2. PICK b : b = Op("create", p) OBVIOUS
<1>3. PICK g : g = (IF state = "CAPABILITIES" THEN <<a>> ELSE <<>>) \o <<b>> OBVIOUS
<1>4. /\ p.type \in {"CREATE_REQUEST", "CREATE_UNHEARD"}
      /\ state' = state /\ dvc' = dvc /\ job' = [job EXCEPT !["drdynvc"] = g]
  BY <1>1, <1>2, <1>3, Zenon DEF process_create_request, Goes
<1>5. connection \in Nat /\ state \in {"INITIAL", "CAPABILITIES", "READY"} BY Zenon DEF IInv, TypeOK
<1>6. p \in Pdus /\ p.ch \in ChannelIds BY <1>4 DEF Arriving
<1>7. Simple("CAPABILITIES", "none") \in Pdus BY <1>5, SimpleType DEF ClientTypes
<1>8. b \in Steps /\ b.op = "create" /\ b.pdu = p BY <1>2, <1>6, OpType DEF Ops
<1>9. a \in Steps BY <1>1, <1>7, OpType DEF Write, Ops
<1>10. "create" \notin InChannel BY DEF InChannel
<1>11. CASE state = "CAPABILITIES"
  <2>0. g = <<a>> \o <<b>> BY <1>3, <1>11, Zenon
  <2>1. g = <<a, b>> BY <1>8, <1>9, <2>0, Pair, Zenon
  <2>2. g = <<Write(Simple("CAPABILITIES", "none")), Op("create", p)>> BY <1>1, <1>2, <2>1, Zenon
  <2>3. g \in Seq(Steps) /\ ProgramOK(g, dvc) BY <1>6, <1>7, <2>2, WriteThen
  <2> QED BY <1>4, <1>5, <2>3, HandledAlone, Zenon
<1>12. CASE state # "CAPABILITIES"
  <2>1. g = <<b>> BY <1>3, <1>8, <1>12
  <2>2. g \in Seq(Steps) /\ ProgramOK(g, dvc) BY <1>6, <1>8, <1>10, <2>1, OneStep
  <2> QED BY <1>4, <1>5, <2>2, HandledAlone, Zenon
<1> QED BY <1>11, <1>12

\* drdynvc_process_close_request
LEMMA CloseRequestKeeps ==
    ASSUME IInv, NEW p \in Arriving, process_close_request(p)
    PROVE  Handled
<1>1. PICK g : g = <<Op("close", p), Write(Simple("CLOSED", p.ch))>> OBVIOUS
<1>2. /\ p.type = "CLOSE_REQUEST"
      /\ state' = state /\ dvc' = dvc /\ job' = [job EXCEPT !["drdynvc"] = g]
  BY <1>1, Zenon DEF process_close_request, Goes
<1>3. connection \in Nat /\ state \in {"INITIAL", "CAPABILITIES", "READY"} BY Zenon DEF IInv, TypeOK
<1>4. p \in Pdus /\ p.ch \in ChannelIds BY <1>2 DEF Arriving
<1>5. Simple("CLOSED", p.ch) \in Pdus BY <1>3, <1>4, SimpleType DEF ClientTypes
<1>6. g \in Seq(Steps) /\ ProgramOK(g, dvc) BY <1>1, <1>4, <1>5, WriteThen
<1> QED BY <1>2, <1>3, <1>6, HandledAlone, Zenon

\* what has been collected when a piece comes
LEMMA Collected ==
    ASSUME NEW p \in Pdus, NEW ch \in DvcChannels, Len(ch.data) <= 1, NEW first \in BOOLEAN,
           NEW g, g = IF first THEN <<p>> ELSE Append(ch.data, p)
    PROVE  /\ g \in Seq(Pdus) /\ Len(g) \in 1..2
           /\ Len(g) < g[1].parts => Len(g) <= 1
<1>1. ch.data \in Seq(Pdus) BY DEF DvcChannels
<1>2. PICK s \in Seq(Pdus) : s = ch.data BY <1>1
<1>3. Len(s) <= 1 BY <1>2
<1>4. g \in Seq(Pdus) /\ Len(g) \in 1..2
  <2>1. CASE first BY <2>1
  <2>2. CASE ~first
    <3>1. g = Append(s, p) BY <1>2, <2>2, Zenon
    <3>2. PICK n \in Nat : n = Len(s) OBVIOUS
    <3>3. n <= 1 BY <1>3, <3>2, Zenon
    <3>4. n + 1 \in 1..2 BY ONLY n \in Nat, <3>3
    <3>5. Append(s, p) \in Seq(Pdus) /\ Len(Append(s, p)) = n + 1 BY <3>2
    <3> QED BY <3>1, <3>4, <3>5, Zenon
  <2> QED BY <2>1, <2>2
<1>5. g[1] \in Pdus BY <1>4
<1>6. g[1].parts \in 1..2 BY <1>5 DEF Pdus
<1> QED BY <1>4, <1>6

\* data for a channel: it is not there, the message is not complete, or it is
LEMMA DataKeeps ==
    ASSUME IInv, NEW p \in Arriving, process_data(p)
    PROVE  Handled
<1>1. PICK c : c = p.ch OBVIOUS
<1>2. PICK first : first = (p.type = "DATA_FIRST") OBVIOUS
<1>3. PICK g : g = IF first THEN <<p>> ELSE Append(dvc[c].data, p) OBVIOUS
<1>4. /\ p.type \in {"DATA_FIRST", "DATA"} /\ state' = state
      /\ \/ dvc' = dvc /\ job' = [job EXCEPT !["drdynvc"] = Failing("drdynvc")]
         \/ /\ dvc[c] # NoChannel /\ Len(g) < g[1].parts /\ job' = job
            /\ dvc' = [dvc EXCEPT ![c] = [opened |-> dvc[c].opened, data |-> g]]
         \/ /\ dvc[c] # NoChannel
            /\ dvc' = [dvc EXCEPT ![c] = [opened |-> dvc[c].opened, data |-> <<>>]]
            /\ job' = [job EXCEPT !["drdynvc"] = dvcman_write_channel(c, p.msg, Len(g))]
  BY <1>1, <1>2, <1>3, Zenon DEF process_data, Goes
<1>5. /\ connection \in Nat /\ state \in {"INITIAL", "CAPABILITIES", "READY"}
      /\ dvc \in [ChannelIds -> DvcChannels \cup {NoChannel}]
      /\ job \in [Threads -> Seq(Steps)]
      /\ \A s \in Threads : ProgramOK(job[s], dvc)
      /\ \A d \in ChannelIds : dvc[d] # NoChannel => Len(dvc[d].data) <= 1
  BY Zenon DEF IInv, TypeOK, ChannelOK
<1>6. p \in Pdus /\ c \in ChannelIds /\ p.msg \in Nat
  <2>1. p.type # "CAPABILITY_REQUEST" BY <1>4
  <2> QED BY <1>1, <2>1 DEF Arriving, Pdus
<1>7. "drdynvc" \in Threads /\ "drdynvc" # "device" BY DEF Threads
<1>8. ASSUME dvc[c] # NoChannel
      PROVE  /\ dvc[c] \in DvcChannels /\ dvc[c].opened \in BOOLEAN
             /\ g \in Seq(Pdus) /\ Len(g) \in 1..2
             /\ Len(g) < g[1].parts => Len(g) <= 1
  <2>1. dvc[c] \in DvcChannels BY <1>5, <1>6, <1>8
  <2>2. Len(dvc[c].data) <= 1 BY <1>5, <1>6, <1>8, Zenon
  <2>3. first \in BOOLEAN BY <1>2
  <2>4. dvc[c].opened \in BOOLEAN BY <2>1 DEF DvcChannels
  <2> QED BY <1>3, <1>6, <2>1, <2>2, <2>3, <2>4, Collected, Zenon
<1>9. CASE dvc' = dvc /\ job' = [job EXCEPT !["drdynvc"] = Failing("drdynvc")]
  <2>0. Failing("drdynvc") \in Seq(Steps) /\ LeftOver("drdynvc", Failing("drdynvc"))
    BY <1>7, FailingOK, Zenon
  <2>1. /\ Failing("drdynvc") \in Seq(Steps)
        /\ \A i \in DOMAIN Failing("drdynvc") :
              \/ \E k \in DOMAIN job["drdynvc"] : Failing("drdynvc")[i] = job["drdynvc"][k]
              \/ Failing("drdynvc")[i].op \in Harmless
    BY <2>0, Zenon DEF LeftOver
  <2>2. job["drdynvc"] \in Seq(Steps) BY <1>5, <1>7
  <2>3. ProgramOK(Failing("drdynvc"), dvc) BY <1>5, <1>7, <2>1, <2>2, SubProgram, Zenon
  <2> QED BY <1>4, <1>5, <1>9, <2>1, <2>3, HandledAlone, Zenon
<1>10. CASE /\ dvc[c] # NoChannel /\ Len(g) < g[1].parts /\ job' = job
            /\ dvc' = [dvc EXCEPT ![c] = [opened |-> dvc[c].opened, data |-> g]]
  <2>1. PICK r : r = [opened |-> dvc[c].opened, data |-> g] OBVIOUS
  <2>2. r \in DvcChannels /\ Len(r.data) <= 1
    <3>1. dvc[c].opened \in BOOLEAN /\ g \in Seq(Pdus) /\ Len(g) <= 1 BY <1>8, <1>10, Zenon
    <3> QED BY <2>1, <3>1 DEF DvcChannels
  <2>3. /\ dvc' \in [ChannelIds -> DvcChannels \cup {NoChannel}]
        /\ \A d \in ChannelIds : dvc'[d] # NoChannel => Len(dvc'[d].data) <= 1
        /\ \A s \in Threads : ProgramOK(job[s], dvc')
    BY <1>6, <1>10, <2>1, <2>2, SetChannel, Zenon
  <2>4. ChannelOK'
    <3>1. \A s \in Threads : ProgramOK(job'[s], dvc') BY <1>10, <2>3, Zenon
    <3>2. \A s \in Threads : ProgramOK(job[s], dvc)' BY <3>1, Zenon DEF ProgramOK
    <3> QED BY <1>10, <2>3, <3>2, Zenon DEF IInv, ChannelOK
  <2> QED BY <1>4, <1>5, <1>10, <2>3, <2>4, Zenon DEF Handled
<1>11. CASE /\ dvc[c] # NoChannel
            /\ dvc' = [dvc EXCEPT ![c] = [opened |-> dvc[c].opened, data |-> <<>>]]
            /\ job' = [job EXCEPT !["drdynvc"] = dvcman_write_channel(c, p.msg, Len(g))]
  <2>1. PICK r : r = [opened |-> dvc[c].opened, data |-> <<>>] OBVIOUS
  <2>2. r \in DvcChannels /\ Len(r.data) <= 1
    <3>1. dvc[c].opened \in BOOLEAN BY <1>8, <1>11, Zenon
    <3> QED BY <2>1, <3>1 DEF DvcChannels
  <2>3. /\ dvc' \in [ChannelIds -> DvcChannels \cup {NoChannel}]
        /\ dvc'[c] # NoChannel
        /\ \A d \in ChannelIds : dvc'[d] # NoChannel => Len(dvc'[d].data) <= 1
        /\ \A s \in Threads : ProgramOK(job[s], dvc')
    BY <1>6, <1>11, <2>1, <2>2, SetChannel, Zenon
  <2>4. PICK n \in 1..2 : n = Len(g) BY <1>8, <1>11, Zenon
  <2>5. PICK q : q = dvcman_write_channel(c, p.msg, n) OBVIOUS
  <2>6. q \in Seq(Steps) /\ ProgramOK(q, dvc') BY <1>5, <1>6, <2>3, <2>5, WriteOK, Zenon
  <2>7. job' = [job EXCEPT !["drdynvc"] = q] BY <1>11, <2>4, <2>5, Zenon
  <2>8. job' \in [Threads -> Seq(Steps)] /\ ChannelOK' BY <1>7, <2>3, <2>6, <2>7, GoesOn, Zenon
  <2>9. job'["device"] = job["device"] BY <1>5, <2>7 DEF Threads
  <2> QED BY <1>4, <1>5, <2>3, <2>8, <2>9, Zenon DEF Handled
<1> QED BY <1>4, <1>9, <1>10, <1>11, Zenon

\* the thread takes a message: the first of the queue goes behind what has been
\* handled, and the quit message is behind everything that has arrived
LEMMA TakeKeeps ==
    ASSUME IInv, TakeMessage
    PROVE  IInv'
<1>1. /\ thread = "run" /\ job["drdynvc"] = <<>> /\ queue.event /\ queue' = Dequeue(queue)
      /\ UNCHANGED <<main, connected, open, writes, dataIn, lock, error, connection, posted,
                     messages, budget>>
  BY Zenon DEF TakeMessage, MessageQueue_Wait, peer
<1>2. main \in {"idle", "loop", "flush", "join", "free", "closed", "late write"}
  BY Zenon DEF IInv, TypeOK
<1>3. main \in {"loop", "flush", "join"} BY <1>1, <1>2 DEF IInv, ThreadOK
<1>4. /\ WellFormed(queue, Queued) /\ handled \in Seq(Arriving) /\ posted \in Seq(Arriving)
  BY <1>3, Zenon DEF IInv, TypeOK, ThreadOK, Queued
<1>5. queue.size > 0 BY <1>1, <1>4, Zenon DEF WellFormed
<1>6. PICK m : m = Oldest(queue) OBVIOUS
<1>7. PICK v : v = Contents(queue) OBVIOUS
<1>8. /\ WellFormed(Dequeue(queue), Queued)
      /\ Contents(queue) # <<>>
      /\ Oldest(queue) \in Queued
      /\ Oldest(queue) = Head(Contents(queue))
      /\ Contents(Dequeue(queue)) = Tail(Contents(queue))
  BY <1>4, <1>5, DequeueTakesFirst
<1>9. /\ WellFormed(queue', Queued) /\ v # <<>> /\ m \in Queued /\ m = Head(v)
      /\ Contents(queue') = Tail(v)
  BY <1>1, <1>6, <1>7, <1>8, Zenon
<1>10. v \in Seq(Queued) BY <1>4, <1>7, ContentsType
<1>11. handled \in Seq(Queued) /\ posted \in Seq(Queued) BY <1>4 DEF Queued
<1>12. WMQ_QUIT \in Queued /\ WMQ_QUIT \notin Arriving
  BY ChannelsAssumption DEF ChannelsAssumption, Queued, Arriving
<1>13. \A i \in 1..Len(posted) : posted[i] # WMQ_QUIT BY <1>4, <1>12
<1>14. /\ main \in {"loop", "flush"} => handled \o v = posted
       /\ main = "join" => handled \o v \in {posted, Append(posted, WMQ_QUIT)}
  BY <1>7, Zenon DEF IInv, OrderOK
<1>15. queue' # NoQueue BY <1>9, QueueNotFreed
<1>16. PeerOK' BY <1>1, Zenon DEF IInv, PeerOK
<1>17. CASE m = WMQ_QUIT
  <2>1. /\ thread' = "exited" /\ job' = job /\ handled' = handled /\ state' = state /\ dvc' = dvc
    BY <1>6, <1>17, Zenon DEF TakeMessage
  <2>2. handled \o v # posted BY <1>9, <1>10, <1>11, <1>13, <1>17, QuitComesNot
  <2>3. main = "join" /\ handled \o v = Append(posted, WMQ_QUIT) BY <1>3, <1>14, <2>2
  <2>4. handled \o Tail(v) = posted
    BY <1>9, <1>10, <1>11, <1>12, <1>13, <1>17, <2>3, QuitIsLast
  <2>5. TypeOK' BY <1>1, <1>9, <2>1, Zenon DEF IInv, TypeOK, Queued
  <2>6. ThreadOK' BY <1>1, <1>3, <1>15, <2>1 DEF IInv, ThreadOK
  <2>7. OrderOK'
    <3>1. handled' \o Contents(queue') = posted' BY <1>1, <1>9, <2>1, <2>4, Zenon
    <3> QED BY <1>1, <2>3, <3>1 DEF OrderOK
  <2>8. ChannelOK' BY <2>1, ChannelsKept, Zenon DEF IInv
  <2> QED BY <1>16, <2>5, <2>6, <2>7, <2>8, Zenon DEF IInv
<1>18. CASE m # WMQ_QUIT
  <2>1. drdynvc_order_recv(m) /\ handled' = Append(handled, m) /\ thread' = thread
    BY <1>6, <1>18, Zenon DEF TakeMessage
  <2>2. m \in Arriving BY <1>9, <1>18 DEF Queued
  <2>3. Handled
    BY <2>1, <2>2, CapabilityKeeps, CreateRequestKeeps, DataKeeps, CloseRequestKeeps, Zenon
    DEF drdynvc_order_recv
  <2>4. handled' \o Contents(queue') = handled \o v
    <3>1. Append(handled, m) \o Tail(v) = handled \o v BY <1>9, <1>10, <1>11, MoveHead
    <3> QED BY <1>9, <2>1, <3>1, Zenon
  <2>5. handled' \in Seq(Arriving) BY <1>4, <2>1, <2>2
  <2>6. TypeOK' BY <1>1, <1>9, <2>1, <2>3, <2>5, Zenon DEF IInv, TypeOK, Queued, Handled
  <2>7. ThreadOK'
    <3>1. job'["device"] = job["device"] BY <2>3, Zenon DEF Handled
    <3> QED BY <1>1, <1>3, <1>15, <2>1, <3>1 DEF ThreadOK
  <2>8. OrderOK' BY <1>1, <1>14, <2>4, Zenon DEF OrderOK
  <2> QED BY <1>16, <2>3, <2>6, <2>7, <2>8, Zenon DEF IInv, Handled
<1> QED BY <1>17, <1>18

-----------------------------------------------------------------------------
(* The theorems.                                                             *)

\* the initial states
LEMMA InitOK == Init => IInv
<1> SUFFICES ASSUME Init PROVE IInv OBVIOUS
<1> USE DEF Init
<1>1. WellFormed(MessageQueue_New(QueueCapacity), Pdus \cup {WMQ_QUIT})
  BY NewQueue, ChannelsAssumption DEF ChannelsAssumption
<1>2. WellFormed(writes, Pdus \cup {WMQ_QUIT}) BY <1>1, Zenon
<1>3. /\ job \in [Threads -> Seq(Steps)] /\ dvc \in [ChannelIds -> DvcChannels \cup {NoChannel}]
      /\ lock \in [ChannelIds -> Threads \cup {"none"}]
      /\ posted \in Seq(Arriving) /\ handled \in Seq(Arriving) /\ connection \in Nat
  OBVIOUS
<1>4. main \in {"idle", "loop", "flush", "join", "free", "closed", "late write"} OBVIOUS
<1>5. TypeOK BY <1>2, <1>3, <1>4, Zenon DEF TypeOK
<1>6. PeerOK
  <2>1. messages \in [ChannelIds -> Seq(1..2)] OBVIOUS
  <2>2. budget \in [pdus : Nat, device : Nat] BY ChannelsAssumption DEF ChannelsAssumption
  <2> QED BY <2>1, <2>2 DEF PeerOK
<1>7. ThreadOK BY DEF ThreadOK, Threads
<1>8. OrderOK BY DEF OrderOK
<1>9. ChannelOK BY DEF ChannelOK, ProgramOK, Threads
<1> QED BY <1>5, <1>6, <1>7, <1>8, <1>9, Zenon DEF IInv

\* every step keeps IInv
LEMMA NextOK == IInv /\ [Next]_vars => IInv'
<1> SUFFICES ASSUME IInv, [Next]_vars PROVE IInv' OBVIOUS
<1>1. CASE SessionThread
  BY <1>1, ConnectKeeps, FirstKeeps, RestKeeps, SyncKeeps, DisconnectKeeps, PostQuitKeeps,
     DisconnectedKeeps, FreeKeeps, CloseKeeps, Zenon DEF SessionThread
<1>2. CASE TakeMessage BY <1>2, TakeKeeps
<1>3. CASE \E c \in ChannelIds, n \in 1..2 : DeviceWrite(c, n) BY <1>3, DeviceKeeps, Zenon
<1>4. ASSUME NEW t \in Threads, Step(t) PROVE IInv'
  <2>1. Aside BY <1>4, Zenon DEF Step, Aside, peer
  <2> QED BY <1>4, <2>1, CheckWriteKeeps, PostWriteKeeps, LockKeeps, CreateKeeps, OpenKeeps,
             CloseChannelKeeps, ExitKeeps, Zenon DEF Step
<1>5. CASE vars' = vars
  <2>1. TypeOK' BY <1>5, Zenon DEF vars, IInv, TypeOK
  <2>2. PeerOK' BY <1>5, Zenon DEF vars, IInv, PeerOK
  <2>3. ThreadOK'
    <3>1. main' = main /\ thread' = thread /\ queue' = queue /\ open' = open /\ job' = job
      BY <1>5, Zenon DEF vars
    <3> QED BY <3>1 DEF IInv, ThreadOK
  <2>4. OrderOK' BY <1>5, Zenon DEF vars, IInv, OrderOK
  <2>5. ChannelOK'
    <3>1. job' = job /\ dvc' = dvc BY <1>5, Zenon DEF vars
    <3> QED BY <3>1, ChannelsKept, Zenon DEF IInv
  <2> QED BY <2>1, <2>2, <2>3, <2>4, <2>5, Zenon DEF IInv
<1> QED BY <1>1, <1>2, <1>3, <1>4, <1>5, Zenon DEF Next

\* drdynvc's thread handles the PDUs in the order in which the server sent them,
\* and no PDU is lost or handled twice, whatever the capacity of the queue and
\* however often it grows and wraps.
THEOREM PdusInOrder == Spec => []HandledInOrder
<1>1. IInv => HandledInOrder
  <2> SUFFICES ASSUME IInv, queue # NoQueue
               PROVE  handled \o Contents(queue) \in {posted, Append(posted, WMQ_QUIT)}
    BY DEF HandledInOrder
  <2>1. main \in {"idle", "loop", "flush", "join", "free", "closed", "late write"}
    BY Zenon DEF IInv, TypeOK
  <2>2. main \in {"loop", "flush", "join"} BY <2>1 DEF IInv, ThreadOK
  <2>3. CASE main \in {"loop", "flush"} BY <2>3, Zenon DEF IInv, OrderOK
  <2>4. CASE main = "join" BY <2>4, Zenon DEF IInv, OrderOK
  <2> QED BY <2>2, <2>3, <2>4
<1> QED BY <1>1, InitOK, NextOK, PTL DEF Spec

\* A disconnection frees drdynvc's queue and the channels only when no thread
\* uses them any more, whatever the threads are doing when it begins.
THEOREM NoUseAfterFree == Spec => []NothingFreedInUse
<1>1. IInv => NothingFreedInUse
  <2> SUFFICES ASSUME IInv PROVE NothingFreedInUse OBVIOUS
  <2>1. main \in {"idle", "loop", "flush", "join", "free", "closed", "late write"}
    BY Zenon DEF IInv, TypeOK
  <2>2. thread = "run" => queue # NoQueue BY <2>1 DEF IInv, ThreadOK
  <2>3. \A t \in Threads : \A i \in DOMAIN job[t] :
           job[t][i].op \in InChannel => dvc[job[t][i].pdu.ch] # NoChannel
    BY Zenon DEF IInv, ChannelOK, ProgramOK
  <2> QED BY <2>2, <2>3, Zenon DEF NothingFreedInUse, InChannel
<1> QED BY <1>1, InitOK, NextOK, PTL DEF Spec

\* Both message queues stay well formed and every variable keeps its type.
THEOREM ChannelTypes == Spec => []TypeOK
<1>1. IInv => TypeOK BY Zenon DEF IInv
<1> QED BY <1>1, InitOK, NextOK, PTL DEF Spec

-----------------------------------------------------------------------------
(* Who writes what, and when.                                                *)

Written == Pdus \cup {WMQ_QUIT}
Writing == {"write", "post"}

\* a step of t's program: it writes for this connection, and the messages of
\* the two threads have different numbers
OwnStep(t, s) ==
    /\ t = "drdynvc" => s.pdu.msg <= MaxPdus
    /\ s.op \in Writing => s.pdu.on = connection /\ (t = "device" => s.pdu.msg > MaxPdus)

NoPost(j) == \A i \in DOMAIN j : j[i].op # "post"

\* a program posts only what it has just tested
StepsOK(t, j) == \A i \in DOMAIN j : OwnStep(t, j[i]) /\ (i > 1 => j[i].op # "post")

\* the server's messages are numbered up to MaxPdus
NumbersOK ==
    /\ \A c \in ChannelIds : Len(messages[c]) + budget.pdus <= MaxPdus
    /\ dataIn # NoStream => dataIn.pdu.msg <= MaxPdus
    /\ \A i \in DOMAIN posted : posted[i].msg <= MaxPdus

JobsOK == \A t \in Threads : StepsOK(t, job[t])

\* the i-th message in channels->queue is one of the device thread
ByDevice(i) == Contents(writes)[i].msg > MaxPdus
Writer(i) == IF ByDevice(i) THEN "device" ELSE "drdynvc"

\* from the last drain on channels->connected is 0: what each thread may still
\* post is what it had tested before, and that is one message
LateOK ==
    /\ main \in {"flush", "join", "free", "idle", "late write"} => ~connected
    /\ main \in {"join", "free", "idle", "late write"} =>
         /\ \A i, j \in 1..writes.size : Writer(i) = Writer(j) => i = j
         /\ \A i \in 1..writes.size : ~Runs(Writer(i), "post")

\* the capabilities have been told, on this connection
Told == \E j \in 1..Len(Stream) : Own(Stream[j]) /\ Stream[j].type = "CAPABILITIES"

\* the program drdynvc's thread may be at as long as they have not
TellsFirst(j) ==
    /\ \A i \in DOMAIN j : j[i].op \in {"write", "post", "create", "exit"}
    /\ j # <<>> => \/ j[1].op = "exit"
                   \/ j[1].op \in Writing /\ j[1].pdu.type = "CAPABILITIES"

\* as long as they have not, there is no channel, nobody to write on one, and
\* nothing to close
Silent ==
    /\ job["device"] = <<>>
    /\ \A c \in ChannelIds : dvc[c] = NoChannel
    /\ \A c \in ChannelIds : server[c] \in {"none", "asked"}
    /\ \A i \in DOMAIN posted : posted[i].type # "CLOSE_REQUEST"
    /\ thread = "run" /\ job["drdynvc"] = <<>> => state = "CAPABILITIES"
    /\ TellsFirst(job["drdynvc"])

\* what is written belongs to this connection or an earlier one, and only
\* freerdp_channels_close quits channels->queue
StreamOK ==
    /\ sent \in Seq(Written)
    /\ \A i \in 1..Len(Stream) : Stream[i] # WMQ_QUIT => Stream[i].on <= connection
    /\ main # "closed" => \A i \in 1..Len(Stream) : Stream[i] # WMQ_QUIT

ToldOK ==
    /\ dataIn # NoStream => dataIn.pdu.type # "CLOSE_REQUEST"
    /\ CapabilitiesFirst
    /\ Told \/ Silent

WritesInv == StreamOK /\ NumbersOK /\ JobsOK /\ LateOK /\ ToldOK

-----------------------------------------------------------------------------
(* The steps of the programs.                                                *)

\* what a PDU without data says
LEMMA SimpleFields ==
    ASSUME NEW ty, NEW c
    PROVE  /\ Simple(ty, c).type = ty /\ Simple(ty, c).ch = c
           /\ Simple(ty, c).msg = 0 /\ Simple(ty, c).on = connection
BY DEF Simple, Pdu

\* what a piece of a message says
LEMMA PieceFields ==
    ASSUME NEW c, NEW m, NEW i, NEW n
    PROVE  /\ Piece(c, m, i, n).type \in {"DATA_FIRST", "DATA"}
           /\ Piece(c, m, i, n).ch = c /\ Piece(c, m, i, n).msg = m
           /\ Piece(c, m, i, n).part = i /\ Piece(c, m, i, n).parts = n
           /\ Piece(c, m, i, n).on = connection
BY DEF Piece, Pdu

\* the fields of a step
LEMMA OpFields ==
    ASSUME NEW o, NEW p
    PROVE  Op(o, p).op = o /\ Op(o, p).pdu = p /\ Write(p).op = "write" /\ Write(p).pdu = p
BY DEF Op, Write

\* the program that writes a message: the channel is entered, every piece is
\* written, the channel is left
LEMMA WriteSteps ==
    ASSUME connection \in Nat, NEW c \in ChannelIds, NEW m \in Nat, NEW n \in 1..2,
           NEW p, p = dvcman_write_channel(c, m, n)
    PROVE  /\ p \in Seq(Steps) /\ Len(p) = n + 2 /\ DOMAIN p = 1..(n + 2)
           /\ p[1] = Op("enter", Simple("DATA", c))
           /\ \A i \in 1..n : p[i + 1] = Write(Piece(c, m, i, n))
           /\ p[n + 2] = Op("leave", Simple("DATA", c))
<1>1. PICK e : e = Op("enter", Simple("DATA", c)) OBVIOUS
<1>2. PICK l : l = Op("leave", Simple("DATA", c)) OBVIOUS
<1>3. PICK w : w = [i \in 1..n |-> Write(Piece(c, m, i, n))] OBVIOUS
<1>4. p = <<e>> \o w \o <<l>> BY <1>1, <1>2, <1>3, Zenon DEF dvcman_write_channel
<1>5. Simple("DATA", c) \in Pdus BY SimpleType DEF ServerTypes
<1>6. e \in Steps /\ l \in Steps BY <1>1, <1>2, <1>5, OpType DEF Ops
<1>7. \A i \in 1..n : Write(Piece(c, m, i, n)) \in Steps
  <2> TAKE i \in 1..n
  <2>1. i \in 1..2 OBVIOUS
  <2>2. Piece(c, m, i, n) \in Pdus BY <2>1, PieceType
  <2> QED BY <2>2, OpType DEF Write, Ops
<1>8. w \in Seq(Steps) /\ Len(w) = n BY <1>3, <1>7
<1>9. p \in Seq(Steps) /\ Len(p) = n + 2 BY <1>4, <1>6, <1>8
<1>10. \A i \in 1..(n + 2) : p[i] = IF i = 1 THEN e ELSE IF i = n + 2 THEN l ELSE w[i - 1]
  BY <1>4, <1>6, <1>8
<1>11. \A i \in 1..n : p[i + 1] = w[i]
  <2> TAKE i \in 1..n
  <2>1. i + 1 \in 1..(n + 2) /\ i + 1 # 1 /\ i + 1 # n + 2 /\ (i + 1) - 1 = i OBVIOUS
  <2> QED BY <1>10, <2>1
<1>12. \A i \in 1..n : w[i] = Write(Piece(c, m, i, n)) BY <1>3
<1>13. p[1] = e /\ p[n + 2] = l BY <1>10
<1>14. DOMAIN p = 1..(n + 2) BY <1>9
<1> QED BY <1>1, <1>2, <1>9, <1>11, <1>12, <1>13, <1>14, Zenon

\* a program of one step or of two
LEMMA OneOf ==
    ASSUME NEW a, NEW p, p = <<a>>
    PROVE  DOMAIN p = 1..1 /\ p[1] = a /\ p # <<>> /\ \A i \in DOMAIN p : p[i] = a
<1>1. DOMAIN p = 1..1 /\ p[1] = a /\ Len(p) = 1 OBVIOUS
<1>2. \A i \in 1..1 : i = 1 OBVIOUS
<1> QED BY <1>1, <1>2

\* a step that fails leaves the channel it is in, and drdynvc's thread exits
LEMMA FailingSteps ==
    ASSUME IInv, NEW t \in Threads, NEW p, p = Failing(t)
    PROVE  /\ p \in Seq(Steps)
           /\ \A i \in DOMAIN p :
                \/ \E k \in DOMAIN job[t] : k = Len(job[t]) /\ p[i] = job[t][k] /\ p[i].op = "leave"
                \/ t = "drdynvc" /\ p[i] = Op("exit", Simple("CLOSED", "none"))
<1>1. p \in Seq(Steps) BY FailingOK, Zenon
<1>2. PICK j : j = job[t] OBVIOUS
<1>3. j \in Seq(Steps) BY <1>2 DEF IInv, TypeOK
<1>4. PICK e : e = Op("exit", Simple("CLOSED", "none")) OBVIOUS
<1>5. PICK l : l = j[Len(j)] OBVIOUS
<1>6. PICK a : a = IF j # <<>> /\ l.op = "leave" THEN <<l>> ELSE <<>> OBVIOUS
<1>7. PICK b : b = IF t = "drdynvc" THEN <<e>> ELSE <<>> OBVIOUS
<1>8. p = a \o b BY <1>2, <1>4, <1>5, <1>6, <1>7, Zenon DEF Failing
<1>9. a = <<>> \/ (a = <<l>> /\ j # <<>> /\ l.op = "leave") BY <1>6, Zenon
<1>10. b = <<>> \/ (b = <<e>> /\ t = "drdynvc") BY <1>7, Zenon
<1>11. \A i \in DOMAIN p : (p[i] = l /\ j # <<>> /\ l.op = "leave") \/ (p[i] = e /\ t = "drdynvc")
  <2>1. CASE a = <<>> /\ b = <<>> BY <1>8, <2>1
  <2>2. CASE a = <<>> /\ b = <<e>> /\ t = "drdynvc" BY <1>8, <2>2
  <2>3. CASE (a = <<l>> /\ j # <<>> /\ l.op = "leave") /\ b = <<>> BY <1>8, <2>3
  <2>4. CASE (a = <<l>> /\ j # <<>> /\ l.op = "leave") /\ b = <<e>> /\ t = "drdynvc" BY <1>8, <2>4
  <2> QED BY <1>9, <1>10, <2>1, <2>2, <2>3, <2>4, Zenon
<1>12. j # <<>> => Len(j) \in DOMAIN j BY <1>3, EmptySeq
<1> QED BY <1>1, <1>2, <1>4, <1>5, <1>11, <1>12, Zenon

\* a program that has steps of its own thread only, and tests before it posts
LEMMA FreshSteps ==
    ASSUME NEW t, NEW p, \A i \in DOMAIN p : OwnStep(t, p[i]) /\ p[i].op # "post"
    PROVE  StepsOK(t, p) /\ NoPost(p)
BY Zenon DEF StepsOK, NoPost

\* what follows the first step of a program
LEMMA TailSteps ==
    ASSUME NEW t, NEW j \in Seq(Steps), j # <<>>, StepsOK(t, j), NEW u, u = Tail(j)
    PROVE  /\ u \in Seq(Steps) /\ Len(j) \in Nat \ {0} /\ Len(u) = Len(j) - 1
           /\ \A i \in 1..Len(u) : i + 1 \in DOMAIN j /\ u[i] = j[i + 1]
           /\ StepsOK(t, u) /\ NoPost(u)
<1>1. /\ u \in Seq(Steps) /\ Len(u) = Len(j) - 1 /\ \A i \in 1..Len(u) : u[i] = j[i + 1]
  BY HeadTailProperties
<1>2. Len(j) \in Nat \ {0} BY EmptySeq
<1>3. \A i \in 1..Len(u) : i + 1 \in DOMAIN j /\ i + 1 > 1 BY <1>1, <1>2
<1>4. DOMAIN u = 1..Len(u) BY <1>1
<1>5. \A i \in DOMAIN u : OwnStep(t, u[i]) /\ u[i].op # "post"
  BY <1>1, <1>3, <1>4, Zenon DEF StepsOK
<1> QED BY <1>1, <1>2, <1>3, <1>5, FreshSteps, Zenon

\* the program of a failing step
LEMMA FailingOwn ==
    ASSUME IInv, NEW t \in Threads, StepsOK(t, job[t]), NEW p, p = Failing(t)
    PROVE  p \in Seq(Steps) /\ StepsOK(t, p) /\ NoPost(p)
<1>1. PICK e : e = Op("exit", Simple("CLOSED", "none")) OBVIOUS
<1>2. /\ p \in Seq(Steps)
      /\ \A i \in DOMAIN p : (\E k \in DOMAIN job[t] : p[i] = job[t][k] /\ p[i].op = "leave") \/ p[i] = e
  BY <1>1, FailingSteps
<1>3. e.op = "exit" /\ e.pdu.msg = 0 BY <1>1, OpFields, SimpleFields
<1>4. 0 <= MaxPdus BY ChannelsAssumption DEF ChannelsAssumption
<1>5. OwnStep(t, e) /\ e.op # "post" BY <1>3, <1>4 DEF OwnStep, Writing
<1>6. \A i \in DOMAIN p : OwnStep(t, p[i]) /\ p[i].op # "post"
  <2> TAKE i \in DOMAIN p
  <2>1. CASE p[i] = e BY <1>5, <2>1
  <2>2. CASE \E k \in DOMAIN job[t] : p[i] = job[t][k] /\ p[i].op = "leave"
    <3>1. PICK k \in DOMAIN job[t] : p[i] = job[t][k] /\ p[i].op = "leave" BY <2>2
    <3>2. OwnStep(t, job[t][k]) BY Zenon DEF StepsOK
    <3> QED BY <3>1, <3>2
  <2> QED BY <1>2, <2>1, <2>2, Zenon
<1> QED BY <1>2, <1>6, FreshSteps, Zenon

\* the program that writes a message
LEMMA WriteOwn ==
    ASSUME connection \in Nat, NEW c \in ChannelIds, NEW m \in Nat, NEW n \in 1..2, NEW t \in Threads,
           t = "drdynvc" => m <= MaxPdus, t = "device" => m > MaxPdus,
           NEW p, p = dvcman_write_channel(c, m, n)
    PROVE  p \in Seq(Steps) /\ StepsOK(t, p) /\ NoPost(p)
<1>1. PICK s : s = Simple("DATA", c) OBVIOUS
<1>2. /\ p \in Seq(Steps) /\ DOMAIN p = 1..(n + 2)
      /\ p[1] = Op("enter", s) /\ p[n + 2] = Op("leave", s)
      /\ \A i \in 1..n : p[i + 1] = Write(Piece(c, m, i, n))
  BY <1>1, WriteSteps, Zenon
<1>3. s.msg = 0 BY <1>1, SimpleFields
<1>4. 0 <= MaxPdus BY ChannelsAssumption DEF ChannelsAssumption
<1>5. OwnStep(t, p[1]) /\ p[1].op # "post" /\ OwnStep(t, p[n + 2]) /\ p[n + 2].op # "post"
  BY <1>2, <1>3, <1>4, OpFields DEF OwnStep, Writing
<1>6. \A i \in 1..n : OwnStep(t, p[i + 1]) /\ p[i + 1].op # "post"
  <2> TAKE i \in 1..n
  <2>1. PICK q : q = Piece(c, m, i, n) OBVIOUS
  <2>2. p[i + 1].op = "write" /\ p[i + 1].pdu = q BY <1>2, <2>1, OpFields
  <2>3. q.msg = m /\ q.on = connection BY <2>1, PieceFields
  <2> QED BY <2>2, <2>3 DEF OwnStep, Writing
<1>7. \A i \in 1..(n + 2) : i = 1 \/ i = n + 2 \/ \E k \in 1..n : i = k + 1
  <2> TAKE i \in 1..(n + 2)
  <2>1. i # 1 /\ i # n + 2 => i - 1 \in 1..n /\ i = (i - 1) + 1 OBVIOUS
  <2> QED BY <2>1
<1>8. \A i \in DOMAIN p : OwnStep(t, p[i]) /\ p[i].op # "post" BY <1>2, <1>5, <1>6, <1>7, Zenon
<1> QED BY <1>2, <1>8, FreshSteps, Zenon

\* a step of a program: the thread goes on with the rest of it, or with a
\* program that tests before it posts
LEMMA StepPrograms ==
    ASSUME IInv, NEW t \in Threads, StepsOK(t, job[t]), Step(t)
    PROVE  \E p \in Seq(Steps) : /\ job' = [job EXCEPT ![t] = p] /\ StepsOK(t, p)
                                 /\ NoPost(p) \/ connected
<1>1. job[t] \in Seq(Steps) /\ connection \in Nat
  <2>1. job \in [Threads -> Seq(Steps)] /\ connection \in Nat BY Zenon DEF IInv, TypeOK
  <2> QED BY <2>1
<1>2. PICK u : u = Tail(job[t]) OBVIOUS
<1>3. ASSUME NEW o, Runs(t, o)
      PROVE  /\ u \in Seq(Steps) /\ StepsOK(t, u) /\ NoPost(u)
             /\ 1 \in DOMAIN job[t] /\ Head(job[t]) = job[t][1] /\ job[t][1].op = o
             /\ job[t][1].pdu \in Pdus /\ OwnStep(t, job[t][1])
  <2>1. job[t] # <<>> /\ 1 \in DOMAIN job[t] /\ Head(job[t]) = job[t][1] /\ job[t][1].op = o
    BY <1>3, HeadStep, Zenon
  <2>2. job[t][1].pdu \in Pdus BY <1>3, HeadStep, Zenon
  <2>3. u \in Seq(Steps) /\ StepsOK(t, u) /\ NoPost(u) BY <1>1, <1>2, <2>1, TailSteps, Zenon
  <2> QED BY <2>1, <2>2, <2>3, Zenon DEF StepsOK
<1>4. CASE \E o : Runs(t, o) /\ job' = [job EXCEPT ![t] = u]
  BY <1>3, <1>4, Zenon
<1>5. CASE Runs(t, "write") /\ job' = [job EXCEPT ![t] = Failing(t)]
  BY <1>5, FailingOwn, Zenon
<1>6. CASE /\ Runs(t, "write") /\ connected
           /\ job' = [job EXCEPT ![t] = <<Op("post", Head(job[t]).pdu)>> \o u]
  <2>1. PICK h : h = job[t][1] OBVIOUS
  <2>2. /\ u \in Seq(Steps) /\ NoPost(u) /\ StepsOK(t, u) /\ Head(job[t]) = h /\ h.op = "write"
        /\ h.pdu \in Pdus /\ OwnStep(t, h)
    BY <1>3, <1>6, <2>1, Zenon
  <2>3. PICK o : o = Op("post", h.pdu) OBVIOUS
  <2>4. o \in Steps /\ o.op = "post" /\ o.pdu = h.pdu BY <2>2, <2>3, OpType DEF Ops
  <2>5. OwnStep(t, o) BY <2>2, <2>4 DEF OwnStep, Writing
  <2>6. PICK p : p = <<o>> \o u OBVIOUS
  <2>7. p \in Seq(Steps) /\ Len(p) = Len(u) + 1 BY <2>2, <2>4, <2>6
  <2>8. \A i \in 1..Len(p) : p[i] = IF i = 1 THEN o ELSE u[i - 1] BY <2>2, <2>4, <2>6
  <2>9. DOMAIN p = 1..Len(p) /\ DOMAIN u = 1..Len(u) BY <2>2, <2>7
  <2>10. \A i \in DOMAIN p : p[i] = o \/ (\E k \in DOMAIN u : p[i] = u[k])
    BY <2>2, <2>4, <2>6, Prefixed
  <2>11. \A i \in DOMAIN p : OwnStep(t, p[i]) BY <2>2, <2>5, <2>10, Zenon DEF StepsOK
  <2>12. \A i \in DOMAIN p : i > 1 => i - 1 \in DOMAIN u /\ p[i] = u[i - 1]
    BY <2>2, <2>7, <2>8, <2>9
  <2>13. \A i \in DOMAIN p : i > 1 => p[i].op # "post" BY <2>2, <2>12, Zenon DEF NoPost
  <2>14. StepsOK(t, p) BY <2>11, <2>13, Zenon DEF StepsOK
  <2>15. job' = [job EXCEPT ![t] = p] BY <1>6, <2>2, <2>3, <2>6, Zenon
  <2> QED BY <1>6, <2>7, <2>14, <2>15, Zenon
<1>7. CASE CreateChannel(t)
  <2>1. PICK q : q = Head(job[t]).pdu OBVIOUS
  <2>2. Runs(t, "create") BY <1>7, Zenon DEF CreateChannel
  <2>3. "create" \in InChannel \cup {"create"} OBVIOUS
  <2>4. /\ q \in Pdus /\ q.ch \in ChannelIds /\ (t = "device" => "create" \in DeviceOps)
        /\ q = job[t][1].pdu
    BY <2>1, <2>2, <2>3, HeadStep, Zenon
  <2>5. t # "device" /\ t = "drdynvc" BY <2>4 DEF DeviceOps, Threads
  <2>6. OwnStep(t, job[t][1]) BY <1>3, <2>2, Zenon
  <2>7. q.msg <= MaxPdus BY <2>4, <2>5, <2>6, Zenon DEF OwnStep
  <2>8. PICK ty \in ClientTypes, o \in {"open", "close"} :
            job' = [job EXCEPT ![t] = <<Write(Simple(ty, q.ch)), Op(o, q)>>]
    <3>1. "CREATED" \in ClientTypes /\ "NOT_CREATED" \in ClientTypes BY DEF ClientTypes
    <3> QED BY <1>7, <2>1, <3>1, Zenon DEF CreateChannel, Goes
  <2>9. PICK s : s = Simple(ty, q.ch) OBVIOUS
  <2>10. s \in Pdus BY <1>1, <2>4, <2>9, SimpleType
  <2>11. s.msg = 0 /\ s.on = connection BY <2>9, SimpleFields
  <2>12. PICK a : a = Write(s) OBVIOUS
  <2>13. PICK b : b = Op(o, q) OBVIOUS
  <2>14. PICK p : p = <<a, b>> OBVIOUS
  <2>15. a \in Steps /\ a.op = "write" /\ a.pdu = s BY <2>10, <2>12, OpType DEF Write, Ops
  <2>16. b \in Steps /\ b.op = o /\ b.pdu = q BY <2>4, <2>13, OpType DEF Ops
  <2>17. p \in Seq(Steps) /\ \A i \in DOMAIN p : p[i] = a \/ p[i] = b BY <2>14, <2>15, <2>16, TwoSteps
  <2>18. 0 <= MaxPdus BY ChannelsAssumption DEF ChannelsAssumption
  <2>19. OwnStep(t, a) /\ a.op # "post" BY <2>5, <2>11, <2>15, <2>18 DEF OwnStep
  <2>20. OwnStep(t, b) /\ b.op # "post" BY <2>7, <2>16 DEF OwnStep, Writing
  <2>21. StepsOK(t, p) /\ NoPost(p)
    <3>1. \A i \in DOMAIN p : OwnStep(t, p[i]) /\ p[i].op # "post" BY <2>17, <2>19, <2>20, Zenon
    <3> QED BY <3>1, FreshSteps, Zenon
  <2>22. job' = [job EXCEPT ![t] = p] BY <2>8, <2>9, <2>12, <2>13, <2>14, Zenon
  <2> QED BY <2>17, <2>21, <2>22, Zenon
<1>8. CASE job' = [job EXCEPT ![t] = <<>>]
  <2>1. <<>> \in Seq(Steps) /\ DOMAIN <<>> = {} OBVIOUS
  <2>2. StepsOK(t, <<>>) /\ NoPost(<<>>) BY <2>1, FreshSteps, Zenon
  <2> QED BY <1>8, <2>1, <2>2, Zenon
<1> QED BY <1>2, <1>4, <1>5, <1>6, <1>7, <1>8, Zenon
        DEF Step, CheckWrite, PostWrite, EnterChannel, LeaveChannel, OpenChannel, CloseChannel,
            ExitThread, Goes

\* the message taken from the queue is one the server has sent
LEMMA TakenWasPosted ==
    ASSUME IInv, TakeMessage, Oldest(queue) # WMQ_QUIT
    PROVE  /\ Oldest(queue) \in Arriving
           /\ \E i \in DOMAIN posted : posted[i] = Oldest(queue)
           /\ Len(handled) + 1 \in 1..Len(posted) /\ posted[Len(handled) + 1] = Oldest(queue)
<1>1. /\ thread = "run" /\ queue.event
  BY Zenon DEF TakeMessage, MessageQueue_Wait
<1>2. main \in {"idle", "loop", "flush", "join", "free", "closed", "late write"}
  BY Zenon DEF IInv, TypeOK
<1>3. main \in {"loop", "flush", "join"} BY <1>1, <1>2 DEF IInv, ThreadOK
<1>4. /\ WellFormed(queue, Queued) /\ handled \in Seq(Arriving) /\ posted \in Seq(Arriving)
  BY <1>3, Zenon DEF IInv, TypeOK, ThreadOK, Queued
<1>5. queue.size > 0 BY <1>1, <1>4, Zenon DEF WellFormed
<1>6. PICK m : m = Oldest(queue) OBVIOUS
<1>7. PICK v : v = Contents(queue) OBVIOUS
<1>8. v \in Seq(Queued) /\ v # <<>> /\ m \in Queued /\ m = Head(v)
  <2>1. Contents(queue) # <<>> /\ Oldest(queue) \in Queued /\ Oldest(queue) = Head(Contents(queue))
    BY <1>4, <1>5, DequeueTakesFirst
  <2>2. Contents(queue) \in Seq(Queued) BY <1>4, ContentsType
  <2> QED BY <1>6, <1>7, <2>1, <2>2, Zenon
<1>9. handled \in Seq(Queued) /\ posted \in Seq(Queued) BY <1>4 DEF Queued
<1>10. handled \o v = posted \/ handled \o v = Append(posted, WMQ_QUIT)
  <2>1. CASE main \in {"loop", "flush"} BY <1>7, <2>1, Zenon DEF IInv, OrderOK
  <2>2. CASE main = "join" BY <1>7, <2>2, Zenon DEF IInv, OrderOK
  <2> QED BY <1>3, <2>1, <2>2
<1>11. PICK n \in Nat : n = Len(handled) BY <1>9
<1>12. /\ Len(v) \in Nat \ {0} /\ v[1] = m BY <1>8, EmptySeq
<1>13. (handled \o v)[n + 1] = m /\ Len(handled \o v) = n + Len(v) BY <1>8, <1>9, <1>11, <1>12
<1>14. n + 1 \in 1..(n + Len(v)) BY <1>12
<1>15. m # WMQ_QUIT BY <1>6
<1>16. n + 1 \in 1..Len(posted) /\ posted[n + 1] = m
  <2>1. CASE handled \o v = posted BY <1>13, <1>14, <2>1
  <2>2. CASE handled \o v = Append(posted, WMQ_QUIT)
    <3>1. /\ Len(Append(posted, WMQ_QUIT)) = Len(posted) + 1
          /\ \A i \in 1..(Len(posted) + 1) :
                Append(posted, WMQ_QUIT)[i] = IF i = Len(posted) + 1 THEN WMQ_QUIT ELSE posted[i]
      BY <1>4
    <3>2. PICK l \in Nat : l = Len(posted) BY <1>4
    <3>3. n + 1 \in 1..(l + 1) BY <1>13, <1>14, <2>2, <3>1, <3>2
    <3>4. n + 1 # l + 1 BY <1>13, <1>15, <2>2, <3>1, <3>2, <3>3
    <3>5. n + 1 \in 1..l BY <3>3, <3>4
    <3> QED BY <1>13, <2>2, <3>1, <3>2, <3>3, <3>4, <3>5
  <2> QED BY <1>10, <2>1, <2>2
<1>17. m \in Arriving BY <1>8, <1>15 DEF Queued
<1>18. DOMAIN posted = 1..Len(posted) BY <1>4
<1> QED BY <1>6, <1>11, <1>16, <1>17, <1>18, Zenon

\* drdynvc's thread is about to handle a message, and the server does not know
\* the capabilities yet
Untold == state = "CAPABILITIES" /\ job["drdynvc"] = <<>> /\ \A c \in ChannelIds : dvc[c] = NoChannel

\* the program a handler gives to drdynvc's thread
Gives(m, p) ==
    /\ p \in Seq(Steps) /\ job' = [job EXCEPT !["drdynvc"] = p]
    /\ StepsOK("drdynvc", p) /\ NoPost(p)
    /\ Untold /\ m.type # "CLOSE_REQUEST" => p # <<>> /\ TellsFirst(p)

\* drdynvc's answer to a message the server numbers
LEMMA OwnAnswer ==
    ASSUME connection \in Nat, NEW ty \in ClientTypes, NEW c \in ChannelIds \cup {"none"},
           NEW a, a = Write(Simple(ty, c))
    PROVE  /\ a \in Steps /\ a.op = "write" /\ a.pdu.type = ty /\ a.op # "post"
           /\ OwnStep("drdynvc", a)
<1>1. PICK s : s = Simple(ty, c) OBVIOUS
<1>2. s \in Pdus BY <1>1, SimpleType
<1>3. s.msg = 0 /\ s.on = connection /\ s.type = ty BY <1>1, SimpleFields
<1>4. a \in Steps /\ a.op = "write" /\ a.pdu = s BY <1>1, <1>2, OpType DEF Write, Ops
<1>5. 0 <= MaxPdus BY ChannelsAssumption DEF ChannelsAssumption
<1> QED BY <1>3, <1>4, <1>5 DEF OwnStep

\* a step of a handler that does not write
LEMMA OwnOp ==
    ASSUME NEW p \in Pdus, p.msg <= MaxPdus, NEW o \in {"create", "close", "open"}, NEW a, a = Op(o, p)
    PROVE  a \in Steps /\ a.op = o /\ a.pdu = p /\ a.op # "post" /\ OwnStep("drdynvc", a)
<1>1. a \in Steps /\ a.op = o /\ a.pdu = p BY OpType DEF Ops
<1> QED BY <1>1 DEF OwnStep, Writing

\* a program of one such step or of two
LEMMA ShortProgram ==
    ASSUME NEW a \in Steps, NEW b \in Steps,
           OwnStep("drdynvc", a), a.op # "post", OwnStep("drdynvc", b), b.op # "post",
           NEW p, p = <<a>> \/ p = <<a, b>>
    PROVE  /\ p \in Seq(Steps) /\ p # <<>> /\ p[1] = a /\ StepsOK("drdynvc", p) /\ NoPost(p)
           /\ \A i \in DOMAIN p : p[i] = a \/ p[i] = b
<1>1. p \in Seq(Steps) /\ p # <<>> /\ p[1] = a /\ \A i \in DOMAIN p : p[i] = a \/ p[i] = b
  <2>1. CASE p = <<a>>
    <3>1. p \in Seq(Steps) BY <2>1
    <3> QED BY <2>1, <3>1, OneOf
  <2>2. CASE p = <<a, b>>
    <3>1. p[1] = a BY <2>2
    <3> QED BY <2>2, <3>1, TwoSteps
  <2> QED BY <2>1, <2>2
<1>2. \A i \in DOMAIN p : OwnStep("drdynvc", p[i]) /\ p[i].op # "post" BY <1>1, Zenon
<1> QED BY <1>1, <1>2, FreshSteps, Zenon

\* drdynvc_process_capability_request
LEMMA CapabilityGives ==
    ASSUME IInv, NEW m \in Arriving, process_capability_request(m)
    PROVE  \E p : Gives(m, p)
<1>1. PICK a : a = Write(Simple("CAPABILITIES", "none")) OBVIOUS
<1>2. PICK p : p = <<a>> OBVIOUS
<1>3. job' = [job EXCEPT !["drdynvc"] = p]
  BY <1>1, <1>2, Zenon DEF process_capability_request, Goes
<1>4. connection \in Nat BY Zenon DEF IInv, TypeOK
<1>5. "CAPABILITIES" \in ClientTypes /\ "none" \in ChannelIds \cup {"none"} BY DEF ClientTypes
<1>6. /\ a \in Steps /\ a.op = "write" /\ a.pdu.type = "CAPABILITIES" /\ a.op # "post"
      /\ OwnStep("drdynvc", a)
  BY <1>1, <1>4, <1>5, OwnAnswer
<1>7. /\ p \in Seq(Steps) /\ p # <<>> /\ p[1] = a /\ StepsOK("drdynvc", p) /\ NoPost(p)
      /\ \A i \in DOMAIN p : p[i] = a \/ p[i] = a
  BY <1>2, <1>6, ShortProgram
<1>8. TellsFirst(p) BY <1>6, <1>7 DEF TellsFirst, Writing
<1> QED BY <1>3, <1>7, <1>8, Zenon DEF Gives

\* drdynvc_process_create_request
LEMMA CreateGives ==
    ASSUME IInv, NEW m \in Arriving, m.msg <= MaxPdus, process_create_request(m)
    PROVE  \E p : Gives(m, p)
<1>1. PICK a : a = Write(Simple("CAPABILITIES", "none")) OBVIOUS
<1>2. PICK b : b = Op("create", m) OBVIOUS
<1>3. PICK p : p = (IF state = "CAPABILITIES" THEN <<a>> ELSE <<>>) \o <<b>> OBVIOUS
<1>4. job' = [job EXCEPT !["drdynvc"] = p]
  BY <1>1, <1>2, <1>3, Zenon DEF process_create_request, Goes
<1>5. connection \in Nat BY Zenon DEF IInv, TypeOK
<1>6. m \in Pdus BY DEF Arriving
<1>7. "CAPABILITIES" \in ClientTypes /\ "none" \in ChannelIds \cup {"none"} BY DEF ClientTypes
<1>8. /\ a \in Steps /\ a.op = "write" /\ a.pdu.type = "CAPABILITIES" /\ a.op # "post"
      /\ OwnStep("drdynvc", a)
  BY <1>1, <1>5, <1>7, OwnAnswer
<1>9. b \in Steps /\ b.op = "create" /\ b.op # "post" /\ OwnStep("drdynvc", b)
  <2>1. "create" \in {"create", "close", "open"} OBVIOUS
  <2> QED BY <1>2, <1>6, <2>1, OwnOp, Zenon
<1>10. CASE state = "CAPABILITIES"
  <2>1. p = <<a>> \o <<b>> BY <1>3, <1>10, Zenon
  <2>2. p = <<a, b>> BY <1>8, <1>9, <2>1, Pair, Zenon
  <2>3. /\ p \in Seq(Steps) /\ p # <<>> /\ p[1] = a /\ StepsOK("drdynvc", p) /\ NoPost(p)
        /\ \A i \in DOMAIN p : p[i] = a \/ p[i] = b
    BY <1>8, <1>9, <2>2, ShortProgram
  <2>4. TellsFirst(p) BY <1>8, <1>9, <2>3 DEF TellsFirst, Writing
  <2> QED BY <1>4, <2>3, <2>4, Zenon DEF Gives
<1>11. CASE state # "CAPABILITIES"
  <2>1. p = <<b>> BY <1>3, <1>9, <1>11
  <2>2. p \in Seq(Steps) /\ StepsOK("drdynvc", p) /\ NoPost(p) BY <1>9, <2>1, ShortProgram, Zenon
  <2> QED BY <1>4, <1>11, <2>2, Zenon DEF Gives, Untold
<1> QED BY <1>10, <1>11

\* drdynvc_process_close_request
LEMMA CloseGives ==
    ASSUME IInv, NEW m \in Arriving, m.msg <= MaxPdus, process_close_request(m)
    PROVE  \E p : Gives(m, p)
<1>1. PICK a : a = Op("close", m) OBVIOUS
<1>2. PICK b : b = Write(Simple("CLOSED", m.ch)) OBVIOUS
<1>3. PICK p : p = <<a, b>> OBVIOUS
<1>4. m.type = "CLOSE_REQUEST" /\ job' = [job EXCEPT !["drdynvc"] = p]
  BY <1>1, <1>2, <1>3, Zenon DEF process_close_request, Goes
<1>5. connection \in Nat BY Zenon DEF IInv, TypeOK
<1>6. m \in Pdus /\ m.ch \in ChannelIds \cup {"none"} /\ "CLOSED" \in ClientTypes
  BY <1>4 DEF Arriving, Pdus, ClientTypes
<1>7. b \in Steps /\ b.op # "post" /\ OwnStep("drdynvc", b) BY <1>2, <1>5, <1>6, OwnAnswer, Zenon
<1>8. a \in Steps /\ a.op # "post" /\ OwnStep("drdynvc", a)
  <2>1. "close" \in {"create", "close", "open"} OBVIOUS
  <2> QED BY <1>1, <1>6, <2>1, OwnOp, Zenon
<1>9. p \in Seq(Steps) /\ StepsOK("drdynvc", p) /\ NoPost(p) BY <1>3, <1>7, <1>8, ShortProgram, Zenon
<1> QED BY <1>4, <1>9, Zenon DEF Gives

\* the programs data starts: the thread fails, goes on collecting, or echoes a
\* message of n pieces
LEMMA DataEchoes ==
    ASSUME IInv, NEW m \in Arriving, process_data(m)
    PROVE  /\ m.ch \in ChannelIds /\ m.msg \in Nat /\ connection \in Nat
           /\ \/ job' = [job EXCEPT !["drdynvc"] = Failing("drdynvc")]
              \/ dvc[m.ch] # NoChannel /\ job' = job
              \/ /\ dvc[m.ch] # NoChannel
                 /\ \E n \in 1..2 :
                       job' = [job EXCEPT !["drdynvc"] = dvcman_write_channel(m.ch, m.msg, n)]
<1>1. PICK c : c = m.ch OBVIOUS
<1>2. PICK first : first = (m.type = "DATA_FIRST") OBVIOUS
<1>3. PICK g : g = IF first THEN <<m>> ELSE Append(dvc[c].data, m) OBVIOUS
<1>4. /\ m.type \in {"DATA_FIRST", "DATA"}
      /\ \/ job' = [job EXCEPT !["drdynvc"] = Failing("drdynvc")]
         \/ dvc[c] # NoChannel /\ job' = job
         \/ /\ dvc[c] # NoChannel
            /\ job' = [job EXCEPT !["drdynvc"] = dvcman_write_channel(c, m.msg, Len(g))]
  BY <1>1, <1>2, <1>3, Zenon DEF process_data, Goes
<1>5. /\ connection \in Nat
      /\ dvc \in [ChannelIds -> DvcChannels \cup {NoChannel}]
      /\ \A d \in ChannelIds : dvc[d] # NoChannel => Len(dvc[d].data) <= 1
  BY Zenon DEF IInv, TypeOK, ChannelOK
<1>6. m \in Pdus /\ c \in ChannelIds /\ m.msg \in Nat
  <2>1. m.type # "CAPABILITY_REQUEST" BY <1>4
  <2> QED BY <1>1, <2>1 DEF Arriving, Pdus
<1>7. ASSUME dvc[c] # NoChannel PROVE Len(g) \in 1..2
  <2>1. dvc[c] \in DvcChannels BY <1>5, <1>6, <1>7
  <2>2. Len(dvc[c].data) <= 1 BY <1>5, <1>6, <1>7, Zenon
  <2>3. first \in BOOLEAN BY <1>2
  <2> QED BY <1>3, <1>6, <2>1, <2>2, <2>3, Collected, Zenon
<1> QED BY <1>1, <1>4, <1>5, <1>6, <1>7, Zenon

\* dvcman_receive_channel_data and the echo
LEMMA DataGives ==
    ASSUME IInv, NEW m \in Arriving, m.msg <= MaxPdus, StepsOK("drdynvc", job["drdynvc"]),
           process_data(m)
    PROVE  (job' = job /\ ~Untold) \/ \E p : Gives(m, p)
<1>1. PICK c : c = m.ch OBVIOUS
<1>2. /\ c \in ChannelIds /\ m.msg \in Nat /\ connection \in Nat
      /\ \/ job' = [job EXCEPT !["drdynvc"] = Failing("drdynvc")]
         \/ dvc[c] # NoChannel /\ job' = job
         \/ /\ dvc[c] # NoChannel
            /\ \E n \in 1..2 : job' = [job EXCEPT !["drdynvc"] = dvcman_write_channel(c, m.msg, n)]
  BY <1>1, DataEchoes, Zenon
<1>3. "drdynvc" \in Threads BY DEF Threads
<1>4. CASE job' = [job EXCEPT !["drdynvc"] = Failing("drdynvc")]
  <2>1. PICK p : p = Failing("drdynvc") OBVIOUS
  <2>2. p \in Seq(Steps) /\ StepsOK("drdynvc", p) /\ NoPost(p) BY <1>3, <2>1, FailingOwn, Zenon
  <2>3. ASSUME job["drdynvc"] = <<>> PROVE p # <<>> /\ TellsFirst(p)
    <3>1. PICK e : e = Op("exit", Simple("CLOSED", "none")) OBVIOUS
    <3>2. Failing("drdynvc") = <<>> \o <<e>> BY <2>3, <3>1, Zenon DEF Failing
    <3>3. e.op = "exit" /\ e.pdu = Simple("CLOSED", "none") BY <3>1, OpFields
    <3>4. Simple("CLOSED", "none") \in Pdus BY <1>2, SimpleType DEF ClientTypes
    <3>5. e \in Steps BY <3>1, <3>4, OpType DEF Ops
    <3>6. p = <<e>> BY <2>1, <3>2, <3>5
    <3>7. p # <<>> /\ p[1] = e /\ \A i \in DOMAIN p : p[i] = e BY <3>6, OneOf, Zenon
    <3> QED BY <3>3, <3>7 DEF TellsFirst
  <2> QED BY <1>4, <2>1, <2>2, <2>3, Zenon DEF Gives, Untold
<1>5. CASE dvc[c] # NoChannel /\ job' = job BY <1>2, <1>5, Zenon DEF Untold
<1>6. CASE /\ dvc[c] # NoChannel
            /\ \E n \in 1..2 : job' = [job EXCEPT !["drdynvc"] = dvcman_write_channel(c, m.msg, n)]
  <2>1. PICK n \in 1..2 : job' = [job EXCEPT !["drdynvc"] = dvcman_write_channel(c, m.msg, n)]
    BY <1>6
  <2>2. PICK p : p = dvcman_write_channel(c, m.msg, n) OBVIOUS
  <2>3. "drdynvc" # "device" OBVIOUS
  <2>4. p \in Seq(Steps) /\ StepsOK("drdynvc", p) /\ NoPost(p)
    BY <1>2, <1>3, <2>2, <2>3, WriteOwn, Zenon
  <2>5. job' = [job EXCEPT !["drdynvc"] = p] BY <2>1, <2>2, Zenon
  <2> QED BY <1>2, <1>6, <2>4, <2>5, Zenon DEF Gives, Untold
<1> QED BY <1>2, <1>4, <1>5, <1>6, Zenon

\* drdynvc's thread takes a message
LEMMA TakeGives ==
    ASSUME IInv, NumbersOK, JobsOK, TakeMessage
    PROVE  \/ job' = job /\ thread' = "exited" /\ dvc' = dvc
           \/ /\ Oldest(queue) # WMQ_QUIT /\ Oldest(queue) \in Arriving
              /\ (job' = job /\ ~Untold) \/ \E p : Gives(Oldest(queue), p)
<1>1. CASE Oldest(queue) = WMQ_QUIT BY <1>1, Zenon DEF TakeMessage
<1>2. CASE Oldest(queue) # WMQ_QUIT
  <2>1. PICK m : m = Oldest(queue) OBVIOUS
  <2>2. m \in Arriving /\ \E i \in DOMAIN posted : posted[i] = m BY <1>2, <2>1, TakenWasPosted, Zenon
  <2>3. m.msg <= MaxPdus BY <2>2, Zenon DEF NumbersOK
  <2>4. drdynvc_order_recv(m) BY <1>2, <2>1, Zenon DEF TakeMessage
  <2>5. StepsOK("drdynvc", job["drdynvc"]) BY DEF JobsOK, Threads
  <2>6. (job' = job /\ ~Untold) \/ \E p : Gives(m, p)
    BY <2>2, <2>3, <2>4, <2>5, CapabilityGives, CreateGives, DataGives, CloseGives, Zenon
    DEF drdynvc_order_recv
  <2> QED BY <1>2, <2>1, <2>2, <2>6, Zenon
<1> QED BY <1>1, <1>2

-----------------------------------------------------------------------------
(* What a step changes in the programs, the numbers and the stream.          *)

\* nobody begins to post what was not tested while connected
PostsTested == \A t \in Threads : job'[t] = job[t] \/ NoPost(job'[t]) \/ connected

\* one thread goes on
LEMMA JobsMove ==
    ASSUME IInv, JobsOK, connection' = connection, NEW t \in Threads, NEW p,
           job' = [job EXCEPT ![t] = p], StepsOK(t, p), NoPost(p) \/ connected
    PROVE  JobsOK' /\ PostsTested
<1>1. job \in [Threads -> Seq(Steps)] BY Zenon DEF IInv, TypeOK
<1>2. job'[t] = p /\ \A s \in Threads \ {t} : job'[s] = job[s] BY <1>1
<1>3. \A s \in Threads : StepsOK(s, job'[s])
  <2> TAKE s \in Threads
  <2>1. CASE s = t BY <1>2, <2>1, Zenon
  <2>2. CASE s # t BY <1>2, <2>2, Zenon DEF JobsOK
  <2> QED BY <2>1, <2>2
<1>4. JobsOK'
  <2>1. \A s \in Threads : StepsOK(s, job[s])' BY <1>3, Zenon DEF StepsOK, OwnStep
  <2> QED BY <2>1, Zenon DEF JobsOK
<1>5. PostsTested
  <2> SUFFICES ASSUME NEW s \in Threads PROVE job'[s] = job[s] \/ NoPost(job'[s]) \/ connected
    BY Zenon DEF PostsTested
  <2>1. CASE s = t BY <1>2, <2>1, Zenon
  <2>2. CASE s # t BY <1>2, <2>2, Zenon
  <2> QED BY <2>1, <2>2
<1> QED BY <1>4, <1>5

\* no thread goes on
LEMMA JobsStay ==
    ASSUME JobsOK, connection' = connection, job' = job
    PROVE  JobsOK' /\ PostsTested
BY Zenon DEF JobsOK, PostsTested, StepsOK, OwnStep

\* what the session thread does leaves the programs alone, except for a
\* connection, which begins when they have ended
LEMMA SessionJobs ==
    ASSUME IInv, JobsOK, SessionThread
    PROVE  JobsOK' /\ PostsTested
<1>1. CASE freerdp_channels_post_connect
  <2>1. main = "idle" /\ (job' = [job EXCEPT !["drdynvc"] = <<>>] \/ job' = job)
    BY <1>1, Zenon DEF freerdp_channels_post_connect
  <2>2. job["device"] = <<>> /\ thread = "none" BY <2>1 DEF IInv, ThreadOK
  <2>3. job["drdynvc"] = <<>> BY <2>2 DEF IInv, ThreadOK
  <2>4. job \in [Threads -> Seq(Steps)] BY Zenon DEF IInv, TypeOK
  <2>5. \A t \in Threads : job[t] = <<>> BY <2>2, <2>3 DEF Threads
  <2>6. \A t \in Threads : job'[t] = <<>> BY <2>1, <2>4, <2>5
  <2>7. DOMAIN <<>> = {} OBVIOUS
  <2>8. JobsOK'
    <3>1. \A t \in Threads : StepsOK(t, job[t])' BY <2>6, <2>7, Zenon DEF StepsOK
    <3> QED BY <3>1, Zenon DEF JobsOK
  <2>9. PostsTested BY <2>5, <2>6, Zenon DEF PostsTested
  <2> QED BY <2>8, <2>9
<1>2. CASE ~freerdp_channels_post_connect
  <2>1. connection' = connection /\ job' = job
    BY <1>2, Zenon DEF SessionThread, ReceiveFirst, ReceiveRest, freerdp_channels_process_sync,
       freerdp_channels_disconnect, PostQuit, event_disconnected, dvcman_free, freerdp_channels_close
  <2> QED BY <2>1, JobsStay, Zenon
<1> QED BY <1>1, <1>2

\* every step keeps JobsOK
LEMMA JobsStep ==
    ASSUME IInv, NumbersOK, JobsOK, [Next]_vars
    PROVE  JobsOK' /\ PostsTested
<1>1. CASE SessionThread BY <1>1, SessionJobs
<1>2. CASE TakeMessage
  <2>1. connection' = connection BY <1>2, Zenon DEF TakeMessage
  <2>2. job' = job \/ \E p : Gives(Oldest(queue), p) BY <1>2, TakeGives, Zenon
  <2>3. CASE job' = job BY <2>1, <2>3, JobsStay, Zenon
  <2>4. CASE \E p : Gives(Oldest(queue), p)
    <3>1. PICK p : Gives(Oldest(queue), p) BY <2>4
    <3>2. job' = [job EXCEPT !["drdynvc"] = p] /\ StepsOK("drdynvc", p) /\ NoPost(p)
      BY <3>1, Zenon DEF Gives
    <3>3. "drdynvc" \in Threads BY DEF Threads
    <3> QED BY <2>1, <3>2, <3>3, JobsMove, Zenon
  <2> QED BY <2>2, <2>3, <2>4
<1>3. ASSUME NEW c \in ChannelIds, NEW n \in 1..2, DeviceWrite(c, n)
      PROVE  JobsOK' /\ PostsTested
  <2>1. PICK m : m = MaxPdus + budget.device OBVIOUS
  <2>2. PICK p : p = dvcman_write_channel(c, m, n) OBVIOUS
  <2>3. /\ budget.device > 0 /\ connection' = connection /\ job' = [job EXCEPT !["device"] = p]
    BY <1>3, <2>1, <2>2, Zenon DEF DeviceWrite, Goes
  <2>4. connection \in Nat /\ budget \in [pdus : Nat, device : Nat]
    BY Zenon DEF IInv, TypeOK, PeerOK
  <2>5. m \in Nat /\ m > MaxPdus BY <2>1, <2>3, <2>4, ChannelsAssumption DEF ChannelsAssumption
  <2>6. "device" \in Threads /\ "device" # "drdynvc" BY DEF Threads
  <2>7. StepsOK("device", p) /\ NoPost(p) BY <2>2, <2>4, <2>5, <2>6, WriteOwn, Zenon
  <2> QED BY <2>3, <2>6, <2>7, JobsMove, Zenon
<1>4. ASSUME NEW t \in Threads, Step(t)
      PROVE  JobsOK' /\ PostsTested
  <2>1. connection' = connection BY <1>4, Zenon DEF Step
  <2>2. StepsOK(t, job[t]) BY Zenon DEF JobsOK
  <2>3. PICK p \in Seq(Steps) : /\ job' = [job EXCEPT ![t] = p] /\ StepsOK(t, p)
                                /\ NoPost(p) \/ connected
    BY <1>4, <2>2, StepPrograms, Zenon
  <2> QED BY <2>1, <2>3, JobsMove, Zenon
<1>5. CASE vars' = vars
  <2>1. connection' = connection /\ job' = job BY <1>5, Zenon DEF vars
  <2> QED BY <2>1, JobsStay, Zenon
<1> QED BY <1>1, <1>2, <1>3, <1>4, <1>5, Zenon DEF Next

\* what the server sends is numbered up to MaxPdus, and is a close request only
\* for a channel it knows
LEMMA ServerNumbers ==
    ASSUME IInv, NumbersOK, budget.pdus > 0, NEW p, ServerSends(p)
    PROVE  /\ p.msg <= MaxPdus
           /\ \A c \in ChannelIds : Len(messages'[c]) <= Len(messages[c]) + 1
<1>1. /\ messages \in [ChannelIds -> Seq(1..2)] /\ budget \in [pdus : Nat, device : Nat]
  BY Zenon DEF IInv, PeerOK
<1>2. \A c \in ChannelIds : Len(messages[c]) \in Nat BY <1>1
<1>3. \A c \in ChannelIds : Len(messages[c]) + 1 <= MaxPdus
  <2> TAKE c \in ChannelIds
  <2>1. PICK l \in Nat : l = Len(messages[c]) BY <1>2
  <2>2. PICK b \in Nat : b = budget.pdus BY <1>1
  <2>3. l + b <= MaxPdus /\ b > 0 BY <2>1, <2>2, Zenon DEF NumbersOK
  <2>4. MaxPdus \in Nat BY ChannelsAssumption DEF ChannelsAssumption
  <2>5. l + 1 <= MaxPdus BY <2>3, <2>4
  <2> QED BY <2>1, <2>5
<1>4. 0 <= MaxPdus /\ MaxPdus \in Nat BY ChannelsAssumption DEF ChannelsAssumption
<1>5. p.msg <= MaxPdus
  <2>1. \/ \E ty, c : p = Simple(ty, c)
        \/ \E c \in ChannelIds : \E n \in 1..2 : p = Piece(c, Len(messages[c]) + 1, 1, n)
        \/ \E c \in ChannelIds : p = Piece(c, Len(messages[c]), 2, 2)
    BY Zenon DEF ServerSends
  <2>2. CASE \E ty, c : p = Simple(ty, c) BY <1>4, <2>2, SimpleFields
  <2>3. CASE \E c \in ChannelIds : \E n \in 1..2 : p = Piece(c, Len(messages[c]) + 1, 1, n)
    BY <1>3, <2>3, PieceFields
  <2>4. CASE \E c \in ChannelIds : p = Piece(c, Len(messages[c]), 2, 2)
    <3>1. PICK c \in ChannelIds : p = Piece(c, Len(messages[c]), 2, 2) BY <2>4
    <3>2. p.msg = Len(messages[c]) BY <3>1, PieceFields
    <3>3. PICK l \in Nat : l = Len(messages[c]) BY <1>2
    <3>4. l + 1 <= MaxPdus BY <1>3, <3>3
    <3>5. l <= MaxPdus BY <1>4, <3>4
    <3> QED BY <3>2, <3>3, <3>5
  <2> QED BY <2>1, <2>2, <2>3, <2>4
<1>6. \A d \in ChannelIds : Len(messages'[d]) <= Len(messages[d]) + 1
  <2>1. \/ messages' = messages
        \/ \E c \in ChannelIds : \E n \in 1..2 : messages' = [messages EXCEPT ![c] = Append(messages[c], n)]
    BY <1>1 DEF ServerSends
  <2>2. CASE messages' = messages BY <1>2, <2>2
  <2>3. CASE \E c \in ChannelIds : \E n \in 1..2 : messages' = [messages EXCEPT ![c] = Append(messages[c], n)]
    <3>1. PICK c \in ChannelIds, n \in 1..2 : messages' = [messages EXCEPT ![c] = Append(messages[c], n)]
      BY <2>3
    <3> TAKE d \in ChannelIds
    <3>2. CASE d = c
      <4>1. messages'[d] = Append(messages[d], n) BY <1>1, <3>1, <3>2
      <4>2. Len(Append(messages[d], n)) = Len(messages[d]) + 1 BY <1>1
      <4> QED BY <1>2, <4>1, <4>2
    <3>3. CASE d # c
      <4>1. messages'[d] = messages[d] BY <1>1, <3>1, <3>3
      <4> QED BY <1>2, <4>1
    <3> QED BY <3>2, <3>3
  <2> QED BY <2>1, <2>2, <2>3
<1> QED BY <1>5, <1>6

\* what the reception of a chunk does to the stream and the PDUs sent
LEMMA ReceivedOf ==
    ASSUME IInv, NEW p, NEW first \in BOOLEAN, NEW last \in BOOLEAN, DataReceived(p, first, last)
    PROVE  \/ posted' = posted /\ (dataIn' = dataIn \/ (~last /\ dataIn'.pdu = p))
           \/ posted' = Append(posted, p) /\ dataIn' = NoStream
<1> DEFINE got == (IF first THEN 0 ELSE dataIn.got) + 1
           total == IF first THEN (IF last THEN 1 ELSE 2) ELSE dataIn.total
<1>1. CASE ~last
  <2>1. /\ dataIn' = [pdu |-> p, got |-> got, total |-> total] /\ posted' = posted
    BY <1>1, Zenon DEF DataReceived
  <2>2. dataIn'.pdu = p BY <2>1
  <2> QED BY <1>1, <2>1, <2>2, Zenon
<1>2. CASE last /\ got # total BY <1>2, Zenon DEF DataReceived
<1>3. CASE last /\ got = total BY <1>3, Zenon DEF DataReceived
<1> QED BY <1>1, <1>2, <1>3

\* a sequence that grows at its end
LEMMA AppendAll ==
    ASSUME NEW S, NEW s \in Seq(S), NEW x \in S, NEW r, r = Append(s, x)
    PROVE  /\ r \in Seq(S) /\ Len(s) \in Nat /\ Len(r) = Len(s) + 1 /\ r[Len(s) + 1] = x
           /\ DOMAIN r = 1..(Len(s) + 1) /\ DOMAIN s = 1..Len(s)
           /\ \A i \in 1..Len(s) : r[i] = s[i]
           /\ \A i \in DOMAIN r : r[i] = x \/ \E k \in DOMAIN s : k = i /\ r[i] = s[k]
<1>1. /\ r \in Seq(S) /\ Len(s) \in Nat /\ Len(r) = Len(s) + 1 /\ r[Len(s) + 1] = x
      /\ \A i \in 1..Len(s) : r[i] = s[i]
  OBVIOUS
<1>2. DOMAIN r = 1..(Len(s) + 1) /\ DOMAIN s = 1..Len(s) BY <1>1
<1>3. \A i \in 1..(Len(s) + 1) : i = Len(s) + 1 \/ i \in 1..Len(s) BY <1>1
<1> QED BY <1>1, <1>2, <1>3

\* every step keeps NumbersOK
LEMMA NumbersStep ==
    ASSUME IInv, NumbersOK, [Next]_vars
    PROVE  NumbersOK'
<1>0. /\ \A c \in ChannelIds : Len(messages[c]) + budget.pdus <= MaxPdus
      /\ dataIn # NoStream => dataIn.pdu.msg <= MaxPdus
      /\ \A i \in DOMAIN posted : posted[i].msg <= MaxPdus
  BY Zenon DEF NumbersOK
<1>1. /\ messages \in [ChannelIds -> Seq(1..2)] /\ budget \in [pdus : Nat, device : Nat]
      /\ posted \in Seq(Arriving) /\ (dataIn = NoStream \/ dataIn.pdu \in Arriving)
  BY Zenon DEF IInv, PeerOK, TypeOK
<1>2. MaxPdus \in Nat BY ChannelsAssumption DEF ChannelsAssumption
<1>3. ASSUME NEW p \in Arriving, p.msg <= MaxPdus,
             \/ posted' = posted /\ (dataIn' = dataIn \/ dataIn'.pdu = p)
             \/ posted' = Append(posted, p) /\ dataIn' = NoStream
      PROVE  /\ dataIn' # NoStream => dataIn'.pdu.msg <= MaxPdus
             /\ \A i \in DOMAIN posted' : posted'[i].msg <= MaxPdus
  <2>1. CASE posted' = posted /\ (dataIn' = dataIn \/ dataIn'.pdu = p) BY <1>0, <1>3, <2>1, Zenon
  <2>2. CASE posted' = Append(posted, p) /\ dataIn' = NoStream
    <3>1. \A i \in DOMAIN posted' : posted'[i] = p \/ \E k \in DOMAIN posted : posted'[i] = posted[k]
      BY <1>1, <2>2, AppendAll
    <3> QED BY <1>0, <1>3, <2>2, <3>1, Zenon
  <2> QED BY <1>3, <2>1, <2>2
<1>4. ASSUME NEW last \in BOOLEAN, ReceiveFirst(last) PROVE NumbersOK'
  <2>1. PICK p : ServerSends(p) /\ DataReceived(p, TRUE, last) BY <1>4, Zenon DEF ReceiveFirst
  <2>2. budget.pdus > 0 /\ budget' = [budget EXCEPT !.pdus = @ - 1] BY <1>4, Zenon DEF ReceiveFirst
  <2>3. p \in Arriving BY <2>1, ServerStep, Zenon
  <2>4. /\ p.msg <= MaxPdus /\ \A c \in ChannelIds : Len(messages'[c]) <= Len(messages[c]) + 1
    BY <2>1, <2>2, ServerNumbers, Zenon
  <2>5. messages' \in [ChannelIds -> Seq(1..2)] BY <2>1, ServerStep, Zenon
  <2>6. \A c \in ChannelIds : Len(messages'[c]) + budget'.pdus <= MaxPdus
    <3> TAKE c \in ChannelIds
    <3>1. PICK l \in Nat : l = Len(messages[c]) BY <1>1
    <3>2. PICK k \in Nat : k = Len(messages'[c]) BY <2>5
    <3>3. PICK b \in Nat : b = budget.pdus BY <1>1
    <3>4. budget'.pdus = b - 1 BY <1>1, <2>2, <3>3
    <3>5. k <= l + 1 /\ l + b <= MaxPdus /\ b > 0 BY <1>0, <2>2, <2>4, <3>1, <3>2, <3>3, Zenon
    <3>6. k + (b - 1) <= MaxPdus BY <1>2, <3>5
    <3> QED BY <3>2, <3>4, <3>6
  <2>7. TRUE \in BOOLEAN OBVIOUS
  <2>8. \/ posted' = posted /\ (dataIn' = dataIn \/ dataIn'.pdu = p)
        \/ posted' = Append(posted, p) /\ dataIn' = NoStream
    BY <2>1, <2>7, ReceivedOf, Zenon
  <2> QED BY <1>3, <2>3, <2>4, <2>6, <2>8, Zenon DEF NumbersOK
<1>5. CASE ReceiveRest
  <2>1. /\ dataIn # NoStream /\ DataReceived(dataIn.pdu, FALSE, TRUE)
        /\ messages' = messages /\ budget' = budget
    BY <1>5, Zenon DEF ReceiveRest, peer
  <2>2. dataIn.pdu \in Arriving /\ dataIn.pdu.msg <= MaxPdus BY <1>0, <1>1, <2>1, Zenon
  <2>3. FALSE \in BOOLEAN /\ TRUE \in BOOLEAN OBVIOUS
  <2>4. \/ posted' = posted /\ (dataIn' = dataIn \/ dataIn'.pdu = dataIn.pdu)
        \/ posted' = Append(posted, dataIn.pdu) /\ dataIn' = NoStream
    BY <2>1, <2>3, ReceivedOf, Zenon
  <2> QED BY <1>0, <1>3, <2>1, <2>2, <2>4, Zenon DEF NumbersOK
<1>6. CASE freerdp_channels_post_connect
  <2>1. /\ messages' = [c \in ChannelIds |-> <<>>] /\ posted' = <<>> /\ dataIn' = dataIn /\ budget' = budget
    BY <1>6, Zenon DEF freerdp_channels_post_connect
  <2>2. \A c \in ChannelIds : Len(messages'[c]) + budget'.pdus <= MaxPdus
    <3> TAKE c \in ChannelIds
    <3>1. PICK l \in Nat : l = Len(messages[c]) BY <1>1
    <3>2. PICK b \in Nat : b = budget.pdus BY <1>1
    <3>3. Len(messages'[c]) = 0 BY <2>1
    <3>4. l + b <= MaxPdus BY <1>0, <3>1, <3>2, Zenon
    <3>5. 0 + b <= MaxPdus BY <1>2, <3>4
    <3> QED BY <2>1, <3>2, <3>3, <3>5
  <2>3. DOMAIN posted' = {} BY <2>1
  <2> QED BY <1>0, <2>1, <2>2, <2>3, Zenon DEF NumbersOK
<1>7. ASSUME NEW c \in ChannelIds, NEW n \in 1..2, DeviceWrite(c, n) PROVE NumbersOK'
  <2>1. /\ messages' = messages /\ posted' = posted /\ dataIn' = dataIn
        /\ budget' = [budget EXCEPT !.device = @ - 1]
    BY <1>7, Zenon DEF DeviceWrite, peer
  <2>2. budget'.pdus = budget.pdus BY <1>1, <2>1
  <2> QED BY <1>0, <2>1, <2>2, Zenon DEF NumbersOK
<1>8. CASE /\ messages' = messages /\ posted' = posted /\ budget' = budget
           /\ dataIn' = dataIn \/ dataIn' = NoStream
  BY <1>0, <1>8, Zenon DEF NumbersOK
<1>9. ASSUME freerdp_channels_process_sync \/ freerdp_channels_disconnect \/ PostQuit \/ event_disconnected
             \/ dvcman_free \/ freerdp_channels_close \/ TakeMessage \/ (\E t \in Threads : Step(t))
             \/ vars' = vars
      PROVE  /\ messages' = messages /\ posted' = posted /\ budget' = budget
             /\ dataIn' = dataIn \/ dataIn' = NoStream
  BY <1>9, Zenon DEF freerdp_channels_process_sync, freerdp_channels_disconnect, PostQuit,
     event_disconnected, dvcman_free, freerdp_channels_close, TakeMessage, Step, peer, vars
<1> QED BY <1>4, <1>5, <1>6, <1>7, <1>8, <1>9, Zenon DEF Next, SessionThread

\* what has been written is a sequence of PDUs, maybe with a quit message
LEMMA StreamType ==
    ASSUME IInv, StreamOK
    PROVE  /\ sent \in Seq(Written) /\ Contents(writes) \in Seq(Written) /\ Stream \in Seq(Written)
           /\ Len(Contents(writes)) = writes.size
<1>1. WellFormed(writes, Written) BY Zenon DEF IInv, TypeOK, Written
<1>2. Contents(writes) \in Seq(Written) /\ Len(Contents(writes)) = writes.size BY <1>1, ContentsType
<1>3. sent \in Seq(Written) BY Zenon DEF StreamOK
<1>4. sent \o Contents(writes) \in Seq(Written) BY <1>2, <1>3
<1> QED BY <1>2, <1>3, <1>4, Zenon DEF Stream

\* the t-th thread posts w
Posts(t, w) ==
    /\ t \in Threads /\ Step(t) /\ Runs(t, "post") /\ 1 \in DOMAIN job[t] /\ w = job[t][1].pdu
    /\ w \in Pdus
    /\ Contents(writes') = Append(Contents(writes), w) /\ job' = [job EXCEPT ![t] = Tail(job[t])]

\* a thread that posts
LEMMA PostPosts ==
    ASSUME IInv, NEW t \in Threads, Step(t), PostWrite(t)
    PROVE  \E w : Posts(t, w)
<1>1. PICK w : w = Head(job[t]).pdu OBVIOUS
<1>2. /\ Runs(t, "post") /\ writes' = MessageQueue_Dispatch(writes, w)
      /\ job' = [job EXCEPT ![t] = Tail(job[t])]
  BY <1>1, Zenon DEF PostWrite, Goes
<1>3. 1 \in DOMAIN job[t] /\ w = job[t][1].pdu /\ w \in Pdus BY <1>1, <1>2, HeadStep, Zenon
<1>4. WellFormed(writes, Written) BY Zenon DEF IInv, TypeOK, Written
<1>5. w \in Written BY <1>3 DEF Written
<1>6. Contents(MessageQueue_Dispatch(writes, w)) = Append(Contents(writes), w)
  BY <1>4, <1>5, DispatchAppends
<1> QED BY <1>2, <1>3, <1>6, Zenon DEF Posts

\* who changes what is in channels->queue
LEMMA WritesStep ==
    ASSUME [Next]_vars, ~freerdp_channels_post_connect
    PROVE  \/ sent' = sent /\ writes' = writes
           \/ freerdp_channels_process_sync
           \/ freerdp_channels_close /\ writes' # writes
           \/ \E t \in Threads : Step(t) /\ PostWrite(t)
<1>1. CASE SessionThread
  BY <1>1, Zenon DEF SessionThread, ReceiveFirst, ReceiveRest, freerdp_channels_disconnect,
     PostQuit, event_disconnected, dvcman_free, freerdp_channels_close
<1>2. CASE TakeMessage BY <1>2, Zenon DEF TakeMessage
<1>3. CASE \E c \in ChannelIds, n \in 1..2 : DeviceWrite(c, n) BY <1>3, Zenon DEF DeviceWrite
<1>4. CASE \E t \in Threads : Step(t)
  BY <1>4, Zenon DEF Step, CheckWrite, EnterChannel, LeaveChannel, CreateChannel, OpenChannel,
     CloseChannel, ExitThread
<1>5. CASE vars' = vars BY <1>5, Zenon DEF vars
<1> QED BY <1>1, <1>2, <1>3, <1>4, <1>5, Zenon DEF Next

\* a step leaves the stream as it is, or something is posted at its end
LEMMA StreamStep ==
    ASSUME IInv, StreamOK, [Next]_vars, ~freerdp_channels_post_connect
    PROVE  /\ connection' = connection /\ sent' \in Seq(Written)
           /\ \/ Stream' = Stream
              \/ Stream' = Append(Stream, WMQ_QUIT) /\ main' = "closed"
              \/ \E t, w : Posts(t, w) /\ Stream' = Append(Stream, w)
<1>1. /\ sent \in Seq(Written) /\ Contents(writes) \in Seq(Written) /\ Stream \in Seq(Written)
  BY StreamType, Zenon
<1>2. connection' = connection
  BY Zenon DEF Next, SessionThread, ReceiveFirst, ReceiveRest, freerdp_channels_process_sync,
     freerdp_channels_disconnect, PostQuit, event_disconnected, dvcman_free, freerdp_channels_close,
     TakeMessage, DeviceWrite, Step, vars
<1>3. CASE sent' = sent /\ writes' = writes BY <1>1, <1>2, <1>3, Zenon DEF Stream
<1>4. CASE freerdp_channels_process_sync
  <2>1. PICK w : w = Oldest(writes) OBVIOUS
  <2>2. writes.size > 0 /\ sent' = Append(sent, w) /\ writes' = Dequeue(writes)
    BY <1>4, <2>1, Zenon DEF freerdp_channels_process_sync
  <2>3. WellFormed(writes, Written) BY Zenon DEF IInv, TypeOK, Written
  <2>4. /\ Contents(writes) # <<>> /\ w \in Written /\ w = Head(Contents(writes))
        /\ Contents(Dequeue(writes)) = Tail(Contents(writes))
    BY <2>1, <2>2, <2>3, DequeueTakesFirst
  <2>5. PICK v : v = Contents(writes) OBVIOUS
  <2>6. v \in Seq(Written) /\ v # <<>> /\ w = Head(v) /\ Contents(writes') = Tail(v)
    BY <1>1, <2>2, <2>4, <2>5, Zenon
  <2>7. Append(sent, Head(v)) \o Tail(v) = sent \o v BY <1>1, <2>6, MoveHead
  <2>8. sent' \in Seq(Written) BY <1>1, <2>2, <2>4
  <2>9. Stream' = Stream BY <2>2, <2>5, <2>6, <2>7, Zenon DEF Stream
  <2> QED BY <1>2, <2>8, <2>9
<1>5. CASE freerdp_channels_close /\ writes' # writes
  <2>1. /\ main' = "closed" /\ writes' = MessageQueue_Dispatch(writes, WMQ_QUIT) /\ sent' = sent
    BY <1>5, Zenon DEF freerdp_channels_close
  <2>2. WellFormed(writes, Written) BY Zenon DEF IInv, TypeOK, Written
  <2>3. WMQ_QUIT \in Written BY DEF Written
  <2>4. Contents(MessageQueue_Dispatch(writes, WMQ_QUIT)) = Append(Contents(writes), WMQ_QUIT)
    BY <2>2, <2>3, DispatchAppends
  <2>5. sent \o Append(Contents(writes), WMQ_QUIT) = Append(sent \o Contents(writes), WMQ_QUIT)
    BY <1>1, <2>3, AppendBehind
  <2>6. Stream' = Append(Stream, WMQ_QUIT) BY <2>1, <2>4, <2>5, Zenon DEF Stream
  <2> QED BY <1>1, <1>2, <2>1, <2>6, Zenon
<1>6. ASSUME NEW t \in Threads, Step(t), PostWrite(t)
      PROVE  /\ sent' \in Seq(Written)
             /\ \E w : Posts(t, w) /\ Stream' = Append(Stream, w)
  <2>1. PICK w : Posts(t, w) BY <1>6, PostPosts, Zenon
  <2>2. w \in Pdus /\ Contents(writes') = Append(Contents(writes), w) BY <2>1, Zenon DEF Posts
  <2>3. sent' = sent BY <1>6, Zenon DEF Step
  <2>4. w \in Written BY <2>2 DEF Written
  <2>5. sent \o Append(Contents(writes), w) = Append(sent \o Contents(writes), w)
    BY <1>1, <2>4, AppendBehind
  <2>6. Stream' = Append(Stream, w) BY <2>2, <2>3, <2>5, Zenon DEF Stream
  <2> QED BY <1>1, <2>1, <2>3, <2>6, Zenon
<1> QED BY <1>2, <1>3, <1>4, <1>5, <1>6, WritesStep, Zenon

\* what is posted belongs to this connection
LEMMA PostOwn ==
    ASSUME IInv, JobsOK, NEW t, NEW w, Posts(t, w)
    PROVE  /\ w \in Pdus /\ w # WMQ_QUIT /\ Own(w)
           /\ t = "drdynvc" => w.msg <= MaxPdus
           /\ t = "device" => w.msg > MaxPdus
           /\ main \in {"loop", "flush", "join", "free"}
<1>1. /\ t \in Threads /\ Runs(t, "post") /\ 1 \in DOMAIN job[t] /\ w = job[t][1].pdu /\ w \in Pdus
  BY Zenon DEF Posts
<1>2. job[t][1].op = "post" BY <1>1, HeadStep, Zenon
<1>3. OwnStep(t, job[t][1]) BY <1>1, Zenon DEF JobsOK, StepsOK
<1>4. "post" \in Writing BY DEF Writing
<1>5. /\ w.on = connection /\ (t = "device" => w.msg > MaxPdus) /\ (t = "drdynvc" => w.msg <= MaxPdus)
  BY <1>1, <1>2, <1>3, <1>4, Zenon DEF OwnStep
<1>6. w # WMQ_QUIT BY <1>1, ChannelsAssumption DEF ChannelsAssumption
<1>7. job[t] # <<>> BY <1>1, Zenon DEF Runs
<1>8. main \in {"idle", "loop", "flush", "join", "free", "closed", "late write"}
  BY Zenon DEF IInv, TypeOK
<1>9. main \in {"loop", "flush", "join", "free"} BY <1>1, <1>7, <1>8, Running
<1> QED BY <1>1, <1>5, <1>6, <1>9, Zenon DEF Own

\* where main comes from
LEMMA MainStep ==
    ASSUME [Next]_vars
    PROVE  /\ main' \in {"free", "idle", "late write"} =>
                main \in {"join", "free", "idle", "late write"}
           /\ main' = "join" => main \in {"flush", "join"}
           /\ main' = "flush" => main \in {"loop", "flush"}
           /\ main' = "closed" => main \in {"idle", "closed"}
           /\ main = "closed" => main' = "closed"
           /\ connected' # connected => freerdp_channels_disconnect \/ freerdp_channels_post_connect
           /\ main = "loop" /\ main' # main => freerdp_channels_disconnect
           /\ main = "flush" /\ main' # main => PostQuit
<1>1. CASE SessionThread
  <2>1. CASE freerdp_channels_post_connect BY <2>1 DEF freerdp_channels_post_connect
  <2>2. CASE \E last \in BOOLEAN : ReceiveFirst(last) BY <2>2 DEF ReceiveFirst
  <2>3. CASE ReceiveRest BY <2>3 DEF ReceiveRest
  <2>4. CASE freerdp_channels_process_sync BY <2>4 DEF freerdp_channels_process_sync
  <2>5. CASE freerdp_channels_disconnect BY <2>5 DEF freerdp_channels_disconnect
  <2>6. CASE PostQuit BY <2>6 DEF PostQuit
  <2>7. CASE event_disconnected BY <2>7 DEF event_disconnected
  <2>8. CASE dvcman_free BY <2>8 DEF dvcman_free
  <2>9. CASE freerdp_channels_close BY <2>9 DEF freerdp_channels_close
  <2> QED BY <1>1, <2>1, <2>2, <2>3, <2>4, <2>5, <2>6, <2>7, <2>8, <2>9, Zenon DEF SessionThread
<1>2. CASE TakeMessage
  <2>1. main' = main /\ connected' = connected BY <1>2, Zenon DEF TakeMessage
  <2> QED BY <2>1
<1>3. CASE \E c \in ChannelIds, n \in 1..2 : DeviceWrite(c, n)
  <2>1. main' = main /\ connected' = connected BY <1>3, Zenon DEF DeviceWrite
  <2> QED BY <2>1
<1>4. CASE \E t \in Threads : Step(t)
  <2>1. main' = main /\ connected' = connected BY <1>4, Zenon DEF Step
  <2> QED BY <2>1
<1>5. CASE vars' = vars
  <2>1. main' = main /\ connected' = connected BY <1>5, Zenon DEF vars
  <2> QED BY <2>1
<1> QED BY <1>1, <1>2, <1>3, <1>4, <1>5, Zenon DEF Next

\* every step keeps StreamOK
LEMMA StreamKept ==
    ASSUME IInv, StreamOK, JobsOK, [Next]_vars
    PROVE  StreamOK'
<1>1. /\ sent \in Seq(Written) /\ Contents(writes) \in Seq(Written) /\ Stream \in Seq(Written)
      /\ connection \in Nat
  BY StreamType, Zenon DEF IInv, TypeOK
<1>2. /\ \A i \in 1..Len(Stream) : Stream[i] # WMQ_QUIT => Stream[i].on <= connection
      /\ main # "closed" => \A i \in 1..Len(Stream) : Stream[i] # WMQ_QUIT
  BY Zenon DEF StreamOK
<1>3. ASSUME Stream' = Stream, connection' = connection, sent' \in Seq(Written) PROVE StreamOK'
  <2>1. main' # "closed" => main # "closed" BY MainStep
  <2> QED BY <1>2, <1>3, <2>1, Zenon DEF StreamOK
<1>4. ASSUME NEW w \in Written, Stream' = Append(Stream, w), connection' = connection,
             sent' \in Seq(Written),
             w # WMQ_QUIT => w.on <= connection, main' # "closed" => w # WMQ_QUIT
      PROVE  StreamOK'
  <2>1. main' # "closed" => main # "closed" BY MainStep
  <2>2. PICK s : s = Stream OBVIOUS
  <2>3. PICK r : r = Append(s, w) OBVIOUS
  <2>4. Stream' = r BY <1>4, <2>2, <2>3, Zenon
  <2>5. s \in Seq(Written) BY <1>1, <2>2
  <2>6. r \in Seq(Written) /\ \A i \in DOMAIN r : r[i] = w \/ \E k \in DOMAIN s : r[i] = s[k]
    BY <2>3, <2>5, AppendAll
  <2>7. DOMAIN r = 1..Len(r) /\ DOMAIN s = 1..Len(s) BY <2>5, <2>6
  <2>8. \A i \in 1..Len(r) : r[i] # WMQ_QUIT => r[i].on <= connection
    BY <1>2, <1>4, <2>2, <2>6, <2>7, Zenon
  <2>9. main' # "closed" => \A i \in 1..Len(r) : r[i] # WMQ_QUIT
    <3> SUFFICES ASSUME main' # "closed", NEW i \in 1..Len(r) PROVE r[i] # WMQ_QUIT OBVIOUS
    <3>1. w # WMQ_QUIT /\ \A k \in 1..Len(s) : s[k] # WMQ_QUIT BY <1>2, <1>4, <2>1, <2>2, Zenon
    <3>2. r[i] = w \/ \E k \in 1..Len(s) : r[i] = s[k] BY <2>6, <2>7, Zenon
    <3> QED BY <3>1, <3>2, Zenon
  <2> QED BY <1>4, <2>4, <2>8, <2>9, Zenon DEF StreamOK
<1>5. CASE freerdp_channels_post_connect
  <2>1. sent' = <<>> /\ writes' = writes /\ connection' = connection + 1 /\ main = "idle"
    BY <1>5, Zenon DEF freerdp_channels_post_connect
  <2>2. PICK v : v = Contents(writes) OBVIOUS
  <2>3. v \in Seq(Written) BY <1>1, <2>2
  <2>4. Stream' = <<>> \o v BY <2>1, <2>2, Zenon DEF Stream
  <2>5. Stream' = v BY <2>3, <2>4
  <2>6. \A i \in 1..Len(v) : \E k \in 1..Len(Stream) : v[i] = Stream[k]
    <3>1. Stream = sent \o v BY <2>2, Zenon DEF Stream
    <3> TAKE i \in 1..Len(v)
    <3>2. Len(sent) + i \in 1..Len(sent \o v) /\ (sent \o v)[Len(sent) + i] = v[i] BY <1>1, <2>3
    <3> QED BY <3>1, <3>2
  <2>7. \A i \in 1..Len(v) : v[i] # WMQ_QUIT /\ v[i].on <= connection
    <3>1. main # "closed" BY <2>1
    <3> QED BY <1>2, <2>6, <3>1, Zenon
  <2>8. \A i \in 1..Len(v) : v[i] # WMQ_QUIT /\ v[i].on <= connection + 1
    <3> TAKE i \in 1..Len(v)
    <3>1. v[i] \in Written /\ v[i] # WMQ_QUIT BY <2>3, <2>7
    <3>2. v[i] \in Pdus BY <3>1 DEF Written
    <3>3. v[i].on \in Nat BY <3>2 DEF Pdus
    <3>4. v[i].on <= connection BY <2>7
    <3> QED BY <1>1, <3>1, <3>3, <3>4
  <2>9. sent' \in Seq(Written) BY <2>1
  <2> QED BY <2>1, <2>5, <2>8, <2>9, Zenon DEF StreamOK
<1>6. CASE ~freerdp_channels_post_connect
  <2>1. /\ connection' = connection /\ sent' \in Seq(Written)
        /\ \/ Stream' = Stream
           \/ Stream' = Append(Stream, WMQ_QUIT) /\ main' = "closed"
           \/ \E t, w : Posts(t, w) /\ Stream' = Append(Stream, w)
    BY <1>6, StreamStep, Zenon
  <2>2. CASE Stream' = Append(Stream, WMQ_QUIT) /\ main' = "closed"
    <3>1. WMQ_QUIT \in Written BY DEF Written
    <3> QED BY <1>4, <2>1, <2>2, <3>1, Zenon
  <2>3. CASE \E t, w : Posts(t, w) /\ Stream' = Append(Stream, w)
    <3>1. PICK t, w : Posts(t, w) /\ Stream' = Append(Stream, w) BY <2>3
    <3>2. w \in Pdus /\ w # WMQ_QUIT /\ Own(w) BY <3>1, PostOwn, Zenon
    <3>3. w \in Written BY <3>2 DEF Written
    <3>4. w.on <= connection BY <1>1, <3>2 DEF Own
    <3> QED BY <1>4, <2>1, <3>1, <3>2, <3>3, <3>4, Zenon
  <2> QED BY <1>3, <2>1, <2>2, <2>3, Zenon
<1> QED BY <1>5, <1>6

\* there is no index in an empty queue
LEMMA NothingUpTo == \A i \in 1..0 : FALSE
OBVIOUS

\* the threads whose writes wait in channels->queue are different ones, and none
\* of them is about to post another
LateWriters ==
    /\ \A i, j \in 1..writes.size : Writer(i) = Writer(j) => i = j
    /\ \A i \in 1..writes.size : ~Runs(Writer(i), "post")

\* a thread whose program does not post
LEMMA RunsNoPost ==
    ASSUME NEW t, job'[t] \in Seq(Steps), NoPost(job'[t])
    PROVE  ~Runs(t, "post")'
<1> SUFFICES ASSUME job'[t] # <<>>, Head(job'[t]).op = "post" PROVE FALSE BY Zenon DEF Runs
<1>1. PICK j \in Seq(Steps) : j = job'[t] OBVIOUS
<1>2. Len(j) \in Nat \ {0} BY <1>1, EmptySeq
<1>3. 1 \in DOMAIN j /\ Head(j) = j[1] BY <1>2
<1> QED BY <1>1, <1>3, Zenon DEF NoPost

\* a thread posts what it had tested before the disconnection
LEMMA LatePost ==
    ASSUME IInv, IInv', StreamOK, JobsOK, LateWriters, NEW t, NEW w, Posts(t, w)
    PROVE  LateWriters'
<1>1. /\ t \in Threads /\ Runs(t, "post")
      /\ Contents(writes') = Append(Contents(writes), w) /\ job' = [job EXCEPT ![t] = Tail(job[t])]
  BY Zenon DEF Posts
<1>2. PICK v : v = Contents(writes) OBVIOUS
<1>3. PICK r : r = Contents(writes') OBVIOUS
<1>4. v \in Seq(Written) /\ Len(v) = writes.size BY <1>2, StreamType, Zenon
<1>5. w \in Written /\ (t = "drdynvc" => w.msg <= MaxPdus) /\ (t = "device" => w.msg > MaxPdus)
  <2>1. w \in Pdus BY PostOwn, Zenon
  <2>2. w \in Written BY <2>1 DEF Written
  <2> QED BY <2>2, PostOwn, Zenon
<1>6. r = Append(v, w) BY <1>1, <1>2, <1>3, Zenon
<1>7. /\ Len(v) \in Nat /\ Len(r) = Len(v) + 1 /\ r[Len(v) + 1] = w
      /\ \A i \in 1..Len(v) : r[i] = v[i]
  BY <1>4, <1>5, <1>6, AppendAll
<1>8. writes'.size = Len(r)
  <2>1. WellFormed(writes', Written) BY Zenon DEF IInv, TypeOK, Written
  <2> QED BY <1>3, <2>1, ContentsType, Zenon
<1>9. job[t] \in Seq(Steps) /\ job[t] # <<>> /\ Tail(job[t]) \in Seq(Steps) BY <1>1, HeadStep, Zenon
<1>10. NoPost(Tail(job[t]))
  <2>1. StepsOK(t, job[t]) BY <1>1, Zenon DEF JobsOK
  <2> QED BY <1>9, <2>1, TailSteps, Zenon
<1>11. job \in [Threads -> Seq(Steps)] BY Zenon DEF IInv, TypeOK
<1>12. job'[t] = Tail(job[t]) /\ \A s \in Threads \ {t} : job'[s] = job[s] BY <1>1, <1>11
<1>13. ~Runs(t, "post")' BY <1>9, <1>10, <1>12, RunsNoPost, Zenon
<1>14. \A i \in 1..Len(v) : Writer(i)' = Writer(i)
  BY <1>2, <1>3, <1>7, Zenon DEF Writer, ByDevice
<1>15. \A i : i = Len(v) + 1 => Writer(i)' = t
  <2>0. PICK k : k = Len(v) + 1 OBVIOUS
  <2>1. Contents(writes')[k] = w BY <1>3, <1>7, <2>0, Zenon
  <2>2. MaxPdus \in Nat BY ChannelsAssumption DEF ChannelsAssumption
  <2>3. w.msg \in Nat
    <3>1. w \in Pdus BY PostOwn, Zenon
    <3> QED BY <3>1 DEF Pdus
  <2>4. w.msg > MaxPdus <=> t = "device" BY <1>1, <1>5, <2>2, <2>3 DEF Threads
  <2>5. t = "device" \/ t = "drdynvc" BY <1>1 DEF Threads
  <2> QED BY <2>0, <2>1, <2>4, <2>5, Zenon DEF Writer, ByDevice
<1>16. \A i \in 1..Len(v) : Writer(i) # t
  BY <1>1, <1>4, Zenon DEF LateWriters
<1>17. \A i \in 1..Len(v) : Writer(i) \in Threads BY DEF Writer, Threads
<1>18. \A i \in 1..Len(r) : i \in 1..Len(v) \/ i = Len(v) + 1 BY <1>7
<1>19. \A i, j \in 1..Len(r) : Writer(i)' = Writer(j)' => i = j
  <2> TAKE i, j \in 1..Len(r)
  <2> HAVE Writer(i)' = Writer(j)'
  <2>1. CASE i \in 1..Len(v) /\ j \in 1..Len(v)
    BY <1>4, <1>14, <2>1, Zenon DEF LateWriters
  <2>2. CASE i \in 1..Len(v) /\ j = Len(v) + 1 BY <1>14, <1>15, <1>16, <2>2, Zenon
  <2>3. CASE i = Len(v) + 1 /\ j \in 1..Len(v) BY <1>14, <1>15, <1>16, <2>3, Zenon
  <2> QED BY <1>18, <2>1, <2>2, <2>3, Zenon
<1>20. \A i \in 1..Len(r) : ~Runs(Writer(i), "post")'
  <2> TAKE i \in 1..Len(r)
  <2>1. CASE i \in 1..Len(v)
    <3>1. Writer(i)' = Writer(i) /\ ~Runs(Writer(i), "post") /\ Writer(i) \in Threads \ {t}
      BY <1>4, <1>14, <1>16, <1>17, <2>1 DEF LateWriters
    <3>2. job'[Writer(i)'] = job[Writer(i)] BY <1>12, <3>1, Zenon
    <3> QED BY <3>1, <3>2, Zenon DEF Runs
  <2>2. CASE i = Len(v) + 1
    <3>1. Writer(i)' = t BY <1>15, <2>2, Zenon
    <3> QED BY <1>13, <3>1, Zenon DEF Runs
  <2> QED BY <1>18, <2>1, <2>2, Zenon
<1> QED BY <1>8, <1>19, <1>20, Zenon DEF LateWriters

\* every step keeps LateOK
LEMMA LateKept ==
    ASSUME IInv, IInv', StreamOK, JobsOK, PostsTested, LateOK, [Next]_vars
    PROVE  LateOK'
<1>1. main \in {"idle", "loop", "flush", "join", "free", "closed", "late write"}
  BY Zenon DEF IInv, TypeOK
<1>2. main' \in {"flush", "join", "free", "idle", "late write"} => ~connected'
  <2> HAVE main' \in {"flush", "join", "free", "idle", "late write"}
  <2>1. CASE freerdp_channels_disconnect BY <2>1 DEF freerdp_channels_disconnect
  <2>2. CASE freerdp_channels_post_connect BY <2>2 DEF freerdp_channels_post_connect
  <2>3. CASE ~freerdp_channels_disconnect /\ ~freerdp_channels_post_connect
    <3>1. connected' = connected BY <2>3, MainStep, Zenon
    <3>2. main \in {"flush", "join", "free", "idle", "late write"}
      <4>1. main = "loop" => main' = main BY <2>3, MainStep, Zenon
      <4>2. main # "closed" BY MainStep
      <4>3. main # "loop" BY <4>1
      <4> QED BY <1>1, <4>2, <4>3
    <3>3. ~connected BY <3>2, Zenon DEF LateOK
    <3> QED BY <3>1, <3>3, Zenon
  <2> QED BY <2>1, <2>2, <2>3
<1>3. main' \in {"join", "free", "idle", "late write"} => LateWriters'
  <2> HAVE main' \in {"join", "free", "idle", "late write"}
  <2>1. CASE main = "flush"
    <3>1. PostQuit BY <2>1, MainStep
    <3>2. writes.size = 0 /\ writes' = writes BY <3>1, Zenon DEF PostQuit
    <3>3. \A i \in 1..writes'.size : FALSE
      <4>1. writes'.size = 0 BY <3>2, Zenon
      <4> QED BY <4>1, NothingUpTo, Zenon
    <3> QED BY <3>3, Zenon DEF LateWriters
  <2>2. CASE main \in {"join", "free", "idle", "late write"}
    <3>1. LateWriters /\ ~connected BY <2>2 DEF LateOK, LateWriters
    <3>2. ~freerdp_channels_post_connect BY DEF freerdp_channels_post_connect
    <3>3. writes' = writes \/ \E t, w : Posts(t, w)
      <4>1. ~freerdp_channels_process_sync BY <2>2 DEF freerdp_channels_process_sync
      <4>2. ~(freerdp_channels_close /\ writes' # writes)
        <5> SUFFICES ASSUME freerdp_channels_close, writes' # writes PROVE FALSE OBVIOUS
        <5>1. main' = "closed" BY Zenon DEF freerdp_channels_close
        <5> QED BY <5>1
      <4> QED BY <3>2, <4>1, <4>2, WritesStep, PostPosts, Zenon
    <3>4. CASE writes' = writes
      <4>1. \A i : Writer(i)' = Writer(i) BY <3>4, Zenon DEF Writer, ByDevice
      <4>2. \A t \in Threads : ~Runs(t, "post") => ~Runs(t, "post")'
        <5> SUFFICES ASSUME NEW t \in Threads, ~Runs(t, "post") PROVE ~Runs(t, "post")' OBVIOUS
        <5>1. job'[t] = job[t] \/ NoPost(job'[t]) BY <3>1, Zenon DEF PostsTested
        <5>2. job'[t] \in Seq(Steps) BY DEF IInv, TypeOK
        <5>3. CASE job'[t] = job[t] BY <5>3, Zenon DEF Runs
        <5>4. CASE NoPost(job'[t]) BY <5>2, <5>4, RunsNoPost, Zenon
        <5> QED BY <5>1, <5>3, <5>4
      <4>3. \A i : Writer(i) \in Threads BY DEF Writer, Threads
      <4>4. \A i \in 1..writes.size : ~Runs(Writer(i), "post")'
        <5> TAKE i \in 1..writes.size
        <5>1. PICK t \in Threads : t = Writer(i) BY <4>3
        <5>2. ~Runs(t, "post")' BY <3>1, <4>2, <5>1, Zenon DEF LateWriters
        <5>3. Writer(i)' = t BY <4>1, <5>1, Zenon
        <5> QED BY <5>2, <5>3, Zenon DEF Runs
      <4>5. \A i, j \in 1..writes.size : Writer(i)' = Writer(j)' => i = j
        BY <3>1, <4>1, Zenon DEF LateWriters
      <4> QED BY <3>4, <4>4, <4>5, Zenon DEF LateWriters
    <3>5. CASE \E t, w : Posts(t, w) BY <3>1, <3>5, LatePost, Zenon
    <3> QED BY <3>3, <3>4, <3>5
  <2>3. main \in {"flush", "join", "free", "idle", "late write"} BY MainStep
  <2> QED BY <2>1, <2>2, <2>3
<1> QED BY <1>2, <1>3, Zenon DEF LateOK, LateWriters

-----------------------------------------------------------------------------
(* The capabilities come first.                                              *)

\* the stream stays, or grows by what is not of this connection
LEMMA ToldStays ==
    ASSUME Stream \in Seq(Written), CapabilitiesFirst, connection' = connection,
           \/ Stream' = Stream
           \/ \E w \in Written : Stream' = Append(Stream, w) /\ (Own(w) => Told \/ w.type = "CAPABILITIES")
    PROVE  CapabilitiesFirst' /\ (Told => Told')
<1>1. CASE Stream' = Stream
  BY <1>1, Zenon DEF CapabilitiesFirst, Told, Own
<1>2. ASSUME NEW w \in Written, Stream' = Append(Stream, w),
             Own(w) => Told \/ w.type = "CAPABILITIES"
      PROVE  CapabilitiesFirst' /\ (Told => Told')
  <2>1. PICK s \in Seq(Written) : s = Stream OBVIOUS
  <2>2. PICK r : r = Append(s, w) OBVIOUS
  <2>3. Stream' = r BY <1>2, <2>1, <2>2, Zenon
  <2>4. /\ Len(s) \in Nat /\ Len(r) = Len(s) + 1 /\ r[Len(s) + 1] = w
        /\ \A i \in 1..Len(s) : r[i] = s[i]
    BY <2>2, AppendAll
  <2>5. \A x : Own(x)' = Own(x) BY <1>2, Zenon DEF Own
  <2>6. PICK n \in Nat : n = Len(s) BY <2>4
  <2>7. Told => \E j \in 1..n : Own(r[j]) /\ r[j].type = "CAPABILITIES"
    <3> HAVE Told
    <3>1. PICK j \in 1..n : Own(s[j]) /\ s[j].type = "CAPABILITIES" BY <2>1, <2>6, Zenon DEF Told
    <3>2. r[j] = s[j] BY <2>4, <2>6, Zenon
    <3> QED BY <3>1, <3>2, Zenon
  <2>8. ASSUME NEW i \in 1..(n + 1), Own(r[i])
        PROVE  \E j \in 1..i : Own(r[j]) /\ r[j].type = "CAPABILITIES"
    <3>1. CASE i \in 1..n
      <4>1. r[i] = s[i] BY <2>4, <2>6, <3>1, Zenon
      <4>2. PICK j \in 1..i : Own(s[j]) /\ s[j].type = "CAPABILITIES"
        BY <2>1, <2>6, <2>8, <3>1, <4>1, Zenon DEF CapabilitiesFirst
      <4>3. j \in 1..n BY <3>1
      <4>4. r[j] = s[j] BY <2>4, <2>6, <4>3, Zenon
      <4> QED BY <4>2, <4>4, Zenon
    <3>2. CASE i = n + 1
      <4>1. r[i] = w BY <2>4, <2>6, <3>2
      <4>2. CASE Told
        <5>1. PICK j \in 1..n : Own(r[j]) /\ r[j].type = "CAPABILITIES" BY <2>7, <4>2
        <5>2. j \in 1..i BY <3>2
        <5> QED BY <5>1, <5>2
      <4>3. CASE w.type = "CAPABILITIES"
        <5>1. i \in 1..i BY <3>2
        <5> QED BY <2>8, <4>1, <4>3, <5>1, Zenon
      <4> QED BY <1>2, <2>8, <4>1, <4>2, <4>3, Zenon
    <3>3. i \in 1..n \/ i = n + 1 OBVIOUS
    <3> QED BY <3>1, <3>2, <3>3
  <2>9. Len(r) = n + 1 BY <2>4, <2>6
  <2>10. CapabilitiesFirst' BY <2>3, <2>5, <2>8, <2>9, Zenon DEF CapabilitiesFirst
  <2>11. Told => Told'
    <3> HAVE Told
    <3>1. PICK j \in 1..n : Own(r[j]) /\ r[j].type = "CAPABILITIES" BY <2>7
    <3>2. j \in 1..(n + 1) OBVIOUS
    <3> QED BY <2>3, <2>5, <2>9, <3>1, <3>2, Zenon DEF Told
  <2> QED BY <2>10, <2>11
<1> QED BY <1>1, <1>2, Zenon

\* the capabilities are posted: they have been told from then on
LEMMA ToldNow ==
    ASSUME Stream \in Seq(Written), connection' = connection, NEW w \in Written,
           Stream' = Append(Stream, w), Own(w), w.type = "CAPABILITIES"
    PROVE  Told'
<1>1. PICK s \in Seq(Written) : s = Stream OBVIOUS
<1>2. PICK r : r = Append(s, w) OBVIOUS
<1>3. Stream' = r BY <1>1, <1>2, Zenon
<1>4. Len(s) \in Nat /\ Len(r) = Len(s) + 1 /\ r[Len(s) + 1] = w BY <1>2, AppendAll
<1>5. PICK n \in Nat : n = Len(s) BY <1>4
<1>6. n + 1 \in 1..Len(r) /\ r[n + 1] = w BY <1>4, <1>5
<1>7. Own(w)' BY Zenon DEF Own
<1> QED BY <1>3, <1>6, <1>7, Zenon DEF Told, Own

\* nothing of this connection is in the stream before the capabilities
LEMMA UntoldStream ==
    ASSUME CapabilitiesFirst, ~Told, NEW i \in 1..Len(Stream), Len(Stream) \in Nat
    PROVE  ~Own(Stream[i])
<1>1. \A j \in 1..i : j \in 1..Len(Stream) OBVIOUS
<1> QED BY <1>1, Zenon DEF CapabilitiesFirst, Told

\* no thread and no handler moves, and the server learns nothing
LEMMA SilentStays ==
    ASSUME Silent, UNCHANGED <<job, server, posted, state>>, dvc' = dvc \/ dvc' = [c \in ChannelIds |-> NoChannel],
           thread' = thread \/ thread' # "run"
    PROVE  Silent'
<1>1. \A c \in ChannelIds : dvc'[c] = NoChannel BY DEF Silent
<1>2. TellsFirst(job["drdynvc"])' BY Zenon DEF Silent, TellsFirst
<1> QED BY <1>1, <1>2, Zenon DEF Silent

\* the server sends something while it has not been told the capabilities
LEMMA SilentSends ==
    ASSUME IInv, Silent, NEW p, ServerSends(p)
    PROVE  /\ p.type # "CLOSE_REQUEST"
           /\ \A c \in ChannelIds : server'[c] \in {"none", "asked"}
<1>1. \A c \in ChannelIds : server[c] \in {"none", "asked"} BY Zenon DEF Silent
<1>2. \A c \in ChannelIds : server[c] # "up" /\ server[c] \notin {"up", "failed"}
  <2> TAKE c \in ChannelIds
  <2>1. server[c] \in {"none", "asked"} BY <1>1
  <2> QED BY <2>1
<1>3. \/ p = Simple("CAPABILITY_REQUEST", "none") /\ server' = server
      \/ \E c \in ChannelIds : /\ p \in {Simple("CREATE_REQUEST", c), Simple("CREATE_UNHEARD", c)}
                               /\ server' = [server EXCEPT ![c] = "asked"]
  BY <1>2, Zenon DEF ServerSends
<1>4. CASE p = Simple("CAPABILITY_REQUEST", "none") /\ server' = server
  BY <1>1, <1>4, SimpleFields
<1>5. CASE \E c \in ChannelIds : /\ p \in {Simple("CREATE_REQUEST", c), Simple("CREATE_UNHEARD", c)}
                                 /\ server' = [server EXCEPT ![c] = "asked"]
  <2>1. PICK c \in ChannelIds : /\ p \in {Simple("CREATE_REQUEST", c), Simple("CREATE_UNHEARD", c)}
                                /\ server' = [server EXCEPT ![c] = "asked"]
    BY <1>5
  <2>2. p.type # "CLOSE_REQUEST" BY <2>1, SimpleFields
  <2>3. ASSUME NEW d \in ChannelIds PROVE server'[d] \in {"none", "asked"}
    <3>1. server'[d] = "asked" \/ server'[d] = server[d] BY <2>1
    <3> QED BY <1>1, <3>1
  <2> QED BY <2>2, <2>3
<1> QED BY <1>3, <1>4, <1>5

\* a chunk is received
LEMMA SilentReceives ==
    ASSUME IInv, Silent, NEW p \in Arriving, p.type # "CLOSE_REQUEST",
           \/ posted' = posted
           \/ posted' = Append(posted, p),
           \A c \in ChannelIds : server'[c] \in {"none", "asked"},
           UNCHANGED <<job, dvc, thread, state>>
    PROVE  Silent'
<1>1. posted \in Seq(Arriving) /\ \A i \in DOMAIN posted : posted[i].type # "CLOSE_REQUEST"
  BY Zenon DEF Silent, IInv, TypeOK
<1>2. \A i \in DOMAIN posted' : posted'[i].type # "CLOSE_REQUEST"
  <2>1. CASE posted' = posted BY <1>1, <2>1, Zenon
  <2>2. CASE posted' = Append(posted, p)
    <3>1. \A i \in DOMAIN posted' : posted'[i] = p \/ \E k \in DOMAIN posted : posted'[i] = posted[k]
      BY <1>1, <2>2, AppendAll
    <3> QED BY <1>1, <3>1, Zenon
  <2> QED BY <2>1, <2>2
<1>3. TellsFirst(job["drdynvc"])' BY Zenon DEF Silent, TellsFirst
<1> QED BY <1>2, <1>3, Zenon DEF Silent

\* drdynvc's thread takes a message
LEMMA SilentTakes ==
    ASSUME IInv, NumbersOK, JobsOK, Silent, TakeMessage
    PROVE  Silent'
<1>1. /\ thread = "run" /\ job["drdynvc"] = <<>> /\ UNCHANGED <<server, posted>>
  BY Zenon DEF TakeMessage, peer
<1>2. /\ job["device"] = <<>> /\ state = "CAPABILITIES"
      /\ \A c \in ChannelIds : dvc[c] = NoChannel
      /\ \A i \in DOMAIN posted : posted[i].type # "CLOSE_REQUEST"
  BY <1>1, Zenon DEF Silent
<1>3. Untold BY <1>1, <1>2, Zenon DEF Untold
<1>4. CASE Oldest(queue) = WMQ_QUIT
  <2>1. thread' = "exited" /\ UNCHANGED <<job, state, dvc>> BY <1>4, Zenon DEF TakeMessage
  <2>2. thread' # "run" BY <2>1
  <2> QED BY <1>1, <2>1, <2>2, SilentStays, Zenon
<1>5. CASE Oldest(queue) # WMQ_QUIT
  <2>1. PICK m : m = Oldest(queue) OBVIOUS
  <2>2. m \in Arriving /\ m.type # "CLOSE_REQUEST" BY <1>2, <1>5, <2>1, TakenWasPosted, Zenon
  <2>3. m.msg <= MaxPdus
    <3>1. \E i \in DOMAIN posted : posted[i] = m BY <1>5, <2>1, TakenWasPosted, Zenon
    <3> QED BY <3>1, Zenon DEF NumbersOK
  <2>4. drdynvc_order_recv(m) BY <1>5, <2>1, Zenon DEF TakeMessage
  <2>5. StepsOK("drdynvc", job["drdynvc"]) BY DEF JobsOK, Threads
  <2>6. \E p : Gives(m, p)
    BY <1>3, <2>2, <2>3, <2>4, <2>5, CapabilityGives, CreateGives, DataGives, CloseGives, Zenon
    DEF drdynvc_order_recv
  <2>7. PICK p : Gives(m, p) BY <2>6
  <2>8. job' = [job EXCEPT !["drdynvc"] = p] /\ p # <<>> /\ TellsFirst(p)
    BY <1>3, <2>2, <2>7, Zenon DEF Gives
  <2>9. dvc' = dvc
    <3>1. process_data(m) => m.type \in {"DATA_FIRST", "DATA"} BY Zenon DEF process_data
    <3>2. process_data(m) => m.ch \in ChannelIds BY <2>2, <3>1 DEF Arriving
    <3>3. process_data(m) => dvc' = dvc BY <1>2, <3>2, Zenon DEF process_data
    <3> QED BY <2>4, <3>3, Zenon DEF drdynvc_order_recv, process_capability_request,
          process_create_request, process_close_request
  <2>10. job \in [Threads -> Seq(Steps)] BY Zenon DEF IInv, TypeOK
  <2>11. job'["drdynvc"] = p /\ job'["device"] = job["device"] BY <2>8, <2>10 DEF Threads
  <2>12. TellsFirst(job["drdynvc"])' BY <2>8, <2>11, Zenon DEF TellsFirst
  <2> QED BY <1>1, <1>2, <2>8, <2>9, <2>11, <2>12, Zenon DEF Silent
<1> QED BY <1>4, <1>5

\* what a thread posts before the capabilities are told is the capabilities
LEMMA SilentPosts ==
    ASSUME Silent, NEW t, NEW w, Posts(t, w)
    PROVE  w.type = "CAPABILITIES"
<1>1. /\ t \in Threads /\ Runs(t, "post") /\ 1 \in DOMAIN job[t] /\ w = job[t][1].pdu
  BY Zenon DEF Posts
<1>2. job["device"] = <<>> /\ TellsFirst(job["drdynvc"]) BY Zenon DEF Silent
<1>3. job[t] # <<>> /\ Head(job[t]).op = "post" BY <1>1, Zenon DEF Runs
<1>4. t = "drdynvc" BY <1>1, <1>2, <1>3 DEF Threads
<1>5. Head(job[t]) = job[t][1] OBVIOUS
<1>6. job[t][1].op = "post" BY <1>3, <1>5, Zenon
<1>7. job[t][1].op # "exit" BY <1>6
<1> QED BY <1>1, <1>2, <1>3, <1>4, <1>7, Zenon DEF TellsFirst

\* a program that is in no channel ends with the exit of drdynvc's thread
LEMMA FailingExits ==
    ASSUME IInv, \A i \in DOMAIN job["drdynvc"] : job["drdynvc"][i].op # "leave",
           NEW p, p = Failing("drdynvc")
    PROVE  p # <<>> /\ TellsFirst(p)
<1>1. PICK e : e = Op("exit", Simple("CLOSED", "none")) OBVIOUS
<1>2. PICK j : j = job["drdynvc"] OBVIOUS
<1>3. j \in Seq(Steps) /\ connection \in Nat
  <2>1. job \in [Threads -> Seq(Steps)] /\ connection \in Nat BY Zenon DEF IInv, TypeOK
  <2> QED BY <1>2, <2>1 DEF Threads
<1>4. j # <<>> => Len(j) \in DOMAIN j BY <1>3, EmptySeq
<1>5. ~(j # <<>> /\ j[Len(j)].op = "leave") BY <1>2, <1>4, Zenon
<1>6. p = <<>> \o <<e>> BY <1>1, <1>2, <1>5, Zenon DEF Failing
<1>7. e.op = "exit" BY <1>1, OpFields
<1>8. Simple("CLOSED", "none") \in Pdus BY <1>3, SimpleType DEF ClientTypes
<1>9. e \in Steps BY <1>1, <1>8, OpType DEF Ops
<1>10. p = <<e>> BY <1>6, <1>9
<1>11. p # <<>> /\ p[1] = e /\ \A i \in DOMAIN p : p[i] = e BY <1>10, OneOf, Zenon
<1> QED BY <1>7, <1>11 DEF TellsFirst

\* a thread goes on before the capabilities are told
LEMMA SilentSteps ==
    ASSUME IInv, JobsOK, Silent, NEW t \in Threads, Step(t)
    PROVE  Silent' \/ \E w : Posts(t, w)
<1>1. /\ job["device"] = <<>> /\ TellsFirst(job["drdynvc"])
      /\ \A c \in ChannelIds : dvc[c] = NoChannel
  BY Zenon DEF Silent
<1>2. job \in [Threads -> Seq(Steps)] BY Zenon DEF IInv, TypeOK
<1>3. PICK j : j = job["drdynvc"] OBVIOUS
<1>4. j \in Seq(Steps) BY <1>2, <1>3 DEF Threads
<1>5. \A o : Runs(t, o) => t = "drdynvc" /\ o \in {"exit", "write", "post"} /\ j # <<>> /\ j[1].op = o
  <2> SUFFICES ASSUME NEW o, Runs(t, o)
               PROVE  t = "drdynvc" /\ o \in {"exit", "write", "post"} /\ j # <<>> /\ j[1].op = o
    OBVIOUS
  <2>1. job[t] # <<>> /\ job[t][1].op = o BY HeadStep, Zenon
  <2>2. t = "drdynvc" BY <1>1, <2>1 DEF Threads
  <2>3. j # <<>> /\ j[1].op = o BY <1>3, <2>1, <2>2, Zenon
  <2>4. o = "exit" \/ o \in Writing BY <1>1, <1>3, <2>3, Zenon DEF TellsFirst
  <2> QED BY <2>2, <2>3, <2>4 DEF Writing
<1>6. CASE PostWrite(t) BY <1>6, PostPosts, Zenon
<1>7. ASSUME t = "drdynvc", NEW p, job' = [job EXCEPT !["drdynvc"] = p], TellsFirst(p),
             p # <<>> \/ thread' # "run", UNCHANGED <<dvc, state>>
      PROVE  Silent'
  <2>1. job'["drdynvc"] = p /\ job'["device"] = job["device"] BY <1>2, <1>7 DEF Threads
  <2>2. server' = server /\ posted' = posted BY Zenon DEF Step, peer
  <2>3. TellsFirst(job["drdynvc"])' BY <1>7, <2>1, Zenon DEF TellsFirst
  <2>4. \A c \in ChannelIds : dvc'[c] = NoChannel BY <1>1, <1>7, Zenon
  <2>5. thread' = "run" /\ job'["drdynvc"] = <<>> => state' = "CAPABILITIES" BY <1>7, <2>1, Zenon
  <2> QED BY <1>1, <2>1, <2>2, <2>3, <2>4, <2>5, Zenon DEF Silent
<1>8. CASE CheckWrite(t)
  <2>1. Runs(t, "write") /\ UNCHANGED <<dvc, state>> BY <1>8, Zenon DEF CheckWrite
  <2>2. t = "drdynvc" /\ j # <<>> /\ j[1].op = "write" BY <1>5, <2>1, Zenon
  <2>3. CASE job' = [job EXCEPT ![t] = Failing(t)]
    <3>1. PICK p : p = Failing("drdynvc") OBVIOUS
    <3>2. \A i \in DOMAIN job["drdynvc"] : job["drdynvc"][i].op # "leave"
      <4> SUFFICES ASSUME NEW i \in DOMAIN job["drdynvc"] PROVE job["drdynvc"][i].op # "leave" OBVIOUS
      <4>1. job["drdynvc"][i].op \in {"write", "post", "create", "exit"} BY <1>1, Zenon DEF TellsFirst
      <4> QED BY <4>1
    <3>3. p # <<>> /\ TellsFirst(p) BY <3>1, <3>2, FailingExits, Zenon
    <3> QED BY <1>7, <2>1, <2>2, <2>3, <3>1, <3>3, Zenon
  <2>4. CASE job' = [job EXCEPT ![t] = <<Op("post", Head(job[t]).pdu)>> \o Tail(job[t])]
    <3>1. PICK o : o = Op("post", Head(j).pdu) OBVIOUS
    <3>2. PICK u : u = Tail(j) OBVIOUS
    <3>3. /\ Head(j) = j[1] /\ j[1].pdu \in Pdus /\ u \in Seq(Steps)
          /\ \A i \in DOMAIN u : \E k \in DOMAIN j : u[i] = j[k]
      BY <1>3, <2>1, <2>2, <3>2, HeadStep, Zenon
    <3>4. o \in Steps /\ o.op = "post" /\ o.pdu = j[1].pdu BY <3>1, <3>3, OpType DEF Ops
    <3>5. PICK p : p = <<o>> \o u OBVIOUS
    <3>6. p \in Seq(Steps) /\ p # <<>> /\ p[1] = o BY <3>3, <3>4, <3>5
    <3>7. \A i \in DOMAIN p : p[i] = o \/ (\E k \in DOMAIN u : p[i] = u[k]) BY <3>3, <3>4, <3>5, Prefixed
    <3>8. o.pdu.type = "CAPABILITIES"
      <4>1. j[1].op # "exit" BY <2>2
      <4> QED BY <1>1, <1>3, <2>2, <3>4, <4>1, Zenon DEF TellsFirst
    <3>9. \A i \in DOMAIN p : p[i].op \in {"write", "post", "create", "exit"}
      <4> TAKE i \in DOMAIN p
      <4>1. CASE p[i] = o BY <3>4, <4>1
      <4>2. CASE \E k \in DOMAIN u : p[i] = u[k] BY <1>1, <1>3, <3>3, <4>2, Zenon DEF TellsFirst
      <4> QED BY <3>7, <4>1, <4>2, Zenon
    <3>10. TellsFirst(p) BY <3>4, <3>6, <3>8, <3>9 DEF TellsFirst, Writing
    <3>11. job' = [job EXCEPT !["drdynvc"] = p] BY <1>3, <2>2, <2>4, <3>1, <3>2, <3>5, Zenon
    <3> QED BY <1>7, <2>1, <2>2, <3>6, <3>10, <3>11, Zenon
  <2> QED BY <1>8, <2>3, <2>4, Zenon DEF CheckWrite, Goes
<1>9. CASE ExitThread(t)
  <2>1. /\ Runs(t, "exit") /\ thread' = "exited" /\ job' = [job EXCEPT ![t] = <<>>] /\ UNCHANGED <<dvc, state>>
    BY <1>9, Zenon DEF ExitThread, Goes
  <2>2. t = "drdynvc" BY <1>5, <2>1, Zenon
  <2>3. TellsFirst(<<>>) BY DEF TellsFirst
  <2>4. thread' # "run" BY <2>1
  <2> QED BY <1>7, <2>1, <2>2, <2>3, <2>4, Zenon
<1>10. ~Runs(t, "enter") /\ ~Runs(t, "leave") /\ ~Runs(t, "create") /\ ~Runs(t, "open") /\ ~Runs(t, "close")
  <2>1. ASSUME NEW o, o \in {"enter", "leave", "create", "open", "close"} PROVE ~Runs(t, o)
    <3>1. o \notin {"exit", "write", "post"} BY <2>1
    <3> QED BY <1>5, <3>1, Zenon
  <2> QED BY <2>1
<1> QED BY <1>6, <1>8, <1>9, <1>10, Zenon
        DEF Step, EnterChannel, LeaveChannel, CreateChannel, OpenChannel, CloseChannel

\* a new connection has not written anything yet
LEMMA NothingOwn ==
    ASSUME IInv, StreamOK, freerdp_channels_post_connect
    PROVE  \A i \in 1..Len(Stream') : ~Own(Stream[i])'
<1>1. /\ sent \in Seq(Written) /\ Contents(writes) \in Seq(Written) /\ connection \in Nat
  BY StreamType, Zenon DEF IInv, TypeOK
<1>2. main = "idle" BY Zenon DEF freerdp_channels_post_connect
<1>3. sent' = <<>> /\ writes' = writes /\ connection' = connection + 1
  BY Zenon DEF freerdp_channels_post_connect
<1>4. PICK v : v = Contents(writes) OBVIOUS
<1>5. v \in Seq(Written) BY <1>1, <1>4
<1>6. Stream' = v
  <2>1. Stream' = <<>> \o v BY <1>3, <1>4, Zenon DEF Stream
  <2> QED BY <1>5, <2>1
<1>7. \A i \in 1..Len(v) : v[i] # WMQ_QUIT /\ v[i].on <= connection
  <2>1. \A i \in 1..Len(v) : \E k \in 1..Len(Stream) : v[i] = Stream[k]
    <3>1. Stream = sent \o v BY <1>4, Zenon DEF Stream
    <3> TAKE i \in 1..Len(v)
    <3>2. Len(sent) + i \in 1..Len(sent \o v) /\ (sent \o v)[Len(sent) + i] = v[i] BY <1>1, <1>5
    <3> QED BY <3>1, <3>2
  <2>2. main # "closed" BY <1>2
  <2> QED BY <2>1, <2>2, Zenon DEF StreamOK
<1>8. \A i \in 1..Len(v) : v[i].on # connection + 1
  <2> TAKE i \in 1..Len(v)
  <2>1. v[i] \in Written /\ v[i] # WMQ_QUIT BY <1>5, <1>7
  <2>2. v[i] \in Pdus BY <2>1 DEF Written
  <2>3. v[i].on \in Nat BY <2>2 DEF Pdus
  <2>4. v[i].on <= connection BY <1>7
  <2> QED BY <1>1, <2>3, <2>4
<1> QED BY <1>3, <1>6, <1>8, Zenon DEF Own

\* a new connection
LEMMA ConnectTells ==
    ASSUME IInv, StreamOK, freerdp_channels_post_connect
    PROVE  CapabilitiesFirst' /\ Silent'
<1>1. main = "idle" /\ ~open BY DEF IInv, ThreadOK, freerdp_channels_post_connect
<1>2. /\ posted' = <<>> /\ server' = [c \in ChannelIds |-> "none"]
      /\ dvc' = [c \in ChannelIds |-> NoChannel] /\ state' = "CAPABILITIES"
      /\ job' = [job EXCEPT !["drdynvc"] = <<>>]
  BY <1>1, Zenon DEF freerdp_channels_post_connect
<1>3. CapabilitiesFirst' BY NothingOwn, Zenon DEF CapabilitiesFirst
<1>4. job["device"] = <<>> BY <1>1 DEF IInv, ThreadOK
<1>5. job \in [Threads -> Seq(Steps)] BY Zenon DEF IInv, TypeOK
<1>6. job'["drdynvc"] = <<>> /\ job'["device"] = <<>> BY <1>2, <1>4, <1>5 DEF Threads
<1>7. DOMAIN <<>> = {} OBVIOUS
<1>8. TellsFirst(job["drdynvc"])' BY <1>6, <1>7, Zenon DEF TellsFirst
<1>9. \A c \in ChannelIds : server'[c] \in {"none", "asked"} /\ dvc'[c] = NoChannel BY <1>2
<1>10. Silent' BY <1>2, <1>6, <1>7, <1>8, <1>9, Zenon DEF Silent
<1> QED BY <1>3, <1>10

\* a PDU is drained before the capabilities are told: it is one of an earlier
\* connection, and the server makes nothing of it
LEMMA SilentSync ==
    ASSUME IInv, StreamOK, CapabilitiesFirst, ~Told, freerdp_channels_process_sync
    PROVE  server' = server
<1>1. /\ sent \in Seq(Written) /\ Contents(writes) \in Seq(Written) /\ Stream \in Seq(Written)
  BY StreamType, Zenon
<1>2. PICK w : w = Oldest(writes) OBVIOUS
<1>3. main \in {"loop", "flush"} /\ writes.size > 0 /\ server' = Heard(w)
  BY <1>2, Zenon DEF freerdp_channels_process_sync
<1>4. WellFormed(writes, Written) BY Zenon DEF IInv, TypeOK, Written
<1>5. PICK v : v = Contents(writes) OBVIOUS
<1>6. v \in Seq(Written) /\ v # <<>> /\ w = Head(v)
  <2>1. Contents(writes) # <<>> /\ Oldest(writes) = Head(Contents(writes))
    BY <1>3, <1>4, DequeueTakesFirst
  <2> QED BY <1>1, <1>2, <1>5, <2>1, Zenon
<1>7. PICK k \in 1..Len(Stream) : Stream[k] = w
  <2>1. Stream = sent \o v BY <1>5, Zenon DEF Stream
  <2>2. Len(v) \in Nat \ {0} /\ v[1] = w BY <1>6, EmptySeq
  <2>3. Len(sent) + 1 \in 1..Len(sent \o v) /\ (sent \o v)[Len(sent) + 1] = v[1] BY <1>1, <1>6, <2>2
  <2> QED BY <2>1, <2>2, <2>3
<1>8. Len(Stream) \in Nat BY <1>1
<1>9. ~Own(w) BY <1>7, <1>8, UntoldStream, Zenon
<1>10. main # "closed" BY <1>3
<1>11. w # WMQ_QUIT BY <1>7, <1>10, Zenon DEF StreamOK
<1>12. w.on # connection BY <1>9, <1>11, Zenon DEF Own
<1> QED BY <1>3, <1>12, Zenon DEF Heard

\* a chunk of a close request is not kept
LEMMA StreamOfData ==
    ASSUME IInv, [Next]_vars, dataIn # NoStream => dataIn.pdu.type # "CLOSE_REQUEST"
    PROVE  dataIn' # NoStream => dataIn'.pdu.type # "CLOSE_REQUEST"
<1>1. ASSUME NEW last \in BOOLEAN, ReceiveFirst(last)
      PROVE  dataIn' # NoStream => dataIn'.pdu.type # "CLOSE_REQUEST"
  <2>1. PICK p : DataReceived(p, TRUE, last) /\ (last \/ p.type \in {"DATA_FIRST", "DATA"})
    BY <1>1, Zenon DEF ReceiveFirst
  <2>2. TRUE \in BOOLEAN OBVIOUS
  <2>3. dataIn' = dataIn \/ dataIn' = NoStream \/ (~last /\ dataIn'.pdu = p)
    BY <2>1, <2>2, ReceivedOf, Zenon
  <2>4. ~last => p.type # "CLOSE_REQUEST" BY <2>1
  <2> QED BY <2>3, <2>4, Zenon
<1>2. CASE ReceiveRest
  <2>1. DataReceived(dataIn.pdu, FALSE, TRUE) BY <1>2, Zenon DEF ReceiveRest
  <2>2. FALSE \in BOOLEAN /\ TRUE \in BOOLEAN OBVIOUS
  <2>3. dataIn' = dataIn \/ dataIn' = NoStream BY <2>1, <2>2, ReceivedOf, Zenon
  <2> QED BY <2>3, Zenon
<1>3. CASE dataIn' = dataIn \/ dataIn' = NoStream BY <1>3, Zenon
<1>4. \/ \E last \in BOOLEAN : ReceiveFirst(last)
      \/ ReceiveRest
      \/ dataIn' = dataIn \/ dataIn' = NoStream
  BY Zenon DEF Next, SessionThread, freerdp_channels_post_connect, freerdp_channels_process_sync,
     freerdp_channels_disconnect, PostQuit, event_disconnected, dvcman_free, freerdp_channels_close,
     TakeMessage, DeviceWrite, Step, vars
<1> QED BY <1>1, <1>2, <1>3, <1>4, Zenon

\* every step keeps ToldOK
LEMMA ToldKept ==
    ASSUME IInv, StreamOK, NumbersOK, JobsOK, ToldOK, [Next]_vars
    PROVE  ToldOK'
<1>1. /\ dataIn # NoStream => dataIn.pdu.type # "CLOSE_REQUEST"
      /\ CapabilitiesFirst
      /\ Told \/ Silent
  BY Zenon DEF ToldOK
<1>2. dataIn' # NoStream => dataIn'.pdu.type # "CLOSE_REQUEST" BY <1>1, StreamOfData, Zenon
<1>3. CASE freerdp_channels_post_connect BY <1>2, <1>3, ConnectTells, Zenon DEF ToldOK
<1>4. CASE ~freerdp_channels_post_connect
  <2>1. /\ connection' = connection
        /\ \/ Stream' = Stream
           \/ Stream' = Append(Stream, WMQ_QUIT) /\ main' = "closed"
           \/ \E t, w : Posts(t, w) /\ Stream' = Append(Stream, w)
    BY <1>4, StreamStep, Zenon
  <2>2. Stream \in Seq(Written) BY StreamType, Zenon
  <2>3. ASSUME NEW t, NEW w, Posts(t, w) PROVE w \in Written /\ Own(w)
    <3>1. w \in Pdus /\ Own(w) BY <2>3, PostOwn, Zenon
    <3> QED BY <3>1 DEF Written
  <2>4. CapabilitiesFirst' /\ (Told => Told')
    <3>1. CASE Stream' = Stream BY <1>1, <2>1, <2>2, <3>1, ToldStays, Zenon
    <3>2. CASE Stream' = Append(Stream, WMQ_QUIT)
      <4>1. WMQ_QUIT \in Written /\ ~Own(WMQ_QUIT) BY DEF Written, Own
      <4> QED BY <1>1, <2>1, <2>2, <3>2, <4>1, ToldStays, Zenon
    <3>3. CASE \E t, w : Posts(t, w) /\ Stream' = Append(Stream, w)
      <4>1. PICK t, w : Posts(t, w) /\ Stream' = Append(Stream, w) BY <3>3
      <4>2. w \in Written BY <2>3, <4>1, Zenon
      <4>3. Told \/ w.type = "CAPABILITIES" BY <1>1, <4>1, SilentPosts, Zenon
      <4> QED BY <1>1, <2>1, <2>2, <4>1, <4>2, <4>3, ToldStays, Zenon
    <3> QED BY <2>1, <3>1, <3>2, <3>3
  <2>5. ASSUME ~Told PROVE Told' \/ Silent'
    <3>1. Silent BY <1>1, <2>5
    <3>2. CASE \E t \in Threads : Step(t)
      <4>1. PICK t \in Threads : Step(t) BY <3>2
      <4>2. CASE \E w : Posts(t, w)
        <5>1. PICK w : Posts(t, w) BY <4>2
        <5>2. w \in Written /\ Own(w) /\ w.type = "CAPABILITIES" BY <2>3, <3>1, <5>1, SilentPosts, Zenon
        <5>3. sent' = sent /\ Contents(writes') = Append(Contents(writes), w)
          BY <4>1, <5>1, Zenon DEF Step, Posts
        <5>4. sent \in Seq(Written) /\ Contents(writes) \in Seq(Written) BY StreamType, Zenon
        <5>5. sent \o Append(Contents(writes), w) = Append(sent \o Contents(writes), w)
          BY <5>2, <5>4, AppendBehind
        <5>6. Stream' = Append(Stream, w) BY <5>3, <5>5, Zenon DEF Stream
        <5> QED BY <2>1, <2>2, <5>2, <5>6, ToldNow, Zenon
      <4> QED BY <3>1, <4>1, <4>2, SilentSteps, Zenon
    <3>3. CASE TakeMessage BY <3>1, <3>3, SilentTakes, Zenon
    <3>4. ASSUME NEW c \in ChannelIds, NEW n \in 1..2, DeviceWrite(c, n) PROVE FALSE
      <4>1. dvc[c] # NoChannel BY <3>4, Zenon DEF DeviceWrite
      <4> QED BY <3>1, <4>1, Zenon DEF Silent
    <3>5. CASE vars' = vars
      <4>1. UNCHANGED <<job, server, posted, state, dvc, thread>> BY <3>5, Zenon DEF vars
      <4> QED BY <3>1, <4>1, SilentStays, Zenon
    <3>6. CASE SessionThread
      <4>1. ASSUME NEW last \in BOOLEAN, ReceiveFirst(last) PROVE Silent'
        <5>1. PICK p : ServerSends(p) /\ DataReceived(p, TRUE, last) BY <4>1, Zenon DEF ReceiveFirst
        <5>2. UNCHANGED <<job, dvc, thread, state>> BY <4>1, Zenon DEF ReceiveFirst
        <5>3. p \in Arriving BY <5>1, ServerStep, Zenon
        <5>4. p.type # "CLOSE_REQUEST" /\ \A c \in ChannelIds : server'[c] \in {"none", "asked"}
          BY <3>1, <5>1, SilentSends, Zenon
        <5>5. TRUE \in BOOLEAN OBVIOUS
        <5>6. posted' = posted \/ posted' = Append(posted, p) BY <5>1, <5>5, ReceivedOf, Zenon
        <5> QED BY <3>1, <5>2, <5>3, <5>4, <5>6, SilentReceives, Zenon
      <4>2. CASE ReceiveRest
        <5>1. /\ dataIn # NoStream /\ DataReceived(dataIn.pdu, FALSE, TRUE)
              /\ UNCHANGED <<job, dvc, thread, state, server>>
          BY <4>2, Zenon DEF ReceiveRest, peer
        <5>2. dataIn.pdu \in Arriving /\ dataIn.pdu.type # "CLOSE_REQUEST"
          BY <1>1, <5>1, Zenon DEF IInv, TypeOK
        <5>3. FALSE \in BOOLEAN /\ TRUE \in BOOLEAN OBVIOUS
        <5>4. posted' = posted \/ posted' = Append(posted, dataIn.pdu) BY <5>1, <5>3, ReceivedOf, Zenon
        <5>5. \A c \in ChannelIds : server'[c] \in {"none", "asked"} BY <3>1, <5>1, Zenon DEF Silent
        <5> QED BY <3>1, <5>1, <5>2, <5>4, <5>5, SilentReceives, Zenon
      <4>3. CASE freerdp_channels_process_sync
        <5>1. UNCHANGED <<job, posted, state, dvc, thread>>
          BY <4>3, Zenon DEF freerdp_channels_process_sync
        <5>2. server' = server BY <1>1, <2>5, <4>3, SilentSync, Zenon
        <5> QED BY <3>1, <5>1, <5>2, SilentStays, Zenon
      <4>4. CASE event_disconnected
        <5>1. UNCHANGED <<job, server, posted, state, dvc>> /\ thread' = "none"
          BY <4>4, Zenon DEF event_disconnected, peer
        <5>2. thread' # "run" BY <5>1
        <5> QED BY <3>1, <5>1, <5>2, SilentStays, Zenon
      <4>5. CASE freerdp_channels_disconnect \/ PostQuit \/ dvcman_free \/ freerdp_channels_close
        <5>1. /\ UNCHANGED <<job, server, posted, state, thread>>
              /\ dvc' = dvc \/ dvc' = [c \in ChannelIds |-> NoChannel]
          BY <4>5, Zenon DEF freerdp_channels_disconnect, PostQuit, dvcman_free, freerdp_channels_close, peer
        <5> QED BY <3>1, <5>1, SilentStays, Zenon
      <4> QED BY <1>4, <3>6, <4>1, <4>2, <4>3, <4>4, <4>5, Zenon DEF SessionThread
    <3> QED BY <3>2, <3>3, <3>4, <3>5, <3>6, Zenon DEF Next
  <2> QED BY <1>2, <2>4, <2>5, Zenon DEF ToldOK
<1> QED BY <1>3, <1>4

\* nothing has been written yet
LEMMA NothingWritten == Init => \A i \in 1..Len(Stream) : FALSE
<1> SUFFICES ASSUME Init PROVE Len(Stream) = 0 OBVIOUS
<1>1. Contents(MessageQueue_New(QueueCapacity)) = <<>>
  BY NewQueue, ChannelsAssumption DEF ChannelsAssumption
<1>2. writes = MessageQueue_New(QueueCapacity) /\ sent = <<>> BY Zenon DEF Init
<1>3. Stream = <<>> \o <<>> BY <1>1, <1>2, Zenon DEF Stream
<1> QED BY <1>3

\* the initial states
LEMMA WritesInit == Init => WritesInv
<1> SUFFICES ASSUME Init PROVE WritesInv OBVIOUS
<1>1. IInv BY InitOK
<1>2. /\ main = "idle" /\ ~connected /\ writes = MessageQueue_New(QueueCapacity) /\ dataIn = NoStream
      /\ job = [t \in Threads |-> <<>>] /\ posted = <<>> /\ sent = <<>> /\ thread = "none"
      /\ dvc = [c \in ChannelIds |-> NoChannel] /\ server = [c \in ChannelIds |-> "none"]
      /\ messages = [c \in ChannelIds |-> <<>>]
      /\ budget = [pdus |-> MaxPdus, device |-> MaxDeviceWrites]
  BY DEF Init
<1>3. \A i \in 1..Len(Stream) : FALSE BY NothingWritten, Zenon
<1>4. StreamOK
  <2>1. sent \in Seq(Written) BY <1>2
  <2> QED BY <1>3, <2>1, Zenon DEF StreamOK
<1>5. \A t \in Threads : job[t] = <<>> BY <1>2
<1>6. DOMAIN <<>> = {} OBVIOUS
<1>7. JobsOK BY <1>5, <1>6, Zenon DEF JobsOK, StepsOK
<1>8. NumbersOK
  <2>1. \A c \in ChannelIds : Len(messages[c]) + budget.pdus <= MaxPdus
    <3>1. MaxPdus \in Nat BY ChannelsAssumption DEF ChannelsAssumption
    <3> QED BY <1>2, <3>1
  <2> QED BY <1>2, <1>6, <2>1, Zenon DEF NumbersOK
<1>9. LateOK
  <2>1. writes.size = 0 BY <1>2 DEF MessageQueue_New
  <2>2. \A i \in 1..writes.size : FALSE BY <2>1
  <2> QED BY <1>2, <2>2, Zenon DEF LateOK
<1>10. Silent
  <2>1. job["device"] = <<>> /\ job["drdynvc"] = <<>> BY <1>5 DEF Threads
  <2>2. TellsFirst(job["drdynvc"]) BY <1>6, <2>1, Zenon DEF TellsFirst
  <2>3. thread # "run" BY <1>2
  <2>4. \A c \in ChannelIds : dvc[c] = NoChannel /\ server[c] \in {"none", "asked"} BY <1>2
  <2> QED BY <1>2, <1>6, <2>1, <2>2, <2>3, <2>4, Zenon DEF Silent
<1>11. ToldOK BY <1>2, <1>3, <1>10, Zenon DEF ToldOK, CapabilitiesFirst
<1> QED BY <1>4, <1>7, <1>8, <1>9, <1>11, Zenon DEF WritesInv

\* every step keeps WritesInv
LEMMA WritesNext == IInv /\ WritesInv /\ [Next]_vars => IInv' /\ WritesInv'
<1> SUFFICES ASSUME IInv, WritesInv, [Next]_vars PROVE IInv' /\ WritesInv' OBVIOUS
<1>1. StreamOK /\ NumbersOK /\ JobsOK /\ LateOK /\ ToldOK BY Zenon DEF WritesInv
<1>2. IInv' BY NextOK
<1>3. JobsOK' /\ PostsTested BY <1>1, JobsStep, Zenon
<1>4. NumbersOK' BY <1>1, NumbersStep, Zenon
<1>5. StreamOK' BY <1>1, StreamKept, Zenon
<1>6. LateOK' BY <1>1, <1>2, <1>3, LateKept, Zenon
<1>7. ToldOK' BY <1>1, ToldKept, Zenon
<1> QED BY <1>2, <1>3, <1>4, <1>5, <1>6, <1>7, Zenon DEF WritesInv

\* Whether or not the server asks for them, the capabilities are the first thing
\* drdynvc tells it on a connection.
THEOREM CapabilitiesTold == Spec => []CapabilitiesFirst
<1>1. WritesInv => CapabilitiesFirst BY Zenon DEF WritesInv, ToldOK
<1> QED BY <1>1, InitOK, WritesInit, WritesNext, PTL DEF Spec

\* a number is at most two, or three go up to it
LEMMA ThreeUpTo ==
    ASSUME NEW n \in Nat
    PROVE  (n <= 2 \/ (1 \in 1..n /\ 2 \in 1..n /\ 3 \in 1..n)) /\ 1 # 2 /\ 1 # 3 /\ 2 # 3
OBVIOUS

\* A write that has passed the test of channels->connected may be posted after
\* the last drain, but only one of each thread, so that at most two messages are
\* left behind by a disconnection.
THEOREM LateWritesBounded == Spec => []LateWrites
<1>1. IInv /\ WritesInv => LateWrites
  <2> SUFFICES ASSUME IInv, WritesInv, main \in {"free", "idle", "late write"}
               PROVE  /\ writes.size <= 2
                      /\ \A i, j \in 1..writes.size : ByDevice(i) /\ ByDevice(j) => i = j
    BY Zenon DEF LateWrites, ByDevice
  <2>1. main \in {"join", "free", "idle", "late write"} OBVIOUS
  <2>2. \A i, j \in 1..writes.size : Writer(i) = Writer(j) => i = j
    BY <2>1, Zenon DEF WritesInv, LateOK
  <2>3. \A i, j \in 1..writes.size : ByDevice(i) /\ ByDevice(j) => i = j BY <2>2, Zenon DEF Writer
  <2>4. writes.size \in Nat
    <3>1. StreamOK BY Zenon DEF WritesInv
    <3>2. Len(Contents(writes)) = writes.size /\ Contents(writes) \in Seq(Written)
      BY <3>1, StreamType, Zenon
    <3> QED BY <3>2, LenProperties
  <2>5. PICK n \in Nat : n = writes.size BY <2>4
  <2>6. n <= 2
    <3>1. n <= 2 \/ (1 \in 1..n /\ 2 \in 1..n /\ 3 \in 1..n) BY ThreeUpTo
    <3> SUFFICES ASSUME 1 \in 1..n /\ 2 \in 1..n /\ 3 \in 1..n PROVE FALSE BY <3>1, Zenon
    <3>2. 1 # 2 /\ 1 # 3 /\ 2 # 3 BY ThreeUpTo
    <3>3. Writer(1) # Writer(2) /\ Writer(1) # Writer(3) /\ Writer(2) # Writer(3)
      BY <2>2, <2>5, <3>2, Zenon
    <3> QED BY <3>3, Zenon DEF Writer
  <2> QED BY <2>3, <2>5, <2>6, Zenon
<1> QED BY <1>1, InitOK, WritesInit, WritesNext, PTL DEF Spec

-----------------------------------------------------------------------------
(* The pieces of a message stay together.                                    *)

IsData(p) == p.type \in {"DATA_FIRST", "DATA"}

\* a step that writes a piece of a message, and the step that writes the next
DataStep(s) == s.op \in Writing /\ IsData(s.pdu)
Follows(a, b) ==
    /\ DataStep(a) /\ a.pdu.part < a.pdu.parts
    /\ DataStep(b) /\ b.pdu.part = 2 /\ b.pdu.ch = a.pdu.ch /\ b.pdu.msg = a.pdu.msg

\* the order of a program: a channel is entered before anything else and left
\* after everything but exiting, both pieces of a message are written one after
\* the other, and a thread that writes or leaves is inside or about to enter
InOrderAt(t, j, l, i) ==
    /\ i > 1 => j[i].op # "enter"
    /\ j[i].op = "leave" => \A k \in DOMAIN j : k > i => j[k].op = "exit"
    /\ DataStep(j[i]) /\ j[i].pdu.part < j[i].pdu.parts => i + 1 \in DOMAIN j /\ Follows(j[i], j[i + 1])
    /\ DataStep(j[i]) /\ j[i].pdu.part = 2 /\ i > 1 => Follows(j[i - 1], j[i])
    /\ DataStep(j[i]) \/ j[i].op = "leave" =>
         /\ j[i].pdu.ch \in ChannelIds
         /\ \/ i > 1 /\ j[1].op = "enter" /\ j[1].pdu.ch = j[i].pdu.ch
            \/ l[j[i].pdu.ch] = t

InOrder(t, j, l) == \A i \in DOMAIN j : InOrderAt(t, j, l, i)

HeldOK == \A t \in Threads : InOrder(t, job[t], lock)

\* t is about to write a second piece on c; t is about to post a piece on c
AtSecond(t, c) ==
    job[t] # <<>> /\ DataStep(job[t][1]) /\ job[t][1].pdu.part = 2 /\ job[t][1].pdu.ch = c
AtPost(t, c) ==
    job[t] # <<>> /\ job[t][1].op = "post" /\ IsData(job[t][1].pdu) /\ job[t][1].pdu.ch = c

\* the last piece written on c so far is a first piece of two
LastOpen(s, c, j) ==
    /\ OwnData(s[j], c) /\ s[j].part < s[j].parts
    /\ \A k \in (j + 1)..Len(s) : ~OwnData(s[k], c)

\* it is one of message m
OpenIn(s, c, m) == \E j \in 1..Len(s) : LastOpen(s, c, j) /\ s[j].msg = m

\* nothing will be written on c any more, on this connection
Over(c) == ~connected /\ \A t \in Threads : ~AtPost(t, c)

\* who is about to write a second piece has written the first
BegunOK ==
    \A c \in ChannelIds : \A t \in Threads : AtSecond(t, c) =>
        OpenIn(Stream, c, job[t][1].pdu.msg)

\* whose first piece is the last thing written is about to write the second, or
\* the writes have come to their end
OpenOK ==
    \A c \in ChannelIds : \A j \in 1..Len(Stream) : LastOpen(Stream, c, j) =>
        \/ \E t \in Threads : AtSecond(t, c) /\ job[t][1].pdu.msg = Stream[j].msg
        \/ Over(c)

PiecesInv == HeldOK /\ (main = "loop" => open) /\ BegunOK /\ OpenOK /\ PiecesTogether

\* a step of t that leaves no channel keeps t's locks, and takes that of the
\* channel it enters
LocksKept(t, h, l, k) ==
    h.op # "leave" =>
        \A c \in ChannelIds : l[c] = t \/ (h.op = "enter" /\ h.pdu.ch = c) => k[c] = t

\* what is left of a program when its first step is done is in order; a step
\* that is then the first has been written directly behind it
LEMMA TailOrder ==
    ASSUME NEW t, NEW j \in Seq(Steps), j # <<>>, NEW l, InOrder(t, j, l), NEW u, u = Tail(j), NEW k,
           LocksKept(t, j[1], l, k)
    PROVE  /\ InOrder(t, u, k)
           /\ u # <<>> /\ DataStep(u[1]) /\ u[1].pdu.part = 2 => Follows(j[1], u[1])
<1>1. PICK n \in Nat : n = Len(u) /\ Len(j) = n + 1
  <2>1. Len(j) \in Nat \ {0} /\ u \in Seq(Steps) /\ Len(u) = Len(j) - 1 BY EmptySeq, HeadTailProperties
  <2>2. Len(u) \in Nat /\ Len(j) = Len(u) + 1 BY <2>1
  <2> QED BY <2>2, Zenon
<1>2. DOMAIN u = 1..n /\ DOMAIN j = 1..(n + 1) /\ \A i \in 1..n : u[i] = j[i + 1]
  BY <1>1, HeadTailProperties
<1>3. \A i \in 1..n : /\ i + 1 \in DOMAIN j /\ i + 1 > 1 /\ 1 \in DOMAIN j /\ (i + 1) - 1 = i
                      /\ (i > 1 => i - 1 \in 1..n /\ (i - 1) + 1 = i)
                      /\ ((i + 1) + 1 \in DOMAIN j => i + 1 \in 1..n)
                      /\ \A h \in 1..n : h > i => h + 1 > i + 1
  BY <1>2
<1>4. ASSUME NEW i \in 1..n PROVE InOrderAt(t, u, k, i)
  <2>1. InOrderAt(t, j, l, i + 1) /\ InOrderAt(t, j, l, 1) BY <1>3, Zenon DEF InOrder
  <2>2. u[i] = j[i + 1] /\ i + 1 \in DOMAIN j /\ i + 1 > 1 BY <1>2, <1>3, Zenon
  <2>3. u[i].op # "enter" BY <2>1, <2>2, Zenon DEF InOrderAt
  <2>4. u[i].op = "leave" => \A h \in DOMAIN u : h > i => u[h].op = "exit"
    <3> SUFFICES ASSUME u[i].op = "leave", NEW h \in DOMAIN u, h > i PROVE u[h].op = "exit" OBVIOUS
    <3>1. h \in 1..n /\ h + 1 \in DOMAIN j /\ h + 1 > i + 1 /\ u[h] = j[h + 1] BY <1>2, <1>3, Zenon
    <3> QED BY <2>1, <2>2, <3>1, Zenon DEF InOrderAt
  <2>5. DataStep(u[i]) /\ u[i].pdu.part < u[i].pdu.parts => i + 1 \in DOMAIN u /\ Follows(u[i], u[i + 1])
    <3> SUFFICES ASSUME DataStep(u[i]), u[i].pdu.part < u[i].pdu.parts
                 PROVE  i + 1 \in DOMAIN u /\ Follows(u[i], u[i + 1])
      OBVIOUS
    <3>1. (i + 1) + 1 \in DOMAIN j /\ Follows(j[i + 1], j[(i + 1) + 1])
      BY <2>1, <2>2, Zenon DEF InOrderAt
    <3>2. i + 1 \in 1..n BY <1>3, <3>1, Zenon
    <3>3. u[i + 1] = j[(i + 1) + 1] BY <1>2, <3>2, Zenon
    <3> QED BY <1>2, <2>2, <3>1, <3>2, <3>3, Zenon
  <2>6. DataStep(u[i]) /\ u[i].pdu.part = 2 /\ i > 1 => Follows(u[i - 1], u[i])
    <3> SUFFICES ASSUME DataStep(u[i]), u[i].pdu.part = 2, i > 1 PROVE Follows(u[i - 1], u[i])
      OBVIOUS
    <3>1. Follows(j[(i + 1) - 1], j[i + 1]) BY <2>1, <2>2, Zenon DEF InOrderAt
    <3>2. i - 1 \in 1..n /\ (i - 1) + 1 = i /\ (i + 1) - 1 = i BY <1>3, Zenon
    <3>3. u[i - 1] = j[i] BY <1>2, <3>2, Zenon
    <3> QED BY <2>2, <3>1, <3>2, <3>3, Zenon
  <2>7. ASSUME DataStep(u[i]) \/ u[i].op = "leave"
        PROVE  u[i].pdu.ch \in ChannelIds /\ k[u[i].pdu.ch] = t
    <3>1. u[i].op # "exit" BY <2>7 DEF DataStep, Writing
    <3>2. j[1].op # "leave" BY <2>1, <2>2, <3>1, Zenon DEF InOrderAt
    <3>3. /\ u[i].pdu.ch \in ChannelIds
          /\ (j[1].op = "enter" /\ j[1].pdu.ch = u[i].pdu.ch) \/ l[u[i].pdu.ch] = t
      BY <2>1, <2>2, <2>7, Zenon DEF InOrderAt
    <3> QED BY <3>2, <3>3, Zenon DEF LocksKept
  <2> QED BY <2>3, <2>4, <2>5, <2>6, <2>7, Zenon DEF InOrderAt
<1>5. InOrder(t, u, k) BY <1>2, <1>4, Zenon DEF InOrder
<1>6. ASSUME u # <<>>, DataStep(u[1]), u[1].pdu.part = 2 PROVE Follows(j[1], u[1])
  <2>1. n > 0 BY <1>1, <1>6, EmptySeq, HeadTailProperties
  <2>2. 1 \in 1..n BY <2>1
  <2>3. InOrderAt(t, j, l, 1 + 1) BY <1>3, <2>2, Zenon DEF InOrder
  <2>4. u[1] = j[1 + 1] /\ 1 + 1 > 1 /\ (1 + 1) - 1 = 1 BY <1>2, <1>3, <2>2, Zenon
  <2> QED BY <1>6, <2>3, <2>4, Zenon DEF InOrderAt
<1> QED BY <1>5, <1>6

\* another thread may do with a lock what it likes as long as it is not t's
LEMMA OthersOrder ==
    ASSUME NEW t, NEW j, NEW l, InOrder(t, j, l), NEW k,
           \A c \in ChannelIds : l[c] = t => k[c] = t
    PROVE  InOrder(t, j, k)
BY Zenon DEF InOrder, InOrderAt

\* a program without pieces of messages and without critical section
LEMMA PlainOrder ==
    ASSUME NEW t, NEW j, NEW l,
           \A i \in DOMAIN j : ~DataStep(j[i]) /\ j[i].op \notin {"enter", "leave"}
    PROVE  InOrder(t, j, l)
<1>1. \A i \in DOMAIN j : ~DataStep(j[i]) /\ j[i].op # "enter" /\ j[i].op # "leave" OBVIOUS
<1> QED BY <1>1, Zenon DEF InOrder, InOrderAt

\* a thread that goes on from testing to posting
LEMMA SameOrder ==
    ASSUME NEW t, NEW j, NEW l, InOrder(t, j, l), NEW p, DOMAIN p = DOMAIN j,
           NEW n \in Nat, DOMAIN j = 1..n, 1 \in DOMAIN j, j[1].op = "write", p[1].op = "post", p[1].pdu = j[1].pdu,
           \A i \in DOMAIN j : i # 1 => p[i] = j[i]
    PROVE  InOrder(t, p, l)
<1>1. \A i \in DOMAIN j : /\ DataStep(p[i]) <=> DataStep(j[i])
                          /\ p[i].pdu = j[i].pdu
                          /\ p[i].op = "leave" => j[i].op = "leave" /\ i # 1
                          /\ j[i].op = "exit" => p[i].op = "exit"
                          /\ p[i].op = "enter" => j[i].op = "enter"
  <2> TAKE i \in DOMAIN j
  <2>1. CASE i = 1 BY <2>1 DEF DataStep, Writing
  <2>2. CASE i # 1
    <3>1. p[i] = j[i] BY <2>2
    <3> QED BY <2>2, <3>1
  <2> QED BY <2>1, <2>2
<1>2. \A i \in DOMAIN j, h \in DOMAIN j : Follows(j[i], j[h]) => Follows(p[i], p[h])
  BY <1>1, Zenon DEF Follows
<1>3. ASSUME NEW i \in DOMAIN p PROVE InOrderAt(t, p, l, i)
  <2>1. InOrderAt(t, j, l, i) /\ i \in DOMAIN j BY <1>3, Zenon DEF InOrder
  <2>2. j[1].op # "enter" OBVIOUS
  <2>3. i > 1 => p[i].op # "enter" BY <1>1, <2>1, Zenon DEF InOrderAt
  <2>4. p[i].op = "leave" => \A k \in DOMAIN p : k > i => p[k].op = "exit"
    BY <1>1, <2>1, Zenon DEF InOrderAt
  <2>5. DataStep(p[i]) /\ p[i].pdu.part < p[i].pdu.parts => i + 1 \in DOMAIN p /\ Follows(p[i], p[i + 1])
    BY <1>1, <1>2, <2>1, Zenon DEF InOrderAt
  <2>6. ASSUME DataStep(p[i]), p[i].pdu.part = 2, i > 1 PROVE Follows(p[i - 1], p[i])
    <3>1. Follows(j[i - 1], j[i]) BY <1>1, <2>1, <2>6, Zenon DEF InOrderAt
    <3>2. i - 1 \in DOMAIN j BY <1>3, <2>6
    <3> QED BY <1>2, <2>1, <3>1, <3>2, Zenon
  <2>7. DataStep(p[i]) \/ p[i].op = "leave" =>
          p[i].pdu.ch \in ChannelIds /\ l[p[i].pdu.ch] = t
    BY <1>1, <2>1, <2>2, Zenon DEF InOrderAt
  <2> QED BY <2>3, <2>4, <2>5, <2>6, <2>7, Zenon DEF InOrderAt
<1> QED BY <1>3, Zenon DEF InOrder

\* the program that writes a message is in order
LEMMA WriteOrder ==
    ASSUME connection \in Nat, NEW c \in ChannelIds, NEW m \in Nat, NEW n \in 1..2,
           NEW p, p = dvcman_write_channel(c, m, n), NEW t, NEW l
    PROVE  p \in Seq(Steps) /\ p # <<>> /\ p[1].op = "enter" /\ InOrder(t, p, l)
<1>1. PICK s : s = Simple("DATA", c) OBVIOUS
<1>2. /\ p \in Seq(Steps) /\ Len(p) = n + 2 /\ DOMAIN p = 1..(n + 2)
      /\ p[1] = Op("enter", s) /\ p[n + 2] = Op("leave", s)
      /\ \A i \in 1..n : p[i + 1] = Write(Piece(c, m, i, n))
  BY <1>1, WriteSteps, Zenon
<1>3. s.ch = c BY <1>1, SimpleFields
<1>4. /\ p[1].op = "enter" /\ p[1].pdu.ch = c /\ ~DataStep(p[1])
      /\ p[n + 2].op = "leave" /\ p[n + 2].pdu.ch = c /\ ~DataStep(p[n + 2])
  BY <1>2, <1>3, OpFields DEF DataStep, Writing
<1>5. \A i \in 1..n : /\ p[i + 1].op = "write" /\ DataStep(p[i + 1])
                      /\ p[i + 1].pdu.ch = c /\ p[i + 1].pdu.msg = m
                      /\ p[i + 1].pdu.part = i /\ p[i + 1].pdu.parts = n
  <2> TAKE i \in 1..n
  <2>1. PICK q : q = Piece(c, m, i, n) OBVIOUS
  <2>2. p[i + 1].op = "write" /\ p[i + 1].pdu = q BY <1>2, <2>1, OpFields
  <2>3. /\ q.type \in {"DATA_FIRST", "DATA"} /\ q.ch = c /\ q.msg = m /\ q.part = i /\ q.parts = n
    BY <2>1, PieceFields
  <2> QED BY <2>2, <2>3 DEF DataStep, Writing, IsData
<1>6. \A i \in 1..(n + 2) : i = 1 \/ i = n + 2 \/ \E k \in 1..n : i = k + 1
  <2> TAKE i \in 1..(n + 2)
  <2>1. i # 1 /\ i # n + 2 => i - 1 \in 1..n /\ i = (i - 1) + 1 OBVIOUS
  <2> QED BY <2>1
<1>7. n = 2 => Follows(p[1 + 1], p[2 + 1])
  <2> HAVE n = 2
  <2>1. 1 \in 1..n /\ 2 \in 1..n /\ 1 < n OBVIOUS
  <2>2. p[1 + 1].pdu.part < p[1 + 1].pdu.parts BY <1>5, <2>1
  <2>3. DataStep(p[1 + 1]) /\ p[1 + 1].pdu.ch = c /\ p[1 + 1].pdu.msg = m BY <1>5, <2>1, Zenon
  <2>4. /\ DataStep(p[2 + 1]) /\ p[2 + 1].pdu.ch = c /\ p[2 + 1].pdu.msg = m
        /\ p[2 + 1].pdu.part = 2
    BY <1>5, <2>1, Zenon
  <2> QED BY <2>2, <2>3, <2>4 DEF Follows
<1>8. InOrderAt(t, p, l, 1)
  <2>1. ~(1 > 1) /\ p[1].op # "leave" BY <1>4
  <2> QED BY <1>4, <2>1, Zenon DEF InOrderAt
<1>9. InOrderAt(t, p, l, n + 2)
  <2>1. n + 2 > 1 /\ p[n + 2].op # "enter" /\ \A k \in DOMAIN p : ~(k > n + 2) BY <1>2, <1>4
  <2> QED BY <1>4, <2>1, Zenon DEF InOrderAt
<1>10. ASSUME NEW k \in 1..n PROVE InOrderAt(t, p, l, k + 1)
  <2>1. k + 1 > 1 /\ p[k + 1].op # "enter" /\ p[k + 1].op # "leave" BY <1>5
  <2>2. ASSUME p[k + 1].pdu.part < p[k + 1].pdu.parts
        PROVE  (k + 1) + 1 \in DOMAIN p /\ Follows(p[k + 1], p[(k + 1) + 1])
    <3>1. k < n BY <1>5, <2>2, Zenon
    <3>2. k = 1 /\ n = 2 /\ (k + 1) + 1 = 2 + 1 BY <3>1
    <3>3. 2 + 1 \in DOMAIN p BY <1>2, <3>2
    <3> QED BY <1>7, <3>2, <3>3
  <2>3. ASSUME p[k + 1].pdu.part = 2 PROVE Follows(p[(k + 1) - 1], p[k + 1])
    <3>1. k = 2 BY <1>5, <2>3, Zenon
    <3>2. n = 2 /\ (k + 1) - 1 = 1 + 1 /\ k + 1 = 2 + 1 BY <3>1
    <3> QED BY <1>7, <3>2
  <2>4. p[k + 1].pdu.ch = c BY <1>5
  <2> QED BY <1>4, <2>1, <2>2, <2>3, <2>4, Zenon DEF InOrderAt
<1>11. InOrder(t, p, l) BY <1>2, <1>6, <1>8, <1>9, <1>10, Zenon DEF InOrder
<1>12. p # <<>> BY <1>2
<1> QED BY <1>2, <1>4, <1>11, <1>12

\* a step that fails leaves the channel it is in
LEMMA FailingOrder ==
    ASSUME IInv, NEW t \in Threads, InOrder(t, job[t], lock),
           job[t] # <<>> => job[t][1].op # "enter", NEW p, p = Failing(t)
    PROVE  /\ InOrder(t, p, lock)
           /\ \A i \in DOMAIN p : ~DataStep(p[i]) /\ p[i].op # "post"
<1>1. PICK j : j = job[t] OBVIOUS
<1>2. j \in Seq(Steps) BY <1>1 DEF IInv, TypeOK
<1>3. PICK e : e = Op("exit", Simple("CLOSED", "none")) OBVIOUS
<1>4. e.op = "exit" BY <1>3, OpFields
<1>5. PICK l : l = j[Len(j)] OBVIOUS
<1>6. PICK a : a = IF j # <<>> /\ l.op = "leave" THEN <<l>> ELSE <<>> OBVIOUS
<1>7. PICK b : b = IF t = "drdynvc" THEN <<e>> ELSE <<>> OBVIOUS
<1>8. p = a \o b BY <1>1, <1>3, <1>5, <1>6, <1>7, Zenon DEF Failing
<1>9. a = <<>> \/ (a = <<l>> /\ j # <<>> /\ l.op = "leave") BY <1>6, Zenon
<1>10. b = <<>> \/ b = <<e>> BY <1>7, Zenon
<1>11. \A i \in DOMAIN p : p[i] = e \/ (i = 1 /\ p[i] = l /\ j # <<>> /\ l.op = "leave")
  <2>1. CASE a = <<>> /\ b = <<>> BY <1>8, <2>1
  <2>2. CASE a = <<>> /\ b = <<e>> BY <1>8, <2>2
  <2>3. CASE (a = <<l>> /\ j # <<>> /\ l.op = "leave") /\ b = <<>> BY <1>8, <2>3
  <2>4. CASE (a = <<l>> /\ j # <<>> /\ l.op = "leave") /\ b = <<e>> BY <1>8, <2>4
  <2> QED BY <1>9, <1>10, <2>1, <2>2, <2>3, <2>4, Zenon
<1>12. j # <<>> => Len(j) \in DOMAIN j BY <1>2, EmptySeq
<1>13. j # <<>> /\ l.op = "leave" => l.pdu.ch \in ChannelIds /\ lock[l.pdu.ch] = t
  BY <1>1, <1>5, <1>12, Zenon DEF InOrder, InOrderAt
<1>14. \A i \in DOMAIN p : /\ ~DataStep(p[i]) /\ p[i].op # "post" /\ p[i].op # "enter"
                           /\ p[i].op = "leave" => p[i] = l /\ j # <<>> /\ i = 1
                           /\ i # 1 => p[i].op = "exit"
  BY <1>4, <1>11 DEF DataStep, Writing
<1>15. \A i \in DOMAIN p : i > 1 => i # 1 OBVIOUS
<1>16. ASSUME NEW i \in DOMAIN p PROVE InOrderAt(t, p, lock, i)
  <2>1. p[i].op = "leave" => \A k \in DOMAIN p : k > i => p[k].op = "exit"
    BY <1>14, <1>15, Zenon
  <2>2. p[i].op = "leave" => p[i].pdu.ch \in ChannelIds /\ lock[p[i].pdu.ch] = t
    BY <1>13, <1>14, Zenon
  <2> QED BY <1>14, <2>1, <2>2, Zenon DEF InOrderAt
<1> QED BY <1>14, <1>16, Zenon DEF InOrder

\* one thread goes on, in order, and takes no lock from the other
LEMMA HeldMove ==
    ASSUME IInv, HeldOK, NEW t \in Threads, NEW p, job' = [job EXCEPT ![t] = p],
           InOrder(t, p, lock'),
           \A s \in Threads : \A c \in ChannelIds : s # t /\ lock[c] = s => lock'[c] = s
    PROVE  HeldOK' /\ job'[t] = p /\ \A s \in Threads : s # t => job'[s] = job[s]
<1>1. job \in [Threads -> Seq(Steps)] BY Zenon DEF IInv, TypeOK
<1>2. job'[t] = p /\ \A s \in Threads : s # t => job'[s] = job[s] BY <1>1
<1>3. \A s \in Threads : InOrder(s, job'[s], lock')
  <2> TAKE s \in Threads
  <2>1. CASE s = t BY <1>2, <2>1, Zenon
  <2>2. CASE s # t
    <3>1. InOrder(s, job[s], lock) BY Zenon DEF HeldOK
    <3>2. \A c \in ChannelIds : lock[c] = s => lock'[c] = s BY <2>2, Zenon
    <3>3. InOrder(s, job[s], lock') BY <3>1, <3>2, OthersOrder, Zenon
    <3> QED BY <1>2, <2>2, <3>3, Zenon
  <2> QED BY <2>1, <2>2
<1> QED BY <1>2, <1>3, Zenon DEF HeldOK

-----------------------------------------------------------------------------
(* What the steps of a program do to the order of the programs.              *)

\* a thread whose next step writes no piece; a program that begins with neither
\* a second piece nor a post
Idle(j) == j = <<>> \/ ~DataStep(j[1])
Starts(j) == j # <<>> => j[1].op # "post" /\ ~(DataStep(j[1]) /\ j[1].pdu.part = 2)

\* what t can do that matters to the pieces: nothing, test, fail, or post
Quiet(t) == Idle(job[t]) /\ Starts(job'[t])
Tested(t) ==
    /\ connected /\ job[t] # <<>> /\ job'[t] # <<>> /\ job[t][1].op = "write"
    /\ job'[t][1].op = "post" /\ job'[t][1].pdu = job[t][1].pdu
Failed(t) ==
    /\ ~connected /\ job[t] # <<>> /\ job[t][1].op = "write"
    /\ Idle(job'[t]) /\ Starts(job'[t])
Posted(t) ==
    /\ PostWrite(t)
    /\ job'[t] # <<>> => job'[t][1].op # "post"
    /\ job'[t] # <<>> /\ DataStep(job'[t][1]) /\ job'[t][1].pdu.part = 2 => Follows(job[t][1], job'[t][1])
    /\ DataStep(job[t][1]) /\ job[t][1].pdu.part < job[t][1].pdu.parts =>
         job'[t] # <<>> /\ Follows(job[t][1], job'[t][1])

\* a first piece of two is followed by the second
LEMMA TailFollows ==
    ASSUME NEW t, NEW j \in Seq(Steps), j # <<>>, NEW l, InOrder(t, j, l), NEW u, u = Tail(j),
           DataStep(j[1]), j[1].pdu.part < j[1].pdu.parts
    PROVE  u # <<>> /\ Follows(j[1], u[1])
<1>1. 1 \in DOMAIN j BY EmptySeq
<1>2. 1 + 1 \in DOMAIN j /\ Follows(j[1], j[1 + 1]) BY <1>1, Zenon DEF InOrder, InOrderAt
<1>3. Len(u) \in Nat /\ Len(u) = Len(j) - 1 /\ \A i \in 1..Len(u) : u[i] = j[i + 1]
  BY HeadTailProperties
<1>4. 1 \in 1..Len(u) BY <1>2, <1>3
<1>5. u[1] = j[1 + 1] BY <1>3, <1>4, Zenon
<1>6. u # <<>>
  <2>1. Len(<<>>) = 0 OBVIOUS
  <2> QED BY <1>4, <2>1
<1> QED BY <1>2, <1>5, <1>6

\* a program without posts and pieces
LEMMA PlainStarts ==
    ASSUME NEW p \in Seq(Steps), \A i \in DOMAIN p : ~DataStep(p[i]) /\ p[i].op # "post"
    PROVE  Idle(p) /\ Starts(p)
<1>1. p # <<>> => 1 \in DOMAIN p BY EmptySeq
<1> QED BY <1>1, Zenon DEF Idle, Starts

\* a step that is done and did not write
LEMMA TailHeld ==
    ASSUME IInv, JobsOK, HeldOK, NEW t \in Threads, NEW o, Runs(t, o), o \notin Writing,
           job' = [job EXCEPT ![t] = Tail(job[t])],
           LocksKept(t, job[t][1], lock, lock'),
           \A s \in Threads : \A c \in ChannelIds : s # t /\ lock[c] = s => lock'[c] = s
    PROVE  HeldOK' /\ (\A s \in Threads : s # t => job'[s] = job[s]) /\ Quiet(t)
<1>1. PICK j : j = job[t] OBVIOUS
<1>2. PICK u : u = Tail(j) OBVIOUS
<1>3. j # <<>> /\ j[1].op = o
  <2>1. job[t] # <<>> /\ Head(job[t]).op = o /\ Head(job[t]) = job[t][1] BY HeadStep
  <2> QED BY <1>1, <2>1
<1>4. j \in Seq(Steps) BY <1>1 DEF IInv, TypeOK
<1>5. InOrder(t, j, lock) /\ StepsOK(t, j) BY <1>1, Zenon DEF HeldOK, JobsOK
<1>6. /\ InOrder(t, u, lock')
      /\ u # <<>> /\ DataStep(u[1]) /\ u[1].pdu.part = 2 => Follows(j[1], u[1])
  BY <1>1, <1>2, <1>3, <1>4, <1>5, TailOrder, Zenon
<1>7. u \in Seq(Steps) /\ NoPost(u) BY <1>2, <1>3, <1>4, <1>5, TailSteps, Zenon
<1>8. u # <<>> => 1 \in DOMAIN u BY <1>7, EmptySeq
<1>9. ~DataStep(j[1]) BY <1>3, Zenon DEF DataStep
<1>10. Idle(j) /\ Starts(u) BY <1>6, <1>7, <1>8, <1>9, Zenon DEF Idle, Starts, NoPost, Follows
<1>11. job' = [job EXCEPT ![t] = u] BY <1>1, <1>2, Zenon
<1>12. HeldOK' /\ job'[t] = u /\ \A s \in Threads : s # t => job'[s] = job[s]
  BY <1>6, <1>11, HeldMove, Zenon
<1> QED BY <1>1, <1>10, <1>12, Zenon DEF Quiet

\* a thread that posts
LEMMA PostHeld ==
    ASSUME IInv, JobsOK, HeldOK, NEW t \in Threads, PostWrite(t)
    PROVE  HeldOK' /\ (\A s \in Threads : s # t => job'[s] = job[s]) /\ Posted(t)
<1>1. PICK j : j = job[t] OBVIOUS
<1>2. PICK u : u = Tail(j) OBVIOUS
<1>3. Runs(t, "post") /\ lock' = lock /\ job' = [job EXCEPT ![t] = u]
  BY <1>1, <1>2, Zenon DEF PostWrite, Goes
<1>4. j # <<>> /\ j[1].op = "post" BY <1>1, <1>3, HeadStep, Zenon
<1>5. j \in Seq(Steps) BY <1>1 DEF IInv, TypeOK
<1>6. InOrder(t, j, lock) /\ StepsOK(t, j) BY <1>1, Zenon DEF HeldOK, JobsOK
<1>7. LocksKept(t, j[1], lock, lock') BY <1>3, <1>4 DEF LocksKept
<1>8. /\ InOrder(t, u, lock')
      /\ u # <<>> /\ DataStep(u[1]) /\ u[1].pdu.part = 2 => Follows(j[1], u[1])
  BY <1>2, <1>3, <1>4, <1>5, <1>6, <1>7, TailOrder, Zenon
<1>9. DataStep(j[1]) /\ j[1].pdu.part < j[1].pdu.parts => u # <<>> /\ Follows(j[1], u[1])
  BY <1>2, <1>4, <1>5, <1>6, TailFollows, Zenon
<1>10. u \in Seq(Steps) /\ NoPost(u) BY <1>2, <1>4, <1>5, <1>6, TailSteps, Zenon
<1>11. u # <<>> => 1 \in DOMAIN u BY <1>10, EmptySeq
<1>12. u # <<>> => u[1].op # "post" BY <1>10, <1>11, Zenon DEF NoPost
<1>13. HeldOK' /\ job'[t] = u /\ \A s \in Threads : s # t => job'[s] = job[s]
  BY <1>3, <1>8, HeldMove, Zenon
<1> QED BY <1>1, <1>8, <1>9, <1>12, <1>13, Zenon DEF Posted

\* FreeRDP_VirtualChannelWrite's tests: they hold only while connected, and fail
\* only when not
LEMMA CheckHeld ==
    ASSUME IInv, JobsOK, HeldOK, LateOK, main = "loop" => open, NEW t \in Threads, CheckWrite(t)
    PROVE  /\ HeldOK' /\ (\A s \in Threads : s # t => job'[s] = job[s])
           /\ Tested(t) \/ Failed(t)
<1>1. PICK j : j = job[t] OBVIOUS
<1>2. PICK u : u = Tail(j) OBVIOUS
<1>3. PICK h : h = j[1] OBVIOUS
<1>4. Runs(t, "write") /\ lock' = lock BY Zenon DEF CheckWrite
<1>5. /\ j \in Seq(Steps) /\ j # <<>> /\ h \in Steps /\ h.op = "write" /\ h.pdu \in Pdus
      /\ 1 \in DOMAIN j /\ Head(j) = h
  <2>1. /\ job[t] \in Seq(Steps) /\ job[t] # <<>> /\ Head(job[t]) \in Steps
        /\ Head(job[t]).op = "write" /\ Head(job[t]).pdu \in Pdus
        /\ 1 \in DOMAIN job[t] /\ Head(job[t]) = job[t][1]
    BY <1>4, HeadStep, Zenon
  <2> QED BY <1>1, <1>3, <2>1, Zenon
<1>6. InOrder(t, j, lock) BY <1>1, Zenon DEF HeldOK
<1>7. \A s \in Threads : \A c \in ChannelIds : s # t /\ lock[c] = s => lock'[c] = s BY <1>4, Zenon
<1>8. CASE connected /\ open
  <2>1. PICK o : o = Op("post", h.pdu) OBVIOUS
  <2>2. o \in Steps /\ o.op = "post" /\ o.pdu = h.pdu BY <1>5, <2>1, OpType DEF Ops
  <2>3. PICK p : p = <<o>> \o u OBVIOUS
  <2>4. job' = [job EXCEPT ![t] = p] BY <1>1, <1>2, <1>5, <1>8, <2>1, <2>3, Zenon DEF CheckWrite, Goes
  <2>5. PICK n \in Nat : n = Len(j) BY <1>5, LenProperties
  <2>6. n > 0 /\ u \in Seq(Steps) /\ Len(u) = n - 1 /\ \A i \in 1..(n - 1) : u[i] = j[i + 1]
    BY <1>2, <1>5, <2>5, EmptySeq, HeadTailProperties
  <2>7. Len(p) = n /\ p \in Seq(Steps) BY <2>2, <2>3, <2>6
  <2>8. \A i \in 1..n : p[i] = IF i = 1 THEN o ELSE u[i - 1] BY <2>2, <2>3, <2>6
  <2>9. DOMAIN p = 1..n /\ DOMAIN j = 1..n BY <1>5, <2>5, <2>7
  <2>10. \A i \in DOMAIN j : i # 1 => p[i] = j[i]
    <3> SUFFICES ASSUME NEW i \in 1..n, i # 1 PROVE p[i] = j[i] BY <2>9, Zenon
    <3>1. i - 1 \in 1..(n - 1) /\ (i - 1) + 1 = i OBVIOUS
    <3>2. u[i - 1] = j[i] BY <2>6, <3>1
    <3> QED BY <2>8, <3>2
  <2>11. p[1] = o /\ p # <<>>
    <3>1. 1 \in 1..n BY <2>6
    <3>2. p[1] = o BY <2>8, <3>1
    <3>3. Len(<<>>) = 0 OBVIOUS
    <3>4. p # <<>> BY <2>6, <2>7, <3>3
    <3> QED BY <3>2, <3>4
  <2>12. InOrder(t, p, lock')
    <3>1. p[1].op = "post" /\ p[1].pdu = j[1].pdu /\ j[1].op = "write" BY <1>3, <1>5, <2>2, <2>11
    <3>2. InOrder(t, p, lock) BY <1>5, <1>6, <2>9, <2>10, <3>1, SameOrder, Zenon
    <3> QED BY <1>4, <3>2, Zenon
  <2>13. HeldOK' /\ job'[t] = p /\ \A s \in Threads : s # t => job'[s] = job[s]
    BY <1>7, <2>4, <2>12, HeldMove, Zenon
  <2>14. Tested(t)
    BY <1>1, <1>3, <1>5, <1>8, <2>2, <2>11, <2>13, Zenon DEF Tested
  <2> QED BY <2>13, <2>14
<1>9. CASE ~(connected /\ open)
  <2>1. PICK p : p = Failing(t) OBVIOUS
  <2>2. job' = [job EXCEPT ![t] = p] BY <1>9, <2>1, Zenon DEF CheckWrite, Goes
  <2>3. job[t] # <<>> => job[t][1].op # "enter" BY <1>1, <1>3, <1>5
  <2>4. /\ InOrder(t, p, lock)
        /\ \A i \in DOMAIN p : ~DataStep(p[i]) /\ p[i].op # "post"
    BY <1>1, <1>6, <2>1, <2>3, FailingOrder, Zenon
  <2>5. p \in Seq(Steps) BY <2>1, FailingOK, Zenon
  <2>6. Idle(p) /\ Starts(p) BY <2>4, <2>5, PlainStarts, Zenon
  <2>7. InOrder(t, p, lock') BY <1>4, <2>4, Zenon
  <2>8. HeldOK' /\ job'[t] = p /\ \A s \in Threads : s # t => job'[s] = job[s]
    BY <1>7, <2>2, <2>7, HeldMove, Zenon
  <2>9. ~connected
    <3>1. main \in {"idle", "loop", "flush", "join", "free", "closed", "late write"}
      BY Zenon DEF IInv, TypeOK
    <3>2. main \notin {"idle", "closed", "late write"} BY <1>1, <1>5, Running, Zenon
    <3>3. main \in {"flush", "join", "free", "idle", "late write"} => ~connected
      BY Zenon DEF LateOK
    <3>4. main = "loop" \/ main \in {"flush", "join", "free", "idle", "late write"} BY <3>1, <3>2
    <3> QED BY <1>9, <3>3, <3>4, Zenon
  <2>10. Failed(t) BY <1>1, <1>3, <1>5, <2>6, <2>8, <2>9, Zenon DEF Failed
  <2> QED BY <2>8, <2>10
<1> QED BY <1>8, <1>9

\* a thread goes on with a program that writes no data
LEMMA PlainHeld ==
    ASSUME IInv, HeldOK, NEW t \in Threads, lock' = lock, Idle(job[t]),
           NEW p \in Seq(Steps), job' = [job EXCEPT ![t] = p],
           \A i \in DOMAIN p : ~DataStep(p[i]) /\ p[i].op \notin {"post", "enter", "leave"}
    PROVE  HeldOK' /\ (\A s \in Threads : s # t => job'[s] = job[s]) /\ Quiet(t)
<1>1. \A i \in DOMAIN p : ~DataStep(p[i]) /\ p[i].op # "post" OBVIOUS
<1>2. \A i \in DOMAIN p : ~DataStep(p[i]) /\ p[i].op \notin {"enter", "leave"} OBVIOUS
<1>3. Starts(p) BY <1>1, PlainStarts, Zenon
<1>4. InOrder(t, p, lock') BY <1>2, PlainOrder, Zenon
<1>5. \A s \in Threads : \A c \in ChannelIds : s # t /\ lock[c] = s => lock'[c] = s BY Zenon
<1>6. HeldOK' /\ job'[t] = p /\ \A s \in Threads : s # t => job'[s] = job[s]
  BY <1>4, <1>5, HeldMove, Zenon
<1> QED BY <1>3, <1>6, Zenon DEF Quiet

\* a step that tells the server something else than data
LEMMA AnswerPlain ==
    ASSUME NEW ty, ty \notin {"DATA_FIRST", "DATA"}, NEW c, NEW a, a = Write(Simple(ty, c))
    PROVE  ~DataStep(a) /\ a.op \notin {"post", "enter", "leave"}
<1>1. a.op = "write" /\ a.pdu = Simple(ty, c) BY OpFields
<1>2. a.pdu.type = ty BY <1>1, SimpleFields
<1> QED BY <1>1, <1>2 DEF DataStep, IsData

\* a step that tells the server nothing
LEMMA OpPlain ==
    ASSUME NEW o \in {"create", "open", "close", "exit"}, NEW q, NEW a, a = Op(o, q)
    PROVE  ~DataStep(a) /\ a.op \notin {"post", "enter", "leave"}
<1>1. a.op = o BY OpFields
<1> QED BY <1>1 DEF DataStep, Writing

\* dvcman_create_channel
LEMMA CreateHeld ==
    ASSUME IInv, HeldOK, NEW t \in Threads, CreateChannel(t)
    PROVE  HeldOK' /\ (\A s \in Threads : s # t => job'[s] = job[s]) /\ Quiet(t)
<1>1. PICK q : q = Head(job[t]).pdu OBVIOUS
<1>2. Runs(t, "create") /\ lock' = lock BY Zenon DEF CreateChannel
<1>3. q \in Pdus BY <1>1, <1>2, HeadStep, Zenon
<1>4. Head(job[t]) = job[t][1] /\ Head(job[t]).op = "create" BY <1>2, HeadStep, Zenon
<1>5. Idle(job[t]) BY <1>4 DEF Idle, DataStep, Writing
<1>6. PICK ty \in {"CREATED", "NOT_CREATED"}, o \in {"open", "close"} :
          job' = [job EXCEPT ![t] = <<Write(Simple(ty, q.ch)), Op(o, q)>>]
  BY <1>1, Zenon DEF CreateChannel, Goes
<1>7. PICK a : a = Write(Simple(ty, q.ch)) OBVIOUS
<1>8. PICK b : b = Op(o, q) OBVIOUS
<1>9. PICK p : p = <<a, b>> OBVIOUS
<1>10. connection \in Nat BY Zenon DEF IInv, TypeOK
<1>11. a \in Steps
  <2>1. q.ch \in ChannelIds \cup {"none"} /\ ty \in ClientTypes BY <1>3 DEF Pdus, ClientTypes
  <2> QED BY <1>7, <1>10, <2>1, OwnAnswer, Zenon
<1>12. b \in Steps BY <1>3, <1>8, OpType DEF Ops
<1>13. p \in Seq(Steps) /\ \A i \in DOMAIN p : p[i] = a \/ p[i] = b BY <1>9, <1>11, <1>12, TwoSteps
<1>14. ty \notin {"DATA_FIRST", "DATA"} /\ o \in {"create", "open", "close", "exit"} OBVIOUS
<1>15. ~DataStep(a) /\ a.op \notin {"post", "enter", "leave"} BY <1>7, <1>14, AnswerPlain, Zenon
<1>16. ~DataStep(b) /\ b.op \notin {"post", "enter", "leave"} BY <1>8, <1>14, OpPlain, Zenon
<1>17. \A i \in DOMAIN p : ~DataStep(p[i]) /\ p[i].op \notin {"post", "enter", "leave"}
  BY <1>13, <1>15, <1>16, Zenon
<1>18. job' = [job EXCEPT ![t] = p] BY <1>6, <1>7, <1>8, <1>9, Zenon
<1> QED BY <1>2, <1>5, <1>13, <1>17, <1>18, PlainHeld, Zenon

\* the critical section of a channel is entered and left
LEMMA LockHeld ==
    ASSUME IInv, JobsOK, HeldOK, NEW t \in Threads, EnterChannel(t) \/ LeaveChannel(t)
    PROVE  HeldOK' /\ (\A s \in Threads : s # t => job'[s] = job[s]) /\ Quiet(t)
<1>1. PICK c : c = Head(job[t]).pdu.ch OBVIOUS
<1>2. lock \in [ChannelIds -> Threads \cup {"none"}] BY Zenon DEF IInv, TypeOK
<1>3. t # "none" /\ \A s \in Threads : s # "none" BY DEF Threads
<1>4. job' = [job EXCEPT ![t] = Tail(job[t])] BY Zenon DEF EnterChannel, LeaveChannel, Goes
<1>5. CASE EnterChannel(t)
  <2>1. Runs(t, "enter") /\ lock[c] = "none" /\ lock' = [lock EXCEPT ![c] = t]
    BY <1>1, <1>5, Zenon DEF EnterChannel
  <2>2. "enter" \in InChannel \cup {"create"} BY DEF InChannel
  <2>3. c \in ChannelIds /\ job[t][1].pdu.ch = c BY <1>1, <2>1, <2>2, HeadStep, Zenon
  <2>4. lock'[c] = t /\ \A d \in ChannelIds : d # c => lock'[d] = lock[d] BY <1>2, <2>1, <2>3
  <2>5. LocksKept(t, job[t][1], lock, lock') BY <2>3, <2>4, Zenon DEF LocksKept
  <2>6. \A s \in Threads : \A d \in ChannelIds : s # t /\ lock[d] = s => lock'[d] = s
    BY <1>3, <2>1, <2>4, Zenon
  <2>7. "enter" \notin Writing BY DEF Writing
  <2> QED BY <1>4, <2>1, <2>5, <2>6, <2>7, TailHeld
<1>6. CASE LeaveChannel(t)
  <2>1. Runs(t, "leave") /\ lock' = [lock EXCEPT ![c] = "none"]
    BY <1>1, <1>6, Zenon DEF LeaveChannel
  <2>2. 1 \in DOMAIN job[t] /\ job[t][1].op = "leave" /\ job[t][1].pdu.ch = c
    BY <1>1, <2>1, HeadStep, Zenon
  <2>3. InOrderAt(t, job[t], lock, 1) BY <2>2, Zenon DEF HeldOK, InOrder
  <2>4. ~(1 > 1) OBVIOUS
  <2>5. c \in ChannelIds /\ lock[c] = t BY <2>2, <2>3, <2>4, Zenon DEF InOrderAt
  <2>6. \A d \in ChannelIds : d # c => lock'[d] = lock[d] BY <1>2, <2>1, <2>5
  <2>7. \A s \in Threads : \A d \in ChannelIds : s # t /\ lock[d] = s => lock'[d] = s
    BY <2>5, <2>6, Zenon
  <2>8. "leave" \notin Writing BY DEF Writing
  <2>9. LocksKept(t, job[t][1], lock, lock') BY <2>2, Zenon DEF LocksKept
  <2> QED BY <1>4, <2>1, <2>7, <2>8, <2>9, TailHeld
<1> QED BY <1>5, <1>6

\* every step of a program keeps the order of the programs
LEMMA StepHeld ==
    ASSUME IInv, JobsOK, HeldOK, LateOK, main = "loop" => open, NEW t \in Threads, Step(t)
    PROVE  /\ HeldOK' /\ (\A s \in Threads : s # t => job'[s] = job[s])
           /\ Quiet(t) \/ Tested(t) \/ Failed(t) \/ Posted(t)
<1>1. CASE CheckWrite(t) BY <1>1, CheckHeld, Zenon
<1>2. CASE PostWrite(t) BY <1>2, PostHeld, Zenon
<1>3. CASE EnterChannel(t) \/ LeaveChannel(t) BY <1>3, LockHeld, Zenon
<1>4. CASE CreateChannel(t) BY <1>4, CreateHeld, Zenon
<1>5. CASE OpenChannel(t)
  <2>1. Runs(t, "open") /\ lock' = lock /\ job' = [job EXCEPT ![t] = Tail(job[t])]
    BY <1>5, Zenon DEF OpenChannel, Goes
  <2>2. "open" \notin Writing /\ "open" # "enter" BY DEF Writing
  <2>3. job[t][1].op = "open" BY <2>1, HeadStep, Zenon
  <2>4. LocksKept(t, job[t][1], lock, lock') BY <2>1, <2>2, <2>3, Zenon DEF LocksKept
  <2> QED BY <2>1, <2>2, <2>4, TailHeld
<1>6. CASE CloseChannel(t)
  <2>1. Runs(t, "close") /\ lock' = lock /\ job' = [job EXCEPT ![t] = Tail(job[t])]
    BY <1>6, Zenon DEF CloseChannel, Goes
  <2>2. "close" \notin Writing /\ "close" # "enter" BY DEF Writing
  <2>3. job[t][1].op = "close" BY <2>1, HeadStep, Zenon
  <2>4. LocksKept(t, job[t][1], lock, lock') BY <2>1, <2>2, <2>3, Zenon DEF LocksKept
  <2> QED BY <2>1, <2>2, <2>4, TailHeld
<1>7. CASE ExitThread(t)
  <2>1. Runs(t, "exit") /\ lock' = lock /\ job' = [job EXCEPT ![t] = <<>>]
    BY <1>7, Zenon DEF ExitThread, Goes
  <2>2. Head(job[t]) = job[t][1] /\ Head(job[t]).op = "exit" BY <2>1, HeadStep, Zenon
  <2>3. Idle(job[t]) BY <2>2 DEF Idle, DataStep, Writing
  <2>4. <<>> \in Seq(Steps) /\ DOMAIN <<>> = {} OBVIOUS
  <2> QED BY <2>1, <2>3, <2>4, PlainHeld, Zenon
<1> QED BY <1>1, <1>2, <1>3, <1>4, <1>5, <1>6, <1>7, Zenon DEF Step

-----------------------------------------------------------------------------
(* What a write does to the stream.                                          *)

\* the i-th piece of s, on c, stands as it should
PairedAt(s, c, i) ==
    /\ s[i].part = 2 =>
         \E j \in 1..(i - 1) :
            /\ OwnData(s[j], c) /\ s[j].part = 1 /\ s[j].msg = s[i].msg
            /\ \A k \in (j + 1)..(i - 1) : ~OwnData(s[k], c)
    /\ \A j \in 1..(i - 1) :
         (/\ OwnData(s[j], c) /\ s[j].part < s[j].parts
          /\ \A k \in (j + 1)..(i - 1) : ~OwnData(s[k], c))
         => s[i].msg = s[j].msg

PiecesIn(s) == \A c \in ChannelIds : \A i \in 1..Len(s) : OwnData(s[i], c) => PairedAt(s, c, i)

\* the elements of a longer sequence
LEMMA Longer ==
    ASSUME NEW s \in Seq(Written), NEW w \in Written, NEW r, r = Append(s, w)
    PROVE  /\ r \in Seq(Written) /\ Len(s) \in Nat /\ Len(r) = Len(s) + 1
           /\ r[Len(s) + 1] = w /\ \A i \in 1..Len(s) : r[i] = s[i]
BY AppendProperties, LenProperties

\* something else than data on c is written: what is open on c stays so
LEMMA OpenStays ==
    ASSUME NEW s \in Seq(Written), NEW w \in Written, NEW r, r = Append(s, w), NEW c,
           ~OwnData(w, c), NEW m
    PROVE  OpenIn(r, c, m) <=> OpenIn(s, c, m)
<1>1. PICK n \in Nat : n = Len(s) BY LenProperties
<1>2. Len(r) = n + 1 /\ r[n + 1] = w /\ \A i \in 1..n : r[i] = s[i] BY <1>1, Longer
<1>3. ASSUME NEW j \in 1..(n + 1), LastOpen(r, c, j), r[j].msg = m PROVE OpenIn(s, c, m)
  <2>1. OwnData(r[j], c) BY <1>3, Zenon DEF LastOpen
  <2>2. j # n + 1 BY <1>2, <2>1
  <2>3. j \in 1..n BY <2>2
  <2>4. r[j] = s[j] BY <1>2, <2>3
  <2>5. \A k \in (j + 1)..n : k \in (j + 1)..(n + 1) /\ k \in 1..n BY <2>3
  <2>6. \A k \in (j + 1)..n : ~OwnData(s[k], c)
    <3> TAKE k \in (j + 1)..n
    <3>1. ~OwnData(r[k], c) BY <1>2, <1>3, <2>5, Zenon DEF LastOpen
    <3> QED BY <1>2, <2>5, <3>1, Zenon
  <2>7. LastOpen(s, c, j) /\ s[j].msg = m BY <1>1, <1>3, <2>4, <2>6, Zenon DEF LastOpen
  <2> QED BY <1>1, <2>3, <2>7, Zenon DEF OpenIn
<1>4. ASSUME NEW j \in 1..n, LastOpen(s, c, j), s[j].msg = m PROVE OpenIn(r, c, m)
  <2>1. r[j] = s[j] BY <1>2
  <2>2. j \in 1..(n + 1) OBVIOUS
  <2>3. \A k \in (j + 1)..(n + 1) : k = n + 1 \/ (k \in (j + 1)..n /\ k \in 1..n) OBVIOUS
  <2>4. \A k \in (j + 1)..(n + 1) : ~OwnData(r[k], c)
    <3> TAKE k \in (j + 1)..(n + 1)
    <3>1. CASE k = n + 1 BY <1>2, <3>1
    <3>2. CASE k \in (j + 1)..n /\ k \in 1..n
      <4>1. ~OwnData(s[k], c) BY <1>1, <1>4, <3>2, Zenon DEF LastOpen
      <4> QED BY <1>2, <3>2, <4>1, Zenon
    <3> QED BY <2>3, <3>1, <3>2, Zenon
  <2>5. LastOpen(r, c, j) /\ r[j].msg = m BY <1>2, <1>4, <2>1, <2>4, Zenon DEF LastOpen
  <2> QED BY <1>2, <2>2, <2>5, Zenon DEF OpenIn
<1> QED BY <1>1, <1>2, <1>3, <1>4, Zenon DEF OpenIn

\* data is written on c: it is what is open, if it is a first piece of two
LEMMA OpenNow ==
    ASSUME NEW s \in Seq(Written), NEW w \in Written, NEW r, r = Append(s, w), NEW c,
           OwnData(w, c), NEW m
    PROVE  OpenIn(r, c, m) <=> (w.part < w.parts /\ w.msg = m)
<1>1. PICK n \in Nat : n = Len(s) BY LenProperties
<1>2. Len(r) = n + 1 /\ r[n + 1] = w BY <1>1, Longer
<1>3. ASSUME NEW j \in 1..(n + 1), LastOpen(r, c, j), r[j].msg = m PROVE w.part < w.parts /\ w.msg = m
  <2>1. j = n + 1
    <3> SUFFICES ASSUME j # n + 1 PROVE FALSE OBVIOUS
    <3>1. n + 1 \in (j + 1)..(n + 1) OBVIOUS
    <3> QED BY <1>2, <1>3, <3>1, Zenon DEF LastOpen
  <2> QED BY <1>2, <1>3, <2>1, Zenon DEF LastOpen
<1>4. ASSUME w.part < w.parts, w.msg = m PROVE OpenIn(r, c, m)
  <2>1. n + 1 \in 1..(n + 1) /\ \A k \in ((n + 1) + 1)..(n + 1) : FALSE OBVIOUS
  <2>2. LastOpen(r, c, n + 1) BY <1>2, <1>4, <2>1, Zenon DEF LastOpen
  <2> QED BY <1>2, <1>4, <2>1, <2>2, Zenon DEF OpenIn
<1> QED BY <1>2, <1>3, <1>4, Zenon DEF OpenIn

\* a piece that goes on with what is open, and a first piece where nothing is,
\* may be written
LEMMA PiecesAppend ==
    ASSUME NEW s \in Seq(Written), NEW w \in Written, NEW r, r = Append(s, w), PiecesIn(s),
           \A c \in ChannelIds : OwnData(w, c) =>
             /\ w.part = 2 => OpenIn(s, c, w.msg)
             /\ \A m : OpenIn(s, c, m) => w.msg = m
    PROVE  PiecesIn(r)
<1>1. PICK n \in Nat : n = Len(s) BY LenProperties
<1>2. Len(r) = n + 1 /\ r[n + 1] = w /\ \A i \in 1..n : r[i] = s[i] BY <1>1, Longer
<1> SUFFICES ASSUME NEW c \in ChannelIds, NEW i \in 1..(n + 1), OwnData(r[i], c)
             PROVE  PairedAt(r, c, i)
  BY <1>2, Zenon DEF PiecesIn
<1>3. CASE i # n + 1
  <2>1. i \in 1..n BY <1>3
  <2>2. PairedAt(s, c, i) BY <1>1, <1>2, <2>1, Zenon DEF PiecesIn
  <2>3. \A j \in 1..(i - 1) : j \in 1..n /\ r[j] = s[j] BY <1>2, <2>1
  <2>4. \A j \in 1..(i - 1) : \A k \in (j + 1)..(i - 1) : k \in 1..n OBVIOUS
  <2>5. \A j \in 1..(i - 1) : \A k \in (j + 1)..(i - 1) : r[k] = s[k] BY <1>2, <2>4, Zenon
  <2>6. r[i] = s[i] BY <1>2, <2>1
  <2>7. r[i].part = 2 =>
         \E j \in 1..(i - 1) :
            /\ OwnData(r[j], c) /\ r[j].part = 1 /\ r[j].msg = r[i].msg
            /\ \A k \in (j + 1)..(i - 1) : ~OwnData(r[k], c)
    <3> HAVE r[i].part = 2
    <3>1. PICK j \in 1..(i - 1) : /\ OwnData(s[j], c) /\ s[j].part = 1 /\ s[j].msg = s[i].msg
                                  /\ \A k \in (j + 1)..(i - 1) : ~OwnData(s[k], c)
      BY <2>2, <2>6, Zenon DEF PairedAt
    <3>2. \A k \in (j + 1)..(i - 1) : ~OwnData(r[k], c) BY <2>5, <3>1, Zenon
    <3> QED BY <2>3, <2>6, <3>1, <3>2, Zenon
  <2>8. ASSUME NEW j \in 1..(i - 1), OwnData(r[j], c), r[j].part < r[j].parts,
               \A k \in (j + 1)..(i - 1) : ~OwnData(r[k], c)
        PROVE  r[i].msg = r[j].msg
    <3>1. \A k \in (j + 1)..(i - 1) : ~OwnData(s[k], c) BY <2>5, <2>8, Zenon
    <3> QED BY <2>2, <2>3, <2>6, <2>8, <3>1, Zenon DEF PairedAt
  <2> QED BY <2>7, <2>8, Zenon DEF PairedAt
<1>4. CASE i = n + 1
  <2>1. r[i] = w /\ i - 1 = n /\ OwnData(w, c) BY <1>2, <1>4
  <2>2. w.part = 2 =>
         \E j \in 1..n :
            /\ OwnData(r[j], c) /\ r[j].part = 1 /\ r[j].msg = w.msg
            /\ \A k \in (j + 1)..n : ~OwnData(r[k], c)
    <3> HAVE w.part = 2
    <3>1. PICK j \in 1..n : LastOpen(s, c, j) /\ s[j].msg = w.msg BY <1>1, <2>1, Zenon DEF OpenIn
    <3>2. OwnData(s[j], c) /\ s[j].part < s[j].parts BY <3>1, Zenon DEF LastOpen
    <3>3. s[j] \in Pdus BY <1>1, <3>1, <3>2 DEF OwnData, Own, Written
    <3>4. s[j].part = 1 BY <3>2, <3>3 DEF Pdus
    <3>5. \A k \in (j + 1)..n : k \in 1..n OBVIOUS
    <3>6. \A k \in (j + 1)..n : ~OwnData(r[k], c) BY <1>1, <1>2, <3>1, <3>5, Zenon DEF LastOpen
    <3> QED BY <1>2, <3>1, <3>2, <3>4, <3>6, Zenon
  <2>3. ASSUME NEW j \in 1..n, OwnData(r[j], c), r[j].part < r[j].parts,
               \A k \in (j + 1)..n : ~OwnData(r[k], c)
        PROVE  w.msg = r[j].msg
    <3>1. \A k \in (j + 1)..n : k \in 1..n OBVIOUS
    <3>2. r[j] = s[j] /\ \A k \in (j + 1)..n : ~OwnData(s[k], c) BY <1>2, <2>3, <3>1, Zenon
    <3>3. LastOpen(s, c, j) BY <1>1, <2>3, <3>2, Zenon DEF LastOpen
    <3>4. OpenIn(s, c, s[j].msg) BY <1>1, <3>3, Zenon DEF OpenIn
    <3> QED BY <2>1, <3>2, <3>4, Zenon
  <2> QED BY <2>1, <2>2, <2>3, Zenon DEF PairedAt
<1> QED BY <1>3, <1>4

-----------------------------------------------------------------------------
(* A step keeps what the programs and the stream say of each channel.        *)

BegunAt(c) == \A t \in Threads : AtSecond(t, c) => OpenIn(Stream, c, job[t][1].pdu.msg)
EndsAt(c) ==
    \A m : OpenIn(Stream, c, m) =>
        (\E t \in Threads : AtSecond(t, c) /\ job[t][1].pdu.msg = m) \/ Over(c)

\* what a step leaves open on c
OpenSame(c) == \A m : OpenIn(Stream, c, m)' <=> OpenIn(Stream, c, m)

\* both parts of the invariant, channel by channel
LEMMA ByChannel ==
    /\ BegunOK <=> \A c \in ChannelIds : BegunAt(c)
    /\ OpenOK <=> \A c \in ChannelIds : EndsAt(c)
<1>1. BegunOK <=> \A c \in ChannelIds : BegunAt(c) BY Zenon DEF BegunOK, BegunAt
<1>2. ASSUME OpenOK, NEW c \in ChannelIds PROVE EndsAt(c)
  BY <1>2, Zenon DEF OpenOK, EndsAt, OpenIn
<1>3. ASSUME \A c \in ChannelIds : EndsAt(c), NEW c \in ChannelIds,
             NEW j \in 1..Len(Stream), LastOpen(Stream, c, j)
      PROVE  (\E t \in Threads : AtSecond(t, c) /\ job[t][1].pdu.msg = Stream[j].msg) \/ Over(c)
  BY <1>3, Zenon DEF EndsAt, OpenIn
<1> QED BY <1>1, <1>2, <1>3, Zenon DEF OpenOK

\* the connection stays the same: what is open in the new stream
LEMMA OpenPrime ==
    ASSUME connection' = connection, NEW r, Stream' = r, NEW c, NEW m
    PROVE  OpenIn(Stream, c, m)' <=> OpenIn(r, c, m)
BY Zenon DEF OpenIn, LastOpen, OwnData, Own

\* two threads do not write on one channel
LEMMA OneWriter ==
    ASSUME HeldOK, IInv, NEW s \in Threads, NEW t \in Threads, job[s] # <<>>, job[t] # <<>>,
           DataStep(job[s][1]), DataStep(job[t][1]), job[s][1].pdu.ch = job[t][1].pdu.ch
    PROVE  s = t
<1>1. ASSUME NEW u \in Threads, job[u] # <<>>, DataStep(job[u][1]) PROVE lock[job[u][1].pdu.ch] = u
  <2>1. job[u] \in Seq(Steps) BY DEF IInv, TypeOK
  <2>2. 1 \in DOMAIN job[u] BY <1>1, <2>1, EmptySeq
  <2>3. InOrderAt(u, job[u], lock, 1) BY <2>2, Zenon DEF HeldOK, InOrder
  <2>4. ~(1 > 1) OBVIOUS
  <2> QED BY <1>1, <2>3, <2>4, Zenon DEF InOrderAt
<1>2. lock[job[s][1].pdu.ch] = s /\ lock[job[t][1].pdu.ch] = t BY <1>1, Zenon
<1> QED BY <1>2, Zenon

\* the threads stay where they are
LEMMA ChannelStays ==
    ASSUME NEW c, BegunAt(c), EndsAt(c), OpenSame(c), job' = job, ~connected => ~connected'
    PROVE  BegunAt(c)' /\ EndsAt(c)'
<1>1. BegunAt(c)' BY Zenon DEF BegunAt, OpenSame, AtSecond
<1>2. EndsAt(c)' BY Zenon DEF EndsAt, OpenSame, AtSecond, Over, AtPost
<1> QED BY <1>1, <1>2

\* t has nothing to do with c's second pieces, before the step or after it
LEMMA ChannelAside ==
    ASSUME NEW c, BegunAt(c), EndsAt(c), OpenSame(c), connected' = connected, NEW t \in Threads,
           \A s \in Threads : s # t => job'[s] = job[s],
           ~AtSecond(t, c), ~AtSecond(t, c)', ~AtPost(t, c)'
    PROVE  BegunAt(c)' /\ EndsAt(c)'
<1>1. \A s \in Threads : AtSecond(s, c)' => s # t /\ AtSecond(s, c) /\ job'[s] = job[s]
  BY Zenon DEF AtSecond
<1>2. \A s \in Threads : AtSecond(s, c) => AtSecond(s, c)' /\ job'[s] = job[s]
  BY Zenon DEF AtSecond
<1>3. \A s \in Threads : AtPost(s, c)' => AtPost(s, c) BY Zenon DEF AtPost
<1>4. Over(c) => Over(c)' BY <1>3, Zenon DEF Over
<1>5. BegunAt(c)'
  <2> SUFFICES ASSUME NEW s \in Threads, AtSecond(s, c)' PROVE OpenIn(Stream, c, job[s][1].pdu.msg)'
    BY Zenon DEF BegunAt
  <2>1. AtSecond(s, c) /\ job'[s] = job[s] BY <1>1, Zenon
  <2>2. OpenIn(Stream, c, job[s][1].pdu.msg) BY <2>1, Zenon DEF BegunAt
  <2>3. PICK m : m = job[s][1].pdu.msg OBVIOUS
  <2>4. OpenIn(Stream, c, m)' BY <2>2, <2>3, Zenon DEF OpenSame
  <2> QED BY <2>1, <2>3, <2>4, Zenon DEF OpenIn, LastOpen, OwnData, Own
<1>6. EndsAt(c)'
  <2> SUFFICES ASSUME NEW m, OpenIn(Stream, c, m)'
               PROVE  (\E s \in Threads : AtSecond(s, c)' /\ job'[s][1].pdu.msg = m) \/ Over(c)'
    BY Zenon DEF EndsAt
  <2>1. OpenIn(Stream, c, m) BY Zenon DEF OpenSame
  <2>2. (\E s \in Threads : AtSecond(s, c) /\ job[s][1].pdu.msg = m) \/ Over(c)
    BY <2>1, Zenon DEF EndsAt
  <2>3. CASE Over(c) BY <1>4, <2>3
  <2>4. CASE \E s \in Threads : AtSecond(s, c) /\ job[s][1].pdu.msg = m
    <3>1. PICK s \in Threads : AtSecond(s, c) /\ job[s][1].pdu.msg = m BY <2>4
    <3>2. AtSecond(s, c)' /\ job'[s][1].pdu.msg = m BY <1>2, <3>1, Zenon
    <3> QED BY <3>2, Zenon
  <2> QED BY <2>2, <2>3, <2>4
<1> QED BY <1>5, <1>6

\* t has tested and goes on to post
LEMMA ChannelTested ==
    ASSUME NEW c, BegunAt(c), EndsAt(c), OpenSame(c), connected' = connected, NEW t \in Threads,
           \A s \in Threads : s # t => job'[s] = job[s], Tested(t)
    PROVE  BegunAt(c)' /\ EndsAt(c)'
<1>1. /\ connected /\ job[t] # <<>> /\ job'[t] # <<>> /\ job[t][1].op = "write"
      /\ job'[t][1].op = "post" /\ job'[t][1].pdu = job[t][1].pdu
  BY Zenon DEF Tested
<1>2. DataStep(job'[t][1]) <=> DataStep(job[t][1]) BY <1>1 DEF DataStep, Writing
<1>3. \A s \in Threads : (AtSecond(s, c)' <=> AtSecond(s, c))
  <2> TAKE s \in Threads
  <2>1. CASE s = t BY <1>1, <1>2, <2>1, Zenon DEF AtSecond
  <2>2. CASE s # t BY <2>2, Zenon DEF AtSecond
  <2> QED BY <2>1, <2>2
<1>4. \A s \in Threads : AtSecond(s, c) => job'[s][1].pdu = job[s][1].pdu BY <1>1, Zenon
<1>5. BegunAt(c)'
  <2> SUFFICES ASSUME NEW s \in Threads, AtSecond(s, c)' PROVE OpenIn(Stream, c, job[s][1].pdu.msg)'
    BY Zenon DEF BegunAt
  <2>1. AtSecond(s, c) /\ job'[s][1].pdu = job[s][1].pdu BY <1>3, <1>4, Zenon
  <2>2. OpenIn(Stream, c, job[s][1].pdu.msg) BY <2>1, Zenon DEF BegunAt
  <2>3. PICK m : m = job[s][1].pdu.msg OBVIOUS
  <2>4. OpenIn(Stream, c, m)' BY <2>2, <2>3, Zenon DEF OpenSame
  <2> QED BY <2>1, <2>3, <2>4, Zenon DEF OpenIn, LastOpen, OwnData, Own
<1>6. EndsAt(c)'
  <2> SUFFICES ASSUME NEW m, OpenIn(Stream, c, m)'
               PROVE  \E s \in Threads : AtSecond(s, c)' /\ job'[s][1].pdu.msg = m
    BY Zenon DEF EndsAt
  <2>1. OpenIn(Stream, c, m) BY Zenon DEF OpenSame
  <2>2. \E s \in Threads : AtSecond(s, c) /\ job[s][1].pdu.msg = m
    BY <1>1, <2>1, Zenon DEF EndsAt, Over
  <2>3. PICK s \in Threads : AtSecond(s, c) /\ job[s][1].pdu.msg = m BY <2>2
  <2>4. AtSecond(s, c)' /\ job'[s][1].pdu.msg = m BY <1>3, <1>4, <2>3, Zenon
  <2> QED BY <2>4, Zenon
<1> QED BY <1>5, <1>6

\* t has failed between the two pieces of a message: nobody else is inside the
\* channel, and nobody will post on it any more
LEMMA ChannelFailed ==
    ASSUME IInv, HeldOK, NEW c, BegunAt(c), EndsAt(c), OpenSame(c), connected' = connected,
           NEW t \in Threads, \A s \in Threads : s # t => job'[s] = job[s], Failed(t), AtSecond(t, c)
    PROVE  BegunAt(c)' /\ EndsAt(c)'
<1>1. ~connected /\ Idle(job'[t]) /\ Starts(job'[t]) BY Zenon DEF Failed
<1>2. ~AtSecond(t, c)' /\ ~AtPost(t, c)' BY <1>1, Zenon DEF AtSecond, AtPost, Starts
<1>3. ASSUME NEW s \in Threads, s # t, job[s] # <<>>, DataStep(job[s][1]), job[s][1].pdu.ch = c
      PROVE  FALSE
  <2>1. job[t] # <<>> /\ DataStep(job[t][1]) /\ job[t][1].pdu.ch = c BY Zenon DEF AtSecond
  <2>2. s = t BY <1>3, <2>1, OneWriter, Zenon
  <2> QED BY <1>3, <2>2
<1>4. \A s \in Threads : ~AtSecond(s, c)'
  <2> SUFFICES ASSUME NEW s \in Threads, AtSecond(s, c)' PROVE FALSE OBVIOUS
  <2>1. s # t BY <1>2, Zenon
  <2>2. AtSecond(s, c) BY <2>1, Zenon DEF AtSecond
  <2> QED BY <1>3, <2>1, <2>2, Zenon DEF AtSecond
<1>5. \A s \in Threads : ~AtPost(s, c)'
  <2> SUFFICES ASSUME NEW s \in Threads, AtPost(s, c)' PROVE FALSE OBVIOUS
  <2>1. s # t BY <1>2, Zenon
  <2>2. AtPost(s, c) BY <2>1, Zenon DEF AtPost
  <2>3. job[s] # <<>> /\ DataStep(job[s][1]) /\ job[s][1].pdu.ch = c
    BY <2>2 DEF AtPost, DataStep, Writing
  <2> QED BY <1>3, <2>1, <2>3, Zenon
<1>6. Over(c)' BY <1>1, <1>5, Zenon DEF Over
<1> QED BY <1>4, <1>6, Zenon DEF BegunAt, EndsAt

\* t has posted a piece, or something else
LEMMA ChannelPosted ==
    ASSUME IInv, JobsOK, HeldOK, StreamOK, connection' = connection, connected' = connected,
           NEW t \in Threads, NEW w, Posts(t, w), Posted(t), Stream' = Append(Stream, w),
           \A s \in Threads : s # t => job'[s] = job[s],
           NEW c, BegunAt(c), EndsAt(c)
    PROVE  /\ BegunAt(c)' /\ EndsAt(c)'
           /\ OwnData(w, c) => /\ w.part = 2 => OpenIn(Stream, c, w.msg)
                               /\ \A m : OpenIn(Stream, c, m) => w.msg = m
<1>1. PICK h : h = job[t][1] OBVIOUS
<1>2. Runs(t, "post") /\ w = h.pdu BY <1>1, Zenon DEF Posts
<1>3. job[t] # <<>> /\ h.op = "post"
  <2>1. job[t] # <<>> /\ Head(job[t]).op = "post" /\ Head(job[t]) = job[t][1] BY <1>2, HeadStep
  <2> QED BY <1>1, <2>1
<1>4. w \in Pdus /\ Own(w) BY PostOwn, Zenon
<1>5. DataStep(h) <=> IsData(w) BY <1>2, <1>3 DEF DataStep, Writing
<1>6. OwnData(w, c) <=> (DataStep(h) /\ h.pdu.ch = c)
  BY <1>2, <1>4, <1>5, Zenon DEF OwnData, IsData
<1>7. PICK s : s = Stream OBVIOUS
<1>8. PICK r : r = Append(s, w) OBVIOUS
<1>9. s \in Seq(Written) /\ w \in Written
  <2>1. Stream \in Seq(Written) BY StreamType, Zenon
  <2> QED BY <1>4, <1>7, <2>1 DEF Written
<1>10. Stream' = r BY <1>7, <1>8, Zenon
<1>11. /\ job'[t] # <<>> => job'[t][1].op # "post"
       /\ job'[t] # <<>> /\ DataStep(job'[t][1]) /\ job'[t][1].pdu.part = 2 => Follows(h, job'[t][1])
       /\ DataStep(h) /\ h.pdu.part < h.pdu.parts => job'[t] # <<>> /\ Follows(h, job'[t][1])
  BY <1>1, Zenon DEF Posted
<1>12. CASE ~OwnData(w, c)
  <2>1. OpenSame(c)
    <3> SUFFICES ASSUME NEW m PROVE OpenIn(Stream, c, m)' <=> OpenIn(Stream, c, m) BY Zenon DEF OpenSame
    <3>1. OpenIn(Stream, c, m)' <=> OpenIn(r, c, m) BY <1>10, OpenPrime, Zenon
    <3>2. OpenIn(r, c, m) <=> OpenIn(s, c, m) BY <1>8, <1>9, <1>12, OpenStays, Zenon
    <3> QED BY <1>7, <3>1, <3>2, Zenon
  <2>2. ~(DataStep(h) /\ h.pdu.ch = c) BY <1>6, <1>12, Zenon
  <2>3. ~AtSecond(t, c) BY <1>1, <2>2, Zenon DEF AtSecond
  <2>4. ~AtSecond(t, c)' BY <1>11, <2>2, Zenon DEF AtSecond, Follows
  <2>5. ~AtPost(t, c)' BY <1>11, Zenon DEF AtPost
  <2>6. BegunAt(c)' /\ EndsAt(c)' BY <2>1, <2>3, <2>4, <2>5, ChannelAside, Zenon
  <2> QED BY <1>12, <2>6
<1>13. CASE OwnData(w, c)
  <2>1. DataStep(h) /\ h.pdu.ch = c BY <1>6, <1>13
  <2>2. \A m : OpenIn(Stream, c, m)' <=> (w.part < w.parts /\ w.msg = m)
    <3> TAKE m
    <3>1. OpenIn(Stream, c, m)' <=> OpenIn(r, c, m) BY <1>10, OpenPrime, Zenon
    <3>2. OpenIn(r, c, m) <=> (w.part < w.parts /\ w.msg = m) BY <1>8, <1>9, <1>13, OpenNow, Zenon
    <3> QED BY <3>1, <3>2, Zenon
  <2>3. ASSUME NEW u \in Threads, AtSecond(u, c) PROVE u = t
    <3>1. job[u] # <<>> /\ DataStep(job[u][1]) /\ job[u][1].pdu.ch = c BY <2>3, Zenon DEF AtSecond
    <3> QED BY <1>1, <1>3, <2>1, <3>1, OneWriter, Zenon
  <2>4. ASSUME NEW u \in Threads, AtSecond(u, c)' PROVE OpenIn(Stream, c, job[u][1].pdu.msg)'
    <3>1. u = t
      <4> SUFFICES ASSUME u # t PROVE FALSE OBVIOUS
      <4>1. AtSecond(u, c) BY <2>4, Zenon DEF AtSecond
      <4> QED BY <2>3, <4>1
    <3>2. Follows(h, job'[t][1]) BY <1>11, <2>4, <3>1, Zenon DEF AtSecond
    <3>3. w.part < w.parts /\ job'[t][1].pdu.msg = w.msg BY <1>2, <3>2, Zenon DEF Follows
    <3>4. PICK m : m = job'[t][1].pdu.msg OBVIOUS
    <3>5. OpenIn(Stream, c, m)' BY <2>2, <3>3, <3>4, Zenon
    <3> QED BY <3>1, <3>4, <3>5, Zenon DEF OpenIn, LastOpen, OwnData, Own
  <2>5. BegunAt(c)' BY <2>4, Zenon DEF BegunAt
  <2>6. EndsAt(c)'
    <3> SUFFICES ASSUME NEW m, OpenIn(Stream, c, m)'
                 PROVE  \E u \in Threads : AtSecond(u, c)' /\ job'[u][1].pdu.msg = m
      BY Zenon DEF EndsAt
    <3>1. w.part < w.parts /\ w.msg = m BY <2>2, Zenon
    <3>2. job'[t] # <<>> /\ Follows(h, job'[t][1]) BY <1>2, <1>11, <2>1, <3>1, Zenon
    <3>3. AtSecond(t, c)' /\ job'[t][1].pdu.msg = m BY <1>2, <2>1, <3>1, <3>2, Zenon DEF Follows, AtSecond
    <3> QED BY <3>3, Zenon
  <2>7. ASSUME w.part = 2 PROVE OpenIn(Stream, c, w.msg)
    <3>1. AtSecond(t, c) /\ job[t][1].pdu = w BY <1>1, <1>2, <1>3, <2>1, <2>7, Zenon DEF AtSecond
    <3> QED BY <3>1, Zenon DEF BegunAt
  <2>8. ASSUME NEW m, OpenIn(Stream, c, m) PROVE w.msg = m
    <3>1. AtPost(t, c) BY <1>1, <1>2, <1>3, <1>5, <2>1, Zenon DEF AtPost
    <3>2. ~Over(c) BY <3>1, Zenon DEF Over
    <3>3. PICK u \in Threads : AtSecond(u, c) /\ job[u][1].pdu.msg = m
      BY <2>8, <3>2, Zenon DEF EndsAt
    <3>4. u = t BY <2>3, <3>3
    <3> QED BY <1>1, <1>2, <3>3, <3>4, Zenon
  <2> QED BY <2>5, <2>6, <2>7, <2>8, Zenon
<1> QED BY <1>12, <1>13

\* a program of one plain step or of two
LEMMA PlainPrograms ==
    ASSUME NEW a \in Steps, NEW b \in Steps,
           ~DataStep(a), a.op \notin {"post", "enter", "leave"},
           ~DataStep(b), b.op \notin {"post", "enter", "leave"},
           NEW p, p = <<a>> \/ p = <<a, b>>
    PROVE  /\ p \in Seq(Steps)
           /\ \A i \in DOMAIN p : ~DataStep(p[i]) /\ p[i].op \notin {"post", "enter", "leave"}
<1>1. p \in Seq(Steps) /\ \A i \in DOMAIN p : p[i] = a \/ p[i] = b
  <2>1. CASE p = <<a>>
    <3>1. p \in Seq(Steps) BY <2>1
    <3> QED BY <2>1, <3>1, OneOf
  <2>2. CASE p = <<a, b>> BY <2>2, TwoSteps
  <2> QED BY <2>1, <2>2
<1> QED BY <1>1, Zenon

\* the program a handler gives to drdynvc's thread, or to the device: it begins
\* by entering the channel it writes on
LEMMA WriteHeld ==
    ASSUME IInv, HeldOK, lock' = lock, NEW t \in Threads, job[t] = <<>>,
           NEW c \in ChannelIds, NEW m \in Nat, NEW n \in 1..2,
           job' = [job EXCEPT ![t] = dvcman_write_channel(c, m, n)]
    PROVE  HeldOK' /\ (\A s \in Threads : s # t => job'[s] = job[s]) /\ Quiet(t)
<1>1. PICK p : p = dvcman_write_channel(c, m, n) OBVIOUS
<1>2. connection \in Nat BY Zenon DEF IInv, TypeOK
<1>3. p \in Seq(Steps) /\ p # <<>> /\ p[1].op = "enter" /\ InOrder(t, p, lock')
  BY <1>1, <1>2, WriteOrder
<1>4. Starts(p) BY <1>3 DEF Starts, DataStep, Writing
<1>5. Idle(job[t]) BY Zenon DEF Idle
<1>6. \A s \in Threads : \A d \in ChannelIds : s # t /\ lock[d] = s => lock'[d] = s BY Zenon
<1>7. HeldOK' /\ job'[t] = p /\ \A s \in Threads : s # t => job'[s] = job[s]
  BY <1>1, <1>3, <1>6, HeldMove, Zenon
<1> QED BY <1>4, <1>5, <1>7, Zenon DEF Quiet

\* drdynvc's thread begins to handle a message: what it leaves of the programs
Begins ==
    /\ HeldOK'
    /\ job' = job \/ ((\A s \in Threads : s # "drdynvc" => job'[s] = job[s]) /\ Quiet("drdynvc"))

\* a program without data
LEMMA PlainBegins ==
    ASSUME IInv, HeldOK, lock' = lock, job["drdynvc"] = <<>>,
           NEW a \in Steps, NEW b \in Steps,
           ~DataStep(a), a.op \notin {"post", "enter", "leave"},
           ~DataStep(b), b.op \notin {"post", "enter", "leave"},
           NEW p, p = <<a>> \/ p = <<a, b>>, job' = [job EXCEPT !["drdynvc"] = p]
    PROVE  Begins
<1>1. /\ p \in Seq(Steps)
      /\ \A i \in DOMAIN p : ~DataStep(p[i]) /\ p[i].op \notin {"post", "enter", "leave"}
  BY PlainPrograms, Zenon
<1>2. "drdynvc" \in Threads BY DEF Threads
<1>3. Idle(job["drdynvc"]) BY Zenon DEF Idle
<1> QED BY <1>1, <1>2, <1>3, PlainHeld, Zenon DEF Begins

\* the capabilities and the creation of a channel
LEMMA RequestBegins ==
    ASSUME IInv, HeldOK, lock' = lock, job["drdynvc"] = <<>>, NEW m \in Arriving,
           process_capability_request(m) \/ process_create_request(m)
    PROVE  Begins
<1>1. PICK a : a = Write(Simple("CAPABILITIES", "none")) OBVIOUS
<1>2. PICK b : b = Op("create", m) OBVIOUS
<1>3. connection \in Nat BY Zenon DEF IInv, TypeOK
<1>4. "CAPABILITIES" \in ClientTypes /\ "none" \in ChannelIds \cup {"none"} BY DEF ClientTypes
<1>5. a \in Steps BY <1>1, <1>3, <1>4, OwnAnswer, Zenon
<1>6. m \in Pdus BY DEF Arriving
<1>7. b \in Steps BY <1>2, <1>6, OpType DEF Ops
<1>8. "CAPABILITIES" \notin {"DATA_FIRST", "DATA"} /\ "create" \in {"create", "open", "close", "exit"}
  OBVIOUS
<1>9. ~DataStep(a) /\ a.op \notin {"post", "enter", "leave"} BY <1>1, <1>8, AnswerPlain, Zenon
<1>10. ~DataStep(b) /\ b.op \notin {"post", "enter", "leave"} BY <1>2, <1>8, OpPlain, Zenon
<1>11. CASE process_capability_request(m)
  <2>1. job' = [job EXCEPT !["drdynvc"] = <<a>>]
    BY <1>1, <1>11, Zenon DEF process_capability_request, Goes
  <2> QED BY <1>5, <1>9, <2>1, PlainBegins, Zenon
<1>12. CASE process_create_request(m)
  <2>1. PICK p : p = (IF state = "CAPABILITIES" THEN <<a>> ELSE <<>>) \o <<b>> OBVIOUS
  <2>2. job' = [job EXCEPT !["drdynvc"] = p]
    BY <1>1, <1>2, <1>12, <2>1, Zenon DEF process_create_request, Goes
  <2>3. CASE state = "CAPABILITIES"
    <3>1. p = <<a>> \o <<b>> BY <2>1, <2>3, Zenon
    <3>2. p = <<a, b>> BY <1>5, <1>7, <3>1, Pair, Zenon
    <3> QED BY <1>5, <1>7, <1>9, <1>10, <2>2, <3>2, PlainBegins, Zenon
  <2>4. CASE state # "CAPABILITIES"
    <3>1. p = <<b>> BY <1>7, <2>1, <2>4
    <3> QED BY <1>7, <1>10, <2>2, <3>1, PlainBegins, Zenon
  <2> QED BY <2>3, <2>4
<1> QED BY <1>11, <1>12

\* the closing of a channel
LEMMA CloseBegins ==
    ASSUME IInv, HeldOK, lock' = lock, job["drdynvc"] = <<>>, NEW m \in Arriving,
           process_close_request(m)
    PROVE  Begins
<1>1. PICK a : a = Op("close", m) OBVIOUS
<1>2. PICK b : b = Write(Simple("CLOSED", m.ch)) OBVIOUS
<1>3. PICK p : p = <<a, b>> OBVIOUS
<1>4. job' = [job EXCEPT !["drdynvc"] = p]
  BY <1>1, <1>2, <1>3, Zenon DEF process_close_request, Goes
<1>5. connection \in Nat BY Zenon DEF IInv, TypeOK
<1>6. m \in Pdus /\ m.ch \in ChannelIds \cup {"none"} /\ "CLOSED" \in ClientTypes
  BY DEF Arriving, Pdus, ClientTypes
<1>7. b \in Steps BY <1>2, <1>5, <1>6, OwnAnswer, Zenon
<1>8. a \in Steps BY <1>1, <1>6, OpType DEF Ops
<1>9. "CLOSED" \notin {"DATA_FIRST", "DATA"} /\ "close" \in {"create", "open", "close", "exit"} OBVIOUS
<1>10. ~DataStep(b) /\ b.op \notin {"post", "enter", "leave"} BY <1>2, <1>9, AnswerPlain, Zenon
<1>11. ~DataStep(a) /\ a.op \notin {"post", "enter", "leave"} BY <1>1, <1>9, OpPlain, Zenon
<1> QED BY <1>3, <1>4, <1>7, <1>8, <1>10, <1>11, PlainBegins, Zenon

\* data: there is no such channel, the message goes on, or it is echoed
LEMMA DataBegins ==
    ASSUME IInv, HeldOK, lock' = lock, job["drdynvc"] = <<>>, NEW m \in Arriving, process_data(m)
    PROVE  Begins
<1>1. PICK c : c = m.ch OBVIOUS
<1>2. /\ c \in ChannelIds /\ m.msg \in Nat /\ connection \in Nat
      /\ \/ job' = [job EXCEPT !["drdynvc"] = Failing("drdynvc")]
         \/ dvc[c] # NoChannel /\ job' = job
         \/ /\ dvc[c] # NoChannel
            /\ \E n \in 1..2 : job' = [job EXCEPT !["drdynvc"] = dvcman_write_channel(c, m.msg, n)]
  BY <1>1, DataEchoes, Zenon
<1>3. "drdynvc" \in Threads BY DEF Threads
<1>4. CASE job' = [job EXCEPT !["drdynvc"] = Failing("drdynvc")]
  <2>1. PICK p : p = Failing("drdynvc") OBVIOUS
  <2>2. p \in Seq(Steps) BY <1>3, <2>1, FailingOK, Zenon
  <2>3. InOrder("drdynvc", job["drdynvc"], lock) BY <1>3, Zenon DEF HeldOK
  <2>4. job["drdynvc"] # <<>> => job["drdynvc"][1].op # "enter" BY Zenon
  <2>5. /\ InOrder("drdynvc", p, lock)
        /\ \A i \in DOMAIN p : ~DataStep(p[i]) /\ p[i].op # "post"
    BY <1>3, <2>1, <2>3, <2>4, FailingOrder, Zenon
  <2>6. Starts(p) BY <2>2, <2>5, PlainStarts, Zenon
  <2>7. InOrder("drdynvc", p, lock') BY <2>5, Zenon
  <2>8. \A s \in Threads : \A d \in ChannelIds : s # "drdynvc" /\ lock[d] = s => lock'[d] = s BY Zenon
  <2>9. job' = [job EXCEPT !["drdynvc"] = p] BY <1>4, <2>1, Zenon
  <2>10. /\ HeldOK' /\ job'["drdynvc"] = p
         /\ \A s \in Threads : s # "drdynvc" => job'[s] = job[s]
    BY <1>3, <2>7, <2>8, <2>9, HeldMove, Zenon
  <2> QED BY <2>6, <2>10, Zenon DEF Begins, Quiet, Idle
<1>5. CASE job' = job BY <1>5, Zenon DEF Begins, HeldOK
<1>6. CASE \E n \in 1..2 : job' = [job EXCEPT !["drdynvc"] = dvcman_write_channel(c, m.msg, n)]
  BY <1>2, <1>3, <1>6, WriteHeld, Zenon DEF Begins
<1> QED BY <1>2, <1>4, <1>5, <1>6, Zenon

\* drdynvc's thread takes a message
LEMMA TakeBegins ==
    ASSUME IInv, HeldOK, TakeMessage
    PROVE  Begins
<1>1. lock' = lock /\ job["drdynvc"] = <<>> BY Zenon DEF TakeMessage
<1>2. CASE Oldest(queue) = WMQ_QUIT
  <2>1. job' = job BY <1>2, Zenon DEF TakeMessage
  <2> QED BY <1>1, <2>1, Zenon DEF Begins, HeldOK
<1>3. CASE Oldest(queue) # WMQ_QUIT
  <2>1. PICK m : m = Oldest(queue) OBVIOUS
  <2>2. m \in Arriving BY <1>3, <2>1, TakenWasPosted, Zenon
  <2>3. drdynvc_order_recv(m) BY <1>3, <2>1, Zenon DEF TakeMessage
  <2> QED BY <1>1, <2>2, <2>3, RequestBegins, DataBegins, CloseBegins, Zenon DEF drdynvc_order_recv
<1> QED BY <1>2, <1>3

-----------------------------------------------------------------------------
(* Every step keeps the pieces together.                                     *)

\* the property of a stream, before a step and after it
LEMMA PiecesNow == PiecesTogether <=> PiecesIn(Stream)
BY Zenon DEF PiecesTogether, PiecesIn, PairedAt

LEMMA PiecesThen ==
    ASSUME connection' = connection, NEW r, Stream' = r
    PROVE  PiecesTogether' <=> PiecesIn(r)
<1>1. PiecesTogether' <=> PiecesIn(Stream)' BY PiecesNow, PTL
<1>2. ASSUME NEW c, NEW i PROVE PairedAt(Stream, c, i)' <=> PairedAt(r, c, i)
  BY Zenon DEF PairedAt, OwnData, Own
<1>3. ASSUME NEW c, NEW i PROVE OwnData(Stream[i], c)' <=> OwnData(r[i], c)
  BY Zenon DEF OwnData, Own
<1>4. PiecesIn(Stream)' <=> PiecesIn(r) BY <1>2, <1>3, Zenon DEF PiecesIn
<1> QED BY <1>1, <1>4, Zenon

\* nothing is written, or the quit message
LEMMA StreamStays ==
    ASSUME IInv, StreamOK, connection' = connection, PiecesTogether,
           Stream' = Stream \/ Stream' = Append(Stream, WMQ_QUIT)
    PROVE  PiecesTogether' /\ \A c : OpenSame(c)
<1>1. PICK s : s = Stream OBVIOUS
<1>2. s \in Seq(Written) BY <1>1, StreamType, Zenon
<1>3. PiecesIn(s) BY <1>1, PiecesNow, Zenon
<1>4. WMQ_QUIT \in Written BY DEF Written
<1>5. \A c : ~OwnData(WMQ_QUIT, c) BY Zenon DEF OwnData, Own
<1>6. CASE Stream' = Stream
  <2>1. Stream' = s BY <1>1, <1>6, Zenon
  <2>2. PiecesTogether' BY <1>3, <2>1, PiecesThen, Zenon
  <2>3. ASSUME NEW c, NEW m PROVE OpenIn(Stream, c, m)' <=> OpenIn(Stream, c, m)
    BY <1>1, <2>1, OpenPrime, Zenon
  <2> QED BY <2>2, <2>3, Zenon DEF OpenSame
<1>7. CASE Stream' = Append(Stream, WMQ_QUIT)
  <2>1. PICK r : r = Append(s, WMQ_QUIT) OBVIOUS
  <2>2. Stream' = r BY <1>1, <1>7, <2>1, Zenon
  <2>3. PiecesIn(r) BY <1>2, <1>3, <1>4, <1>5, <2>1, PiecesAppend, Zenon
  <2>4. PiecesTogether' BY <2>2, <2>3, PiecesThen, Zenon
  <2>5. ASSUME NEW c, NEW m PROVE OpenIn(Stream, c, m)' <=> OpenIn(Stream, c, m)
    <3>1. OpenIn(Stream, c, m)' <=> OpenIn(r, c, m) BY <2>2, OpenPrime, Zenon
    <3>2. OpenIn(r, c, m) <=> OpenIn(s, c, m) BY <1>2, <1>4, <1>5, <2>1, OpenStays, Zenon
    <3> QED BY <1>1, <3>1, <3>2, Zenon
  <2> QED BY <2>4, <2>5, Zenon DEF OpenSame
<1> QED BY <1>6, <1>7

\* what is in the loop has an open channel
LEMMA LoopOpen ==
    ASSUME [Next]_vars, main = "loop" => open
    PROVE  main' = "loop" => open'
<1>1. CASE SessionThread
  <2>1. CASE freerdp_channels_post_connect BY <2>1 DEF freerdp_channels_post_connect
  <2>2. CASE event_disconnected BY <2>2 DEF event_disconnected
  <2>3. CASE dvcman_free BY <2>3 DEF dvcman_free
  <2>4. CASE freerdp_channels_close BY <2>4 DEF freerdp_channels_close
  <2>5. CASE freerdp_channels_disconnect \/ PostQuit BY <2>5 DEF freerdp_channels_disconnect, PostQuit
  <2>6. CASE (\E last \in BOOLEAN : ReceiveFirst(last)) \/ ReceiveRest \/ freerdp_channels_process_sync
    BY <2>6, Zenon DEF ReceiveFirst, ReceiveRest, freerdp_channels_process_sync
  <2> QED BY <1>1, <2>1, <2>2, <2>3, <2>4, <2>5, <2>6, Zenon DEF SessionThread
<1>2. CASE TakeMessage \/ (\E c \in ChannelIds, n \in 1..2 : DeviceWrite(c, n)) \/ \E t \in Threads : Step(t)
  BY <1>2, Zenon DEF TakeMessage, DeviceWrite, Step
<1>3. CASE vars' = vars
  <2>1. main' = main /\ open' = open BY <1>3, Zenon DEF vars
  <2> QED BY <2>1
<1> QED BY <1>1, <1>2, <1>3, Zenon DEF Next

\* a connection: no program and nothing written on it yet
LEMMA ConnectPieces ==
    ASSUME IInv, StreamOK, freerdp_channels_post_connect
    PROVE  HeldOK' /\ BegunOK' /\ OpenOK' /\ PiecesTogether'
<1>1. main = "idle" /\ (job' = [job EXCEPT !["drdynvc"] = <<>>] \/ job' = job)
  BY Zenon DEF freerdp_channels_post_connect
<1>2. job["device"] = <<>> /\ thread = "none" BY <1>1 DEF IInv, ThreadOK
<1>3. job["drdynvc"] = <<>> BY <1>2 DEF IInv, ThreadOK
<1>4. job \in [Threads -> Seq(Steps)] BY Zenon DEF IInv, TypeOK
<1>5. \A t \in Threads : job[t] = <<>> BY <1>2, <1>3 DEF Threads
<1>6. \A t \in Threads : job'[t] = <<>> BY <1>1, <1>4, <1>5
<1>7. DOMAIN <<>> = {} OBVIOUS
<1>8. \A t \in Threads : InOrder(t, job'[t], lock') BY <1>6, <1>7, Zenon DEF InOrder
<1>9. \A i \in 1..Len(Stream') : ~Own(Stream[i])' BY NothingOwn, Zenon
<1>10. HeldOK' BY <1>8, Zenon DEF HeldOK
<1>11. BegunOK' BY <1>6, Zenon DEF BegunOK, AtSecond
<1>12. OpenOK' BY <1>9, Zenon DEF OpenOK, LastOpen, OwnData
<1>13. PiecesTogether' BY <1>9, Zenon DEF PiecesTogether, OwnData
<1> QED BY <1>10, <1>11, <1>12, <1>13

\* no thread goes on
LEMMA StandPieces ==
    ASSUME IInv, StreamOK, PiecesInv, connection' = connection, job' = job, lock' = lock,
           Stream' = Stream \/ Stream' = Append(Stream, WMQ_QUIT), ~connected => ~connected'
    PROVE  HeldOK' /\ BegunOK' /\ OpenOK' /\ PiecesTogether'
<1>1. HeldOK /\ BegunOK /\ OpenOK /\ PiecesTogether BY Zenon DEF PiecesInv
<1>2. PiecesTogether' /\ \A c : OpenSame(c) BY <1>1, StreamStays, Zenon
<1>3. HeldOK' BY <1>1, Zenon DEF HeldOK
<1>4. \A c \in ChannelIds : BegunAt(c) /\ EndsAt(c) BY <1>1, ByChannel, Zenon
<1>5. \A c \in ChannelIds : BegunAt(c)' /\ EndsAt(c)' BY <1>2, <1>4, ChannelStays, Zenon
<1>6. BegunOK' /\ OpenOK'
  <2>1. (\A c \in ChannelIds : BegunAt(c))' /\ (\A c \in ChannelIds : EndsAt(c))' BY <1>5
  <2> QED BY <2>1, ByChannel, PTL
<1> QED BY <1>2, <1>3, <1>6

\* a thread goes on without posting
LEMMA GoesPieces ==
    ASSUME IInv, StreamOK, PiecesInv, connection' = connection, connected' = connected, Stream' = Stream,
           NEW t \in Threads, \A s \in Threads : s # t => job'[s] = job[s],
           Quiet(t) \/ Tested(t) \/ Failed(t)
    PROVE  BegunOK' /\ OpenOK' /\ PiecesTogether'
<1>1. HeldOK /\ BegunOK /\ OpenOK /\ PiecesTogether BY Zenon DEF PiecesInv
<1>2. PiecesTogether' /\ \A c : OpenSame(c) BY <1>1, StreamStays, Zenon
<1>3. \A c \in ChannelIds : BegunAt(c) /\ EndsAt(c) BY <1>1, ByChannel, Zenon
<1>4. ASSUME NEW c \in ChannelIds PROVE BegunAt(c)' /\ EndsAt(c)'
  <2>1. BegunAt(c) /\ EndsAt(c) /\ OpenSame(c) BY <1>2, <1>3, Zenon
  <2>2. ASSUME ~AtSecond(t, c), Starts(job'[t]) PROVE BegunAt(c)' /\ EndsAt(c)'
    <3>1. ~AtSecond(t, c)' /\ ~AtPost(t, c)' BY <2>2, Zenon DEF AtSecond, AtPost, Starts
    <3> QED BY <2>1, <2>2, <3>1, ChannelAside, Zenon
  <2>3. CASE Quiet(t)
    <3>1. ~AtSecond(t, c) /\ Starts(job'[t]) BY <2>3, Zenon DEF Quiet, Idle, AtSecond
    <3> QED BY <2>2, <3>1
  <2>4. CASE Tested(t) BY <2>1, <2>4, ChannelTested, Zenon
  <2>5. CASE Failed(t)
    <3>1. CASE AtSecond(t, c) BY <1>1, <2>1, <2>5, <3>1, ChannelFailed, Zenon
    <3>2. CASE ~AtSecond(t, c)
      <4>1. Starts(job'[t]) BY <2>5, Zenon DEF Failed
      <4> QED BY <2>2, <3>2, <4>1
    <3> QED BY <3>1, <3>2
  <2> QED BY <2>3, <2>4, <2>5
<1>5. BegunOK' /\ OpenOK'
  <2>1. (\A c \in ChannelIds : BegunAt(c))' /\ (\A c \in ChannelIds : EndsAt(c))' BY <1>4
  <2> QED BY <2>1, ByChannel, PTL
<1> QED BY <1>2, <1>5

\* a thread posts
LEMMA PostPieces ==
    ASSUME IInv, StreamOK, JobsOK, PiecesInv, connection' = connection, connected' = connected,
           NEW t \in Threads, \A s \in Threads : s # t => job'[s] = job[s], Posted(t),
           NEW w, Posts(t, w), Stream' = Append(Stream, w)
    PROVE  BegunOK' /\ OpenOK' /\ PiecesTogether'
<1>1. HeldOK /\ BegunOK /\ OpenOK /\ PiecesTogether BY Zenon DEF PiecesInv
<1>2. \A c \in ChannelIds : BegunAt(c) /\ EndsAt(c) BY <1>1, ByChannel, Zenon
<1>3. ASSUME NEW c \in ChannelIds
      PROVE  /\ BegunAt(c)' /\ EndsAt(c)'
             /\ OwnData(w, c) => /\ w.part = 2 => OpenIn(Stream, c, w.msg)
                                 /\ \A m : OpenIn(Stream, c, m) => w.msg = m
  <2>1. BegunAt(c) /\ EndsAt(c) BY <1>2
  <2> QED BY <1>1, <2>1, ChannelPosted, Zenon
<1>4. PICK s : s = Stream OBVIOUS
<1>5. PICK r : r = Append(s, w) OBVIOUS
<1>6. s \in Seq(Written) BY <1>4, StreamType, Zenon
<1>7. w \in Written
  <2>1. w \in Pdus BY Zenon DEF Posts
  <2> QED BY <2>1 DEF Written
<1>8. PiecesIn(s) BY <1>1, <1>4, PiecesNow, Zenon
<1>9. PiecesIn(r) BY <1>3, <1>4, <1>5, <1>6, <1>7, <1>8, PiecesAppend, Zenon
<1>10. Stream' = r BY <1>4, <1>5, Zenon
<1>11. PiecesTogether' BY <1>9, <1>10, PiecesThen, Zenon
<1>12. BegunOK' /\ OpenOK'
  <2>1. (\A c \in ChannelIds : BegunAt(c))' /\ (\A c \in ChannelIds : EndsAt(c))' BY <1>3
  <2> QED BY <2>1, ByChannel, PTL
<1> QED BY <1>11, <1>12

\* a step of a program
LEMMA StepPieces ==
    ASSUME IInv, WritesInv, PiecesInv, NEW t \in Threads, Step(t)
    PROVE  HeldOK' /\ BegunOK' /\ OpenOK' /\ PiecesTogether'
<1>1. StreamOK /\ JobsOK /\ LateOK /\ HeldOK /\ (main = "loop" => open)
  BY Zenon DEF WritesInv, PiecesInv
<1>2. /\ HeldOK' /\ (\A s \in Threads : s # t => job'[s] = job[s])
      /\ Quiet(t) \/ Tested(t) \/ Failed(t) \/ Posted(t)
  BY <1>1, StepHeld, Zenon
<1>3. connection' = connection /\ connected' = connected /\ sent' = sent BY Zenon DEF Step
<1>4. CASE PostWrite(t)
  <2>1. PICK w : Posts(t, w) BY <1>4, PostPosts, Zenon
  <2>2. w \in Pdus /\ Contents(writes') = Append(Contents(writes), w) BY <2>1, Zenon DEF Posts
  <2>3. w \in Written BY <2>2 DEF Written
  <2>4. sent \in Seq(Written) /\ Contents(writes) \in Seq(Written) BY <1>1, StreamType, Zenon
  <2>5. sent \o Append(Contents(writes), w) = Append(sent \o Contents(writes), w)
    BY <2>3, <2>4, AppendBehind
  <2>6. Stream' = Append(Stream, w) BY <1>3, <2>2, <2>5, Zenon DEF Stream
  <2>7. Posted(t) BY <1>1, <1>4, PostHeld, Zenon
  <2>8. BegunOK' /\ OpenOK' /\ PiecesTogether' BY <1>1, <1>2, <1>3, <2>1, <2>6, <2>7, PostPieces, Zenon
  <2> QED BY <1>2, <2>8
<1>5. CASE ~PostWrite(t)
  <2>1. writes' = writes
    BY <1>5, Zenon DEF Step, CheckWrite, EnterChannel, LeaveChannel, CreateChannel, OpenChannel,
       CloseChannel, ExitThread
  <2>2. Stream' = Stream BY <1>3, <2>1, Zenon DEF Stream
  <2>3. Quiet(t) \/ Tested(t) \/ Failed(t) BY <1>2, <1>5, Zenon DEF Posted
  <2>4. BegunOK' /\ OpenOK' /\ PiecesTogether' BY <1>1, <1>2, <1>3, <2>2, <2>3, GoesPieces, Zenon
  <2> QED BY <1>2, <2>4
<1> QED BY <1>4, <1>5

\* drdynvc's thread takes a message
LEMMA TakePieces ==
    ASSUME IInv, StreamOK, PiecesInv, TakeMessage
    PROVE  HeldOK' /\ BegunOK' /\ OpenOK' /\ PiecesTogether'
<1>1. /\ connection' = connection /\ connected' = connected /\ lock' = lock
      /\ sent' = sent /\ writes' = writes
  BY Zenon DEF TakeMessage
<1>2. Stream' = Stream BY <1>1, Zenon DEF Stream
<1>3. HeldOK BY Zenon DEF PiecesInv
<1>4. Begins BY <1>3, TakeBegins, Zenon
<1>5. CASE job' = job BY <1>1, <1>2, <1>5, StandPieces, Zenon
<1>6. CASE (\A s \in Threads : s # "drdynvc" => job'[s] = job[s]) /\ Quiet("drdynvc")
  <2>1. "drdynvc" \in Threads BY DEF Threads
  <2>2. BegunOK' /\ OpenOK' /\ PiecesTogether' BY <1>1, <1>2, <1>6, <2>1, GoesPieces, Zenon
  <2> QED BY <1>4, <2>2, Zenon DEF Begins
<1> QED BY <1>4, <1>5, <1>6, Zenon DEF Begins

\* the device writes a message
LEMMA DevicePieces ==
    ASSUME IInv, StreamOK, PiecesInv, NEW c \in ChannelIds, NEW n \in 1..2, DeviceWrite(c, n)
    PROVE  HeldOK' /\ BegunOK' /\ OpenOK' /\ PiecesTogether'
<1>1. PICK m : m = MaxPdus + budget.device OBVIOUS
<1>2. /\ connection' = connection /\ connected' = connected /\ lock' = lock
      /\ sent' = sent /\ writes' = writes /\ job["device"] = <<>>
      /\ job' = [job EXCEPT !["device"] = dvcman_write_channel(c, m, n)]
  BY <1>1, Zenon DEF DeviceWrite, Goes
<1>3. budget \in [pdus : Nat, device : Nat] BY Zenon DEF IInv, PeerOK
<1>4. m \in Nat BY <1>1, <1>3, ChannelsAssumption DEF ChannelsAssumption
<1>5. "device" \in Threads BY DEF Threads
<1>6. HeldOK BY Zenon DEF PiecesInv
<1>7. HeldOK' /\ (\A s \in Threads : s # "device" => job'[s] = job[s]) /\ Quiet("device")
  BY <1>2, <1>4, <1>5, <1>6, WriteHeld, Zenon
<1>8. Stream' = Stream BY <1>2, Zenon DEF Stream
<1>9. BegunOK' /\ OpenOK' /\ PiecesTogether' BY <1>2, <1>5, <1>7, <1>8, GoesPieces, Zenon
<1> QED BY <1>7, <1>9

\* the initial states
LEMMA PiecesInit == Init => PiecesInv
<1> SUFFICES ASSUME Init PROVE PiecesInv OBVIOUS
<1>1. main = "idle" /\ job = [t \in Threads |-> <<>>] BY DEF Init
<1>2. \A i \in 1..Len(Stream) : FALSE BY NothingWritten, Zenon
<1>3. \A t \in Threads : job[t] = <<>> BY <1>1
<1>4. DOMAIN <<>> = {} OBVIOUS
<1>5. HeldOK BY <1>3, <1>4, Zenon DEF HeldOK, InOrder
<1>6. BegunOK BY <1>3, Zenon DEF BegunOK, AtSecond
<1>7. OpenOK BY <1>2, Zenon DEF OpenOK
<1>8. PiecesTogether BY <1>2, Zenon DEF PiecesTogether
<1>9. main = "loop" => open BY <1>1
<1> QED BY <1>5, <1>6, <1>7, <1>8, <1>9, Zenon DEF PiecesInv

\* a program changes when its first step is done
LEMMA TailShorter ==
    ASSUME NEW j \in Seq(Steps), j # <<>>
    PROVE  Tail(j) # j
<1>1. PICK u : u = Tail(j) OBVIOUS
<1>2. PICK n \in Nat : n = Len(j) BY LenProperties
<1>3. Len(u) = n - 1 BY <1>1, <1>2, HeadTailProperties
<1>4. n - 1 # n OBVIOUS
<1> QED BY <1>1, <1>2, <1>3, <1>4, Zenon

\* every step keeps PiecesInv
LEMMA PiecesNext == IInv /\ WritesInv /\ PiecesInv /\ [Next]_vars => PiecesInv'
<1> SUFFICES ASSUME IInv, WritesInv, PiecesInv, [Next]_vars PROVE PiecesInv' OBVIOUS
<1>1. StreamOK /\ (main = "loop" => open) BY Zenon DEF WritesInv, PiecesInv
<1>2. main' = "loop" => open' BY <1>1, LoopOpen, Zenon
<1>3. HeldOK' /\ BegunOK' /\ OpenOK' /\ PiecesTogether'
  <2>1. CASE freerdp_channels_post_connect BY <1>1, <2>1, ConnectPieces, Zenon
  <2>2. CASE (SessionThread /\ ~freerdp_channels_post_connect) \/ vars' = vars
    <3>1. connection' = connection /\ job' = job /\ lock' = lock /\ (~connected => ~connected')
      <4>1. CASE SessionThread /\ ~freerdp_channels_post_connect
        <5>1. /\ connection' = connection /\ job' = job /\ lock' = lock
              /\ connected' = connected \/ connected' = FALSE
          BY <4>1, Zenon DEF SessionThread, ReceiveFirst, ReceiveRest, freerdp_channels_process_sync,
             freerdp_channels_disconnect, PostQuit, event_disconnected, dvcman_free,
             freerdp_channels_close
        <5> QED BY <5>1
      <4>2. CASE vars' = vars
        <5>1. connection' = connection /\ job' = job /\ lock' = lock /\ connected' = connected
          BY <4>2, Zenon DEF vars
        <5> QED BY <5>1
      <4> QED BY <2>2, <4>1, <4>2
    <3>2. Stream' = Stream \/ Stream' = Append(Stream, WMQ_QUIT)
      <4>1. ~freerdp_channels_post_connect \/ vars' = vars BY <2>2, Zenon
      <4>2. CASE vars' = vars BY <4>2, Zenon DEF vars, Stream
      <4>3. CASE ~freerdp_channels_post_connect
        <5>1. \/ Stream' = Stream
              \/ Stream' = Append(Stream, WMQ_QUIT)
              \/ \E t, w : Posts(t, w) /\ Stream' = Append(Stream, w)
          BY <1>1, <4>3, StreamStep, Zenon
        <5>2. ASSUME NEW t, NEW w, Posts(t, w) PROVE FALSE
          <6>1. t \in Threads /\ job' = [job EXCEPT ![t] = Tail(job[t])] /\ job[t] # <<>>
            BY <5>2, Zenon DEF Posts, Runs
          <6>2. job \in [Threads -> Seq(Steps)] BY Zenon DEF IInv, TypeOK
          <6>3. job[t] = Tail(job[t]) BY <3>1, <6>1, <6>2
          <6>4. job[t] \in Seq(Steps) BY <6>1, <6>2
          <6> QED BY <6>1, <6>3, <6>4, TailShorter, Zenon
        <5> QED BY <5>1, <5>2
      <4> QED BY <4>1, <4>2, <4>3
    <3> QED BY <1>1, <3>1, <3>2, StandPieces, Zenon
  <2>3. CASE TakeMessage BY <1>1, <2>3, TakePieces, Zenon
  <2>4. CASE \E c \in ChannelIds, n \in 1..2 : DeviceWrite(c, n) BY <1>1, <2>4, DevicePieces, Zenon
  <2>5. CASE \E t \in Threads : Step(t) BY <2>5, StepPieces, Zenon
  <2> QED BY <2>1, <2>2, <2>3, <2>4, <2>5, Zenon DEF Next
<1> QED BY <1>2, <1>3, Zenon DEF PiecesInv

\* The pieces of two messages that two threads write on one channel do not mix
\* on their way to the server, also across the test of channels->connected, the
\* post, a failing write and a disconnection between two pieces.
THEOREM MessagesTogether == Spec => []PiecesTogether
<1>1. PiecesInv => PiecesTogether BY Zenon DEF PiecesInv
<1> QED BY <1>1, InitOK, WritesInit, WritesNext, PiecesInit, PiecesNext, PTL DEF Spec

-----------------------------------------------------------------------------
(* A message of the server is delivered whole.                               *)

\* what the server has sent on this connection, with the PDU whose chunks are
\* being received
Flow == IF dataIn = NoStream THEN posted ELSE Append(posted, dataIn.pdu)

DataOn(p, c) == IsData(p) /\ p.ch = c
Is(p, c, m, k) == DataOn(p, c) /\ p.msg = m /\ p.part = k

\* the requests about a channel, and the answers to them
Asks(p, c) == p.type \in {"CREATE_REQUEST", "CREATE_UNHEARD", "CLOSE_REQUEST"} /\ p.ch = c
Answers(p, c) == p.type \in {"CREATED", "NOT_CREATED", "CLOSED"} /\ p.ch = c

\* a step on the way from a request about c to its answer
Handles(s, c) ==
    s.pdu.ch = c /\ (s.op = "create" \/ (s.op \in Writing /\ Answers(s.pdu, c)))

\* where a request about c may be: among the first h of f are those that have
\* been handled, among the first n of s those the server has received
AskedOf(f, h, c) == {i \in 1..Len(f) : i > h /\ Asks(f[i], c)}
WorkOn(j, c) == {i \in DOMAIN j : Handles(j[i], c)}
AnswerOf(o, s, n, c) ==
    {i \in 1..Len(s) : i > n /\ s[i] # WMQ_QUIT /\ s[i].on = o /\ Answers(s[i], c)}

One(A) == \A x, y \in A : x = y

\* the server waits for the answer before it asks or sends anything else about
\* a channel: there is at most one request or answer on its way
Turn(k, A, B, C) ==
    /\ One(A) /\ One(B) /\ One(C)
    /\ A = {} \/ B = {}
    /\ A = {} \/ C = {}
    /\ B = {} \/ C = {}
    /\ k \in {"none", "up", "failed"} => A = {} /\ B = {} /\ C = {}
TurnOf(c) ==
    Turn(server[c], AskedOf(Flow, Len(handled), c), WorkOn(job["drdynvc"], c),
         AnswerOf(connection, Stream, Len(sent), c))

\* a piece made for the o-th connection
PieceOn(o, c, m, k, n) ==
    [type |-> IF k = 1 /\ n > 1 THEN "DATA_FIRST" ELSE "DATA", ch |-> c, msg |-> m,
     part |-> k, parts |-> n, on |-> o]

\* data on c is a piece of one of its messages ms, follows the pieces before it
\* and comes once; p pieces of the last message have yet to be sent
FlowAt(o, c, f, ms, p, i) ==
    DataOn(f[i], c) =>
        /\ f[i].msg \in 1..Len(ms) /\ f[i].part <= ms[f[i].msg]
        /\ f[i] = PieceOn(o, c, f[i].msg, f[i].part, ms[f[i].msg])
        /\ f[i].part = 2 => \E j \in 1..(i - 1) : Is(f[j], c, f[i].msg, 1)
        /\ f[i].part = 1 /\ f[i].msg > 1 =>
             \E j \in 1..(i - 1) : Is(f[j], c, f[i].msg - 1, ms[f[i].msg - 1])
        /\ \A j \in 1..(i - 1) : ~Is(f[j], c, f[i].msg, f[i].part)
        /\ p = 1 => ~(f[i].msg = Len(ms) /\ f[i].part = 2)

\* a request about c comes between messages
AskAt(c, f, i) ==
    Asks(f[i], c) =>
        \A j \in 1..(i - 1) : DataOn(f[j], c) /\ f[j].part < f[j].parts =>
            \E k \in 1..(i - 1) : Is(f[k], c, f[j].msg, 2)

FlowOK(o, c, f, ms, p) ==
    /\ \A i \in 1..Len(f) : FlowAt(o, c, f, ms, p, i)
    /\ \A i \in 1..Len(f) : AskAt(c, f, i)
    /\ p = 1 => Len(ms) > 0 /\ ms[Len(ms)] = 2

\* every message has arrived, but for what is pending of the last
Arrived(c, f, ms, p) ==
    \A m \in 1..Len(ms) : \E j \in 1..Len(f) :
        Is(f[j], c, m, IF m = Len(ms) THEN ms[m] - p ELSE ms[m])

\* the messages delivered to c are the first ones the server sent
WholeOK(o, c, ms, d) ==
    /\ Len(d) <= Len(ms)
    /\ \A m \in 1..Len(d) : d[m] = [i \in 1..ms[m] |-> PieceOn(o, c, m, i, ms[m])]

\* data of c has been handled when its message has been delivered, or is the
\* first piece of the message being collected
DoneAt(c, f, h, g, d, i) ==
    DataOn(f[i], c) =>
        (i <= h <=> (f[i].msg < d \/ (g # <<>> /\ f[i].msg = d /\ f[i].part = 1)))
GotOK(o, c, f, h, ms, p, g, d) ==
    /\ g # <<>> => /\ d <= Len(ms) /\ ms[d] = 2 /\ g = <<PieceOn(o, c, d, 1, 2)>>
                   /\ \E j \in 1..h : Is(f[j], c, d, 1)
    /\ \A i \in 1..Len(f) : DoneAt(c, f, h, g, d, i)
    /\ p = 1 => d <= Len(ms)

\* what has been collected on a channel
Got(c) == IF dvc[c] = NoChannel THEN <<>> ELSE dvc[c].data

\* drdynvc's thread has not failed
Alive == thread = "run" /\ \A i \in DOMAIN job["drdynvc"] : job["drdynvc"][i].op # "exit"

Managing == {"create", "open", "close"}

KindOK ==
    /\ server \in [ChannelIds -> {"none", "asked", "up", "failed", "closing"}]
    /\ pending \in [ChannelIds -> {0, 1}]
    /\ \A c \in ChannelIds : pending[c] = 1 => server[c] = "up"
    /\ delivered \in [ChannelIds -> Seq(Seq(Pdus))]
    /\ Len(handled) <= Len(posted)
    /\ main \in {"free", "idle", "closed", "late write"} => dataIn = NoStream

\* the device writes data only, and a program that exits does nothing else
\* than leave a channel before
PlanOK ==
    /\ \A i \in DOMAIN job["device"] :
          job["device"][i].op \in Writing => IsData(job["device"][i].pdu)
    /\ \A i, k \in DOMAIN job["drdynvc"] :
          job["drdynvc"][i].op = "exit" => job["drdynvc"][k].op \in {"leave", "exit"}

TurnsOK == \A c \in ChannelIds : TurnOf(c)

\* what the server has sent on c and what has been delivered
SentOn(c) ==
    /\ FlowOK(connection, c, Flow, messages[c], pending[c])
    /\ main = "loop" => Arrived(c, Flow, messages[c], pending[c])
    /\ WholeOK(connection, c, messages[c], delivered[c])
SentOK == \A c \in ChannelIds : SentOn(c)

\* no channel is created, opened or closed while a message on it is collected
ManagedOK(c) ==
    \A i \in DOMAIN job["drdynvc"] :
        job["drdynvc"][i].op \in Managing /\ job["drdynvc"][i].pdu.ch = c => Got(c) = <<>>

CollectsOn(c) ==
    GotOK(connection, c, Flow, Len(handled), messages[c], pending[c], Got(c), Len(delivered[c]) + 1)

CollectOK == Alive => \A c \in ChannelIds : CollectsOn(c) /\ ManagedOK(c)

DeliveryInv == KindOK /\ PlanOK /\ TurnsOK /\ SentOK /\ CollectOK

\* the fields of a PDU that arrives
LEMMA ArrivingFields ==
    ASSUME NEW x \in Arriving
    PROVE  x \in Pdus /\ x.msg \in Nat /\ x.part \in 1..2 /\ x.parts \in 1..2
BY DEF Arriving, Pdus

\* the fields of a piece
LEMMA PieceOnFields ==
    ASSUME NEW o, NEW c, NEW m, NEW k, NEW n, NEW x, x = PieceOn(o, c, m, k, n)
    PROVE  /\ x.type = (IF k = 1 /\ n > 1 THEN "DATA_FIRST" ELSE "DATA")
           /\ x.ch = c /\ x.msg = m /\ x.part = k /\ x.parts = n /\ x.on = o
           /\ IsData(x) /\ DataOn(x, c) /\ Is(x, c, m, k)
           /\ \A d : ~Asks(x, d)
<1>1. /\ x.type = (IF k = 1 /\ n > 1 THEN "DATA_FIRST" ELSE "DATA")
      /\ x.ch = c /\ x.msg = m /\ x.part = k /\ x.parts = n /\ x.on = o
  BY DEF PieceOn
<1>2. x.type = "DATA_FIRST" \/ x.type = "DATA" BY <1>1
<1>3. IsData(x) BY <1>2 DEF IsData
<1>4. \A d : ~Asks(x, d) BY <1>2 DEF Asks
<1> QED BY <1>1, <1>3, <1>4, Zenon DEF DataOn, Is

\* the pieces the model makes are those of the present connection
LEMMA PieceNow ==
    ASSUME NEW c, NEW m, NEW k, NEW n
    PROVE  Piece(c, m, k, n) = PieceOn(connection, c, m, k, n)
BY DEF Piece, Pdu, PieceOn

\* the messages go on as ms begins
Continues(ms, rs) == Len(ms) <= Len(rs) /\ \A m \in 1..Len(ms) : rs[m] = ms[m]

\* what has arrived stays as it is when something is added
LEMMA FlowGrows ==
    ASSUME NEW o, NEW c, NEW f \in Seq(Arriving), NEW x \in Arriving, NEW r, r = Append(f, x),
           NEW ms \in Seq(1..2), NEW rs \in Seq(1..2), NEW p, NEW q, Continues(ms, rs),
           q = 1 => (p = 1 /\ Len(rs) = Len(ms)) \/ Len(rs) > Len(ms),
           NEW i \in 1..Len(f), FlowAt(o, c, f, ms, p, i), AskAt(c, f, i)
    PROVE  FlowAt(o, c, r, rs, q, i) /\ AskAt(c, r, i)
<1>1. /\ Len(f) \in Nat /\ \A j \in 1..Len(f) : r[j] = f[j] BY AppendAll
<1>2. r[i] = f[i] /\ \A j \in 1..(i - 1) : j \in 1..Len(f) /\ r[j] = f[j] BY <1>1
<1>3. Len(ms) \in Nat /\ Len(rs) \in Nat BY LenProperties
<1>4. ASSUME DataOn(f[i], c)
      PROVE  /\ f[i].msg \in 1..Len(rs) /\ f[i].part <= rs[f[i].msg]
             /\ f[i] = PieceOn(o, c, f[i].msg, f[i].part, rs[f[i].msg])
             /\ f[i].part = 2 => \E j \in 1..(i - 1) : Is(r[j], c, f[i].msg, 1)
             /\ f[i].part = 1 /\ f[i].msg > 1 =>
                  \E j \in 1..(i - 1) : Is(r[j], c, f[i].msg - 1, rs[f[i].msg - 1])
             /\ \A j \in 1..(i - 1) : ~Is(r[j], c, f[i].msg, f[i].part)
             /\ q = 1 => ~(f[i].msg = Len(rs) /\ f[i].part = 2)
  <2>1. PICK m : m = f[i].msg OBVIOUS
  <2>2. PICK k : k = f[i].part OBVIOUS
  <2>3. /\ m \in 1..Len(ms) /\ k <= ms[m] /\ f[i] = PieceOn(o, c, m, k, ms[m])
        /\ k = 2 => \E j \in 1..(i - 1) : Is(f[j], c, m, 1)
        /\ k = 1 /\ m > 1 => \E j \in 1..(i - 1) : Is(f[j], c, m - 1, ms[m - 1])
        /\ \A j \in 1..(i - 1) : ~Is(f[j], c, m, k)
        /\ p = 1 => ~(m = Len(ms) /\ k = 2)
    BY <1>4, <2>1, <2>2, Zenon DEF FlowAt
  <2>4. m \in 1..Len(rs) /\ rs[m] = ms[m] BY <1>3, <2>3 DEF Continues
  <2>5. m > 1 => rs[m - 1] = ms[m - 1]
    <3> SUFFICES ASSUME m > 1 PROVE rs[m - 1] = ms[m - 1] OBVIOUS
    <3>1. m - 1 \in 1..Len(ms) BY <1>3, <2>3
    <3> QED BY <3>1, Zenon DEF Continues
  <2>6. q = 1 => ~(m = Len(rs) /\ k = 2) BY <1>3, <2>3
  <2>7. k = 2 => \E j \in 1..(i - 1) : Is(r[j], c, m, 1) BY <1>2, <2>3, Zenon
  <2>8. k = 1 /\ m > 1 => \E j \in 1..(i - 1) : Is(r[j], c, m - 1, rs[m - 1])
    BY <1>2, <2>3, <2>5, Zenon
  <2>9. \A j \in 1..(i - 1) : ~Is(r[j], c, m, k) BY <1>2, <2>3, Zenon
  <2> QED BY <2>1, <2>2, <2>3, <2>4, <2>6, <2>7, <2>8, <2>9, Zenon
<1>5. FlowAt(o, c, r, rs, q, i) BY <1>2, <1>4, Zenon DEF FlowAt
<1>6. AskAt(c, r, i) BY <1>2, Zenon DEF AskAt
<1> QED BY <1>5, <1>6

\* so does what has been delivered and handled
LEMMA GotGrows ==
    ASSUME NEW o, NEW c, NEW f \in Seq(Arriving), NEW x \in Arriving, NEW r, r = Append(f, x),
           NEW h \in Nat, h <= Len(f),
           NEW ms \in Seq(1..2), NEW rs \in Seq(1..2), NEW p, NEW q, Continues(ms, rs),
           NEW g, NEW d \in Nat \ {0}, GotOK(o, c, f, h, ms, p, g, d),
           q = 1 => p = 1 \/ Len(rs) >= d,
           DataOn(x, c) => x.msg >= d /\ (g = <<>> \/ x.msg > d \/ x.part # 1)
    PROVE  GotOK(o, c, r, h, rs, q, g, d)
<1>1. /\ Len(f) \in Nat /\ Len(r) = Len(f) + 1 /\ r[Len(f) + 1] = x
      /\ \A j \in 1..Len(f) : r[j] = f[j]
  BY AppendAll
<1>2. Len(ms) \in Nat /\ Len(rs) \in Nat /\ Len(ms) <= Len(rs) BY LenProperties DEF Continues
<1>3. /\ g # <<>> => /\ d <= Len(ms) /\ ms[d] = 2 /\ g = <<PieceOn(o, c, d, 1, 2)>>
                     /\ \E j \in 1..h : Is(f[j], c, d, 1)
      /\ \A i \in 1..Len(f) : DoneAt(c, f, h, g, d, i)
      /\ p = 1 => d <= Len(ms)
  BY Zenon DEF GotOK
<1>4. \A j \in 1..h : j \in 1..Len(f) BY <1>1
<1>5. x.msg \in Nat BY ArrivingFields
<1>6. ASSUME g # <<>>
      PROVE  /\ d <= Len(rs) /\ rs[d] = 2 /\ g = <<PieceOn(o, c, d, 1, 2)>>
             /\ \E j \in 1..h : Is(r[j], c, d, 1)
  <2>1. PICK j \in 1..h : Is(f[j], c, d, 1) BY <1>3, <1>6
  <2>2. Is(r[j], c, d, 1) BY <1>1, <1>4, <2>1, Zenon
  <2>4. d <= Len(ms) /\ ms[d] = 2 BY <1>3, <1>6
  <2>5. d <= Len(rs) BY <1>2, <2>4
  <2>6. d \in 1..Len(ms) BY <1>2, <2>4
  <2>7. rs[d] = 2 BY <2>4, <2>6, Zenon DEF Continues
  <2> QED BY <1>3, <1>6, <2>2, <2>5, <2>7, Zenon
<1>7. ASSUME NEW i \in 1..Len(r) PROVE DoneAt(c, r, h, g, d, i)
  <2>1. CASE i \in 1..Len(f)
    <3>1. r[i] = f[i] /\ DoneAt(c, f, h, g, d, i) BY <1>1, <1>3, <2>1, Zenon
    <3> QED BY <3>1, Zenon DEF DoneAt
  <2>2. CASE i = Len(f) + 1
    <3>1. r[i] = x /\ ~(i <= h) BY <1>1, <2>2
    <3>2. DataOn(x, c) => ~(x.msg < d) /\ ~(g # <<>> /\ x.msg = d /\ x.part = 1) BY <1>5
    <3> QED BY <3>1, <3>2, Zenon DEF DoneAt
  <2> QED BY <1>1, <2>1, <2>2
<1>8. q = 1 => d <= Len(rs) BY <1>2, <1>3
<1> QED BY <1>6, <1>7, <1>8, Zenon DEF GotOK

\* something is added: what has arrived stays, and the rest is about the new one
LEMMA FlowAppend ==
    ASSUME NEW o, NEW c, NEW f \in Seq(Arriving), NEW x \in Arriving, NEW r, r = Append(f, x),
           NEW ms \in Seq(1..2), NEW rs \in Seq(1..2), NEW p, NEW q, Continues(ms, rs),
           q = 1 => (p = 1 /\ Len(rs) = Len(ms)) \/ Len(rs) > Len(ms),
           FlowOK(o, c, f, ms, p),
           FlowAt(o, c, r, rs, q, Len(f) + 1), AskAt(c, r, Len(f) + 1),
           q = 1 => Len(rs) > 0 /\ rs[Len(rs)] = 2
    PROVE  FlowOK(o, c, r, rs, q)
<1>1. Len(f) \in Nat /\ Len(r) = Len(f) + 1 BY AppendAll
<1>2. \A i \in 1..Len(f) : FlowAt(o, c, r, rs, q, i) /\ AskAt(c, r, i)
  <2> TAKE i \in 1..Len(f)
  <2>1. FlowAt(o, c, f, ms, p, i) /\ AskAt(c, f, i) BY Zenon DEF FlowOK
  <2> QED BY <2>1, FlowGrows, Zenon
<1>3. \A i \in 1..Len(r) : i \in 1..Len(f) \/ i = Len(f) + 1 BY <1>1
<1>4. \A i \in 1..Len(r) : FlowAt(o, c, r, rs, q, i) /\ AskAt(c, r, i) BY <1>2, <1>3, Zenon
<1> QED BY <1>4, Zenon DEF FlowOK

\* what is not about the channel
LEMMA AppendOther ==
    ASSUME NEW o, NEW c, NEW f \in Seq(Arriving), NEW x \in Arriving, NEW r, r = Append(f, x),
           NEW ms \in Seq(1..2), NEW p, ~DataOn(x, c), ~Asks(x, c),
           FlowOK(o, c, f, ms, p), Arrived(c, f, ms, p)
    PROVE  FlowOK(o, c, r, ms, p) /\ Arrived(c, r, ms, p) /\ Continues(ms, ms)
<1>1. /\ Len(f) \in Nat /\ Len(r) = Len(f) + 1 /\ r[Len(f) + 1] = x
      /\ \A j \in 1..Len(f) : r[j] = f[j]
  BY AppendAll
<1>2. FlowAt(o, c, r, ms, p, Len(f) + 1) /\ AskAt(c, r, Len(f) + 1)
  BY <1>1, Zenon DEF FlowAt, AskAt
<1>3. Continues(ms, ms) BY LenProperties DEF Continues
<1>4. p = 1 => Len(ms) > 0 /\ ms[Len(ms)] = 2 BY Zenon DEF FlowOK
<1>5. FlowOK(o, c, r, ms, p) BY <1>2, <1>3, <1>4, FlowAppend, Zenon
<1>6. \A j \in 1..Len(f) : j \in 1..Len(r) BY <1>1
<1>7. Arrived(c, r, ms, p) BY <1>1, <1>6, Zenon DEF Arrived
<1> QED BY <1>3, <1>5, <1>7

\* a request comes between messages
LEMMA AppendAsk ==
    ASSUME NEW o, NEW c, NEW f \in Seq(Arriving), NEW x \in Arriving, NEW r, r = Append(f, x),
           NEW ms \in Seq(1..2), ~DataOn(x, c),
           FlowOK(o, c, f, ms, 0), Arrived(c, f, ms, 0)
    PROVE  FlowOK(o, c, r, ms, 0) /\ Arrived(c, r, ms, 0) /\ Continues(ms, ms)
<1>1. /\ Len(f) \in Nat /\ Len(r) = Len(f) + 1 /\ r[Len(f) + 1] = x
      /\ \A j \in 1..Len(f) : r[j] = f[j]
  BY AppendAll
<1>2. FlowAt(o, c, r, ms, 0, Len(f) + 1) BY <1>1, Zenon DEF FlowAt
<1>3. Continues(ms, ms) BY LenProperties DEF Continues
<1>4. 1 # 0 /\ (Len(f) + 1) - 1 = Len(f) BY <1>1
<1>5. AskAt(c, r, Len(f) + 1)
  <2> SUFFICES ASSUME NEW j \in 1..Len(f), DataOn(r[j], c), r[j].part < r[j].parts
               PROVE  \E k \in 1..Len(f) : Is(r[k], c, r[j].msg, 2)
    BY <1>4 DEF AskAt
  <2>1. PICK m : m = r[j].msg OBVIOUS
  <2>2. /\ m \in 1..Len(ms) /\ r[j].part <= ms[m] /\ r[j] = PieceOn(o, c, m, r[j].part, ms[m])
    <3>1. r[j] = f[j] /\ FlowAt(o, c, f, ms, 0, j) BY <1>1, Zenon DEF FlowOK
    <3> QED BY <2>1, <3>1, Zenon DEF FlowAt
  <2>3. r[j].parts = ms[m] BY <2>2, PieceOnFields
  <2>4. r[j] \in Arriving BY <1>1
  <2>5. r[j].part \in 1..2 BY <2>4, ArrivingFields
  <2>6. ms[m] \in 1..2 BY <2>2
  <2>7. ms[m] = 2 BY <2>3, <2>5, <2>6
  <2>8. PICK k \in 1..Len(f) : Is(f[k], c, m, IF m = Len(ms) THEN ms[m] - 0 ELSE ms[m])
    BY <2>2, Zenon DEF Arrived
  <2>9. (IF m = Len(ms) THEN ms[m] - 0 ELSE ms[m]) = 2 BY <2>7
  <2>10. Is(r[k], c, m, 2) BY <1>1, <2>8, <2>9, Zenon
  <2> QED BY <2>1, <2>10, Zenon
<1>6. FlowOK(o, c, r, ms, 0) BY <1>2, <1>3, <1>4, <1>5, FlowAppend, Zenon
<1>7. \A j \in 1..Len(f) : j \in 1..Len(r) BY <1>1
<1>8. Arrived(c, r, ms, 0) BY <1>1, <1>7, Zenon DEF Arrived
<1> QED BY <1>3, <1>6, <1>8

\* the first piece of a new message
LEMMA AppendFirst ==
    ASSUME NEW o, NEW c, NEW f \in Seq(Arriving), NEW x \in Arriving, NEW r, r = Append(f, x),
           NEW ms \in Seq(1..2), NEW n \in 1..2, NEW rs, rs = Append(ms, n),
           x = PieceOn(o, c, Len(ms) + 1, 1, n),
           FlowOK(o, c, f, ms, 0), Arrived(c, f, ms, 0)
    PROVE  FlowOK(o, c, r, rs, n - 1) /\ Arrived(c, r, rs, n - 1) /\ Continues(ms, rs)
<1>1. /\ Len(f) \in Nat /\ Len(r) = Len(f) + 1 /\ r[Len(f) + 1] = x
      /\ \A j \in 1..Len(f) : r[j] = f[j]
  BY AppendAll
<1>2. PICK l \in Nat : l = Len(ms) BY LenProperties
<1>3. /\ rs \in Seq(1..2) /\ Len(rs) = l + 1 /\ rs[l + 1] = n
      /\ \A m \in 1..l : rs[m] = ms[m]
  BY <1>2, AppendAll
<1>4. Continues(ms, rs) BY <1>2, <1>3 DEF Continues
<1>5. x.msg = l + 1 /\ x.part = 1 /\ DataOn(x, c) /\ Is(x, c, l + 1, 1) /\ \A d : ~Asks(x, d)
  BY <1>2, PieceOnFields
<1>6. (Len(f) + 1) - 1 = Len(f) BY <1>1
<1>7. \A m \in 1..l : \E j \in 1..Len(f) : Is(f[j], c, m, ms[m])
  <2> TAKE m \in 1..l
  <2>1. PICK j \in 1..Len(f) : Is(f[j], c, m, IF m = Len(ms) THEN ms[m] - 0 ELSE ms[m])
    BY <1>2, Zenon DEF Arrived
  <2>2. ms[m] \in 1..2 BY <1>2
  <2>3. (IF m = Len(ms) THEN ms[m] - 0 ELSE ms[m]) = ms[m] BY <2>2
  <2> QED BY <2>1, <2>3
<1>8. FlowAt(o, c, r, rs, n - 1, Len(f) + 1)
  <2>1. l + 1 \in 1..Len(rs) /\ 1 <= rs[l + 1] BY <1>3
  <2>2. x = PieceOn(o, c, l + 1, 1, rs[l + 1]) BY <1>2, <1>3, Zenon
  <2>3. ASSUME l + 1 > 1 PROVE \E j \in 1..Len(f) : Is(r[j], c, (l + 1) - 1, rs[(l + 1) - 1])
    <3>1. (l + 1) - 1 = l /\ l \in 1..l BY <2>3
    <3>2. PICK j \in 1..Len(f) : Is(f[j], c, l, ms[l]) BY <1>7, <3>1
    <3>3. rs[l] = ms[l] BY <1>3, <3>1
    <3>4. Is(r[j], c, l, rs[l]) BY <1>1, <3>2, <3>3, Zenon
    <3> QED BY <3>1, <3>4, Zenon
  <2>4. \A j \in 1..Len(f) : ~Is(r[j], c, l + 1, 1)
    <3> TAKE j \in 1..Len(f)
    <3>1. r[j] = f[j] /\ FlowAt(o, c, f, ms, 0, j) BY <1>1, Zenon DEF FlowOK
    <3>2. DataOn(r[j], c) => r[j].msg \in 1..l BY <1>2, <3>1, Zenon DEF FlowAt
    <3>3. DataOn(r[j], c) => r[j].msg # l + 1 BY <3>2
    <3> QED BY <3>3, Zenon DEF Is
  <2>5. r[Len(f) + 1].part # 2 /\ r[Len(f) + 1] = x BY <1>1, <1>5
  <2> QED BY <1>5, <1>6, <2>1, <2>2, <2>3, <2>4, <2>5 DEF FlowAt
<1>9. AskAt(c, r, Len(f) + 1) BY <1>1, <1>5, Zenon DEF AskAt
<1>10. n - 1 = 1 => Len(rs) > 0 /\ rs[Len(rs)] = 2 BY <1>3
<1>11. Len(rs) > Len(ms) BY <1>2, <1>3
<1>12. FlowOK(o, c, r, rs, n - 1)
  <2>1. PICK q : q = n - 1 OBVIOUS
  <2>2. FlowAt(o, c, r, rs, q, Len(f) + 1) BY <1>8, <2>1, Zenon
  <2>3. q = 1 => Len(rs) > 0 /\ rs[Len(rs)] = 2 BY <1>10, <2>1, Zenon
  <2>4. FlowOK(o, c, r, rs, q) BY <1>3, <1>4, <1>9, <1>11, <2>2, <2>3, FlowAppend, Zenon
  <2> QED BY <2>1, <2>4, Zenon
<1>13. Arrived(c, r, rs, n - 1)
  <2> SUFFICES ASSUME NEW m \in 1..(l + 1)
               PROVE  \E j \in 1..Len(r) : Is(r[j], c, m, IF m = Len(rs) THEN rs[m] - (n - 1) ELSE rs[m])
    BY <1>3, Zenon DEF Arrived
  <2>1. CASE m = l + 1
    <3>1. (IF m = Len(rs) THEN rs[m] - (n - 1) ELSE rs[m]) = 1 BY <1>3, <2>1
    <3>2. Len(f) + 1 \in 1..Len(r) /\ Is(r[Len(f) + 1], c, m, 1) BY <1>1, <1>5, <2>1
    <3> QED BY <3>1, <3>2, Zenon
  <2>2. CASE m # l + 1
    <3>1. m \in 1..l BY <2>2
    <3>2. (IF m = Len(rs) THEN rs[m] - (n - 1) ELSE rs[m]) = ms[m] BY <1>3, <2>2, <3>1, Zenon
    <3>3. PICK j \in 1..Len(f) : Is(f[j], c, m, ms[m]) BY <1>7, <3>1
    <3>4. j \in 1..Len(r) /\ r[j] = f[j] BY <1>1
    <3> QED BY <3>2, <3>3, <3>4, Zenon
  <2> QED BY <2>1, <2>2
<1> QED BY <1>4, <1>12, <1>13

\* the second piece of the last message
LEMMA AppendSecond ==
    ASSUME NEW o, NEW c, NEW f \in Seq(Arriving), NEW x \in Arriving, NEW r, r = Append(f, x),
           NEW ms \in Seq(1..2), x = PieceOn(o, c, Len(ms), 2, 2),
           FlowOK(o, c, f, ms, 1), Arrived(c, f, ms, 1)
    PROVE  FlowOK(o, c, r, ms, 0) /\ Arrived(c, r, ms, 0) /\ Continues(ms, ms)
<1>1. /\ Len(f) \in Nat /\ Len(r) = Len(f) + 1 /\ r[Len(f) + 1] = x
      /\ \A j \in 1..Len(f) : r[j] = f[j]
  BY AppendAll
<1>2. PICK l \in Nat : l = Len(ms) BY LenProperties
<1>3. l > 0 /\ ms[l] = 2 BY <1>2 DEF FlowOK
<1>4. Continues(ms, ms) BY LenProperties DEF Continues
<1>5. x.msg = l /\ x.part = 2 /\ DataOn(x, c) /\ Is(x, c, l, 2) /\ \A d : ~Asks(x, d)
  BY <1>2, PieceOnFields
<1>6. (Len(f) + 1) - 1 = Len(f) /\ 0 # 1 /\ 2 # 1 BY <1>1
<1>7. FlowAt(o, c, r, ms, 0, Len(f) + 1)
  <2>1. l \in 1..Len(ms) /\ 2 <= ms[l] BY <1>2, <1>3
  <2>2. x = PieceOn(o, c, l, 2, ms[l]) BY <1>2, <1>3, Zenon
  <2>3. \E j \in 1..Len(f) : Is(r[j], c, l, 1)
    <3>1. PICK j \in 1..Len(f) : Is(f[j], c, l, IF l = Len(ms) THEN ms[l] - 1 ELSE ms[l])
      BY <2>1, Zenon DEF Arrived
    <3>2. (IF l = Len(ms) THEN ms[l] - 1 ELSE ms[l]) = 1 BY <1>2, <1>3
    <3>3. Is(r[j], c, l, 1) BY <1>1, <3>1, <3>2, Zenon
    <3> QED BY <3>3
  <2>4. \A j \in 1..Len(f) : ~Is(r[j], c, l, 2)
    <3> TAKE j \in 1..Len(f)
    <3>1. r[j] = f[j] /\ FlowAt(o, c, f, ms, 1, j) BY <1>1, Zenon DEF FlowOK
    <3>2. DataOn(r[j], c) => ~(r[j].msg = l /\ r[j].part = 2) BY <1>2, <3>1, Zenon DEF FlowAt
    <3> QED BY <3>2, Zenon DEF Is
  <2> QED BY <1>1, <1>5, <1>6, <2>1, <2>2, <2>3, <2>4 DEF FlowAt
<1>8. AskAt(c, r, Len(f) + 1) BY <1>1, <1>5, Zenon DEF AskAt
<1>9. FlowOK(o, c, r, ms, 0) BY <1>4, <1>6, <1>7, <1>8, FlowAppend, Zenon
<1>10. Arrived(c, r, ms, 0)
  <2> SUFFICES ASSUME NEW m \in 1..l
               PROVE  \E j \in 1..Len(r) : Is(r[j], c, m, IF m = Len(ms) THEN ms[m] - 0 ELSE ms[m])
    BY <1>2, Zenon DEF Arrived
  <2>1. CASE m = l
    <3>1. (IF m = Len(ms) THEN ms[m] - 0 ELSE ms[m]) = 2 BY <1>3, <2>1
    <3>2. Len(f) + 1 \in 1..Len(r) /\ Is(r[Len(f) + 1], c, m, 2) BY <1>1, <1>5, <2>1
    <3> QED BY <3>1, <3>2, Zenon
  <2>2. CASE m # l
    <3>1. PICK j \in 1..Len(f) : Is(f[j], c, m, IF m = Len(ms) THEN ms[m] - 1 ELSE ms[m])
      BY <1>2, Zenon DEF Arrived
    <3>2. Is(f[j], c, m, IF m = Len(ms) THEN ms[m] - 0 ELSE ms[m]) BY <1>2, <2>2, <3>1, Zenon
    <3>3. j \in 1..Len(r) /\ r[j] = f[j] BY <1>1
    <3> QED BY <3>2, <3>3, Zenon
  <2> QED BY <2>1, <2>2
<1> QED BY <1>4, <1>9, <1>10

\* what is left when the PDU being received is given up
LEMMA FlowShort ==
    ASSUME NEW o, NEW c, NEW f \in Seq(Arriving), NEW x \in Arriving, NEW r, r = Append(f, x),
           NEW ms, NEW p, FlowOK(o, c, r, ms, p)
    PROVE  FlowOK(o, c, f, ms, p)
<1>1. /\ Len(f) \in Nat /\ Len(r) = Len(f) + 1 /\ \A j \in 1..Len(f) : r[j] = f[j]
  BY AppendAll
<1>2. ASSUME NEW i \in 1..Len(f) PROVE FlowAt(o, c, f, ms, p, i) /\ AskAt(c, f, i)
  <2>1. i \in 1..Len(r) /\ r[i] = f[i] BY <1>1
  <2>2. \A j \in 1..(i - 1) : r[j] = f[j] BY <1>1
  <2>3. FlowAt(o, c, r, ms, p, i) /\ AskAt(c, r, i) BY <2>1, Zenon DEF FlowOK
  <2>4. FlowAt(o, c, f, ms, p, i) BY <2>1, <2>2, <2>3, Zenon DEF FlowAt
  <2>5. AskAt(c, f, i) BY <2>1, <2>2, <2>3, Zenon DEF AskAt
  <2> QED BY <2>4, <2>5
<1> QED BY <1>2, Zenon DEF FlowOK

\* what has been delivered stays right when the server goes on
LEMMA WholeGrows ==
    ASSUME NEW o, NEW c, NEW ms \in Seq(1..2), NEW rs \in Seq(1..2), Continues(ms, rs),
           NEW S, NEW d \in Seq(S), WholeOK(o, c, ms, d)
    PROVE  WholeOK(o, c, rs, d)
<1>1. Len(ms) \in Nat /\ Len(rs) \in Nat /\ Len(d) \in Nat BY LenProperties
<1>2. Len(d) <= Len(ms) /\ Len(ms) <= Len(rs) BY Zenon DEF WholeOK, Continues
<1>3. Len(d) <= Len(rs) BY <1>1, <1>2
<1>4. \A m \in 1..Len(d) : m \in 1..Len(ms) BY <1>1, <1>2
<1>5. \A m \in 1..Len(d) : rs[m] = ms[m] BY <1>4, Zenon DEF Continues
<1> QED BY <1>3, <1>5, Zenon DEF WholeOK

\* something is taken that is not data on the channel
LEMMA TakenOther ==
    ASSUME NEW o, NEW c, NEW f \in Seq(Arriving), NEW h \in Nat, ~DataOn(f[h + 1], c),
           NEW ms, NEW p, NEW g, NEW d, GotOK(o, c, f, h, ms, p, g, d)
    PROVE  GotOK(o, c, f, h + 1, ms, p, g, d)
<1>1. \A j \in 1..h : j \in 1..(h + 1) OBVIOUS
<1>2. ASSUME NEW i \in 1..Len(f) PROVE DoneAt(c, f, h + 1, g, d, i)
  <2>1. DoneAt(c, f, h, g, d, i) BY Zenon DEF GotOK
  <2>2. CASE i = h + 1 BY <2>2, Zenon DEF DoneAt
  <2>3. CASE i # h + 1
    <3>1. i <= h <=> i <= h + 1 BY <2>3, LenProperties
    <3> QED BY <2>1, <3>1, Zenon DEF DoneAt
  <2> QED BY <2>2, <2>3
<1> QED BY <1>1, <1>2, Zenon DEF GotOK

\* the data taken is the piece the channel waits for
LEMMA NextPiece ==
    ASSUME NEW o, NEW c, NEW f \in Seq(Arriving), NEW h \in Nat, h + 1 <= Len(f),
           NEW x, x = f[h + 1], DataOn(x, c),
           NEW ms \in Seq(1..2), NEW p, NEW g, NEW d \in Nat \ {0},
           FlowOK(o, c, f, ms, p), GotOK(o, c, f, h, ms, p, g, d)
    PROVE  /\ d \in 1..Len(ms) /\ x.msg = d /\ ms[d] \in 1..2
           /\ \/ g = <<>> /\ x.part = 1
              \/ g = <<PieceOn(o, c, d, 1, 2)>> /\ x.part = 2 /\ ms[d] = 2
           /\ x = PieceOn(o, c, d, x.part, ms[d])
<1>1. h + 1 \in 1..Len(f) /\ ~(h + 1 <= h) /\ (h + 1) - 1 = h BY LenProperties
<1>2. \A j \in 1..h : j \in 1..Len(f) /\ j <= h BY LenProperties
<1>3. x \in Arriving BY <1>1
<1>4. PICK m : m = x.msg OBVIOUS
<1>5. PICK k : k = x.part OBVIOUS
<1>6. m \in Nat /\ k \in 1..2 BY <1>3, <1>4, <1>5, ArrivingFields
<1>7. /\ m \in 1..Len(ms) /\ k <= ms[m] /\ x = PieceOn(o, c, m, k, ms[m])
      /\ k = 2 => \E j \in 1..h : Is(f[j], c, m, 1)
      /\ k = 1 /\ m > 1 => \E j \in 1..h : Is(f[j], c, m - 1, ms[m - 1])
  <2>1. FlowAt(o, c, f, ms, p, h + 1) BY <1>1, Zenon DEF FlowOK
  <2> QED BY <1>1, <1>4, <1>5, <2>1, Zenon DEF FlowAt
<1>8. ~(m < d) /\ ~(g # <<>> /\ m = d /\ k = 1)
  <2>1. DoneAt(c, f, h, g, d, h + 1) BY <1>1, Zenon DEF GotOK
  <2> QED BY <1>1, <1>4, <1>5, <2>1, Zenon DEF DoneAt
<1>9. ASSUME NEW j \in 1..h, NEW mm, NEW kk, Is(f[j], c, mm, kk)
      PROVE  mm < d \/ (g # <<>> /\ mm = d /\ kk = 1)
  <2>1. DoneAt(c, f, h, g, d, j) BY <1>2, Zenon DEF GotOK
  <2> QED BY <1>2, <1>9, <2>1, Zenon DEF DoneAt, Is
<1>10. g # <<>> => ms[d] = 2 /\ g = <<PieceOn(o, c, d, 1, 2)>> BY Zenon DEF GotOK
<1>11. CASE k = 2
  <2>1. m < d \/ (g # <<>> /\ m = d) BY <1>7, <1>9, <1>11, Zenon
  <2>2. g # <<>> /\ m = d BY <1>8, <2>1, Zenon
  <2>3. ms[d] = 2 BY <1>10, <2>2, Zenon
  <2> QED BY <1>4, <1>5, <1>7, <1>10, <1>11, <2>2, <2>3
<1>12. CASE k = 1
  <2>1. m = d
    <3>1. CASE m = 1 BY <1>8, <3>1
    <3>2. CASE m > 1
      <4>1. m - 1 < d \/ (g # <<>> /\ m - 1 = d /\ ms[m - 1] = 1) BY <1>7, <1>9, <1>12, <3>2, Zenon
      <4>2. ~(g # <<>> /\ m - 1 = d /\ ms[m - 1] = 1) BY <1>10
      <4>3. m - 1 < d BY <4>1, <4>2, Zenon
      <4> QED BY <1>6, <1>8, <4>3
    <3> QED BY <1>7, <3>1, <3>2, LenProperties
  <2>2. g = <<>> BY <1>8, <1>12, <2>1, Zenon
  <2>3. ms[d] \in 1..2 BY <1>7, <2>1
  <2> QED BY <1>4, <1>5, <1>7, <1>12, <2>1, <2>2, <2>3, Zenon
<1> QED BY <1>6, <1>11, <1>12

\* a message is complete with the data taken: the second piece of two, or the
\* only one
LEMMA TakenLast ==
    ASSUME NEW o, NEW c, NEW f \in Seq(Arriving), NEW h \in Nat, h + 1 <= Len(f),
           NEW x, x = f[h + 1], DataOn(x, c),
           NEW ms \in Seq(1..2), NEW p, NEW g, NEW d \in Nat \ {0},
           FlowOK(o, c, f, ms, p), GotOK(o, c, f, h, ms, p, g, d),
           x.part = ms[d]
    PROVE  GotOK(o, c, f, h + 1, ms, p, <<>>, d + 1)
<1>1. /\ d \in 1..Len(ms) /\ x.msg = d /\ ms[d] \in 1..2
      /\ \/ g = <<>> /\ x.part = 1
         \/ g # <<>> /\ x.part = 2 /\ ms[d] = 2
  <2>1. <<PieceOn(o, c, d, 1, 2)>> # <<>> OBVIOUS
  <2>2. /\ d \in 1..Len(ms) /\ x.msg = d /\ ms[d] \in 1..2
        /\ \/ g = <<>> /\ x.part = 1
           \/ g = <<PieceOn(o, c, d, 1, 2)>> /\ x.part = 2 /\ ms[d] = 2
    BY NextPiece
  <2> QED BY <2>1, <2>2, Zenon
<1>2. h + 1 \in 1..Len(f) BY LenProperties
<1>3. ASSUME NEW i \in 1..Len(f), DataOn(f[i], c) PROVE i <= h + 1 <=> f[i].msg < d + 1
  <2>1. PICK m : m = f[i].msg OBVIOUS
  <2>2. PICK k : k = f[i].part OBVIOUS
  <2>3. m \in Nat /\ k \in 1..2 BY <2>1, <2>2, ArrivingFields
  <2>4. i <= h <=> (m < d \/ (g # <<>> /\ m = d /\ k = 1))
    <3>1. DoneAt(c, f, h, g, d, i) BY Zenon DEF GotOK
    <3> QED BY <1>3, <2>1, <2>2, <3>1, Zenon DEF DoneAt
  <2>5. CASE i = h + 1 BY <1>1, <2>1, <2>3, <2>5
  <2>6. CASE i <= h
    <3>1. m < d \/ m = d BY <2>4, <2>6, Zenon
    <3> QED BY <2>1, <2>3, <2>6, <3>1
  <2>7. CASE i > h + 1
    <3>1. ~(i <= h) /\ ~(i <= h + 1) BY <2>7
    <3>2. ~(m < d) /\ ~(g # <<>> /\ m = d /\ k = 1) BY <2>4, <3>1, Zenon
    <3>3. m # d
      <4> SUFFICES ASSUME m = d PROVE FALSE OBVIOUS
      <4>1. k <= ms[d] /\ \A j \in 1..(i - 1) : ~Is(f[j], c, d, k)
        <5>1. FlowAt(o, c, f, ms, p, i) BY Zenon DEF FlowOK
        <5> QED BY <1>3, <2>1, <2>2, <5>1, Zenon DEF FlowAt
      <4>2. h + 1 \in 1..(i - 1) BY <2>7
      <4>3. k # x.part BY <1>1, <4>1, <4>2, Zenon DEF Is
      <4>4. CASE g = <<>> BY <1>1, <2>3, <4>1, <4>3, <4>4
      <4>5. CASE g # <<>>
        <5>1. k # 1 BY <3>2, <4>5, Zenon
        <5>2. x.part = 2 BY <1>1, <4>5, Zenon
        <5> QED BY <2>3, <4>3, <5>1, <5>2
      <4> QED BY <4>4, <4>5
    <3> QED BY <2>1, <2>3, <3>1, <3>2, <3>3
  <2> QED BY <2>5, <2>6, <2>7
<1>4. ASSUME NEW i \in 1..Len(f) PROVE DoneAt(c, f, h + 1, <<>>, d + 1, i)
  BY <1>3, Zenon DEF DoneAt
<1>5. p = 1 => d + 1 <= Len(ms)
  <2> SUFFICES ASSUME p = 1 PROVE d + 1 <= Len(ms) OBVIOUS
  <2>1. Len(ms) > 0 /\ ms[Len(ms)] = 2 BY Zenon DEF FlowOK
  <2>2. ~(d = Len(ms) /\ x.part = 2)
    <3>1. FlowAt(o, c, f, ms, p, h + 1) BY <1>2, Zenon DEF FlowOK
    <3> QED BY <1>1, <3>1, Zenon DEF FlowAt
  <2>3. d # Len(ms) BY <2>1, <2>2, Zenon
  <2> QED BY <1>1, <2>3, LenProperties
<1> QED BY <1>4, <1>5, Zenon DEF GotOK

\* the first piece of two is taken
LEMMA TakenFirst ==
    ASSUME NEW o, NEW c, NEW f \in Seq(Arriving), NEW h \in Nat, h + 1 <= Len(f),
           NEW x, x = f[h + 1], DataOn(x, c),
           NEW ms \in Seq(1..2), NEW p, NEW d \in Nat \ {0},
           FlowOK(o, c, f, ms, p), GotOK(o, c, f, h, ms, p, <<>>, d),
           x.part = 1, ms[d] = 2
    PROVE  GotOK(o, c, f, h + 1, ms, p, <<x>>, d)
<1>1. d \in 1..Len(ms) /\ x.msg = d /\ x = PieceOn(o, c, d, 1, 2)
  <2>1. d \in 1..Len(ms) /\ x.msg = d /\ x = PieceOn(o, c, d, x.part, ms[d]) BY NextPiece
  <2> QED BY <2>1, Zenon
<1>2. h + 1 \in 1..Len(f) /\ h + 1 \in 1..(h + 1) /\ d <= Len(ms) BY <1>1, LenProperties
<1>3. Is(f[h + 1], c, d, 1) BY <1>1, Zenon DEF Is
<1>4. <<x>> # <<>> OBVIOUS
<1>5. ASSUME NEW i \in 1..Len(f), DataOn(f[i], c)
      PROVE  i <= h + 1 <=> (f[i].msg < d \/ (f[i].msg = d /\ f[i].part = 1))
  <2>1. PICK m : m = f[i].msg OBVIOUS
  <2>2. PICK k : k = f[i].part OBVIOUS
  <2>3. m \in Nat /\ k \in 1..2 BY <2>1, <2>2, ArrivingFields
  <2>4. i <= h <=> m < d
    <3>1. DoneAt(c, f, h, <<>>, d, i) BY Zenon DEF GotOK
    <3> QED BY <1>5, <2>1, <3>1, Zenon DEF DoneAt
  <2>5. CASE i = h + 1
    <3>1. f[i] = x BY <2>5, Zenon
    <3>2. i <= h + 1 BY <2>5
    <3> QED BY <1>1, <3>1, <3>2, Zenon
  <2>6. CASE i <= h BY <2>1, <2>4, <2>6
  <2>7. CASE i > h + 1
    <3>1. ~(i <= h) /\ ~(i <= h + 1) BY <2>7
    <3>2. ~(m = d /\ k = 1)
      <4>1. FlowAt(o, c, f, ms, p, i) BY Zenon DEF FlowOK
      <4>2. \A j \in 1..(i - 1) : ~Is(f[j], c, m, k) BY <1>5, <2>1, <2>2, <4>1, Zenon DEF FlowAt
      <4>3. h + 1 \in 1..(i - 1) BY <2>7
      <4> QED BY <1>3, <4>2, <4>3, Zenon
    <3> QED BY <2>1, <2>2, <2>4, <3>1, <3>2, Zenon
  <2> QED BY <2>5, <2>6, <2>7
<1>6. ASSUME NEW i \in 1..Len(f) PROVE DoneAt(c, f, h + 1, <<x>>, d, i)
  BY <1>4, <1>5, Zenon DEF DoneAt
<1>7. \E j \in 1..(h + 1) : Is(f[j], c, d, 1) BY <1>2, <1>3
<1>8. <<x>> = <<PieceOn(o, c, d, 1, 2)>> BY <1>1, Zenon
<1> QED BY <1>2, <1>6, <1>7, <1>8, Zenon DEF GotOK

\* nothing is being collected on a channel when a request about it is taken
LEMMA TakenAsk ==
    ASSUME NEW o, NEW c, NEW f \in Seq(Arriving), NEW h \in Nat, h + 1 <= Len(f),
           Asks(f[h + 1], c),
           NEW ms \in Seq(1..2), NEW p, NEW g, NEW d \in Nat \ {0},
           FlowOK(o, c, f, ms, p), GotOK(o, c, f, h, ms, p, g, d)
    PROVE  g = <<>>
<1> SUFFICES ASSUME g # <<>> PROVE FALSE OBVIOUS
<1>1. h + 1 \in 1..Len(f) /\ (h + 1) - 1 = h BY LenProperties
<1>2. \A j \in 1..h : j \in 1..Len(f) /\ j <= h BY LenProperties
<1>3. ms[d] = 2 /\ \E j \in 1..h : Is(f[j], c, d, 1) BY Zenon DEF GotOK
<1>4. PICK j \in 1..h : Is(f[j], c, d, 1) BY <1>3
<1>5. f[j] = PieceOn(o, c, d, 1, 2)
  <2>1. FlowAt(o, c, f, ms, p, j) BY <1>2, Zenon DEF FlowOK
  <2>2. DataOn(f[j], c) /\ f[j].msg = d /\ f[j].part = 1 BY <1>4, Zenon DEF Is
  <2>3. f[j] = PieceOn(o, c, f[j].msg, f[j].part, ms[f[j].msg]) BY <2>1, <2>2, Zenon DEF FlowAt
  <2> QED BY <1>3, <2>2, <2>3, Zenon
<1>6. f[j].part = 1 /\ f[j].parts = 2 /\ f[j].msg = d /\ DataOn(f[j], c) BY <1>5, PieceOnFields
<1>7. f[j].part < f[j].parts BY <1>6
<1>8. AskAt(c, f, h + 1) BY <1>1, Zenon DEF FlowOK
<1>9. PICK k \in 1..h : Is(f[k], c, d, 2) BY <1>1, <1>6, <1>7, <1>8, Zenon DEF AskAt
<1>10. DoneAt(c, f, h, g, d, k) BY <1>2, Zenon DEF GotOK
<1>11. d < d \/ 2 = 1 BY <1>2, <1>9, <1>10, Zenon DEF DoneAt, Is
<1> QED BY <1>11

\* a message that is complete is delivered as the server sent it
LEMMA WholeAdds ==
    ASSUME NEW o, NEW c, NEW ms \in Seq(1..2), NEW S, NEW d \in Seq(S), WholeOK(o, c, ms, d),
           NEW l, l = Len(d) + 1, l \in 1..Len(ms), NEW e \in S,
           e = [i \in 1..ms[l] |-> PieceOn(o, c, l, i, ms[l])]
    PROVE  WholeOK(o, c, ms, Append(d, e))
<1>1. PICK r : r = Append(d, e) OBVIOUS
<1>2. /\ Len(d) \in Nat /\ Len(r) = Len(d) + 1 /\ r[Len(d) + 1] = e
      /\ \A m \in 1..Len(d) : r[m] = d[m]
  BY <1>1, AppendAll
<1>3. Len(r) <= Len(ms) BY <1>2, LenProperties
<1>4. \A m \in 1..Len(r) : m = l \/ m \in 1..Len(d) BY <1>2
<1>5. \A m \in 1..Len(r) : r[m] = [i \in 1..ms[m] |-> PieceOn(o, c, m, i, ms[m])]
  BY <1>2, <1>4, Zenon DEF WholeOK
<1> QED BY <1>1, <1>3, <1>5, Zenon DEF WholeOK

\* a message of one piece
LEMMA OnePiece ==
    ASSUME NEW o, NEW c, NEW l, NEW x, x = PieceOn(o, c, l, 1, 1)
    PROVE  <<x>> = [i \in 1..1 |-> PieceOn(o, c, l, i, 1)]
<1>1. \A i \in 1..1 : i = 1 OBVIOUS
<1>2. [i \in 1..1 |-> PieceOn(o, c, l, i, 1)] = [i \in 1..1 |-> x] BY <1>1, Zenon
<1>3. <<x>> = [i \in 1..1 |-> x] OBVIOUS
<1> QED BY <1>2, <1>3

\* a message of two
LEMMA TwoPieces ==
    ASSUME NEW o, NEW c, NEW l, NEW x, NEW y, x = PieceOn(o, c, l, 1, 2), y = PieceOn(o, c, l, 2, 2)
    PROVE  <<x, y>> = [i \in 1..2 |-> PieceOn(o, c, l, i, 2)]
<1>1. \A i \in 1..2 : i = 1 \/ i = 2 OBVIOUS
<1>2. \A i \in 1..2 : PieceOn(o, c, l, i, 2) = IF i = 1 THEN x ELSE y BY <1>1
<1>3. [i \in 1..2 |-> PieceOn(o, c, l, i, 2)] = [i \in 1..2 |-> IF i = 1 THEN x ELSE y]
  BY <1>2, Zenon
<1>4. <<x, y>> = [i \in 1..2 |-> IF i = 1 THEN x ELSE y] OBVIOUS
<1> QED BY <1>3, <1>4

-----------------------------------------------------------------------------
(* Requests and answers on their way.                                        *)

\* nothing appears, and what there is stays one
Fewer(X, Y) == One(X) /\ (X # {} => Y # {})

\* then it is still at most one
LEMMA TurnFewer ==
    ASSUME NEW k, NEW A, NEW B, NEW C, Turn(k, A, B, C), NEW X, NEW Y, NEW Z,
           Fewer(X, A), Fewer(Y, B), Fewer(Z, C)
    PROVE  Turn(k, X, Y, Z)
BY Zenon DEF Turn, Fewer

\* a part of what there was
LEMMA FewerPart ==
    ASSUME NEW A, One(A), NEW X, X \subseteq A
    PROVE  Fewer(X, A)
BY Zenon DEF Fewer, One

\* a PDU of the server is added: it is the only request about the channel, or
\* none at all
LEMMA AskedGrows ==
    ASSUME NEW f \in Seq(Arriving), NEW x \in Arriving, NEW r, r = Append(f, x), NEW c,
           NEW h \in Nat, h <= Len(f)
    PROVE  /\ ~Asks(x, c) => AskedOf(r, h, c) = AskedOf(f, h, c)
           /\ AskedOf(f, h, c) = {} => One(AskedOf(r, h, c))
           /\ AskedOf(f, h, c) \subseteq AskedOf(r, h, c)
<1>1. /\ Len(f) \in Nat /\ Len(r) = Len(f) + 1 /\ r[Len(f) + 1] = x
      /\ \A j \in 1..Len(f) : r[j] = f[j]
  BY AppendAll
<1>2. \A i \in 1..Len(r) : i \in 1..Len(f) \/ i = Len(f) + 1 BY <1>1
<1>3. \A i \in 1..Len(f) : i \in 1..Len(r) BY <1>1
<1>4. \A i \in AskedOf(r, h, c) : i \in AskedOf(f, h, c) \/ (i = Len(f) + 1 /\ Asks(x, c))
  BY <1>1, <1>2, Zenon DEF AskedOf
<1>5. AskedOf(f, h, c) \subseteq AskedOf(r, h, c) BY <1>1, <1>3, Zenon DEF AskedOf
<1>6. AskedOf(f, h, c) = {} => One(AskedOf(r, h, c)) BY <1>4, Zenon DEF One
<1>7. ~Asks(x, c) => AskedOf(r, h, c) = AskedOf(f, h, c) BY <1>4, <1>5, Zenon
<1> QED BY <1>5, <1>6, <1>7

\* one is taken
LEMMA AskedTaken ==
    ASSUME NEW f \in Seq(Arriving), NEW h \in Nat, h + 1 <= Len(f), NEW c
    PROVE  /\ AskedOf(f, h + 1, c) \subseteq AskedOf(f, h, c)
           /\ Asks(f[h + 1], c) => h + 1 \in AskedOf(f, h, c)
           /\ h + 1 \notin AskedOf(f, h + 1, c)
<1>1. h + 1 \in 1..Len(f) /\ h + 1 > h /\ ~(h + 1 > h + 1) BY LenProperties
<1>2. \A i \in 1..Len(f) : i > h + 1 => i > h BY LenProperties
<1> QED BY <1>1, <1>2, Zenon DEF AskedOf

\* something is written: the answer, or nothing about the channel
LEMMA AnswerGrows ==
    ASSUME NEW s \in Seq(Written), NEW w \in Written, NEW r, r = Append(s, w), NEW c, NEW o,
           NEW n \in Nat
    PROVE  /\ w = WMQ_QUIT => AnswerOf(o, r, n, c) \subseteq AnswerOf(o, s, n, c)
           /\ ~Answers(w, c) => AnswerOf(o, r, n, c) \subseteq AnswerOf(o, s, n, c)
           /\ AnswerOf(o, s, n, c) = {} => One(AnswerOf(o, r, n, c))
<1>1. /\ Len(s) \in Nat /\ Len(r) = Len(s) + 1 /\ r[Len(s) + 1] = w
      /\ \A j \in 1..Len(s) : r[j] = s[j]
  BY AppendAll
<1>2. \A i \in 1..Len(r) : i \in 1..Len(s) \/ i = Len(s) + 1 BY <1>1
<1>3. \A i \in 1..Len(s) : i \in 1..Len(r) BY <1>1
<1>4. \A i \in AnswerOf(o, r, n, c) :
         i \in AnswerOf(o, s, n, c) \/ (i = Len(s) + 1 /\ w # WMQ_QUIT /\ Answers(w, c))
  BY <1>1, <1>2, Zenon DEF AnswerOf
<1>5. AnswerOf(o, s, n, c) \subseteq AnswerOf(o, r, n, c) BY <1>1, <1>3, Zenon DEF AnswerOf
<1>6. AnswerOf(o, s, n, c) = {} => One(AnswerOf(o, r, n, c)) BY <1>4, Zenon DEF One
<1>7. w = WMQ_QUIT => AnswerOf(o, r, n, c) \subseteq AnswerOf(o, s, n, c) BY <1>4, <1>5, Zenon
<1>8. ~Answers(w, c) => AnswerOf(o, r, n, c) \subseteq AnswerOf(o, s, n, c) BY <1>4, <1>5, Zenon
<1> QED BY <1>6, <1>7, <1>8

\* one is received by the server
LEMMA AnswerTaken ==
    ASSUME NEW s \in Seq(Written), NEW n \in Nat, n + 1 <= Len(s), NEW c, NEW o
    PROVE  /\ AnswerOf(o, s, n + 1, c) \subseteq AnswerOf(o, s, n, c)
           /\ s[n + 1] # WMQ_QUIT /\ s[n + 1].on = o /\ Answers(s[n + 1], c)
                => n + 1 \in AnswerOf(o, s, n, c)
           /\ n + 1 \notin AnswerOf(o, s, n + 1, c)
<1>1. n + 1 \in 1..Len(s) /\ n + 1 > n /\ ~(n + 1 > n + 1) BY LenProperties
<1>2. \A i \in 1..Len(s) : i > n + 1 => i > n BY LenProperties
<1> QED BY <1>1, <1>2, Zenon DEF AnswerOf

\* the only one is taken
LEMMA OneTaken ==
    ASSUME NEW A, One(A), NEW a \in A, NEW X, X \subseteq A, a \notin X
    PROVE  X = {}
BY Zenon DEF One

\* a program goes on with its next step
LEMMA WorkTail ==
    ASSUME NEW j \in Seq(Steps), j # <<>>, NEW u, u = Tail(j), NEW c, One(WorkOn(j, c))
    PROVE  Fewer(WorkOn(u, c), WorkOn(j, c)) /\ (Handles(j[1], c) => WorkOn(u, c) = {})
<1>1. /\ u \in Seq(Steps) /\ Len(u) = Len(j) - 1 /\ \A i \in 1..Len(u) : u[i] = j[i + 1]
  BY HeadTailProperties
<1>2. Len(j) \in Nat \ {0} BY EmptySeq
<1>3. DOMAIN u = 1..Len(u) /\ DOMAIN j = 1..Len(j) BY <1>1
<1>4. \A i \in 1..Len(u) : i + 1 \in 1..Len(j) /\ i + 1 # 1 BY <1>1, <1>2
<1>5. 1 \in 1..Len(j) BY <1>2
<1>6. \A i \in WorkOn(u, c) : i \in 1..Len(u) /\ i + 1 \in WorkOn(j, c) /\ i + 1 # 1
  BY <1>1, <1>3, <1>4, Zenon DEF WorkOn
<1>7. \A i, k \in 1..Len(u) : i + 1 = k + 1 => i = k BY <1>1, <1>2
<1>8. One(WorkOn(u, c))
  <2> SUFFICES ASSUME NEW i \in WorkOn(u, c), NEW k \in WorkOn(u, c) PROVE i = k BY Zenon DEF One
  <2>1. i + 1 = k + 1 BY <1>6, Zenon DEF One
  <2>2. i \in 1..Len(u) /\ k \in 1..Len(u) BY <1>6, Zenon
  <2> QED BY <1>7, <2>1, <2>2, Zenon
<1>9. Handles(j[1], c) => 1 \in WorkOn(j, c) BY <1>3, <1>5, Zenon DEF WorkOn
<1>10. Handles(j[1], c) => WorkOn(u, c) = {} BY <1>6, <1>9, Zenon DEF One
<1> QED BY <1>6, <1>8, <1>10, Zenon DEF Fewer

\* a write becomes a post
LEMMA WorkTested ==
    ASSUME NEW j \in Seq(Steps), j # <<>>, NEW u, u = Tail(j), j[1].op = "write",
           NEW a \in Steps, a.op = "post", a.pdu = j[1].pdu, NEW p, p = <<a>> \o u,
           NEW c, One(WorkOn(j, c))
    PROVE  Fewer(WorkOn(p, c), WorkOn(j, c))
<1>1. /\ u \in Seq(Steps) /\ Len(u) = Len(j) - 1 /\ \A i \in 1..Len(u) : u[i] = j[i + 1]
  BY HeadTailProperties
<1>2. Len(j) \in Nat \ {0} BY EmptySeq
<1>3. p \in Seq(Steps) /\ Len(p) = Len(u) + 1
      /\ \A i \in 1..Len(p) : p[i] = IF i = 1 THEN a ELSE u[i - 1]
  BY <1>1
<1>4. DOMAIN p = 1..Len(p) /\ DOMAIN j = 1..Len(j) /\ Len(p) = Len(j) BY <1>1, <1>2, <1>3
<1>5. \A i \in 1..Len(p) : i # 1 => p[i] = j[i]
  <2> SUFFICES ASSUME NEW i \in 1..Len(p), i # 1 PROVE p[i] = j[i] OBVIOUS
  <2>1. i - 1 \in 1..Len(u) /\ (i - 1) + 1 = i BY <1>3, <1>4, <1>2
  <2>2. u[i - 1] = j[i] BY <1>1, <2>1
  <2> QED BY <1>3, <2>2
<1>6. Handles(a, c) => Handles(j[1], c) BY DEF Handles, Writing
<1>7. 1 \in 1..Len(p) /\ p[1] = a BY <1>2, <1>3, <1>4
<1>8. \A i \in 1..Len(p) : Handles(p[i], c) => Handles(j[i], c) BY <1>5, <1>6, <1>7, Zenon
<1>9. WorkOn(p, c) \subseteq WorkOn(j, c) BY <1>4, <1>8, Zenon DEF WorkOn
<1> QED BY <1>9, FewerPart, Zenon

\* a program with no step on the way to an answer
LEMMA WorkNone ==
    ASSUME NEW p, NEW c, \A i \in DOMAIN p : ~Handles(p[i], c), NEW B
    PROVE  WorkOn(p, c) = {} /\ Fewer(WorkOn(p, c), B)
<1>1. WorkOn(p, c) = {} BY Zenon DEF WorkOn
<1> QED BY <1>1, Zenon DEF Fewer, One

\* a program of two steps, of which the one or the other does not handle c
LEMMA WorkTwo ==
    ASSUME NEW a \in Steps, NEW b \in Steps, NEW p, p = <<a, b>> \/ p = <<a>>, NEW c,
           ~Handles(a, c) \/ ~Handles(b, c)
    PROVE  One(WorkOn(p, c))
<1>1. CASE p = <<a, b>>
  <2>1. DOMAIN p = 1..2 /\ p[1] = a /\ p[2] = b BY <1>1
  <2>2. \A i \in 1..2 : i = 1 \/ i = 2 OBVIOUS
  <2> QED BY <2>1, <2>2, Zenon DEF WorkOn, One
<1>2. CASE p = <<a>>
  <2>1. DOMAIN p = 1..1 /\ \A i \in 1..1 : i = 1 BY <1>2
  <2> QED BY <2>1, Zenon DEF WorkOn, One
<1> QED BY <1>1, <1>2

-----------------------------------------------------------------------------
(* The server sends, and the session thread receives.                        *)

\* what the server has sent is a sequence of PDUs, of which those received whole
\* are the first
LEMMA FlowType ==
    ASSUME IInv
    PROVE  /\ posted \in Seq(Arriving) /\ handled \in Seq(Arriving) /\ Flow \in Seq(Arriving)
           /\ Len(posted) \in Nat /\ Len(handled) \in Nat /\ Len(Flow) \in Nat
           /\ Len(posted) <= Len(Flow) /\ \A i \in 1..Len(posted) : Flow[i] = posted[i]
<1>1. /\ posted \in Seq(Arriving) /\ handled \in Seq(Arriving)
      /\ dataIn = NoStream \/ dataIn.pdu \in Arriving
  BY Zenon DEF IInv, TypeOK
<1>2. PICK f : f = Flow OBVIOUS
<1>3. CASE dataIn = NoStream
  <2>1. f = posted BY <1>2, <1>3, Zenon DEF Flow
  <2>2. Len(posted) <= Len(posted) /\ Len(posted) \in Nat /\ Len(handled) \in Nat
    BY <1>1, LenProperties
  <2> QED BY <1>1, <1>2, <2>1, <2>2, Zenon
<1>4. CASE dataIn # NoStream
  <2>1. f = Append(posted, dataIn.pdu) BY <1>2, <1>4, Zenon DEF Flow
  <2>2. dataIn.pdu \in Arriving BY <1>1, <1>4
  <2>3. /\ f \in Seq(Arriving) /\ Len(posted) \in Nat /\ Len(f) = Len(posted) + 1
        /\ \A i \in 1..Len(posted) : f[i] = posted[i]
    BY <1>1, <2>1, <2>2, AppendAll
  <2>4. Len(posted) <= Len(f) /\ Len(f) \in Nat /\ Len(handled) \in Nat BY <1>1, <2>3, LenProperties
  <2> QED BY <1>1, <1>2, <2>3, <2>4, Zenon
<1> QED BY <1>3, <1>4

\* a chunk that begins a PDU adds it to what the server has sent
LEMMA FlowFirst ==
    ASSUME IInv, dataIn = NoStream, NEW p \in Arriving, NEW last \in BOOLEAN,
           DataReceived(p, TRUE, last)
    PROVE  Flow' = Append(Flow, p) /\ (posted' = posted \/ posted' = Append(posted, p))
<1>1. Flow = posted BY Zenon DEF Flow
<1>2. CASE last
  <2>1. 0 + 1 = 1 OBVIOUS
  <2>2. dataIn' = NoStream /\ posted' = Append(posted, p) BY <1>2, <2>1 DEF DataReceived
  <2> QED BY <1>1, <2>2, Zenon DEF Flow
<1>3. CASE ~last
  <2>1. PICK s : s = [pdu |-> p, got |-> 1, total |-> 2] OBVIOUS
  <2>2. dataIn' = s /\ posted' = posted BY <1>3, <2>1 DEF DataReceived
  <2>3. p \in Pdus BY ArrivingFields
  <2>4. s \in Streams /\ s.pdu = p BY <2>1, <2>3 DEF Streams
  <2>5. s # NoStream BY <2>4, ChannelsAssumption DEF ChannelsAssumption
  <2> QED BY <1>1, <2>2, <2>4, <2>5, Zenon DEF Flow
<1> QED BY <1>2, <1>3

\* the chunk that ends it changes nothing in that
LEMMA FlowRest ==
    ASSUME IInv, dataIn # NoStream, DataReceived(dataIn.pdu, FALSE, TRUE)
    PROVE  Flow' = Flow /\ (posted' = posted \/ posted' = Append(posted, dataIn.pdu))
<1>1. \/ posted' = posted /\ dataIn' = dataIn
      \/ posted' = Append(posted, dataIn.pdu) /\ dataIn' = NoStream
  BY Zenon DEF DataReceived
<1> QED BY <1>1, Zenon DEF Flow

\* what the server says about c: nothing, a request, the first piece of a
\* message or the second
Elsewhere(p, c) ==
    /\ ~DataOn(p, c) /\ ~Asks(p, c)
    /\ server'[c] = server[c] /\ messages'[c] = messages[c] /\ pending'[c] = pending[c]
Requests(p, c) ==
    /\ ~DataOn(p, c) /\ server[c] \in {"none", "up", "failed"} /\ pending[c] = 0
    /\ server'[c] \in {"asked", "closing"} /\ messages'[c] = messages[c] /\ pending'[c] = 0
SendsFirst(p, c, n) ==
    /\ p = PieceOn(connection, c, Len(messages[c]) + 1, 1, n)
    /\ server[c] = "up" /\ pending[c] = 0
    /\ server'[c] = "up" /\ messages'[c] = Append(messages[c], n) /\ pending'[c] = n - 1
SendsSecond(p, c) ==
    /\ p = PieceOn(connection, c, Len(messages[c]), 2, 2)
    /\ server[c] = "up" /\ pending[c] = 1
    /\ server'[c] = "up" /\ messages'[c] = messages[c] /\ pending'[c] = 0

Speaks(p, c) ==
    Elsewhere(p, c) \/ Requests(p, c) \/ (\E n \in 1..2 : SendsFirst(p, c, n)) \/ SendsSecond(p, c)

\* a PDU without data is a request, or neither
LEMMA SimpleSays ==
    ASSUME NEW ty \in {"CAPABILITY_REQUEST", "CREATE_REQUEST", "CREATE_UNHEARD", "CLOSE_REQUEST"},
           NEW d, NEW p, p = Simple(ty, d)
    PROVE  \A c : ~DataOn(p, c) /\ (c # d \/ ty = "CAPABILITY_REQUEST" => ~Asks(p, c))
<1>1. p.type = ty /\ p.ch = d BY SimpleFields
<1>2. ~IsData(p) BY <1>1 DEF IsData
<1> QED BY <1>1, <1>2 DEF DataOn, Asks

\* what the server says is about one channel at most
LEMMA ServerSpeaks ==
    ASSUME IInv, KindOK, NEW p, ServerSends(p), NEW c \in ChannelIds
    PROVE  Speaks(p, c)
<1>1. /\ messages \in [ChannelIds -> Seq(1..2)]
      /\ server \in [ChannelIds -> {"none", "asked", "up", "failed", "closing"}]
      /\ pending \in [ChannelIds -> {0, 1}] /\ (pending[c] = 1 => server[c] = "up")
  BY Zenon DEF IInv, PeerOK, KindOK
<1>2. pending[c] \in {0, 1} BY <1>1
<1>3. CASE /\ p = Simple("CAPABILITY_REQUEST", "none") /\ UNCHANGED <<server, messages, pending>>
  <2>1. ~DataOn(p, c) /\ ~Asks(p, c) BY <1>3, SimpleSays
  <2> QED BY <1>3, <2>1, Zenon DEF Speaks, Elsewhere
<1>4. ASSUME NEW d \in ChannelIds,
             p \in {Simple("CREATE_REQUEST", d), Simple("CREATE_UNHEARD", d)}, server[d] = "none",
             server' = [server EXCEPT ![d] = "asked"], UNCHANGED <<messages, pending>>
      PROVE  Speaks(p, c)
  <2>1. ~DataOn(p, c) /\ (c # d => ~Asks(p, c)) BY <1>4, SimpleSays
  <2>2. messages'[c] = messages[c] /\ pending'[c] = pending[c] BY <1>4, Zenon
  <2>3. CASE c = d
    <3>1. server'[c] = "asked" BY <1>1, <1>4, <2>3
    <3>2. pending[c] = 0 BY <1>1, <1>2, <1>4, <2>3
    <3> QED BY <1>4, <2>1, <2>2, <2>3, <3>1, <3>2 DEF Speaks, Requests
  <2>4. CASE c # d
    <3>1. server'[c] = server[c] BY <1>1, <1>4, <2>4
    <3> QED BY <2>1, <2>2, <2>4, <3>1, Zenon DEF Speaks, Elsewhere
  <2> QED BY <2>3, <2>4
<1>5. ASSUME NEW d \in ChannelIds, NEW n \in 1..2, p = Piece(d, Len(messages[d]) + 1, 1, n),
             server[d] = "up", pending[d] = 0,
             messages' = [messages EXCEPT ![d] = Append(messages[d], n)],
             pending' = [pending EXCEPT ![d] = n - 1], server' = server
      PROVE  Speaks(p, c)
  <2>1. p = PieceOn(connection, d, Len(messages[d]) + 1, 1, n) BY <1>5, PieceNow
  <2>2. server'[c] = server[c] BY <1>5, Zenon
  <2>3. CASE c = d
    <3>1. messages'[c] = Append(messages[c], n) /\ pending'[c] = n - 1 BY <1>1, <1>5, <2>3
    <3>2. SendsFirst(p, c, n) BY <1>5, <2>1, <2>2, <2>3, <3>1, Zenon DEF SendsFirst
    <3> QED BY <3>2, Zenon DEF Speaks
  <2>4. CASE c # d
    <3>1. messages'[c] = messages[c] /\ pending'[c] = pending[c] BY <1>1, <1>5, <2>4
    <3>2. ~DataOn(p, c) /\ ~Asks(p, c)
      <4>1. p.ch = d /\ ~Asks(p, c) BY <2>1, PieceOnFields
      <4> QED BY <2>4, <4>1, Zenon DEF DataOn
    <3> QED BY <2>2, <3>1, <3>2, Zenon DEF Speaks, Elsewhere
  <2> QED BY <2>3, <2>4
<1>6. ASSUME NEW d \in ChannelIds, p = Piece(d, Len(messages[d]), 2, 2),
             server[d] = "up", pending[d] = 1,
             pending' = [pending EXCEPT ![d] = 0], server' = server, messages' = messages
      PROVE  Speaks(p, c)
  <2>1. p = PieceOn(connection, d, Len(messages[d]), 2, 2) BY <1>6, PieceNow
  <2>2. server'[c] = server[c] /\ messages'[c] = messages[c] BY <1>6, Zenon
  <2>3. CASE c = d
    <3>1. pending'[c] = 0 BY <1>1, <1>6, <2>3
    <3>2. SendsSecond(p, c) BY <1>6, <2>1, <2>2, <2>3, <3>1, Zenon DEF SendsSecond
    <3> QED BY <3>2, Zenon DEF Speaks
  <2>4. CASE c # d
    <3>1. pending'[c] = pending[c] BY <1>1, <1>6, <2>4
    <3>2. ~DataOn(p, c) /\ ~Asks(p, c)
      <4>1. p.ch = d /\ ~Asks(p, c) BY <2>1, PieceOnFields
      <4> QED BY <2>4, <4>1, Zenon DEF DataOn
    <3> QED BY <2>2, <3>1, <3>2, Zenon DEF Speaks, Elsewhere
  <2> QED BY <2>3, <2>4
<1>7. ASSUME NEW d \in ChannelIds, p = Simple("CLOSE_REQUEST", d),
             server[d] \in {"up", "failed"}, pending[d] = 0,
             server' = [server EXCEPT ![d] = "closing"], UNCHANGED <<messages, pending>>
      PROVE  Speaks(p, c)
  <2>1. ~DataOn(p, c) /\ (c # d => ~Asks(p, c)) BY <1>7, SimpleSays
  <2>2. messages'[c] = messages[c] /\ pending'[c] = pending[c] BY <1>7, Zenon
  <2>3. CASE c = d
    <3>1. server'[c] = "closing" BY <1>1, <1>7, <2>3
    <3> QED BY <1>7, <2>1, <2>2, <2>3, <3>1 DEF Speaks, Requests
  <2>4. CASE c # d
    <3>1. server'[c] = server[c] BY <1>1, <1>7, <2>4
    <3> QED BY <2>1, <2>2, <2>4, <3>1, Zenon DEF Speaks, Elsewhere
  <2> QED BY <2>3, <2>4
<1> QED BY <1>3, <1>4, <1>5, <1>6, <1>7, Zenon DEF ServerSends

\* the peer keeps its types
LEMMA ServerKind ==
    ASSUME IInv, KindOK, NEW p, ServerSends(p)
    PROVE  /\ server' \in [ChannelIds -> {"none", "asked", "up", "failed", "closing"}]
           /\ pending' \in [ChannelIds -> {0, 1}]
           /\ \A c \in ChannelIds : pending'[c] = 1 => server'[c] = "up"
<1>1. /\ server \in [ChannelIds -> {"none", "asked", "up", "failed", "closing"}]
      /\ pending \in [ChannelIds -> {0, 1}]
      /\ \A c \in ChannelIds : pending[c] = 1 => server[c] = "up"
  BY Zenon DEF KindOK
<1>2. \/ server' = server
      \/ \E d \in ChannelIds : \E k \in {"asked", "closing"} : server' = [server EXCEPT ![d] = k]
  BY Zenon DEF ServerSends
<1>3. \/ pending' = pending
      \/ \E d \in ChannelIds, n \in 1..2 : pending' = [pending EXCEPT ![d] = n - 1]
      \/ \E d \in ChannelIds : pending' = [pending EXCEPT ![d] = 0]
  BY Zenon DEF ServerSends
<1>4. server' \in [ChannelIds -> {"none", "asked", "up", "failed", "closing"}] BY <1>1, <1>2
<1>5. pending' \in [ChannelIds -> {0, 1}]
  <2>1. \A n \in 1..2 : n - 1 \in {0, 1} OBVIOUS
  <2> QED BY <1>1, <1>3, <2>1
<1>6. ASSUME NEW c \in ChannelIds, pending'[c] = 1 PROVE server'[c] = "up"
  <2>1. Speaks(p, c) BY ServerSpeaks, Zenon
  <2>2. CASE Elsewhere(p, c) BY <1>1, <1>6, <2>2, Zenon DEF Elsewhere
  <2>3. CASE Requests(p, c)
    <3>1. pending'[c] = 0 BY <2>3, Zenon DEF Requests
    <3> QED BY <1>6, <3>1
  <2>4. CASE \E n \in 1..2 : SendsFirst(p, c, n) BY <2>4, Zenon DEF SendsFirst
  <2>5. CASE SendsSecond(p, c) BY <2>5, Zenon DEF SendsSecond
  <2> QED BY <2>1, <2>2, <2>3, <2>4, <2>5, Zenon DEF Speaks
<1> QED BY <1>4, <1>5, <1>6

\* a chunk that begins a PDU: what follows from it for a channel
LEMMA FirstSent ==
    ASSUME IInv, KindOK, main = "loop", main' = "loop", connection' = connection,
           handled' = handled, delivered' = delivered, dvc' = dvc,
           messages' \in [ChannelIds -> Seq(1..2)],
           NEW p \in Arriving, ServerSends(p), Flow' = Append(Flow, p),
           NEW c \in ChannelIds, SentOn(c)
    PROVE  SentOn(c)' /\ (CollectsOn(c) => CollectsOn(c)')
<1>1. PICK f : f = Flow OBVIOUS
<1>2. PICK r : r = Append(f, p) OBVIOUS
<1>3. Flow' = r /\ f \in Seq(Arriving) BY <1>1, <1>2, FlowType, Zenon
<1>4. PICK o : o = connection OBVIOUS
<1>5. PICK ms : ms = messages[c] OBVIOUS
<1>6. PICK rs : rs = messages'[c] OBVIOUS
<1>7. ms \in Seq(1..2) /\ rs \in Seq(1..2) BY <1>5, <1>6 DEF IInv, PeerOK
<1>8. PICK k : k = pending[c] OBVIOUS
<1>9. PICK q : q = pending'[c] OBVIOUS
<1>10. PICK h \in Nat : h = Len(handled) BY FlowType
<1>11. h <= Len(f)
  <2>1. Len(handled) <= Len(posted) BY Zenon DEF KindOK
  <2>2. Len(posted) <= Len(Flow) /\ Len(posted) \in Nat /\ Len(Flow) \in Nat BY FlowType, Zenon
  <2> QED BY <1>1, <1>10, <2>1, <2>2
<1>12. PICK e : e = delivered[c] OBVIOUS
<1>13. e \in Seq(Seq(Pdus)) BY <1>12 DEF KindOK
<1>14. PICK d \in Nat \ {0} : d = Len(e) + 1 BY <1>13, LenProperties
<1>15. PICK g : g = Got(c) OBVIOUS
<1>16. Got(c)' = g BY <1>15, Zenon DEF Got
<1>17. FlowOK(o, c, f, ms, k) /\ Arrived(c, f, ms, k) /\ WholeOK(o, c, ms, e)
  BY <1>1, <1>4, <1>5, <1>8, <1>12, Zenon DEF SentOn
<1>18. Len(e) <= Len(ms) BY <1>17, Zenon DEF WholeOK
<1>19. ASSUME FlowOK(o, c, r, rs, q), Arrived(c, r, rs, q), Continues(ms, rs)
       PROVE  SentOn(c)'
  <2>1. WholeOK(o, c, rs, e) BY <1>7, <1>13, <1>17, <1>19, WholeGrows, Zenon
  <2>2. connection' = o /\ delivered'[c] = e BY <1>4, <1>12, Zenon
  <2> QED BY <1>3, <1>6, <1>9, <1>19, <2>1, <2>2, Zenon DEF SentOn
<1>20. ASSUME Continues(ms, rs), q = 1 => k = 1 \/ Len(rs) >= d,
              GotOK(o, c, f, h, ms, k, g, d) =>
                (DataOn(p, c) => p.msg >= d /\ (g = <<>> \/ p.msg > d \/ p.part # 1)),
              CollectsOn(c)
       PROVE  CollectsOn(c)'
  <2>1. GotOK(o, c, f, h, ms, k, g, d)
    BY <1>1, <1>4, <1>5, <1>8, <1>10, <1>12, <1>14, <1>15, <1>20, Zenon DEF CollectsOn
  <2>2. GotOK(o, c, r, h, rs, q, g, d)
    BY <1>2, <1>3, <1>7, <1>11, <1>20, <2>1, GotGrows
  <2>3. connection' = o /\ Len(handled') = h /\ Len(delivered'[c]) + 1 = d
    BY <1>4, <1>10, <1>12, <1>14, Zenon
  <2> QED BY <1>3, <1>6, <1>9, <1>16, <2>2, <2>3, Zenon DEF CollectsOn
<1>21. Speaks(p, c) BY ServerSpeaks, Zenon
<1>22. CASE Elsewhere(p, c)
  <2>1. ~DataOn(p, c) /\ ~Asks(p, c) /\ rs = ms /\ q = k
    BY <1>5, <1>6, <1>8, <1>9, <1>22, Zenon DEF Elsewhere
  <2>2. FlowOK(o, c, r, ms, k) /\ Arrived(c, r, ms, k) /\ Continues(ms, ms)
    BY <1>2, <1>3, <1>7, <1>17, <2>1, AppendOther, Zenon
  <2> QED BY <1>19, <1>20, <2>1, <2>2, Zenon
<1>23. CASE Requests(p, c)
  <2>1. ~DataOn(p, c) /\ rs = ms /\ q = 0 /\ k = 0
    BY <1>5, <1>6, <1>8, <1>9, <1>23, Zenon DEF Requests
  <2>2. FlowOK(o, c, r, ms, 0) /\ Arrived(c, r, ms, 0) /\ Continues(ms, ms)
    BY <1>2, <1>3, <1>7, <1>17, <2>1, AppendAsk, Zenon
  <2> QED BY <1>19, <1>20, <2>1, <2>2, Zenon
<1>24. ASSUME NEW n \in 1..2, SendsFirst(p, c, n) PROVE SentOn(c)' /\ (CollectsOn(c) => CollectsOn(c)')
  <2>1. p = PieceOn(o, c, Len(ms) + 1, 1, n) /\ rs = Append(ms, n) /\ q = n - 1 /\ k = 0
    BY <1>4, <1>5, <1>6, <1>8, <1>9, <1>24, Zenon DEF SendsFirst
  <2>2. FlowOK(o, c, f, ms, 0) /\ Arrived(c, f, ms, 0) BY <1>17, <2>1, Zenon
  <2>3. FlowOK(o, c, r, rs, n - 1) /\ Arrived(c, r, rs, n - 1) /\ Continues(ms, rs)
    BY <1>2, <1>3, <1>7, <2>1, <2>2, AppendFirst, Zenon
  <2>4. FlowOK(o, c, r, rs, q) /\ Arrived(c, r, rs, q) BY <2>1, <2>3, Zenon
  <2>5. PICK l \in Nat : l = Len(ms) BY <1>7, LenProperties
  <2>6. p.msg = l + 1 BY <2>1, <2>5, PieceOnFields
  <2>7. Len(rs) = l + 1 BY <1>7, <2>1, <2>5
  <2>8. d <= l + 1 BY <1>13, <1>14, <1>18, <2>5, LenProperties
  <2>9. Len(rs) >= d /\ p.msg >= d BY <2>6, <2>7, <2>8
  <2>10. GotOK(o, c, f, h, ms, k, g, d) => g = <<>> \/ p.msg > d
    <3> SUFFICES ASSUME GotOK(o, c, f, h, ms, k, g, d), g # <<>> PROVE p.msg > d OBVIOUS
    <3>1. d <= l BY <2>5, Zenon DEF GotOK
    <3> QED BY <2>6, <3>1
  <2> QED BY <1>19, <1>20, <2>3, <2>4, <2>9, <2>10, Zenon
<1>25. CASE SendsSecond(p, c)
  <2>1. p = PieceOn(o, c, Len(ms), 2, 2) /\ rs = ms /\ q = 0 /\ k = 1
    BY <1>4, <1>5, <1>6, <1>8, <1>9, <1>25, Zenon DEF SendsSecond
  <2>2. FlowOK(o, c, f, ms, 1) /\ Arrived(c, f, ms, 1) BY <1>17, <2>1, Zenon
  <2>3. FlowOK(o, c, r, ms, 0) /\ Arrived(c, r, ms, 0) /\ Continues(ms, ms)
    BY <1>2, <1>3, <1>7, <2>1, <2>2, AppendSecond, Zenon
  <2>4. p.msg = Len(ms) /\ p.part = 2 BY <2>1, PieceOnFields
  <2>5. p.part # 1 BY <2>4
  <2>6. GotOK(o, c, f, h, ms, k, g, d) => p.msg >= d
    <3> SUFFICES ASSUME GotOK(o, c, f, h, ms, k, g, d) PROVE p.msg >= d OBVIOUS
    <3>1. d <= Len(ms) BY <2>1, Zenon DEF GotOK
    <3> QED BY <1>7, <2>4, <3>1, LenProperties
  <2> QED BY <1>19, <1>20, <2>1, <2>3, <2>5, <2>6, Zenon
<1> QED BY <1>21, <1>22, <1>23, <1>24, <1>25, Zenon DEF Speaks

\* and for the requests about it
LEMMA FirstTurn ==
    ASSUME IInv, KindOK, connection' = connection, handled' = handled, job' = job,
           Stream' = Stream, sent' = sent,
           NEW p \in Arriving, ServerSends(p), Flow' = Append(Flow, p),
           NEW c \in ChannelIds, TurnOf(c)
    PROVE  TurnOf(c)'
<1>1. PICK f : f = Flow OBVIOUS
<1>2. PICK r : r = Append(f, p) OBVIOUS
<1>3. Flow' = r /\ f \in Seq(Arriving) BY <1>1, <1>2, FlowType, Zenon
<1>4. PICK h \in Nat : h = Len(handled) BY FlowType
<1>5. h <= Len(f)
  <2>1. Len(handled) <= Len(posted) BY Zenon DEF KindOK
  <2>2. Len(posted) <= Len(Flow) /\ Len(posted) \in Nat /\ Len(Flow) \in Nat BY FlowType, Zenon
  <2> QED BY <1>1, <1>4, <2>1, <2>2
<1>6. PICK A : A = AskedOf(f, h, c) OBVIOUS
<1>7. PICK X : X = AskedOf(r, h, c) OBVIOUS
<1>8. PICK B : B = WorkOn(job["drdynvc"], c) OBVIOUS
<1>9. PICK C : C = AnswerOf(connection, Stream, Len(sent), c) OBVIOUS
<1>10. Turn(server[c], A, B, C) BY <1>1, <1>4, <1>6, <1>8, <1>9, Zenon DEF TurnOf
<1>11. (~Asks(p, c) => X = A) /\ (A = {} => One(X)) BY <1>2, <1>3, <1>5, <1>6, <1>7, AskedGrows, Zenon
<1>12. ASSUME Turn(server'[c], X, B, C) PROVE TurnOf(c)'
  BY <1>3, <1>4, <1>7, <1>8, <1>9, <1>12, Zenon DEF TurnOf
<1>13. Speaks(p, c) BY ServerSpeaks, Zenon
<1>14. CASE Requests(p, c)
  <2>1. A = {} /\ B = {} /\ C = {} BY <1>10, <1>14, Zenon DEF Requests, Turn
  <2>2. server'[c] \notin {"none", "up", "failed"} BY <1>14 DEF Requests
  <2>3. One(X) /\ One(B) /\ One(C) BY <1>11, <2>1, Zenon DEF One
  <2>4. Turn(server'[c], X, B, C) BY <2>1, <2>2, <2>3, Zenon DEF Turn
  <2> QED BY <1>12, <2>4
<1>15. CASE ~Requests(p, c)
  <2>1. ~Asks(p, c) /\ server'[c] = server[c]
    <3>1. CASE Elsewhere(p, c) BY <3>1, Zenon DEF Elsewhere
    <3>2. ASSUME NEW n, SendsFirst(p, c, n) PROVE ~Asks(p, c) /\ server'[c] = server[c]
      BY <3>2, PieceOnFields DEF SendsFirst
    <3>3. CASE SendsSecond(p, c) BY <3>3, PieceOnFields DEF SendsSecond
    <3> QED BY <1>13, <1>15, <3>1, <3>2, <3>3, Zenon DEF Speaks
  <2> QED BY <1>10, <1>11, <1>12, <2>1, Zenon
<1> QED BY <1>14, <1>15

\* what does not depend on the flow of PDUs
LEMMA SameJobs ==
    ASSUME job' = job, thread' = thread, dvc' = dvc
    PROVE  /\ PlanOK => PlanOK'
           /\ Alive' => Alive
           /\ \A c : Got(c)' = Got(c)
           /\ \A c : ManagedOK(c) => ManagedOK(c)'
<1>1. \A c : Got(c)' = Got(c) BY Zenon DEF Got
<1>2. PlanOK => PlanOK' BY Zenon DEF PlanOK
<1>3. Alive' => Alive BY Zenon DEF Alive
<1>4. \A c : ManagedOK(c) => ManagedOK(c)' BY <1>1, Zenon DEF ManagedOK
<1> QED BY <1>1, <1>2, <1>3, <1>4

\* a sequence to which something is added, or not, is not shorter
LEMMA NotShorter ==
    ASSUME NEW s \in Seq(Arriving), NEW x \in Arriving, NEW r, r = s \/ r = Append(s, x),
           NEW n \in Nat, n <= Len(s)
    PROVE  n <= Len(r)
<1>1. CASE r = Append(s, x)
  <2>1. Len(r) = Len(s) + 1 /\ Len(s) \in Nat BY <1>1, AppendAll
  <2> QED BY <2>1
<1> QED BY <1>1

\* a chunk that begins a PDU
LEMMA FirstDelivers ==
    ASSUME IInv, DeliveryInv, NEW last \in BOOLEAN, ReceiveFirst(last)
    PROVE  DeliveryInv'
<1>1. KindOK /\ PlanOK /\ TurnsOK /\ SentOK /\ CollectOK BY Zenon DEF DeliveryInv
<1>2. PICK p \in ServerPdus : ServerSends(p) /\ DataReceived(p, TRUE, last)
  BY Zenon DEF ReceiveFirst
<1>3. p \in Arriving /\ messages' \in [ChannelIds -> Seq(1..2)] BY <1>2, ServerStep, Zenon
<1>4. /\ main = "loop" /\ dataIn = NoStream
      /\ UNCHANGED <<main, connected, open, writes, state, thread, job, dvc, lock, connection,
                     handled, delivered, sent>>
  BY Zenon DEF ReceiveFirst
<1>5. Flow' = Append(Flow, p) /\ (posted' = posted \/ posted' = Append(posted, p))
  BY <1>2, <1>3, <1>4, FlowFirst, Zenon
<1>6. Stream' = Stream BY <1>4, Zenon DEF Stream
<1>7. main' = "loop" BY <1>4, Zenon
<1>8. KindOK'
  <2>1. Len(handled) <= Len(posted) /\ delivered \in [ChannelIds -> Seq(Seq(Pdus))]
    BY <1>1, Zenon DEF KindOK
  <2>2. Len(handled) <= Len(posted')
    <3>1. posted \in Seq(Arriving) /\ Len(handled) \in Nat BY FlowType, Zenon
    <3> QED BY <1>3, <1>5, <2>1, <3>1, NotShorter, Zenon
  <2>3. Len(handled') <= Len(posted') BY <1>4, <2>2, Zenon
  <2>4. main' \notin {"free", "idle", "closed", "late write"} BY <1>7
  <2>5. /\ server' \in [ChannelIds -> {"none", "asked", "up", "failed", "closing"}]
        /\ pending' \in [ChannelIds -> {0, 1}]
        /\ \A c \in ChannelIds : pending'[c] = 1 => server'[c] = "up"
    BY <1>1, <1>2, ServerKind, Zenon
  <2> QED BY <1>4, <2>1, <2>3, <2>4, <2>5, Zenon DEF KindOK
<1>9. PlanOK' /\ (Alive' => Alive) /\ \A c : ManagedOK(c) => ManagedOK(c)'
  BY <1>1, <1>4, SameJobs, Zenon
<1>10. TurnsOK'
  <2>1. \A c \in ChannelIds : TurnOf(c)'
    BY <1>1, <1>2, <1>3, <1>4, <1>5, <1>6, FirstTurn, Zenon DEF TurnsOK
  <2> QED BY <2>1, Zenon DEF TurnsOK
<1>11. \A c \in ChannelIds : SentOn(c)' /\ (CollectsOn(c) => CollectsOn(c)')
  <2> TAKE c \in ChannelIds
  <2>1. SentOn(c) BY <1>1, Zenon DEF SentOK
  <2> QED BY <1>1, <1>2, <1>3, <1>4, <1>5, <1>7, <2>1, FirstSent, Zenon
<1>12. SentOK' BY <1>11, Zenon DEF SentOK
<1>13. CollectOK' BY <1>1, <1>9, <1>11, Zenon DEF CollectOK
<1> QED BY <1>8, <1>9, <1>10, <1>12, <1>13, Zenon DEF DeliveryInv

-----------------------------------------------------------------------------
(* The session thread goes on.                                               *)

\* the requests and answers about c on their way: those in the queue, those
\* being handled and those on their way to the server
TurnParts(c, A, B, C) ==
    /\ A = AskedOf(Flow, Len(handled), c) /\ B = WorkOn(job["drdynvc"], c)
    /\ C = AnswerOf(connection, Stream, Len(sent), c)

\* there is still at most one when none is added at any of the three places
LEMMA TurnMoves ==
    ASSUME NEW c, TurnOf(c), server'[c] = server[c], NEW A, NEW B, NEW C, TurnParts(c, A, B, C),
           NEW X, NEW Y, NEW Z, TurnParts(c, X, Y, Z)',
           Fewer(X, A), Fewer(Y, B), Fewer(Z, C)
    PROVE  TurnOf(c)'
<1>1. Turn(server[c], A, B, C) BY Zenon DEF TurnOf, TurnParts
<1>2. Turn(server[c], X, Y, Z) BY <1>1, TurnFewer, Zenon
<1>3. Turn(server'[c], X, Y, Z) BY <1>2, Zenon
<1> QED BY <1>3, Zenon DEF TurnOf, TurnParts

\* each of the three is at most one
LEMMA TurnOne ==
    ASSUME NEW c, TurnOf(c), NEW A, NEW B, NEW C, TurnParts(c, A, B, C)
    PROVE  /\ One(A) /\ One(B) /\ One(C) /\ Fewer(A, A) /\ Fewer(B, B) /\ Fewer(C, C)
           /\ A # {} => B = {} /\ C = {}
           /\ B # {} => A = {} /\ C = {}
           /\ C # {} => A = {} /\ B = {}
           /\ A # {} \/ B # {} \/ C # {} => server[c] \notin {"none", "up", "failed"}
<1>1. Turn(server[c], A, B, C) BY Zenon DEF TurnOf, TurnParts
<1>2. One(A) /\ One(B) /\ One(C) BY <1>1, Zenon DEF Turn
<1>3. Fewer(A, A) /\ Fewer(B, B) /\ Fewer(C, C) BY <1>2, Zenon DEF Fewer
<1>4. /\ A = {} \/ B = {}
      /\ A = {} \/ C = {}
      /\ B = {} \/ C = {}
      /\ server[c] \in {"none", "up", "failed"} => A = {} /\ B = {} /\ C = {}
  BY <1>1, Zenon DEF Turn
<1> QED BY <1>2, <1>3, <1>4, Zenon

\* the quit message of the channels' queue is no answer
LEMMA QuitAdds ==
    ASSUME NEW s \in Seq(Written), NEW r, r = Append(s, WMQ_QUIT), NEW c, NEW o, NEW n \in Nat
    PROVE  AnswerOf(o, r, n, c) \subseteq AnswerOf(o, s, n, c)
<1>1. WMQ_QUIT \in Written BY DEF Written
<1> QED BY <1>1, AnswerGrows

\* nothing of what the server knows, sends and is answered changes
LEMMA TurnStands ==
    ASSUME IInv, StreamOK, UNCHANGED <<connection, handled, server, job, sent>>, Flow' = Flow,
           Stream' = Stream \/ Stream' = Append(Stream, WMQ_QUIT),
           NEW c, TurnOf(c)
    PROVE  TurnOf(c)'
<1>1. CASE Stream' = Stream BY <1>1, Zenon DEF TurnOf
<1>2. CASE Stream' = Append(Stream, WMQ_QUIT)
  <2>1. PICK s : s = Stream OBVIOUS
  <2>2. PICK r : r = Append(s, WMQ_QUIT) OBVIOUS
  <2>3. s \in Seq(Written) /\ sent \in Seq(Written) BY <2>1, StreamType, Zenon
  <2>4. WMQ_QUIT \in Written BY DEF Written
  <2>5. PICK n \in Nat : n = Len(sent) BY <2>3, LenProperties
  <2>6. PICK o : o = connection OBVIOUS
  <2>7. AnswerOf(o, r, n, c) \subseteq AnswerOf(o, s, n, c) 
    BY <2>2, <2>3, <2>5, QuitAdds
  <2>8. connection' = o /\ Stream' = r /\ Len(sent') = n BY <1>2, <2>1, <2>2, <2>5, <2>6, Zenon
  <2>9. PICK A, B, C : TurnParts(c, A, B, C) BY Zenon DEF TurnParts
  <2>10. PICK D : D = AnswerOf(o, r, n, c) OBVIOUS
  <2>11. C = AnswerOf(o, s, n, c) BY <2>1, <2>5, <2>6, <2>9, Zenon DEF TurnParts
  <2>12. Fewer(A, A) /\ Fewer(B, B) /\ One(C) BY <2>9, TurnOne, Zenon
  <2>13. D \subseteq C BY <2>7, <2>10, <2>11, Zenon
  <2>14. Fewer(D, C) BY <2>12, <2>13, FewerPart, Zenon
  <2>15. TurnParts(c, A, B, D)' BY <2>8, <2>9, <2>10, Zenon DEF TurnParts
  <2> QED BY <2>9, <2>12, <2>14, <2>15, TurnMoves, Zenon
<1> QED BY <1>1, <1>2

\* what has been sent and delivered stays
LEMMA SentStays ==
    ASSUME UNCHANGED <<connection, delivered, messages, pending>>, Flow' = Flow,
           main' = "loop" => main = "loop", SentOK
    PROVE  SentOK'
<1>1. ASSUME NEW c, SentOn(c) PROVE SentOn(c)' BY <1>1, Zenon DEF SentOn
<1> QED BY <1>1, Zenon DEF SentOK

\* what is being collected stays
LEMMA CollectStays ==
    ASSUME UNCHANGED <<connection, handled, delivered, messages, pending>>, Flow' = Flow,
           CollectOK, Alive' => Alive,
           Alive' => \A c \in ChannelIds : CollectsOn(c) /\ ManagedOK(c) => Got(c)' = Got(c) /\ ManagedOK(c)'
    PROVE  CollectOK'
<1> SUFFICES ASSUME Alive', NEW c \in ChannelIds PROVE CollectsOn(c)' /\ ManagedOK(c)'
  BY Zenon DEF CollectOK
<1>1. CollectsOn(c) /\ ManagedOK(c) BY Zenon DEF CollectOK
<1>2. Got(c)' = Got(c) /\ ManagedOK(c)' BY <1>1, Zenon
<1>3. CollectsOn(c)' BY <1>1, <1>2, Zenon DEF CollectsOn
<1> QED BY <1>2, <1>3

\* the session thread goes on without touching what drdynvc's thread does
LEMMA StandDelivers ==
    ASSUME IInv, StreamOK, DeliveryInv,
           UNCHANGED <<connection, handled, delivered, server, messages, pending, job, sent>>,
           Flow' = Flow, Stream' = Stream \/ Stream' = Append(Stream, WMQ_QUIT),
           main' = "loop" => main = "loop",
           main' \in {"free", "idle", "closed", "late write"} => dataIn' = NoStream,
           Len(handled) <= Len(posted'),
           (thread' = thread /\ dvc' = dvc) \/ thread' # "run"
    PROVE  DeliveryInv'
<1>1. KindOK /\ PlanOK /\ TurnsOK /\ SentOK /\ CollectOK BY Zenon DEF DeliveryInv
<1>2. KindOK' BY <1>1, Zenon DEF KindOK
<1>3. PlanOK' BY <1>1, Zenon DEF PlanOK
<1>4. TurnsOK'
  <2>1. \A c \in ChannelIds : TurnOf(c)' BY <1>1, TurnStands, Zenon DEF TurnsOK
  <2> QED BY <2>1, Zenon DEF TurnsOK
<1>5. SentOK' BY <1>1, SentStays, Zenon
<1>6. CollectOK'
  <2>1. CASE thread' = thread /\ dvc' = dvc
    <3>1. (Alive' => Alive) /\ \A c : Got(c)' = Got(c) /\ (ManagedOK(c) => ManagedOK(c)')
      BY <2>1, SameJobs, Zenon
    <3> QED BY <1>1, <3>1, CollectStays, Zenon
  <2>2. CASE thread' # "run" BY <2>2, Zenon DEF CollectOK, Alive
  <2> QED BY <2>1, <2>2
<1> QED BY <1>2, <1>3, <1>4, <1>5, <1>6, Zenon DEF DeliveryInv

\* the chunk that ends a PDU
LEMMA RestDelivers ==
    ASSUME IInv, StreamOK, DeliveryInv, ReceiveRest
    PROVE  DeliveryInv'
<1>1. /\ main = "loop" /\ dataIn # NoStream /\ DataReceived(dataIn.pdu, FALSE, TRUE)
      /\ UNCHANGED <<main, connected, open, writes, state, thread, job, dvc, lock, connection,
                     handled, delivered, sent, peer, budget>>
  BY Zenon DEF ReceiveRest
<1>2. UNCHANGED <<connection, handled, delivered, server, messages, pending, job, sent>>
  BY <1>1, Zenon DEF peer
<1>3. Flow' = Flow /\ (posted' = posted \/ posted' = Append(posted, dataIn.pdu))
  BY <1>1, FlowRest, Zenon
<1>4. posted \in Seq(Arriving) /\ Len(handled) \in Nat BY FlowType, Zenon
<1>5. dataIn.pdu \in Arriving BY <1>1, Zenon DEF IInv, TypeOK
<1>6. Len(handled) <= Len(posted) BY Zenon DEF DeliveryInv, KindOK
<1>7. Len(handled) <= Len(posted') BY <1>3, <1>4, <1>5, <1>6, NotShorter, Zenon
<1>8. Stream' = Stream BY <1>1, Zenon DEF Stream
<1>9. main' \notin {"free", "idle", "closed", "late write"} BY <1>1
<1>10. thread' = thread /\ dvc' = dvc /\ main' = main BY <1>1, Zenon
<1> QED BY <1>2, <1>3, <1>7, <1>8, <1>9, <1>10, StandDelivers, Zenon

\* a disconnection begins, the quit message is posted, the channels are freed
\* and closed
LEMMA EndDelivers ==
    ASSUME IInv, StreamOK, DeliveryInv, [Next]_vars,
           \/ freerdp_channels_disconnect \/ PostQuit \/ dvcman_free \/ freerdp_channels_close
           \/ vars' = vars
    PROVE  DeliveryInv'
<1>1. /\ UNCHANGED <<connection, handled, delivered, job, sent, dataIn, posted, thread>>
      /\ UNCHANGED <<server, messages, pending>>
  <2>1. CASE vars' = vars BY <2>1, Zenon DEF vars
  <2>2. CASE ~(vars' = vars)
    BY <2>2, Zenon DEF freerdp_channels_disconnect, PostQuit, dvcman_free, freerdp_channels_close, peer
  <2> QED BY <2>1, <2>2
<1>2. Flow' = Flow BY <1>1, Zenon DEF Flow
<1>3. Len(handled) <= Len(posted) /\ (main \in {"free", "idle", "closed", "late write"} => dataIn = NoStream)
  BY Zenon DEF DeliveryInv, KindOK
<1>4. Len(handled) <= Len(posted') BY <1>1, <1>3, Zenon
<1>5. CASE freerdp_channels_disconnect
  <2>1. main = "loop" /\ main' = "flush" /\ dvc' = dvc /\ writes' = writes
    BY <1>5, Zenon DEF freerdp_channels_disconnect
  <2>2. main' \notin {"free", "idle", "closed", "late write"} BY <2>1
  <2>3. Stream' = Stream BY <1>1, <2>1, Zenon DEF Stream
  <2> QED BY <1>1, <1>2, <1>4, <2>1, <2>2, <2>3, StandDelivers, Zenon
<1>6. CASE PostQuit
  <2>1. main' = "join" /\ dvc' = dvc /\ writes' = writes BY <1>6, Zenon DEF PostQuit
  <2>2. main' \notin {"free", "idle", "closed", "late write"} /\ main' # "loop" BY <2>1
  <2>3. Stream' = Stream BY <1>1, <2>1, Zenon DEF Stream
  <2> QED BY <1>1, <1>2, <1>4, <2>1, <2>2, <2>3, StandDelivers, Zenon
<1>7. CASE dvcman_free
  <2>1. main = "free" /\ main' = "idle" /\ writes' = writes BY <1>7, Zenon DEF dvcman_free
  <2>2. thread = "none" BY <2>1 DEF IInv, ThreadOK
  <2>3. thread' # "run" /\ main' # "loop" /\ main \in {"free", "idle", "closed", "late write"}
    BY <1>1, <2>1, <2>2
  <2>4. dataIn' = NoStream BY <1>1, <1>3, <2>3, Zenon
  <2>5. Stream' = Stream BY <1>1, <2>1, Zenon DEF Stream
  <2> QED BY <1>1, <1>2, <1>4, <2>3, <2>4, <2>5, StandDelivers, Zenon
<1>8. CASE freerdp_channels_close
  <2>1. main = "idle" /\ main' = (IF writes.size = 0 THEN "closed" ELSE "late write") /\ dvc' = dvc
    BY <1>8, Zenon DEF freerdp_channels_close
  <2>2. main' # "loop" /\ main \in {"free", "idle", "closed", "late write"} BY <2>1
  <2>3. dataIn' = NoStream BY <1>1, <1>3, <2>2, Zenon
  <2>4. ~freerdp_channels_post_connect
    <3>1. main' \in {"closed", "late write"} BY <2>1
    <3>2. main' # "loop" BY <3>1
    <3> QED BY <3>2, Zenon DEF freerdp_channels_post_connect
  <2>5. \/ Stream' = Stream
        \/ Stream' = Append(Stream, WMQ_QUIT)
        \/ \E t, w : Posts(t, w) /\ Stream' = Append(Stream, w)
    BY <2>4, StreamStep, Zenon
  <2>6. ~\E t, w : Posts(t, w)
    <3>1. ASSUME NEW t, Step(t) PROVE FALSE
      <4>1. main' = main BY <3>1, Zenon DEF Step
      <4> QED BY <2>1, <4>1
    <3> QED BY <3>1, Zenon DEF Posts
  <2> QED BY <1>1, <1>2, <1>4, <2>1, <2>2, <2>3, <2>5, <2>6, StandDelivers, Zenon
<1>9. CASE vars' = vars
  <2>1. dvc' = dvc /\ writes' = writes /\ main' = main BY <1>9, Zenon DEF vars
  <2>2. Stream' = Stream BY <1>1, <2>1, Zenon DEF Stream
  <2>3. main' \in {"free", "idle", "closed", "late write"} => dataIn' = NoStream BY <1>1, <1>3, <2>1, Zenon
  <2> QED BY <1>1, <1>2, <1>4, <2>1, <2>2, <2>3, StandDelivers, Zenon
<1> QED BY <1>5, <1>6, <1>7, <1>8, <1>9

\* the thread has ended: a PDU that is half received is given up
LEMMA DisconnectedDelivers ==
    ASSUME IInv, StreamOK, DeliveryInv, event_disconnected
    PROVE  DeliveryInv'
<1>1. /\ UNCHANGED <<connection, handled, delivered, job, sent, posted, writes>>
      /\ UNCHANGED <<server, messages, pending>>
      /\ thread' = "none" /\ main' = "free" /\ dataIn' = NoStream
  BY Zenon DEF event_disconnected, peer
<1>2. KindOK /\ PlanOK /\ TurnsOK /\ SentOK BY Zenon DEF DeliveryInv
<1>3. Flow' = posted BY <1>1, Zenon DEF Flow
<1>4. Stream' = Stream BY <1>1, Zenon DEF Stream
<1>5. thread' # "run" /\ main' # "loop" BY <1>1
<1>6. Len(handled) <= Len(posted) /\ Len(handled) <= Len(posted') BY <1>1, <1>2, Zenon DEF KindOK
<1>7. CASE dataIn = NoStream
  <2>1. Flow' = Flow BY <1>3, <1>7, Zenon DEF Flow
  <2> QED BY <1>1, <1>4, <1>5, <1>6, <2>1, StandDelivers, Zenon
<1>8. CASE dataIn # NoStream
  <2>1. PICK x \in Arriving : x = dataIn.pdu BY <1>8, Zenon DEF IInv, TypeOK
  <2>2. PICK r : r = Append(posted, x) OBVIOUS
  <2>3. Flow = r BY <1>8, <2>1, <2>2, Zenon DEF Flow
  <2>4. posted \in Seq(Arriving) /\ Len(handled) \in Nat BY FlowType, Zenon
  <2>5. KindOK' BY <1>1, <1>2, Zenon DEF KindOK
  <2>6. PlanOK' BY <1>1, <1>2, Zenon DEF PlanOK
  <2>7. ASSUME NEW c \in ChannelIds PROVE TurnOf(c)'
    <3>1. TurnOf(c) BY <1>2, Zenon DEF TurnsOK
    <3>2. PICK A, B, C : TurnParts(c, A, B, C) BY Zenon DEF TurnParts
    <3>3. PICK X : X = AskedOf(posted, Len(handled), c) OBVIOUS
    <3>4. A = AskedOf(r, Len(handled), c) BY <2>3, <3>2, Zenon DEF TurnParts
    <3>5. AskedOf(posted, Len(handled), c) \subseteq AskedOf(r, Len(handled), c)
      BY <1>6, <2>2, <2>4, AskedGrows, Zenon
    <3>6. X \subseteq A BY <3>3, <3>4, <3>5, Zenon
    <3>7. One(A) /\ Fewer(B, B) /\ Fewer(C, C) BY <3>1, <3>2, TurnOne, Zenon
    <3>8. Fewer(X, A) BY <3>6, <3>7, FewerPart, Zenon
    <3>9. TurnParts(c, X, B, C)' BY <1>1, <1>3, <1>4, <3>2, <3>3, Zenon DEF TurnParts
    <3>10. server'[c] = server[c] BY <1>1, Zenon
    <3> QED BY <3>1, <3>2, <3>7, <3>8, <3>9, <3>10, TurnMoves, Zenon
  <2>8. TurnsOK' BY <2>7, Zenon DEF TurnsOK
  <2>9. ASSUME NEW c \in ChannelIds PROVE SentOn(c)'
    <3>1. /\ FlowOK(connection, c, r, messages[c], pending[c])
          /\ WholeOK(connection, c, messages[c], delivered[c])
      BY <1>2, <2>3, Zenon DEF SentOK, SentOn
    <3>2. FlowOK(connection, c, posted, messages[c], pending[c]) BY <2>2, <2>4, <3>1, FlowShort, Zenon
    <3> QED BY <1>1, <1>3, <1>5, <3>1, <3>2, Zenon DEF SentOn
  <2>10. SentOK' BY <2>9, Zenon DEF SentOK
  <2>11. CollectOK' BY <1>5, Zenon DEF CollectOK, Alive
  <2> QED BY <2>5, <2>6, <2>8, <2>10, <2>11, Zenon DEF DeliveryInv
<1> QED BY <1>7, <1>8

\* before anything is sent
LEMMA NothingYet ==
    ASSUME NEW o, NEW c
    PROVE  /\ FlowOK(o, c, <<>>, <<>>, 0) /\ Arrived(c, <<>>, <<>>, 0) /\ WholeOK(o, c, <<>>, <<>>)
           /\ GotOK(o, c, <<>>, 0, <<>>, 0, <<>>, 1)
<1>1. Len(<<>>) = 0 OBVIOUS
<1>2. \A i \in 1..Len(<<>>) : FALSE BY <1>1
<1>3. 0 # 1 /\ Len(<<>>) <= Len(<<>>) BY <1>1
<1>4. FlowOK(o, c, <<>>, <<>>, 0) BY <1>2, <1>3, Zenon DEF FlowOK
<1>5. Arrived(c, <<>>, <<>>, 0) BY <1>2, Zenon DEF Arrived
<1>6. WholeOK(o, c, <<>>, <<>>) BY <1>2, <1>3, Zenon DEF WholeOK
<1>7. GotOK(o, c, <<>>, 0, <<>>, 0, <<>>, 1) BY <1>2, <1>3, Zenon DEF GotOK
<1> QED BY <1>4, <1>5, <1>6, <1>7

\* nothing is on its way
LEMMA TurnNone ==
    ASSUME NEW k, NEW A, NEW B, NEW C, A = {}, B = {}, C = {}
    PROVE  Turn(k, A, B, C)
<1>1. One({}) BY DEF One
<1> QED BY <1>1, Zenon DEF Turn

\* a connection in which nothing has been sent yet
Fresh ==
    /\ posted = <<>> /\ handled = <<>> /\ sent = <<>> /\ dataIn = NoStream
    /\ delivered = [c \in ChannelIds |-> <<>>] /\ server = [c \in ChannelIds |-> "none"]
    /\ messages = [c \in ChannelIds |-> <<>>] /\ pending = [c \in ChannelIds |-> 0]
    /\ dvc = [c \in ChannelIds |-> NoChannel]
    /\ job["drdynvc"] = <<>> /\ job["device"] = <<>>
    /\ \A i \in 1..Len(Stream) : ~Own(Stream[i])

\* has everything to come
LEMMA FreshInv == Fresh => DeliveryInv
<1> SUFFICES ASSUME Fresh PROVE DeliveryInv OBVIOUS
<1> USE DEF Fresh
<1>1. Flow = <<>> BY Zenon DEF Flow
<1>2. DOMAIN <<>> = {} /\ Len(<<>>) = 0 /\ 0 + 1 = 1 OBVIOUS
<1>3. \A i \in 1..Len(<<>>) : FALSE BY <1>2
<1>4. KindOK
  <2>1. <<>> \in Seq(Seq(Pdus)) /\ Len(<<>>) <= Len(<<>>) /\ 0 # 1 OBVIOUS
  <2>2. server \in [ChannelIds -> {"none", "asked", "up", "failed", "closing"}] OBVIOUS
  <2>3. pending \in [ChannelIds -> {0, 1}] OBVIOUS
  <2>4. delivered \in [ChannelIds -> Seq(Seq(Pdus))] BY <2>1
  <2>5. \A c \in ChannelIds : pending[c] # 1 BY <2>1
  <2> QED BY <2>1, <2>2, <2>3, <2>4, <2>5, Zenon DEF KindOK
<1>5. PlanOK BY <1>2, Zenon DEF PlanOK
<1>6. ASSUME NEW c \in ChannelIds PROVE TurnOf(c)
  <2>1. AskedOf(Flow, Len(handled), c) = {} BY <1>1, <1>3, Zenon DEF AskedOf
  <2>2. WorkOn(job["drdynvc"], c) = {} BY <1>2, Zenon DEF WorkOn
  <2>3. AnswerOf(connection, Stream, Len(sent), c) = {} BY Zenon DEF AnswerOf, Own
  <2> QED BY <2>1, <2>2, <2>3, TurnNone, Zenon DEF TurnOf
<1>7. TurnsOK BY <1>6, Zenon DEF TurnsOK
<1>8. ASSUME NEW c \in ChannelIds
      PROVE  messages[c] = <<>> /\ pending[c] = 0 /\ delivered[c] = <<>> /\ dvc[c] = NoChannel
  OBVIOUS
<1>9. ASSUME NEW c \in ChannelIds PROVE SentOn(c) BY <1>1, <1>8, NothingYet, Zenon DEF SentOn
<1>10. SentOK BY <1>9, Zenon DEF SentOK
<1>11. ASSUME NEW c \in ChannelIds PROVE CollectsOn(c) /\ ManagedOK(c)
  <2>1. Got(c) = <<>> BY <1>8, Zenon DEF Got
  <2>2. Len(handled) = 0 /\ Len(delivered[c]) + 1 = 1 BY <1>2, <1>8, Zenon
  <2>3. CollectsOn(c) BY <1>1, <1>8, <2>1, <2>2, NothingYet, Zenon DEF CollectsOn
  <2>4. ManagedOK(c) BY <2>1, Zenon DEF ManagedOK
  <2> QED BY <2>3, <2>4
<1>12. CollectOK BY <1>11, Zenon DEF CollectOK
<1> QED BY <1>4, <1>5, <1>7, <1>10, <1>12, Zenon DEF DeliveryInv

\* a new connection
LEMMA ConnectDelivers ==
    ASSUME IInv, StreamOK, DeliveryInv, freerdp_channels_post_connect
    PROVE  DeliveryInv'
<1>1. main = "idle" /\ ~open BY DEF IInv, ThreadOK, freerdp_channels_post_connect
<1>2. /\ posted' = <<>> /\ handled' = <<>> /\ sent' = <<>> /\ dataIn' = dataIn
      /\ delivered' = [c \in ChannelIds |-> <<>>] /\ server' = [c \in ChannelIds |-> "none"]
      /\ messages' = [c \in ChannelIds |-> <<>>] /\ pending' = [c \in ChannelIds |-> 0]
      /\ dvc' = [c \in ChannelIds |-> NoChannel]
      /\ job' = [job EXCEPT !["drdynvc"] = <<>>]
  BY <1>1, Zenon DEF freerdp_channels_post_connect
<1>3. job["device"] = <<>> BY <1>1 DEF IInv, ThreadOK
<1>4. job \in [Threads -> Seq(Steps)] BY Zenon DEF IInv, TypeOK
<1>5. job'["drdynvc"] = <<>> /\ job'["device"] = <<>> BY <1>2, <1>3, <1>4 DEF Threads
<1>6. \A i \in 1..Len(Stream') : ~Own(Stream[i])' BY NothingOwn, Zenon
<1>7. dataIn' = NoStream
  <2>1. main \in {"free", "idle", "closed", "late write"} BY <1>1
  <2> QED BY <1>2, <2>1, Zenon DEF DeliveryInv, KindOK
<1>8. Fresh' BY <1>2, <1>5, <1>6, <1>7, Zenon DEF Fresh
<1> QED BY <1>8, FreshInv, PTL

\* what is drained is the first that the server has not received yet
LEMMA SyncTakes ==
    ASSUME IInv, StreamOK, freerdp_channels_process_sync
    PROVE  /\ Stream' = Stream /\ Len(sent) + 1 <= Len(Stream) /\ Len(sent') = Len(sent) + 1
           /\ Stream[Len(sent) + 1] = Oldest(writes) /\ Oldest(writes) # WMQ_QUIT
           /\ Len(sent) \in Nat
<1>1. /\ sent \in Seq(Written) /\ Contents(writes) \in Seq(Written) /\ Stream \in Seq(Written)
  BY StreamType, Zenon
<1>2. PICK w : w = Oldest(writes) OBVIOUS
<1>3. /\ main \in {"loop", "flush"} /\ writes.size > 0 /\ sent' = Append(sent, w)
      /\ writes' = Dequeue(writes)
  BY <1>2, Zenon DEF freerdp_channels_process_sync
<1>4. WellFormed(writes, Written) BY Zenon DEF IInv, TypeOK, Written
<1>5. PICK v : v = Contents(writes) OBVIOUS
<1>6. v \in Seq(Written) /\ v # <<>> /\ w = Head(v) /\ Contents(writes') = Tail(v) /\ w \in Written
  <2>1. /\ Contents(writes) # <<>> /\ Oldest(writes) = Head(Contents(writes))
        /\ Contents(Dequeue(writes)) = Tail(Contents(writes)) /\ Oldest(writes) \in Written
    BY <1>3, <1>4, DequeueTakesFirst
  <2> QED BY <1>1, <1>2, <1>3, <1>5, <2>1, Zenon
<1>7. Append(sent, Head(v)) \o Tail(v) = sent \o v BY <1>1, <1>6, MoveHead
<1>8. Stream' = Stream BY <1>3, <1>5, <1>6, <1>7, Zenon DEF Stream
<1>9. Stream = sent \o v BY <1>5, Zenon DEF Stream
<1>10. Len(v) \in Nat \ {0} /\ v[1] = w BY <1>6, EmptySeq
<1>11. PICK n \in Nat : n = Len(sent) BY <1>1, LenProperties
<1>12. Len(sent \o v) = n + Len(v) /\ (sent \o v)[n + 1] = v[1] BY <1>1, <1>6, <1>10, <1>11
<1>13. n + 1 <= Len(Stream) /\ n + 1 \in 1..Len(Stream) /\ Stream[n + 1] = w
  BY <1>9, <1>10, <1>11, <1>12
<1>14. Len(sent') = n + 1 BY <1>1, <1>3, <1>6, <1>11
<1>15. main # "closed" BY <1>3
<1>16. w # WMQ_QUIT BY <1>13, <1>15, Zenon DEF StreamOK
<1> QED BY <1>2, <1>8, <1>11, <1>13, <1>14, <1>16, Zenon

Known == {"none", "asked", "up", "failed", "closing"}

\* what the server hears is about the channel the answer names
LEMMA HeardOf ==
    ASSUME server \in [ChannelIds -> Known], NEW w, NEW c \in ChannelIds
    PROVE  /\ Heard(w) \in [ChannelIds -> Known]
           /\ ~(w.on = connection /\ Answers(w, c)) => Heard(w)[c] = server[c]
<1>1. \/ Heard(w) = server
      \/ /\ w.on = connection /\ w.type \in {"CREATED", "NOT_CREATED", "CLOSED"}
         /\ \E k \in {"up", "failed", "none"} : Heard(w) = [server EXCEPT ![w.ch] = k]
  BY DEF Heard
<1>2. CASE Heard(w) = server BY <1>2
<1>3. ASSUME NEW k \in {"up", "failed", "none"}, Heard(w) = [server EXCEPT ![w.ch] = k],
             w.on = connection, w.type \in {"CREATED", "NOT_CREATED", "CLOSED"}
      PROVE  /\ Heard(w) \in [ChannelIds -> Known]
             /\ ~(w.on = connection /\ Answers(w, c)) => Heard(w)[c] = server[c]
  <2>1. Heard(w) \in [ChannelIds -> Known] BY <1>3 DEF Known
  <2>2. CASE w.ch = c BY <1>3, <2>1, <2>2, Zenon DEF Answers
  <2>3. CASE w.ch # c BY <1>3, <2>1, <2>3
  <2> QED BY <2>2, <2>3
<1> QED BY <1>1, <1>2, <1>3

\* the server receives an answer, or something else
LEMMA SyncTurn ==
    ASSUME IInv, StreamOK, KindOK, freerdp_channels_process_sync, NEW c \in ChannelIds, TurnOf(c)
    PROVE  TurnOf(c)' /\ (server[c] = "up" => server'[c] = "up")
<1>1. PICK w : w = Oldest(writes) OBVIOUS
<1>2. /\ server' = Heard(w)
      /\ UNCHANGED <<connection, handled, job, dataIn, posted>>
  BY <1>1, Zenon DEF freerdp_channels_process_sync
<1>3. Flow' = Flow BY <1>2, Zenon DEF Flow
<1>4. PICK n \in Nat : n = Len(sent) BY SyncTakes
<1>5. PICK s : s = Stream OBVIOUS
<1>6. s \in Seq(Written) BY <1>5, StreamType, Zenon
<1>7. /\ Stream' = s /\ n + 1 <= Len(s) /\ Len(sent') = n + 1 /\ s[n + 1] = w /\ w # WMQ_QUIT
  BY <1>1, <1>4, <1>5, SyncTakes, Zenon
<1>8. PICK o : o = connection OBVIOUS
<1>9. PICK A, B, C : TurnParts(c, A, B, C) BY Zenon DEF TurnParts
<1>10. C = AnswerOf(o, s, n, c) BY <1>4, <1>5, <1>8, <1>9, Zenon DEF TurnParts
<1>11. PICK Z : Z = AnswerOf(o, s, n + 1, c) OBVIOUS
<1>12. TurnParts(c, A, B, Z)' BY <1>2, <1>3, <1>7, <1>8, <1>9, <1>11, Zenon DEF TurnParts
<1>13. /\ One(C) /\ Fewer(A, A) /\ Fewer(B, B) /\ (C # {} => A = {} /\ B = {})
       /\ C # {} => server[c] \notin {"none", "up", "failed"}
  BY <1>9, TurnOne, Zenon
<1>14. /\ Z \subseteq C /\ n + 1 \notin Z
       /\ s[n + 1] # WMQ_QUIT /\ s[n + 1].on = o /\ Answers(s[n + 1], c) => n + 1 \in C
  BY <1>6, <1>7, <1>10, <1>11, AnswerTaken, Zenon
<1>15. server \in [ChannelIds -> Known] BY Zenon DEF KindOK, Known
<1>16. CASE w.on = o /\ Answers(w, c)
  <2>1. n + 1 \in C BY <1>7, <1>14, <1>16, Zenon
  <2>2. Z = {} /\ C # {} BY <1>13, <1>14, <2>1, OneTaken, Zenon
  <2>3. A = {} /\ B = {} /\ server[c] # "up" BY <1>13, <2>2
  <2>4. Turn(server'[c], A, B, Z) BY <2>2, <2>3, TurnNone, Zenon
  <2> QED BY <1>12, <2>3, <2>4, Zenon DEF TurnOf, TurnParts
<1>17. CASE ~(w.on = o /\ Answers(w, c))
  <2>1. server'[c] = server[c] BY <1>2, <1>8, <1>15, <1>17, HeardOf, Zenon
  <2>2. Fewer(Z, C) BY <1>13, <1>14, FewerPart, Zenon
  <2>3. TurnOf(c)' BY <1>9, <1>12, <1>13, <2>1, <2>2, TurnMoves, Zenon
  <2> QED BY <2>1, <2>3
<1> QED BY <1>16, <1>17

\* a write is drained
LEMMA SyncDelivers ==
    ASSUME IInv, StreamOK, DeliveryInv, freerdp_channels_process_sync
    PROVE  DeliveryInv'
<1>1. KindOK /\ PlanOK /\ TurnsOK /\ SentOK /\ CollectOK BY Zenon DEF DeliveryInv
<1>2. PICK w : w = Oldest(writes) OBVIOUS
<1>3. /\ UNCHANGED <<connection, handled, delivered, messages, pending, job, dataIn, posted>>
      /\ UNCHANGED <<main, thread, dvc>>
      /\ server' = Heard(w)
  BY <1>2, Zenon DEF freerdp_channels_process_sync
<1>4. Flow' = Flow BY <1>3, Zenon DEF Flow
<1>5. \A c \in ChannelIds : TurnOf(c)' /\ (server[c] = "up" => server'[c] = "up")
  BY <1>1, SyncTurn, Zenon DEF TurnsOK
<1>6. TurnsOK' BY <1>5, Zenon DEF TurnsOK
<1>7. KindOK'
  <2>1. server \in [ChannelIds -> Known] BY <1>1, Zenon DEF KindOK, Known
  <2>2. server' \in [ChannelIds -> Known]
    <3>1. ASSUME NEW c \in ChannelIds PROVE Heard(w) \in [ChannelIds -> Known] BY <2>1, HeardOf, Zenon
    <3>2. CASE ChannelIds = {}
      <4>1. Heard(w) = server \/ \E k : Heard(w) = [server EXCEPT ![w.ch] = k] BY DEF Heard
      <4> QED BY <1>3, <2>1, <3>2, <4>1
    <3>3. CASE ChannelIds # {} BY <1>3, <3>1, <3>3
    <3> QED BY <3>2, <3>3
  <2>3. \A c \in ChannelIds : pending'[c] = 1 => server'[c] = "up" BY <1>1, <1>3, <1>5, Zenon DEF KindOK
  <2> QED BY <1>1, <1>3, <2>2, <2>3, Zenon DEF KindOK, Known
<1>8. PlanOK' /\ (Alive' => Alive) /\ \A c : Got(c)' = Got(c) /\ (ManagedOK(c) => ManagedOK(c)')
  BY <1>1, <1>3, SameJobs, Zenon
<1>9. SentOK'
  <2>1. main' = "loop" => main = "loop" BY <1>3
  <2> QED BY <1>1, <1>3, <1>4, <2>1, SentStays, Zenon
<1>10. CollectOK' BY <1>1, <1>3, <1>4, <1>8, CollectStays, Zenon
<1> QED BY <1>6, <1>7, <1>8, <1>9, <1>10, Zenon DEF DeliveryInv

-----------------------------------------------------------------------------
(* The threads go on.                                                        *)

\* the program of a thread changes, and nothing the server knows or has sent
LEMMA WorkDelivers ==
    ASSUME IInv, DeliveryInv,
           UNCHANGED <<main, connection, handled, delivered, server, messages, pending, posted, dataIn>>,
           PlanOK', \A c \in ChannelIds : TurnOf(c)',
           Alive' => Alive,
           Alive' => \A c \in ChannelIds : CollectsOn(c) /\ ManagedOK(c) => Got(c)' = Got(c) /\ ManagedOK(c)'
    PROVE  DeliveryInv'
<1>1. KindOK /\ SentOK /\ CollectOK BY Zenon DEF DeliveryInv
<1>2. Flow' = Flow BY Zenon DEF Flow
<1>3. KindOK' BY <1>1, Zenon DEF KindOK
<1>4. main' = "loop" => main = "loop" OBVIOUS
<1>5. SentOK' BY <1>1, <1>2, <1>4, SentStays, Zenon
<1>6. CollectOK' BY <1>1, <1>2, CollectStays, Zenon
<1>7. TurnsOK' BY Zenon DEF TurnsOK
<1> QED BY <1>3, <1>5, <1>6, <1>7, Zenon DEF DeliveryInv

\* a program that does nothing but write data
OnlyData(p) ==
    \A i \in DOMAIN p : p[i].op \in {"enter", "leave"} \/ (p[i].op = "write" /\ IsData(p[i].pdu))

\* a message is written between entering and leaving the channel
LEMMA WritesData ==
    ASSUME connection \in Nat, NEW c \in ChannelIds, NEW m \in Nat, NEW n \in 1..2,
           NEW p, p = dvcman_write_channel(c, m, n)
    PROVE  p \in Seq(Steps) /\ OnlyData(p)
<1>1. PICK s : s = Simple("DATA", c) OBVIOUS
<1>2. /\ p \in Seq(Steps) /\ DOMAIN p = 1..(n + 2)
      /\ p[1] = Op("enter", s) /\ p[n + 2] = Op("leave", s)
      /\ \A i \in 1..n : p[i + 1] = Write(Piece(c, m, i, n))
  BY <1>1, WriteSteps, Zenon
<1>3. p[1].op = "enter" /\ p[n + 2].op = "leave" BY <1>2, OpFields
<1>4. ASSUME NEW k \in 1..n PROVE p[k + 1].op = "write" /\ IsData(p[k + 1].pdu)
  <2>1. PICK q : q = Piece(c, m, k, n) OBVIOUS
  <2>2. q.type \in {"DATA_FIRST", "DATA"} BY <2>1, PieceFields
  <2>3. p[k + 1] = Write(q) BY <1>2, <2>1, Zenon
  <2>4. p[k + 1].op = "write" /\ p[k + 1].pdu = q BY <2>3, OpFields
  <2> QED BY <2>2, <2>4, Zenon DEF IsData
<1>5. ASSUME NEW i \in DOMAIN p
      PROVE  p[i].op \in {"enter", "leave"} \/ (p[i].op = "write" /\ IsData(p[i].pdu))
  <2>1. i = 1 \/ i = n + 2 \/ \E k \in 1..n : i = k + 1
    <3>1. i \in 1..(n + 2) BY <1>2
    <3>2. i = 1 \/ i = n + 2 \/ (i - 1 \in 1..n /\ i = (i - 1) + 1) BY <3>1
    <3> QED BY <3>2
  <2> QED BY <1>3, <1>4, <2>1, Zenon
<1> QED BY <1>2, <1>5, Zenon DEF OnlyData

\* the device begins to write
LEMMA DeviceDelivers ==
    ASSUME IInv, DeliveryInv, NEW c \in ChannelIds, NEW n \in 1..2, DeviceWrite(c, n)
    PROVE  DeliveryInv'
<1>1. PICK m : m = MaxPdus + budget.device OBVIOUS
<1>2. PICK p : p = dvcman_write_channel(c, m, n) OBVIOUS
<1>3. /\ UNCHANGED <<main, connection, handled, delivered, posted, dataIn>>
      /\ UNCHANGED <<server, messages, pending, writes, sent, thread, dvc>>
      /\ job' = [job EXCEPT !["device"] = p]
  BY <1>1, <1>2, Zenon DEF DeviceWrite, Goes, peer
<1>4. budget \in [pdus : Nat, device : Nat] /\ connection \in Nat BY Zenon DEF IInv, PeerOK, TypeOK
<1>5. m \in Nat BY <1>1, <1>4, ChannelsAssumption DEF ChannelsAssumption
<1>6. OnlyData(p) BY <1>2, <1>4, <1>5, WritesData, Zenon
<1>7. \A i \in DOMAIN p : p[i].op \in Writing => IsData(p[i].pdu) BY <1>6 DEF Writing, OnlyData
<1>8. job \in [Threads -> Seq(Steps)] BY Zenon DEF IInv, TypeOK
<1>9. job'["device"] = p /\ job'["drdynvc"] = job["drdynvc"] BY <1>3, <1>8 DEF Threads
<1>10. PlanOK'
  <2>1. PlanOK BY Zenon DEF DeliveryInv
  <2> QED BY <1>7, <1>9, <2>1, Zenon DEF PlanOK
<1>11. Stream' = Stream BY <1>3, Zenon DEF Stream
<1>12. Flow' = Flow BY <1>3, Zenon DEF Flow
<1>13. \A d \in ChannelIds : TurnOf(d)'
  <2>1. \A d \in ChannelIds : TurnOf(d) BY Zenon DEF DeliveryInv, TurnsOK
  <2> QED BY <1>3, <1>9, <1>11, <1>12, <2>1, Zenon DEF TurnOf
<1>14. \A d : Got(d)' = Got(d) BY <1>3, Zenon DEF Got
<1>15. Alive' => Alive BY <1>3, <1>9, Zenon DEF Alive
<1>16. \A d : ManagedOK(d) => ManagedOK(d)' BY <1>9, <1>14, Zenon DEF ManagedOK
<1> QED BY <1>3, <1>10, <1>13, <1>14, <1>15, <1>16, WorkDelivers, Zenon

\* what a step of a thread leaves alone
Apart == UNCHANGED <<main, connection, handled, delivered, server, messages, pending, posted, dataIn, sent>>

\* a step of a writing thread does not touch the session thread's state
LEMMA StepApart ==
    ASSUME NEW t, Step(t)
    PROVE  Apart
BY Zenon DEF Step, Apart, peer

\* the request being handled moves on with the program
LEMMA TurnWork ==
    ASSUME Apart, Stream' = Stream, NEW p, job'["drdynvc"] = p,
           NEW c, TurnOf(c), Fewer(WorkOn(p, c), WorkOn(job["drdynvc"], c))
    PROVE  TurnOf(c)'
<1>1. Flow' = Flow BY Zenon DEF Flow, Apart
<1>2. PICK A, B, C : TurnParts(c, A, B, C) BY Zenon DEF TurnParts
<1>3. PICK Y : Y = WorkOn(p, c) OBVIOUS
<1>4. TurnParts(c, A, Y, C)' BY <1>1, <1>2, <1>3, Zenon DEF TurnParts, Apart
<1>5. Fewer(Y, B) BY <1>2, <1>3, Zenon DEF TurnParts
<1>6. Fewer(A, A) /\ Fewer(C, C) BY <1>2, TurnOne, Zenon
<1>7. server'[c] = server[c] BY Zenon DEF Apart
<1> QED BY <1>2, <1>4, <1>5, <1>6, <1>7, TurnMoves, Zenon

\* it becomes an answer when it is posted
LEMMA TurnPost ==
    ASSUME IInv, StreamOK, Apart, NEW j, j = job["drdynvc"], j \in Seq(Steps), j # <<>>,
           j[1].op = "post", NEW w \in Written, w = j[1].pdu, Stream' = Append(Stream, w),
           job'["drdynvc"] = Tail(j), NEW c, TurnOf(c)
    PROVE  TurnOf(c)'
<1>1. Flow' = Flow BY Zenon DEF Flow, Apart
<1>2. PICK A, B, C : TurnParts(c, A, B, C) BY Zenon DEF TurnParts
<1>3. PICK u : u = Tail(j) OBVIOUS
<1>4. PICK Y : Y = WorkOn(u, c) OBVIOUS
<1>5. PICK s : s = Stream OBVIOUS
<1>6. PICK r : r = Append(s, w) OBVIOUS
<1>7. s \in Seq(Written) /\ sent \in Seq(Written) BY <1>5, StreamType, Zenon
<1>8. PICK n \in Nat : n = Len(sent) BY <1>7, LenProperties
<1>9. PICK o : o = connection OBVIOUS
<1>10. PICK Z : Z = AnswerOf(o, r, n, c) OBVIOUS
<1>11. B = WorkOn(j, c) /\ C = AnswerOf(o, s, n, c) BY <1>2, <1>5, <1>8, <1>9, Zenon DEF TurnParts
<1>12. TurnParts(c, A, Y, Z)'
  <2>1. connection' = o /\ Stream' = r /\ Len(sent') = n BY <1>5, <1>6, <1>8, <1>9, Zenon DEF Apart
  <2> QED BY <1>1, <1>2, <1>3, <1>4, <1>10, <2>1, Zenon DEF TurnParts, Apart
<1>13. /\ One(A) /\ One(B) /\ One(C) /\ Fewer(A, A)
       /\ B # {} => A = {} /\ C = {}
       /\ B # {} => server[c] \notin {"none", "up", "failed"}
  BY <1>2, TurnOne, Zenon
<1>14. Fewer(Y, B) /\ (Handles(j[1], c) => Y = {})
  BY <1>3, <1>4, <1>11, <1>13, WorkTail, Zenon
<1>15. server'[c] = server[c] BY Zenon DEF Apart
<1>16. CASE Handles(j[1], c)
  <2>1. 1 \in DOMAIN j BY EmptySeq
  <2>2. 1 \in B BY <1>11, <1>16, <2>1, Zenon DEF WorkOn
  <2>3. Y = {} /\ A = {} /\ C = {} /\ server'[c] \notin {"none", "up", "failed"}
    BY <1>13, <1>14, <1>15, <1>16, <2>2
  <2>4. AnswerOf(o, s, n, c) = {} => One(AnswerOf(o, r, n, c)) BY <1>6, <1>7, AnswerGrows, Zenon
  <2>5. One(Z) BY <1>10, <1>11, <2>3, <2>4, Zenon
  <2>6. One({}) BY DEF One
  <2>7. Turn(server'[c], A, Y, Z) BY <2>3, <2>5, <2>6, Zenon DEF Turn
  <2> QED BY <1>12, <2>7, Zenon DEF TurnOf, TurnParts
<1>17. CASE ~Handles(j[1], c)
  <2>1. ~Answers(w, c)
    <3>1. j[1].op \in Writing BY DEF Writing
    <3>2. Answers(w, c) => w.ch = c BY Zenon DEF Answers
    <3> QED BY <1>17, <3>1, <3>2, Zenon DEF Handles
  <2>2. ~Answers(w, c) => AnswerOf(o, r, n, c) \subseteq AnswerOf(o, s, n, c)
    BY <1>6, <1>7, AnswerGrows, Zenon
  <2>3. Z \subseteq C BY <1>10, <1>11, <2>1, <2>2, Zenon
  <2>4. Fewer(Z, C) BY <1>13, <2>3, FewerPart, Zenon
  <2> QED BY <1>2, <1>12, <1>13, <1>14, <1>15, <2>4, TurnMoves, Zenon
<1> QED BY <1>16, <1>17

NoExit(p) == \A i \in DOMAIN p : p[i].op # "exit"
OnlyExit(p) == \A i \in DOMAIN p : p[i].op \in {"leave", "exit"}

\* drdynvc's program stays one that does nothing else once it exits
LEMMA PlanMoves ==
    ASSUME PlanOK, job'["device"] = job["device"], NEW p, job'["drdynvc"] = p,
           NoExit(p) \/ OnlyExit(p)
    PROVE  PlanOK'
BY Zenon DEF PlanOK, NoExit, OnlyExit

\* a program exits and does nothing else, or does not exit
LEMMA PlanNow ==
    ASSUME PlanOK
    PROVE  NoExit(job["drdynvc"]) \/ OnlyExit(job["drdynvc"])
BY Zenon DEF PlanOK, NoExit, OnlyExit

\* what a program manages has been managed before
Manages(p, j) ==
    \A i \in DOMAIN p : p[i].op \in Managing =>
        \E k \in DOMAIN j : j[k].op \in Managing /\ j[k].pdu.ch = p[i].pdu.ch

\* then no channel on which a message is collected is managed
LEMMA ManagedMoves ==
    ASSUME NEW c, ManagedOK(c), Got(c)' = Got(c), NEW p, job'["drdynvc"] = p,
           Manages(p, job["drdynvc"])
    PROVE  ManagedOK(c)'
BY Zenon DEF ManagedOK, Manages

\* the rest of a program
LEMMA TailRest ==
    ASSUME NEW j \in Seq(Steps), j # <<>>, NEW u, u = Tail(j)
    PROVE  /\ \A i \in DOMAIN u : \E k \in DOMAIN j : u[i] = j[k]
           /\ \A k \in DOMAIN j : k = 1 \/ \E i \in DOMAIN u : u[i] = j[k]
           /\ Manages(u, j)
           /\ NoExit(j) => NoExit(u)
           /\ OnlyExit(j) => OnlyExit(u)
           /\ j[1].op # "exit" /\ NoExit(u) => NoExit(j)
<1>1. /\ u \in Seq(Steps) /\ Len(u) = Len(j) - 1 /\ \A i \in 1..Len(u) : u[i] = j[i + 1]
  BY HeadTailProperties
<1>2. Len(j) \in Nat \ {0} BY EmptySeq
<1>3. DOMAIN u = 1..Len(u) /\ DOMAIN j = 1..Len(j) BY <1>1
<1>4. \A i \in DOMAIN u : \E k \in DOMAIN j : u[i] = j[k]
  <2>1. \A i \in 1..Len(u) : i + 1 \in 1..Len(j) BY <1>1, <1>2
  <2> QED BY <1>1, <1>3, <2>1, Zenon
<1>5. \A k \in DOMAIN j : k = 1 \/ \E i \in DOMAIN u : u[i] = j[k]
  <2>1. \A k \in 1..Len(j) : k = 1 \/ (k - 1 \in 1..Len(u) /\ k = (k - 1) + 1) BY <1>1, <1>2
  <2>2. \A k \in 1..Len(j) : k = 1 \/ (k - 1 \in 1..Len(u) /\ u[k - 1] = j[k]) BY <1>1, <2>1
  <2> QED BY <1>3, <2>2, Zenon
<1>6. Manages(u, j) BY <1>4, Zenon DEF Manages
<1>7. NoExit(j) => NoExit(u) BY <1>4, Zenon DEF NoExit
<1>8. OnlyExit(j) => OnlyExit(u) BY <1>4, Zenon DEF OnlyExit
<1>9. j[1].op # "exit" /\ NoExit(u) => NoExit(j) BY <1>5, Zenon DEF NoExit
<1> QED BY <1>4, <1>5, <1>6, <1>7, <1>8, <1>9

\* drdynvc's thread goes on with its program p
LEMMA ThreadDelivers ==
    ASSUME IInv, DeliveryInv, Apart, NEW p, job' = [job EXCEPT !["drdynvc"] = p],
           NoExit(p) \/ OnlyExit(p), \A c \in ChannelIds : TurnOf(c)',
           \/ ~Alive'
           \/ /\ thread' = thread /\ (NoExit(p) => NoExit(job["drdynvc"]))
              /\ Manages(p, job["drdynvc"])
              /\ \A c \in ChannelIds : ManagedOK(c) => Got(c)' = Got(c)
    PROVE  DeliveryInv'
<1>1. job \in [Threads -> Seq(Steps)] BY Zenon DEF IInv, TypeOK
<1>2. job'["device"] = job["device"] /\ job'["drdynvc"] = p BY <1>1 DEF Threads
<1>3. PlanOK BY Zenon DEF DeliveryInv
<1>4. PlanOK' BY <1>2, <1>3, PlanMoves, Zenon
<1>5. Apart BY Zenon
<1>6. UNCHANGED <<main, connection, handled, delivered, server, messages, pending, posted, dataIn>>
  BY <1>5, Zenon DEF Apart
<1>7. CASE ~Alive' BY <1>4, <1>6, <1>7, WorkDelivers, Zenon
<1>8. CASE /\ thread' = thread /\ (NoExit(p) => NoExit(job["drdynvc"]))
           /\ Manages(p, job["drdynvc"])
           /\ \A c \in ChannelIds : ManagedOK(c) => Got(c)' = Got(c)
  <2>1. Alive' => Alive BY <1>2, <1>8, Zenon DEF Alive, NoExit
  <2>2. \A c \in ChannelIds : ManagedOK(c) => Got(c)' = Got(c) /\ ManagedOK(c)'
    BY <1>2, <1>8, ManagedMoves, Zenon
  <2> QED BY <1>4, <1>6, <2>1, <2>2, WorkDelivers, Zenon
<1> QED BY <1>7, <1>8

\* a step that only goes on to the next
LEMMA TailDelivers ==
    ASSUME IInv, DeliveryInv, Apart, NEW o, Runs("drdynvc", o), o # "exit",
           job' = [job EXCEPT !["drdynvc"] = Tail(job["drdynvc"])], thread' = thread, writes' = writes,
           \A c \in ChannelIds : ManagedOK(c) => Got(c)' = Got(c)
    PROVE  DeliveryInv'
<1>1. "drdynvc" \in Threads BY DEF Threads
<1>2. PICK j : j = job["drdynvc"] OBVIOUS
<1>3. PICK u : u = Tail(j) OBVIOUS
<1>4. j \in Seq(Steps) /\ j # <<>> /\ j[1].op = o BY <1>1, <1>2, HeadStep
<1>5. job' = [job EXCEPT !["drdynvc"] = u] BY <1>2, <1>3, Zenon
<1>6. job \in [Threads -> Seq(Steps)] BY Zenon DEF IInv, TypeOK
<1>7. job'["drdynvc"] = u BY <1>5, <1>6 DEF Threads
<1>8. Stream' = Stream BY Zenon DEF Stream, Apart
<1>9. ASSUME NEW c \in ChannelIds PROVE TurnOf(c)'
  <2>1. TurnOf(c) BY Zenon DEF DeliveryInv, TurnsOK
  <2>2. One(WorkOn(j, c)) BY <1>2, <2>1, Zenon DEF TurnOf, Turn
  <2>3. Fewer(WorkOn(u, c), WorkOn(j, c)) BY <1>3, <1>4, <2>2, WorkTail, Zenon
  <2> QED BY <1>2, <1>7, <1>8, <2>1, <2>3, TurnWork, Zenon
<1>10. /\ Manages(u, j) /\ (NoExit(j) => NoExit(u)) /\ (OnlyExit(j) => OnlyExit(u))
       /\ j[1].op # "exit" /\ NoExit(u) => NoExit(j)
  BY <1>3, <1>4, TailRest, Zenon
<1>11. NoExit(j) \/ OnlyExit(j) BY <1>2, PlanNow, Zenon DEF DeliveryInv
<1>12. NoExit(u) => NoExit(j) BY <1>4, <1>10, Zenon
<1>13. NoExit(u) \/ OnlyExit(u) BY <1>10, <1>11, Zenon
<1>14. Manages(u, job["drdynvc"]) /\ (NoExit(u) => NoExit(job["drdynvc"])) BY <1>2, <1>10, <1>12, Zenon
<1> QED BY <1>5, <1>9, <1>13, <1>14, ThreadDelivers, Zenon

\* a program that fails leaves the channel and exits
LEMMA FailingIs ==
    ASSUME IInv, NEW p, p = Failing("drdynvc")
    PROVE  OnlyExit(p) /\ ~NoExit(p)
<1>1. "drdynvc" \in Threads BY DEF Threads
<1>2. PICK x : x = Op("exit", Simple("CLOSED", "none")) OBVIOUS
<1>3. x.op = "exit" BY <1>2, OpFields
<1>4. \A i \in DOMAIN p :
         \/ \E k \in DOMAIN job["drdynvc"] :
                k = Len(job["drdynvc"]) /\ p[i] = job["drdynvc"][k] /\ p[i].op = "leave"
         \/ p[i] = x
  BY <1>1, <1>2, FailingSteps
<1>5. \A i \in DOMAIN p : p[i].op \in {"leave", "exit"} BY <1>3, <1>4
<1>6. OnlyExit(p) BY <1>5, Zenon DEF OnlyExit
<1>7. PICK l : p = l \o <<x>> /\ (l = <<>> \/ \E y : l = <<y>>) BY <1>2 DEF Failing
<1>8. p = <<x>> \/ \E y : p = <<y, x>>
  <2>1. CASE l = <<>> BY <1>7, <2>1
  <2>2. ASSUME NEW y, l = <<y>> PROVE p = <<y, x>>
    <3>1. PICK S : x \in S /\ y \in S
      <4>1. x \in {x, y} /\ y \in {x, y} OBVIOUS
      <4> QED BY <4>1
    <3> QED BY <1>7, <2>2, <3>1
  <2> QED BY <1>7, <2>1, <2>2
<1>9. \E i \in DOMAIN p : p[i] = x
  <2>1. CASE p = <<x>> BY <2>1, OneOf
  <2>2. ASSUME NEW y, p = <<y, x>> PROVE \E i \in DOMAIN p : p[i] = x
    <3>1. 2 \in DOMAIN p /\ p[2] = x BY <2>2
    <3> QED BY <3>1
  <2> QED BY <1>8, <2>1, <2>2
<1>10. ~NoExit(p) BY <1>3, <1>9, Zenon DEF NoExit
<1> QED BY <1>6, <1>10

\* and handles nothing
LEMMA ExitWork ==
    ASSUME NEW p, OnlyExit(p), NEW c, NEW B
    PROVE  WorkOn(p, c) = {} /\ Fewer(WorkOn(p, c), B)
<1>1. ASSUME NEW i \in DOMAIN p PROVE ~Handles(p[i], c)
  <2>1. p[i].op = "leave" \/ p[i].op = "exit" BY <1>1 DEF OnlyExit
  <2>2. p[i].op # "create" /\ p[i].op \notin Writing BY <2>1 DEF Writing
  <2> QED BY <2>2, Zenon DEF Handles
<1> QED BY <1>1, WorkNone, Zenon

\* the test of channels->connected
LEMMA CheckDelivers ==
    ASSUME IInv, DeliveryInv, Apart, CheckWrite("drdynvc")
    PROVE  DeliveryInv'
<1>1. "drdynvc" \in Threads BY DEF Threads
<1>2. PICK j : j = job["drdynvc"] OBVIOUS
<1>3. Runs("drdynvc", "write") /\ thread' = thread /\ dvc' = dvc /\ writes' = writes
  BY Zenon DEF CheckWrite
<1>4. j \in Seq(Steps) /\ j # <<>> /\ Head(j) = j[1] /\ Head(j).op = "write" /\ Head(j).pdu \in Pdus
  BY <1>1, <1>2, <1>3, HeadStep, Zenon
<1>5. j[1].op = "write" /\ j[1].op # "exit" /\ j[1].op \notin {"leave", "exit"} BY <1>4
<1>6. 1 \in DOMAIN j BY <1>4, EmptySeq
<1>7. ~OnlyExit(j) BY <1>5, <1>6, Zenon DEF OnlyExit
<1>8. NoExit(j) BY <1>2, <1>7, PlanNow, Zenon DEF DeliveryInv
<1>9. job \in [Threads -> Seq(Steps)] BY Zenon DEF IInv, TypeOK
<1>10. Stream' = Stream BY <1>3, Zenon DEF Stream, Apart
<1>11. ASSUME NEW c \in ChannelIds PROVE TurnOf(c) /\ One(WorkOn(j, c))
  <2>1. TurnOf(c) BY Zenon DEF DeliveryInv, TurnsOK
  <2> QED BY <1>2, <2>1, Zenon DEF TurnOf, Turn
<1>12. \A c : Got(c)' = Got(c) BY <1>3, Zenon DEF Got
<1>13. CASE job' = [job EXCEPT !["drdynvc"] = <<Op("post", Head(j).pdu)>> \o Tail(j)]
  <2>1. PICK u : u = Tail(j) OBVIOUS
  <2>2. PICK a : a = Op("post", j[1].pdu) OBVIOUS
  <2>3. a \in Steps /\ a.op = "post" /\ a.pdu = j[1].pdu BY <1>4, <2>2, OpType DEF Ops
  <2>4. PICK p : p = <<a>> \o u OBVIOUS
  <2>5. job' = [job EXCEPT !["drdynvc"] = p] BY <1>4, <1>13, <2>1, <2>2, <2>4, Zenon
  <2>6. job'["drdynvc"] = p BY <1>9, <2>5 DEF Threads
  <2>7. u \in Seq(Steps) BY <1>4, <2>1, HeadTailProperties
  <2>8. \A i \in DOMAIN p : p[i] = a \/ \E k \in DOMAIN u : p[i] = u[k] BY <2>3, <2>4, <2>7, Prefixed
  <2>9. NoExit(u) /\ Manages(u, j) BY <1>4, <1>8, <2>1, TailRest, Zenon
  <2>10. a.op # "exit" /\ a.op \notin Managing BY <2>3 DEF Managing
  <2>11. NoExit(p) BY <2>8, <2>9, <2>10, Zenon DEF NoExit
  <2>12. Manages(p, j) BY <2>8, <2>9, <2>10, Zenon DEF Manages
  <2>13. ASSUME NEW c \in ChannelIds PROVE TurnOf(c)'
    <3>1. Fewer(WorkOn(p, c), WorkOn(j, c)) BY <1>4, <1>5, <1>11, <2>1, <2>3, <2>4, WorkTested, Zenon
    <3> QED BY <1>2, <1>10, <1>11, <2>6, <3>1, TurnWork, Zenon
  <2>14. Manages(p, job["drdynvc"]) /\ NoExit(job["drdynvc"]) BY <1>2, <1>8, <2>12, Zenon
  <2> QED BY <1>3, <1>12, <2>5, <2>11, <2>13, <2>14, ThreadDelivers, Zenon
<1>14. CASE job' = [job EXCEPT !["drdynvc"] = Failing("drdynvc")]
  <2>1. PICK p : p = Failing("drdynvc") OBVIOUS
  <2>2. OnlyExit(p) /\ ~NoExit(p) BY <2>1, FailingIs, Zenon
  <2>3. job' = [job EXCEPT !["drdynvc"] = p] BY <1>14, <2>1, Zenon
  <2>4. job'["drdynvc"] = p BY <1>9, <2>3 DEF Threads
  <2>5. ~Alive' BY <2>2, <2>4, Zenon DEF Alive, NoExit
  <2>6. ASSUME NEW c \in ChannelIds PROVE TurnOf(c)'
    <3>1. Fewer(WorkOn(p, c), WorkOn(job["drdynvc"], c)) BY <2>2, ExitWork, Zenon
    <3> QED BY <1>10, <1>11, <2>4, <3>1, TurnWork, Zenon
  <2> QED BY <2>2, <2>3, <2>5, <2>6, ThreadDelivers, Zenon
<1> QED BY <1>2, <1>13, <1>14, Zenon DEF CheckWrite, Goes

\* a post adds to what is written
LEMMA PostAdds ==
    ASSUME IInv, StreamOK, NEW t \in Threads, Step(t), PostWrite(t)
    PROVE  \E w : /\ w \in Written /\ job[t] \in Seq(Steps) /\ job[t] # <<>> /\ 1 \in DOMAIN job[t]
                  /\ job[t][1].op = "post" /\ w = job[t][1].pdu
                  /\ Stream' = Append(Stream, w) /\ job' = [job EXCEPT ![t] = Tail(job[t])]
<1>1. PICK w : Posts(t, w) BY PostPosts, Zenon
<1>2. /\ w \in Pdus /\ Contents(writes') = Append(Contents(writes), w) /\ Runs(t, "post")
      /\ w = job[t][1].pdu /\ job' = [job EXCEPT ![t] = Tail(job[t])]
  BY <1>1, Zenon DEF Posts
<1>3. sent' = sent BY Zenon DEF Step
<1>4. w \in Written BY <1>2 DEF Written
<1>5. sent \in Seq(Written) /\ Contents(writes) \in Seq(Written) BY StreamType, Zenon
<1>6. sent \o Append(Contents(writes), w) = Append(sent \o Contents(writes), w)
  BY <1>4, <1>5, AppendBehind
<1>7. Stream' = Append(Stream, w) BY <1>2, <1>3, <1>6, Zenon DEF Stream
<1>8. job[t] \in Seq(Steps) /\ job[t] # <<>> /\ 1 \in DOMAIN job[t] /\ job[t][1].op = "post"
  BY <1>2, HeadStep, Zenon
<1> QED BY <1>2, <1>4, <1>7, <1>8, Zenon

\* the post of drdynvc's thread
LEMMA PostDelivers ==
    ASSUME IInv, StreamOK, DeliveryInv, Step("drdynvc"), PostWrite("drdynvc")
    PROVE  DeliveryInv'
<1>1. "drdynvc" \in Threads BY DEF Threads
<1>2. PICK j : j = job["drdynvc"] OBVIOUS
<1>3. PICK w : /\ w \in Written /\ j \in Seq(Steps) /\ j # <<>> /\ 1 \in DOMAIN j
               /\ j[1].op = "post" /\ w = j[1].pdu
               /\ Stream' = Append(Stream, w) /\ job' = [job EXCEPT !["drdynvc"] = Tail(j)]
  BY <1>1, <1>2, PostAdds, Zenon
<1>4. Apart BY StepApart, Zenon
<1>5. thread' = thread /\ dvc' = dvc BY Zenon DEF PostWrite
<1>6. job \in [Threads -> Seq(Steps)] BY Zenon DEF IInv, TypeOK
<1>7. PICK u : u = Tail(j) OBVIOUS
<1>8. job'["drdynvc"] = Tail(j) /\ job' = [job EXCEPT !["drdynvc"] = u] BY <1>3, <1>6, <1>7 DEF Threads
<1>9. ASSUME NEW c \in ChannelIds PROVE TurnOf(c)'
  <2>1. TurnOf(c) BY Zenon DEF DeliveryInv, TurnsOK
  <2> QED BY <1>2, <1>3, <1>4, <1>8, <2>1, TurnPost, Zenon
<1>10. /\ Manages(u, j) /\ (NoExit(j) => NoExit(u)) /\ (OnlyExit(j) => OnlyExit(u))
       /\ j[1].op # "exit" /\ NoExit(u) => NoExit(j)
  BY <1>3, <1>7, TailRest, Zenon
<1>11. NoExit(j) \/ OnlyExit(j) BY <1>2, PlanNow, Zenon DEF DeliveryInv
<1>12. j[1].op # "exit" BY <1>3
<1>13. NoExit(u) \/ OnlyExit(u) BY <1>10, <1>11, Zenon
<1>14. Manages(u, job["drdynvc"]) /\ (NoExit(u) => NoExit(job["drdynvc"])) BY <1>2, <1>10, <1>12, Zenon
<1>15. \A c : Got(c)' = Got(c) BY <1>5, Zenon DEF Got
<1> QED BY <1>4, <1>5, <1>8, <1>9, <1>13, <1>14, <1>15, ThreadDelivers, Zenon

\* a channel is entered or left
LEMMA LockDelivers ==
    ASSUME IInv, DeliveryInv, Apart, EnterChannel("drdynvc") \/ LeaveChannel("drdynvc")
    PROVE  DeliveryInv'
<1>1. /\ thread' = thread /\ writes' = writes /\ dvc' = dvc
      /\ job' = [job EXCEPT !["drdynvc"] = Tail(job["drdynvc"])]
  BY Zenon DEF EnterChannel, LeaveChannel, Goes
<1>2. PICK o \in {"enter", "leave"} : Runs("drdynvc", o) BY Zenon DEF EnterChannel, LeaveChannel
<1>3. o # "exit" BY <1>2
<1>4. \A c : Got(c)' = Got(c) BY <1>1, Zenon DEF Got
<1> QED BY <1>1, <1>2, <1>3, <1>4, TailDelivers, Zenon

\* a channel that is opened keeps what it has collected
LEMMA OpenDelivers ==
    ASSUME IInv, DeliveryInv, Apart, OpenChannel("drdynvc")
    PROVE  DeliveryInv'
<1>1. "drdynvc" \in Threads BY DEF Threads
<1>2. PICK c : c = Head(job["drdynvc"]).pdu.ch OBVIOUS
<1>3. /\ Runs("drdynvc", "open") /\ thread' = thread /\ writes' = writes
      /\ job' = [job EXCEPT !["drdynvc"] = Tail(job["drdynvc"])]
      /\ dvc' = [dvc EXCEPT ![c] = [opened |-> TRUE, data |-> dvc[c].data]]
  BY <1>2, Zenon DEF OpenChannel, Goes
<1>4. 1 \in DOMAIN job["drdynvc"] /\ job["drdynvc"][1].op = "open" /\ job["drdynvc"][1].pdu.ch = c
  BY <1>1, <1>2, <1>3, HeadStep, Zenon
<1>5. "open" \in InChannel BY DEF InChannel
<1>6. c \in ChannelIds /\ dvc[c] # NoChannel
  <2>1. "open" \in InChannel \cup {"create"} BY <1>5
  <2>2. ProgramOK(job["drdynvc"], dvc) BY <1>1, Zenon DEF IInv, ChannelOK
  <2> QED BY <1>4, <1>5, <2>1, <2>2, Zenon DEF ProgramOK
<1>7. dvc \in [ChannelIds -> DvcChannels \cup {NoChannel}] BY Zenon DEF IInv, TypeOK
<1>8. dvc[c] \in DvcChannels BY <1>6, <1>7
<1>9. PICK r : r = [opened |-> TRUE, data |-> dvc[c].data] OBVIOUS
<1>10. r \in DvcChannels /\ r.data = dvc[c].data BY <1>8, <1>9 DEF DvcChannels
<1>11. r # NoChannel BY <1>10, ChannelsAssumption DEF ChannelsAssumption
<1>12. dvc' = [dvc EXCEPT ![c] = r] BY <1>3, <1>9, Zenon
<1>13. ASSUME NEW d \in ChannelIds PROVE Got(d)' = Got(d)
  <2>1. CASE d = c
    <3>1. dvc'[c] = r BY <1>6, <1>7, <1>12
    <3> QED BY <1>6, <1>10, <1>11, <2>1, <3>1, Zenon DEF Got
  <2>2. CASE d # c
    <3>1. dvc'[d] = dvc[d] BY <1>7, <1>12, <2>2
    <3> QED BY <3>1, Zenon DEF Got
  <2> QED BY <2>1, <2>2
<1>14. "open" # "exit" OBVIOUS
<1> QED BY <1>3, <1>13, <1>14, TailDelivers, Zenon

\* a channel that is closed has nothing collected
LEMMA CloseDelivers ==
    ASSUME IInv, DeliveryInv, Apart, CloseChannel("drdynvc")
    PROVE  DeliveryInv'
<1>1. "drdynvc" \in Threads BY DEF Threads
<1>2. PICK c : c = Head(job["drdynvc"]).pdu.ch OBVIOUS
<1>3. /\ Runs("drdynvc", "close") /\ thread' = thread /\ writes' = writes
      /\ job' = [job EXCEPT !["drdynvc"] = Tail(job["drdynvc"])]
      /\ dvc' = [dvc EXCEPT ![c] = NoChannel]
  BY <1>2, Zenon DEF CloseChannel, Goes
<1>4. 1 \in DOMAIN job["drdynvc"] /\ job["drdynvc"][1].op = "close" /\ job["drdynvc"][1].pdu.ch = c
  BY <1>1, <1>2, <1>3, HeadStep, Zenon
<1>5. "close" \in Managing /\ "close" # "exit" BY DEF Managing
<1>6. dvc \in [ChannelIds -> DvcChannels \cup {NoChannel}] BY Zenon DEF IInv, TypeOK
<1>7. ASSUME NEW d \in ChannelIds, ManagedOK(d) PROVE Got(d)' = Got(d)
  <2>1. CASE d = c
    <3>1. dvc'[d] = NoChannel BY <1>3, <1>6, <2>1
    <3>2. Got(d)' = <<>> BY <3>1, Zenon DEF Got
    <3>3. Got(d) = <<>> BY <1>4, <1>5, <1>7, <2>1, Zenon DEF ManagedOK
    <3> QED BY <3>2, <3>3
  <2>2. CASE d # c
    <3>1. dvc'[d] = dvc[d] BY <1>3, <1>6, <2>2
    <3> QED BY <3>1, Zenon DEF Got
  <2> QED BY <2>1, <2>2
<1> QED BY <1>3, <1>5, <1>7, TailDelivers, Zenon

\* the thread exits
LEMMA ExitDelivers ==
    ASSUME IInv, DeliveryInv, Apart, ExitThread("drdynvc")
    PROVE  DeliveryInv'
<1>1. /\ thread' = "exited" /\ writes' = writes /\ job' = [job EXCEPT !["drdynvc"] = <<>>]
  BY Zenon DEF ExitThread, Goes
<1>2. thread' # "run" BY <1>1
<1>3. ~Alive' BY <1>2, Zenon DEF Alive
<1>4. PICK p : p = <<>> OBVIOUS
<1>5. DOMAIN p = {} BY <1>4
<1>6. OnlyExit(p) BY <1>5, Zenon DEF OnlyExit
<1>7. job \in [Threads -> Seq(Steps)] BY Zenon DEF IInv, TypeOK
<1>8. job'["drdynvc"] = p /\ job' = [job EXCEPT !["drdynvc"] = p] BY <1>1, <1>4, <1>7 DEF Threads
<1>9. Stream' = Stream BY <1>1, Zenon DEF Stream, Apart
<1>10. ASSUME NEW c \in ChannelIds PROVE TurnOf(c)'
  <2>1. TurnOf(c) BY Zenon DEF DeliveryInv, TurnsOK
  <2>2. Fewer(WorkOn(p, c), WorkOn(job["drdynvc"], c)) BY <1>6, ExitWork, Zenon
  <2> QED BY <1>8, <1>9, <2>1, <2>2, TurnWork, Zenon
<1> QED BY <1>3, <1>6, <1>8, <1>10, ThreadDelivers, Zenon

\* a request is answered by the program that begins with it: nothing else is on
\* its way then
LEMMA TurnAnswers ==
    ASSUME Apart, Stream' = Stream, NEW j, j = job["drdynvc"], 1 \in DOMAIN j, NEW c, Handles(j[1], c),
           NEW p, job'["drdynvc"] = p, One(WorkOn(p, c)), TurnOf(c)
    PROVE  TurnOf(c)'
<1>1. Flow' = Flow BY Zenon DEF Flow, Apart
<1>2. PICK A, B, C : TurnParts(c, A, B, C) BY Zenon DEF TurnParts
<1>3. PICK Y : Y = WorkOn(p, c) OBVIOUS
<1>4. TurnParts(c, A, Y, C)' BY <1>1, <1>2, <1>3, Zenon DEF TurnParts, Apart
<1>5. 1 \in B BY <1>2, Zenon DEF TurnParts, WorkOn
<1>6. A = {} /\ C = {} /\ server[c] \notin {"none", "up", "failed"}
  <2>1. B # {} BY <1>5
  <2> QED BY <1>2, <2>1, TurnOne, Zenon
<1>7. server'[c] = server[c] BY Zenon DEF Apart
<1>8. One({}) BY DEF One
<1>9. Turn(server'[c], A, Y, C) BY <1>3, <1>6, <1>7, <1>8, Zenon DEF Turn
<1> QED BY <1>4, <1>9, Zenon DEF TurnOf, TurnParts

\* a channel is created, or not, and the server is answered
LEMMA CreateDelivers ==
    ASSUME IInv, DeliveryInv, Apart, CreateChannel("drdynvc")
    PROVE  DeliveryInv'
<1>1. "drdynvc" \in Threads BY DEF Threads
<1>2. PICK j : j = job["drdynvc"] OBVIOUS
<1>3. PICK q : q = Head(j).pdu OBVIOUS
<1>4. PICK c : c = q.ch OBVIOUS
<1>5. PICK ty, o : /\ ty \in {"CREATED", "NOT_CREATED"} /\ o \in {"open", "close"}
                   /\ job' = [job EXCEPT !["drdynvc"] = <<Write(Simple(ty, c)), Op(o, q)>>]
                   /\ \/ dvc' = dvc
                      \/ dvc[c] = NoChannel /\ dvc' = [dvc EXCEPT ![c] = [opened |-> FALSE, data |-> <<>>]]
  <2>1. CASE dvc[c] = NoChannel /\ q.type = "CREATE_REQUEST"
    <3>1. /\ job' = [job EXCEPT !["drdynvc"] = <<Write(Simple("CREATED", c)), Op("open", q)>>]
          /\ dvc' = [dvc EXCEPT ![c] = [opened |-> FALSE, data |-> <<>>]]
      BY <1>2, <1>3, <1>4, <2>1, Zenon DEF CreateChannel, Goes
    <3>2. "CREATED" \in {"CREATED", "NOT_CREATED"} /\ "open" \in {"open", "close"} OBVIOUS
    <3> QED BY <2>1, <3>1, <3>2, Zenon
  <2>2. CASE ~(dvc[c] = NoChannel /\ q.type = "CREATE_REQUEST")
    <3>1. /\ job' = [job EXCEPT !["drdynvc"] = <<Write(Simple("NOT_CREATED", c)), Op("close", q)>>]
          /\ dvc' = dvc
      BY <1>2, <1>3, <1>4, <2>2, Zenon DEF CreateChannel, Goes
    <3>2. "NOT_CREATED" \in {"CREATED", "NOT_CREATED"} /\ "close" \in {"open", "close"} OBVIOUS
    <3> QED BY <3>1, <3>2, Zenon
  <2> QED BY <2>1, <2>2
<1>6. Runs("drdynvc", "create") /\ thread' = thread /\ writes' = writes BY Zenon DEF CreateChannel
<1>7. /\ 1 \in DOMAIN j /\ j[1].op = "create" /\ j[1].pdu = q /\ q \in Pdus /\ c \in ChannelIds
  <2>1. "create" \in InChannel \cup {"create"} OBVIOUS
  <2> QED BY <1>1, <1>2, <1>3, <1>4, <1>6, <2>1, HeadStep, Zenon
<1>8. connection \in Nat BY Zenon DEF IInv, TypeOK
<1>9. PICK x : x = Simple(ty, c) OBVIOUS
<1>10. x \in Pdus /\ x.ch = c
  <2>1. ty \in ServerTypes \cup ClientTypes BY <1>5 DEF ClientTypes
  <2> QED BY <1>7, <1>8, <1>9, <2>1, SimpleType
<1>11. PICK a : a = Write(x) OBVIOUS
<1>12. PICK b : b = Op(o, q) OBVIOUS
<1>13. a \in Steps /\ a.op = "write" /\ a.pdu = x BY <1>10, <1>11, OpType DEF Write, Ops
<1>14. b \in Steps /\ b.op = o /\ b.pdu = q BY <1>5, <1>7, <1>12, OpType DEF Ops
<1>15. PICK p : p = <<a, b>> OBVIOUS
<1>16. job' = [job EXCEPT !["drdynvc"] = p] BY <1>5, <1>9, <1>11, <1>12, <1>15, Zenon
<1>17. job \in [Threads -> Seq(Steps)] BY Zenon DEF IInv, TypeOK
<1>18. job'["drdynvc"] = p BY <1>16, <1>17 DEF Threads
<1>19. \A i \in DOMAIN p : p[i] = a \/ p[i] = b BY <1>13, <1>14, <1>15, TwoSteps
<1>20. /\ a.op # "exit" /\ b.op # "exit" /\ a.op \notin Managing
       /\ b.op # "create" /\ b.op \notin Writing /\ a.op # "create"
  BY <1>5, <1>13, <1>14 DEF Managing, Writing
<1>21. \A d : ~Handles(b, d) /\ (d # c => ~Handles(a, d))
  BY <1>10, <1>13, <1>20, Zenon DEF Handles
<1>22. Handles(j[1], c) BY <1>4, <1>7, Zenon DEF Handles
<1>23. Stream' = Stream BY <1>6, Zenon DEF Stream, Apart
<1>24. ASSUME NEW d \in ChannelIds PROVE TurnOf(d)'
  <2>1. TurnOf(d) BY Zenon DEF DeliveryInv, TurnsOK
  <2>2. CASE d = c
    <3>1. One(WorkOn(p, d)) BY <1>13, <1>14, <1>15, <1>21, WorkTwo, Zenon
    <3> QED BY <1>2, <1>7, <1>18, <1>22, <1>23, <2>1, <2>2, <3>1, TurnAnswers, Zenon
  <2>3. CASE d # c
    <3>1. \A i \in DOMAIN p : ~Handles(p[i], d) BY <1>19, <1>21, <2>3, Zenon
    <3>2. Fewer(WorkOn(p, d), WorkOn(job["drdynvc"], d)) BY <3>1, WorkNone, Zenon
    <3> QED BY <1>18, <1>23, <2>1, <3>2, TurnWork, Zenon
  <2> QED BY <2>2, <2>3
<1>25. NoExit(p) BY <1>19, <1>20, Zenon DEF NoExit
<1>26. "create" \in Managing /\ j[1].op \notin {"leave", "exit"} BY <1>7 DEF Managing
<1>27. Manages(p, j) BY <1>7, <1>14, <1>19, <1>20, <1>26, Zenon DEF Manages
<1>28. NoExit(j)
  <2>1. ~OnlyExit(j) BY <1>7, <1>26, Zenon DEF OnlyExit
  <2> QED BY <1>2, <2>1, PlanNow, Zenon DEF DeliveryInv
<1>29. ASSUME NEW d \in ChannelIds PROVE Got(d)' = Got(d)
  <2>1. CASE dvc' = dvc BY <2>1, Zenon DEF Got
  <2>2. CASE dvc[c] = NoChannel /\ dvc' = [dvc EXCEPT ![c] = [opened |-> FALSE, data |-> <<>>]]
    <3>1. dvc \in [ChannelIds -> DvcChannels \cup {NoChannel}] BY Zenon DEF IInv, TypeOK
    <3>2. CASE d = c
      <4>1. dvc'[d].data = <<>> BY <1>7, <2>2, <3>1, <3>2
      <4>2. Got(d)' = <<>> BY <4>1, Zenon DEF Got
      <4>3. Got(d) = <<>> BY <2>2, <3>2, Zenon DEF Got
      <4> QED BY <4>2, <4>3
    <3>3. CASE d # c
      <4>1. dvc'[d] = dvc[d] BY <2>2, <3>1, <3>3
      <4> QED BY <4>1, Zenon DEF Got
    <3> QED BY <3>2, <3>3
  <2> QED BY <1>5, <2>1, <2>2
<1>30. Manages(p, job["drdynvc"]) /\ NoExit(job["drdynvc"]) BY <1>2, <1>27, <1>28, Zenon
<1> QED BY <1>6, <1>16, <1>24, <1>25, <1>29, <1>30, ThreadDelivers, Zenon

\* drdynvc's thread
LEMMA DrdynvcDelivers ==
    ASSUME IInv, StreamOK, DeliveryInv, Step("drdynvc")
    PROVE  DeliveryInv'
<1>1. Apart BY StepApart, Zenon
<1>2. \/ CheckWrite("drdynvc") \/ PostWrite("drdynvc") \/ EnterChannel("drdynvc")
      \/ LeaveChannel("drdynvc") \/ CreateChannel("drdynvc") \/ OpenChannel("drdynvc")
      \/ CloseChannel("drdynvc") \/ ExitThread("drdynvc")
  BY Zenon DEF Step
<1> QED BY <1>1, <1>2, CheckDelivers, PostDelivers, LockDelivers, CreateDelivers, OpenDelivers,
           CloseDelivers, ExitDelivers, Zenon

\* only data is left of a program that writes only data
DataLeft(p) == \A i \in DOMAIN p : p[i].op \in Writing => IsData(p[i].pdu)

\* what the device's program becomes
LEMMA DeviceGoes ==
    ASSUME IInv, Step("device"), DataLeft(job["device"])
    PROVE  \E p : DataLeft(p) /\ job' = [job EXCEPT !["device"] = p] /\ thread' = thread /\ dvc' = dvc
<1>1. "device" \in Threads BY DEF Threads
<1>2. PICK j : j = job["device"] OBVIOUS
<1>3. PICK o : o \in DeviceOps /\ Runs("device", o) /\
               \/ o = "write" /\ CheckWrite("device")
               \/ o = "post" /\ PostWrite("device")
               \/ o = "enter" /\ EnterChannel("device")
               \/ o = "leave" /\ LeaveChannel("device")
  <2>1. \A x : Runs("device", x) => x \in DeviceOps BY <1>1, HeadStep, Zenon
  <2>2. "write" \in DeviceOps /\ "post" \in DeviceOps /\ "enter" \in DeviceOps /\ "leave" \in DeviceOps
        /\ "create" \notin DeviceOps /\ "open" \notin DeviceOps /\ "close" \notin DeviceOps
        /\ "exit" \notin DeviceOps
    BY DEF DeviceOps
  <2>3. ~CreateChannel("device") /\ ~OpenChannel("device") /\ ~CloseChannel("device")
        /\ ~ExitThread("device")
    BY <2>1, <2>2, Zenon DEF CreateChannel, OpenChannel, CloseChannel, ExitThread
  <2>4. CASE CheckWrite("device") BY <2>2, <2>4, Zenon DEF CheckWrite
  <2>5. CASE PostWrite("device") BY <2>2, <2>5, Zenon DEF PostWrite
  <2>6. CASE EnterChannel("device") BY <2>2, <2>6, Zenon DEF EnterChannel
  <2>7. CASE LeaveChannel("device") BY <2>2, <2>7, Zenon DEF LeaveChannel
  <2> QED BY <2>3, <2>4, <2>5, <2>6, <2>7, Zenon DEF Step
<1>4. thread' = thread /\ dvc' = dvc
  BY <1>3, Zenon DEF CheckWrite, PostWrite, EnterChannel, LeaveChannel
<1>5. j \in Seq(Steps) /\ j # <<>> /\ Head(j) = j[1] /\ Head(j).op = o /\ Head(j).pdu \in Pdus
      /\ 1 \in DOMAIN j /\ Tail(j) \in Seq(Steps)
  BY <1>1, <1>2, <1>3, HeadStep, Zenon
<1>6. PICK u : u = Tail(j) OBVIOUS
<1>7. \A i \in DOMAIN u : \E k \in DOMAIN j : u[i] = j[k] BY <1>5, <1>6, TailRest
<1>8. DataLeft(u) BY <1>2, <1>7, Zenon DEF DataLeft
<1>9. CASE job' = [job EXCEPT !["device"] = Tail(j)] BY <1>4, <1>6, <1>8, <1>9, Zenon
<1>10. CASE o = "write" /\ job' = [job EXCEPT !["device"] = <<Op("post", Head(j).pdu)>> \o Tail(j)]
  <2>1. PICK a : a = Op("post", j[1].pdu) OBVIOUS
  <2>2. a \in Steps /\ a.pdu = j[1].pdu BY <1>5, <2>1, OpType DEF Ops
  <2>3. PICK p : p = <<a>> \o u OBVIOUS
  <2>4. u \in Seq(Steps) BY <1>5, <1>6, Zenon
  <2>5. \A i \in DOMAIN p : p[i] = a \/ \E k \in DOMAIN u : p[i] = u[k] BY <2>2, <2>3, <2>4, Prefixed
  <2>6. j[1].op \in Writing BY <1>5, <1>10 DEF Writing
  <2>7. IsData(a.pdu) BY <1>2, <1>5, <2>2, <2>6, Zenon DEF DataLeft
  <2>8. DataLeft(p) BY <1>8, <2>5, <2>7, Zenon DEF DataLeft
  <2>9. job' = [job EXCEPT !["device"] = p] BY <1>5, <1>6, <1>10, <2>1, <2>3, Zenon
  <2> QED BY <1>4, <2>8, <2>9, Zenon
<1>11. CASE job' = [job EXCEPT !["device"] = Failing("device")]
  <2>1. PICK p : p = Failing("device") OBVIOUS
  <2>2. \A i \in DOMAIN p :
           \/ \E k \in DOMAIN job["device"] :
                 k = Len(job["device"]) /\ p[i] = job["device"][k] /\ p[i].op = "leave"
           \/ "device" = "drdynvc" /\ p[i] = Op("exit", Simple("CLOSED", "none"))
    BY <1>1, <2>1, FailingSteps
  <2>3. \A i \in DOMAIN p : p[i].op = "leave" BY <2>2
  <2>4. "leave" \notin Writing BY DEF Writing
  <2>5. DataLeft(p) BY <2>3, <2>4, Zenon DEF DataLeft
  <2> QED BY <1>4, <1>11, <2>1, <2>5, Zenon
<1> QED BY <1>2, <1>3, <1>9, <1>10, <1>11, Zenon DEF CheckWrite, PostWrite, EnterChannel, LeaveChannel, Goes

\* the device's thread
LEMMA DeviceStepDelivers ==
    ASSUME IInv, StreamOK, DeliveryInv, Step("device")
    PROVE  DeliveryInv'
<1>1. "device" \in Threads BY DEF Threads
<1>2. Apart BY StepApart, Zenon
<1>3. PlanOK /\ \A c \in ChannelIds : TurnOf(c) BY Zenon DEF DeliveryInv, TurnsOK
<1>4. DataLeft(job["device"]) BY <1>3, Zenon DEF PlanOK, DataLeft
<1>5. PICK p : DataLeft(p) /\ job' = [job EXCEPT !["device"] = p] /\ thread' = thread /\ dvc' = dvc
  BY <1>4, DeviceGoes, Zenon
<1>6. job \in [Threads -> Seq(Steps)] BY Zenon DEF IInv, TypeOK
<1>7. job'["device"] = p /\ job'["drdynvc"] = job["drdynvc"] BY <1>5, <1>6 DEF Threads
<1>8. PlanOK' BY <1>3, <1>5, <1>7, Zenon DEF PlanOK, DataLeft
<1>9. \A c : Got(c)' = Got(c) BY <1>5, Zenon DEF Got
<1>10. Alive' => Alive BY <1>5, <1>7, Zenon DEF Alive
<1>11. \A c : ManagedOK(c) => ManagedOK(c)' BY <1>7, <1>9, Zenon DEF ManagedOK
<1>12. Flow' = Flow BY <1>2, Zenon DEF Flow, Apart
<1>13. ASSUME NEW c \in ChannelIds PROVE TurnOf(c)'
  <2>1. CASE ~PostWrite("device")
    <3>1. writes' = writes
      BY <2>1, Zenon DEF Step, CheckWrite, EnterChannel, LeaveChannel, CreateChannel, OpenChannel,
         CloseChannel, ExitThread
    <3>2. Stream' = Stream BY <1>2, <3>1, Zenon DEF Stream, Apart
    <3> QED BY <1>2, <1>3, <1>7, <1>12, <3>2, Zenon DEF TurnOf, Apart
  <2>2. CASE PostWrite("device")
    <3>1. PICK w : /\ w \in Written /\ 1 \in DOMAIN job["device"] /\ job["device"][1].op = "post"
                   /\ w = job["device"][1].pdu /\ Stream' = Append(Stream, w)
      BY <1>1, <2>2, PostAdds, Zenon
    <3>2. "post" \in Writing BY DEF Writing
    <3>3. IsData(w) BY <1>4, <3>1, <3>2, Zenon DEF DataLeft
    <3>4. ~Answers(w, c) BY <3>3 DEF IsData, Answers
    <3>5. PICK s : s = Stream OBVIOUS
    <3>6. PICK r : r = Append(s, w) OBVIOUS
    <3>7. s \in Seq(Written) /\ sent \in Seq(Written) BY <3>5, StreamType, Zenon
    <3>8. PICK n \in Nat : n = Len(sent) BY <3>7, LenProperties
    <3>9. PICK o : o = connection OBVIOUS
    <3>10. PICK A, B, C : TurnParts(c, A, B, C) BY Zenon DEF TurnParts
    <3>11. PICK Z : Z = AnswerOf(o, r, n, c) OBVIOUS
    <3>12. C = AnswerOf(o, s, n, c) BY <3>5, <3>8, <3>9, <3>10, Zenon DEF TurnParts
    <3>13. connection' = o /\ Stream' = r /\ Len(sent') = n
      BY <1>2, <3>1, <3>5, <3>6, <3>8, <3>9, Zenon DEF Apart
    <3>14. TurnParts(c, A, B, Z)' BY <1>2, <1>7, <1>12, <3>10, <3>11, <3>13, Zenon DEF TurnParts, Apart
    <3>15. ~Answers(w, c) => AnswerOf(o, r, n, c) \subseteq AnswerOf(o, s, n, c)
      BY <3>1, <3>6, <3>7, AnswerGrows, Zenon
    <3>16. Z \subseteq C BY <3>4, <3>11, <3>12, <3>15, Zenon
    <3>17. One(C) /\ Fewer(A, A) /\ Fewer(B, B) BY <1>3, <3>10, TurnOne, Zenon
    <3>18. Fewer(Z, C) BY <3>16, <3>17, FewerPart, Zenon
    <3>19. server'[c] = server[c] BY <1>2, Zenon DEF Apart
    <3> QED BY <1>3, <3>10, <3>14, <3>17, <3>18, <3>19, TurnMoves, Zenon
  <2> QED BY <2>1, <2>2
<1>14. UNCHANGED <<main, connection, handled, delivered, server, messages, pending, posted, dataIn>>
  BY <1>2, Zenon DEF Apart
<1> QED BY <1>8, <1>9, <1>10, <1>11, <1>13, <1>14, WorkDelivers, Zenon

\* drdynvc's thread has taken x, the h + 1st message that arrived
Taken(x, h) ==
    /\ x \in Arriving /\ h \in Nat /\ h = Len(handled) /\ h + 1 <= Len(posted)
    /\ h + 1 <= Len(Flow) /\ Flow[h + 1] = x /\ Len(handled') = h + 1
    /\ UNCHANGED <<main, connection, posted, dataIn, server, messages, pending, sent, thread>>
    /\ Flow' = Flow /\ Stream' = Stream
    /\ thread = "run" /\ job["drdynvc"] = <<>>

\* it is the first one that has not been handled
LEMMA TakesNext ==
    ASSUME IInv, TakeMessage, NEW x, x = Oldest(queue), x # WMQ_QUIT
    PROVE  drdynvc_order_recv(x) /\ \E h : Taken(x, h)
<1>1. x \in Arriving /\ Len(handled) + 1 \in 1..Len(posted) /\ posted[Len(handled) + 1] = x
  BY TakenWasPosted, Zenon
<1>2. /\ posted \in Seq(Arriving) /\ handled \in Seq(Arriving)
      /\ Len(posted) \in Nat /\ Len(handled) \in Nat /\ Len(Flow) \in Nat
      /\ Len(posted) <= Len(Flow) /\ \A i \in 1..Len(posted) : Flow[i] = posted[i]
  BY FlowType, Zenon
<1>3. PICK h \in Nat : h = Len(handled) BY <1>2, Zenon
<1>4. h + 1 \in 1..Len(posted) /\ posted[h + 1] = x BY <1>1, <1>3, Zenon
<1>5. Flow[h + 1] = x BY <1>2, <1>4, Zenon
<1>6. h + 1 <= Len(posted) /\ h + 1 <= Len(Flow) BY <1>2, <1>4
<1>7. /\ drdynvc_order_recv(x) /\ handled' = Append(handled, x) /\ thread' = thread
      /\ thread = "run" /\ job["drdynvc"] = <<>>
      /\ UNCHANGED <<main, connection, posted, dataIn, server, messages, pending, sent, writes>>
  BY Zenon DEF TakeMessage, peer
<1>8. Len(handled') = h + 1
  <2>1. Len(Append(handled, x)) = h + 1 BY <1>1, <1>2, <1>3
  <2> QED BY <1>7, <2>1, Zenon
<1>9. Flow' = Flow /\ Stream' = Stream BY <1>7, Zenon DEF Flow, Stream
<1> QED BY <1>1, <1>3, <1>5, <1>6, <1>7, <1>8, <1>9, Zenon DEF Taken

\* a request leaves the queue for the program that answers it
LEMMA TakenTurn ==
    ASSUME IInv, NEW x, NEW h, Taken(x, h), NEW p, job'["drdynvc"] = p,
           NEW c, TurnOf(c), One(WorkOn(p, c)), Asks(x, c) \/ WorkOn(p, c) = {}
    PROVE  TurnOf(c)'
<1>1. PICK A, B, C : TurnParts(c, A, B, C) BY Zenon DEF TurnParts
<1>2. PICK f \in Seq(Arriving) : f = Flow BY FlowType, Zenon
<1>3. h \in Nat /\ h + 1 <= Len(f) /\ f[h + 1] = x BY <1>2, Zenon DEF Taken
<1>4. PICK X : X = AskedOf(f, h + 1, c) OBVIOUS
<1>5. PICK Y : Y = WorkOn(p, c) OBVIOUS
<1>6. TurnParts(c, X, Y, C)' BY <1>1, <1>2, <1>4, <1>5, Zenon DEF TurnParts, Taken
<1>7. A = AskedOf(f, h, c) BY <1>1, <1>2, Zenon DEF TurnParts, Taken
<1>8. X \subseteq A /\ (Asks(x, c) => h + 1 \in A) /\ h + 1 \notin X
  BY <1>2, <1>3, <1>4, <1>7, AskedTaken, Zenon
<1>9. server'[c] = server[c] BY Zenon DEF Taken
<1>10. One(A) /\ Fewer(C, C) BY <1>1, TurnOne, Zenon
<1>11. CASE Asks(x, c)
  <2>1. X = {} BY <1>8, <1>10, <1>11, OneTaken, Zenon
  <2>2. A # {} BY <1>8, <1>11
  <2>3. C = {} /\ server[c] \notin {"none", "up", "failed"} BY <1>1, <2>2, TurnOne, Zenon
  <2>4. One({}) BY DEF One
  <2>5. Turn(server'[c], X, Y, C) BY <1>5, <1>9, <2>1, <2>3, <2>4, Zenon DEF Turn
  <2> QED BY <1>6, <2>5, Zenon DEF TurnOf, TurnParts
<1>12. CASE WorkOn(p, c) = {}
  <2>1. Fewer(X, A) BY <1>8, <1>10, FewerPart, Zenon
  <2>2. Fewer(Y, B) BY <1>5, <1>12, Zenon DEF Fewer
  <2> QED BY <1>1, <1>6, <1>9, <1>10, <2>1, <2>2, TurnMoves, Zenon
<1> QED BY <1>11, <1>12

\* when a message is taken, what was collected is known
LEMMA TakenKnows ==
    ASSUME IInv, DeliveryInv, NEW x, NEW h, Taken(x, h), NEW c \in ChannelIds
    PROVE  /\ Alive /\ CollectsOn(c) /\ SentOn(c)
           /\ messages[c] \in Seq(1..2) /\ delivered[c] \in Seq(Seq(Pdus))
           /\ Len(delivered[c]) + 1 \in Nat \ {0}
<1>1. thread = "run" /\ job["drdynvc"] = <<>> BY Zenon DEF Taken
<1>2. DOMAIN <<>> = {} OBVIOUS
<1>3. Alive BY <1>1, <1>2, Zenon DEF Alive
<1>4. delivered \in [ChannelIds -> Seq(Seq(Pdus))] /\ SentOn(c) /\ CollectsOn(c)
  BY <1>3, Zenon DEF DeliveryInv, KindOK, SentOK, CollectOK
<1>5. delivered[c] \in Seq(Seq(Pdus)) BY <1>4
<1>6. Len(delivered[c]) + 1 \in Nat \ {0} BY <1>5, LenProperties
<1>7. messages \in [ChannelIds -> Seq(1..2)] BY Zenon DEF IInv, PeerOK
<1>8. messages[c] \in Seq(1..2) BY <1>7
<1> QED BY <1>3, <1>4, <1>5, <1>6, <1>8, Zenon

\* what is left to show when a message is taken
LEMMA TakenDelivers ==
    ASSUME IInv, DeliveryInv, NEW x, NEW h, Taken(x, h), NEW p, job'["drdynvc"] = p,
           job'["device"] = job["device"], NoExit(p) \/ OnlyExit(p),
           \A c \in ChannelIds : One(WorkOn(p, c)) /\ (Asks(x, c) \/ WorkOn(p, c) = {}),
           delivered' \in [ChannelIds -> Seq(Seq(Pdus))],
           \A c \in ChannelIds : WholeOK(connection, c, messages[c], delivered'[c]),
           Alive' => \A c \in ChannelIds : CollectsOn(c)' /\ ManagedOK(c)'
    PROVE  DeliveryInv'
<1>1. KindOK /\ PlanOK /\ TurnsOK /\ SentOK BY Zenon DEF DeliveryInv
<1>2. /\ main' = main /\ connection' = connection /\ posted' = posted /\ dataIn' = dataIn
      /\ server' = server /\ messages' = messages /\ pending' = pending /\ Flow' = Flow
      /\ Len(handled') <= Len(posted)
  BY Zenon DEF Taken
<1>3. KindOK' BY <1>1, <1>2, Zenon DEF KindOK
<1>4. PlanOK' BY <1>1, PlanMoves, Zenon
<1>5. ASSUME NEW c \in ChannelIds PROVE TurnOf(c)'
  <2>1. TurnOf(c) BY <1>1, Zenon DEF TurnsOK
  <2> QED BY <2>1, TakenTurn, Zenon
<1>6. TurnsOK' BY <1>5, Zenon DEF TurnsOK
<1>7. SentOK' BY <1>1, <1>2, Zenon DEF SentOK, SentOn
<1>8. CollectOK' BY Zenon DEF CollectOK
<1> QED BY <1>3, <1>4, <1>6, <1>7, <1>8, Zenon DEF DeliveryInv

\* the program that answers a request
AnswersTo(p, x) ==
    /\ NoExit(p) /\ \A i \in DOMAIN p : p[i].op \in Managing => Asks(x, p[i].pdu.ch)
    /\ \A c : One(WorkOn(p, c)) /\ (Asks(x, c) \/ WorkOn(p, c) = {})

\* a message that is not data
LEMMA RequestDelivers ==
    ASSUME IInv, DeliveryInv, NEW x, NEW h, Taken(x, h), ~IsData(x),
           NEW p, job' = [job EXCEPT !["drdynvc"] = p], AnswersTo(p, x),
           dvc' = dvc, delivered' = delivered
    PROVE  DeliveryInv'
<1>1. job \in [Threads -> Seq(Steps)] BY Zenon DEF IInv, TypeOK
<1>2. job'["drdynvc"] = p /\ job'["device"] = job["device"] BY <1>1 DEF Threads
<1>3. delivered' \in [ChannelIds -> Seq(Seq(Pdus))] BY Zenon DEF DeliveryInv, KindOK
<1>4. \A c \in ChannelIds : WholeOK(connection, c, messages[c], delivered'[c])
  BY Zenon DEF DeliveryInv, SentOK, SentOn
<1>5. PICK f \in Seq(Arriving) : f = Flow BY FlowType, Zenon
<1>6. h \in Nat /\ h + 1 <= Len(f) /\ f[h + 1] = x /\ h = Len(handled) BY <1>5, Zenon DEF Taken
<1>7. ASSUME NEW c \in ChannelIds PROVE CollectsOn(c)' /\ ManagedOK(c)'
  <2>1. PICK o, ms, q, g, d : /\ o = connection /\ ms = messages[c] /\ q = pending[c] /\ g = Got(c)
                              /\ d = Len(delivered[c]) + 1
    OBVIOUS
  <2>2. /\ FlowOK(o, c, f, ms, q) /\ GotOK(o, c, f, h, ms, q, g, d)
        /\ ms \in Seq(1..2) /\ d \in Nat \ {0}
    BY <1>5, <1>6, <2>1, TakenKnows, Zenon DEF CollectsOn, SentOn
  <2>3. ~DataOn(f[h + 1], c) BY <1>6, Zenon DEF DataOn
  <2>4. GotOK(o, c, f, h + 1, ms, q, g, d) BY <1>6, <2>2, <2>3, TakenOther, Zenon
  <2>5. Got(c)' = g BY <2>1, Zenon DEF Got
  <2>6. CollectsOn(c)' BY <1>5, <2>1, <2>4, <2>5, Zenon DEF CollectsOn, Taken
  <2>7. Asks(x, c) => g = <<>> BY <1>6, <2>2, TakenAsk, Zenon
  <2>8. ManagedOK(c)' BY <1>2, <2>5, <2>7, Zenon DEF ManagedOK, AnswersTo
  <2> QED BY <2>6, <2>8
<1>8. NoExit(p) /\ \A c \in ChannelIds : One(WorkOn(p, c)) /\ (Asks(x, c) \/ WorkOn(p, c) = {})
  BY Zenon DEF AnswersTo
<1> QED BY <1>2, <1>3, <1>4, <1>7, <1>8, TakenDelivers, Zenon

\* a program of one or two steps answers a request
LEMMA TwoAnswer ==
    ASSUME NEW a \in Steps, NEW b \in Steps, NEW p, p = <<a, b>> \/ p = <<a>>, NEW x,
           a.op # "exit", b.op # "exit",
           a.op \in Managing => Asks(x, a.pdu.ch), b.op \in Managing => Asks(x, b.pdu.ch),
           \A c : ~Asks(x, c) => ~Handles(a, c) /\ ~Handles(b, c),
           (\A c : ~Handles(a, c)) \/ (\A c : ~Handles(b, c))
    PROVE  AnswersTo(p, x)
<1>1. \A i \in DOMAIN p : p[i] = a \/ p[i] = b
  <2>1. CASE p = <<a, b>> BY <2>1, TwoSteps
  <2>2. CASE p = <<a>> BY <2>2
  <2> QED BY <2>1, <2>2
<1>2. NoExit(p) BY <1>1, Zenon DEF NoExit
<1>3. \A i \in DOMAIN p : p[i].op \in Managing => Asks(x, p[i].pdu.ch) BY <1>1, Zenon
<1>4. ASSUME NEW c PROVE One(WorkOn(p, c)) BY WorkTwo, Zenon
<1>5. ASSUME NEW c, ~Asks(x, c) PROVE WorkOn(p, c) = {}
  <2>1. \A i \in DOMAIN p : ~Handles(p[i], c) BY <1>1, <1>5, Zenon
  <2> QED BY <2>1, WorkNone, Zenon
<1> QED BY <1>2, <1>3, <1>4, <1>5, Zenon DEF AnswersTo

\* capability and create requests
LEMMA CreateTaken ==
    ASSUME IInv, DeliveryInv, NEW x, NEW h, Taken(x, h),
           process_capability_request(x) \/ process_create_request(x)
    PROVE  DeliveryInv'
<1>1. PICK s : s = Simple("CAPABILITIES", "none") OBVIOUS
<1>2. PICK a : a = Write(s) OBVIOUS
<1>3. PICK b : b = Op("create", x) OBVIOUS
<1>4. connection \in Nat /\ x \in Arriving BY Zenon DEF IInv, TypeOK, Taken
<1>5. x \in Pdus BY <1>4 DEF Arriving
<1>6. s \in Pdus /\ s.type = "CAPABILITIES"
  <2>1. s \in Pdus BY <1>1, <1>4, SimpleType DEF ClientTypes
  <2>2. s.type = "CAPABILITIES" BY <1>1, SimpleFields, Zenon
  <2> QED BY <2>1, <2>2
<1>7. a \in Steps /\ a.op = "write" /\ a.pdu = s BY <1>2, <1>6, OpType DEF Write, Ops
<1>8. b \in Steps /\ b.op = "create" /\ b.pdu = x BY <1>3, <1>5, OpType DEF Ops
<1>9. \A c : ~Handles(a, c)
  <2>1. \A c : ~Answers(s, c) BY <1>6 DEF Answers
  <2>2. a.op # "create" BY <1>7
  <2> QED BY <1>7, <2>1, <2>2, Zenon DEF Handles
<1>10. a.op # "exit" /\ b.op # "exit" /\ a.op \notin Managing BY <1>7, <1>8 DEF Managing
<1>11. CASE process_capability_request(x)
  <2>1. PICK p : p = <<a>> OBVIOUS
  <2>2. /\ job' = [job EXCEPT !["drdynvc"] = p] /\ dvc' = dvc /\ delivered' = delivered
        /\ x.type = "CAPABILITY_REQUEST"
    BY <1>1, <1>2, <1>11, <2>1, Zenon DEF process_capability_request, Goes
  <2>3. AnswersTo(p, x) BY <1>7, <1>9, <1>10, <2>1, TwoAnswer, Zenon
  <2>4. ~IsData(x) BY <2>2 DEF IsData
  <2> QED BY <2>2, <2>3, <2>4, RequestDelivers, Zenon
<1>12. CASE process_create_request(x)
  <2>1. PICK p : p = (IF state = "CAPABILITIES" THEN <<a>> ELSE <<>>) \o <<b>> OBVIOUS
  <2>2. /\ job' = [job EXCEPT !["drdynvc"] = p] /\ dvc' = dvc /\ delivered' = delivered
        /\ x.type \in {"CREATE_REQUEST", "CREATE_UNHEARD"}
    BY <1>1, <1>2, <1>3, <1>12, <2>1, Zenon DEF process_create_request, Goes
  <2>3. ~IsData(x) /\ \A c : x.ch = c => Asks(x, c) BY <2>2 DEF IsData, Asks
  <2>4. /\ b.op \in Managing => Asks(x, b.pdu.ch)
        /\ \A c : ~Asks(x, c) => ~Handles(b, c)
    BY <1>8, <2>3, Zenon DEF Handles
  <2>5. AnswersTo(p, x)
    <3>1. CASE state = "CAPABILITIES"
      <4>1. p = <<a>> \o <<b>> BY <2>1, <3>1, Zenon
      <4>2. p = <<a, b>> BY <1>7, <1>8, <4>1, Pair, Zenon
      <4> QED BY <1>7, <1>8, <1>9, <1>10, <2>4, <4>2, TwoAnswer, Zenon
    <3>2. CASE state # "CAPABILITIES"
      <4>1. p = <<b>> BY <1>8, <2>1, <3>2
      <4> QED BY <1>7, <1>8, <1>9, <1>10, <2>4, <4>1, TwoAnswer, Zenon
    <3> QED BY <3>1, <3>2
  <2> QED BY <2>2, <2>3, <2>5, RequestDelivers, Zenon
<1> QED BY <1>11, <1>12

\* a close request
LEMMA CloseTaken ==
    ASSUME IInv, DeliveryInv, NEW x, NEW h, Taken(x, h), process_close_request(x)
    PROVE  DeliveryInv'
<1>1. PICK c : c = x.ch OBVIOUS
<1>2. PICK s : s = Simple("CLOSED", c) OBVIOUS
<1>3. PICK a : a = Op("close", x) OBVIOUS
<1>4. PICK b : b = Write(s) OBVIOUS
<1>5. PICK p : p = <<a, b>> OBVIOUS
<1>6. /\ job' = [job EXCEPT !["drdynvc"] = p] /\ dvc' = dvc /\ delivered' = delivered
      /\ x.type = "CLOSE_REQUEST"
  BY <1>1, <1>2, <1>3, <1>4, <1>5, Zenon DEF process_close_request, Goes
<1>7. connection \in Nat /\ x \in Arriving BY Zenon DEF IInv, TypeOK, Taken
<1>8. x \in Pdus /\ c \in ChannelIds BY <1>1, <1>6, <1>7 DEF Arriving
<1>9. s \in Pdus /\ s.ch = c BY <1>2, <1>7, <1>8, SimpleType DEF ClientTypes
<1>10. a \in Steps /\ a.op = "close" /\ a.pdu = x BY <1>3, <1>8, OpType DEF Ops
<1>11. b \in Steps /\ b.op = "write" /\ b.pdu = s BY <1>4, <1>9, OpType DEF Write, Ops
<1>12. ~IsData(x) /\ \A d : x.ch = d => Asks(x, d) BY <1>6 DEF IsData, Asks
<1>13. a.op # "exit" /\ b.op # "exit" /\ b.op \notin Managing /\ a.op # "create" /\ a.op \notin Writing
  BY <1>10, <1>11 DEF Managing, Writing
<1>14. \A d : ~Handles(a, d) BY <1>13, Zenon DEF Handles
<1>15. \A d : ~Asks(x, d) => ~Handles(b, d) BY <1>1, <1>9, <1>11, <1>12, Zenon DEF Handles
<1>16. a.op \in Managing => Asks(x, a.pdu.ch) BY <1>10, <1>12, Zenon
<1>17. AnswersTo(p, x) BY <1>5, <1>10, <1>11, <1>13, <1>14, <1>15, <1>16, TwoAnswer, Zenon
<1> QED BY <1>6, <1>12, <1>17, RequestDelivers, Zenon

\* data for a channel that is not there ends the thread
LEMMA LostTaken ==
    ASSUME IInv, DeliveryInv, NEW x, NEW h, Taken(x, h), dvc' = dvc, delivered' = delivered,
           NEW p, p = Failing("drdynvc"), job' = [job EXCEPT !["drdynvc"] = p]
    PROVE  DeliveryInv'
<1>1. job \in [Threads -> Seq(Steps)] BY Zenon DEF IInv, TypeOK
<1>2. job'["drdynvc"] = p /\ job'["device"] = job["device"] BY <1>1 DEF Threads
<1>3. OnlyExit(p) /\ ~NoExit(p) BY FailingIs, Zenon
<1>4. ~Alive' BY <1>2, <1>3, Zenon DEF Alive, NoExit
<1>5. ASSUME NEW c \in ChannelIds PROVE One(WorkOn(p, c)) /\ WorkOn(p, c) = {}
  <2>1. WorkOn(p, c) = {} BY <1>3, ExitWork, Zenon
  <2>2. One({}) BY DEF One
  <2> QED BY <2>1, <2>2, Zenon
<1>6. delivered' \in [ChannelIds -> Seq(Seq(Pdus))] BY Zenon DEF DeliveryInv, KindOK
<1>7. \A c \in ChannelIds : WholeOK(connection, c, messages[c], delivered'[c])
  BY Zenon DEF DeliveryInv, SentOK, SentOn
<1> QED BY <1>2, <1>3, <1>4, <1>5, <1>6, <1>7, TakenDelivers, Zenon

\* data is no request, whatever program it starts
LEMMA DataProgram ==
    ASSUME NEW p, OnlyData(p), NEW c
    PROVE  /\ NoExit(p) /\ One(WorkOn(p, c)) /\ WorkOn(p, c) = {}
           /\ \A i \in DOMAIN p : p[i].op \notin Managing
<1>1. "enter" \notin Writing /\ "leave" \notin Writing /\ "write" \notin Managing
      /\ "enter" \notin Managing /\ "leave" \notin Managing /\ "exit" \notin {"enter", "leave", "write"}
      /\ "create" \notin {"enter", "leave", "write"}
  BY DEF Writing, Managing
<1>2. NoExit(p) BY <1>1, Zenon DEF NoExit, OnlyData
<1>3. \A i \in DOMAIN p : p[i].op \notin Managing BY <1>1, Zenon DEF OnlyData
<1>4. \A q : IsData(q) => ~Answers(q, c) BY DEF IsData, Answers
<1>5. \A i \in DOMAIN p : ~Handles(p[i], c) BY <1>1, <1>4, Zenon DEF OnlyData, Handles
<1>6. WorkOn(p, c) = {} BY <1>5, WorkNone, Zenon
<1>7. One({}) BY DEF One
<1> QED BY <1>2, <1>3, <1>6, <1>7, Zenon

\* a first piece e is kept, or a message e of n pieces is delivered and echoed
KeepsPiece(c, e) ==
    /\ dvc' = [dvc EXCEPT ![c] = [opened |-> dvc[c].opened, data |-> e]]
    /\ job' = job /\ delivered' = delivered
HandsOver(c, e, m, n) ==
    /\ dvc' = [dvc EXCEPT ![c] = [opened |-> dvc[c].opened, data |-> <<>>]]
    /\ delivered' = [delivered EXCEPT ![c] = Append(delivered[c], e)]
    /\ job' = [job EXCEPT !["drdynvc"] = dvcman_write_channel(c, m, n)]
Collecting(x, g, e) == (x.type = "DATA_FIRST" \/ g # <<>>) /\ Len(e) < e[1].parts

\* what process_data does with a piece, by what has been collected before
LEMMA PieceGoes ==
    ASSUME NEW x, process_data(x), NEW c, c = x.ch, dvc[c] # NoChannel, NEW g, g = dvc[c].data,
           NEW e, e = IF x.type = "DATA_FIRST" THEN <<x>> ELSE Append(g, x)
    PROVE  /\ Collecting(x, g, e) => KeepsPiece(c, e)
           /\ ~Collecting(x, g, e) => HandsOver(c, e, x.msg, Len(e))
BY Zenon DEF process_data, Goes, Collecting, KeepsPiece, HandsOver

\* two pieces
LEMMA AppendPair ==
    ASSUME NEW S, NEW y \in S, NEW x \in S
    PROVE  Append(<<y>>, x) = <<y, x>>
<1>1. <<y>> \in Seq(S) /\ <<y, x>> \in Seq(S) OBVIOUS
<1>2. Append(<<y>>, x) \in Seq(S) /\ Len(Append(<<y>>, x)) = 2 /\ Append(<<y>>, x)[1] = y
      /\ Append(<<y>>, x)[2] = x
  BY <1>1
<1>3. \A i \in 1..2 : Append(<<y>>, x)[i] = <<y, x>>[i] BY <1>2
<1> QED BY <1>1, <1>2, <1>3, SeqEqual

\* the l-th message of a channel, of n pieces
Whole(o, c, l, n) == [i \in 1..n |-> PieceOn(o, c, l, i, n)]

\* what process_data does with the l-th message of a channel, of which the
\* pieces are as ms says: a first piece is kept, the last one is delivered with
\* what has been kept
LEMMA PieceWhole ==
    ASSUME NEW x \in Pdus, process_data(x), NEW c, c = x.ch, dvc[c] # NoChannel, NEW g, g = dvc[c].data,
           NEW o, NEW l, NEW n \in 1..2, x = PieceOn(o, c, l, x.part, n),
           \/ g = <<>> /\ x.part = 1
           \/ g = <<PieceOn(o, c, l, 1, 2)>> /\ x.part = 2 /\ n = 2
    PROVE  \/ /\ g = <<>> /\ x.part = 1 /\ n = 2
              /\ KeepsPiece(c, <<x>>)
           \/ \E e : /\ x.part = n /\ e = Whole(o, c, l, n)
                     /\ HandsOver(c, e, x.msg, n)
<1>1. PICK e : e = IF x.type = "DATA_FIRST" THEN <<x>> ELSE Append(g, x) OBVIOUS
<1>2. /\ x.type = (IF x.part = 1 /\ n > 1 THEN "DATA_FIRST" ELSE "DATA") /\ x.parts = n
  BY PieceOnFields
<1>3. CASE g = <<>> /\ x.part = 1 /\ n = 2
  <2>1. x.type = "DATA_FIRST" BY <1>2, <1>3
  <2>2. e = <<x>> BY <1>1, <2>1, Zenon
  <2>3. Len(<<x>>) = 1 /\ <<x>>[1] = x OBVIOUS
  <2>4. 1 < 2 OBVIOUS
  <2>5. Len(e) < e[1].parts BY <1>2, <1>3, <2>2, <2>3, <2>4, Zenon
  <2> QED BY <1>1, <1>3, <2>1, <2>2, <2>5, PieceGoes, Zenon DEF Collecting
<1>4. CASE g = <<>> /\ x.part = 1 /\ n = 1
  <2>1. x.type # "DATA_FIRST" BY <1>2, <1>4
  <2>2. e = Append(<<>>, x) BY <1>1, <1>4, <2>1, Zenon
  <2>3. Append(<<>>, x) = <<x>> /\ Len(<<x>>) = 1 OBVIOUS
  <2>4. x = PieceOn(o, c, l, 1, 1) BY <1>4, Zenon
  <2>5. <<x>> = [i \in 1..1 |-> PieceOn(o, c, l, i, 1)] BY <2>4, OnePiece
  <2>6. Len(e) = n /\ e = Whole(o, c, l, n) BY <1>4, <2>2, <2>3, <2>5, Zenon DEF Whole
  <2>7. ~Collecting(x, g, e) BY <1>4, <2>1, Zenon DEF Collecting
  <2>8. HandsOver(c, e, x.msg, Len(e)) BY <1>1, <2>7, PieceGoes, Zenon
  <2> QED BY <1>4, <2>6, <2>8, Zenon
<1>5. CASE g = <<PieceOn(o, c, l, 1, 2)>> /\ x.part = 2 /\ n = 2
  <2>1. x.type # "DATA_FIRST" BY <1>2, <1>5
  <2>2. PICK y : y = PieceOn(o, c, l, 1, 2) OBVIOUS
  <2>3. e = Append(<<y>>, x) BY <1>1, <1>5, <2>1, <2>2, Zenon
  <2>4. Append(<<y>>, x) = <<y, x>> /\ Len(<<y, x>>) = 2 /\ <<y, x>>[1] = y
    <3>1. x \in {x, y} /\ y \in {x, y} OBVIOUS
    <3>2. Append(<<y>>, x) = <<y, x>> BY <3>1, AppendPair, Zenon
    <3> QED BY <3>2
  <2>5. y.parts = 2 BY <2>2, PieceOnFields
  <2>6. x = PieceOn(o, c, l, 2, 2) BY <1>5, Zenon
  <2>7. <<y, x>> = [i \in 1..2 |-> PieceOn(o, c, l, i, 2)] BY <2>2, <2>6, TwoPieces
  <2>8. Len(e) = n /\ e = Whole(o, c, l, n) BY <1>5, <2>3, <2>4, <2>7, Zenon DEF Whole
  <2>9. ~(Len(e) < e[1].parts)
    <3>1. ~(2 < 2) OBVIOUS
    <3> QED BY <2>3, <2>4, <2>5, <3>1, Zenon
  <2>10. HandsOver(c, e, x.msg, Len(e)) BY <1>1, <2>9, PieceGoes, Zenon DEF Collecting
  <2> QED BY <1>5, <2>8, <2>10, Zenon
<1> QED BY <1>3, <1>4, <1>5

\* the other channels, when data is taken on one
LEMMA OtherTaken ==
    ASSUME IInv, DeliveryInv, NEW x, NEW h, Taken(x, h), NEW c \in ChannelIds, x.ch # c,
           dvc'[c] = dvc[c], delivered'[c] = delivered[c],
           NEW p, job'["drdynvc"] = p, \A i \in DOMAIN p : p[i].op \notin Managing
    PROVE  CollectsOn(c)' /\ ManagedOK(c)' /\ WholeOK(connection, c, messages[c], delivered'[c])
<1>1. PICK f \in Seq(Arriving) : f = Flow BY FlowType, Zenon
<1>2. h \in Nat /\ h + 1 <= Len(f) /\ f[h + 1] = x /\ h = Len(handled) BY <1>1, Zenon DEF Taken
<1>3. PICK o, ms, q, g, d : /\ o = connection /\ ms = messages[c] /\ q = pending[c] /\ g = Got(c)
                            /\ d = Len(delivered[c]) + 1
  OBVIOUS
<1>4. GotOK(o, c, f, h, ms, q, g, d) /\ WholeOK(o, c, ms, delivered[c])
  BY <1>1, <1>2, <1>3, TakenKnows, Zenon DEF CollectsOn, SentOn
<1>5. ~DataOn(f[h + 1], c) BY <1>2, Zenon DEF DataOn
<1>6. GotOK(o, c, f, h + 1, ms, q, g, d) BY <1>2, <1>4, <1>5, TakenOther, Zenon
<1>7. Got(c)' = g BY <1>3, Zenon DEF Got
<1>8. CollectsOn(c)' BY <1>1, <1>3, <1>6, <1>7, Zenon DEF CollectsOn, Taken
<1>9. ManagedOK(c)' BY Zenon DEF ManagedOK
<1> QED BY <1>3, <1>4, <1>8, <1>9, Zenon

\* the channel the data is for
LEMMA PieceTaken ==
    ASSUME IInv, DeliveryInv, NEW x, NEW h, Taken(x, h), NEW c \in ChannelIds, DataOn(x, c),
           process_data(x), dvc[c] # NoChannel
    PROVE  \/ /\ KeepsPiece(c, <<x>>) /\ CollectsOn(c)'
           \/ \E e \in Seq(Pdus), n \in 1..2 :
                 /\ HandsOver(c, e, x.msg, n)
                 /\ WholeOK(connection, c, messages[c], Append(delivered[c], e)) /\ CollectsOn(c)'
<1>1. PICK f \in Seq(Arriving) : f = Flow BY FlowType, Zenon
<1>2. h \in Nat /\ h + 1 <= Len(f) /\ f[h + 1] = x /\ h = Len(handled) /\ x \in Arriving
  BY <1>1, Zenon DEF Taken
<1>3. PICK o, ms, q, g, d, dl : /\ o = connection /\ ms = messages[c] /\ q = pending[c] /\ g = Got(c)
                                /\ dl = delivered[c] /\ d = Len(dl) + 1
  OBVIOUS
<1>4. /\ FlowOK(o, c, f, ms, q) /\ GotOK(o, c, f, h, ms, q, g, d) /\ WholeOK(o, c, ms, dl)
      /\ ms \in Seq(1..2) /\ d \in Nat \ {0} /\ dl \in Seq(Seq(Pdus))
  BY <1>1, <1>2, <1>3, TakenKnows, Zenon DEF CollectsOn, SentOn
<1>5. /\ d \in 1..Len(ms) /\ x.msg = d /\ ms[d] \in 1..2
      /\ \/ g = <<>> /\ x.part = 1
         \/ g = <<PieceOn(o, c, d, 1, 2)>> /\ x.part = 2 /\ ms[d] = 2
      /\ x = PieceOn(o, c, d, x.part, ms[d])
  BY <1>2, <1>4, NextPiece
<1>6. g = dvc[c].data /\ c = x.ch /\ x \in Pdus
  <2>1. g = dvc[c].data /\ c = x.ch BY <1>3, Zenon DEF Got, DataOn
  <2>2. x \in Pdus BY <1>2 DEF Arriving
  <2> QED BY <2>1, <2>2
<1>7. PICK n \in 1..2 : n = ms[d] BY <1>5
<1>8. dvc \in [ChannelIds -> DvcChannels \cup {NoChannel}] /\ delivered \in [ChannelIds -> Seq(Seq(Pdus))]
  BY Zenon DEF IInv, TypeOK, DeliveryInv, KindOK
<1>9. [opened |-> dvc[c].opened, data |-> <<x>>] \in DvcChannels
      /\ [opened |-> dvc[c].opened, data |-> <<>>] \in DvcChannels
  <2>1. dvc[c] \in DvcChannels BY <1>8
  <2> QED BY <1>6, <2>1 DEF DvcChannels
<1>10. NoChannel \notin DvcChannels BY ChannelsAssumption DEF ChannelsAssumption
<1>11. CASE /\ g = <<>> /\ x.part = 1 /\ n = 2
            /\ KeepsPiece(c, <<x>>)
  <2>1. GotOK(o, c, f, h + 1, ms, q, <<x>>, d) BY <1>2, <1>4, <1>7, <1>11, TakenFirst, Zenon
  <2>2. dvc'[c] # NoChannel /\ dvc'[c].data = <<x>> BY <1>8, <1>9, <1>10, <1>11 DEF KeepsPiece
  <2>3. Got(c)' = <<x>> BY <2>2, Zenon DEF Got
  <2>4. CollectsOn(c)' BY <1>1, <1>3, <1>11, <2>1, <2>3, Zenon DEF CollectsOn, Taken, KeepsPiece
  <2> QED BY <1>11, <2>4
<1>12. ASSUME NEW e, x.part = n, e = Whole(o, c, d, n),
              HandsOver(c, e, x.msg, n)
       PROVE  e \in Seq(Pdus) /\ WholeOK(o, c, ms, Append(dl, e)) /\ CollectsOn(c)'
  <2>1. e \in Seq(Pdus)
    <3>1. \A i \in 1..n : PieceOn(o, c, d, i, n) \in Pdus
      <4>1. o \in Nat BY <1>3, Zenon DEF IInv, TypeOK
      <4>2. \A i \in 1..n : i \in 1..2 OBVIOUS
      <4> QED BY <1>4, <4>1, <4>2 DEF PieceOn, Pdus, ServerTypes
    <3>2. n \in Nat OBVIOUS
    <3> QED BY <1>12, <3>1, <3>2 DEF Whole
  <2>2. WholeOK(o, c, ms, Append(dl, e)) BY <1>3, <1>4, <1>5, <1>7, <1>12, <2>1, WholeAdds, Zenon DEF Whole
  <2>3. GotOK(o, c, f, h + 1, ms, q, <<>>, d + 1) BY <1>2, <1>4, <1>7, <1>12, TakenLast, Zenon
  <2>4. dvc'[c] # NoChannel /\ dvc'[c].data = <<>> BY <1>8, <1>9, <1>10, <1>12 DEF HandsOver
  <2>5. Got(c)' = <<>> BY <2>4, Zenon DEF Got
  <2>6. delivered'[c] = Append(dl, e) BY <1>3, <1>8, <1>12 DEF HandsOver
  <2>7. Len(delivered'[c]) + 1 = d + 1
    <3>1. Len(Append(dl, e)) = Len(dl) + 1 BY <1>4, <2>1
    <3> QED BY <1>3, <2>6, <3>1, Zenon
  <2>8. CollectsOn(c)' BY <1>1, <1>3, <2>3, <2>5, <2>7, Zenon DEF CollectsOn, Taken
  <2> QED BY <2>1, <2>2, <2>8
<1>13. \/ /\ g = <<>> /\ x.part = 1 /\ n = 2
          /\ KeepsPiece(c, <<x>>)
       \/ \E e : /\ x.part = n /\ e = Whole(o, c, d, n)
                 /\ HandsOver(c, e, x.msg, n)
  <2>1. \/ g = <<>> /\ x.part = 1
        \/ g = <<PieceOn(o, c, d, 1, 2)>> /\ x.part = 2 /\ n = 2
    BY <1>5, <1>7, Zenon
  <2>2. x = PieceOn(o, c, d, x.part, n) BY <1>5, <1>7, Zenon
  <2> QED BY <1>6, <1>7, <2>1, <2>2, PieceWhole
<1>14. CASE \E e : /\ x.part = n /\ e = Whole(o, c, d, n)
                   /\ HandsOver(c, e, x.msg, n)
  BY <1>3, <1>12, <1>14, Zenon
<1> QED BY <1>11, <1>13, <1>14, Zenon

\* data is taken
LEMMA DataTaken ==
    ASSUME IInv, DeliveryInv, NEW x, NEW h, Taken(x, h), process_data(x)
    PROVE  DeliveryInv'
<1>1. PICK c : c = x.ch OBVIOUS
<1>2. IsData(x) BY Zenon DEF process_data, IsData
<1>3. x \in Arriving /\ connection \in Nat BY Zenon DEF Taken, IInv, TypeOK
<1>4. c \in ChannelIds /\ DataOn(x, c) /\ x.msg \in Nat
  <2>1. x.type # "CAPABILITY_REQUEST" BY <1>2 DEF IsData
  <2>2. c \in ChannelIds /\ x.msg \in Nat BY <1>1, <1>3, <2>1 DEF Arriving, Pdus
  <2> QED BY <1>1, <1>2, <2>2, Zenon DEF DataOn
<1>5. job \in [Threads -> Seq(Steps)] BY Zenon DEF IInv, TypeOK
<1>6. dvc \in [ChannelIds -> DvcChannels \cup {NoChannel}] /\ delivered \in [ChannelIds -> Seq(Seq(Pdus))]
  BY Zenon DEF IInv, TypeOK, DeliveryInv, KindOK
<1>7. CASE dvc[c] = NoChannel
  <2>1. dvc' = dvc /\ delivered' = delivered /\ job' = [job EXCEPT !["drdynvc"] = Failing("drdynvc")]
    BY <1>1, <1>7, Zenon DEF process_data, Goes
  <2> QED BY <2>1, LostTaken, Zenon
<1>8. ASSUME NEW p, OnlyData(p), job'["drdynvc"] = p, job'["device"] = job["device"],
             \A d \in ChannelIds : d # c => dvc'[d] = dvc[d] /\ delivered'[d] = delivered[d],
             CollectsOn(c)', WholeOK(connection, c, messages[c], delivered'[c]),
             delivered' \in [ChannelIds -> Seq(Seq(Pdus))]
      PROVE  DeliveryInv'
  <2>1. NoExit(p) /\ \A i \in DOMAIN p : p[i].op \notin Managing BY <1>8, DataProgram, Zenon
  <2>2. \A d \in ChannelIds : One(WorkOn(p, d)) /\ WorkOn(p, d) = {} BY <1>8, DataProgram, Zenon
  <2>3. ASSUME NEW d \in ChannelIds
        PROVE  CollectsOn(d)' /\ ManagedOK(d)' /\ WholeOK(connection, d, messages[d], delivered'[d])
    <3>1. CASE d = c
      <4>1. ManagedOK(d)' BY <1>8, <2>1, Zenon DEF ManagedOK
      <4> QED BY <1>8, <3>1, <4>1, Zenon
    <3>2. CASE d # c BY <1>1, <1>8, <2>1, <3>2, OtherTaken, Zenon
    <3> QED BY <3>1, <3>2
  <2> QED BY <1>8, <2>1, <2>2, <2>3, TakenDelivers, Zenon
<1>9. CASE dvc[c] # NoChannel
  <2>1. \/ KeepsPiece(c, <<x>>) /\ CollectsOn(c)'
        \/ \E e \in Seq(Pdus), n \in 1..2 :
              /\ HandsOver(c, e, x.msg, n)
              /\ WholeOK(connection, c, messages[c], Append(delivered[c], e)) /\ CollectsOn(c)'
    BY <1>4, <1>9, PieceTaken
  <2>2. CASE KeepsPiece(c, <<x>>) /\ CollectsOn(c)'
    <3>1. job' = job /\ delivered' = delivered BY <2>2, Zenon DEF KeepsPiece
    <3>2. \A d \in ChannelIds : d # c => dvc'[d] = dvc[d] BY <1>6, <2>2 DEF KeepsPiece
    <3>3. PICK p : p = job["drdynvc"] OBVIOUS
    <3>4. p = <<>> BY <3>3, Zenon DEF Taken
    <3>5. DOMAIN <<>> = {} OBVIOUS
    <3>6. OnlyData(p) BY <3>4, <3>5, Zenon DEF OnlyData
    <3>7. WholeOK(connection, c, messages[c], delivered'[c])
      BY <1>4, <3>1, Zenon DEF DeliveryInv, SentOK, SentOn
    <3> QED BY <1>6, <1>8, <2>2, <3>1, <3>2, <3>3, <3>6, <3>7, Zenon
  <2>3. CASE \E e \in Seq(Pdus), n \in 1..2 :
                /\ HandsOver(c, e, x.msg, n)
                /\ WholeOK(connection, c, messages[c], Append(delivered[c], e)) /\ CollectsOn(c)'
    <3>1. PICK e \in Seq(Pdus), n \in 1..2 :
             /\ HandsOver(c, e, x.msg, n)
             /\ WholeOK(connection, c, messages[c], Append(delivered[c], e)) /\ CollectsOn(c)'
      BY <2>3
    <3>2. PICK p : p = dvcman_write_channel(c, x.msg, n) OBVIOUS
    <3>3. OnlyData(p) BY <1>3, <1>4, <3>2, WritesData, Zenon
    <3>4. job' = [job EXCEPT !["drdynvc"] = p] BY <3>1, <3>2, Zenon DEF HandsOver
    <3>5. job'["drdynvc"] = p /\ job'["device"] = job["device"] BY <1>5, <3>4 DEF Threads
    <3>6. PICK a : a = Append(delivered[c], e) OBVIOUS
    <3>7. delivered' = [delivered EXCEPT ![c] = a] BY <3>1, <3>6, Zenon DEF HandsOver
    <3>8. a \in Seq(Seq(Pdus))
      <4>1. delivered[c] \in Seq(Seq(Pdus)) BY <1>4, <1>6
      <4> QED BY <3>6, <4>1
    <3>9. /\ delivered' \in [ChannelIds -> Seq(Seq(Pdus))] /\ delivered'[c] = a
          /\ \A d \in ChannelIds : d # c => delivered'[d] = delivered[d]
      BY <1>4, <1>6, <3>7, <3>8
    <3>10. \A d \in ChannelIds : d # c => dvc'[d] = dvc[d] BY <1>6, <3>1 DEF HandsOver
    <3>11. WholeOK(connection, c, messages[c], delivered'[c]) BY <3>1, <3>6, <3>9, Zenon
    <3> QED BY <1>8, <3>1, <3>3, <3>5, <3>9, <3>10, <3>11, Zenon
  <2> QED BY <2>1, <2>2, <2>3, Zenon
<1> QED BY <1>7, <1>9

\* drdynvc's thread takes a message
LEMMA TakeDelivers ==
    ASSUME IInv, StreamOK, DeliveryInv, TakeMessage
    PROVE  DeliveryInv'
<1>1. PICK x : x = Oldest(queue) OBVIOUS
<1>2. CASE x = WMQ_QUIT
  <2>1. /\ UNCHANGED <<connection, handled, delivered, server, messages, pending, job, sent>>
        /\ main' = main /\ dataIn' = dataIn /\ posted' = posted /\ writes' = writes
        /\ thread' = "exited"
    BY <1>1, <1>2, Zenon DEF TakeMessage, peer
  <2>2. Flow' = Flow /\ Stream' = Stream BY <2>1, Zenon DEF Flow, Stream
  <2>3. thread' # "run" BY <2>1
  <2>4. KindOK BY Zenon DEF DeliveryInv
  <2>5. main' \in {"free", "idle", "closed", "late write"} => dataIn' = NoStream
    BY <2>1, <2>4, Zenon DEF KindOK
  <2>6. Len(handled) <= Len(posted') BY <2>1, <2>4, Zenon DEF KindOK
  <2> QED BY <2>1, <2>2, <2>3, <2>5, <2>6, StandDelivers, Zenon
<1>3. CASE x # WMQ_QUIT
  <2>1. PICK h : drdynvc_order_recv(x) /\ Taken(x, h) BY <1>1, <1>3, TakesNext, Zenon
  <2> QED BY <2>1, CreateTaken, CloseTaken, DataTaken, Zenon DEF drdynvc_order_recv
<1> QED BY <1>2, <1>3

\* before the first connection nothing has been sent
LEMMA DeliveryInit == Init => DeliveryInv
<1> SUFFICES ASSUME Init PROVE DeliveryInv OBVIOUS
<1>1. /\ sent = <<>> /\ job = [t \in Threads |-> <<>>]
      /\ posted = <<>> /\ handled = <<>> /\ dataIn = NoStream
      /\ delivered = [c \in ChannelIds |-> <<>>] /\ server = [c \in ChannelIds |-> "none"]
      /\ messages = [c \in ChannelIds |-> <<>>] /\ pending = [c \in ChannelIds |-> 0]
      /\ dvc = [c \in ChannelIds |-> NoChannel]
  BY DEF Init
<1>2. \A i \in 1..Len(Stream) : ~Own(Stream[i]) BY NothingWritten, Zenon
<1>3. job["drdynvc"] = <<>> /\ job["device"] = <<>> BY <1>1 DEF Threads
<1>4. Fresh BY <1>1, <1>2, <1>3, Zenon DEF Fresh
<1> QED BY <1>4, FreshInv, Zenon

\* every step keeps DeliveryInv
LEMMA DeliveryNext == IInv /\ WritesInv /\ DeliveryInv /\ [Next]_vars => DeliveryInv'
<1> SUFFICES ASSUME IInv, WritesInv, DeliveryInv, [Next]_vars PROVE DeliveryInv' OBVIOUS
<1>1. StreamOK BY Zenon DEF WritesInv
<1>2. CASE SessionThread
  <2>1. CASE freerdp_channels_post_connect BY <1>1, <2>1, ConnectDelivers, Zenon
  <2>2. CASE \E last \in BOOLEAN : ReceiveFirst(last) BY <2>2, FirstDelivers, Zenon
  <2>3. CASE ReceiveRest BY <1>1, <2>3, RestDelivers, Zenon
  <2>4. CASE freerdp_channels_process_sync BY <1>1, <2>4, SyncDelivers, Zenon
  <2>5. CASE event_disconnected BY <1>1, <2>5, DisconnectedDelivers, Zenon
  <2>6. CASE freerdp_channels_disconnect \/ PostQuit \/ dvcman_free \/ freerdp_channels_close
    BY <1>1, <2>6, EndDelivers, Zenon
  <2> QED BY <1>2, <2>1, <2>2, <2>3, <2>4, <2>5, <2>6, Zenon DEF SessionThread
<1>3. CASE vars' = vars BY <1>1, <1>3, EndDelivers, Zenon
<1>4. CASE TakeMessage BY <1>1, <1>4, TakeDelivers, Zenon
<1>5. CASE \E c \in ChannelIds, n \in 1..2 : DeviceWrite(c, n) BY <1>5, DeviceDelivers, Zenon
<1>6. CASE \E t \in Threads : Step(t)
  <2>1. Step("drdynvc") \/ Step("device") BY <1>6 DEF Threads
  <2> QED BY <1>1, <2>1, DrdynvcDelivers, DeviceStepDelivers, Zenon
<1> QED BY <1>2, <1>3, <1>4, <1>5, <1>6, Zenon DEF Next

\* what has been delivered is what the server sent
LEMMA DeliveredWhole == IInv /\ DeliveryInv => DeliversWhole
<1> SUFFICES ASSUME IInv, DeliveryInv, NEW c \in ChannelIds
             PROVE  /\ Len(delivered[c]) <= Len(Sent(c))
                    /\ \A m \in 1..Len(delivered[c]) : delivered[c][m] = Sent(c)[m]
  BY Zenon DEF DeliversWhole
<1>1. PICK ms, d : ms = messages[c] /\ d = delivered[c] OBVIOUS
<1>2. messages \in [ChannelIds -> Seq(1..2)] /\ delivered \in [ChannelIds -> Seq(Seq(Pdus))]
  BY Zenon DEF IInv, PeerOK, DeliveryInv, KindOK
<1>3. ms \in Seq(1..2) /\ d \in Seq(Seq(Pdus)) BY <1>1, <1>2
<1>4. PICK k \in Nat : k = Len(ms) BY <1>3, LenProperties
<1>5. PICK l \in Nat : l = Len(d) BY <1>3, LenProperties
<1>6. WholeOK(connection, c, ms, d) BY <1>1, Zenon DEF DeliveryInv, SentOK, SentOn
<1>7. l <= k /\ \A m \in 1..l : d[m] = [i \in 1..ms[m] |-> PieceOn(connection, c, m, i, ms[m])]
  BY <1>4, <1>5, <1>6, Zenon DEF WholeOK
<1>8. PICK s : s = [m \in 1..k |-> [i \in 1..ms[m] |-> Piece(c, m, i, ms[m])]] OBVIOUS
<1>9. Sent(c) = s BY <1>1, <1>4, <1>8, Zenon DEF Sent
<1>10. Len(s) = k BY <1>8
<1>11. ASSUME NEW m \in 1..l PROVE d[m] = s[m]
  <2>1. m \in 1..k BY <1>7
  <2>2. s[m] = [i \in 1..ms[m] |-> Piece(c, m, i, ms[m])] BY <1>8, <2>1, Zenon
  <2>3. \A i \in 1..ms[m] : Piece(c, m, i, ms[m]) = PieceOn(connection, c, m, i, ms[m])
    BY PieceNow, Zenon
  <2>4. d[m] = [i \in 1..ms[m] |-> PieceOn(connection, c, m, i, ms[m])] BY <1>7, Zenon
  <2> QED BY <2>2, <2>3, <2>4
<1> QED BY <1>1, <1>5, <1>7, <1>9, <1>10, <1>11

\* OnDataReceived of a channel is given the messages the server sent on it,
\* whole and in order, however the chunks and pieces of several channels, the
\* creation and closing of channels, the threads that write and a
\* disconnection are interleaved.
THEOREM MessagesDelivered == Spec => []DeliversWhole
BY InitOK, WritesInit, WritesNext, DeliveryInit, DeliveryNext, DeliveredWhole, PTL DEF Spec

=============================================================================
