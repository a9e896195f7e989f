-------------------------- MODULE DynamicChannels --------------------------
(* The virtual channels of a session: the static channel layer of            *)
(* libfreerdp/core/client.c, the dynamic channel plugin of                   *)
(* channels/drdynvc/client/drdynvc_main.c with its thread, and the device     *)
(* thread of a dynamic channel's plugin (external), which writes on its own.  *)
(*                                                                           *)
(* The session thread receives the chunks of drdynvc's static channel, posts  *)
(* whole PDUs to drdynvc->queue, drains channels->queue (what the channels    *)
(* write) and connects, disconnects and closes the channels. The drdynvc      *)
(* thread takes the PDUs and handles them. A handler is a program, a sequence *)
(* of steps that begin and end where another thread can see the difference:   *)
(* a write first reads channels->connected, then posts.                       *)
EXTENDS MessageQueue

CONSTANTS ChannelIds,      \* dynamic channel ids the server uses
          NoStream, NoChannel,  \* NULL, for a stream and a dynamic channel
          QueueCapacity,   \* initial capacity of a message queue (32 in the code)
          MaxPdus,         \* bound: PDUs the server sends
          MaxDeviceWrites, \* bound: writes of the device thread
          MaxConnections   \* bound: connections, the first and the reconnections

ServerTypes == {"CAPABILITY_REQUEST", "CREATE_REQUEST", "CREATE_UNHEARD", "DATA_FIRST", "DATA",
                "CLOSE_REQUEST"}
ClientTypes == {"CAPABILITIES", "CREATED", "NOT_CREATED", "CLOSED", "DATA_FIRST", "DATA"}

\* the PDUs of the dynamic channel protocol, in either direction; msg, part and
\* parts say which message a piece of data belongs to, which piece it is and of
\* how many, and on is the connection for which the PDU was made
Pdus == [type : ServerTypes \cup ClientTypes, ch : ChannelIds \cup {"none"},
         msg : Nat, part : 1..2, parts : 1..2, on : Nat]

\* the PDUs a server sends: all but the capability request are about a channel
Arriving == {p \in Pdus : p.type # "CAPABILITY_REQUEST" => p.ch \in ChannelIds}

\* a dynamic channel: OnOpen has been called, and the data collected so far
DvcChannels == [opened : BOOLEAN, data : Seq(Pdus)]

\* drdynvc->data_in: a PDU, how much of it has been received, and its length
Streams == [pdu : Pdus, got : Nat, total : Nat]

ASSUME ChannelsAssumption ==
    /\ QueueCapacity \in Nat \ {0}
    /\ MaxPdus \in Nat /\ MaxDeviceWrites \in Nat /\ MaxConnections \in Nat
    /\ WMQ_QUIT \notin Pdus /\ NoChannel \notin DvcChannels
    /\ NoStream \notin Streams

VARIABLES
    main,       \* the session thread, in freerdp_channels_disconnect and around it
    connected,  \* channels->connected
    open,       \* flags = 2 of drdynvc's static channel
    writes,     \* channels->queue
    queue,      \* drdynvc->queue, NoQueue when there is none
    dataIn,     \* drdynvc->data_in: the PDU whose chunks are being received
    state,      \* drdynvc->state
    thread,     \* drdynvc->thread
    job,        \* what is left of the program each writing thread executes
    dvc,        \* the dvcman's channels
    lock,       \* channel->lock of each channel: the thread inside
    error,      \* setChannelError has been called
    connection, \* history: the connections so far
    posted,     \* history: the PDUs the server has sent whole, this connection
    handled,    \* history: the PDUs drdynvc's thread has taken, this connection
    delivered,  \* history: what each channel's callback has been given
    sent,       \* history: what the server has received, this connection
    server,     \* the peer (external): what it knows of each channel,
    asked,      \*   whether it has sent a capability request,
    messages,   \*   the number of pieces of each message it has sent on a channel
    pending,    \*   and how many pieces of the last one it has yet to send
    budget      \* PDUs and device writes left

vars == <<main, connected, open, writes, queue, dataIn, state, thread, job, dvc, lock,
          error, connection, posted, handled, delivered, sent, server, asked, messages, pending,
          budget>>

peer == <<server, asked, messages, pending>>

Threads == {"drdynvc", "device"}

\* the queue after MessageQueue_Free
NoQueue == [array |-> <<>>, head |-> 0, tail |-> 0, size |-> 0, capacity |-> 0, event |-> FALSE]

Pdu(type, ch, msg, part, parts) ==
    [type |-> type, ch |-> ch, msg |-> msg, part |-> part, parts |-> parts, on |-> connection]

Simple(type, ch) == Pdu(type, ch, 0, 1, 1)

\* the pieces of a message: DATA_FIRST announces the length when there are several
Piece(ch, msg, part, parts) ==
    Pdu(IF part = 1 /\ parts > 1 THEN "DATA_FIRST" ELSE "DATA", ch, msg, part, parts)

-----------------------------------------------------------------------------
Init ==
    /\ main = "idle" /\ connected = FALSE /\ open = FALSE
    /\ writes = MessageQueue_New(QueueCapacity)
    /\ queue = NoQueue /\ dataIn = NoStream /\ state = "INITIAL" /\ thread = "none"
    /\ job = [t \in Threads |-> <<>>]
    /\ dvc = [c \in ChannelIds |-> NoChannel]
    /\ lock = [c \in ChannelIds |-> "none"]
    /\ error = FALSE /\ connection = 0
    /\ posted = <<>> /\ handled = <<>> /\ sent = <<>>
    /\ delivered = [c \in ChannelIds |-> <<>>]
    /\ server = [c \in ChannelIds |-> "none"] /\ asked = FALSE
    /\ messages = [c \in ChannelIds |-> <<>>] /\ pending = [c \in ChannelIds |-> 0]
    /\ budget = [pdus |-> MaxPdus, device |-> MaxDeviceWrites]

\* freerdp_channels_post_connect with drdynvc's CHANNEL_EVENT_CONNECTED: the
\* static channel is opened, then the queue, the dvcman and the thread are made
freerdp_channels_post_connect ==
    /\ main = "idle" /\ connection < MaxConnections
    /\ main' = "loop" /\ connected' = TRUE /\ open' = TRUE
    /\ connection' = connection + 1
    /\ posted' = <<>> /\ handled' = <<>> /\ sent' = <<>>
    /\ delivered' = [c \in ChannelIds |-> <<>>]
    /\ server' = [c \in ChannelIds |-> "none"] /\ asked' = FALSE
    /\ messages' = [c \in ChannelIds |-> <<>>] /\ pending' = [c \in ChannelIds |-> 0]
    /\ IF open  \* CHANNEL_RC_ALREADY_OPEN
       THEN error' = TRUE /\ UNCHANGED <<queue, dvc, state, thread, job>>
       ELSE /\ queue' = MessageQueue_New(QueueCapacity)
            /\ dvc' = [c \in ChannelIds |-> NoChannel]
            /\ state' = "CAPABILITIES" /\ thread' = "run"
            /\ job' = [job EXCEPT !["drdynvc"] = <<>>]
            /\ UNCHANGED error
    /\ UNCHANGED <<writes, dataIn, lock, budget>>

-----------------------------------------------------------------------------
(* The session thread: receiving.                                            *)

\* drdynvc_virtual_channel_event_data_received: the first chunk starts a new
\* stream, the last one posts the PDU. A PDU is one chunk, or two if it is data.
DataReceived(p, first, last) ==
    LET got == (IF first THEN 0 ELSE dataIn.got) + 1
        total == IF first THEN (IF last THEN 1 ELSE 2) ELSE dataIn.total
    IN  IF ~last
        THEN dataIn' = [pdu |-> p, got |-> got, total |-> total] /\ UNCHANGED <<queue, posted, error>>
        ELSE IF got # total
        THEN error' = TRUE /\ UNCHANGED <<dataIn, queue, posted>>
        ELSE /\ dataIn' = NoStream
             /\ queue' = MessageQueue_Dispatch(queue, p)
             /\ posted' = Append(posted, p)
             /\ UNCHANGED error

\* what the server may send next: a capability request first or not at all, a
\* create request for an unused id, with a name some plugin listens to or none,
\* data in pieces on a channel it knows is up, and a close request, also for a
\* channel whose creation failed
ServerSends(p) ==
    \/ /\ p = Simple("CAPABILITY_REQUEST", "none")
       /\ ~asked /\ \A c \in ChannelIds : server[c] = "none"
       /\ asked' = TRUE /\ UNCHANGED <<server, messages, pending>>
    \/ \E c \in ChannelIds :
       \/ /\ p \in {Simple("CREATE_REQUEST", c), Simple("CREATE_UNHEARD", c)}
          /\ server[c] = "none"
          /\ server' = [server EXCEPT ![c] = "asked"] /\ UNCHANGED <<asked, messages, pending>>
       \/ \E n \in 1..2 :
             /\ p = Piece(c, Len(messages[c]) + 1, 1, n)
             /\ server[c] = "up" /\ pending[c] = 0
             /\ messages' = [messages EXCEPT ![c] = Append(@, n)]
             /\ pending' = [pending EXCEPT ![c] = n - 1]
             /\ UNCHANGED <<server, asked>>
       \/ /\ p = Piece(c, Len(messages[c]), 2, 2)
          /\ server[c] = "up" /\ pending[c] = 1
          /\ pending' = [pending EXCEPT ![c] = 0] /\ UNCHANGED <<server, asked, messages>>
       \/ /\ p = Simple("CLOSE_REQUEST", c)
          /\ server[c] \in {"up", "failed"} /\ pending[c] = 0
          /\ server' = [server EXCEPT ![c] = "closing"] /\ UNCHANGED <<asked, messages, pending>>

ServerPdus ==
    {Simple("CAPABILITY_REQUEST", "none")}
    \cup {Simple(t, c) : t \in {"CREATE_REQUEST", "CREATE_UNHEARD", "CLOSE_REQUEST"}, c \in ChannelIds}
    \cup UNION {{Piece(c, Len(messages[c]) + 1, 1, n) : n \in 1..2} : c \in ChannelIds}
    \cup {Piece(c, Len(messages[c]), 2, 2) : c \in ChannelIds}

\* freerdp_channels_data: a chunk that begins a PDU
ReceiveFirst(last) ==
    /\ main = "loop" /\ dataIn = NoStream /\ budget.pdus > 0
    /\ budget' = [budget EXCEPT !.pdus = @ - 1]
    /\ \E p \in ServerPdus :
         /\ ServerSends(p)
         /\ last \/ p.type \in {"DATA_FIRST", "DATA"}
         /\ DataReceived(p, TRUE, last)
    /\ UNCHANGED <<main, connected, open, writes, state, thread, job, dvc, lock, connection,
                   handled, delivered, sent>>

\* freerdp_channels_data: the chunk that ends it
ReceiveRest ==
    /\ main = "loop" /\ dataIn # NoStream
    /\ DataReceived(dataIn.pdu, FALSE, TRUE)
    /\ UNCHANGED <<main, connected, open, writes, state, thread, job, dvc, lock, connection,
                   handled, delivered, sent, peer, budget>>

-----------------------------------------------------------------------------
(* The session thread: sending.                                              *)

\* what the server makes of what it receives
Heard(w) ==
    IF w.ch \notin ChannelIds \/ w.on # connection THEN server
    ELSE CASE w.type = "CREATED" -> [server EXCEPT ![w.ch] = "up"]
           [] w.type = "NOT_CREATED" -> [server EXCEPT ![w.ch] = "failed"]
           [] w.type = "CLOSED" -> [server EXCEPT ![w.ch] = "none"]
           [] OTHER -> server

\* one turn of freerdp_channels_process_sync, called from the session loop and,
\* with connected already 0, from freerdp_channels_disconnect
freerdp_channels_process_sync ==
    /\ main \in {"loop", "flush"} /\ writes.size > 0
    /\ sent' = Append(sent, Oldest(writes))
    /\ server' = Heard(Oldest(writes)) /\ UNCHANGED <<asked, messages, pending>>
    /\ writes' = Dequeue(writes)
    /\ UNCHANGED <<main, connected, open, queue, dataIn, state, thread, job, dvc, lock, error,
                   connection, posted, handled, delivered, budget>>

\* freerdp_channels_disconnect, up to its drain of the queue
freerdp_channels_disconnect ==
    /\ main = "loop"
    /\ main' = "flush" /\ connected' = FALSE
    /\ UNCHANGED <<open, writes, queue, dataIn, state, thread, job, dvc, lock, error, connection,
                   posted, handled, delivered, sent, peer, budget>>

\* mutant: the quit message is forgotten
PostNoQuit ==
    /\ main = "flush" /\ writes.size = 0
    /\ main' = "join"
    /\ UNCHANGED <<connected, open, writes, queue, dataIn, state, thread, job, dvc, lock, error,
                   connection, posted, handled, delivered, sent, peer, budget>>

\* the drain has found the queue empty: CHANNEL_EVENT_DISCONNECTED, which posts
\* the quit message and waits for the thread
PostQuit ==
    /\ main = "flush" /\ writes.size = 0
    /\ main' = "join"
    /\ queue' = MessageQueue_Dispatch(queue, WMQ_QUIT)
    /\ UNCHANGED <<connected, open, writes, dataIn, state, thread, job, dvc, lock, error,
                   connection, posted, handled, delivered, sent, peer, budget>>

\* mutant: the thread is not waited for
event_disconnected_at_once ==
    /\ main = "join"
    /\ main' = "free"
    /\ queue' = NoQueue /\ open' = FALSE /\ dataIn' = NoStream
    /\ UNCHANGED <<connected, writes, state, thread, job, dvc, lock, error, connection, posted,
                   handled, delivered, sent, peer, budget>>

\* the thread has ended: the queue is freed, the static channel closed and the
\* stream of a half received PDU freed
event_disconnected ==
    /\ main = "join" /\ thread = "exited"
    /\ main' = "free"
    /\ queue' = NoQueue /\ thread' = "none" /\ open' = FALSE /\ dataIn' = NoStream
    /\ UNCHANGED <<connected, writes, state, job, dvc, lock, error, connection, posted, handled,
                   delivered, sent, peer, budget>>

\* the plugin's OnClose returns once its device thread is out of the channel
OnClose(cs) == ~\E i \in DOMAIN job["device"] : job["device"][i].pdu.ch \in cs

\* dvcman_free: every channel is closed and freed
dvcman_free ==
    /\ main = "free" /\ OnClose(ChannelIds)
    /\ main' = "idle"
    /\ dvc' = [c \in ChannelIds |-> NoChannel]
    /\ UNCHANGED <<connected, open, writes, queue, dataIn, state, thread, job, lock, error,
                   connection, posted, handled, delivered, sent, peer, budget>>

\* freerdp_channels_close drains the queue once more: a write that was posted
\* after the last drain completes in a plugin that has no open handle any more
freerdp_channels_close ==
    /\ main = "idle" /\ connection > 0
    /\ main' = IF writes.size = 0 THEN "closed" ELSE "late write"
    /\ writes' = IF writes.size = 0 THEN MessageQueue_Dispatch(writes, WMQ_QUIT) ELSE writes
    /\ UNCHANGED <<connected, open, queue, dataIn, state, thread, job, dvc, lock, error,
                   connection, posted, handled, delivered, sent, peer, budget>>

-----------------------------------------------------------------------------
(* The programs of the writing threads.                                      *)

Ops == {"write", "post", "enter", "leave", "create", "open", "close", "exit"}
Steps == [op : Ops, pdu : Pdus]
Op(op, p) == [op |-> op, pdu |-> p]
Write(p) == Op("write", p)

\* mutant: no critical section
dvcman_write_channel_unlocked(c, m, n) == [i \in 1..n |-> Write(Piece(c, m, i, n))]

\* dvcman_write_channel and drdynvc_write_data: the pieces of one message,
\* inside channel->lock
dvcman_write_channel(c, m, n) ==
    <<Op("enter", Simple("DATA", c))>>
    \o [i \in 1..n |-> Write(Piece(c, m, i, n))]
    \o <<Op("leave", Simple("DATA", c))>>

\* a step that fails ends the program: the critical section is left, and
\* drdynvc's thread reports the error and exits
Failing(t) ==
    (IF job[t] # <<>> /\ job[t][Len(job[t])].op = "leave" THEN <<job[t][Len(job[t])]>> ELSE <<>>)
    \o (IF t = "drdynvc" THEN <<Op("exit", Simple("CLOSED", "none"))>> ELSE <<>>)

Goes(t, rest) == job' = [job EXCEPT ![t] = rest]

\* drdynvc_process_capability_request: ready whether or not the answer is written
process_capability_request(p) ==
    /\ p.type = "CAPABILITY_REQUEST"
    /\ state' = "READY"
    /\ Goes("drdynvc", <<Write(Simple("CAPABILITIES", "none"))>>)
    /\ UNCHANGED <<dvc, delivered>>

\* mutant: the server is not told the capabilities it has not asked for
process_create_request_untold(p) ==
    /\ p.type \in {"CREATE_REQUEST", "CREATE_UNHEARD"}
    /\ Goes("drdynvc", <<Op("create", p)>>)
    /\ UNCHANGED <<state, dvc, delivered>>

\* drdynvc_process_create_request: a server that has not asked for the
\* capabilities is told them first
process_create_request(p) ==
    /\ p.type \in {"CREATE_REQUEST", "CREATE_UNHEARD"}
    /\ Goes("drdynvc", (IF state = "CAPABILITIES" THEN <<Write(Simple("CAPABILITIES", "none"))>>
                        ELSE <<>>) \o <<Op("create", p)>>)
    /\ UNCHANGED <<state, dvc, delivered>>

\* mutant: data that follows a first piece is delivered as it comes
process_data_unassembled(p) ==
    /\ p.type \in {"DATA_FIRST", "DATA"}
    /\ delivered' = [delivered EXCEPT ![p.ch] = Append(@, <<p>>)]
    /\ Goes("drdynvc", dvcman_write_channel(p.ch, p.msg, 1))
    /\ UNCHANGED <<state, dvc>>

\* dvcman_receive_channel_data_first and dvcman_receive_channel_data: data that
\* announces its length is collected until it is complete; complete data goes to
\* the channel's OnDataReceived, which here echoes it (echo_on_data_received)
process_data(p) ==
    LET c == p.ch
        first == p.type = "DATA_FIRST"
        got == IF first THEN <<p>> ELSE Append(dvc[c].data, p)
        collecting == first \/ dvc[c].data # <<>>
    IN  /\ p.type \in {"DATA_FIRST", "DATA"}
        /\ IF dvc[c] = NoChannel
           THEN Goes("drdynvc", Failing("drdynvc")) /\ UNCHANGED <<dvc, delivered>>
           ELSE IF collecting /\ Len(got) < got[1].parts
           THEN dvc' = [dvc EXCEPT ![c] = [opened |-> @.opened, data |-> got]] /\ UNCHANGED <<job, delivered>>
           ELSE /\ dvc' = [dvc EXCEPT ![c] = [opened |-> @.opened, data |-> <<>>]]
                /\ delivered' = [delivered EXCEPT ![c] = Append(@, got)]
                /\ Goes("drdynvc", dvcman_write_channel(c, p.msg, Len(got)))
        /\ UNCHANGED state

process_close_request(p) ==
    /\ p.type = "CLOSE_REQUEST"
    /\ Goes("drdynvc", <<Op("close", p), Write(Simple("CLOSED", p.ch))>>)
    /\ UNCHANGED <<state, dvc, delivered>>

drdynvc_order_recv(p) ==
    \/ process_capability_request(p) \/ process_create_request(p)
    \/ process_data(p) \/ process_close_request(p)

\* drdynvc_virtual_channel_client_thread takes its next message and begins to
\* handle it
TakeMessage ==
    /\ thread = "run" /\ job["drdynvc"] = <<>>
    /\ MessageQueue_Wait(queue)
    /\ queue' = Dequeue(queue)
    /\ IF Oldest(queue) = WMQ_QUIT
       THEN thread' = "exited" /\ UNCHANGED <<job, handled, state, dvc, delivered>>
       ELSE /\ drdynvc_order_recv(Oldest(queue))
            /\ handled' = Append(handled, Oldest(queue))
            /\ UNCHANGED thread
    /\ UNCHANGED <<main, connected, open, writes, dataIn, lock, error, connection, posted, sent,
                   peer, budget>>

\* the thread of a plugin writes a message on a channel that is open; its
\* messages are numbered beyond those the server can send
DeviceWrite(c, n) ==
    /\ job["device"] = <<>> /\ budget.device > 0
    /\ dvc[c] # NoChannel /\ dvc[c].opened
    /\ main \in {"loop", "flush", "join"}
    /\ budget' = [budget EXCEPT !.device = @ - 1]
    /\ Goes("device", dvcman_write_channel(c, MaxPdus + budget.device, n))
    /\ UNCHANGED <<main, connected, open, writes, queue, dataIn, state, thread, dvc, lock, error,
                   connection, posted, handled, delivered, sent, peer>>

-----------------------------------------------------------------------------
(* The steps of a program.                                                   *)

Runs(t, op) == job[t] # <<>> /\ Head(job[t]).op = op

\* mutant: connected is not tested
CheckWriteOpen(t) ==
    /\ Runs(t, "write")
    /\ IF open
       THEN Goes(t, <<Op("post", Head(job[t]).pdu)>> \o Tail(job[t]))
       ELSE Goes(t, Failing(t))
    /\ UNCHANGED <<writes, state, thread, dvc, lock, error>>

\* FreeRDP_VirtualChannelWrite: the tests ...
CheckWrite(t) ==
    /\ Runs(t, "write")
    /\ IF connected /\ open
       THEN Goes(t, <<Op("post", Head(job[t]).pdu)>> \o Tail(job[t]))
       ELSE Goes(t, Failing(t))
    /\ UNCHANGED <<writes, state, thread, dvc, lock, error>>

\* ... and the post
PostWrite(t) ==
    /\ Runs(t, "post")
    /\ writes' = MessageQueue_Dispatch(writes, Head(job[t]).pdu)
    /\ Goes(t, Tail(job[t]))
    /\ UNCHANGED <<state, thread, dvc, lock, error>>

EnterChannel(t) ==
    /\ Runs(t, "enter") /\ lock[Head(job[t]).pdu.ch] = "none"
    /\ lock' = [lock EXCEPT ![Head(job[t]).pdu.ch] = t]
    /\ Goes(t, Tail(job[t]))
    /\ UNCHANGED <<writes, state, thread, dvc, error>>

\* mutant: the critical section is not left
LeaveChannelLocked(t) ==
    /\ Runs(t, "leave")
    /\ Goes(t, Tail(job[t]))
    /\ UNCHANGED <<writes, state, thread, dvc, lock, error>>

LeaveChannel(t) ==
    /\ Runs(t, "leave")
    /\ lock' = [lock EXCEPT ![Head(job[t]).pdu.ch] = "none"]
    /\ Goes(t, Tail(job[t]))
    /\ UNCHANGED <<writes, state, thread, dvc, error>>

\* dvcman_create_channel and the answer to the server; then the new channel is
\* opened, or what there is under its id is closed
CreateChannel(t) ==
    /\ Runs(t, "create")
    /\ state' = "READY"
    /\ LET p == Head(job[t]).pdu
           ok == dvc[p.ch] = NoChannel /\ p.type = "CREATE_REQUEST"
       IN  /\ dvc' = IF ok THEN [dvc EXCEPT ![p.ch] = [opened |-> FALSE, data |-> <<>>]] ELSE dvc
           /\ Goes(t, IF ok THEN <<Write(Simple("CREATED", p.ch)), Op("open", p)>>
                            ELSE <<Write(Simple("NOT_CREATED", p.ch)), Op("close", p)>>)
    /\ UNCHANGED <<writes, thread, lock, error>>

\* dvcman_open_channel: OnOpen
OpenChannel(t) ==
    /\ Runs(t, "open")
    /\ dvc' = [dvc EXCEPT ![Head(job[t]).pdu.ch] = [opened |-> TRUE, data |-> @.data]]
    /\ Goes(t, Tail(job[t]))
    /\ UNCHANGED <<writes, state, thread, lock, error>>

\* dvcman_close_channel
CloseChannel(t) ==
    /\ Runs(t, "close") /\ OnClose({Head(job[t]).pdu.ch})
    /\ dvc' = [dvc EXCEPT ![Head(job[t]).pdu.ch] = NoChannel]
    /\ Goes(t, Tail(job[t]))
    /\ UNCHANGED <<writes, state, thread, lock, error>>

\* the thread reports its error to the session and exits
ExitThread(t) ==
    /\ Runs(t, "exit")
    /\ error' = TRUE /\ thread' = "exited" /\ Goes(t, <<>>)
    /\ UNCHANGED <<writes, state, dvc, lock>>

Step(t) ==
    /\ \/ CheckWrite(t) \/ PostWrite(t) \/ EnterChannel(t) \/ LeaveChannel(t)
       \/ CreateChannel(t) \/ OpenChannel(t) \/ CloseChannel(t) \/ ExitThread(t)
    /\ UNCHANGED <<main, connected, open, queue, dataIn, connection, posted, handled, delivered,
                   sent, peer, budget>>

-----------------------------------------------------------------------------
SessionThread ==
    \/ freerdp_channels_post_connect
    \/ \E last \in BOOLEAN : ReceiveFirst(last)
    \/ ReceiveRest
    \/ freerdp_channels_process_sync
    \/ freerdp_channels_disconnect
    \/ PostQuit
    \/ event_disconnected
    \/ dvcman_free
    \/ freerdp_channels_close

Next ==
    \/ SessionThread
    \/ TakeMessage
    \/ \E c \in ChannelIds, n \in 1..2 : DeviceWrite(c, n)
    \/ \E t \in Threads : Step(t)

Spec == Init /\ [][Next]_vars

\* The session loop goes on draining the queue, a disconnection once begun is
\* carried through, and the threads run. Connecting, closing, disconnecting and
\* what the server and a device do is left open.
FairSpec ==
    /\ Spec
    /\ WF_vars(freerdp_channels_process_sync)
    /\ WF_vars(PostQuit \/ event_disconnected \/ dvcman_free)
    /\ WF_vars(TakeMessage)
    /\ \A t \in Threads : WF_vars(Step(t))

-----------------------------------------------------------------------------
\* Types, and that both queues stay well formed through growing and wrapping.
TypeOK ==
    /\ main \in {"idle", "loop", "flush", "join", "free", "closed", "late write"}
    /\ connected \in BOOLEAN /\ open \in BOOLEAN /\ error \in BOOLEAN
    /\ WellFormed(writes, Pdus \cup {WMQ_QUIT})
    /\ queue = NoQueue \/ WellFormed(queue, Arriving \cup {WMQ_QUIT})
    /\ dataIn = NoStream \/ dataIn.pdu \in Arriving
    /\ state \in {"INITIAL", "CAPABILITIES", "READY"}
    /\ thread \in {"none", "run", "exited"}
    /\ lock \in [ChannelIds -> Threads \cup {"none"}]
    /\ job \in [Threads -> Seq(Steps)]
    /\ dvc \in [ChannelIds -> DvcChannels \cup {NoChannel}]
    /\ posted \in Seq(Arriving) /\ handled \in Seq(Arriving) /\ connection \in Nat

\* MessageQueue.c, drdynvc_main.c: the PDUs are handled in the order in which
\* the server sent them and none is lost or handled twice, while the queue
\* grows and wraps.
HandledInOrder ==
    queue # NoQueue =>
        handled \o Contents(queue) \in {posted, Append(posted, WMQ_QUIT)}

\* the messages the server has sent on a channel, as the pieces they consist of
Sent(c) == [m \in 1..Len(messages[c]) |->
              [i \in 1..messages[c][m] |-> Piece(c, m, i, messages[c][m])]]

\* dvcman_receive_channel_data: OnDataReceived of a channel is given the
\* messages the server sent on that channel, whole and in order, whatever is
\* interleaved with them on other channels.
DeliversWhole ==
    \A c \in ChannelIds : /\ Len(delivered[c]) <= Len(Sent(c))
                          /\ \A m \in 1..Len(delivered[c]) : delivered[c][m] = Sent(c)[m]

\* what is written, in the order the server gets it, and which of it this
\* connection writes
Stream == sent \o Contents(writes)
Own(w) == w # WMQ_QUIT /\ w.on = connection
OwnData(w, c) == Own(w) /\ w.ch = c /\ w.type \in {"DATA_FIRST", "DATA"}

\* dvcman_write_channel: the pieces of two messages written on one channel by
\* two threads do not mix on their way to the server: a second piece comes next
\* after its first, and after a first piece of two the same message goes on.
PiecesTogether ==
    \A c \in ChannelIds : \A i \in 1..Len(Stream) : OwnData(Stream[i], c) =>
        /\ Stream[i].part = 2 =>
             \E j \in 1..(i - 1) :
                /\ OwnData(Stream[j], c)
                /\ Stream[j].part = 1 /\ Stream[j].msg = Stream[i].msg
                /\ \A k \in (j + 1)..(i - 1) : ~OwnData(Stream[k], c)
        /\ \A j \in 1..(i - 1) :
             (/\ OwnData(Stream[j], c) /\ Stream[j].part < Stream[j].parts
              /\ \A k \in (j + 1)..(i - 1) : ~OwnData(Stream[k], c))
             => Stream[i].msg = Stream[j].msg

\* drdynvc_process_create_request: whether or not the server asks for it, the
\* capabilities are the first thing it is told.
CapabilitiesFirst ==
    \A i \in 1..Len(Stream) : Own(Stream[i]) =>
        \E j \in 1..i : Own(Stream[j]) /\ Stream[j].type = "CAPABILITIES"

\* drdynvc_virtual_channel_event_disconnected: while a thread runs, what it
\* uses is there: drdynvc's thread its queue, and a thread that writes on a
\* channel the channel.
NothingFreedInUse ==
    /\ thread = "run" => queue # NoQueue
    /\ \A t \in Threads : \A i \in DOMAIN job[t] :
         job[t][i].op \in {"enter", "leave", "open"} => dvc[job[t][i].pdu.ch] # NoChannel

\* FreeRDP_VirtualChannelWrite: a write that has passed the test of connected
\* can be posted after the last drain, but only one of each thread.
LateWrites ==
    main \in {"free", "idle", "late write"} =>
        /\ writes.size <= 2
        /\ \A i, j \in 1..writes.size :
              Contents(writes)[i].msg > MaxPdus /\ Contents(writes)[j].msg > MaxPdus => i = j

\* freerdp_channels_disconnect: a disconnection ends, whatever the threads are
\* doing when it begins.
DisconnectEnds == main = "flush" ~> main = "idle"

\* drdynvc_virtual_channel_client_thread: every PDU received is handled, unless
\* the thread has failed or the session ends.
PduHandled ==
    handled # posted ~> handled = posted \/ thread # "run" \/ ~connected
=============================================================================
