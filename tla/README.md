# Verification of the cacRDP client

cacRDP is an iOS client that opens remote applications over RDP. A web page, shown in a web
view, lists the applications of a user; choosing one opens an RDP session in a full-screen
view controller, while the client keeps a management server (the "CU") informed. The RDP
protocol itself is a vendored FreeRDP 2.0 (`src/libfreerdp`, `src/winpr`, `src/channels`).
This directory holds TLA+ models of the parts in which threads, timers, callbacks and an
uncooperative peer meet, TLC configurations that check them, and TLAPS proofs.

## 1. The system and its parts

| part | source | state it keeps | operations |
|---|---|---|---|
| RDP session | `client/iOS/Models/RDPSession.m`, `client/iOS/FreeRDP/*` | `mfInfo`: `connection_state`, `unwanted`, `bitmap_context`, the event pipe; the condition `uiRequestCompleted` | connect, sendInputEvent, disconnect on the main thread; ios_run_freerdp and its callbacks on the connection thread |
| Reports to the CU | `CuWebViewController.m`, `JSCallOc.m`, `client/iOS/AppDelegate.m`, `vminfo.m` | the singleton `vminfo`: connection fields, `recoverTimer`, `multiRdpRecoverInfo` | launching (JavaScript thread), heartbeat timer, end of a session, background and foreground |
| View controller and its timers | `client/iOS/Controllers/RDPSessionViewController.m` | globals `timer`, `is_timeup`, `is_closed`; what retains the controller | the session's callbacks, the cancel button, two timers |
| Input | `RDPKeyboard.m`, `TouchPointerView.m`, gesture handlers of the view controller | sticky modifier flags, held-back mouse move and its timer, gesture flags | key, modifier, gesture and tap handlers |
| Protocol negotiation | `libfreerdp/core/nego.c` | `rdpNego`: state, enabled, requested and selected protocols, connection flags | nego_connect with its attempts and fallback |
| Connection sequence | `libfreerdp/core/connection.c`, `rdp.c`, `activation.c`, `transport.c`, `nla.c`, `license.c` | `rdp->state`, joined channels, license state, `finalize_sc_pdus`, keys, `abortEvent` | connect, redirect, one handler per state, reactivation, abort |
| Virtual channels | `libfreerdp/core/client.c`, `channels/drdynvc` | `connected`, the write queue, drdynvc's queue, thread and dynamic channels | connect, receive chunks, drain, disconnect; drdynvc's thread and its handlers; writing from any thread |
| Message queue | `winpr/libwinpr/utils/collections/MessageQueue.c` | a growing circular array and its event | dispatch, post, quit, wait, get, peek |
| Rest of WinPR, other channels, codecs, crypto, gateway | `winpr`, `channels`, rest of `libfreerdp` | various | vendored library code |
| Bookmarks, editors, keychain, menu, progress views | `client/iOS`, `RDPMenu`, `MBProgressHUD` | forms and presentation | sequential |

How they interact:

* The web page calls `JSCallOc` on the web view's JavaScript thread. `AcceptTheDataFromJs`
  overwrites `vminfo` and posts `openRdp`; `CuWebViewController` creates the session and
  its controller, hands the presentation to the main queue and posts the notification that
  starts the heartbeat. `NSNotificationCenter` calls observers on the posting thread, so all
  this happens off the main thread.
* The controller's `viewDidAppear` calls `-[RDPSession connect]`, which starts the
  connection thread. From then on the main thread talks to it through the event pipe and
  two plain fields, and it talks back with `performSelectorOnMainThread`, most of the time
  waiting until the selector was performed.
* `freerdp_connect`, on the connection thread, runs the negotiation (`nego_connect`) and the
  rest of the connection sequence, and may ask the user for credentials or about a
  certificate through a modal dialog.
* The rest of the connection sequence (`rdp_client_connect`) and every later PDU go through one
  callback, `rdp_recv_callback`, which waits inside itself for a reactivation and connects
  again inside the loop that met a redirection.
* When a session is connected, `freerdp_channels_post_connect` starts drdynvc's thread. The
  session thread hands it PDUs through one message queue; it and the threads of the device
  plugins hand back what they write through another.
* When the thread ends, `runSessionFinished` on the main thread stops the heartbeat and
  tells the controller, which dismisses itself.

What is hard here: two threads that share unsynchronised fields; a condition variable waited
for without a predicate; a disconnect that has to work before, during and after connecting;
one singleton and several globals shared by consecutive sessions; timers that outlive what
they were started for; loops that wait inside callbacks of the same loop; queues and channels
freed while other threads use them; a server whose answers are not under the client's control. The list
of hazards, each at its line, is in `PROJECT.json`.

## 2. Modules

| module | models | extends or uses |
|---|---|---|
| `RdpSession` | main thread and connection thread of one session | |
| `SessionContract` | what a session promises, without threads | instantiated by `RdpSession` |
| `RdpSessionProofs` | proofs | `RdpSession` |
| `CuReports` | heartbeat and background heartbeat over several launches | |
| `CuReportsProofs` | proofs | `CuReports` |
| `ConnectTimer` | the 15 s and 5 s timers and the controllers' lifetime | |
| `ConnectTimerProofs` | proofs | `ConnectTimer` |
| `SessionInput` | modifiers, mouse moves, gestures, taps | |
| `SessionInputProofs` | proofs | `SessionInput` |
| `Nego` | one call of `nego_connect` | |
| `NegoProofs` | proofs | `Nego` |
| `ClientConnect` | the connection from the negotiation to ACTIVE, reactivation, redirection, abort | takes `Nego`'s outcome |
| `ClientConnectProofs` | proofs | `ClientConnect` |
| `MessageQueue` | WinPR's message queue, as operators on its value | |
| `MessageQueueProofs` | proofs | `MessageQueue` |
| `DynamicChannels` | session thread, drdynvc's thread and a device thread around two message queues | `MessageQueue` |
| `DynamicChannelsProofs` | proofs | `DynamicChannels`, `MessageQueueProofs` |
| `MC*` | what TLC runs instantiate | the module of the same name |

Variables and actions keep the names of the fields and functions they stand for, and
`PROJECT.json` gives the lines of each definition. Definitions commented "Mutant of" are
deliberately wrong versions of an action: no specification uses them, each shows that a
property notices that mistake.

### RdpSession

`pc` is the connection thread, `mpc` the main thread; one action is a stretch of code of one
thread between two accesses to what the other one uses. `disconnect`, for instance, is four
actions: it takes up its event (`Disconnect`), writes it to the pipe (`WriteEvent`, which
blocks while the pipe is full), tests `connection_state` (`TestConnecting`) and sets
`unwanted` and reports the end (`CancelConnecting`). `posted` holds the selector the
connection thread waits for; `Perform` actions take it in the run loop only, so a main
thread that blocks in a write performs none. `bitmap_context` and `contexts` tell the pointer
from the object, and `held` is the context `drawRect:` is copying from.

External and abstracted: `freerdp_connect` and `freerdp_check_fds` appear through the
callbacks they make and the result they return (any of them may fail at any point). Waiting
on the condition may only end by a signal: spurious wake-ups are left out. A pipe event is
written and read as a whole. Suspending and resuming a session hangs on the
session toolbar, whose display is commented out (`RDPSessionViewController.m:693`, `:1105`),
and screenshots on the bookmark list, which is not shown; they are not modelled.

`SessionContract` has no threads: one connection, events served in order only while
connected and none after the disconnect event, an end reported when it is final, and once
before if the user gave up while connecting. `KeepsContract` says that `RdpSession`
implements it, with the history variables `requested` and `received` as the streams.

### CuReports

Each launch has a number; `info`, `recover` and the requests in `outbox` name the launch
they are about, which is all a property tells apart. The JavaScript thread (`wpc`) and the
main thread (`mpc`) are separate where they touch `recoverTimer`: its test and its
assignment in `postMessageToService` are two actions, as are invalidating and clearing it in
`stoppostMessageToservice`. A session cancelled while connecting is "hidden": its thread goes
on and finishes at some later time, possibly after the next launch. Assumption: the web
view's JavaScript thread keeps running the timers scheduled on it; if it does not, no
heartbeat is sent at all.

`openRdp` is cut where the main thread can see a difference: it creates the session and
dispatches its presentation, and then, while the session may already be shown, cancelled or
ended, stores the recover information and goes on to the timer. The recover timer is
scheduled on the JavaScript thread's run loop, so it fires between launches only. The history
variable `late` holds the cancelled sessions whose end came after the newest launch had looked
at `recoverTimer`; `HeartbeatOnScreen` excepts them, as they do stop the heartbeat of the
session on screen. Three requests are built by the code but never sent as intended, and the model has no action for them: the
logoff in `closeOpenRdp` and the docker message in `sendDockerMessageToService` create a task
that is never resumed; the docker branches test `vminfo.apptype`, which is never assigned;
the background heartbeat starts a task for a second, empty request (recorded as "empty").

### ConnectTimer

The globals `timer`, `is_timeup` and `is_closed` are shared by the controllers of successive
sessions. `live` and `live2` are the scheduled timers, each of which retains its controller,
and `menu` the controllers retained by the block of their own menu. `dealloc` happens when
nothing retains a dismissed controller. `freedUsed` records an `invalidate` sent to a timer
that has fired or was invalidated before; nothing but the run loop retains a timer.

### SessionInput

One action per handler. `pressed` are the flags of `RDPKeyboard`, `held` the keys that are
down at the server, `buttons` the mouse buttons down at the server. A mouse move is named by
its number; `timers` holds the move each scheduled timer carries. UIKit may cancel a gesture,
which no handler treats. Wheel events, positions, auto-scrolling and the visibility of the
keyboards do not touch this state and are left out. An upper-case letter typed while the
sticky shift is pressed has no virtual key and is dropped by `handleAlphaNumChar`; for the
modifiers this makes no difference, so the model does not tell characters apart.

### Nego

The module has no parameters: the initial states are all sets of enabled protocols, with and
without negotiation and preconnection PDU, and both kinds of server. `Conforming` servers
answer with a protocol that was requested (or RDP), with a failure, or with a confirm without
negotiation data; the others may send anything `nego_recv` can tell apart. Every call of the
transport may fail. `rdp_reset` allocates a new `rdpNego` for a reconnect, so one call of
`nego_connect` per `rdpNego` is the whole life of its state. Protocols keep their wire
numbers, whose order is the order of preference. The gateway is part of `nego_tcp_connect`'s
outcome; cookies, routing tokens and the server side of `nego.c` are left out.

### ClientConnect

One action per state of `rdp_recv_callback`, with everything the handler writes: `Send(ps, n)`
says that the first `n` of the PDUs `ps` were written, and a handler whose `n` is smaller than
that fails. The server is any server: it may send any PDU the client can tell apart in any
state. `frames` is the stack of waiting loops: `connect` (rdp_client_connect), `run` (the
session's loop in `ios_run_freerdp`), `final` and `active` (the loop of
rdp_recv_deactivate_all, inside a callback called in FINALIZATION or ACTIVE). `Fail` unwinds it
as the code does: a negative status leaves every callback loop up to the innermost
rdp_client_connect, and that one's FALSE reaches the loop around it as 0, so that loop goes on
(`resumed`). `rdp_reset` frees the transport; `freed` counts the frames that still run on a
freed one, and returning through such a frame may have any outcome, a crash included
(`ThroughFreed`). The same holds for encrypting with a null key (`SecureAndInform`) and for
`rdp->nla` after it was freed (`RecvNla`).

Left out: contents of PDUs other than what a later step depends on (message channel,
encryption, license outcome), auto-detection, heartbeat and multitransport PDUs, fast-path
updates (one "other" PDU), the gateway, and the server side. `nego_connect` is `Nego`; here
it is one step with the protocol negotiated.

`Diagram` is the sequence documented in `connection.c` as the pairs of PDUs that may follow
each other; `FollowsSequence` says that what the client writes is a path of it. The module
assumes that static channels have distinct names: `FreeRDP_VirtualChannelInit` refuses a name
that is taken (`client.c:549`). "user", "global" and "message" stand for the other channels
that are joined and are no static channel's name.

### MessageQueue and DynamicChannels

Every function of MessageQueue.c runs under the queue's lock, so it is an operator on the
queue's value: `Grow`, `Store`, `Oldest`, `Dequeue`. `MessageQueue_Dispatch` also writes a time
stamp, into the slot after the one it has filled; nothing in the repository reads the stamp,
and it is left out.

`main` is the session thread, in its loop and in the steps of `freerdp_channels_disconnect`
(drain, quit message, wait for the thread, free). `thread` is drdynvc's thread. A handler of a
PDU is a program, a sequence of steps in `job`, cut where another thread can see a difference:
a write reads `connected` (`CheckWrite`) and then posts (`PostWrite`); the pieces of a message
are written between `EnterChannel` and `LeaveChannel`. A step that fails drops the rest of its
program but for leaving the critical section, and drdynvc's thread then reports the error and
exits. The device thread is a plugin's: it writes messages of its own on an open channel, and
`OnClose` waits until it is out of the channel, which is what the plugins with a thread do.
Its messages are numbered above `MaxPdus`, so that a number tells who wrote a message.
`Stream` is what the server has received followed by what waits in `channels->queue`, the
order in which the writes of all threads reach the server; `PiecesTogether` and
`CapabilitiesFirst` are stated on it.

The server is a conforming one: no data on a channel before it knows that the channel is up,
no second create request for an id in use, no close request in the middle of a message; it may
or may not ask for the capabilities. `drdynvc` against other servers closes the channel of a
duplicate create request, or ends its thread on an error. A message has one or two pieces and
a PDU one or two chunks; priorities, channel names, allocation failures, the stream pool and
the suspend and resume flags of a chunk are left out. A name no plugin listens to,
a listener that refuses (`OnNewChannelConnection`) and a failing `OnOpen` in
`dvcman_create_channel` are one outcome, a create request answered with a failure; no property
depends on the difference. A stream from the pool may have more
room than the declared length, so the test against overlong data is weaker than it looks;
conforming servers do not meet it.

## 3. Runs

| run | result | states | shows |
|---|---|---|---|
| `session_safety` | pass | 52 403 | events keep their order and stop at the disconnect event; a cancellation that comes too late for the test of `unwanted` still reaches the loop; a refused dialog is final; the end is reported once, or twice after a cancellation; the context is released; the contract is implemented |
| `session_liveness` | pass | 22 565 | without a dialog, and with a pipe that does not fill up, a disconnect ends the session unless the thread stays for good inside `freerdp_connect` or `freerdp_check_fds`; no deadlock |
| `session_ui_wait` | violation | | the dialog signals before the thread waits, and the thread waits forever |
| `reports_safety` | pass | 6 958 | the session on screen has been reported and keeps a stoppable heartbeat that names it, unless a cancelled session ends late; the timer pointer never dangles outside `stoppostMessageToservice` |
| `timer_release` | pass | 21 048 | the controller of a session that never connected is released, although failing and cancelling leave its timer running |
| `timer_invalidate` | violation | | `invalidate` is sent to a timer that is gone |
| `input_safety` | pass | 16 250 | keys and buttons down at the server are the ones the user holds, no key is down off screen; moves are throttled, in order, and the last one arrives |
| `nego_safety` | pass | 9 164 | no unwanted downgrade whatever the server answers; no security layer survives its connection; with a conforming server one request per connection, the reported protocol is the connected one, and the fallback ends |
| `connect_sequence` | pass | 690 233 | ACTIVE is reached only through the whole sequence on the present connection; what the client writes follows the order documented in `connection.c`; an abort ends an established session, also inside a reactivation |
| `connect_abort` | violation | | an abort while `rdp_client_connect` waits makes its loop spin for ever |
| `channels_data` | pass | 854 980 (up to symmetry) | PDUs are handled in order while the queue grows and wraps; messages on two channels are delivered whole; the capabilities are told first |
| `channels_disconnect` | pass | 180 355 | pieces of two writers do not mix; nothing is freed in use; at most one late write of each thread; every disconnection ends and every PDU is handled |

The violations are disagreements between the code and its own comments and tests;
`PROJECT.json` quotes the line for each.

Four more disagreements were met while modelling. They are not runs of the project, as no
property of the code rests on them, and the hazards list them at their lines:

* `ios_resize_display_buffer` (`ios_freerdp_ui.m:157`) releases the old context "in a
  thread-safe manner", yet `drawRect:` may be copying from it: nothing synchronises the two.
* The late end of a session that was cancelled while connecting stops the heartbeat of the
  session on screen (`RDPSession.m:397`): the notification does not say which session ended.
* A session that ends between the test of `recoverTimer` and its assignment
  (`CuWebViewController.m:230`) leaves a heartbeat running with no session.
* `nego_recv` (`nego.c:625`) accepts a confirm without negotiation data after a refused answer
  and keeps the protocol selected there, so with NLA and RDP enabled a connection can be
  secured with TLS although TLS is disabled.

Bounds. `session_safety` has two inputs and three events in all, so that two inputs and a
disconnect, or two disconnects around an input, occur; a pipe of two events, so that it fills
up and the main thread blocks; two UI requests, so that a second dialog follows a first; one
resize. `session_liveness` has a pipe at least as large as the number of events: with a full
pipe the main thread blocks in `write` while the connection thread waits for it, a deadlock
the code really has (listed among the hazards). `reports_safety` and `timer_release` have
three launches: one that ends late, one in between, and a third that meets the leftovers.
`input_safety` uses the code's threshold of 5 and eight moves, so that the counter wraps
around and starts again. `nego_safety` is not bounded: all its states are explored.
`connect_sequence` has one static channel and two redirections or deactivations in all, which
is what a redirection inside a reactivation, a reactivation after a redirection and a failed
redirection that is resumed need; PDUs are not bounded otherwise. The channel runs start with
queues of one slot (32 in the code), so that they double twice and wrap. `channels_data` has
five PDUs on two channels, enough to create both and send two pieces on one, or to create one,
send two messages and close it. `channels_disconnect` has two connections, so that what the
first leaves behind meets the second, three PDUs and one message of a device.
Deadlock is not checked where a session is simply over.

Fairness. `RdpSession`: both threads are scheduled by the operating system, so weak fairness
of the steps each can take by itself. The user and the server owe nothing. In particular
nothing makes `freerdp_connect` return (`connection.c:298` loops until the connection is
ACTIVE) or `freerdp_check_fds` (which loops likewise in a reactivation, `activation.c:318`,
and returns at once otherwise): with a silent server the thread stays there, as `disconnect`
sets `unwanted` and writes to the pipe but never aborts the connection. `DisconnectEnds`
allows this outcome and no other. `ConnectTimer` and `SessionInput`: the run loop fires a timer
that stays scheduled, and releases what nothing retains. `Nego`: `nego_connect` runs alone on
its thread and the transport's blocking calls return, with an error at the latest when the
connection is lost. `ClientConnect`: the thread takes every step it can take without the
server; nothing is assumed of the server or the user. `DynamicChannels`: the session loop goes
on draining the queue, a disconnection once begun is carried through, and both other threads
are scheduled; connecting, disconnecting, the server and the device owe nothing. `CuReports`
states no liveness.

## 4. Proofs

All theorems hold for every value of the constants.

* `RdpSessionProofs`. `TypeCorrect`: `TypeOK` is invariant. It is not inductive alone:
  reading the head of the pipe needs to know that a pipe seen readable still is
  (`ReadableWhenRead`, as there is one reader), and writing that the event at hand is one.
  `StreamCorrect`: `InputsInOrder`, `NothingAfterDisconnect` and `CancelReachesLoop`. The
  strengthening `EventStream` adds that `disconnect` has written its event before it tests
  the state, that an unwanted session has its disconnect event in the pipe or read, or has
  given up, and that the thread is out of its loop once it has read it. Most actions are
  disposed of by one lemma (`QuietStep`): they leave the stream alone.
  `RefusalCorrect` (`RefusalIsFinal`), `ContextCorrect` (`ContextReleased`) and `EndCorrect`
  (`EndReported`) rest on `ControlInv`, which ties `connection_state`, `result_code` and the
  posted selector to the place of the connection thread. `DialogInv` follows a refused answer
  from the dialog to the result code, `ContextInv` counts the drawing contexts through creating,
  resizing and releasing, `ReportInv` the reports through both ways of ending.
  `Refinement` (`KeepsContract`): every step of the two threads is a step of `SessionContract`
  or leaves it alone, under the mapping of `RdpSession`; it needs the invariants above.
* `CuReportsProofs`. `TypeCorrect`, with `CountInv`: a launch creates at most one timer.
  `PointerCorrect` (`PointerIsScheduled`). `HeartbeatCorrect` (`HeartbeatOnScreen`) from it and
  `HeartInv`: only the newest launch can have a session on screen, its recover information is
  stored before its launch tests the timer, and the session that is ending is the one on screen
  or one that was cancelled, so clearing the pointer robs another session only in the case
  `late` records.
* `ConnectTimerProofs`. `TypeCorrect` (`TypeOK`), for any number of sessions.
  `TimersFindController`: a timer that fires and the block of the menu find the controller they
  were made for alive, as every step that schedules a timer or sets up the menu finds it alive and
  `dealloc` waits until nothing retains it. `FinishedLeavesScreen`: the controller of a session
  that has ended is off the screen, which is the part of `UnconnectedReleased` that needs no
  fairness.
* `NegoProofs`. `NegoSafe`: types, and a closed connection never counts as secured.
  `NeverDowngraded`: plain RDP security is used only if the user has enabled it, whatever
  the server answers. The invariant `NegoInv` adds that trimming the enabled protocols never
  enables RDP, what an attempt without negotiation may look like, that an accepted answer
  leaves RDP selected only if it is enabled, and the states that belong to each control
  point. Lemmas: what `Strongest` and `Fallback` return. `SelectionEnabled`
  (`NegotiatedIsEnabled`) from `OutcomeInv`: a selection that was accepted is enabled, and
  without negotiation only enabled protocols are tried. `ConformingOutcome`
  (`OneRequestPerConnection`, `SecuredAsSelected`) from `ConformingInv`: what a conforming
  server may have answered at each control point.
* `SessionInputProofs`. `TypeCorrect`. `Throttled` and `Ordered` from `MoveInv`: the server has
  the newest move or exactly that one is scheduled, and the number held back is bounded by the
  counter. `KeysAgree` from `KeyInv`: flags and keys agree and nothing is down off screen, which
  is why `initWithSession` may clear the flags silently. `ButtonsReleased`
  (`ButtonsHeldByGesture`) from `ButtonInv`: only the left button is ever pressed, and the touch
  pointer moves only in its own two gestures.
* `ClientConnectProofs`. `Earned`: `ActiveIsEarned`, which claims nothing of a session being
  aborted, for any list of static channels and any number of nested deactivations and
  redirections. The invariant `PhaseInv` says what each
  state of the connection has behind it (from LICENSING on all channels are joined, from
  CAPABILITIES_EXCHANGE on the license is granted) and that in FINALIZATION every finalization
  PDU that counts was received after the last Confirm Active; the loops and the aborted
  attempts need no invariant of their own, since a failed redirection leaves a state whose
  history `rdp_reset` has erased. `TypeCorrect`. `InSequence` (`FollowsSequence`) from `SeqInv`:
  what was written is a path of `Diagram`, and the state of the connection says where on it the
  last PDU stands; while channels are joined, the joined ones are the first of `JoinOrder` and
  the last join asked for is the next. That the next channel to join is the first that is not
  joined is found by the least-number principle (`SmallestOf`, from the well-foundedness of
  `<` on the naturals), the one place where induction over data was needed.
* `MessageQueueProofs`. `DispatchAppends` and `DequeueTakesFirst`: on every well formed queue,
  of any capacity, full or wrapped, the two operations are append and tail of its contents and
  keep it well formed. The lemmas are about `Slot`, the position of the i-th message: how it
  changes when the queue doubles and when head moves.
* `DynamicChannelsProofs`. `PdusInOrder` (`HandledInOrder`), `NoUseAfterFree`
  (`NothingFreedInUse`) and `ChannelTypes` (`TypeOK`), for any set of channels, any initial
  capacity and any number of PDUs, device writes and connections. The invariant `IInv` joins
  `TypeOK` with the types of the peer's messages and of the bounds (`PeerOK`), the life of the
  thread and its queue along the disconnection (`ThreadOK`), what the queue holds along it
  (`OrderOK`, which rests on the two queue theorems), and `ChannelOK`: a step inside a channel
  finds the channel, a program that closes a channel does nothing else in one, the device only
  writes, and at most one piece is waiting to be completed. `NothingFreedInUse` is not inductive
  alone: a channel may be freed because the closing program of drdynvc's thread is inside no
  channel and `OnClose` has waited for the device, and the queue because the thread has exited.
  `CapabilitiesTold` (`CapabilitiesFirst`) and `LateWritesBounded` (`LateWrites`) rest on `IInv`
  and `WritesInv`, which follows what the threads write: `StreamOK` (what is in the queue was
  written for this connection or an earlier one), `NumbersOK` and `JobsOK` (the number of a
  message and the PDUs of a program tell its thread), `LateOK` (after the last drain a thread
  that has posted is not about to post again, as its next write finds `connected` false) and
  `ToldOK` (until the capabilities are told, the server has nothing to react to and the only
  programs are the ones that begin by telling them).
  `MessagesTogether` (`PiecesTogether`) adds `PiecesInv`: `HeldOK` relates a program to the locks
  (a thread about to write a piece holds the channel's lock or enters it first, and the second
  piece follows the first), so that two threads are never both about to write on one channel;
  `BegunOK` says that who is about to write a second piece has the first as the last piece of
  the stream, and `OpenOK` that a first piece at the end of the stream has its writer about to
  write the second, or that no write will be posted on that channel any more, as a write that
  fails between the pieces does so because `connected` is false. That in turn needs the static
  channel to be open as long as the session is in its loop.
  `MessagesDelivered` (`DeliversWhole`) rests on `IInv`, `StreamOK` and `DeliveryInv`. `Flow` is what
  the server has sent on this connection, the PDU whose chunks are still coming included; `FlowOK`
  says that its data on a channel are the pieces of the server's messages, each once and in order,
  and that a request about the channel comes between messages. `CollectOK` relates the part of
  `Flow` that has been handled to what has been delivered and collected: while the thread has not
  failed, a piece has been handled exactly if its message has been delivered or it is the first
  piece of the message being collected, so the next piece to be handled completes a message or
  begins the next. A channel that is created or closed in the middle of a message would lose a
  piece. That this does not happen is `TurnsOK`: at most one request about a channel or answer to
  one is under way, in drdynvc's queue, in the program of its thread or in `channels->queue`, and
  none while the server counts the channel as up; so a request meets nothing collected
  (`ManagedOK`). `PlanOK` says that the device's programs carry no answers and that a program that
  exits does nothing else. The actions are moves of positions in three sequences; the lemmas about
  them (`FlowAppend`, `TakenLast`, `AskedTaken`, `AnswerGrows`, ...) are stated on rigid values.

Assumptions are the named `ASSUME`s on the constants: the disconnect event is not an input,
the pipe holds at least one event, the threshold and the capacity of a queue are positive,
the quit message and NULL, for a channel or a stream, are none of the values they stand beside,
static channels have distinct names, and bounds are natural numbers.

Only model-checked: the liveness properties (`DisconnectEnds`, `NegotiationEnds`,
`UnconnectedReleased`, `LastMoveArrives`, `AbortEndsSession`, `PduHandled`), as the prover has
no rules for fairness. Every invariant and every action property of a passing run is also a
theorem.

## 5. Not modelled

* Codecs, drawing, caches, cryptography and gateway of the vendored FreeRDP: data
  transformations, or protocols whose outcome is taken as external. They are most of the
  repository's lines (with the server side, the proxies of the Windows API in WinPR, and
  headers), which is why the map covers a small share of it.
* The channel plugins other than drdynvc and echo: codecs on top of the modelled channels.
* Server roles (`peer.c`, `server.c`, the server halves of `nego.c` and `connection.c`): the
  application is a client.
* Bookmarks, editors, keychain, settings, menus, progress views: sequential code over a
  dictionary or pure presentation.
* `postDataWhenFirstOpenRdp`: one synchronous request whose answer is ignored.
* Partial writes and short reads of the event pipe, spurious wake-ups, and the order of a
  held-back mouse move relative to a click.
* Allocation failures in the channels and the message queue.

## 6. Plan

1. `EventPipe`: length and body written and read separately, as a refinement of the FIFO
   that `RdpSession` assumes.
2. Composition: `RdpSession`'s connection thread driving `ClientConnect` and
   `DynamicChannels`, so that a disconnect event, an abort and the end of the channels meet.
3. Version comparison and the inner address test of `CommonUtils.m` and `JSCallOc.m`, as pure
   operators against reference definitions.
4. In existing modules: the web view's load flag, the visibility of the advanced keyboard, and
   the order of moves and clicks in `SessionInput`.
