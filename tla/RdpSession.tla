------------------------------ MODULE RdpSession ------------------------------
(***************************************************************************)
(* One RDP session of the iOS client: the application's main thread        *)
(* (RDPSession.m, RDPSessionViewController.m and the two modal dialogs)    *)
(* and the connection thread started by -[RDPSession connect]              *)
(* (ios_freerdp.m, ios_freerdp_events.m, ios_freerdp_ui.m).                *)
(*                                                                         *)
(* The threads share the plain fields of mfInfo (connection_state,         *)
(* unwanted, bitmap_context), a pipe of input events that the main thread  *)
(* fills and the connection thread empties, the condition                  *)
(* uiRequestCompleted, and performSelectorOnMainThread: the connection     *)
(* thread posts a selector and, with waitUntilDone:YES, blocks until the   *)
(* main thread's run loop has executed it.                                 *)
(*                                                                         *)
(* freerdp_connect and freerdp_check_fds are outside this component; they  *)
(* appear here through the callbacks they make and the value they return.  *)
(***************************************************************************)
EXTENDS Naturals, Sequences

CONSTANTS
    Inputs,             \* the mouse and keyboard events the user may cause
    AcceptCertificates, \* the user default security.accept_certificates
    ServerAsks,         \* the UI callbacks this server makes freerdp_connect call
    PipeCapacity,       \* how many events the kernel buffers for the pipe
    MaxEvents,          \* bound: events the user causes in one session
    MaxAsks,            \* bound: UI requests during one connection attempt
    MaxResizes          \* bound: desktop resizes the server requests

ASSUME SessionAssumption ==
    /\ "disconnect" \notin Inputs /\ "none" \notin Inputs
    /\ AcceptCertificates \in BOOLEAN
    /\ ServerAsks \subseteq {"certificate", "authenticate"}
    /\ PipeCapacity \in Nat \ {0}
    /\ MaxEvents \in Nat /\ MaxAsks \in Nat /\ MaxResizes \in Nat

VARIABLES
    connection_state, \* mfi->connection_state
    unwanted,         \* mfi->unwanted
    pipe,             \* events written to event_pipe_producer and not yet read
    bitmap_context,   \* mfi->bitmap_context: 0 is NULL, n is the n-th context
    contexts,         \* the CGContexts created and not yet released
    resizes,          \* how often the server resized the desktop
    asks,             \* how many UI requests were made
    answer,           \* params["result"] of the current UI request
    fdset,            \* FD_ISSET(event_pipe_consumer) after the last select
    result_code,      \* what ios_run_freerdp returned
    pc,               \* where the connection thread is
    posted,           \* the selector it waits for the main thread to perform
    mpc,              \* where the main thread is
    outgoing,         \* the event ios_events_send is writing
    held,             \* the context drawRect: is reading, 0 when it is not drawing
    dirty,            \* the session view needs a redraw
    view,             \* the session's view controller, which is its delegate
    view_session,     \* RDPSessionView has been given its session
    dialog,           \* the modal credentials or certificate dialog
    requested,        \* history: events passed to ios_events_send, in order
    received,         \* history: events the connection thread read, in order
    ends              \* history: end-of-session reports made to the delegate

connVars == <<resizes, asks, fdset, result_code, pc>>
mainVars == <<mpc, outgoing, held, dirty, view, view_session, dialog, requested, ends>>
sharedVars == <<connection_state, unwanted, pipe, bitmap_context, contexts, answer, posted,
                received>>
vars == <<connVars, mainVars, sharedVars>>

States == {"Closed", "Connecting", "Connected", "Disconnected"}
Results == {"none", "SUCCESS", "CONN_FAILED", "CONN_CANCELED"}
Events == Inputs \union {"disconnect"}
Selectors == {"willConnect", "ask", "contextWillChange", "contextDidChange",
              "didConnect", "finished"}
Ends == {"didDisconnect", "didFailToConnect"}

\* The view controller is on screen and takes touches of the user.
Visible == view \in {"connecting", "connected"}
\* The connection thread is in the loop of ios_run_freerdp.
LoopPcs == {"loop", "fds", "events", "release", "recreate", "recreated"}
ConnPcs == {"idle", "start", "enter", "connect", "lock", "wait", "woken", "failed",
            "create", "created", "check", "commit", "cleanup", "clear", "finish",
            "last", "done"} \union LoopPcs

Init ==
    /\ connection_state = "Closed"
    /\ unwanted = FALSE
    /\ pipe = <<>>
    /\ bitmap_context = 0
    /\ contexts = {}
    /\ resizes = 0
    /\ asks = 0
    /\ answer = "unset"
    /\ fdset = FALSE
    /\ result_code = "none"
    /\ pc = "idle"
    /\ posted = "none"
    /\ mpc = "runloop"
    /\ outgoing = "none"
    /\ held = 0
    /\ dirty = FALSE
    /\ view = "presented"
    /\ view_session = FALSE
    /\ dialog = "none"
    /\ requested = <<>>
    /\ received = <<>>
    /\ ends = <<>>

-----------------------------------------------------------------------------
(* Main thread: the user, and the handlers of RDPSessionViewController *)

\* viewDidAppear: connects the session the first time it runs.
Connect ==
    /\ mpc = "runloop" /\ view = "presented" /\ pc = "idle"
    /\ pc' = "start"
    /\ UNCHANGED <<resizes, asks, fdset, result_code, mainVars, sharedVars>>

\* -[RDPSession sendInputEvent:]: drops the event unless the session is Connected.
SendInputEvent(e) ==
    /\ mpc = "runloop" /\ view = "connected"
    /\ connection_state = "Connected"
    /\ Len(requested) < MaxEvents
    /\ mpc' = "write" /\ outgoing' = e
    /\ requested' = Append(requested, e)
    /\ UNCHANGED <<held, dirty, view, view_session, dialog, ends, connVars, sharedVars>>

\* Mutant of Disconnect: the state is tested first and the event is sent only when
\* the session is not connecting.
DisconnectTestsFirst ==
    /\ mpc = "runloop" /\ Visible /\ dialog = "none"
    /\ Len(requested) < MaxEvents
    /\ IF connection_state = "Connecting"
         THEN mpc' = "cancel" /\ UNCHANGED <<outgoing, requested>>
         ELSE /\ mpc' = "write" /\ outgoing' = "disconnect"
              /\ requested' = Append(requested, "disconnect")
    /\ UNCHANGED <<held, dirty, view, view_session, dialog, ends, connVars, sharedVars>>

\* cancelButtonPressed and disconnectSession call -[RDPSession disconnect], which
\* first sends the disconnect event.
Disconnect ==
    /\ mpc = "runloop" /\ Visible /\ dialog = "none"
    /\ Len(requested) < MaxEvents
    /\ mpc' = "write" /\ outgoing' = "disconnect"
    /\ requested' = Append(requested, "disconnect")
    /\ UNCHANGED <<held, dirty, view, view_session, dialog, ends, connVars, sharedVars>>

\* Mutant of WriteEvent: a write that does not block and whose failure is ignored.
WriteEventNonBlocking ==
    /\ mpc = "write"
    /\ pipe' = IF Len(pipe) < PipeCapacity THEN Append(pipe, outgoing) ELSE pipe
    /\ outgoing' = "none"
    /\ mpc' = IF outgoing = "disconnect" THEN "test" ELSE "runloop"
    /\ UNCHANGED <<held, dirty, view, view_session, dialog, requested, ends, connVars,
                   connection_state, unwanted, bitmap_context, contexts, answer,
                   posted, received>>

\* The write of ios_events_send, which blocks the main thread while the pipe is full.
WriteEvent ==
    /\ mpc = "write" /\ Len(pipe) < PipeCapacity
    /\ pipe' = Append(pipe, outgoing)
    /\ outgoing' = "none"
    /\ mpc' = IF outgoing = "disconnect" THEN "test" ELSE "runloop"
    /\ UNCHANGED <<held, dirty, view, view_session, dialog, requested, ends, connVars,
                   connection_state, unwanted, bitmap_context, contexts, answer,
                   posted, received>>

\* The rest of disconnect: it reads connection_state ...
TestConnecting ==
    /\ mpc = "test"
    /\ mpc' = IF connection_state = "Connecting" THEN "cancel" ELSE "runloop"
    /\ UNCHANGED <<outgoing, held, dirty, view, view_session, dialog, requested, ends,
                   connVars, sharedVars>>

\* Mutant of CancelConnecting: reports the end but does not set unwanted.
CancelWithoutUnwanted ==
    /\ mpc = "cancel"
    /\ ends' = Append(ends, "didDisconnect")
    /\ view' = "dismissed"
    /\ mpc' = "runloop"
    /\ UNCHANGED <<outgoing, held, dirty, view_session, dialog, requested, connVars,
                   connection_state, unwanted, pipe, bitmap_context, contexts, answer,
                   posted, received>>

\* ... and when that said Connecting gives the connection up, reports the end to
\* the delegate without waiting for the connection thread, which dismisses the view.
CancelConnecting ==
    /\ mpc = "cancel"
    /\ unwanted' = TRUE
    /\ ends' = Append(ends, "didDisconnect")
    /\ view' = "dismissed"
    /\ mpc' = "runloop"
    /\ UNCHANGED <<outgoing, held, dirty, view_session, dialog, requested, connVars,
                   connection_state, pipe, bitmap_context, contexts, answer, posted,
                   received>>

\* The dismissed controller is released; its dealloc sets the delegate to nil.
Dealloc ==
    /\ mpc = "runloop" /\ view = "dismissed"
    /\ view' = "freed"
    /\ UNCHANGED <<mpc, outgoing, held, dirty, view_session, dialog, requested, ends,
                   connVars, sharedVars>>

\* accept/decline in VerifyCertificateController, login/cancel in
\* CredentialsInputController: store the result and start the dismissal.
Answer(b) ==
    /\ mpc = "runloop" /\ dialog = "shown"
    /\ answer' = IF b THEN "yes" ELSE "no"
    /\ dialog' = "closing"
    /\ UNCHANGED <<mpc, outgoing, held, dirty, view, view_session, requested, ends,
                   connVars, connection_state, unwanted, pipe, bitmap_context,
                   contexts, posted, received>>

\* viewDidDisappear of the dialog signals uiRequestCompleted. A signal wakes a
\* thread that is waiting; when none is, it is lost.
DialogDidDisappear ==
    /\ mpc = "runloop" /\ dialog = "closing"
    /\ dialog' = "none"
    /\ pc' = IF pc = "wait" THEN "woken" ELSE pc
    /\ UNCHANGED <<mpc, outgoing, held, dirty, view, view_session, requested, ends,
                   resizes, asks, fdset, result_code, sharedVars>>

\* drawRect: reads bitmapContext and, when it is not NULL, copies the image.
BeginDraw ==
    /\ mpc = "runloop" /\ Visible /\ dirty
    /\ dirty' = FALSE
    /\ IF view_session /\ bitmap_context # 0
         THEN mpc' = "draw" /\ held' = bitmap_context
         ELSE UNCHANGED <<mpc, held>>
    /\ UNCHANGED <<outgoing, view, view_session, dialog, requested, ends, connVars,
                   sharedVars>>

EndDraw ==
    /\ mpc = "draw"
    /\ mpc' = "runloop" /\ held' = 0
    /\ UNCHANGED <<outgoing, dirty, view, view_session, dialog, requested, ends,
                   connVars, sharedVars>>

-----------------------------------------------------------------------------
(* Main thread: the selectors the connection thread posts *)

Perform(selector) == mpc = "runloop" /\ posted = selector /\ posted' = "none"
SameShared == UNCHANGED <<connection_state, unwanted, pipe, bitmap_context, contexts,
                          answer, received>>

\* sessionWillConnect: shows the connecting view with its cancel button.
SessionWillConnect ==
    /\ Perform("willConnect")
    /\ view' = IF view = "presented" THEN "connecting" ELSE view
    /\ SameShared
    /\ UNCHANGED <<mpc, outgoing, held, dirty, view_session, dialog, requested, ends,
                   connVars>>

\* requestsAuthenticationWithParams / verifyCertificateWithParams: the dialog is
\* presented by the view controller; without one on screen nothing is shown.
SessionAsksUser ==
    /\ Perform("ask")
    /\ dialog' = IF Visible THEN "shown" ELSE dialog
    /\ SameShared
    /\ UNCHANGED <<mpc, outgoing, held, dirty, view, view_session, requested, ends,
                   connVars>>

\* sessionBitmapContextWillChange only recomputes the layout of the view.
SessionBitmapContextWillChange ==
    /\ Perform("contextWillChange")
    /\ SameShared
    /\ UNCHANGED <<mainVars, connVars>>

\* sessionBitmapContextDidChange gives the view its session and asks for a redraw.
SessionBitmapContextDidChange ==
    /\ Perform("contextDidChange")
    /\ IF view # "freed" THEN view_session' = TRUE /\ dirty' = TRUE
                         ELSE UNCHANGED <<view_session, dirty>>
    /\ SameShared
    /\ UNCHANGED <<mpc, outgoing, held, view, dialog, requested, ends, connVars>>

\* sessionDidConnect replaces the connecting view by the session's.
SessionDidConnect ==
    /\ Perform("didConnect")
    /\ view' = IF view = "connecting" THEN "connected" ELSE view
    /\ SameShared
    /\ UNCHANGED <<mpc, outgoing, held, dirty, view_session, dialog, requested, ends,
                   connVars>>

\* runSessionFinished: reports the end according to the result and the delegate,
\* if it still exists, dismisses the view.
RunSessionFinished ==
    /\ Perform("finished")
    /\ ends' = Append(ends, IF result_code = "CONN_FAILED" THEN "didFailToConnect"
                                                           ELSE "didDisconnect")
    /\ view' = IF view = "freed" THEN view ELSE "dismissed"
    /\ SameShared
    /\ UNCHANGED <<mpc, outgoing, held, dirty, view_session, dialog, requested,
                   connVars>>

-----------------------------------------------------------------------------
(* Connection thread: runSession, ios_run_freerdp and its callbacks *)

\* The thread continues at "from" once the selector it waits for was performed.
At(from) == pc = from /\ posted = "none"
Goto(to) == pc' = to
Post(selector) == posted' = selector
SameConn == UNCHANGED <<resizes, asks, fdset, result_code>>

\* runSession posts sessionWillConnect and waits for it.
RunSession ==
    /\ At("start") /\ Post("willConnect") /\ Goto("enter")
    /\ SameConn
    /\ UNCHANGED <<mainVars, connection_state, unwanted, pipe, bitmap_context, contexts,
                   answer, received>>

\* ios_run_freerdp enters Connecting and calls freerdp_connect.
EnterConnecting ==
    /\ At("enter") /\ Goto("connect")
    /\ connection_state' = "Connecting"
    /\ SameConn
    /\ UNCHANGED <<mainVars, unwanted, pipe, bitmap_context, contexts, answer, posted,
                   received>>

\* ios_ui_check_certificate (unless all certificates are accepted) and
\* ios_ui_authenticate post the request for a dialog and wait until it is shown.
AskUser(kind) ==
    /\ At("connect") /\ Goto("lock") /\ Post("ask")
    /\ kind \in ServerAsks /\ ~(kind = "certificate" /\ AcceptCertificates)
    /\ asks < MaxAsks /\ asks' = asks + 1
    /\ answer' = "unset"
    /\ UNCHANGED <<resizes, fdset, result_code, mainVars, connection_state, unwanted,
                   pipe, bitmap_context, contexts, received>>

\* Then they lock the condition and wait, whatever happened in between.
WaitForUI ==
    /\ At("lock") /\ Goto("wait")
    /\ SameConn
    /\ UNCHANGED <<mainVars, sharedVars>>

\* Mutant of UIRequestCompleted: a refusal does not mark the session unwanted.
RefusalNotRecorded ==
    /\ At("woken")
    /\ IF answer = "yes" THEN Goto("connect") ELSE Goto("failed")
    /\ SameConn
    /\ UNCHANGED <<mainVars, sharedVars>>

\* After the wake-up the result decides; a refusal makes freerdp_connect fail.
UIRequestCompleted ==
    /\ At("woken")
    /\ IF answer = "yes" THEN Goto("connect") /\ UNCHANGED unwanted
                         ELSE Goto("failed") /\ unwanted' = TRUE
    /\ SameConn
    /\ UNCHANGED <<mainVars, connection_state, pipe, bitmap_context, contexts, answer,
                   posted, received>>

\* freerdp_connect fails for a reason of its own (network, protocol, pre_connect).
ConnectFails ==
    /\ At("connect") /\ Goto("failed")
    /\ SameConn
    /\ UNCHANGED <<mainVars, sharedVars>>

\* ios_run_freerdp returns CANCELED or FAILED when freerdp_connect failed.
ReturnFailure ==
    /\ At("failed") /\ Goto("finish")
    /\ result_code' = IF unwanted THEN "CONN_CANCELED" ELSE "CONN_FAILED"
    /\ UNCHANGED <<resizes, asks, fdset, mainVars, sharedVars>>

\* ios_post_connect allocates the display buffer: ios_create_bitmap_context posts
\* sessionBitmapContextWillChange ...
PostConnect ==
    /\ At("connect") /\ Post("contextWillChange") /\ Goto("create")
    /\ SameConn
    /\ UNCHANGED <<mainVars, connection_state, unwanted, pipe, bitmap_context, contexts,
                   answer, received>>

\* ... creates the context and posts sessionBitmapContextDidChange.
CreateBitmapContext(from, to) ==
    /\ At(from) /\ Post("contextDidChange") /\ Goto(to)
    /\ bitmap_context' = resizes + 1
    /\ contexts' = contexts \union {resizes + 1}
    /\ SameConn
    /\ UNCHANGED <<mainVars, connection_state, unwanted, pipe, answer, received>>

\* The end of ios_post_connect posts sessionDidConnect.
PostDidConnect ==
    /\ At("created") /\ Post("didConnect") /\ Goto("check")
    /\ SameConn
    /\ UNCHANGED <<mainVars, connection_state, unwanted, pipe, bitmap_context, contexts,
                   answer, received>>

\* After freerdp_connect succeeded: "if (mfi->unwanted) return CANCELED".
CheckUnwanted ==
    /\ At("check")
    /\ IF unwanted THEN Goto("finish") /\ result_code' = "CONN_CANCELED"
                   ELSE Goto("commit") /\ UNCHANGED result_code
    /\ UNCHANGED <<resizes, asks, fdset, mainVars, sharedVars>>

EnterConnected ==
    /\ At("commit") /\ Goto("loop")
    /\ connection_state' = "Connected"
    /\ SameConn
    /\ UNCHANGED <<mainVars, unwanted, pipe, bitmap_context, contexts, answer, posted,
                   received>>

\* select: which descriptors are readable is decided here, once per iteration.
Select ==
    /\ At("loop") /\ Goto("fds")
    /\ fdset' = (pipe # <<>>)
    /\ UNCHANGED <<resizes, asks, result_code, mainVars, sharedVars>>

\* freerdp_check_fds handles what the server sent; an update may end with
\* ios_ui_end_paint, which asks for a redraw without waiting.
CheckFds(painted) ==
    /\ At("fds") /\ Goto("events")
    /\ dirty' = (dirty \/ (painted /\ view # "freed"))
    /\ SameConn
    /\ UNCHANGED <<mpc, outgoing, held, view, view_session, dialog, requested, ends,
                   sharedVars>>

\* ios_ui_resize_window, called by freerdp_check_fds: ios_resize_display_buffer
\* first clears the pointer ...
ResizeWindow ==
    /\ At("fds") /\ Goto("release")
    /\ resizes < MaxResizes /\ resizes' = resizes + 1
    /\ bitmap_context' = 0
    /\ UNCHANGED <<asks, fdset, result_code, mainVars, connection_state, unwanted, pipe,
                   contexts, answer, posted, received>>

\* Mutant of ReleaseOldContext: the old context is forgotten, not released.
OldContextLeaks ==
    /\ At("release") /\ Post("contextWillChange") /\ Goto("recreate")
    /\ SameConn
    /\ UNCHANGED <<mainVars, connection_state, unwanted, pipe, bitmap_context, contexts,
                   answer, received>>

\* ... then releases the old context and starts to create the new one.
ReleaseOldContext ==
    /\ At("release") /\ Post("contextWillChange") /\ Goto("recreate")
    /\ contexts' = contexts \ {resizes}
    /\ SameConn
    /\ UNCHANGED <<mainVars, connection_state, unwanted, pipe, bitmap_context, answer,
                   received>>

ResizeDone ==
    /\ At("recreated") /\ Goto("events")
    /\ SameConn
    /\ UNCHANGED <<mainVars, sharedVars>>

\* The loop is left: freerdp_shall_disconnect, or a get_fds, select or check_fds failure.
LoopFails ==
    /\ At("fds") /\ Goto("cleanup")
    /\ SameConn
    /\ UNCHANGED <<mainVars, sharedVars>>

\* Mutant of EventsCheckFds: the return value of ios_events_handle_event is ignored.
DisconnectEventIgnored ==
    /\ At("events") /\ Goto("loop")
    /\ IF fdset
         THEN /\ pipe' = Tail(pipe)
              /\ received' = Append(received, Head(pipe))
         ELSE UNCHANGED <<pipe, received>>
    /\ SameConn
    /\ UNCHANGED <<mainVars, connection_state, unwanted, bitmap_context, contexts, answer,
                   posted>>

\* ios_events_check_fds reads one event if select saw the pipe readable; a
\* disconnect event ends the loop, others go to the server.
EventsCheckFds ==
    /\ At("events")
    /\ IF fdset
         THEN /\ pipe' = Tail(pipe)
              /\ received' = Append(received, Head(pipe))
              /\ Goto(IF Head(pipe) = "disconnect" THEN "cleanup" ELSE "loop")
         ELSE Goto("loop") /\ UNCHANGED <<pipe, received>>
    /\ SameConn
    /\ UNCHANGED <<mainVars, connection_state, unwanted, bitmap_context, contexts, answer,
                   posted>>

\* After the loop the context is released, while the pointer still refers to it ...
ReleaseContext ==
    /\ At("cleanup") /\ Goto("clear")
    /\ contexts' = contexts \ {bitmap_context}
    /\ SameConn
    /\ UNCHANGED <<mainVars, connection_state, unwanted, pipe, bitmap_context, answer,
                   posted, received>>

\* ... then the pointer is cleared, the state becomes Disconnected and
\* ios_run_freerdp cleans up and returns SUCCESS.
LeaveConnected ==
    /\ At("clear") /\ Goto("finish")
    /\ bitmap_context' = 0
    /\ connection_state' = "Disconnected"
    /\ result_code' = "SUCCESS"
    /\ UNCHANGED <<resizes, asks, fdset, mainVars, unwanted, pipe, contexts, answer,
                   posted, received>>

\* Mutant of FinishSession: the exit code is stored as the connection state.
StateFromResult ==
    /\ At("finish") /\ Post("finished") /\ Goto("last")
    /\ connection_state' = result_code
    /\ SameConn
    /\ UNCHANGED <<mainVars, unwanted, pipe, bitmap_context, contexts, answer, received>>

\* The end of runSession.
FinishSession ==
    /\ At("finish") /\ Post("finished") /\ Goto("last")
    /\ connection_state' = "Disconnected"
    /\ SameConn
    /\ UNCHANGED <<mainVars, unwanted, pipe, bitmap_context, contexts, answer, received>>

ThreadExits ==
    /\ At("last") /\ Goto("done")
    /\ SameConn
    /\ UNCHANGED <<mainVars, sharedVars>>

-----------------------------------------------------------------------------
\* Nothing is left to do once the connection thread is gone.
SessionOver == pc = "done" /\ mpc = "runloop" /\ UNCHANGED vars

\* What nobody schedules: the user, and when UIKit releases the controller.
Environment ==
    \/ Connect \/ Disconnect \/ (\E e \in Inputs : SendInputEvent(e))
    \/ (\E b \in BOOLEAN : Answer(b)) \/ Dealloc

MainThread ==
    \/ WriteEvent \/ TestConnecting \/ CancelConnecting
    \/ DialogDidDisappear \/ BeginDraw \/ EndDraw
    \/ SessionWillConnect \/ SessionAsksUser \/ SessionBitmapContextWillChange
    \/ SessionBitmapContextDidChange \/ SessionDidConnect \/ RunSessionFinished

ConnectionThread ==
    \/ RunSession \/ EnterConnecting \/ WaitForUI \/ UIRequestCompleted
    \/ (\E kind \in ServerAsks : AskUser(kind))
    \/ ConnectFails \/ ReturnFailure \/ PostConnect
    \/ CreateBitmapContext("create", "created") \/ PostDidConnect
    \/ CheckUnwanted \/ EnterConnected
    \/ Select \/ (\E painted \in BOOLEAN : CheckFds(painted))
    \/ ResizeWindow \/ ReleaseOldContext \/ CreateBitmapContext("recreate", "recreated")
    \/ ResizeDone \/ LoopFails \/ EventsCheckFds
    \/ ReleaseContext \/ LeaveConnected \/ FinishSession \/ ThreadExits

Next == Environment \/ MainThread \/ ConnectionThread \/ SessionOver

Spec == Init /\ [][Next]_vars

\* Where the thread may wait for the server: freerdp_connect loops until the connection is
\* ACTIVE, and freerdp_check_fds does when the server has deactivated it. Neither loop
\* tests anything a disconnect sets.
ServerCalls == {"connect", "fds"}

\* The operating system runs both threads, so neither stays forever at a step it can
\* take by itself. The server and the user owe nothing: that freerdp_connect or
\* freerdp_check_fds returns, or that a button is pressed, is never assumed.
FairSpec == Spec /\ WF_vars(MainThread) /\ WF_vars(pc \notin ServerCalls /\ ConnectionThread)

-----------------------------------------------------------------------------
(* Properties *)

\* The types of mfInfo's fields and of the model's control variables.
TypeOK ==
    /\ connection_state \in States
    /\ unwanted \in BOOLEAN
    /\ pipe \in Seq(Events)
    /\ bitmap_context \in 0..(MaxResizes + 1)
    /\ contexts \subseteq 1..(MaxResizes + 1)
    /\ resizes \in 0..MaxResizes
    /\ asks \in 0..MaxAsks
    /\ answer \in {"unset", "yes", "no"}
    /\ fdset \in BOOLEAN
    /\ result_code \in Results
    /\ pc \in ConnPcs
    /\ posted \in Selectors \union {"none"}
    /\ mpc \in {"runloop", "write", "test", "cancel", "draw"}
    /\ outgoing \in Events \union {"none"}
    /\ held \in 0..(MaxResizes + 1)
    /\ dirty \in BOOLEAN
    /\ view \in {"presented", "connecting", "connected", "dismissed", "freed"}
    /\ view_session \in BOOLEAN
    /\ dialog \in {"none", "shown", "closing"}
    /\ requested \in Seq(Events)
    /\ received \in Seq(Events)
    /\ ends \in Seq(Ends)

Has(s, e) == \E i \in 1..Len(s) : s[i] = e

\* The event pipe between ios_events_send and ios_events_check_fds neither loses,
\* duplicates nor reorders an event: what was read, what is in the pipe and what
\* is being written are together exactly what the user caused.
InputsInOrder ==
    requested = IF mpc = "write" THEN Append(received \o pipe, outgoing)
                                 ELSE received \o pipe

\* Once the loop has read the disconnect event it is the last event it reads: no
\* input the user caused after asking to disconnect reaches the server.
NothingAfterDisconnect ==
    \A i \in 1..Len(received) :
        received[i] = "disconnect" => i = Len(received) /\ pc \notin LoopPcs

\* A cancellation that comes too late for the test of unwanted in ios_run_freerdp
\* is not lost: the loop still has a disconnect event to read.
CancelReachesLoop == unwanted /\ pc \in LoopPcs => Has(pipe, "disconnect")

\* A dialog the user refused ends the attempt: the session never becomes Connected
\* and is reported as canceled, not as failed.
RefusalIsFinal ==
    answer = "no" => /\ connection_state \in {"Connecting", "Disconnected"}
                     /\ result_code \in {"none", "CONN_CANCELED"}

\* The delegate hears of the end of a session at least once and at most twice, and
\* twice only when the user gave up while the session was connecting; the first
\* report is then the one made by disconnect.
EndReported ==
    /\ Len(ends) <= 2
    /\ Len(ends) = 2 => ends[1] = "didDisconnect" /\ unwanted /\ Has(requested, "disconnect")
    /\ pc = "done" => Len(ends) >= 1

\* A session that ended other than by cancellation has released its drawing context
\* and left no pointer to it; before, at most one context exists at a time.
ContextReleased ==
    /\ \A c, d \in contexts : c = d
    /\ pc \in {"finish", "last", "done"} /\ result_code # "CONN_CANCELED"
          => contexts = {} /\ bitmap_context = 0

\* runSessionFinished has run once the thread no longer waits for it at "last".
FinalReport == pc = "done" \/ (pc = "last" /\ posted = "none")
EarlyReport == Len(ends) = (IF FinalReport THEN 2 ELSE 1)

\* The session keeps the contract stated in SessionContract: the connection thread,
\* the pipe and the posted selectors implement one connection, an ordered event
\* stream that stops at the disconnect event, and at most two reports of the end.
Contract == INSTANCE SessionContract WITH
    phase <- connection_state,
    sent <- requested,
    served <- received,
    early <- EarlyReport,
    final <- FinalReport

KeepsContract == Contract!Spec

\* Once disconnect has sent its event the connection thread finishes and reports the
\* end, unless it stays for good inside a call of freerdp_connect or freerdp_check_fds
\* whose server has gone silent: setting unwanted and writing to the pipe reach neither.
DisconnectEnds ==
    Has(requested, "disconnect") ~> (pc = "done" \/ [](pc \in ServerCalls))

\* ios_ui_authenticate and ios_ui_check_certificate: "wait for UI request to be
\* completed". Once the dialog was answered and is gone the thread does not stay
\* in that wait.
UIWaitEnds == (pc \in {"lock", "wait"} /\ answer # "unset" /\ dialog = "none")
                  ~> pc \notin {"lock", "wait"}
=============================================================================
