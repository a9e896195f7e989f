-------------------------- MODULE RdpSessionProofs --------------------------
(***************************************************************************)
(* Proofs about RdpSession for every set of inputs, every pipe capacity    *)
(* and every bound on events, UI requests and resizes.                     *)
(***************************************************************************)
EXTENDS RdpSession, TLAPS

\* The pipe as a FIFO: appending at the back of the second sequence of a
\* concatenation appends to the whole.
LEMMA ConcatAppend ==
    ASSUME NEW S, NEW s \in Seq(S), NEW t \in Seq(S), NEW e \in S
    PROVE  s \o Append(t, e) = Append(s \o t, e)
  OBVIOUS

\* Moving the head of the pipe to the end of what was read changes nothing overall.
LEMMA ConcatShift ==
    ASSUME NEW S, NEW s \in Seq(S), NEW t \in Seq(S), t # <<>>
    PROVE  Append(s, Head(t)) \o Tail(t) = s \o t
  OBVIOUS

\* From the select that saw the pipe readable to the read of the event.
FdPcs == {"fds", "release", "recreate", "recreated", "events"}

\* The connection thread is the only reader, so the descriptor it saw readable
\* still is when it reads.
ReadableWhenRead == pc \in FdPcs /\ fdset => pipe # <<>>

\* TypeOK alone is not inductive: EventsCheckFds reads the head of the pipe, and
\* WriteEvent writes the event the main thread has at hand.
TypeInv ==
    /\ TypeOK
    /\ ReadableWhenRead
    /\ mpc = "write" => outgoing \in Events

\* A session that has not been connected satisfies the type invariant.
LEMMA TypeInit == Init => TypeInv
  <1> SUFFICES ASSUME Init PROVE TypeInv
    OBVIOUS
  <1> USE DEF Init
  <1>1. /\ pipe \in Seq(Events) /\ requested \in Seq(Events) /\ received \in Seq(Events)
        /\ ends \in Seq(Ends)
    OBVIOUS
  <1>2. /\ bitmap_context \in 0..(MaxResizes + 1) /\ contexts \subseteq 1..(MaxResizes + 1)
        /\ resizes \in 0..MaxResizes /\ asks \in 0..MaxAsks /\ held \in 0..(MaxResizes + 1)
    BY SessionAssumption DEF SessionAssumption
  <1>3. /\ connection_state \in States /\ result_code \in Results /\ pc \in ConnPcs
        /\ posted \in Selectors \union {"none"} /\ outgoing \in Events \union {"none"}
    BY DEF States, Results, ConnPcs, Selectors
  <1>4. ReadableWhenRead
    BY DEF ReadableWhenRead, FdPcs
  <1> QED
    BY <1>1, <1>2, <1>3, <1>4 DEF TypeInv, TypeOK

\* Every step of either thread keeps the type invariant.
LEMMA TypeStep == TypeInv /\ [Next]_vars => TypeInv'
  <1> SUFFICES ASSUME TypeInv, [Next]_vars PROVE TypeInv'
    OBVIOUS
  <1> USE SessionAssumption DEF SessionAssumption, TypeInv, TypeOK, ReadableWhenRead,
        States, Events, Results, ConnPcs, LoopPcs, FdPcs, Selectors, Ends, vars, connVars,
        mainVars, sharedVars, At, Goto, Post, Perform, SameConn, SameShared, Visible
  <1>1. CASE Connect
    BY <1>1 DEF Connect
  <1>2. CASE Disconnect
    BY <1>2 DEF Disconnect
  <1>3. CASE WriteEvent
    <2>1. outgoing \in Events /\ pipe' = Append(pipe, outgoing)
      BY <1>3 DEF WriteEvent
    <2>2. pipe' \in Seq(Events) /\ pipe' # <<>>
      BY <2>1
    <2>3. mpc' \in {"test", "runloop"}
      BY <1>3, Zenon DEF WriteEvent
    <2> QED
      BY <1>3, <2>2, <2>3 DEF WriteEvent
  <1>4. CASE TestConnecting
    BY <1>4 DEF TestConnecting
  <1>5. CASE CancelConnecting
    BY <1>5 DEF CancelConnecting
  <1>6. CASE Dealloc
    BY <1>6 DEF Dealloc
  <1>7. CASE DialogDidDisappear
    BY <1>7 DEF DialogDidDisappear
  <1>8. CASE EndDraw
    BY <1>8 DEF EndDraw
  <1>9. CASE SessionWillConnect
    BY <1>9 DEF SessionWillConnect
  <1>10. CASE SessionAsksUser
    BY <1>10 DEF SessionAsksUser
  <1>11. CASE SessionBitmapContextWillChange
    BY <1>11 DEF SessionBitmapContextWillChange
  <1>12. CASE SessionBitmapContextDidChange
    <2>1. view_session' \in BOOLEAN /\ dirty' \in BOOLEAN
      BY <1>12, Zenon DEF SessionBitmapContextDidChange
    <2> QED
      BY <1>12, <2>1 DEF SessionBitmapContextDidChange
  <1>13. CASE SessionDidConnect
    BY <1>13 DEF SessionDidConnect
  <1>14. CASE RunSessionFinished
    BY <1>14 DEF RunSessionFinished
  <1>15. CASE RunSession
    BY <1>15 DEF RunSession
  <1>16. CASE EnterConnecting
    BY <1>16 DEF EnterConnecting
  <1>17. CASE WaitForUI
    BY <1>17 DEF WaitForUI
  <1>18. CASE UIRequestCompleted
    <2>1. unwanted' \in BOOLEAN /\ pc' \in {"connect", "failed"}
      BY <1>18, Zenon DEF UIRequestCompleted
    <2> QED
      BY <1>18, <2>1 DEF UIRequestCompleted
  <1>19. CASE ConnectFails
    BY <1>19 DEF ConnectFails
  <1>20. CASE ReturnFailure
    BY <1>20 DEF ReturnFailure
  <1>21. CASE PostConnect
    BY <1>21 DEF PostConnect
  <1>22. CASE PostDidConnect
    BY <1>22 DEF PostDidConnect
  <1>23. CASE CheckUnwanted
    BY <1>23 DEF CheckUnwanted
  <1>24. CASE EnterConnected
    BY <1>24 DEF EnterConnected
  <1>25. CASE Select
    <2>1. fdset' \in BOOLEAN /\ (fdset' => pipe' # <<>>)
      BY <1>25, Zenon DEF Select
    <2> QED
      BY <1>25, <2>1 DEF Select
  <1>26. CASE ResizeWindow
    BY <1>26 DEF ResizeWindow
  <1>27. CASE ReleaseOldContext
    BY <1>27 DEF ReleaseOldContext
  <1>28. CASE ResizeDone
    BY <1>28 DEF ResizeDone
  <1>29. CASE LoopFails
    BY <1>29 DEF LoopFails
  <1>30. CASE ReleaseContext
    BY <1>30 DEF ReleaseContext
  <1>31. CASE LeaveConnected
    BY <1>31 DEF LeaveConnected
  <1>32. CASE FinishSession
    BY <1>32 DEF FinishSession
  <1>33. CASE ThreadExits
    BY <1>33 DEF ThreadExits
  <1>34. ASSUME NEW e \in Inputs, SendInputEvent(e) PROVE TypeInv'
    BY <1>34 DEF SendInputEvent
  <1>35. ASSUME NEW b \in BOOLEAN, Answer(b) PROVE TypeInv'
    BY <1>35 DEF Answer
  <1>36. ASSUME NEW kind \in ServerAsks, AskUser(kind) PROVE TypeInv'
    BY <1>36 DEF AskUser
  <1>37. CASE CreateBitmapContext("create", "created")
    BY <1>37 DEF CreateBitmapContext
  <1>38. CASE CreateBitmapContext("recreate", "recreated")
    BY <1>38 DEF CreateBitmapContext
  <1>39. ASSUME NEW painted \in BOOLEAN, CheckFds(painted) PROVE TypeInv'
    <2>1. dirty' \in BOOLEAN
      BY <1>39, Zenon DEF CheckFds
    <2> QED
      BY <1>39, <2>1 DEF CheckFds
  <1>40. CASE BeginDraw
    <2>1. dirty' \in BOOLEAN
      BY <1>40, Zenon DEF BeginDraw
    <2>2. /\ mpc' \in {"runloop", "draw"} /\ held' \in 0..(MaxResizes + 1)
          /\ UNCHANGED <<outgoing, view, view_session, dialog, requested, ends, connVars, sharedVars>>
      BY <1>40 DEF BeginDraw
    <2> QED
      BY <2>1, <2>2
  <1>41. CASE EventsCheckFds
    <2>1. CASE fdset
      <3>1. pipe # <<>> /\ pc = "events"
        BY <1>41, <2>1 DEF EventsCheckFds
      <3>2. Head(pipe) \in Events /\ Tail(pipe) \in Seq(Events)
        BY <3>1
      <3>3. pipe' = Tail(pipe) /\ received' = Append(received, Head(pipe))
        BY <1>41, <2>1 DEF EventsCheckFds
      <3>4. pipe' \in Seq(Events) /\ received' \in Seq(Events)
        BY <3>2, <3>3
      <3>5. pc' \in {"cleanup", "loop"}
        BY <1>41, <2>1, Zenon DEF EventsCheckFds
      <3> QED
        BY <1>41, <3>4, <3>5 DEF EventsCheckFds
    <2>2. CASE ~fdset
      BY <1>41, <2>2 DEF EventsCheckFds
    <2> QED
      BY <2>1, <2>2
  <1>42. CASE SessionOver
    BY <1>42 DEF SessionOver
  <1>43. CASE UNCHANGED vars
    BY <1>43
  <1> QED
    BY <1>1, <1>2, <1>3, <1>4, <1>5, <1>6, <1>7, <1>8, <1>9, <1>10, <1>11, <1>12,
       <1>13, <1>14, <1>15, <1>16, <1>17, <1>18, <1>19, <1>20, <1>21, <1>22, <1>23,
       <1>24, <1>25, <1>26, <1>27, <1>28, <1>29, <1>30, <1>31, <1>32, <1>33, <1>34,
       <1>35, <1>36, <1>37, <1>38, <1>39, <1>40, <1>41, <1>42, <1>43
       DEF Next, Environment, MainThread, ConnectionThread

\* TypeOK is an invariant of every session, for all bounds.
THEOREM TypeCorrect == Spec => []TypeOK
  <1>1. TypeInv => TypeOK
    BY DEF TypeInv
  <1> QED
    BY <1>1, TypeInit, TypeStep, PTL DEF Spec

-----------------------------------------------------------------------------
(* The event stream and the disconnect event *)

AfterLoop == {"cleanup", "clear", "finish", "last", "done"}
GivenUp == {"failed", "finish", "last", "done"}
DisconnectSent == Has(received, "disconnect") \/ Has(pipe, "disconnect")

\* The strengthening that makes the three stream properties inductive: disconnect
\* writes its event before it looks at connection_state and before it sets unwanted,
\* and the thread is out of its loop once it has read that event.
EventStream ==
    /\ InputsInOrder
    /\ Has(received, "disconnect") => pc \in AfterLoop
    /\ \A i \in 1..Len(received) : received[i] = "disconnect" => i = Len(received)
    /\ mpc \in {"test", "cancel"} => DisconnectSent
    /\ unwanted => DisconnectSent \/ pc \in GivenUp

\* What the steps do that neither touch the stream nor give the session up.
Quiet ==
    /\ UNCHANGED <<pipe, received, requested, unwanted>>
    /\ \/ UNCHANGED <<mpc, outgoing>>
       \/ mpc \notin {"write", "test", "cancel"} /\ mpc' \notin {"write", "test", "cancel"}
    /\ pc \in AfterLoop => pc' \in AfterLoop
    /\ pc \in GivenUp => pc' \in GivenUp

\* A step that leaves the events alone keeps the invariant about them.
LEMMA QuietKeepsStream == EventStream /\ Quiet => EventStream'
  <1> SUFFICES ASSUME EventStream, Quiet PROVE EventStream'
    OBVIOUS
  <1>1. InputsInOrder'
    BY DEF EventStream, Quiet, InputsInOrder
  <1>2. UNCHANGED <<DisconnectSent, Has(received, "disconnect")>>
    BY DEF Quiet, DisconnectSent, Has
  <1> QED
    BY <1>1, <1>2 DEF EventStream, Quiet

\* Every step but the seven that EventStreamStep treats one by one is quiet.
LEMMA QuietStep ==
    ASSUME TypeInv, [Next]_vars
    PROVE  \/ Quiet
           \/ (\E e \in Inputs : SendInputEvent(e)) \/ Disconnect \/ WriteEvent
           \/ TestConnecting \/ CancelConnecting \/ UIRequestCompleted \/ EventsCheckFds
  <1> USE DEF Quiet, AfterLoop, GivenUp, vars, connVars, mainVars, sharedVars, At, Goto,
        Post, Perform, SameConn, SameShared
  <1>1. Connect => Quiet
    BY DEF Connect
  <1>2. Dealloc => Quiet
    BY DEF Dealloc
  <1>3. DialogDidDisappear => Quiet
    BY DEF DialogDidDisappear
  <1>4. BeginDraw => Quiet
    BY DEF BeginDraw
  <1>5. EndDraw => Quiet
    BY DEF EndDraw
  <1>6. SessionWillConnect => Quiet
    BY DEF SessionWillConnect
  <1>7. SessionAsksUser => Quiet
    BY DEF SessionAsksUser
  <1>8. SessionBitmapContextWillChange => Quiet
    BY DEF SessionBitmapContextWillChange
  <1>9. SessionBitmapContextDidChange => Quiet
    BY DEF SessionBitmapContextDidChange
  <1>10. SessionDidConnect => Quiet
    BY DEF SessionDidConnect
  <1>11. RunSessionFinished => Quiet
    BY DEF RunSessionFinished
  <1>12. RunSession => Quiet
    BY DEF RunSession
  <1>13. EnterConnecting => Quiet
    BY DEF EnterConnecting
  <1>14. WaitForUI => Quiet
    BY DEF WaitForUI
  <1>15. ConnectFails => Quiet
    BY DEF ConnectFails
  <1>16. ReturnFailure => Quiet
    BY DEF ReturnFailure
  <1>17. PostConnect => Quiet
    BY DEF PostConnect
  <1>18. PostDidConnect => Quiet
    BY DEF PostDidConnect
  <1>19. CheckUnwanted => Quiet
    BY DEF CheckUnwanted
  <1>20. EnterConnected => Quiet
    BY DEF EnterConnected
  <1>21. Select => Quiet
    BY DEF Select
  <1>22. ResizeWindow => Quiet
    BY DEF ResizeWindow
  <1>23. ReleaseOldContext => Quiet
    BY DEF ReleaseOldContext
  <1>24. ResizeDone => Quiet
    BY DEF ResizeDone
  <1>25. LoopFails => Quiet
    BY DEF LoopFails
  <1>26. ReleaseContext => Quiet
    BY DEF ReleaseContext
  <1>27. LeaveConnected => Quiet
    BY DEF LeaveConnected
  <1>28. FinishSession => Quiet
    BY DEF FinishSession
  <1>29. ThreadExits => Quiet
    BY DEF ThreadExits
  <1>30. (\E b \in BOOLEAN : Answer(b)) => Quiet
    BY DEF Answer
  <1>31. (\E kind \in ServerAsks : AskUser(kind)) => Quiet
    BY DEF AskUser
  <1>32. CreateBitmapContext("create", "created") => Quiet
    BY DEF CreateBitmapContext
  <1>33. CreateBitmapContext("recreate", "recreated") => Quiet
    BY DEF CreateBitmapContext
  <1>34. (\E painted \in BOOLEAN : CheckFds(painted)) => Quiet
    BY DEF CheckFds
  <1>35. SessionOver \/ UNCHANGED vars => Quiet
    BY DEF SessionOver
  <1> QED
    BY <1>1, <1>2, <1>3, <1>4, <1>5, <1>6, <1>7, <1>8, <1>9, <1>10, <1>11, <1>12,
       <1>13, <1>14, <1>15, <1>16, <1>17, <1>18, <1>19, <1>20, <1>21, <1>22, <1>23,
       <1>24, <1>25, <1>26, <1>27, <1>28, <1>29, <1>30, <1>31, <1>32, <1>33, <1>34,
       <1>35
       DEF Next, Environment, MainThread, ConnectionThread

\* Before the first event there is nothing to keep in order.
LEMMA EventStreamInit == Init => EventStream
  BY DEF Init, EventStream, InputsInOrder, Has

\* Sending, writing, reading and cancelling keep the invariant about the events.
LEMMA EventStreamStep == TypeInv /\ EventStream /\ [Next]_vars => EventStream'
  <1> SUFFICES ASSUME TypeInv, EventStream, [Next]_vars PROVE EventStream'
    OBVIOUS
  <1>0. /\ received \in Seq(Events) /\ pipe \in Seq(Events) /\ requested \in Seq(Events)
        /\ received \o pipe \in Seq(Events)
    BY DEF TypeInv, TypeOK
  <1> USE DEF EventStream, InputsInOrder, DisconnectSent, Has, connVars, mainVars,
        sharedVars, At, Goto, SameConn
  <1>1. ASSUME NEW e \in Inputs, SendInputEvent(e) PROVE EventStream'
    BY <1>1 DEF SendInputEvent
  <1>2. CASE Disconnect
    BY <1>2 DEF Disconnect
  <1>3. CASE WriteEvent
    <2>1. /\ outgoing \in Events /\ pipe' = Append(pipe, outgoing) /\ mpc = "write"
          /\ UNCHANGED <<received, requested, unwanted, pc>>
      BY <1>3 DEF WriteEvent, TypeInv
    <2>2. mpc' \in {"test", "runloop"} /\ (mpc' = "test" => outgoing = "disconnect")
      BY <1>3, Zenon DEF WriteEvent
    <2>3. received \o pipe' = Append(received \o pipe, outgoing)
      BY <1>0, <2>1, ConcatAppend
    <2>4. InputsInOrder'
      BY <2>1, <2>2, <2>3
    <2>5. Has(pipe, "disconnect") \/ outgoing = "disconnect" => Has(pipe', "disconnect")
      BY <1>0, <2>1
    <2> QED
      BY <2>1, <2>2, <2>4, <2>5
  <1>4. CASE TestConnecting
    <2>1. mpc = "test" /\ mpc' \in {"cancel", "runloop"}
      BY <1>4, Zenon DEF TestConnecting
    <2> QED
      BY <1>4, <2>1 DEF TestConnecting
  <1>5. CASE CancelConnecting
    BY <1>5 DEF CancelConnecting
  <1>6. CASE UIRequestCompleted
    <2>1. /\ pc = "woken" /\ pc' \in {"connect", "failed"}
          /\ (unwanted' /\ ~unwanted => pc' = "failed")
          /\ UNCHANGED <<pipe, received, requested, mpc, outgoing>>
      BY <1>6, Zenon DEF UIRequestCompleted
    <2>2. unwanted' => DisconnectSent \/ pc' = "failed"
      BY <2>1 DEF GivenUp
    <2> QED
      BY <2>1, <2>2 DEF AfterLoop, GivenUp
  <1>7. CASE EventsCheckFds
    <2>1. CASE fdset
      <3>1. /\ pipe # <<>> /\ pc = "events" /\ UNCHANGED <<requested, mpc, outgoing, unwanted>>
            /\ pipe' = Tail(pipe) /\ received' = Append(received, Head(pipe))
        BY <1>7, <2>1 DEF EventsCheckFds, TypeInv, ReadableWhenRead, FdPcs
      <3>2. Head(pipe) = "disconnect" => pc' = "cleanup"
        BY <1>7, <2>1, Zenon DEF EventsCheckFds
      <3>3. received' \o pipe' = received \o pipe
        BY <1>0, <3>1, ConcatShift
      <3>4. InputsInOrder'
        BY <3>1, <3>3
      <3>5. ~Has(received, "disconnect")
        BY <3>1 DEF AfterLoop
      <3>6. \A i \in 1..Len(received') : received'[i] = "disconnect"
                => i = Len(received') /\ Head(pipe) = "disconnect"
        BY <1>0, <3>1, <3>5
      <3>7. DisconnectSent => DisconnectSent'
        <4>1. SUFFICES ASSUME NEW i \in 1..Len(pipe), pipe[i] = "disconnect"
                       PROVE  DisconnectSent'
          BY <3>5
        <4>2. CASE i = 1
          <5>1. received'[Len(received')] = Head(pipe) /\ Len(received') \in 1..Len(received')
            BY <1>0, <3>1
          <5> QED
            BY <1>0, <3>1, <4>1, <4>2, <5>1
        <4>3. CASE i # 1
          <5>1. i - 1 \in 1..Len(pipe') /\ pipe'[i - 1] = pipe[i]
            BY <1>0, <3>1, <4>3
          <5> QED
            BY <4>1, <5>1
        <4> QED
          BY <4>2, <4>3
      <3> QED
        BY <3>1, <3>2, <3>4, <3>6, <3>7 DEF AfterLoop, GivenUp
    <2>2. CASE ~fdset
      <3>1. pc = "events" /\ UNCHANGED <<pipe, received, requested, mpc, outgoing, unwanted>>
        BY <1>7, <2>2 DEF EventsCheckFds
      <3> QED
        BY <3>1 DEF AfterLoop, GivenUp
    <2> QED
      BY <2>1, <2>2
  <1> QED
    BY <1>1, <1>2, <1>3, <1>4, <1>5, <1>6, <1>7, QuietStep, QuietKeepsStream

\* Events reach the connection loop complete and in order; nothing follows a
\* disconnect event; and a cancellation that misses the test of unwanted is still
\* in the pipe while the loop runs.
THEOREM StreamCorrect ==
    Spec => [](InputsInOrder /\ NothingAfterDisconnect /\ CancelReachesLoop)
  <1>1. EventStream => InputsInOrder /\ NothingAfterDisconnect /\ CancelReachesLoop
    <2> SUFFICES ASSUME EventStream
                 PROVE  NothingAfterDisconnect /\ CancelReachesLoop
      BY DEF EventStream
    <2>1. LoopPcs \intersect AfterLoop = {} /\ LoopPcs \intersect GivenUp = {}
      BY DEF LoopPcs, AfterLoop, GivenUp
    <2>2. NothingAfterDisconnect
      BY <2>1 DEF EventStream, NothingAfterDisconnect, Has
    <2>3. CancelReachesLoop
      BY <2>1, Zenon DEF EventStream, CancelReachesLoop, DisconnectSent
    <2> QED
      BY <2>2, <2>3
  <1> QED
    BY <1>1, TypeInit, TypeStep, EventStreamInit, EventStreamStep, PTL DEF Spec

-----------------------------------------------------------------------------
(* Control: what the place of the connection thread says about the shared fields *)

BeforeConnecting == {"idle", "start", "enter"}
InFreerdpConnect == {"connect", "lock", "wait", "woken", "failed", "create", "created",
                     "check", "commit"}
Finishing == {"finish", "last", "done"}

\* connection_state and the result follow the place of the thread, and a selector is
\* pending only where the thread waits for it.
ControlInv ==
    /\ pc \in BeforeConnecting => connection_state = "Closed"
    /\ pc \in InFreerdpConnect => connection_state = "Connecting"
    /\ pc \in LoopPcs \union {"cleanup", "clear"} => connection_state = "Connected"
    /\ pc = "finish" => connection_state =
                            IF result_code = "SUCCESS" THEN "Disconnected" ELSE "Connecting"
    /\ pc \in {"last", "done"} => connection_state = "Disconnected"
    /\ pc \in Finishing <=> result_code # "none"
    /\ posted = "willConnect" => pc = "enter"
    /\ posted = "ask" => pc = "lock"
    /\ posted = "contextWillChange" => pc \in {"create", "recreate"}
    /\ posted = "contextDidChange" => pc \in {"created", "recreated"}
    /\ posted = "didConnect" => pc = "check"
    /\ posted = "finished" => pc = "last"

\* A dialog is on screen only while the thread is about to wait or waits for it, and
\* from a refusal on the thread has nowhere to go but the end of a canceled session.
DialogInv ==
    /\ dialog # "none" => pc \in {"lock", "wait"} /\ posted = "none"
    /\ answer = "no" => \/ pc \in {"lock", "wait", "woken"}
                        \/ (pc = "failed" /\ unwanted)
                        \/ (pc \in Finishing /\ result_code = "CONN_CANCELED")

\* Every report made so far: while the view takes touches there is none; disconnect
\* makes the first one, if it makes one, before the thread makes the final one.
ReportInv ==
    /\ mpc \in {"write", "test", "cancel"} => Visible
    /\ mpc = "cancel" => connection_state # "Closed"
    /\ mpc \in {"test", "cancel"} => Has(requested, "disconnect")
    /\ view \in {"presented", "connecting", "connected"} => ends = <<>>
    /\ Len(ends) <= (IF FinalReport THEN 2 ELSE 1)
    /\ FinalReport => Len(ends) >= 1
    /\ EarlyReport => ends[1] = "didDisconnect" /\ unwanted /\ Has(requested, "disconnect")

\* Which context exists and what the pointer holds, at every place of the thread: the
\* pointer is cleared before the old context is released when the desktop is resized,
\* after it when the session ends.
ContextInv ==
    /\ pc \in (BeforeConnecting \union InFreerdpConnect \union {"recreate"})
              \ {"created", "check", "commit"} => contexts = {} /\ bitmap_context = 0
    /\ pc \in {"created", "check", "commit", "loop", "fds", "events", "recreated", "cleanup"}
          => contexts = {resizes + 1}
    /\ pc = "release" => contexts = {resizes} /\ bitmap_context = 0
    /\ pc \in {"created", "check", "commit", "loop", "fds", "events", "recreated", "cleanup",
               "clear"} => bitmap_context = resizes + 1
    /\ pc = "clear" => contexts = {}
    /\ pc \in Finishing => \/ (contexts = {} /\ bitmap_context = 0)
                           \/ (contexts = {resizes + 1} /\ result_code = "CONN_CANCELED")

\* A session that was never connected is in the first place of its control.
LEMMA ControlInit == Init => ControlInv
  BY DEF Init, ControlInv, BeforeConnecting, InFreerdpConnect, LoopPcs, Finishing

\* Every step moves the connection thread, connection_state, the result and the pending
\* selector together.
LEMMA ControlStep == TypeInv /\ ControlInv /\ [Next]_vars => ControlInv'
  <1> SUFFICES ASSUME TypeInv, ControlInv, [Next]_vars PROVE ControlInv'
    OBVIOUS
  <1>0. pc \in ConnPcs /\ result_code \in Results /\ unwanted \in BOOLEAN
    BY DEF TypeInv, TypeOK
  <1> USE <1>0 DEF ControlInv, BeforeConnecting, InFreerdpConnect, LoopPcs, Finishing,
        ConnPcs, Results, vars, connVars, mainVars, sharedVars, At, Goto, Post, Perform,
        SameConn, SameShared
  <1>1. CASE Connect
    BY <1>1 DEF Connect
  <1>2. CASE Disconnect
    BY <1>2 DEF Disconnect
  <1>3. CASE WriteEvent
    BY <1>3 DEF WriteEvent
  <1>4. CASE TestConnecting
    BY <1>4 DEF TestConnecting
  <1>5. CASE CancelConnecting
    BY <1>5 DEF CancelConnecting
  <1>6. CASE Dealloc
    BY <1>6 DEF Dealloc
  <1>7. CASE DialogDidDisappear
    BY <1>7 DEF DialogDidDisappear
  <1>8. CASE BeginDraw
    BY <1>8 DEF BeginDraw
  <1>9. CASE EndDraw
    BY <1>9 DEF EndDraw
  <1>10. CASE SessionWillConnect
    BY <1>10 DEF SessionWillConnect
  <1>11. CASE SessionAsksUser
    BY <1>11 DEF SessionAsksUser
  <1>12. CASE SessionBitmapContextWillChange
    BY <1>12 DEF SessionBitmapContextWillChange
  <1>13. CASE SessionBitmapContextDidChange
    BY <1>13 DEF SessionBitmapContextDidChange
  <1>14. CASE SessionDidConnect
    BY <1>14 DEF SessionDidConnect
  <1>15. CASE RunSessionFinished
    BY <1>15 DEF RunSessionFinished
  <1>16. CASE RunSession
    BY <1>16 DEF RunSession
  <1>17. CASE EnterConnecting
    BY <1>17 DEF EnterConnecting
  <1>18. CASE WaitForUI
    BY <1>18 DEF WaitForUI
  <1>19. CASE UIRequestCompleted
    <2>1. pc = "woken" /\ posted = "none" /\ pc' \in {"connect", "failed"}
      BY <1>19, Zenon DEF UIRequestCompleted
    <2> QED
      BY <1>19, <2>1 DEF UIRequestCompleted
  <1>20. CASE ConnectFails
    BY <1>20 DEF ConnectFails
  <1>21. CASE ReturnFailure
    <2>1. result_code' \in {"CONN_CANCELED", "CONN_FAILED"}
      BY <1>21, Zenon DEF ReturnFailure
    <2> QED
      BY <1>21, <2>1 DEF ReturnFailure
  <1>22. CASE PostConnect
    BY <1>22 DEF PostConnect
  <1>23. CASE PostDidConnect
    BY <1>23 DEF PostDidConnect
  <1>24. CASE CheckUnwanted
    <2>1. \/ (pc' = "finish" /\ result_code' = "CONN_CANCELED")
          \/ (pc' = "commit" /\ result_code' = result_code)
      BY <1>24, Zenon DEF CheckUnwanted
    <2> QED
      BY <1>24, <2>1 DEF CheckUnwanted
  <1>25. CASE EnterConnected
    BY <1>25 DEF EnterConnected
  <1>26. CASE Select
    BY <1>26 DEF Select
  <1>27. CASE ResizeWindow
    BY <1>27 DEF ResizeWindow
  <1>28. CASE ReleaseOldContext
    BY <1>28 DEF ReleaseOldContext
  <1>29. CASE ResizeDone
    BY <1>29 DEF ResizeDone
  <1>30. CASE LoopFails
    BY <1>30 DEF LoopFails
  <1>31. CASE EventsCheckFds
    <2>1. pc' \in {"cleanup", "loop"}
      BY <1>31, Zenon DEF EventsCheckFds
    <2> QED
      BY <1>31, <2>1 DEF EventsCheckFds
  <1>32. CASE ReleaseContext
    BY <1>32 DEF ReleaseContext
  <1>33. CASE LeaveConnected
    BY <1>33 DEF LeaveConnected
  <1>34. CASE FinishSession
    BY <1>34 DEF FinishSession
  <1>35. CASE ThreadExits
    BY <1>35 DEF ThreadExits
  <1>36. CASE SessionOver
    BY <1>36 DEF SessionOver
  <1>37. ASSUME NEW e \in Inputs, SendInputEvent(e) PROVE ControlInv'
    BY <1>37 DEF SendInputEvent
  <1>38. ASSUME NEW b \in BOOLEAN, Answer(b) PROVE ControlInv'
    BY <1>38 DEF Answer
  <1>39. ASSUME NEW kind \in ServerAsks, AskUser(kind) PROVE ControlInv'
    BY <1>39 DEF AskUser
  <1>40. ASSUME NEW painted \in BOOLEAN, CheckFds(painted) PROVE ControlInv'
    BY <1>40 DEF CheckFds
  <1>41. CASE CreateBitmapContext("create", "created")
    BY <1>41 DEF CreateBitmapContext
  <1>42. CASE CreateBitmapContext("recreate", "recreated")
    BY <1>42 DEF CreateBitmapContext
  <1>43. CASE UNCHANGED vars
    BY <1>43
  <1> QED
    BY <1>1, <1>2, <1>3, <1>4, <1>5, <1>6, <1>7, <1>8, <1>9, <1>10, <1>11, <1>12,
       <1>13, <1>14, <1>15, <1>16, <1>17, <1>18, <1>19, <1>20, <1>21, <1>22, <1>23,
       <1>24, <1>25, <1>26, <1>27, <1>28, <1>29, <1>30, <1>31, <1>32, <1>33, <1>34,
       <1>35, <1>36, <1>37, <1>38, <1>39, <1>40, <1>41, <1>42, <1>43
       DEF Next, Environment, MainThread, ConnectionThread

\* No dialog is shown and nothing was refused before the session is connected.
LEMMA DialogInit == Init => DialogInv
  BY DEF Init, DialogInv

\* A dialog leaves the screen before the thread leaves its wait, and no step leads from
\* a refusal back to the connection attempt.
LEMMA DialogStep == TypeInv /\ ControlInv /\ DialogInv /\ [Next]_vars => DialogInv'
  <1> SUFFICES ASSUME TypeInv, ControlInv, DialogInv, [Next]_vars PROVE DialogInv'
    OBVIOUS
  <1>0. /\ posted = "ask" => pc = "lock"
        /\ dialog \in {"none", "shown", "closing"}
    BY DEF TypeInv, TypeOK, ControlInv
  <1> USE <1>0 DEF DialogInv, Finishing, vars, connVars, mainVars, sharedVars, At, Goto,
        Post, Perform, SameConn, SameShared
  <1>1. CASE Connect
    BY <1>1 DEF Connect
  <1>2. CASE Disconnect
    BY <1>2 DEF Disconnect
  <1>3. CASE WriteEvent
    BY <1>3 DEF WriteEvent
  <1>4. CASE TestConnecting
    BY <1>4 DEF TestConnecting
  <1>5. CASE CancelConnecting
    <2>1. unwanted' /\ UNCHANGED <<pc, posted, dialog, answer, result_code>>
      BY <1>5, Zenon DEF CancelConnecting
    <2> QED
      BY <2>1
  <1>6. CASE Dealloc
    BY <1>6 DEF Dealloc
  <1>7. CASE DialogDidDisappear
    BY <1>7 DEF DialogDidDisappear
  <1>8. CASE BeginDraw
    BY <1>8 DEF BeginDraw
  <1>9. CASE EndDraw
    BY <1>9 DEF EndDraw
  <1>10. CASE SessionWillConnect
    BY <1>10 DEF SessionWillConnect
  <1>11. CASE SessionAsksUser
    BY <1>11 DEF SessionAsksUser
  <1>12. CASE SessionBitmapContextWillChange
    BY <1>12 DEF SessionBitmapContextWillChange
  <1>13. CASE SessionBitmapContextDidChange
    BY <1>13 DEF SessionBitmapContextDidChange
  <1>14. CASE SessionDidConnect
    BY <1>14 DEF SessionDidConnect
  <1>15. CASE RunSessionFinished
    BY <1>15 DEF RunSessionFinished
  <1>16. CASE RunSession
    BY <1>16 DEF RunSession
  <1>17. CASE EnterConnecting
    BY <1>17 DEF EnterConnecting
  <1>18. CASE WaitForUI
    BY <1>18 DEF WaitForUI
  <1>19. CASE UIRequestCompleted
    <2>1. /\ pc = "woken" /\ posted = "none"
          /\ answer # "yes" => pc' = "failed" /\ unwanted'
          /\ UNCHANGED <<posted, dialog, answer, result_code>>
      BY <1>19, Zenon DEF UIRequestCompleted
    <2> QED
      BY <2>1
  <1>20. CASE ConnectFails
    BY <1>20 DEF ConnectFails
  <1>21. CASE ReturnFailure
    <2>1. /\ pc = "failed" /\ posted = "none" /\ pc' = "finish"
          /\ unwanted => result_code' = "CONN_CANCELED"
          /\ UNCHANGED <<posted, dialog, answer>>
      BY <1>21, Zenon DEF ReturnFailure
    <2> QED
      BY <2>1
  <1>22. CASE PostConnect
    BY <1>22 DEF PostConnect
  <1>23. CASE PostDidConnect
    BY <1>23 DEF PostDidConnect
  <1>24. CASE CheckUnwanted
    BY <1>24 DEF CheckUnwanted
  <1>25. CASE EnterConnected
    BY <1>25 DEF EnterConnected
  <1>26. CASE Select
    BY <1>26 DEF Select
  <1>27. CASE ResizeWindow
    BY <1>27 DEF ResizeWindow
  <1>28. CASE ReleaseOldContext
    BY <1>28 DEF ReleaseOldContext
  <1>29. CASE ResizeDone
    BY <1>29 DEF ResizeDone
  <1>30. CASE LoopFails
    BY <1>30 DEF LoopFails
  <1>31. CASE EventsCheckFds
    <2>1. pc = "events" /\ UNCHANGED <<posted, dialog, answer, result_code>>
      BY <1>31, Zenon DEF EventsCheckFds
    <2> QED
      BY <2>1
  <1>32. CASE ReleaseContext
    BY <1>32 DEF ReleaseContext
  <1>33. CASE LeaveConnected
    BY <1>33 DEF LeaveConnected
  <1>34. CASE FinishSession
    BY <1>34 DEF FinishSession
  <1>35. CASE ThreadExits
    BY <1>35 DEF ThreadExits
  <1>36. CASE SessionOver
    BY <1>36 DEF SessionOver
  <1>37. ASSUME NEW e \in Inputs, SendInputEvent(e) PROVE DialogInv'
    BY <1>37 DEF SendInputEvent
  <1>38. ASSUME NEW b \in BOOLEAN, Answer(b) PROVE DialogInv'
    BY <1>38 DEF Answer
  <1>39. ASSUME NEW kind \in ServerAsks, AskUser(kind) PROVE DialogInv'
    BY <1>39 DEF AskUser
  <1>40. ASSUME NEW painted \in BOOLEAN, CheckFds(painted) PROVE DialogInv'
    BY <1>40 DEF CheckFds
  <1>41. CASE CreateBitmapContext("create", "created")
    BY <1>41 DEF CreateBitmapContext
  <1>42. CASE CreateBitmapContext("recreate", "recreated")
    BY <1>42 DEF CreateBitmapContext
  <1>43. CASE UNCHANGED vars
    BY <1>43
  <1> QED
    BY <1>1, <1>2, <1>3, <1>4, <1>5, <1>6, <1>7, <1>8, <1>9, <1>10, <1>11, <1>12,
       <1>13, <1>14, <1>15, <1>16, <1>17, <1>18, <1>19, <1>20, <1>21, <1>22, <1>23,
       <1>24, <1>25, <1>26, <1>27, <1>28, <1>29, <1>30, <1>31, <1>32, <1>33, <1>34,
       <1>35, <1>36, <1>37, <1>38, <1>39, <1>40, <1>41, <1>42, <1>43
       DEF Next, Environment, MainThread, ConnectionThread

\* A refused certificate or login is final: the session never becomes Connected and
\* runSessionFinished reports it as canceled.
THEOREM RefusalCorrect == Spec => []RefusalIsFinal
  <1>1. ControlInv /\ DialogInv => RefusalIsFinal
    <2> SUFFICES ASSUME ControlInv, DialogInv, answer = "no" PROVE RefusalIsFinal
      BY DEF RefusalIsFinal
    <2>1. CASE pc \in {"lock", "wait", "woken", "failed"}
      BY <2>1 DEF ControlInv, InFreerdpConnect, Finishing, RefusalIsFinal
    <2>2. CASE pc \in Finishing /\ result_code = "CONN_CANCELED"
      BY <2>2 DEF ControlInv, Finishing, RefusalIsFinal
    <2> QED
      BY <2>1, <2>2 DEF DialogInv
  <1> QED
    BY <1>1, TypeInit, TypeStep, ControlInit, ControlStep, DialogInit, DialogStep, PTL
       DEF Spec

-----------------------------------------------------------------------------
(* The drawing context *)

\* No context exists before the session is connected.
LEMMA ContextInit == Init => ContextInv
  BY DEF Init, ContextInv, Finishing

\* Creating, releasing and clearing the context keep the pointer and the contexts as
\* ContextInv describes them.
LEMMA ContextStep == TypeInv /\ ControlInv /\ ContextInv /\ [Next]_vars => ContextInv'
  <1> SUFFICES ASSUME TypeInv, ControlInv, ContextInv, [Next]_vars PROVE ContextInv'
    OBVIOUS
  <1>0. resizes \in Nat /\ pc \in ConnPcs /\ (pc \in Finishing <=> result_code # "none")
    BY SessionAssumption DEF SessionAssumption, TypeInv, TypeOK, ControlInv
  <1> USE <1>0 DEF ContextInv, BeforeConnecting, InFreerdpConnect, LoopPcs, Finishing,
        ConnPcs, vars, connVars, mainVars, sharedVars, At, Goto, Post, Perform, SameConn,
        SameShared
  <1>1. CASE Connect
    BY <1>1 DEF Connect
  <1>2. CASE Disconnect
    BY <1>2 DEF Disconnect
  <1>3. CASE WriteEvent
    BY <1>3 DEF WriteEvent
  <1>4. CASE TestConnecting
    BY <1>4 DEF TestConnecting
  <1>5. CASE CancelConnecting
    BY <1>5 DEF CancelConnecting
  <1>6. CASE Dealloc
    BY <1>6 DEF Dealloc
  <1>7. CASE DialogDidDisappear
    BY <1>7 DEF DialogDidDisappear
  <1>8. CASE BeginDraw
    BY <1>8 DEF BeginDraw
  <1>9. CASE EndDraw
    BY <1>9 DEF EndDraw
  <1>10. CASE SessionWillConnect
    BY <1>10 DEF SessionWillConnect
  <1>11. CASE SessionAsksUser
    BY <1>11 DEF SessionAsksUser
  <1>12. CASE SessionBitmapContextWillChange
    BY <1>12 DEF SessionBitmapContextWillChange
  <1>13. CASE SessionBitmapContextDidChange
    BY <1>13 DEF SessionBitmapContextDidChange
  <1>14. CASE SessionDidConnect
    BY <1>14 DEF SessionDidConnect
  <1>15. CASE RunSessionFinished
    BY <1>15 DEF RunSessionFinished
  <1>16. CASE RunSession
    BY <1>16 DEF RunSession
  <1>17. CASE EnterConnecting
    BY <1>17 DEF EnterConnecting
  <1>18. CASE WaitForUI
    BY <1>18 DEF WaitForUI
  <1>19. CASE UIRequestCompleted
    <2>1. /\ pc = "woken" /\ pc' \in {"connect", "failed"}
          /\ UNCHANGED <<contexts, bitmap_context, resizes>>
      BY <1>19, Zenon DEF UIRequestCompleted
    <2> QED
      BY <2>1
  <1>20. CASE ConnectFails
    BY <1>20 DEF ConnectFails
  <1>21. CASE ReturnFailure
    <2>1. /\ pc = "failed" /\ pc' = "finish"
          /\ UNCHANGED <<contexts, bitmap_context, resizes>>
      BY <1>21, Zenon DEF ReturnFailure
    <2> QED
      BY <2>1
  <1>22. CASE PostConnect
    BY <1>22 DEF PostConnect
  <1>23. CASE PostDidConnect
    BY <1>23 DEF PostDidConnect
  <1>24. CASE CheckUnwanted
    <2>1. /\ pc = "check" /\ UNCHANGED <<contexts, bitmap_context, resizes>>
          /\ \/ (pc' = "finish" /\ result_code' = "CONN_CANCELED")
             \/ pc' = "commit"
      BY <1>24, Zenon DEF CheckUnwanted
    <2> QED
      BY <2>1
  <1>25. CASE EnterConnected
    BY <1>25 DEF EnterConnected
  <1>26. CASE Select
    BY <1>26 DEF Select
  <1>27. CASE ResizeWindow
    BY <1>27 DEF ResizeWindow
  <1>28. CASE ReleaseOldContext
    BY <1>28 DEF ReleaseOldContext
  <1>29. CASE ResizeDone
    BY <1>29 DEF ResizeDone
  <1>30. CASE LoopFails
    BY <1>30 DEF LoopFails
  <1>31. CASE EventsCheckFds
    <2>1. /\ pc = "events" /\ pc' \in {"cleanup", "loop"}
          /\ UNCHANGED <<contexts, bitmap_context, resizes>>
      BY <1>31, Zenon DEF EventsCheckFds
    <2> QED
      BY <2>1
  <1>32. CASE ReleaseContext
    BY <1>32 DEF ReleaseContext
  <1>33. CASE LeaveConnected
    BY <1>33 DEF LeaveConnected
  <1>34. CASE FinishSession
    BY <1>34 DEF FinishSession
  <1>35. CASE ThreadExits
    BY <1>35 DEF ThreadExits
  <1>36. CASE SessionOver
    BY <1>36 DEF SessionOver
  <1>37. ASSUME NEW e \in Inputs, SendInputEvent(e) PROVE ContextInv'
    BY <1>37 DEF SendInputEvent
  <1>38. ASSUME NEW b \in BOOLEAN, Answer(b) PROVE ContextInv'
    BY <1>38 DEF Answer
  <1>39. ASSUME NEW kind \in ServerAsks, AskUser(kind) PROVE ContextInv'
    BY <1>39 DEF AskUser
  <1>40. ASSUME NEW painted \in BOOLEAN, CheckFds(painted) PROVE ContextInv'
    BY <1>40 DEF CheckFds
  <1>41. CASE CreateBitmapContext("create", "created")
    BY <1>41 DEF CreateBitmapContext
  <1>42. CASE CreateBitmapContext("recreate", "recreated")
    BY <1>42 DEF CreateBitmapContext
  <1>43. CASE UNCHANGED vars
    BY <1>43
  <1> QED
    BY <1>1, <1>2, <1>3, <1>4, <1>5, <1>6, <1>7, <1>8, <1>9, <1>10, <1>11, <1>12,
       <1>13, <1>14, <1>15, <1>16, <1>17, <1>18, <1>19, <1>20, <1>21, <1>22, <1>23,
       <1>24, <1>25, <1>26, <1>27, <1>28, <1>29, <1>30, <1>31, <1>32, <1>33, <1>34,
       <1>35, <1>36, <1>37, <1>38, <1>39, <1>40, <1>41, <1>42, <1>43
       DEF Next, Environment, MainThread, ConnectionThread

\* At most one drawing context exists at a time, and a session that did not end by
\* cancellation has released it and cleared the pointer.
THEOREM ContextCorrect == Spec => []ContextReleased
  <1>1. TypeInv /\ ContextInv => ContextReleased
    <2> SUFFICES ASSUME TypeInv, ContextInv PROVE ContextReleased
      OBVIOUS
    <2>1. contexts = {} \/ contexts = {resizes + 1} \/ contexts = {resizes}
      BY DEF TypeInv, TypeOK, ContextInv, ConnPcs, LoopPcs, BeforeConnecting,
             InFreerdpConnect, Finishing
    <2>2. \A c, d \in contexts : c = d
      BY <2>1
    <2>3. pc \in Finishing /\ result_code # "CONN_CANCELED"
             => contexts = {} /\ bitmap_context = 0
      BY DEF ContextInv
    <2> QED
      BY <2>2, <2>3 DEF ContextReleased, Finishing
  <1> QED
    BY <1>1, TypeInit, TypeStep, ControlInit, ControlStep, ContextInit, ContextStep, PTL
       DEF Spec


-----------------------------------------------------------------------------
(* The reports of the end *)

\* What the steps do that neither report the end nor move the view or the user's call.
Unreported ==
    /\ UNCHANGED <<view, ends, requested, FinalReport>>
    /\ \/ UNCHANGED mpc
       \/ mpc \notin {"write", "test", "cancel"} /\ mpc' \notin {"write", "test", "cancel"}
    /\ unwanted => unwanted'
    /\ connection_state' = "Closed" => connection_state = "Closed"

\* A step that makes no report keeps the invariant about them.
LEMMA UnreportedKeeps == ReportInv /\ Unreported => ReportInv'
  <1> SUFFICES ASSUME ReportInv, Unreported PROVE ReportInv'
    OBVIOUS
  <1>1. UNCHANGED <<view, ends, requested, Visible, Has(requested, "disconnect"), FinalReport,
                    EarlyReport>>
    BY DEF Unreported, Visible, Has, EarlyReport
  <1>2. /\ mpc' \in {"write", "test", "cancel"} => mpc' = mpc
        /\ unwanted => unwanted'
        /\ connection_state' = "Closed" => connection_state = "Closed"
    BY Zenon DEF Unreported
  <1> QED
    BY <1>1, <1>2 DEF ReportInv

\* Every step but the nine that ReportStep treats one by one makes no report.
LEMMA UnreportedStep ==
    ASSUME TypeInv, ControlInv, [Next]_vars
    PROVE  \/ Unreported
           \/ (\E e \in Inputs : SendInputEvent(e)) \/ Disconnect \/ WriteEvent
           \/ TestConnecting \/ CancelConnecting \/ Dealloc \/ SessionWillConnect
           \/ SessionDidConnect \/ RunSessionFinished
  <1>0. posted \in {"ask", "contextWillChange", "contextDidChange"} => pc \notin {"last", "done"}
    BY DEF ControlInv
  <1> USE <1>0 DEF Unreported, FinalReport, vars, connVars, mainVars, sharedVars, At, Goto,
        Post, Perform, SameConn, SameShared
  <1>1. Connect => Unreported
    BY DEF Connect
  <1>2. DialogDidDisappear => Unreported
    BY DEF DialogDidDisappear
  <1>3. BeginDraw => Unreported
    BY DEF BeginDraw
  <1>4. EndDraw => Unreported
    BY DEF EndDraw
  <1>5. SessionAsksUser => Unreported
    BY DEF SessionAsksUser
  <1>6. SessionBitmapContextWillChange => Unreported
    BY DEF SessionBitmapContextWillChange
  <1>7. SessionBitmapContextDidChange => Unreported
    BY DEF SessionBitmapContextDidChange
  <1>8. RunSession => Unreported
    BY DEF RunSession
  <1>9. EnterConnecting => Unreported
    BY DEF EnterConnecting
  <1>10. WaitForUI => Unreported
    BY DEF WaitForUI
  <1>11. UIRequestCompleted => Unreported
    BY Zenon DEF UIRequestCompleted
  <1>12. ConnectFails => Unreported
    BY DEF ConnectFails
  <1>13. ReturnFailure => Unreported
    BY DEF ReturnFailure
  <1>14. PostConnect => Unreported
    BY DEF PostConnect
  <1>15. PostDidConnect => Unreported
    BY DEF PostDidConnect
  <1>16. CheckUnwanted => Unreported
    BY DEF CheckUnwanted
  <1>17. EnterConnected => Unreported
    BY DEF EnterConnected
  <1>18. Select => Unreported
    BY DEF Select
  <1>19. ResizeWindow => Unreported
    BY DEF ResizeWindow
  <1>20. ReleaseOldContext => Unreported
    BY DEF ReleaseOldContext
  <1>21. ResizeDone => Unreported
    BY DEF ResizeDone
  <1>22. LoopFails => Unreported
    BY DEF LoopFails
  <1>23. EventsCheckFds => Unreported
    BY DEF EventsCheckFds
  <1>24. ReleaseContext => Unreported
    BY DEF ReleaseContext
  <1>25. LeaveConnected => Unreported
    BY DEF LeaveConnected
  <1>26. FinishSession => Unreported
    BY DEF FinishSession
  <1>27. ThreadExits => Unreported
    BY DEF ThreadExits
  <1>28. (\E b \in BOOLEAN : Answer(b)) => Unreported
    BY DEF Answer
  <1>29. (\E kind \in ServerAsks : AskUser(kind)) => Unreported
    BY DEF AskUser
  <1>30. (\E painted \in BOOLEAN : CheckFds(painted)) => Unreported
    BY DEF CheckFds
  <1>31. CreateBitmapContext("create", "created") => Unreported
    BY DEF CreateBitmapContext
  <1>32. CreateBitmapContext("recreate", "recreated") => Unreported
    BY DEF CreateBitmapContext
  <1>33. SessionOver \/ UNCHANGED vars => Unreported
    BY DEF SessionOver
  <1> QED
    BY <1>1, <1>2, <1>3, <1>4, <1>5, <1>6, <1>7, <1>8, <1>9, <1>10, <1>11, <1>12,
       <1>13, <1>14, <1>15, <1>16, <1>17, <1>18, <1>19, <1>20, <1>21, <1>22, <1>23,
       <1>24, <1>25, <1>26, <1>27, <1>28, <1>29, <1>30, <1>31, <1>32, <1>33
       DEF Next, Environment, MainThread, ConnectionThread

\* Nothing was reported before the session is connected.
LEMMA ReportInit == Init => ReportInv
  BY DEF Init, ReportInv, FinalReport, EarlyReport, Has, Visible

\* An event more in the history does not hide the disconnect event.
LEMMA HasAppend ==
    ASSUME NEW s \in Seq(Events), NEW e \in Events, NEW x,
           Has(s, x) \/ e = x
    PROVE  Has(Append(s, e), x)
  <1>1. CASE e = x
    <2>1. Append(s, e)[Len(s) + 1] = x /\ Len(s) + 1 \in 1..Len(Append(s, e))
      BY <1>1
    <2> QED
      BY <2>1 DEF Has
  <1>2. CASE Has(s, x)
    <2>1. PICK i \in 1..Len(s) : s[i] = x
      BY <1>2 DEF Has
    <2>2. i \in 1..Len(Append(s, e)) /\ Append(s, e)[i] = x
      BY <2>1
    <2> QED
      BY <2>2 DEF Has
  <1> QED
    BY <1>1, <1>2

\* Reports are made once by the user's cancellation and once by the thread, and a view
\* that was told of the end takes no touch any more.
LEMMA ReportStep ==
    TypeInv /\ ControlInv /\ EventStream /\ ReportInv /\ [Next]_vars => ReportInv'
  <1> SUFFICES ASSUME TypeInv, ControlInv, EventStream, ReportInv, [Next]_vars
               PROVE  ReportInv'
    OBVIOUS
  <1>0. /\ requested \in Seq(Events) /\ ends \in Seq(Ends)
        /\ view \in {"presented", "connecting", "connected", "dismissed", "freed"}
    BY DEF TypeInv, TypeOK
  <1> USE DEF connVars, mainVars, sharedVars, Perform, SameShared
  <1>1. ASSUME NEW e \in Events, requested' = Append(requested, e), mpc' = "write",
               mpc = "runloop", Visible,
               UNCHANGED <<view, ends, unwanted, connection_state, pc, posted>>
        PROVE  ReportInv'
    <2>1. ends = <<>> /\ ~FinalReport
      BY <1>1 DEF ReportInv, Visible
    <2>2. ~EarlyReport' /\ ~FinalReport' /\ Visible'
      BY <1>1, <2>1 DEF EarlyReport, FinalReport, Visible
    <2> QED
      BY <1>1, <2>1, <2>2 DEF ReportInv
  <1>2. ASSUME NEW e \in Inputs, SendInputEvent(e) PROVE ReportInv'
    BY <1>1, <1>2 DEF SendInputEvent, Visible, Events
  <1>3. CASE Disconnect
    BY <1>1, <1>3 DEF Disconnect, Events
  <1>4. CASE WriteEvent
    <2>1. /\ mpc = "write" /\ UNCHANGED <<view, ends, requested, unwanted, connection_state,
                                          Visible, FinalReport, EarlyReport>>
          /\ mpc' \in {"test", "runloop"} /\ (mpc' = "test" => outgoing = "disconnect")
      BY <1>4, Zenon DEF WriteEvent, Visible, FinalReport, EarlyReport
    <2>2. outgoing = "disconnect" => Has(requested, "disconnect")
      <3>1. requested = Append(received \o pipe, outgoing) /\ outgoing \in Events
            /\ received \o pipe \in Seq(Events)
        BY <2>1 DEF EventStream, InputsInOrder, TypeInv, TypeOK
      <3> QED
        BY <3>1, HasAppend
    <2>3. Has(requested, "disconnect")' <=> Has(requested, "disconnect")
      BY <2>1 DEF Has
    <2> QED
      BY <2>1, <2>2, <2>3 DEF ReportInv
  <1>5. CASE TestConnecting
    <2>1. /\ mpc = "test" /\ UNCHANGED <<view, ends, requested, unwanted, connection_state,
                                         Visible, FinalReport, EarlyReport>>
          /\ mpc' \in {"cancel", "runloop"}
          /\ mpc' = "cancel" => connection_state = "Connecting"
      BY <1>5, Zenon DEF TestConnecting, Visible, FinalReport, EarlyReport
    <2>2. Has(requested, "disconnect")' <=> Has(requested, "disconnect")
      BY <2>1 DEF Has
    <2> QED
      BY <2>1, <2>2 DEF ReportInv
  <1>6. CASE CancelConnecting
    <2>1. /\ mpc = "cancel" /\ mpc' = "runloop" /\ unwanted' /\ view' = "dismissed"
          /\ ends' = Append(ends, "didDisconnect")
          /\ UNCHANGED <<requested, connection_state, FinalReport>>
      BY <1>6, Zenon DEF CancelConnecting, FinalReport
    <2>2. ends = <<>> /\ ~FinalReport /\ Has(requested, "disconnect")
      BY <2>1 DEF ReportInv, Visible
    <2>3. ends' = <<"didDisconnect">> /\ ~FinalReport' /\ Has(requested, "disconnect")'
      BY <2>1, <2>2 DEF Has
    <2>4. Len(ends') = 1 /\ ends'[1] = "didDisconnect"
      BY <2>3
    <2> QED
      BY <2>1, <2>3, <2>4 DEF ReportInv
  <1>7. CASE Dealloc
    <2>1. UNCHANGED <<mpc, ends, requested, unwanted, connection_state, FinalReport,
                      EarlyReport>>
          /\ view' = "freed" /\ mpc = "runloop"
      BY <1>7, Zenon DEF Dealloc, FinalReport, EarlyReport
    <2>2. Has(requested, "disconnect")' <=> Has(requested, "disconnect")
      BY <2>1 DEF Has
    <2> QED
      BY <2>1, <2>2 DEF ReportInv
  <1>8. CASE SessionWillConnect \/ SessionDidConnect
    <2>1. /\ mpc = "runloop"
          /\ UNCHANGED <<mpc, ends, requested, unwanted, connection_state, FinalReport,
                         EarlyReport>>
          /\ \/ (view' \in {"connecting", "connected"} /\ view \in {"presented", "connecting"})
             \/ view' = view
      BY <1>8 DEF SessionWillConnect, SessionDidConnect, FinalReport, EarlyReport, ControlInv
    <2>2. Has(requested, "disconnect")' <=> Has(requested, "disconnect")
      BY <2>1 DEF Has
    <2> QED
      BY <2>1, <2>2 DEF ReportInv
  <1>9. CASE RunSessionFinished
    <2>1. /\ mpc = "runloop" /\ posted = "finished" /\ posted' = "none" /\ pc = "last"
          /\ view' \in {"dismissed", "freed"}
          /\ UNCHANGED <<mpc, requested, unwanted, connection_state, pc>>
      BY <1>9 DEF RunSessionFinished, ControlInv
    <2>2. PICK r \in Ends : ends' = Append(ends, r)
      BY <1>9 DEF RunSessionFinished, Ends
    <2>3. ~FinalReport /\ FinalReport'
      BY <2>1 DEF FinalReport
    <2>4. Len(ends') = Len(ends) + 1 /\ (ends # <<>> => ends'[1] = ends[1])
      BY <1>0, <2>2
    <2>5. Len(ends) \in Nat /\ (Len(ends) = 0 <=> ends = <<>>)
      BY <1>0
    <2>6. EarlyReport' => EarlyReport
      <3>1. Len(ends') = 2 => Len(ends) = 1
        <4> DEFINE n == Len(ends)
                   k == Len(ends')
        <4>1. n \in Nat /\ k = n + 1
          BY <2>4, <2>5
        <4> HIDE DEF n, k
        <4>2. k = 2 => n = 1
          BY <4>1
        <4> QED
          BY <4>2 DEF n, k
      <3> QED
        BY <2>3, <3>1, Zenon DEF EarlyReport
    <2>7. Has(requested, "disconnect")' <=> Has(requested, "disconnect")
      BY <2>1 DEF Has
    <2> QED
      BY <2>1, <2>3, <2>4, <2>5, <2>6, <2>7 DEF ReportInv, EarlyReport
  <1> QED
    BY <1>2, <1>3, <1>4, <1>5, <1>6, <1>7, <1>8, <1>9, UnreportedStep, UnreportedKeeps

\* The delegate hears of the end of every session, and hears of it twice only when the
\* user gave up while the session was connecting.
THEOREM EndCorrect == Spec => []EndReported
  <1>1. TypeInv /\ ReportInv => EndReported
    <2> SUFFICES ASSUME TypeInv, ReportInv PROVE EndReported
      OBVIOUS
    <2>1. Len(ends) \in Nat
      BY DEF TypeInv, TypeOK
    <2>2. Len(ends) <= 2 /\ (Len(ends) = 2 => EarlyReport) /\ (FinalReport => Len(ends) >= 1)
      BY <2>1 DEF ReportInv, EarlyReport
    <2>3. Len(ends) = 2 => ends[1] = "didDisconnect" /\ unwanted /\ Has(requested, "disconnect")
      BY <2>2, Zenon DEF ReportInv
    <2>4. pc = "done" => FinalReport
      BY DEF FinalReport
    <2> QED
      BY <2>2, <2>3, <2>4 DEF EndReported
  <1> QED
    BY <1>1, TypeInit, TypeStep, EventStreamInit, EventStreamStep, ControlInit, ControlStep,
       ReportInit, ReportStep, PTL DEF Spec

-----------------------------------------------------------------------------
(* The session implements SessionContract *)


\* What the steps do that the contract cannot tell from no step.
Unseen == UNCHANGED <<connection_state, requested, received, ends, FinalReport>>

\* Every step but the nine that ContractStep maps to a step of the contract is unseen.
LEMMA UnseenStep ==
    ASSUME TypeInv, ControlInv, [Next]_vars
    PROVE  \/ Unseen
           \/ EnterConnecting \/ EnterConnected
           \/ (\E e \in Inputs : SendInputEvent(e)) \/ Disconnect \/ EventsCheckFds
           \/ LeaveConnected \/ FinishSession \/ CancelConnecting \/ RunSessionFinished
  <1>0. posted \in Selectors \ {"finished"} => pc \notin {"last", "done"}
    BY DEF ControlInv, Selectors
  <1> USE <1>0 DEF Unseen, Selectors, FinalReport, vars, connVars, mainVars, sharedVars, At,
        Goto, Post, Perform, SameConn, SameShared
  <1>1. Connect => Unseen
    BY DEF Connect
  <1>2. WriteEvent => Unseen
    BY DEF WriteEvent
  <1>3. TestConnecting => Unseen
    BY DEF TestConnecting
  <1>4. Dealloc => Unseen
    BY DEF Dealloc
  <1>5. DialogDidDisappear => Unseen
    BY DEF DialogDidDisappear
  <1>6. BeginDraw => Unseen
    BY DEF BeginDraw
  <1>7. EndDraw => Unseen
    BY DEF EndDraw
  <1>8. SessionWillConnect => Unseen
    BY DEF SessionWillConnect
  <1>9. SessionAsksUser => Unseen
    BY DEF SessionAsksUser
  <1>10. SessionBitmapContextWillChange => Unseen
    BY DEF SessionBitmapContextWillChange
  <1>11. SessionBitmapContextDidChange => Unseen
    BY DEF SessionBitmapContextDidChange
  <1>12. SessionDidConnect => Unseen
    BY DEF SessionDidConnect
  <1>13. RunSession => Unseen
    BY DEF RunSession
  <1>14. WaitForUI => Unseen
    BY DEF WaitForUI
  <1>15. UIRequestCompleted => Unseen
    BY DEF UIRequestCompleted
  <1>16. ConnectFails => Unseen
    BY DEF ConnectFails
  <1>17. ReturnFailure => Unseen
    BY DEF ReturnFailure
  <1>18. PostConnect => Unseen
    BY DEF PostConnect
  <1>19. PostDidConnect => Unseen
    BY DEF PostDidConnect
  <1>20. CheckUnwanted => Unseen
    BY DEF CheckUnwanted
  <1>21. Select => Unseen
    BY DEF Select
  <1>22. ResizeWindow => Unseen
    BY DEF ResizeWindow
  <1>23. ReleaseOldContext => Unseen
    BY DEF ReleaseOldContext
  <1>24. ResizeDone => Unseen
    BY DEF ResizeDone
  <1>25. LoopFails => Unseen
    BY DEF LoopFails
  <1>26. ReleaseContext => Unseen
    BY DEF ReleaseContext
  <1>27. ThreadExits => Unseen
    BY DEF ThreadExits
  <1>28. (\E b \in BOOLEAN : Answer(b)) => Unseen
    BY DEF Answer
  <1>29. (\E kind \in ServerAsks : AskUser(kind)) => Unseen
    BY DEF AskUser
  <1>30. (\E painted \in BOOLEAN : CheckFds(painted)) => Unseen
    BY DEF CheckFds
  <1>31. CreateBitmapContext("create", "created") => Unseen
    BY DEF CreateBitmapContext
  <1>32. CreateBitmapContext("recreate", "recreated") => Unseen
    BY DEF CreateBitmapContext
  <1>33. SessionOver \/ UNCHANGED vars => Unseen
    BY DEF SessionOver
  <1> QED
    BY <1>1, <1>2, <1>3, <1>4, <1>5, <1>6, <1>7, <1>8, <1>9, <1>10, <1>11, <1>12,
       <1>13, <1>14, <1>15, <1>16, <1>17, <1>18, <1>19, <1>20, <1>21, <1>22, <1>23,
       <1>24, <1>25, <1>26, <1>27, <1>28, <1>29, <1>30, <1>31, <1>32, <1>33
       DEF Next, Environment, MainThread, ConnectionThread

\* A session that was never connected is an initial state of the contract.
LEMMA ContractInit == Init => Contract!Init
  BY DEF Init, Contract!Init, EarlyReport, FinalReport

\* An event the user causes, an input or the disconnect event, is one the contract
\* allows: the view takes touches, so no end was reported.
LEMMA CauseImplements ==
    ASSUME TypeInv, ReportInv, NEW e \in Inputs \union {"disconnect"}, Visible,
           e # "disconnect" => connection_state = "Connected",
           requested' = Append(requested, e),
           UNCHANGED <<connection_state, received, ends, pc, posted>>
    PROVE  Contract!Cause(e)
  <1>1. ends = <<>> /\ ~FinalReport
    BY DEF ReportInv, Visible
  <1>2. ~EarlyReport /\ UNCHANGED <<FinalReport, EarlyReport>>
    BY <1>1 DEF EarlyReport, FinalReport
  <1> QED
    BY <1>1, <1>2 DEF Contract!Cause

\* The event the loop reads is the next one the user caused, and none it read before
\* was the disconnect event.
LEMMA ServeImplements ==
    ASSUME TypeInv, ControlInv, EventStream, EventsCheckFds, fdset
    PROVE  Contract!Serve
  <1>1. /\ pipe # <<>> /\ pc = "events" /\ posted = "none"
        /\ received' = Append(received, Head(pipe))
        /\ UNCHANGED <<connection_state, requested, ends, posted>>
    BY DEF EventsCheckFds, TypeInv, ReadableWhenRead, FdPcs, At, mainVars
  <1>2. pc' \in {"cleanup", "loop"}
    BY Zenon DEF EventsCheckFds, Goto
  <1>3. UNCHANGED <<FinalReport, EarlyReport>>
    BY <1>1, <1>2 DEF FinalReport, EarlyReport
  <1>4. connection_state = "Connected" /\ ~Has(received, "disconnect")
    BY <1>1 DEF ControlInv, LoopPcs, EventStream, AfterLoop
  <1>5. /\ received \in Seq(Events) /\ pipe \in Seq(Events) /\ outgoing \in Events \union {"none"}
        /\ mpc = "write" => outgoing \in Events
    BY DEF TypeInv, TypeOK
  <1>6. Len(received) < Len(requested) /\ requested[Len(received) + 1] = Head(pipe)
    <2>1. /\ received \o pipe \in Seq(Events)
          /\ Len(received) < Len(received \o pipe)
          /\ (received \o pipe)[Len(received) + 1] = Head(pipe)
      BY <1>1, <1>5
    <2>2. CASE mpc = "write"
      <3>1. requested = Append(received \o pipe, outgoing) /\ outgoing \in Events
        BY <1>5, <2>2 DEF EventStream, InputsInOrder
      <3> QED
        BY <1>5, <2>1, <3>1
    <2>3. CASE mpc # "write"
      BY <2>1, <2>3 DEF EventStream, InputsInOrder
    <2> QED
      BY <2>2, <2>3
  <1>7. ~Contract!Stopped
    BY <1>4 DEF Contract!Stopped, Has
  <1> QED
    BY <1>1, <1>3, <1>4, <1>6, <1>7 DEF Contract!Serve

\* Every step of the two threads is a step of the contract or leaves it alone.
LEMMA ContractStep ==
    TypeInv /\ ControlInv /\ EventStream /\ ReportInv /\ [Next]_vars
        => [Contract!Next]_(Contract!cvars)
  <1> SUFFICES ASSUME TypeInv, ControlInv, EventStream, ReportInv, [Next]_vars
               PROVE  Contract!Next \/ UNCHANGED Contract!cvars
    OBVIOUS
  <1>0. ends \in Seq(Ends)
    BY DEF TypeInv, TypeOK
  <1> USE DEF connVars, mainVars, sharedVars, At, Goto, Post, Perform, SameConn, SameShared
  <1>1. CASE Unseen
    BY <1>1 DEF Unseen, Contract!cvars, EarlyReport
  <1>2. CASE EnterConnecting
    <2>1. Contract!Begin
      BY <1>2 DEF EnterConnecting, Contract!Begin, ControlInv, BeforeConnecting, FinalReport,
                  EarlyReport
    <2> QED
      BY <2>1 DEF Contract!Next
  <1>3. CASE EnterConnected
    <2>1. Contract!Establish
      BY <1>3 DEF EnterConnected, Contract!Establish, ControlInv, InFreerdpConnect, FinalReport,
                  EarlyReport
    <2> QED
      BY <2>1 DEF Contract!Next
  <1>4. ASSUME NEW e \in Inputs, SendInputEvent(e) PROVE Contract!Next
    <2>1. Contract!Cause(e)
      BY <1>4, CauseImplements DEF SendInputEvent, Visible
    <2> QED
      BY <2>1 DEF Contract!Next
  <1>5. CASE Disconnect
    <2>1. Contract!Cause("disconnect")
      BY <1>5, CauseImplements DEF Disconnect
    <2> QED
      BY <2>1 DEF Contract!Next
  <1>6. CASE EventsCheckFds
    <2>1. CASE fdset
      BY <1>6, <2>1, ServeImplements DEF Contract!Next
    <2>2. CASE ~fdset
      <3>1. /\ pc = "events" /\ pc' = "loop"
            /\ UNCHANGED <<connection_state, requested, received, ends, posted>>
        BY <1>6, <2>2 DEF EventsCheckFds
      <3> QED
        BY <3>1 DEF Contract!cvars, FinalReport, EarlyReport
    <2> QED
      BY <2>1, <2>2
  <1>7. CASE LeaveConnected
    <2>1. Contract!Close
      BY <1>7 DEF LeaveConnected, Contract!Close, ControlInv, FinalReport, EarlyReport
    <2> QED
      BY <2>1 DEF Contract!Next
  <1>8. CASE FinishSession
    <2>1. /\ pc = "finish" /\ connection_state' = "Disconnected"
          /\ UNCHANGED <<requested, received, FinalReport, EarlyReport>>
      BY <1>8 DEF FinishSession, FinalReport, EarlyReport
    <2>2. CASE connection_state = "Disconnected"
      BY <2>1, <2>2 DEF Contract!cvars
    <2>3. CASE connection_state # "Disconnected"
      <3>1. Contract!Close
        BY <2>1, <2>3 DEF Contract!Close, ControlInv
      <3> QED
        BY <3>1 DEF Contract!Next
    <2> QED
      BY <2>2, <2>3
  <1>9. CASE CancelConnecting
    <2>1. /\ mpc = "cancel" /\ ends' = Append(ends, "didDisconnect")
          /\ UNCHANGED <<connection_state, requested, received, FinalReport>>
      BY <1>9, Zenon DEF CancelConnecting, FinalReport
    <2>2. /\ ends = <<>> /\ ~FinalReport /\ connection_state # "Closed"
          /\ Has(requested, "disconnect")
      BY <2>1 DEF ReportInv, Visible
    <2>3. Len(ends) = 0 /\ Len(ends') = 1
      BY <2>1, <2>2
    <2>4. ~EarlyReport
      BY <2>2, <2>3 DEF EarlyReport
    <2>5. EarlyReport' = TRUE
      BY <2>1, <2>2, <2>3, Zenon DEF EarlyReport
    <2>6. Contract!ReportEarly
      BY <2>1, <2>2, <2>4, <2>5, Zenon DEF Contract!ReportEarly, Contract!GaveUp, Has
    <2> QED
      BY <2>6 DEF Contract!Next
  <1>10. CASE RunSessionFinished
    <2>1. /\ posted = "finished" /\ posted' = "none" /\ pc = "last"
          /\ UNCHANGED <<connection_state, requested, received, pc>>
      BY <1>10 DEF RunSessionFinished, ControlInv
    <2>2. PICK r \in Ends : ends' = Append(ends, r)
      BY <1>10 DEF RunSessionFinished, Ends
    <2>3. ~FinalReport /\ FinalReport' = TRUE /\ connection_state = "Disconnected"
      BY <2>1 DEF FinalReport, ControlInv
    <2>4. Len(ends) \in Nat /\ Len(ends') = Len(ends) + 1
      BY <1>0, <2>2
    <2>5. EarlyReport' = EarlyReport
      <3>1. (Len(ends') = 2) = (Len(ends) = 1)
        <4> DEFINE n == Len(ends)
                   k == Len(ends')
        <4>1. n \in Nat /\ k = n + 1
          BY <2>4
        <4> HIDE DEF n, k
        <4>2. k = 2 <=> n = 1
          BY <4>1
        <4> QED
          BY <4>2 DEF n, k
      <3>2. EarlyReport' = (Len(ends') = 2) /\ EarlyReport = (Len(ends) = 1)
        BY <2>3, Zenon DEF EarlyReport
      <3> QED
        BY <3>1, <3>2, Zenon
    <2>6. Contract!ReportFinal
      BY <2>1, <2>3, <2>5, Zenon DEF Contract!ReportFinal
    <2> QED
      BY <2>6 DEF Contract!Next
  <1> QED
    BY <1>1, <1>2, <1>3, <1>4, <1>5, <1>6, <1>7, <1>8, <1>9, <1>10, UnseenStep

\* The two threads, the pipe, the dialogs and the posted selectors implement the contract:
\* one connection, an ordered event stream that stops at the disconnect event, one
\* final report and at most one early one.
THEOREM Refinement == Spec => KeepsContract
  BY TypeInit, TypeStep, EventStreamInit, EventStreamStep, ControlInit, ControlStep,
     ReportInit, ReportStep, ContractInit, ContractStep, PTL
     DEF Spec, KeepsContract, Contract!Spec

=============================================================================
