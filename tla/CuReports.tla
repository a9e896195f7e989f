------------------------------- MODULE CuReports -------------------------------
(***************************************************************************)
(* What the client reports to the CU server about the remote applications  *)
(* a user opens: the recoverMsg heartbeat of CuWebViewController.m, the    *)
(* background heartbeat of AppDelegate.m, and what the end of a session    *)
(* does to them.                                                           *)
(*                                                                         *)
(* All of them read the one vminfo singleton. Launching runs on the web    *)
(* view's JavaScript thread (JSCallOc.m posts the notifications there,     *)
(* and NSNotificationCenter calls observers on the posting thread), and so *)
(* does the recover timer, which is scheduled on that thread's run loop;   *)
(* the ends of sessions, the background timer and the application's life   *)
(* cycle run on the main thread.                                           *)
(***************************************************************************)
EXTENDS Naturals, FiniteSets

CONSTANT MaxLaunches    \* bound: launches the web page requests

ASSUME LaunchAssumption == MaxLaunches \in Nat \ {0}

Launches == 1..MaxLaunches

VARIABLES
    cuIp,          \* vminfo.cuIp has been set
    launches,      \* how many launches the page has requested
    info,         \* vminfo's connection fields: the launch they describe, 0 before any
    recover,       \* vminfo.multiRdpRecoverInfo: the launch it names, 0 for nil
    session,       \* what became of the session of each launch
    timers,        \* the scheduled recover timers
    recoverTimer,  \* vminfo.recoverTimer, 0 for nil
    made,          \* how many recover timers were created
    app,           \* the application is in the foreground, background or crashed
    bgTimer,       \* AppDelegate's background timer is scheduled
    wpc,           \* where the JavaScript thread is
    mpc,           \* where the main thread is
    ending,        \* the session runSessionFinished is about, 0 if none
    outbox,        \* history: the requests that were sent
    late           \* history: the cancelled sessions that ended since the newest
                   \* launch looked at recoverTimer

rvars == <<cuIp, launches, info, recover, session, timers, recoverTimer, made,
           app, bgTimer, wpc, mpc, ending, outbox, late>>

\* What sendMessage posts; the body is reduced to the launch it names.
Request(kind, about) == [kind |-> kind, about |-> about]

Init ==
    /\ cuIp = FALSE
    /\ launches = 0
    /\ info = 0
    /\ recover = 0
    /\ session = [n \in Launches |-> "none"]
    /\ timers = {}
    /\ recoverTimer = 0
    /\ made = 0
    /\ app = "foreground"
    /\ bgTimer = FALSE
    /\ wpc = "idle"
    /\ mpc = "runloop"
    /\ ending = 0
    /\ outbox = {}
    /\ late = {}

Running == app # "crashed"

-----------------------------------------------------------------------------
(* JavaScript thread *)

\* AcceptUidAndKeepHeartBeat (operation setIp) and getCUAddress.
SetCuIp ==
    /\ app = "foreground" /\ wpc = "idle"
    /\ cuIp' = TRUE
    /\ UNCHANGED <<launches, info, recover, session, timers, recoverTimer, made, app,
                   bgTimer, wpc, mpc, ending, outbox, late>>

\* AcceptTheDataFromJs overwrites the connection fields and, when no parameter is
\* missing, goes on to openRdp. The page is usable while no session covers it.
AcceptTheDataFromJs(complete) ==
    /\ app = "foreground" /\ wpc = "idle" /\ cuIp
    /\ \A n \in Launches : session[n] \notin {"created", "shown"}
    /\ launches < MaxLaunches
    /\ launches' = launches + 1
    /\ info' = launches + 1
    /\ wpc' = IF complete THEN "open" ELSE "idle"
    /\ UNCHANGED <<cuIp, recover, session, timers, recoverTimer, made, app, bgTimer, mpc,
                   ending, outbox, late>>

\* openRdp creates the session and has it presented by a block on the main queue. The
\* branch for docker applications is never taken, as vminfo.apptype is never assigned.
openRdp ==
    /\ Running /\ wpc = "open" /\ wpc' = "store"
    /\ session' = [session EXCEPT ![info] = "created"]
    /\ UNCHANGED <<cuIp, launches, info, recover, timers, recoverTimer, made, app, bgTimer,
                   mpc, ending, outbox, late>>

\* While the session may be shown, connect or end, openRdp goes on: it replaces the
\* recover info by this launch's and posts postMessageToservice, whose handler first
\* sends a recoverMsg.
StoreRecoverInfo ==
    /\ Running /\ wpc = "store" /\ wpc' = "test"
    /\ recover' = info
    /\ outbox' = outbox \union {Request("recoverMsg", info)}
    /\ UNCHANGED <<cuIp, launches, info, session, timers, recoverTimer, made, app, bgTimer,
                   mpc, ending, late>>

\* Mutant of TestRecoverTimer: the timer is created once in the life of the application.
TestRecoverTimerOnce ==
    /\ Running /\ wpc = "test"
    /\ wpc' = IF made = 0 THEN "create" ELSE "idle"
    /\ late' = {}
    /\ UNCHANGED <<cuIp, launches, info, recover, session, timers, recoverTimer, made,
                   app, bgTimer, mpc, ending, outbox>>

\* postMessageToService then tests recoverTimer ...
TestRecoverTimer ==
    /\ Running /\ wpc = "test"
    /\ wpc' = IF recoverTimer = 0 THEN "create" ELSE "idle"
    /\ late' = {}
    /\ UNCHANGED <<cuIp, launches, info, recover, session, timers, recoverTimer, made,
                   app, bgTimer, mpc, ending, outbox>>

\* Mutant of CreateRecoverTimer: schedules a timer and does not leave the method.
CreateRecoverTimerAgain ==
    /\ Running /\ wpc = "create"
    /\ made' = made + 1
    /\ recoverTimer' = made + 1
    /\ timers' = timers \union {made + 1}
    /\ UNCHANGED <<cuIp, launches, info, recover, session, app, bgTimer, wpc, mpc,
                   ending, outbox, late>>

\* ... and schedules the repeating 300 s timer if there was none.
CreateRecoverTimer ==
    /\ Running /\ wpc = "create" /\ wpc' = "idle"
    /\ made' = made + 1
    /\ recoverTimer' = made + 1
    /\ timers' = timers \union {made + 1}
    /\ UNCHANGED <<cuIp, launches, info, recover, session, app, bgTimer, mpc, ending,
                   outbox, late>>

\* sendTimerMessage, on the run loop of the JavaScript thread.
RecoverTimerFires ==
    /\ Running /\ wpc = "idle" /\ timers # {}
    /\ outbox' = outbox \union {Request("recoverMsg", recover)}
    /\ UNCHANGED <<cuIp, launches, info, recover, session, timers, recoverTimer, made,
                   app, bgTimer, wpc, mpc, ending, late>>

-----------------------------------------------------------------------------
(* Main thread *)

\* The block openRdp dispatched to the main queue.
PresentSession(n) ==
    /\ Running /\ mpc = "runloop" /\ session[n] = "created"
    /\ session' = [session EXCEPT ![n] = "shown"]
    /\ UNCHANGED <<cuIp, launches, info, recover, timers, recoverTimer, made, app,
                   bgTimer, wpc, mpc, ending, outbox, late>>

\* disconnect while connecting: sessionDidDisconnect builds the logoff request, which
\* closeOpenRdp never resumes, and dismisses the view; the thread goes on.
CancelConnecting(n) ==
    /\ mpc = "runloop" /\ app = "foreground" /\ session[n] = "shown"
    /\ session' = [session EXCEPT ![n] = "hidden"]
    /\ UNCHANGED <<cuIp, launches, info, recover, timers, recoverTimer, made, app,
                   bgTimer, wpc, mpc, ending, outbox, late>>

\* runSessionFinished posts stoppostMessageToservice: it invalidates the timer ...
RunSessionFinished(n) ==
    /\ Running /\ mpc = "runloop" /\ session[n] \in {"shown", "hidden"}
    /\ timers' = timers \ {recoverTimer}
    /\ ending' = n /\ mpc' = "stop"
    /\ UNCHANGED <<cuIp, launches, info, recover, session, recoverTimer, made, app,
                   bgTimer, wpc, outbox, late>>

\* Mutant of StopReports: the pointer is left to the invalidated timer.
StopKeepsPointer ==
    /\ Running /\ mpc = "stop" /\ mpc' = "runloop"
    /\ session' = [session EXCEPT ![ending] = "finished"]
    /\ late' = late \union {k \in {ending} : session[k] = "hidden"}
    /\ ending' = 0
    /\ UNCHANGED <<cuIp, launches, info, recover, timers, recoverTimer, made, app,
                   bgTimer, wpc, outbox>>

\* ... and sets recoverTimer to nil. The report of the end that follows builds the
\* logoff request (and, for a docker application, the docker one) and never resumes it.
StopReports ==
    /\ Running /\ mpc = "stop" /\ mpc' = "runloop"
    /\ recoverTimer' = 0
    /\ session' = [session EXCEPT ![ending] = "finished"]
    /\ late' = late \union {k \in {ending} : session[k] = "hidden"}
    /\ ending' = 0
    /\ UNCHANGED <<cuIp, launches, info, recover, timers, made, app, bgTimer, wpc,
                   outbox>>

\* applicationDidEnterBackground.
EnterBackground ==
    /\ mpc = "runloop" /\ app = "foreground"
    /\ app' = "background"
    /\ bgTimer' = (bgTimer \/ cuIp)
    /\ UNCHANGED <<cuIp, launches, info, recover, session, timers, recoverTimer, made,
                   wpc, mpc, ending, outbox, late>>

\* AppDelegate's sendMessage: serialising nil raises an exception; otherwise the
\* request that is resumed is a second one, without path and without body.
BackgroundTimerFires ==
    /\ mpc = "runloop" /\ app = "background" /\ bgTimer
    /\ IF recover = 0
         THEN app' = "crashed" /\ UNCHANGED outbox
         ELSE outbox' = outbox \union {Request("empty", 0)} /\ UNCHANGED app
    /\ UNCHANGED <<cuIp, launches, info, recover, session, timers, recoverTimer, made,
                   bgTimer, wpc, mpc, ending, late>>

\* applicationWillEnterForeground.
EnterForeground ==
    /\ mpc = "runloop" /\ app = "background"
    /\ app' = "foreground"
    /\ bgTimer' = FALSE
    /\ UNCHANGED <<cuIp, launches, info, recover, session, timers, recoverTimer, made,
                   wpc, mpc, ending, outbox, late>>

Next ==
    \/ SetCuIp \/ openRdp \/ StoreRecoverInfo \/ TestRecoverTimer \/ CreateRecoverTimer
    \/ RecoverTimerFires
    \/ \E complete \in BOOLEAN : AcceptTheDataFromJs(complete)
    \/ \E n \in Launches : PresentSession(n) \/ CancelConnecting(n) \/ RunSessionFinished(n)
    \/ StopReports \/ EnterBackground \/ BackgroundTimerFires \/ EnterForeground

Spec == Init /\ [][Next]_rvars

-----------------------------------------------------------------------------
(* Properties *)

\* The types of vminfo's fields and of the model's control variables.
TypeOK ==
    /\ cuIp \in BOOLEAN /\ bgTimer \in BOOLEAN
    /\ launches \in 0..MaxLaunches
    /\ info \in 0..MaxLaunches
    /\ recover \in 0..MaxLaunches
    /\ session \in [Launches -> {"none", "created", "shown", "hidden", "finished"}]
    /\ timers \subseteq Launches
    /\ recoverTimer \in 0..MaxLaunches
    /\ made \in 0..MaxLaunches
    /\ app \in {"foreground", "background", "crashed"}
    /\ wpc \in {"idle", "open", "store", "test", "create"}
    /\ mpc \in {"runloop", "stop"}
    /\ ending \in 0..MaxLaunches
    /\ late \subseteq Launches

\* While a session is on screen and its launch is through, the CU has been told of it and
\* goes on being told: recoverTimer is a scheduled timer, which the end of the session
\* will stop, and what it sends names this session. Only the late end of a session that
\* was cancelled while connecting takes the heartbeat away, as stoppostMessageToservice is
\* not told which session ended, and only if it was not over when this launch looked at
\* recoverTimer; no other interleaving of postMessageToService with the ends of sessions
\* does.
HeartbeatOnScreen ==
    \A n \in Launches :
        session[n] = "shown" /\ wpc = "idle" /\ mpc = "runloop" /\ late = {} =>
            /\ Request("recoverMsg", n) \in outbox
            /\ recover = n
            /\ recoverTimer \in timers

\* vminfo.recoverTimer is nil or a timer that is scheduled, except between the two
\* statements of stoppostMessageToservice; so "if (!recoverTimer)" asks the right
\* question when no session is just ending.
PointerIsScheduled == recoverTimer # 0 /\ mpc = "runloop" => recoverTimer \in timers
=============================================================================
