----------------------------- MODULE ConnectTimer -----------------------------
(***************************************************************************)
(* The 15 s timer RDPSessionViewController.m starts while a session is     *)
(* connecting, the 5 s timer of its "connected" cover, and what they do to *)
(* the lifetime of the view controllers. timer, is_timeup and is_closed    *)
(* are global variables of RDPSessionViewController.h, shared by every     *)
(* controller. Everything runs on the main thread; the session's callbacks *)
(* come in the order in which its connection thread posts them.            *)
(***************************************************************************)
EXTENDS Naturals

CONSTANT MaxSessions    \* bound: sessions opened one after the other

ASSUME SessionsAssumption == MaxSessions \in Nat \ {0}

Sessions == 1..MaxSessions

VARIABLES
    sess,         \* per session: idle, connecting, connected, finished
    view,         \* per controller: none, shown, dismissed, dealloced
    timer,        \* the global timer: the session it was started for, 0 for nil
    live,         \* the sessions whose 15 s timer is scheduled (it retains the controller)
    live2,        \* the same for the 5 s timer
    menu,         \* the controllers retained by the block of their own menu
    is_timeup,
    is_closed,
    freedUsed     \* history: invalidate was sent to a timer that is gone

tvars == <<sess, view, timer, live, live2, menu, is_timeup, is_closed, freedUsed>>

Alive(n) == view[n] \in {"shown", "dismissed"}

\* Mutant of Dismissed: the controller is popped from a navigation stack, the call the code
\* has commented out.
Popped(n) == [view EXCEPT ![n] = IF @ = "shown" THEN "popped" ELSE @]

\* dismissViewControllerAnimated.
Dismissed(n) == [view EXCEPT ![n] = IF @ = "shown" THEN "dismissed" ELSE @]

Init ==
    /\ sess = [n \in Sessions |-> "idle"]
    /\ view = [n \in Sessions |-> "none"]
    /\ timer = 0
    /\ live = {}
    /\ live2 = {}
    /\ menu = {}
    /\ is_timeup = FALSE
    /\ is_closed = FALSE
    /\ freedUsed = FALSE

\* [timer invalidate]: the run loop gives up a fired or invalidated timer and nothing else
\* retains it, so the pointer is good only as long as the timer is scheduled.
Invalidate ==
    /\ live' = live \ {timer}
    /\ freedUsed' = (freedUsed \/ timer \notin live)

KeepTimer == UNCHANGED <<live, freedUsed>>

\* Mutant of onTimer: the timer was scheduled with repeats:YES.
onTimerRepeats(n) ==
    /\ n \in live
    /\ is_timeup' = TRUE
    /\ UNCHANGED <<sess, view, timer, live, live2, menu, is_closed, freedUsed>>

\* onTimer; the timer does not repeat.
onTimer(n) ==
    /\ n \in live
    /\ live' = live \ {n}
    /\ is_timeup' = TRUE
    /\ UNCHANGED <<sess, view, timer, live2, menu, is_closed, freedUsed>>

\* sessionWillConnect. Sessions are opened one after the other: the web page that opens
\* them is covered by the controller that is shown.
sessionWillConnect(n) ==
    /\ sess[n] = "idle"
    /\ \A k \in Sessions : view[k] # "shown" /\ (k < n => sess[k] # "idle")
    /\ sess' = [sess EXCEPT ![n] = "connecting"]
    /\ view' = [view EXCEPT ![n] = "shown"]
    /\ timer' = n
    /\ live' = live \union {n}
    /\ is_timeup' = FALSE
    /\ is_closed' = FALSE
    /\ UNCHANGED <<live2, menu, freedUsed>>

\* requestsAuthenticationWithParams: the line that closes the timer is commented out.
requestsAuthentication(n) ==
    /\ sess[n] = "connecting" /\ Alive(n)
    /\ ~is_timeup /\ ~is_closed
    /\ is_closed' = TRUE
    /\ UNCHANGED <<sess, view, timer, live, live2, menu, is_timeup, freedUsed>>

\* verifyCertificateWithParams.
verifyCertificate(n) ==
    /\ sess[n] = "connecting" /\ Alive(n)
    /\ ~is_timeup /\ ~is_closed
    /\ Invalidate
    /\ is_closed' = TRUE
    /\ UNCHANGED <<sess, view, timer, live2, menu, is_timeup>>

\* cancelButtonPressed. disconnect dismisses the controller at once only when the thread
\* has already set connection_state to Connecting; before that the button stays on screen.
cancelButtonPressed(n, connecting) ==
    /\ sess[n] = "connecting" /\ view[n] = "shown"
    /\ IF ~is_timeup /\ ~is_closed THEN Invalidate ELSE KeepTimer
    /\ view' = IF connecting THEN Dismissed(n) ELSE view
    /\ UNCHANGED <<sess, timer, live2, menu, is_timeup, is_closed>>

\* sessionDidConnect (posted even for a session cancelled meanwhile) and sessionConnected.
sessionDidConnect(n) ==
    /\ sess[n] = "connecting"
    /\ sess' = [sess EXCEPT ![n] = "connected"]
    /\ IF Alive(n)
         THEN /\ IF is_timeup THEN Invalidate ELSE KeepTimer
              /\ is_timeup' = TRUE /\ is_closed' = TRUE
              /\ live2' = live2 \union {n}
         ELSE KeepTimer /\ UNCHANGED <<is_timeup, is_closed, live2>>
    /\ UNCHANGED <<view, timer, menu>>

\* onTimer2 sets up the menu, whose block retains the controller that owns the menu.
onTimer2(n) ==
    /\ n \in live2
    /\ live2' = live2 \ {n}
    /\ menu' = menu \union {n}
    /\ UNCHANGED <<sess, view, timer, live, is_timeup, is_closed, freedUsed>>

\* session:didFailToConnect: (its two contradictory tests never close the timer) and
\* sessionDidDisconnect, at the end of the connection thread.
sessionFinished(n) ==
    /\ sess[n] \in {"connecting", "connected"}
    /\ sess' = [sess EXCEPT ![n] = "finished"]
    /\ view' = Dismissed(n)
    /\ UNCHANGED <<timer, live, live2, menu, is_timeup, is_closed, freedUsed>>

\* dealloc, when neither the screen nor a timer nor the menu's block retains the controller.
dealloc(n) ==
    /\ view[n] = "dismissed" /\ n \notin live \union live2 \union menu
    /\ view' = [view EXCEPT ![n] = "dealloced"]
    /\ UNCHANGED <<sess, timer, live, live2, menu, is_timeup, is_closed, freedUsed>>

Next ==
    \E n \in Sessions :
        \/ sessionWillConnect(n) \/ requestsAuthentication(n) \/ verifyCertificate(n)
        \/ sessionDidConnect(n) \/ sessionFinished(n)
        \/ onTimer(n) \/ onTimer2(n) \/ dealloc(n)
        \/ \E connecting \in BOOLEAN : cancelButtonPressed(n, connecting)

Spec == Init /\ [][Next]_tvars

\* The run loop fires every timer that stays scheduled and drains its autorelease pool.
FairSpec ==
    /\ Spec
    /\ \A n \in Sessions :
          WF_tvars(onTimer(n)) /\ WF_tvars(onTimer2(n)) /\ WF_tvars(dealloc(n))

-----------------------------------------------------------------------------
(* Properties *)

\* The types of the globals and of the model's bookkeeping.
TypeOK ==
    /\ sess \in [Sessions -> {"idle", "connecting", "connected", "finished"}]
    /\ view \in [Sessions -> {"none", "shown", "dismissed", "dealloced"}]
    /\ timer \in 0..MaxSessions
    /\ live \subseteq Sessions /\ live2 \subseteq Sessions /\ menu \subseteq Sessions
    /\ is_timeup \in BOOLEAN /\ is_closed \in BOOLEAN /\ freedUsed \in BOOLEAN

\* A controller whose session ended without ever reporting a connection is released,
\* although failing and cancelling leave its 15 s timer running.
UnconnectedReleased ==
    \A n \in Sessions :
        sess[n] = "finished" /\ n \notin live2 \union menu ~> view[n] = "dealloced"

\* RDPSessionViewController.m on both tests: "close it only while the timer has not
\* expired". invalidate is only ever sent to a timer that still exists.
InvalidatesOnlyRunning == ~freedUsed
===============================================================================
