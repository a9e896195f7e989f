-------------------------- MODULE ConnectTimerProofs --------------------------
(***************************************************************************)
(* What holds of the timers and view controllers for every number of       *)
(* sessions: the types, and that nothing still refers to a controller that *)
(* has been deallocated.                                                   *)
(***************************************************************************)
EXTENDS ConnectTimer, TLAPS

\* what retains a controller beside the screen: its two timers and its own menu's block
Held(n) == n \in live \union live2 \union menu

\* A timer that fires and the menu's block find the controller they were made for.
HeldAlive == \A n \in Sessions : Held(n) => Alive(n)

\* Once its session has ended, a controller is off the screen, and a session that has
\* begun has a controller.
FinishedGone ==
    \A n \in Sessions :
        /\ sess[n] # "idle" => view[n] # "none"
        /\ sess[n] = "finished" => view[n] \in {"dismissed", "dealloced"}

IInv == TypeOK /\ HeldAlive /\ FinishedGone

-----------------------------------------------------------------------------

\* Nothing is scheduled at launch.
LEMMA InitOK == Init => IInv
<1> SUFFICES ASSUME Init PROVE TypeOK /\ HeldAlive /\ FinishedGone
    BY DEF IInv
<1>1. 0 \in 0..MaxSessions
    BY SessionsAssumption
<1>2. TypeOK
    BY <1>1 DEF Init, TypeOK
<1>3. HeldAlive /\ FinishedGone
    BY DEF Init, HeldAlive, Held, FinishedGone
<1> QED BY <1>2, <1>3

\* invalidate and its omission only take timers from the run loop.
LEMMA TimerStep ==
    ASSUME TypeOK, Invalidate \/ KeepTimer
    PROVE  live' \subseteq live /\ freedUsed' \in BOOLEAN
BY DEF TypeOK, Invalidate, KeepTimer

\* Dismissing a controller does not deallocate it.
LEMMA DismissedAlive ==
    ASSUME TypeOK, NEW n \in Sessions
    PROVE  /\ Dismissed(n) \in [Sessions -> {"none", "shown", "dismissed", "dealloced"}]
           /\ \A k \in Sessions : Alive(k) => Dismissed(n)[k] \in {"shown", "dismissed"}
BY DEF TypeOK, Dismissed, Alive

\* A step that schedules nothing and only dismisses keeps the invariant.
LEMMA HeldStays ==
    ASSUME HeldAlive, live' \subseteq live, live2' \subseteq live2, menu' \subseteq menu,
           \A k \in Sessions : Alive(k) => Alive(k)'
    PROVE  HeldAlive'
BY DEF HeldAlive, Held

\* A controller is held only from the moment it is shown, and every step that adds a
\* timer or sets up the menu finds it alive; dealloc waits until nothing holds it.
LEMMA NextOK == IInv /\ [Next]_tvars => IInv'
<1> SUFFICES ASSUME TypeOK, HeldAlive, FinishedGone, [Next]_tvars
             PROVE  TypeOK' /\ HeldAlive' /\ FinishedGone'
    BY DEF IInv
<1>1. CASE UNCHANGED tvars
    <2>1. TypeOK'
        BY <1>1 DEF tvars, TypeOK
    <2>2. HeldAlive'
        BY <1>1 DEF tvars, HeldAlive, Held, Alive
    <2>9. FinishedGone'
        BY <1>1 DEF tvars, FinishedGone
    <2> QED BY <2>1, <2>2, <2>9
<1>2. ASSUME NEW n \in Sessions, sessionWillConnect(n)
      PROVE  TypeOK' /\ HeldAlive' /\ FinishedGone'
    <2>3. n \in 0..MaxSessions
        BY SessionsAssumption DEF Sessions
    <2>1. TypeOK'
        BY <1>2, <2>3 DEF sessionWillConnect, TypeOK
    <2>2. HeldAlive'
        BY <1>2 DEF sessionWillConnect, TypeOK, HeldAlive, Held, Alive
    <2>9. FinishedGone'
        BY <1>2 DEF sessionWillConnect, TypeOK, FinishedGone
    <2> QED BY <2>1, <2>2, <2>9
<1>3. ASSUME NEW n \in Sessions, requestsAuthentication(n)
      PROVE  TypeOK' /\ HeldAlive' /\ FinishedGone'
    <2>1. TypeOK'
        BY <1>3 DEF requestsAuthentication, TypeOK
    <2>2. HeldAlive'
        BY <1>3, HeldStays DEF requestsAuthentication, Alive
    <2>9. FinishedGone'
        BY <1>3 DEF requestsAuthentication, TypeOK, FinishedGone
    <2> QED BY <2>1, <2>2, <2>9
<1>4. ASSUME NEW n \in Sessions, verifyCertificate(n)
      PROVE  TypeOK' /\ HeldAlive' /\ FinishedGone'
    <2>1. live' \subseteq live /\ freedUsed' \in BOOLEAN
        BY <1>4, TimerStep DEF verifyCertificate
    <2>2. TypeOK'
        BY <1>4, <2>1 DEF verifyCertificate, TypeOK
    <2>3. HeldAlive'
        BY <1>4, <2>1, HeldStays DEF verifyCertificate, Alive
    <2>9. FinishedGone'
        BY <1>4 DEF verifyCertificate, TypeOK, FinishedGone
    <2> QED BY <2>2, <2>3, <2>9
<1>5. ASSUME NEW n \in Sessions, NEW connecting \in BOOLEAN, cancelButtonPressed(n, connecting)
      PROVE  TypeOK' /\ HeldAlive' /\ FinishedGone'
    <2>1. live' \subseteq live /\ freedUsed' \in BOOLEAN
        BY <1>5, TimerStep DEF cancelButtonPressed
    <2>2. view' = Dismissed(n) \/ view' = view
        BY <1>5 DEF cancelButtonPressed
    <2>3. TypeOK'
        BY <1>5, <2>1, <2>2, DismissedAlive DEF cancelButtonPressed, TypeOK
    <2>4. HeldAlive'
        BY <1>5, <2>1, <2>2, DismissedAlive, HeldStays DEF cancelButtonPressed, Alive
    <2>9. FinishedGone'
        BY <1>5 DEF cancelButtonPressed, Dismissed, TypeOK, FinishedGone
    <2> QED BY <2>3, <2>4, <2>9
<1>6. ASSUME NEW n \in Sessions, sessionDidConnect(n)
      PROVE  TypeOK' /\ HeldAlive' /\ FinishedGone'
    <2>1. live' \subseteq live /\ freedUsed' \in BOOLEAN
        BY <1>6, TimerStep DEF sessionDidConnect
    <2>2. live2' = live2 \/ (Alive(n) /\ live2' = live2 \union {n})
        BY <1>6 DEF sessionDidConnect
    <2>3. is_timeup' \in BOOLEAN /\ is_closed' \in BOOLEAN
        BY <1>6 DEF sessionDidConnect, TypeOK
    <2>4. TypeOK'
        BY <1>6, <2>1, <2>2, <2>3 DEF sessionDidConnect, TypeOK
    <2>5. HeldAlive'
        BY <1>6, <2>1, <2>2 DEF sessionDidConnect, HeldAlive, Held, Alive
    <2>9. FinishedGone'
        BY <1>6 DEF sessionDidConnect, TypeOK, FinishedGone
    <2> QED BY <2>4, <2>5, <2>9
<1>7. ASSUME NEW n \in Sessions, sessionFinished(n)
      PROVE  TypeOK' /\ HeldAlive' /\ FinishedGone'
    <2>1. TypeOK'
        BY <1>7, DismissedAlive DEF sessionFinished, TypeOK
    <2>2. HeldAlive'
        BY <1>7, DismissedAlive, HeldStays DEF sessionFinished, Alive
    <2>9. FinishedGone'
        BY <1>7 DEF sessionFinished, Dismissed, TypeOK, FinishedGone
    <2> QED BY <2>1, <2>2, <2>9
<1>8. ASSUME NEW n \in Sessions, onTimer(n) \/ onTimer2(n)
      PROVE  TypeOK' /\ HeldAlive' /\ FinishedGone'
    <2>1. TypeOK'
        BY <1>8 DEF onTimer, onTimer2, TypeOK
    <2>2. HeldAlive'
        BY <1>8 DEF onTimer, onTimer2, HeldAlive, Held, Alive
    <2>9. FinishedGone'
        BY <1>8 DEF onTimer, onTimer2, TypeOK, FinishedGone
    <2> QED BY <2>1, <2>2, <2>9
<1>9. ASSUME NEW n \in Sessions, dealloc(n)
      PROVE  TypeOK' /\ HeldAlive' /\ FinishedGone'
    <2>1. TypeOK'
        BY <1>9 DEF dealloc, TypeOK
    <2>2. HeldAlive'
        BY <1>9 DEF dealloc, HeldAlive, Held, Alive, TypeOK
    <2>9. FinishedGone'
        BY <1>9 DEF dealloc, TypeOK, FinishedGone
    <2> QED BY <2>1, <2>2, <2>9
<1> QED BY <1>1, <1>2, <1>3, <1>4, <1>5, <1>6, <1>7, <1>8, <1>9 DEF Next

\* Every variable keeps its type, whatever the order of callbacks, buttons and timers.
THEOREM TypeCorrect == Spec => []TypeOK
<1>1. IInv => TypeOK
    BY DEF IInv
<1> QED BY <1>1, InitOK, NextOK, PTL DEF Spec

\* onTimer, onTimer2 and the menu's block never run on a controller that has been
\* deallocated, although cancelling and failing leave the 15 s timer scheduled.
THEOREM TimersFindController == Spec => []HeldAlive
<1>1. IInv => HeldAlive
    BY DEF IInv
<1> QED BY <1>1, InitOK, NextOK, PTL DEF Spec

\* session:didFailToConnect: and sessionDidDisconnect: whatever the user, the timers and the
\* other callbacks did before, the controller of a session that has ended is no longer
\* shown (the part of UnconnectedReleased that needs no fairness).
THEOREM FinishedLeavesScreen == Spec => []FinishedGone
<1>1. IInv => FinishedGone
    BY DEF IInv
<1> QED BY <1>1, InitOK, NextOK, PTL DEF Spec
===============================================================================
