---------------------------- MODULE CuReportsProofs ----------------------------
(***************************************************************************)
(* Proofs about CuReports for any number of launches: the session on       *)
(* screen has its heartbeat, however the JavaScript thread and the main    *)
(* thread interleave, unless a cancelled session ends late, and the        *)
(* recover timer's pointer is nil or scheduled.                            *)
(***************************************************************************)
EXTENDS CuReports, TLAPS

-----------------------------------------------------------------------------
(* Types *)

\* A launch creates at most one timer: the thread that is about to create one has a
\* launch of its own for it. vminfo describes the last launch, and the session that is
\* ending is one that was launched.
CountInv ==
    /\ info = launches
    /\ made <= launches
    /\ wpc # "idle" => made < launches
    /\ mpc = "stop" => ending \in Launches

TypeInv == TypeOK /\ CountInv

\* Before the first launch nothing is counted.
LEMMA TypeInit == Init => TypeInv
<1> SUFFICES ASSUME Init PROVE TypeInv  OBVIOUS
<1>1. cuIp \in BOOLEAN /\ bgTimer \in BOOLEAN
  BY Zenon DEF Init
<1>2. /\ launches \in 0..MaxLaunches /\ info \in 0..MaxLaunches /\ recover \in 0..MaxLaunches
      /\ recoverTimer \in 0..MaxLaunches /\ made \in 0..MaxLaunches /\ ending \in 0..MaxLaunches
      /\ CountInv
  BY LaunchAssumption DEF LaunchAssumption, Init, CountInv
<1>3. /\ session \in [Launches -> {"none", "created", "shown", "hidden", "finished"}]
      /\ timers \subseteq Launches /\ late \subseteq Launches
  BY DEF Init
<1>4. /\ app \in {"foreground", "background", "crashed"}
      /\ wpc \in {"idle", "open", "store", "test", "create"} /\ mpc \in {"runloop", "stop"}
  BY DEF Init
<1>. QED  BY <1>1, <1>2, <1>3, <1>4 DEF TypeInv, TypeOK

\* Every step of either thread keeps the types and the count of launches and timers.
LEMMA TypeStep == TypeInv /\ [Next]_rvars => TypeInv'
<1> SUFFICES ASSUME TypeInv, [Next]_rvars PROVE TypeInv'  OBVIOUS
<1>0. cuIp' \in BOOLEAN /\ bgTimer' \in BOOLEAN
  <2>0. cuIp \in BOOLEAN /\ bgTimer \in BOOLEAN
    BY DEF TypeInv, TypeOK
  <2>1. CASE SetCuIp
    BY <2>0, <2>1, Zenon DEF SetCuIp
  <2>2. CASE EnterBackground \/ EnterForeground
    BY <2>0, <2>2, Zenon DEF EnterBackground, EnterForeground
  <2>3. CASE ~(SetCuIp \/ EnterBackground \/ EnterForeground)
    <3>1. UNCHANGED <<cuIp, bgTimer>>
      BY <2>3 DEF Next, openRdp, StoreRecoverInfo, TestRecoverTimer, CreateRecoverTimer,
           RecoverTimerFires,
           AcceptTheDataFromJs, PresentSession, CancelConnecting, RunSessionFinished,
           StopReports, BackgroundTimerFires, rvars
    <3>. QED  BY <2>0, <3>1
  <2>. QED  BY <2>1, <2>2, <2>3
<1> DEFINE Rest == /\ launches' \in 0..MaxLaunches /\ info' \in 0..MaxLaunches
                   /\ recover' \in 0..MaxLaunches
                   /\ session' \in [Launches -> {"none", "created", "shown", "hidden", "finished"}]
                   /\ timers' \subseteq Launches /\ late' \subseteq Launches
                   /\ recoverTimer' \in 0..MaxLaunches /\ made' \in 0..MaxLaunches
                   /\ app' \in {"foreground", "background", "crashed"}
                   /\ wpc' \in {"idle", "open", "store", "test", "create"}
                   /\ mpc' \in {"runloop", "stop"} /\ ending' \in 0..MaxLaunches
                   /\ CountInv'
<1>i. Rest
  <2> USE LaunchAssumption DEF LaunchAssumption, TypeInv, TypeOK, CountInv, Launches
  <2>1. CASE SetCuIp \/ EnterBackground \/ EnterForeground \/ UNCHANGED rvars
    BY <2>1 DEF SetCuIp, EnterBackground, EnterForeground, rvars
  <2>2. CASE openRdp \/ StoreRecoverInfo
    BY <2>2 DEF openRdp, StoreRecoverInfo
  <2>3. CASE TestRecoverTimer
    BY <2>3 DEF TestRecoverTimer
  <2>4. CASE CreateRecoverTimer
    BY <2>4 DEF CreateRecoverTimer
  <2>5. CASE RecoverTimerFires \/ BackgroundTimerFires
    BY <2>5 DEF RecoverTimerFires, BackgroundTimerFires
  <2>6. ASSUME NEW complete \in BOOLEAN, AcceptTheDataFromJs(complete) PROVE Rest
    BY <2>6 DEF AcceptTheDataFromJs
  <2>7. ASSUME NEW n \in Launches, PresentSession(n) \/ CancelConnecting(n) PROVE Rest
    BY <2>7 DEF PresentSession, CancelConnecting
  <2>8. ASSUME NEW n \in Launches, RunSessionFinished(n) PROVE Rest
    BY <2>8 DEF RunSessionFinished
  <2>9. CASE StopReports
    <3>1. session' = [session EXCEPT ![ending] = "finished"]
      BY <2>9 DEF StopReports
    <3>2. session' \in [Launches -> {"none", "created", "shown", "hidden", "finished"}]
      BY <3>1
    <3>3. ending \in Launches /\ late' = late \union {k \in {ending} : session[k] = "hidden"}
      BY <2>9 DEF StopReports
    <3>4. late' \subseteq Launches
      BY <3>3
    <3>5. /\ mpc' = "runloop" /\ ending' = 0 /\ recoverTimer' = 0
          /\ UNCHANGED <<launches, info, recover, timers, made, app, wpc>>
      BY <2>9 DEF StopReports
    <3>. QED  BY <3>2, <3>4, <3>5
  <2>. QED  BY <2>1, <2>2, <2>3, <2>4, <2>5, <2>6, <2>7, <2>8, <2>9 DEF Next
<1>. QED  BY <1>0, <1>i DEF TypeInv, TypeOK

\* TypeOK is an invariant for every number of launches; in particular no more recover
\* timers are created than launches were made.
THEOREM TypeCorrect == Spec => []TypeOK
<1>1. TypeInv => TypeOK  BY DEF TypeInv
<1>. QED  BY <1>1, TypeInit, TypeStep, PTL DEF Spec

-----------------------------------------------------------------------------
(* The recover timer *)

\* Every step keeps the pointer nil or scheduled, except that runSessionFinished opens
\* the gap that StopReports closes; a timer created in that gap is forgotten, not kept
\* by a pointer to another one.
LEMMA PointerStep == PointerIsScheduled /\ [Next]_rvars => PointerIsScheduled'
<1> SUFFICES ASSUME PointerIsScheduled, [Next]_rvars PROVE PointerIsScheduled'  OBVIOUS
<1> USE DEF PointerIsScheduled
<1>1. CASE SetCuIp \/ TestRecoverTimer \/ EnterBackground \/ EnterForeground
           \/ RecoverTimerFires \/ BackgroundTimerFires \/ openRdp \/ StoreRecoverInfo
           \/ UNCHANGED rvars
  BY <1>1 DEF SetCuIp, TestRecoverTimer, EnterBackground, EnterForeground,
              RecoverTimerFires, BackgroundTimerFires, openRdp, StoreRecoverInfo, rvars
<1>2. CASE CreateRecoverTimer
  BY <1>2 DEF CreateRecoverTimer
<1>3. ASSUME NEW complete \in BOOLEAN, AcceptTheDataFromJs(complete)
      PROVE  PointerIsScheduled'
  BY <1>3 DEF AcceptTheDataFromJs
<1>4. ASSUME NEW n \in Launches,
             PresentSession(n) \/ CancelConnecting(n) \/ RunSessionFinished(n)
      PROVE  PointerIsScheduled'
  BY <1>4 DEF PresentSession, CancelConnecting, RunSessionFinished
<1>5. CASE StopReports
  BY <1>5 DEF StopReports
<1>. QED  BY <1>1, <1>2, <1>3, <1>4, <1>5 DEF Next

\* vminfo.recoverTimer is nil or scheduled whenever no session is just ending.
THEOREM PointerCorrect == Spec => []PointerIsScheduled
<1>1. Init => PointerIsScheduled  BY DEF Init, PointerIsScheduled
<1>. QED  BY <1>1, PointerStep, PTL DEF Spec

-----------------------------------------------------------------------------
(* The heartbeat *)

\* Only the newest launch has a session that is waiting to be shown or on screen, and it
\* has none before openRdp has run. While the session of the launch may be on screen, its
\* recover info is stored and sent once the launch has passed StoreRecoverInfo, and once
\* the launch is through it has the timer it found or made, unless a session is just
\* ending or a cancelled one has ended since. The session that is ending is still on
\* screen or was cancelled, so StopReports takes a timer from another session only if it
\* records it in late.
OnScreen(n) == session[n] \in {"created", "shown"}

HeartInv ==
    /\ \A n \in Launches : OnScreen(n) => n = info /\ wpc # "open"
    /\ wpc = "open" => info \in Launches
    /\ wpc \in {"test", "create"} => recover = info /\ Request("recoverMsg", info) \in outbox
    /\ \A n \in Launches : OnScreen(n) /\ wpc = "idle" =>
                               recover = n /\ Request("recoverMsg", n) \in outbox
    /\ \A n \in Launches : OnScreen(n) /\ wpc = "idle" /\ mpc = "runloop" /\ late = {} =>
                               recoverTimer \in timers
    /\ mpc = "stop" => OnScreen(ending) \/ session[ending] = "hidden"

\* No session exists in the initial state.
LEMMA HeartInit == Init => HeartInv
<1> SUFFICES ASSUME Init PROVE HeartInv  OBVIOUS
<1>. QED  BY DEF Init, HeartInv, OnScreen

\* Every step of either thread keeps the heartbeat of the session on screen.
LEMMA HeartStep == TypeInv /\ PointerIsScheduled /\ HeartInv /\ [Next]_rvars => HeartInv'
<1> SUFFICES ASSUME TypeInv, PointerIsScheduled, HeartInv, [Next]_rvars PROVE HeartInv'
  OBVIOUS
<1>0. /\ session \in [Launches -> {"none", "created", "shown", "hidden", "finished"}]
      /\ launches \in Nat /\ info = launches
      /\ mpc \in {"runloop", "stop"} /\ wpc \in {"idle", "open", "store", "test", "create"}
      /\ mpc = "stop" => ending \in Launches
  BY LaunchAssumption DEF LaunchAssumption, TypeInv, TypeOK, CountInv
<1>1. CASE SetCuIp \/ EnterBackground \/ EnterForeground \/ UNCHANGED rvars
  BY <1>1 DEF HeartInv, OnScreen, SetCuIp, EnterBackground, EnterForeground, rvars
<1>2. CASE RecoverTimerFires \/ BackgroundTimerFires
  <2>1. /\ UNCHANGED <<session, info, recover, wpc, mpc, late, recoverTimer, timers, ending>>
        /\ outbox \subseteq outbox'
    BY <1>2 DEF RecoverTimerFires, BackgroundTimerFires
  <2>. QED  BY <2>1 DEF HeartInv, OnScreen
\* The page launches again only when no session covers it.
<1>3. ASSUME NEW complete \in BOOLEAN, AcceptTheDataFromJs(complete) PROVE HeartInv'
  <2>1. /\ \A n \in Launches : ~OnScreen(n)'
        /\ info' \in Launches
        /\ wpc' \in {"open", "idle"}
        /\ UNCHANGED <<mpc, ending, session>>
    BY <1>0, <1>3, LaunchAssumption
       DEF LaunchAssumption, AcceptTheDataFromJs, OnScreen, Launches
  <2>. QED  BY <2>1 DEF HeartInv, OnScreen
<1>4. CASE openRdp
  <2>1. /\ session' = [session EXCEPT ![info] = "created"] /\ wpc = "open" /\ wpc' = "store"
        /\ UNCHANGED <<info, mpc, ending>>
    BY <1>4 DEF openRdp
  <2>2. \A n \in Launches : OnScreen(n)' => n = info'
    BY <1>0, <2>1 DEF HeartInv, OnScreen
  <2>3. mpc' = "stop" => OnScreen(ending)' \/ session'[ending'] = "hidden"
    BY <1>0, <2>1 DEF HeartInv, OnScreen
  <2>. QED  BY <2>1, <2>2, <2>3 DEF HeartInv
<1>5. CASE StoreRecoverInfo
  <2>1. /\ recover' = info /\ Request("recoverMsg", info) \in outbox' /\ wpc' = "test"
        /\ UNCHANGED <<session, info, mpc, ending>>
    BY <1>5 DEF StoreRecoverInfo
  <2>. QED  BY <2>1 DEF HeartInv, OnScreen
\* A pointer that is not nil is scheduled, or a session is just ending.
<1>6. CASE TestRecoverTimer
  <2>1. /\ wpc = "test" /\ wpc' = IF recoverTimer = 0 THEN "create" ELSE "idle"
        /\ UNCHANGED <<session, info, recover, outbox, mpc, recoverTimer, timers, ending>>
    BY <1>6 DEF TestRecoverTimer
  <2>. QED  BY <2>1 DEF HeartInv, OnScreen, PointerIsScheduled
<1>7. CASE CreateRecoverTimer
  <2>1. /\ wpc = "create" /\ wpc' = "idle" /\ recoverTimer' \in timers'
        /\ UNCHANGED <<session, info, recover, outbox, mpc, ending>>
    BY <1>7 DEF CreateRecoverTimer
  <2>. QED  BY <2>1 DEF HeartInv, OnScreen
<1>8. ASSUME NEW n \in Launches, PresentSession(n) \/ CancelConnecting(n) PROVE HeartInv'
  <2>1. /\ mpc = "runloop" /\ OnScreen(n)
        /\ session' \in {[session EXCEPT ![n] = "shown"], [session EXCEPT ![n] = "hidden"]}
        /\ UNCHANGED <<info, recover, outbox, wpc, mpc, late, recoverTimer, timers, ending>>
    BY <1>8 DEF PresentSession, CancelConnecting, OnScreen
  <2>2. \A k \in Launches : OnScreen(k)' => OnScreen(k)
    BY <1>0, <2>1 DEF OnScreen
  <2>. QED  BY <2>1, <2>2 DEF HeartInv
<1>9. ASSUME NEW n \in Launches, RunSessionFinished(n) PROVE HeartInv'
  <2>1. /\ session[n] \in {"shown", "hidden"} /\ ending' = n /\ mpc' = "stop"
        /\ UNCHANGED <<session, info, recover, outbox, wpc>>
    BY <1>9 DEF RunSessionFinished
  <2>. QED  BY <2>1 DEF HeartInv, OnScreen
\* The session on screen, if it was not the one that ended, has lost its timer to a
\* cancelled one, which late records.
<1>10. CASE StopReports
  <2>1. /\ mpc = "stop" /\ mpc' = "runloop"
        /\ session' = [session EXCEPT ![ending] = "finished"]
        /\ late' = late \union {k \in {ending} : session[k] = "hidden"}
        /\ UNCHANGED <<info, recover, outbox, wpc>>
    BY <1>10 DEF StopReports
  <2>2. ending \in Launches /\ (OnScreen(ending) \/ session[ending] = "hidden")
    BY <1>0, <2>1 DEF HeartInv
  <2>3. \A k \in Launches : OnScreen(k)' => OnScreen(k) /\ k # ending
    BY <1>0, <2>1, <2>2 DEF OnScreen
  <2>4. \A k \in Launches : OnScreen(k)' => late' # {}
    <3>1. CASE session[ending] = "hidden"
      BY <2>1, <3>1
    <3>2. CASE OnScreen(ending)
      BY <2>2, <2>3, <3>2 DEF HeartInv
    <3>. QED  BY <2>2, <3>1, <3>2
  <2>. QED  BY <2>1, <2>3, <2>4 DEF HeartInv
<1>. QED  BY <1>1, <1>2, <1>3, <1>4, <1>5, <1>6, <1>7, <1>8, <1>9, <1>10 DEF Next

\* For any number of launches and every interleaving of the two threads, a session on
\* screen whose launch is through has a heartbeat that names it and can be stopped,
\* unless a session cancelled while connecting has ended late.
THEOREM HeartbeatCorrect == Spec => []HeartbeatOnScreen
<1>1. HeartInv => HeartbeatOnScreen
  BY DEF HeartInv, HeartbeatOnScreen, OnScreen
<1>2. Init => PointerIsScheduled
  BY DEF Init, PointerIsScheduled
<1>. QED  BY <1>1, <1>2, TypeInit, TypeStep, PointerStep, HeartInit, HeartStep, PTL DEF Spec
===============================================================================
