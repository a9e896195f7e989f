-------------------------- MODULE SessionInputProofs --------------------------
(***************************************************************************)
(* Proofs about SessionInput, for every threshold and any number of moves: *)
(* what coalescing does to the user's mouse moves, and that the sticky     *)
(* modifiers shown are the keys that are down at the server.               *)
(***************************************************************************)
EXTENDS SessionInput, TLAPS

-----------------------------------------------------------------------------
(* Mouse moves *)

\* Either the server has the newest move or exactly that one is scheduled, and the moves
\* held back were all counted since the last one that was sent at once.
MoveInv ==
    /\ made \in Nat /\ moved \in Nat /\ skipped \in Nat
    /\ skipped < MoveThreshold
    /\ moved <= made /\ made - moved <= skipped
    /\ IF timers = {} THEN moved = made ELSE timers = {made}

\* The initial state has no move.
LEMMA MoveInit == Init => MoveInv
BY InputAssumption DEF InputAssumption, Init, MoveInv

\* A new move replaces the scheduled one.
LEMMA MoveMade == MoveInv /\ handleMouseMove => MoveInv' /\ moved' >= moved
<1> SUFFICES ASSUME MoveInv, handleMouseMove PROVE MoveInv' /\ moved' >= moved  OBVIOUS
<1>1. CASE skipped + 1 >= MoveThreshold
  BY <1>1, InputAssumption DEF InputAssumption, MoveInv, handleMouseMove
<1>2. CASE ~(skipped + 1 >= MoveThreshold)
  BY <1>2, InputAssumption DEF InputAssumption, MoveInv, handleMouseMove
<1>. QED  BY <1>1, <1>2

\* The timer sends the newest move.
LEMMA MoveFires == MoveInv /\ sendDelayedMouseEvent => MoveInv' /\ moved' >= moved
BY InputAssumption DEF InputAssumption, MoveInv, sendDelayedMouseEvent

\* Every other handler leaves the moves alone.
LEMMA MoveQuiet == MoveInv /\ UNCHANGED moves => MoveInv' /\ moved' >= moved
BY DEF MoveInv, moves

\* Every step keeps the invariant and the order.
LEMMA MoveStep == MoveInv /\ [Next]_ivars => MoveInv' /\ moved' >= moved
<1> SUFFICES ASSUME MoveInv, [Next]_ivars PROVE MoveInv' /\ moved' >= moved  OBVIOUS
<1>1. CASE GestureMoves  BY <1>1, MoveMade DEF GestureMoves
<1>2. CASE sendDelayedMouseEvent  BY <1>2, MoveFires
<1>3. CASE (\E m \in Modifiers : toggleModifier(m))
           \/ sendUnicode \/ viewWillAppear \/ viewWillDisappear
  BY <1>3, MoveQuiet DEF toggleModifier, sendUnicode, viewWillAppear, viewWillDisappear, mouse
<1>4. CASE GestureEnds \/ handleSingle2FingersTap \/ GestureCancelled
           \/ (\E kind \in {"press", "pointer", "move"}, hit \in BOOLEAN : GestureBegins(kind, hit))
           \/ (\E double \in BOOLEAN : Tap(double))
           \/ (\E button \in {"left", "right"} : PointerTap(button))
  BY <1>4, MoveQuiet
     DEF GestureEnds, handleSingle2FingersTap, GestureCancelled, GestureBegins, Tap,
         PointerTap
<1>5. CASE UNCHANGED ivars  BY <1>5, MoveQuiet DEF ivars, mouse
<1>. QED  BY <1>1, <1>2, <1>3, <1>4, <1>5 DEF Next

\* At most MoveThreshold - 1 moves in a row are held back, for every threshold.
THEOREM Throttled == Spec => []MovesThrottled
<1>1. MoveInv => MovesThrottled
  BY InputAssumption DEF InputAssumption, MoveInv, MovesThrottled
<1>. QED  BY <1>1, MoveInit, MoveStep, PTL DEF Spec

\* No older move is sent after a newer one, at once or by the timer.
THEOREM Ordered == Spec => MovesInOrder
<1>1. MoveInv /\ [Next]_ivars => [moved' >= moved]_ivars  BY MoveStep
<1>. QED  BY <1>1, MoveInit, MoveStep, PTL DEF Spec, MovesInOrder

-----------------------------------------------------------------------------
(* Modifier keys *)

\* What RDPKeyboard shows is what is down, and nothing is down behind another view: so
\* clearing the flags in initWithSession clears nothing.
KeyInv == held = pressed /\ (~onscreen => pressed = {})

\* toggle* and reset keep the two in step.
LEMMA ToggledAgrees ==
    ASSUME held = pressed, NEW keys
    PROVE  Toggled(keys) = (pressed \ keys) \union (keys \ pressed)
BY DEF Toggled

\* Every step keeps the keys in step.
LEMMA KeyStep == KeyInv /\ [Next]_ivars => KeyInv'
<1> SUFFICES ASSUME KeyInv, [Next]_ivars PROVE KeyInv'  OBVIOUS
<1>0. reset => held' = {} /\ pressed' = {}
  BY ToggledAgrees DEF reset, KeyInv
<1>1. ASSUME NEW m \in Modifiers, toggleModifier(m) PROVE KeyInv'
  BY <1>1, ToggledAgrees DEF toggleModifier, KeyInv
<1>2. CASE sendUnicode
  BY <1>2, <1>0 DEF sendUnicode, KeyInv
<1>3. CASE viewWillAppear  BY <1>3 DEF viewWillAppear, KeyInv
<1>4. CASE viewWillDisappear  BY <1>4, <1>0 DEF viewWillDisappear, KeyInv
<1>5. UNCHANGED <<onscreen, keyboard>> => KeyInv'  BY DEF keyboard, KeyInv
<1>6. CASE GestureEnds \/ handleSingle2FingersTap \/ GestureCancelled \/ GestureMoves
           \/ sendDelayedMouseEvent
           \/ (\E kind \in {"press", "pointer", "move"}, hit \in BOOLEAN : GestureBegins(kind, hit))
           \/ (\E double \in BOOLEAN : Tap(double))
           \/ (\E button \in {"left", "right"} : PointerTap(button))
  BY <1>5, <1>6 DEF GestureEnds, handleSingle2FingersTap, GestureCancelled, GestureMoves,
                    sendDelayedMouseEvent, GestureBegins, Tap, PointerTap
<1>7. CASE UNCHANGED ivars  BY <1>5, <1>7 DEF ivars
<1>. QED  BY <1>1, <1>2, <1>3, <1>4, <1>6, <1>7 DEF Next

\* The modifiers RDPKeyboard shows are the keys down at the server, and none is down while
\* the view is off screen.
THEOREM KeysAgree == Spec => []ModifiersAgree
<1>1. Init => KeyInv  BY DEF Init, KeyInv
<1>2. KeyInv => ModifiersAgree
  BY DEF KeyInv, ModifiersAgree
<1>. QED  BY <1>1, <1>2, KeyStep, PTL DEF Spec

-----------------------------------------------------------------------------
(* Types *)

\* The moves stay within the bound, and the flags and sets have their types; skipped and
\* moved are bounded by the coalescing, not by a test of their own.
TypeInv == MoveInv /\ TypeOK

\* The initial state is well typed.
LEMMA TypeInit == Init => TypeInv
<1> SUFFICES ASSUME Init PROVE TypeInv  OBVIOUS
<1>1. /\ onscreen \in BOOLEAN /\ toggle_mouse_button \in BOOLEAN /\ pointer_moving \in BOOLEAN
      /\ cancelled \in BOOLEAN
  BY Zenon DEF Init
<1>2. /\ skipped \in 0..(MoveThreshold - 1) /\ timers \subseteq 1..MaxMoves
      /\ made \in 0..MaxMoves /\ moved \in 0..MaxMoves
  BY InputAssumption DEF InputAssumption, Init
<1>3. /\ pressed \subseteq Modifiers /\ held \subseteq Modifiers
      /\ drag \in {"none", "press", "pointer", "move"} /\ buttons \subseteq {"left", "right"}
  BY DEF Init
<1>. QED  BY <1>1, <1>2, <1>3, MoveInit DEF TypeInv, TypeOK

\* Only the two steps of a mouse move touch its counters.
LEMMA MoveTypes ==
    ASSUME TypeInv, [Next]_ivars
    PROVE  /\ skipped' \in 0..(MoveThreshold - 1) /\ timers' \subseteq 1..MaxMoves
           /\ made' \in 0..MaxMoves /\ moved' \in 0..MaxMoves
<1>1. MoveInv'
  BY MoveStep DEF TypeInv
<1>2. made' \in 0..MaxMoves /\ (made' # made => made' \in 1..MaxMoves)
  <2>1. CASE GestureMoves
    BY <2>1, InputAssumption DEF InputAssumption, TypeInv, TypeOK, MoveInv, GestureMoves,
                                 handleMouseMove
  <2>2. CASE ~GestureMoves
    <3>1. made' = made
      BY <2>2 DEF Next, toggleModifier, sendUnicode, viewWillAppear, viewWillDisappear,
           sendDelayedMouseEvent, GestureEnds, handleSingle2FingersTap, GestureCancelled,
           GestureBegins, Tap, PointerTap, ivars, mouse, moves
    <3>. QED  BY <3>1 DEF TypeInv, TypeOK
  <2>. QED  BY <2>1, <2>2
<1>3. timers' \subseteq timers \/ (timers' = {made'} /\ made' # made)
  <2>1. CASE GestureMoves
    BY <2>1 DEF TypeInv, MoveInv, GestureMoves, handleMouseMove
  <2>2. CASE ~GestureMoves
    BY <2>2 DEF Next, toggleModifier, sendUnicode, viewWillAppear, viewWillDisappear,
         sendDelayedMouseEvent, GestureEnds, handleSingle2FingersTap, GestureCancelled,
         GestureBegins, Tap, PointerTap, ivars, mouse, moves
  <2>. QED  BY <2>1, <2>2
<1>4. timers' \subseteq 1..MaxMoves
  BY <1>2, <1>3 DEF TypeInv, TypeOK
<1>5. moved' \in 0..MaxMoves /\ skipped' \in 0..(MoveThreshold - 1)
  BY <1>1, <1>2, InputAssumption DEF InputAssumption, MoveInv
<1>. QED  BY <1>2, <1>4, <1>5

\* The flags stay Boolean.
LEMMA FlagTypes ==
    ASSUME TypeInv, [Next]_ivars
    PROVE  /\ onscreen' \in BOOLEAN /\ toggle_mouse_button' \in BOOLEAN
           /\ pointer_moving' \in BOOLEAN /\ cancelled' \in BOOLEAN
<1>0. /\ onscreen \in BOOLEAN /\ toggle_mouse_button \in BOOLEAN /\ pointer_moving \in BOOLEAN
      /\ cancelled \in BOOLEAN
  BY DEF TypeInv, TypeOK
<1>1. CASE (\E m \in Modifiers : toggleModifier(m)) \/ sendUnicode \/ sendDelayedMouseEvent
           \/ GestureMoves \/ (\E button \in {"left", "right"} : PointerTap(button))
           \/ UNCHANGED ivars
  BY <1>0, <1>1 DEF toggleModifier, sendUnicode, sendDelayedMouseEvent, GestureMoves,
                    PointerTap, ivars, mouse, gestures
<1>2. CASE viewWillAppear
  BY <1>0, <1>2, Zenon DEF viewWillAppear, mouse, gestures
<1>3. CASE viewWillDisappear \/ GestureCancelled
  BY <1>0, <1>3, Zenon DEF viewWillDisappear, GestureCancelled, CancelGesture
<1>4. CASE GestureEnds
  BY <1>0, <1>4, Zenon DEF GestureEnds
<1>5. CASE handleSingle2FingersTap
  BY <1>0, <1>5, Zenon DEF handleSingle2FingersTap, gestures
<1>6. ASSUME NEW kind \in {"press", "pointer", "move"}, NEW hit \in BOOLEAN,
             GestureBegins(kind, hit)
      PROVE  /\ onscreen' \in BOOLEAN /\ toggle_mouse_button' \in BOOLEAN
             /\ pointer_moving' \in BOOLEAN /\ cancelled' \in BOOLEAN
  BY <1>0, <1>6, Zenon DEF GestureBegins
<1>7. ASSUME NEW double \in BOOLEAN, Tap(double)
      PROVE  /\ onscreen' \in BOOLEAN /\ toggle_mouse_button' \in BOOLEAN
             /\ pointer_moving' \in BOOLEAN /\ cancelled' \in BOOLEAN
  BY <1>0, <1>7, Zenon DEF Tap
<1>. QED  BY <1>1, <1>2, <1>3, <1>4, <1>5, <1>6, <1>7 DEF Next

\* The sets of keys and buttons and the gesture keep their types.
LEMMA SetTypes ==
    ASSUME TypeInv, [Next]_ivars
    PROVE  /\ pressed' \subseteq Modifiers /\ held' \subseteq Modifiers
           /\ drag' \in {"none", "press", "pointer", "move"}
           /\ buttons' \subseteq {"left", "right"}
<1> DEFINE Sets == /\ pressed' \subseteq Modifiers /\ held' \subseteq Modifiers
                   /\ drag' \in {"none", "press", "pointer", "move"}
                   /\ buttons' \subseteq {"left", "right"}
<1>0. /\ pressed \subseteq Modifiers /\ held \subseteq Modifiers
      /\ drag \in {"none", "press", "pointer", "move"} /\ buttons \subseteq {"left", "right"}
  BY DEF TypeInv, TypeOK
<1>1. ASSUME NEW m \in Modifiers, toggleModifier(m) PROVE Sets
  BY <1>0, <1>1 DEF toggleModifier, Toggled, mouse, gestures
<1>2. CASE sendUnicode \/ viewWillAppear
  BY <1>0, <1>2 DEF sendUnicode, viewWillAppear, reset, Toggled, mouse, gestures
<1>3. CASE viewWillDisappear \/ GestureCancelled
  BY <1>0, <1>3 DEF viewWillDisappear, GestureCancelled, CancelGesture, reset, Toggled,
                    keyboard
<1>4. CASE sendDelayedMouseEvent \/ GestureMoves \/ handleSingle2FingersTap \/ UNCHANGED ivars
  BY <1>0, <1>4 DEF sendDelayedMouseEvent, GestureMoves, handleSingle2FingersTap, ivars,
                    keyboard, mouse, gestures
<1>5. CASE GestureEnds
  BY <1>0, <1>5 DEF GestureEnds, keyboard
<1>6. ASSUME NEW kind \in {"press", "pointer", "move"}, NEW hit \in BOOLEAN,
             GestureBegins(kind, hit)
      PROVE  Sets
  BY <1>0, <1>6 DEF GestureBegins, keyboard
<1>7. ASSUME NEW double \in BOOLEAN, Tap(double) PROVE Sets
  BY <1>0, <1>7 DEF Tap, keyboard
<1>8. ASSUME NEW button \in {"left", "right"}, PointerTap(button) PROVE Sets
  BY <1>0, <1>8 DEF PointerTap, keyboard
<1>. QED  BY <1>1, <1>2, <1>3, <1>4, <1>5, <1>6, <1>7, <1>8 DEF Next

\* TypeOK is an invariant for every threshold and bound: the count of moves held back
\* never passes the threshold, and only moves the user made are scheduled or sent.
THEOREM TypeCorrect == Spec => []TypeOK
<1>1. TypeInv /\ [Next]_ivars => TypeInv'
  <2> SUFFICES ASSUME TypeInv, [Next]_ivars PROVE TypeInv'  OBVIOUS
  <2>1. MoveInv'  BY MoveStep DEF TypeInv
  <2>2. TypeOK'  BY MoveTypes, FlagTypes, SetTypes DEF TypeOK
  <2>. QED  BY <2>1, <2>2 DEF TypeInv
<1>2. TypeInv => TypeOK  BY DEF TypeInv
<1>. QED  BY <1>1, <1>2, TypeInit, PTL DEF Spec

-----------------------------------------------------------------------------
(* Mouse buttons *)

\* As long as UIKit has cancelled nothing, the touch pointer moves only during one of its
\* own two gestures, and a button is down only during a gesture that clicks.
ButtonInv ==
    ~cancelled => /\ buttons # {} => Clicking
                  /\ buttons \subseteq {"left"}
                  /\ pointer_moving => drag \in {"pointer", "move"}

\* Every gesture that presses the button releases it when it ends.
LEMMA ButtonStep == ButtonInv /\ [Next]_ivars => ButtonInv'
<1> SUFFICES ASSUME ButtonInv, [Next]_ivars PROVE ButtonInv'  OBVIOUS
<1> USE DEF ButtonInv, Clicking
<1>1. UNCHANGED gestures => ButtonInv'  BY DEF gestures
<1>2. CASE (\E m \in Modifiers : toggleModifier(m)) \/ sendUnicode \/ viewWillAppear
           \/ sendDelayedMouseEvent \/ GestureMoves \/ handleSingle2FingersTap
           \/ UNCHANGED ivars
  BY <1>1, <1>2 DEF toggleModifier, sendUnicode, viewWillAppear, sendDelayedMouseEvent,
                    GestureMoves, handleSingle2FingersTap, ivars, mouse
<1>3. CASE viewWillDisappear \/ GestureCancelled
  <2>1. /\ UNCHANGED <<pointer_moving, buttons>> /\ drag' = "none"
        /\ cancelled' = (cancelled \/ drag # "none")
    BY <1>3 DEF viewWillDisappear, GestureCancelled, CancelGesture
  <2>. QED  BY <2>1
<1>4. CASE GestureEnds
  <2>1. /\ drag' = "none" /\ cancelled' = cancelled
        /\ pointer_moving' = (drag = "press" /\ pointer_moving)
        /\ buttons' = IF Clicking THEN buttons \ {"left"} ELSE buttons
    BY <1>4, Zenon DEF GestureEnds
  <2>2. ~cancelled => buttons' = {} /\ ~pointer_moving'
    BY <2>1
  <2>. QED  BY <2>1, <2>2
<1>5. ASSUME NEW kind \in {"press", "pointer", "move"}, NEW hit \in BOOLEAN,
             GestureBegins(kind, hit)
      PROVE  ButtonInv'
  BY <1>5 DEF GestureBegins
<1>6. ASSUME NEW double \in BOOLEAN, Tap(double) PROVE ButtonInv'
  BY <1>6 DEF Tap
<1>7. ASSUME NEW button \in {"left", "right"}, PointerTap(button) PROVE ButtonInv'
  BY <1>7 DEF PointerTap
<1>. QED  BY <1>2, <1>3, <1>4, <1>5, <1>6, <1>7 DEF Next

\* A button that is down at the server is held by the gesture going on, unless UIKit has
\* cancelled one.
THEOREM ButtonsReleased == Spec => []ButtonsHeldByGesture
<1>1. Init => ButtonInv  BY DEF Init, ButtonInv
<1>2. ButtonInv => ButtonsHeldByGesture  BY DEF ButtonInv, ButtonsHeldByGesture
<1>. QED  BY <1>1, <1>2, ButtonStep, PTL DEF Spec

===============================================================================
