----------------------------- MODULE SessionInput -----------------------------
(***************************************************************************)
(* How the session's view turns keyboard, touch and pointer input into the *)
(* events it sends to the session: RDPKeyboard.m with its sticky modifier  *)
(* keys, and the coalesced mouse moves, gestures and touch pointer of      *)
(* RDPSessionViewController.m and TouchPointerView.m. Everything runs on   *)
(* the main thread, one handler at a time; a handler's sendInputEvent      *)
(* calls are in order (RdpSession models their way to the server), so an   *)
(* action shows what the server has after the whole handler.               *)
(***************************************************************************)
EXTENDS Naturals, FiniteSets

CONSTANTS
    MaxMoves,       \* bound: mouse moves the user makes
    MoveThreshold   \* the number of moves after which one is sent at once, 5 in the code

ASSUME InputAssumption == MaxMoves \in Nat /\ MoveThreshold \in Nat \ {0}

Modifiers == {"shift", "alt", "ctrl", "win"}

VARIABLES
    onscreen,             \* the view is between viewWillAppear and viewWillDisappear
    pressed,              \* RDPKeyboard's _shift_pressed, _alt_pressed, ...
    held,                 \* the modifier keys that are down at the server
    skipped,              \* _mouse_move_events_skipped
    timers,               \* the scheduled move timers, by the move they carry
    made,                 \* how many moves the user has made; a move is named by its number
    moved,                \* the newest move the server has got
    toggle_mouse_button,
    drag,                 \* the gesture going on: none, press, pointer, move
    pointer_moving,       \* TouchPointerView's _pointer_moving
    buttons,              \* the mouse buttons that are down at the server
    cancelled             \* history: UIKit has cancelled a gesture

keyboard == <<pressed, held>>
moves == <<skipped, timers, made, moved>>
gestures == <<drag, pointer_moving, buttons, cancelled>>
mouse == <<moves, toggle_mouse_button, gestures>>
ivars == <<onscreen, keyboard, mouse>>

Init ==
    /\ onscreen = FALSE
    /\ pressed = {} /\ held = {}
    /\ skipped = 0 /\ timers = {} /\ made = 0 /\ moved = 0
    /\ toggle_mouse_button = FALSE
    /\ drag = "none" /\ pointer_moving = FALSE /\ buttons = {} /\ cancelled = FALSE

-----------------------------------------------------------------------------
(* RDPKeyboard *)

\* The keys that are down after the modifiers of a set are toggled: each goes up if
\* RDPKeyboard has it pressed, down otherwise.
Toggled(keys) == (held \ (keys \intersect pressed)) \union (keys \ pressed)

\* toggleShiftKey, toggleAltKey, toggleCtrlKey, toggleWinKey.
toggleModifier(m) ==
    /\ onscreen
    /\ held' = Toggled({m})
    /\ pressed' = (pressed \ {m}) \union ({m} \ pressed)
    /\ UNCHANGED <<onscreen, mouse>>

\* reset: toggles every modifier that is pressed.
reset ==
    /\ held' = Toggled(pressed)
    /\ pressed' = {}

\* sendUnicode: handleAlphaNumChar, whose own shift goes down and up again and only when no
\* shift is pressed, or handleSpecialKey, then reset.
sendUnicode ==
    /\ onscreen
    /\ reset
    /\ UNCHANGED <<onscreen, mouse>>

\* viewWillAppear: initWithSession clears the flags and sends nothing.
viewWillAppear ==
    /\ ~onscreen
    /\ onscreen' = TRUE
    /\ pressed' = {}
    /\ UNCHANGED <<held, mouse>>

\* UIKit cancels a gesture, of its own accord or because the view goes away: the handlers
\* ignore UIGestureRecognizerStateCancelled.
CancelGesture ==
    /\ drag' = "none"
    /\ cancelled' = (cancelled \/ drag # "none")
    /\ UNCHANGED <<pointer_moving, buttons>>

\* Mutant of viewWillDisappear: the modifiers are not reset.
viewWillDisappearKeepsKeys ==
    /\ onscreen
    /\ onscreen' = FALSE
    /\ CancelGesture
    /\ UNCHANGED <<keyboard, moves, toggle_mouse_button>>

\* viewWillDisappear.
viewWillDisappear ==
    /\ onscreen
    /\ onscreen' = FALSE
    /\ reset
    /\ CancelGesture
    /\ UNCHANGED <<moves, toggle_mouse_button>>

-----------------------------------------------------------------------------
(* Mouse *)

\* Mutant of handleMouseMove: the pending move is not cancelled.
handleMouseMoveKeepsPending ==
    /\ made < MaxMoves
    /\ made' = made + 1
    /\ IF skipped + 1 >= MoveThreshold
         THEN skipped' = 0 /\ moved' = made' /\ UNCHANGED timers
         ELSE skipped' = skipped + 1 /\ timers' = timers \union {made'} /\ UNCHANGED moved

\* Mutant of handleMouseMove: the move that reaches the threshold is not sent.
handleMouseMoveDropsFifth ==
    /\ made < MaxMoves
    /\ made' = made + 1
    /\ UNCHANGED moved
    /\ IF skipped + 1 >= MoveThreshold
         THEN skipped' = 0 /\ timers' = {}
         ELSE skipped' = skipped + 1 /\ timers' = {made'}

\* Mutant of handleMouseMove: > instead of >=.
handleMouseMoveOffByOne ==
    /\ made < MaxMoves
    /\ made' = made + 1
    /\ IF skipped + 1 > MoveThreshold
         THEN skipped' = 0 /\ moved' = made' /\ timers' = {}
         ELSE skipped' = skipped + 1 /\ timers' = {made'} /\ UNCHANGED moved

\* handleMouseMoveForPosition cancels the pending move and sends the new one at once or
\* after 50 ms.
handleMouseMove ==
    /\ made < MaxMoves
    /\ made' = made + 1
    /\ IF skipped + 1 >= MoveThreshold
         THEN skipped' = 0 /\ moved' = made' /\ timers' = {}
         ELSE skipped' = skipped + 1 /\ timers' = {made'} /\ UNCHANGED moved

\* sendDelayedMouseEventWithTimer; the timer retains the controller, so this may happen
\* after the view has disappeared.
sendDelayedMouseEvent ==
    \E k \in timers :
        /\ timers' = timers \ {k}
        /\ moved' = k
        /\ UNCHANGED <<onscreen, keyboard, skipped, made, toggle_mouse_button, gestures>>

\* The button is the business of a long press, and of the touch pointer's dragDrop.
Clicking == drag = "press" \/ (drag = "pointer" /\ pointer_moving)

\* UIGestureRecognizerStateBegan of handleLongPress ("press"), and of handlerForGesture for
\* handleDragDrop ("pointer", with a click) and handlePointerMoveScroll ("move"). Only a
\* gesture that hits the pointer's click area moves it.
GestureBegins(kind, hit) ==
    /\ onscreen /\ drag = "none"
    /\ drag' = kind
    /\ pointer_moving' = (pointer_moving \/ (kind # "press" /\ hit))
    /\ buttons' = IF kind = "press" \/ (kind = "pointer" /\ hit)
                    THEN buttons \union {"left"} ELSE buttons
    /\ UNCHANGED <<onscreen, keyboard, moves, toggle_mouse_button, cancelled>>

\* UIGestureRecognizerStateChanged.
GestureMoves ==
    /\ onscreen /\ (drag = "press" \/ (drag # "none" /\ pointer_moving))
    /\ handleMouseMove
    /\ UNCHANGED <<onscreen, keyboard, toggle_mouse_button, gestures>>

\* Mutant of GestureEnds: the button goes up only for handleLongPress.
GestureEndsKeepsButton ==
    /\ onscreen /\ drag # "none"
    /\ drag' = "none"
    /\ buttons' = IF drag = "press" THEN buttons \ {"left"} ELSE buttons
    /\ pointer_moving' = (drag = "press" /\ pointer_moving)
    /\ UNCHANGED <<onscreen, keyboard, moves, toggle_mouse_button, cancelled>>

\* UIGestureRecognizerStateEnded.
GestureEnds ==
    /\ onscreen /\ drag # "none"
    /\ drag' = "none"
    /\ buttons' = IF Clicking THEN buttons \ {"left"} ELSE buttons
    /\ pointer_moving' = (drag = "press" /\ pointer_moving)
    /\ UNCHANGED <<onscreen, keyboard, moves, toggle_mouse_button, cancelled>>

\* UIGestureRecognizerStateCancelled.
GestureCancelled ==
    /\ onscreen /\ drag # "none"
    /\ CancelGesture
    /\ UNCHANGED <<onscreen, keyboard, moves, toggle_mouse_button>>

\* handleSingleTap and handleDoubleTap press and release a button: it is up afterwards. The
\* second finger's tap before chooses the right one, for a single tap only.
Tap(double) ==
    /\ onscreen /\ drag = "none"
    /\ buttons' = buttons \ {IF toggle_mouse_button /\ ~double THEN "right" ELSE "left"}
    /\ toggle_mouse_button' = FALSE
    /\ UNCHANGED <<onscreen, keyboard, moves, drag, pointer_moving, cancelled>>

\* TouchPointerView's handleSingleTap on one of its two click areas.
PointerTap(button) ==
    /\ onscreen /\ drag = "none"
    /\ buttons' = buttons \ {button}
    /\ UNCHANGED <<onscreen, keyboard, moves, toggle_mouse_button, drag, pointer_moving, cancelled>>

\* handleSingle2FingersTap.
handleSingle2FingersTap ==
    /\ onscreen
    /\ toggle_mouse_button' = ~toggle_mouse_button
    /\ UNCHANGED <<onscreen, keyboard, moves, gestures>>

Next ==
    \/ \E m \in Modifiers : toggleModifier(m)
    \/ sendUnicode \/ viewWillAppear \/ viewWillDisappear
    \/ sendDelayedMouseEvent \/ GestureMoves \/ GestureEnds \/ handleSingle2FingersTap
    \/ GestureCancelled
    \/ \E kind \in {"press", "pointer", "move"}, hit \in BOOLEAN : GestureBegins(kind, hit)
    \/ \E double \in BOOLEAN : Tap(double)
    \/ \E button \in {"left", "right"} : PointerTap(button)

Spec == Init /\ [][Next]_ivars

\* The run loop fires a timer that stays scheduled.
FairSpec == Spec /\ WF_ivars(sendDelayedMouseEvent)

-----------------------------------------------------------------------------
(* Properties *)

\* The types of the controller's and the keyboard's fields.
TypeOK ==
    /\ onscreen \in BOOLEAN
    /\ pressed \subseteq Modifiers /\ held \subseteq Modifiers
    /\ skipped \in 0..(MoveThreshold - 1)
    /\ timers \subseteq 1..MaxMoves
    /\ made \in 0..MaxMoves /\ moved \in 0..MaxMoves
    /\ toggle_mouse_button \in BOOLEAN
    /\ drag \in {"none", "press", "pointer", "move"}
    /\ pointer_moving \in BOOLEAN /\ cancelled \in BOOLEAN
    /\ buttons \subseteq {"left", "right"}

\* The modifier keys RDPKeyboard shows as pressed are the ones that are down at the server,
\* also after initWithSession has cleared its flags without sending anything: no key stays
\* down behind a dialog or another view.
ModifiersAgree == held = pressed /\ (~onscreen => held = {})

\* An older move never reaches the server after a newer one, whichever of the two paths
\* (at once, by the timer) each takes.
MovesInOrder == [][moved' >= moved]_ivars

\* At most MoveThreshold - 1 moves in a row are held back.
MovesThrottled == made - moved < MoveThreshold

\* The last move the user makes gets to the server: coalescing never drops the end.
LastMoveArrives == []<>(moved = made)

\* A button that is down at the server is held by the gesture going on, across taps and the
\* three gestures that share it. Only a gesture UIKit has cancelled leaves one down.
ButtonsHeldByGesture == buttons # {} => Clicking \/ cancelled
===============================================================================
