--------------------------- MODULE SessionContract ---------------------------
(***************************************************************************)
(* What -[RDPSession connect], sendInputEvent: and disconnect promise to   *)
(* the application, without threads, pipe, selectors or dialogs: one       *)
(* connection per session, the user's events handed to the server in order *)
(* and only while the session is Connected, none of them after the         *)
(* disconnect event, and an end that is reported once it is final - and    *)
(* once before that if the user gave up while connecting.                  *)
(***************************************************************************)
EXTENDS Naturals, Sequences

CONSTANT Inputs

VARIABLES
    phase,   \* connection_state
    sent,    \* the events the user caused
    served,  \* the events the connection loop took
    early,   \* disconnect reported the end before the connection was over
    final    \* runSessionFinished reported the end

cvars == <<phase, sent, served, early, final>>

Init ==
    /\ phase = "Closed"
    /\ sent = <<>> /\ served = <<>>
    /\ early = FALSE /\ final = FALSE

GaveUp == \E i \in 1..Len(sent) : sent[i] = "disconnect"
Stopped == \E i \in 1..Len(served) : served[i] = "disconnect"

Begin ==
    /\ phase = "Closed" /\ phase' = "Connecting"
    /\ UNCHANGED <<sent, served, early, final>>

Establish ==
    /\ phase = "Connecting" /\ phase' = "Connected"
    /\ UNCHANGED <<sent, served, early, final>>

\* The user is listened to until the end has been reported to the view.
Cause(e) ==
    /\ ~early /\ ~final
    /\ e # "disconnect" => phase = "Connected"
    /\ sent' = Append(sent, e)
    /\ UNCHANGED <<phase, served, early, final>>

Serve ==
    /\ phase = "Connected" /\ ~Stopped
    /\ Len(served) < Len(sent)
    /\ served' = Append(served, sent[Len(served) + 1])
    /\ UNCHANGED <<phase, sent, early, final>>

Close ==
    /\ phase \in {"Connecting", "Connected"} /\ phase' = "Disconnected"
    /\ UNCHANGED <<sent, served, early, final>>

ReportEarly ==
    /\ ~early /\ ~final /\ GaveUp /\ phase # "Closed"
    /\ early' = TRUE
    /\ UNCHANGED <<phase, sent, served, final>>

ReportFinal ==
    /\ phase = "Disconnected" /\ ~final
    /\ final' = TRUE
    /\ UNCHANGED <<phase, sent, served, early>>

Next ==
    \/ Begin \/ Establish \/ Serve \/ Close \/ ReportEarly \/ ReportFinal
    \/ \E e \in Inputs \union {"disconnect"} : Cause(e)

Spec == Init /\ [][Next]_cvars
=============================================================================
