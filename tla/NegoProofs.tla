------------------------------ MODULE NegoProofs ------------------------------
(***************************************************************************)
(* Proofs about Nego, for conforming and arbitrary servers.                *)
(***************************************************************************)
EXTENDS Nego, TLAPS

\* Strongest finds a member of every non-empty set of protocols, so the first state and
\* the fallback are enabled protocols.
LEMMA StrongestMember ==
    ASSUME NEW s \in SUBSET Protocols, s # {}
    PROVE  Strongest(s) \in s
<1>1. \E p \in s : \A q \in s : q <= p
  <2>1. CASE EXT \in s  BY <2>1 DEF Protocols, EXT, NLA, TLS, RDP
  <2>2. CASE EXT \notin s /\ NLA \in s  BY <2>2 DEF Protocols, EXT, NLA, TLS, RDP
  <2>3. CASE EXT \notin s /\ NLA \notin s /\ TLS \in s
    BY <2>3 DEF Protocols, EXT, NLA, TLS, RDP
  <2>4. CASE EXT \notin s /\ NLA \notin s /\ TLS \notin s
    <3>1. RDP \in s  BY <2>4 DEF Protocols
    <3>2. \A q \in s : q = RDP  BY <2>4 DEF Protocols
    <3>. QED  BY <3>1, <3>2 DEF RDP
  <2>. QED  BY <2>1, <2>2, <2>3, <2>4
<1>. QED  BY <1>1 DEF Strongest

\* Fallback never names a state other than an enabled protocol or FAIL.
LEMMA FallbackType ==
    ASSUME NEW p, EnabledProtocols \subseteq Protocols
    PROVE  Fallback(p) = FAIL \/ (Fallback(p) \in EnabledProtocols /\ Fallback(p) < p)
<1> DEFINE s == {q \in EnabledProtocols : q < p}
<1>1. CASE s = {}  BY <1>1 DEF Fallback, Strongest
<1>2. CASE s # {}
  <2>1. Strongest(s) \in s  BY <1>2, StrongestMember
  <2>. QED  BY <2>1 DEF Fallback
<1>. QED  BY <1>1, <1>2

-----------------------------------------------------------------------------
(* The inductive invariant *)

\* Trimming the enabled protocols never enables RDP (it may enable NLA, with EXT).
EnabledFromSettings == RDP \in EnabledProtocols => RDP \in settings

\* Without negotiation there is one attempt, with the protocol that counts as selected.
\* The attempt with EXT never gets as far as its request.
DirectAttempt ==
    ~NegotiateSecurityLayer /\ pc \notin {"start", "done"} /\ state \in Protocols =>
        /\ SelectedProtocol = state
        /\ IF state = EXT THEN EnabledProtocols = {EXT, NLA} ELSE EnabledProtocols = {state}
        /\ state = EXT => ~SecurityConnected /\ pc # "sent"

\* An accepted answer leaves RDP selected only if it is enabled, and a connection open.
AcceptedAnswer ==
    pc \in {"check", "security"} /\ state = FINAL =>
        TcpConnected /\ (SelectedProtocol = RDP => RDP \in EnabledProtocols)

\* Where nego_connect is and what it has done so far.
ControlState ==
    /\ pc \in {"start", "preconnect"} => ~SecurityConnected
    /\ pc = "sent" => state \in Protocols /\ TcpConnected
    /\ pc = "security" => state = FINAL
    /\ pc # "start" => state # INITIAL
    /\ pc \in {"attempt", "preconnect"} => state \in Protocols

NegoInv ==
    /\ TypeOK
    /\ SecurityNeedsTcp
    /\ NoUnwantedDowngrade
    /\ EnabledFromSettings
    /\ DirectAttempt
    /\ AcceptedAnswer
    /\ ControlState

\* Every initial state satisfies the inductive invariant.
LEMMA NegoInit == Init => NegoInv
<1> SUFFICES ASSUME Init PROVE NegoInv  OBVIOUS
<1> USE DEF Protocols, EXT, NLA, TLS, RDP, INITIAL, FAIL, FINAL
<1>a. /\ NegotiateSecurityLayer \in BOOLEAN /\ SendPreconnectionPdu \in BOOLEAN
      /\ TcpConnected \in BOOLEAN /\ SecurityConnected \in BOOLEAN
      /\ sendNegoData \in BOOLEAN /\ Conforming \in BOOLEAN
  BY Zenon DEF Init
<1>b. /\ settings \subseteq Protocols /\ EnabledProtocols \subseteq Protocols
      /\ RequestedProtocols \subseteq Protocols /\ secured \subseteq Protocols
  BY DEF Init
<1>e. /\ state = INITIAL /\ SelectedProtocol = RDP /\ requests = 0
      /\ result = "none" /\ pc = "start"
  BY Zenon DEF Init
<1>c. /\ state \in Protocols \union {INITIAL, FAIL, FINAL} /\ SelectedProtocol \in Protocols
      /\ requests \in 0..2
  BY <1>e
<1>1. TypeOK  BY <1>a, <1>b, <1>c, <1>e DEF TypeOK
<1>2. SecurityNeedsTcp /\ NoUnwantedDowngrade /\ EnabledFromSettings
  BY DEF Init, SecurityNeedsTcp, NoUnwantedDowngrade, EnabledFromSettings
<1>3. DirectAttempt /\ AcceptedAnswer /\ ControlState
  BY DEF Init, DirectAttempt, AcceptedAnswer, ControlState
<1>. QED  BY <1>1, <1>2, <1>3 DEF NegoInv

\* The first state is an enabled protocol, or FAIL when none is.
LEMMA ChooseStep ==
    ASSUME NegoInv,
           ChooseProtocol
    PROVE  NegoInv'
<1> USE DEF NegoInv, Protocols, EXT, NLA, TLS, RDP, INITIAL, FAIL, FINAL
<1>1. IF EnabledProtocols = {} THEN state' = FAIL ELSE state' \in EnabledProtocols
  BY StrongestMember DEF TypeOK, ChooseProtocol, Strongest
<1>t. TypeOK'
  BY <1>1 DEF TypeOK, ChooseProtocol, Return, configuration
<1>s. SecurityNeedsTcp'
    BY <1>1 DEF TypeOK, SecurityNeedsTcp, AcceptedAnswer, ControlState, ChooseProtocol,
         Return, configuration
<1>n. NoUnwantedDowngrade' /\ EnabledFromSettings'
    BY <1>1 DEF TypeOK, NoUnwantedDowngrade, EnabledFromSettings, DirectAttempt,
         AcceptedAnswer, ControlState, ChooseProtocol, Return, configuration
<1>d. DirectAttempt'
  BY <1>1 DEF TypeOK, DirectAttempt, ControlState, ChooseProtocol, Return, configuration
<1>a. AcceptedAnswer'
  BY <1>1 DEF TypeOK, AcceptedAnswer, ControlState, ChooseProtocol, Return, configuration
<1>2. pc' \in {"done", "preconnect", "attempt"} /\ (pc' # "done" => EnabledProtocols # {})
  BY DEF ChooseProtocol, Return
<1>3. state' \in Protocols \union {FAIL} /\ (EnabledProtocols # {} => state' \in Protocols)
  BY <1>1 DEF TypeOK
<1>c. ControlState'
  <2>1. ~SecurityConnected'  BY DEF ControlState, ChooseProtocol
  <2>. QED  BY <1>2, <1>3, <2>1 DEF ControlState
<1>. QED  BY <1>t, <1>s, <1>n, <1>d, <1>a, <1>c

\* The preconnection PDU only opens the TCP connection.
LEMMA PreconnectionStep ==
    ASSUME NegoInv,
           NEW tcp \in BOOLEAN,
           NEW ok \in BOOLEAN,
           SendPreconnection(tcp, ok)
    PROVE  NegoInv'
<1> USE DEF NegoInv, Protocols, EXT, NLA, TLS, RDP, INITIAL, FAIL, FINAL
<1>t. TypeOK'
  BY DEF TypeOK, SendPreconnection, nego_tcp_connect, Return, configuration
<1>s. SecurityNeedsTcp'
  BY DEF TypeOK, SecurityNeedsTcp, AcceptedAnswer, ControlState, SendPreconnection,
         nego_tcp_connect, Return, configuration
<1>n. NoUnwantedDowngrade' /\ EnabledFromSettings'
  BY DEF TypeOK, NoUnwantedDowngrade, EnabledFromSettings, DirectAttempt, AcceptedAnswer,
         ControlState, SendPreconnection, nego_tcp_connect, Return, configuration
<1>d. DirectAttempt'
  BY DEF TypeOK, DirectAttempt, ControlState, SendPreconnection, nego_tcp_connect, Return,
         configuration
<1>a. AcceptedAnswer'
  BY DEF TypeOK, AcceptedAnswer, ControlState, SendPreconnection, nego_tcp_connect, Return,
         configuration
<1>c. ControlState'
  BY DEF TypeOK, ControlState, SendPreconnection, nego_tcp_connect, Return, configuration
<1>. QED  BY <1>t, <1>s, <1>n, <1>d, <1>a, <1>c

\* An attempt secures the connection itself only when negotiation is disabled.
LEMMA AttemptStep ==
    ASSUME NegoInv,
           NEW tcp \in BOOLEAN,
           NEW ok \in BOOLEAN,
           NEW sent \in BOOLEAN,
           Attempt(tcp, ok, sent)
    PROVE  NegoInv'
<1> USE DEF NegoInv, Protocols, EXT, NLA, TLS, RDP, INITIAL, FAIL, FINAL
<1>t. TypeOK'
  BY DEF TypeOK, Attempt, SecurityConnect, Requested, nego_tcp_connect,
         nego_send_negotiation_request, configuration
<1>s. SecurityNeedsTcp'
  BY DEF TypeOK, SecurityNeedsTcp, AcceptedAnswer, ControlState, Attempt, SecurityConnect,
         Requested, nego_tcp_connect, nego_send_negotiation_request, configuration
<1>n. NoUnwantedDowngrade' /\ EnabledFromSettings'
  BY DEF TypeOK, NoUnwantedDowngrade, EnabledFromSettings, DirectAttempt, AcceptedAnswer,
         ControlState, Attempt, SecurityConnect, Requested, nego_tcp_connect,
         nego_send_negotiation_request, configuration
<1>d. DirectAttempt'
  BY DEF TypeOK, DirectAttempt, ControlState, Attempt, SecurityConnect, Requested,
         nego_tcp_connect, nego_send_negotiation_request, configuration
<1>a. AcceptedAnswer'
  BY DEF TypeOK, AcceptedAnswer, ControlState, Attempt, SecurityConnect, Requested,
         nego_tcp_connect, nego_send_negotiation_request, configuration
<1>c. ControlState'
  BY DEF TypeOK, ControlState, Attempt, SecurityConnect, Requested, nego_tcp_connect,
         nego_send_negotiation_request, configuration
<1>. QED  BY <1>t, <1>s, <1>n, <1>d, <1>a, <1>c

\* An answer is accepted only if RDP was not selected behind the settings' back.
LEMMA RecvStep ==
    ASSUME NegoInv,
           NEW a \in Answers,
           RecvResponse(a)
    PROVE  NegoInv'
<1> USE DEF NegoInv, Protocols, EXT, NLA, TLS, RDP, INITIAL, FAIL, FINAL
<1>1. Fallback(state) = FAIL \/ (Fallback(state) \in EnabledProtocols /\ Fallback(state) < state)
  BY FallbackType DEF TypeOK
<1>2. a.kind = "response" => a.selected \in Protocols
  BY DEF Answers
<1>3. sendNegoData' \in BOOLEAN
  BY Zenon DEF RecvResponse
<1>4. state \in Protocols /\ TcpConnected /\ pc = "sent" /\ pc' = "check"
  BY DEF ControlState, RecvResponse
<1>5. \/ RecvState(a) = FAIL
      \/ RecvState(a) = state /\ a.kind = "unknownType"
      \/ /\ RecvState(a) = FINAL
         /\ \/ a.kind = "response" /\ a.selected \in EnabledProtocols \union {EXT}
            \/ a.kind = "none" /\ RDP \in EnabledProtocols
  BY DEF RecvState
<1>6. SelectedProtocol' = IF a.kind = "response" THEN a.selected ELSE SelectedProtocol
  BY DEF RecvResponse
<1>7. UNCHANGED <<Conforming, settings, NegotiateSecurityLayer, SendPreconnectionPdu,
                  EnabledProtocols, RequestedProtocols, result, secured>>
  BY DEF RecvResponse, configuration
<1>8. CASE RecvState(a) = FINAL \/ state = RDP
  <2>1. state' = RecvState(a) /\ UNCHANGED <<TcpConnected, SecurityConnected, requests>>
    BY <1>8 DEF RecvResponse
  <2>2. TypeOK'  BY <1>2, <1>3, <1>4, <1>5, <1>6, <1>7, <2>1 DEF TypeOK
  <2>3. SecurityNeedsTcp' /\ NoUnwantedDowngrade' /\ EnabledFromSettings'
    BY <1>7, <2>1 DEF SecurityNeedsTcp, NoUnwantedDowngrade, EnabledFromSettings
  <2>4. DirectAttempt'
    <3>1. state' \in Protocols => a.kind = "unknownType" /\ state' = state
      BY <1>5, <2>1
    <3>. QED  BY <1>4, <1>6, <1>7, <2>1, <3>1 DEF DirectAttempt
  <2>5. AcceptedAnswer'
    <3>1. state' = FINAL /\ SelectedProtocol' = RDP => RDP \in EnabledProtocols
      BY <1>4, <1>5, <1>6, <2>1
    <3>. QED  BY <1>4, <1>7, <2>1, <3>1 DEF AcceptedAnswer
  <2>6. ControlState'  BY <1>4, <1>5, <2>1 DEF ControlState
  <2>. QED  BY <2>2, <2>3, <2>4, <2>5, <2>6
<1>9. CASE ~(RecvState(a) = FINAL \/ state = RDP)
  <2>1. /\ state' = Fallback(state) /\ TcpConnected' = FALSE /\ SecurityConnected' = FALSE
        /\ requests' = 0
    BY <1>9 DEF RecvResponse, nego_transport_disconnect
  <2>2. state' = FAIL \/ (state' \in EnabledProtocols /\ state' < state)
    BY <1>1, <2>1
  <2>3. TypeOK'
    <3>1. TcpConnected' \in BOOLEAN /\ SecurityConnected' \in BOOLEAN  BY <2>1, Zenon
    <3>2. state' \in Protocols \union {INITIAL, FAIL, FINAL}  BY <2>2 DEF TypeOK
    <3>. QED  BY <1>2, <1>3, <1>4, <1>6, <1>7, <2>1, <3>1, <3>2 DEF TypeOK
  <2>4. SecurityNeedsTcp' /\ NoUnwantedDowngrade' /\ EnabledFromSettings'
    BY <1>7, <2>1 DEF SecurityNeedsTcp, NoUnwantedDowngrade, EnabledFromSettings
  <2>5. DirectAttempt'
    <3>1. ~NegotiateSecurityLayer => state' = FAIL
      BY <1>4, <2>2 DEF DirectAttempt
    <3>. QED  BY <1>7, <3>1 DEF DirectAttempt
  <2>6. AcceptedAnswer' /\ ControlState'
    BY <1>4, <2>1, <2>2 DEF TypeOK, AcceptedAnswer, ControlState
  <2>. QED  BY <2>3, <2>4, <2>5, <2>6
<1>. QED  BY <1>8, <1>9

\* A lost answer only fails the attempt.
LEMMA RecvFailsStep ==
    ASSUME NegoInv,
           RecvFails
    PROVE  NegoInv'
<1> USE DEF NegoInv, Protocols, EXT, NLA, TLS, RDP, INITIAL, FAIL, FINAL
<1>t. TypeOK'
  BY DEF TypeOK, RecvFails, configuration
<1>s. SecurityNeedsTcp'
  BY DEF TypeOK, SecurityNeedsTcp, AcceptedAnswer, ControlState, RecvFails, configuration
<1>n. NoUnwantedDowngrade' /\ EnabledFromSettings'
  BY DEF TypeOK, NoUnwantedDowngrade, EnabledFromSettings, DirectAttempt, AcceptedAnswer,
         ControlState, RecvFails, configuration
<1>d. DirectAttempt'
  BY DEF TypeOK, DirectAttempt, ControlState, RecvFails, configuration
<1>a. AcceptedAnswer'
  BY DEF TypeOK, AcceptedAnswer, ControlState, RecvFails, configuration
<1>c. ControlState'
  BY DEF TypeOK, ControlState, RecvFails, configuration
<1>. QED  BY <1>t, <1>s, <1>n, <1>d, <1>a, <1>c

\* Leaving or repeating the loop changes no connection.
LEMMA CheckStep ==
    ASSUME NegoInv,
           CheckState
    PROVE  NegoInv'
<1> USE DEF NegoInv, Protocols, EXT, NLA, TLS, RDP, INITIAL, FAIL, FINAL
<1>t. TypeOK'
  BY DEF TypeOK, CheckState, Return, configuration
<1>s. SecurityNeedsTcp'
  BY DEF TypeOK, SecurityNeedsTcp, AcceptedAnswer, ControlState, CheckState, Return,
         configuration
<1>n. NoUnwantedDowngrade' /\ EnabledFromSettings'
  BY DEF TypeOK, NoUnwantedDowngrade, EnabledFromSettings, DirectAttempt, AcceptedAnswer,
         ControlState, CheckState, Return, configuration
<1>d. DirectAttempt'
  BY DEF TypeOK, DirectAttempt, ControlState, CheckState, Return, configuration
<1>a. AcceptedAnswer'
  BY DEF TypeOK, AcceptedAnswer, ControlState, CheckState, Return, configuration
<1>c. ControlState'
  BY DEF TypeOK, ControlState, CheckState, Return, configuration
<1>. QED  BY <1>t, <1>s, <1>n, <1>d, <1>a, <1>c

\* The final security connect uses what the accepted answer left selected.
LEMMA FinishStep ==
    ASSUME NegoInv,
           NEW ok \in BOOLEAN,
           FinishConnect(ok)
    PROVE  NegoInv'
<1> USE DEF NegoInv, Protocols, EXT, NLA, TLS, RDP, INITIAL, FAIL, FINAL
<1>t. TypeOK'
  BY DEF TypeOK, FinishConnect, SecurityConnect, Return, configuration
<1>s. SecurityNeedsTcp'
  BY DEF TypeOK, SecurityNeedsTcp, AcceptedAnswer, ControlState, FinishConnect,
         SecurityConnect, Return, configuration
<1>n. NoUnwantedDowngrade' /\ EnabledFromSettings'
  BY DEF TypeOK, NoUnwantedDowngrade, EnabledFromSettings, DirectAttempt, AcceptedAnswer,
         ControlState, FinishConnect, SecurityConnect, Return, configuration
<1>d. DirectAttempt'
  BY DEF TypeOK, DirectAttempt, ControlState, FinishConnect, SecurityConnect, Return,
         configuration
<1>a. AcceptedAnswer'
  BY DEF TypeOK, AcceptedAnswer, ControlState, FinishConnect, SecurityConnect, Return,
         configuration
<1>c. ControlState'
  BY DEF TypeOK, ControlState, FinishConnect, SecurityConnect, Return, configuration
<1>. QED  BY <1>t, <1>s, <1>n, <1>d, <1>a, <1>c

\* A stuttering step changes nothing.
LEMMA NegoStutter == NegoInv /\ UNCHANGED nvars => NegoInv'
BY DEF NegoInv, nvars, configuration, TypeOK, SecurityNeedsTcp, NoUnwantedDowngrade,
       EnabledFromSettings, DirectAttempt, AcceptedAnswer, ControlState

\* Whatever the transport and the server do, nego_connect keeps the invariant.
LEMMA NegoStep == NegoInv /\ [Next]_nvars => NegoInv'
<1> SUFFICES ASSUME NegoInv, [Next]_nvars PROVE NegoInv'  OBVIOUS
<1>1. CASE ChooseProtocol  BY <1>1, ChooseStep
<1>2. CASE RecvFails  BY <1>2, RecvFailsStep
<1>3. CASE CheckState  BY <1>3, CheckStep
<1>4. CASE Done  BY <1>4, NegoStutter DEF Done
<1>5. CASE \E tcp, ok \in BOOLEAN : SendPreconnection(tcp, ok)  BY <1>5, PreconnectionStep
<1>6. CASE \E tcp, ok, sent \in BOOLEAN : Attempt(tcp, ok, sent)  BY <1>6, AttemptStep
<1>7. CASE \E a \in Answers : RecvResponse(a)  BY <1>7, RecvStep
<1>8. CASE \E ok \in BOOLEAN : FinishConnect(ok)  BY <1>8, FinishStep
<1>9. CASE UNCHANGED nvars  BY <1>9, NegoStutter
<1>. QED  BY <1>1, <1>2, <1>3, <1>4, <1>5, <1>6, <1>7, <1>8, <1>9 DEF Next

\* nego_connect's fields keep their types, and no connection is ever taken for secured
\* after nego_transport_disconnect closed it.
THEOREM NegoSafe == Spec => [](TypeOK /\ SecurityNeedsTcp)
<1>1. NegoInv => TypeOK /\ SecurityNeedsTcp  BY DEF NegoInv
<1>. QED  BY <1>1, NegoInit, NegoStep, PTL DEF Spec

\* No server, conforming or not, brings nego_connect to plain RDP security when the
\* settings do not enable it, with or without negotiation and through every fallback.
THEOREM NeverDowngraded == Spec => []NoUnwantedDowngrade
<1>1. NegoInv => NoUnwantedDowngrade  BY DEF NegoInv
<1>. QED  BY <1>1, NegoInit, NegoStep, PTL DEF Spec

-----------------------------------------------------------------------------
(* What the connection ends up secured with *)

\* A request is out, or its answer was accepted.
Answered == pc = "sent" \/ (pc \in {"check", "security"} /\ state = FINAL)
\* The next request has not been sent on the connection this attempt uses.
Unasked == pc \in {"start", "preconnect", "attempt"} \/ (pc = "check" /\ state \in Protocols)

\* With negotiation the security layer is connected once, at the end, with a protocol
\* the answer was compared with; without it, by the only attempt, before its request.
OutcomeInv ==
    /\ pc # "done" => result = "none"
    /\ NegotiateSecurityLayer \/ pc = "start" => EnabledProtocols = settings
    /\ NegotiateSecurityLayer /\ pc # "done" => secured = {} /\ ~SecurityConnected
    /\ ~NegotiateSecurityLayer =>
          /\ secured \subseteq settings
          /\ pc \notin {"start", "done"} /\ state \in Protocols => state \in settings
          /\ Answered => SecurityConnected
    /\ pc \in {"check", "security"} /\ state = FINAL /\ answer = "response"
          => SelectedProtocol \in EnabledProtocols \union {EXT}
    /\ NegotiatedIsEnabled

\* What only a conforming server guarantees: an attempt that goes on has closed the
\* connection of the one before it, and an accepted answer selects what was requested.
ConformingInv ==
    Conforming =>
        /\ Unasked => requests = 0 /\ ~SecurityConnected
        /\ requests <= 1
        /\ pc = "sent" => RequestedProtocols = Requested(state)
        /\ ~NegotiateSecurityLayer /\ Answered => SelectedProtocol \in secured
        /\ result = "TRUE" => SelectedProtocol \in secured

\* No attempt was made in an initial state.
LEMMA OutcomeInit == Init => OutcomeInv /\ ConformingInv
<1> SUFFICES ASSUME Init PROVE OutcomeInv /\ ConformingInv  OBVIOUS
<1>1. OutcomeInv
  BY DEF Init, OutcomeInv, Answered, NegotiatedIsEnabled
<1>2. requests = 0 /\ requests <= 1 /\ ~SecurityConnected /\ pc = "start" /\ result = "none"
  <2>1. requests = 0 /\ ~SecurityConnected /\ pc = "start" /\ result = "none"
    BY Zenon DEF Init
  <2>. QED  BY <2>1
<1>3. ConformingInv
  BY <1>2, Zenon DEF ConformingInv, Answered
<1>. QED  BY <1>1, <1>3

\* The first state is one of the settings.
LEMMA OutcomeChoose ==
    ASSUME NegoInv, OutcomeInv, ConformingInv, ChooseProtocol
    PROVE  OutcomeInv' /\ ConformingInv'
<1> USE DEF Protocols, EXT, NLA, TLS, RDP, INITIAL, FAIL, FINAL
<1>0. /\ settings \subseteq Protocols /\ EnabledProtocols \subseteq Protocols
      /\ RDP \in EnabledProtocols => RDP \in settings
  BY DEF NegoInv, TypeOK, EnabledFromSettings
<1>1. IF EnabledProtocols = {} THEN state' = FAIL ELSE state' \in EnabledProtocols
  BY <1>0, StrongestMember DEF ChooseProtocol, Strongest
<1>2. /\ pc = "start" /\ pc' \in {"done", "preconnect", "attempt"}
      /\ result' = IF pc' = "done" THEN "FALSE" ELSE result
      /\ pc' # "done" => EnabledProtocols # {}
      /\ NegotiateSecurityLayer' => EnabledProtocols' = EnabledProtocols
      /\ UNCHANGED <<Conforming, settings, NegotiateSecurityLayer, SecurityConnected, requests,
                     secured>>
  BY DEF ChooseProtocol, Return, configuration
<1>3. state' # FINAL /\ (pc' # "done" => state' \in settings)
  <2>1. EnabledProtocols = settings
    BY <1>2, Zenon DEF OutcomeInv
  <2>2. state' # FINAL
    BY <1>0, <1>1
  <2>. QED  BY <1>1, <1>2, <2>1, <2>2
<1>4. OutcomeInv'
  <2>1. ~Answered' /\ result' # "TRUE"
    BY <1>2 DEF Answered, OutcomeInv
  <2>2. pc' \notin {"start", "check", "security"} /\ secured \subseteq settings
    BY <1>2 DEF OutcomeInv
  <2>. QED  BY <1>2, <1>3, <2>1, <2>2 DEF OutcomeInv, NegotiatedIsEnabled
<1>5. ConformingInv'
  <2>1. ~Answered' /\ result' # "TRUE" /\ Unasked /\ pc' # "sent"
    BY <1>2 DEF Answered, Unasked, OutcomeInv
  <2>. QED  BY <1>2, <2>1, Zenon DEF ConformingInv
<1>. QED  BY <1>4, <1>5

\* The preconnection PDU secures nothing.
LEMMA OutcomePreconnection ==
    ASSUME NegoInv, OutcomeInv, ConformingInv,
           NEW tcp \in BOOLEAN, NEW ok \in BOOLEAN, SendPreconnection(tcp, ok)
    PROVE  OutcomeInv' /\ ConformingInv'
<1> USE DEF Protocols, EXT, NLA, TLS, RDP, INITIAL, FAIL, FINAL
<1>1. OutcomeInv'
  BY DEF OutcomeInv, Answered, NegotiatedIsEnabled, SendPreconnection, nego_tcp_connect,
         Return, configuration
<1>2. ConformingInv'
  BY DEF ConformingInv, Unasked, Answered, SendPreconnection, nego_tcp_connect, Return,
         configuration
<1>. QED  BY <1>1, <1>2

\* Without negotiation an attempt secures the connection with the protocol of its state.
LEMMA OutcomeAttempt ==
    ASSUME NegoInv, OutcomeInv, ConformingInv,
           NEW tcp \in BOOLEAN, NEW ok \in BOOLEAN, NEW sent \in BOOLEAN,
           Attempt(tcp, ok, sent)
    PROVE  OutcomeInv' /\ ConformingInv'
<1> USE DEF NegoInv, Protocols, EXT, NLA, TLS, RDP, INITIAL, FAIL, FINAL
<1>1. OutcomeInv'
  <2>1. /\ pc = "attempt" /\ state \in Protocols /\ result = "none"
        /\ UNCHANGED <<settings, NegotiateSecurityLayer, EnabledProtocols, SelectedProtocol,
                       result>>
        /\ \/ (pc' = "sent" /\ state' = state /\ (NegotiateSecurityLayer \/ SecurityConnected'))
           \/ (pc' = "check" /\ state' = FAIL)
    BY DEF OutcomeInv, Attempt, nego_send_negotiation_request, configuration
  <2>2. NegotiateSecurityLayer => UNCHANGED <<SecurityConnected, secured>>
    BY DEF Attempt
  <2>3. secured' \subseteq secured \union {SelectedProtocol}
    BY DEF Attempt, SecurityConnect
  <2>4. ~NegotiateSecurityLayer => secured' \subseteq settings
    BY <2>1, <2>3 DEF OutcomeInv, DirectAttempt
  <2>. QED  BY <2>1, <2>2, <2>4 DEF OutcomeInv, Answered, NegotiatedIsEnabled
<1>2. ConformingInv'
  BY DEF ConformingInv, OutcomeInv, TypeOK, DirectAttempt, Unasked, Answered, Attempt,
         SecurityConnect, nego_tcp_connect, nego_send_negotiation_request, configuration
<1>. QED  BY <1>1, <1>2

\* An accepted selection is an enabled protocol or EXT; a conforming server that was
\* asked on a secured connection can only confirm what it is secured with.
LEMMA OutcomeRecv ==
    ASSUME NegoInv, OutcomeInv, ConformingInv, NEW a \in Answers, RecvResponse(a)
    PROVE  OutcomeInv' /\ ConformingInv'
<1> USE DEF NegoInv, Protocols, EXT, NLA, TLS, RDP, INITIAL, FAIL, FINAL
<1>1. Fallback(state) = FAIL \/ (Fallback(state) \in EnabledProtocols /\ Fallback(state) < state)
  BY FallbackType DEF TypeOK
<1>2. /\ pc = "sent" /\ pc' = "check" /\ state \in Protocols /\ answer' = a.kind
      /\ SelectedProtocol' = IF a.kind = "response" THEN a.selected ELSE SelectedProtocol
      /\ UNCHANGED <<Conforming, settings, NegotiateSecurityLayer, EnabledProtocols,
                     RequestedProtocols, result, secured>>
  BY DEF RecvResponse, configuration, ControlState
<1>3. \/ RecvState(a) = FAIL
      \/ (RecvState(a) = state /\ a.kind = "unknownType")
      \/ (RecvState(a) = FINAL /\ a.kind = "response" /\ a.selected \in EnabledProtocols \union {EXT})
      \/ (RecvState(a) = FINAL /\ a.kind = "none" /\ RDP \in EnabledProtocols)
  BY DEF RecvState
<1>4. \/ /\ state' = RecvState(a) /\ (RecvState(a) = FINAL \/ state = RDP)
         /\ UNCHANGED <<SecurityConnected, requests>>
      \/ state' = Fallback(state) /\ ~SecurityConnected' /\ requests' = 0
  BY DEF RecvResponse, nego_transport_disconnect
<1>5. state' # FINAL => state' = FAIL \/ state' \in EnabledProtocols \/ state' = state
  BY <1>1, <1>3, <1>4
<1>6. OutcomeInv'
  <2>1. ~NegotiateSecurityLayer /\ state' \in Protocols => state' = state
    BY <1>1, <1>2, <1>3, <1>4 DEF DirectAttempt
  <2>2. state' = FINAL => UNCHANGED SecurityConnected
    BY <1>1, <1>2, <1>4 DEF TypeOK
  <2>3. state' = FINAL /\ a.kind = "response" => a.selected \in EnabledProtocols \union {EXT}
    BY <1>1, <1>2, <1>3, <1>4 DEF TypeOK
  <2>4. NegotiateSecurityLayer => ~SecurityConnected'
    BY <1>2, <1>4 DEF OutcomeInv
  <2>. QED  BY <1>2, <2>1, <2>2, <2>3, <2>4 DEF OutcomeInv, Answered, NegotiatedIsEnabled
<1>7. ConformingInv'
  <2>. SUFFICES ASSUME Conforming PROVE ConformingInv'
    BY <1>2 DEF ConformingInv
  <2>1. /\ requests <= 1 /\ RequestedProtocols = Requested(state) /\ result = "none"
        /\ ~NegotiateSecurityLayer => SelectedProtocol \in secured
    BY <1>2 DEF ConformingInv, OutcomeInv, Answered
  <2>2. a.kind # "unknownType"
    BY DEF RecvResponse, MayAnswer
  <2>3. state' \in Protocols => ~SecurityConnected' /\ requests' = 0
    BY <1>2, <1>3, <1>4, <2>2
  <2>4. requests' <= 1
    BY <1>4, <2>1
  <2>5. ASSUME ~NegotiateSecurityLayer, state' = FINAL, a.kind = "response"
        PROVE  a.selected = SelectedProtocol
    <3>1. SelectedProtocol = state /\ state # EXT /\ EnabledProtocols = {state}
      BY <1>2, <2>5 DEF DirectAttempt
    <3>2. a.selected \in {state, EXT}
      BY <1>1, <1>2, <1>3, <1>4, <2>5, <3>1 DEF TypeOK
    <3>3. a.selected \in Requested(state) \union {RDP}
      BY <2>1, <2>5 DEF RecvResponse, MayAnswer
    <3>. QED  BY <1>2, <3>1, <3>2, <3>3 DEF Requested
  <2>6. ~NegotiateSecurityLayer /\ state' = FINAL => SelectedProtocol' \in secured'
    BY <1>2, <2>1, <2>5
  <2>. QED  BY <1>2, <2>1, <2>3, <2>4, <2>6 DEF ConformingInv, Unasked, Answered
<1>. QED  BY <1>6, <1>7

\* A lost answer fails the attempt.
LEMMA OutcomeRecvFails ==
    ASSUME NegoInv, OutcomeInv, ConformingInv, RecvFails
    PROVE  OutcomeInv' /\ ConformingInv'
<1> USE DEF Protocols, EXT, NLA, TLS, RDP, INITIAL, FAIL, FINAL
<1>1. OutcomeInv'
  BY DEF OutcomeInv, Answered, NegotiatedIsEnabled, RecvFails, configuration
<1>2. ConformingInv'
  BY DEF ConformingInv, Unasked, Answered, RecvFails, configuration
<1>. QED  BY <1>1, <1>2

\* Leaving or repeating the loop keeps what the connection is secured with.
LEMMA OutcomeCheck ==
    ASSUME NegoInv, OutcomeInv, ConformingInv, CheckState
    PROVE  OutcomeInv' /\ ConformingInv'
<1> USE DEF NegoInv, Protocols, EXT, NLA, TLS, RDP, INITIAL, FAIL, FINAL
<1>1. OutcomeInv'
  BY DEF OutcomeInv, TypeOK, ControlState, Answered, NegotiatedIsEnabled, CheckState, Return,
         configuration
<1>2. ConformingInv'
  BY DEF ConformingInv, TypeOK, ControlState, Unasked, Answered, CheckState, Return,
         configuration
<1>. QED  BY <1>1, <1>2

\* nego_connect reports success only with the security layer connected, by the attempt
\* or by the final call with the selected protocol.
LEMMA OutcomeFinish ==
    ASSUME NegoInv, OutcomeInv, ConformingInv, NEW ok \in BOOLEAN, FinishConnect(ok)
    PROVE  OutcomeInv' /\ ConformingInv'
<1> USE DEF NegoInv, Protocols, EXT, NLA, TLS, RDP, INITIAL, FAIL, FINAL
<1>1. OutcomeInv'
  <2>1. /\ pc = "security" /\ state = FINAL /\ pc' = "done"
        /\ UNCHANGED <<settings, NegotiateSecurityLayer, EnabledProtocols, SelectedProtocol,
                       answer>>
    BY DEF FinishConnect, Return, configuration, ControlState
  <2>2. ~NegotiateSecurityLayer => secured' = secured
    BY <2>1 DEF OutcomeInv, Answered, FinishConnect, SecurityConnect
  <2>3. NegotiateSecurityLayer => secured' \subseteq {SelectedProtocol} \ {EXT}
    BY <2>1 DEF OutcomeInv, FinishConnect, SecurityConnect
  <2>4. answer = "response" => secured' \subseteq settings
    BY <2>1, <2>2, <2>3 DEF OutcomeInv
  <2>. QED  BY <2>1, <2>2, <2>4 DEF OutcomeInv, Answered, NegotiatedIsEnabled
<1>2. ConformingInv'
  BY DEF ConformingInv, OutcomeInv, TypeOK, ControlState, Unasked, Answered, FinishConnect,
         SecurityConnect, Return, configuration
<1>. QED  BY <1>1, <1>2

\* A stuttering step changes nothing.
LEMMA OutcomeStutter ==
    OutcomeInv /\ ConformingInv /\ UNCHANGED nvars => OutcomeInv' /\ ConformingInv'
BY DEF OutcomeInv, ConformingInv, nvars, configuration, Unasked, Answered, NegotiatedIsEnabled

\* Whatever the transport and the server do, the outcome is as the two invariants say.
LEMMA OutcomeStep ==
    NegoInv /\ OutcomeInv /\ ConformingInv /\ [Next]_nvars => OutcomeInv' /\ ConformingInv'
<1> SUFFICES ASSUME NegoInv, OutcomeInv, ConformingInv, [Next]_nvars
             PROVE  OutcomeInv' /\ ConformingInv'
  OBVIOUS
<1>1. CASE ChooseProtocol  BY <1>1, OutcomeChoose
<1>2. CASE RecvFails  BY <1>2, OutcomeRecvFails
<1>3. CASE CheckState  BY <1>3, OutcomeCheck
<1>4. CASE Done  BY <1>4, OutcomeStutter DEF Done
<1>5. CASE \E tcp, ok \in BOOLEAN : SendPreconnection(tcp, ok)  BY <1>5, OutcomePreconnection
<1>6. CASE \E tcp, ok, sent \in BOOLEAN : Attempt(tcp, ok, sent)  BY <1>6, OutcomeAttempt
<1>7. CASE \E a \in Answers : RecvResponse(a)  BY <1>7, OutcomeRecv
<1>8. CASE \E ok \in BOOLEAN : FinishConnect(ok)  BY <1>8, OutcomeFinish
<1>9. CASE UNCHANGED nvars  BY <1>9, OutcomeStutter
<1>. QED  BY <1>1, <1>2, <1>3, <1>4, <1>5, <1>6, <1>7, <1>8, <1>9 DEF Next

\* Whatever the server selected, nego_connect succeeds on a selection only with a
\* security layer the user has enabled.
THEOREM SelectionEnabled == Spec => []NegotiatedIsEnabled
<1>1. OutcomeInv => NegotiatedIsEnabled  BY DEF OutcomeInv
<1>. QED  BY <1>1, NegoInit, NegoStep, OutcomeInit, OutcomeStep, PTL DEF Spec

\* With a conforming server no connection carries a second request, and the selected
\* protocol that the settings take over is the one the connection is secured with.
THEOREM ConformingOutcome == Spec => [](OneRequestPerConnection /\ SecuredAsSelected)
<1>1. ConformingInv => OneRequestPerConnection /\ SecuredAsSelected
  BY DEF ConformingInv, OneRequestPerConnection, SecuredAsSelected
<1>. QED  BY <1>1, NegoInit, NegoStep, OutcomeInit, OutcomeStep, PTL DEF Spec

===============================================================================
