--------------------------------- MODULE Nego ---------------------------------
(***************************************************************************)
(* The client's protocol security negotiation, libfreerdp/core/nego.c: one *)
(* call of nego_connect on the rdpNego that rdp_client_connect has set up. *)
(* The client tries the strongest enabled protocol and falls back to the   *)
(* weaker ones on a new TCP connection each time. The transport and the    *)
(* server are external: every call may fail, and the server may answer     *)
(* anything (Conforming = FALSE) or only what the protocol allows it to.   *)
(***************************************************************************)
EXTENDS Naturals, FiniteSets

VARIABLES
    Conforming,          \* the server only answers what it was asked for
    settings,            \* the protocols the user has enabled in rdpSettings
    EnabledProtocols,    \* nego's copy, trimmed when negotiation is disabled
    NegotiateSecurityLayer,
    SendPreconnectionPdu,
    state,               \* NEGO_STATE
    TcpConnected,
    SecurityConnected,
    SelectedProtocol,
    RequestedProtocols,  \* the set of protocols of the RDP_NEG_REQ
    sendNegoData,
    pc,                  \* where nego_connect is
    result,              \* what nego_connect returned, "none" before
    answer,              \* history: the kind of the last connection confirm
    requests,            \* history: connection requests on this TCP connection, 2 for more
    secured              \* history: the protocols the security layer was connected with

configuration == <<Conforming, settings, NegotiateSecurityLayer, SendPreconnectionPdu>>
nvars == <<configuration, EnabledProtocols, state, TcpConnected, SecurityConnected,
           SelectedProtocol, RequestedProtocols, sendNegoData, pc, result, answer, requests,
           secured>>

\* The PROTOCOL_* constants. nego_recv and nego_security_connect treat a selection that
\* is none of them like EXT, so EXT stands for those as well.
RDP == 0
TLS == 1
NLA == 2
EXT == 8
Protocols == {RDP, TLS, NLA, EXT}

\* NEGO_STATE: the state of an attempt is named by its protocol.
INITIAL == 9
FAIL == 10
FINAL == 11

\* The strongest of a set of protocols, FAIL when there is none.
Strongest(s) == IF s = {} THEN FAIL ELSE CHOOSE p \in s : \A q \in s : q <= p

\* Mutant of Fallback: the order of the tests starts with the protocol that failed.
FallbackRetries(p) == Strongest({q \in EnabledProtocols : q <= p})

\* Mutant of Fallback: goes to the next lower number, enabled or not.
FallbackDecrements(p) == IF p = RDP THEN FAIL ELSE p - 1

\* The state an attempt that was not answered by an acceptable selection goes on with.
Fallback(p) == Strongest({q \in EnabledProtocols : q < p})

\* What nego_attempt_ext, _nla, _tls and _rdp ask for.
Requested(p) == CASE p = EXT -> {NLA, TLS, EXT}
                  [] p = NLA -> {NLA, TLS}
                  [] p = TLS -> {TLS}
                  [] OTHER -> {}

Init ==
    /\ Conforming \in BOOLEAN
    /\ settings \in SUBSET Protocols
    /\ EnabledProtocols = settings
    /\ NegotiateSecurityLayer \in BOOLEAN
    /\ SendPreconnectionPdu \in BOOLEAN
    /\ state = INITIAL
    /\ TcpConnected = FALSE
    /\ SecurityConnected = FALSE
    /\ SelectedProtocol = RDP
    /\ RequestedProtocols = {}
    /\ sendNegoData = FALSE
    /\ pc = "start"
    /\ result = "none"
    /\ answer = "none yet"
    /\ requests = 0
    /\ secured = {}

Return(value) == pc' = "done" /\ result' = value

-----------------------------------------------------------------------------
(* nego_connect *)

\* Choosing the first state; without negotiation only that protocol stays enabled
\* (EXT keeps NLA too) and it counts as selected.
ChooseProtocol ==
    /\ pc = "start"
    /\ state' = Strongest(EnabledProtocols)
    /\ IF EnabledProtocols = {}
         THEN Return("FALSE") /\ UNCHANGED <<EnabledProtocols, SelectedProtocol>>
         ELSE /\ pc' = IF SendPreconnectionPdu THEN "preconnect" ELSE "attempt"
              /\ IF NegotiateSecurityLayer
                   THEN UNCHANGED <<EnabledProtocols, SelectedProtocol>>
                   ELSE /\ EnabledProtocols' =
                              IF state' = EXT THEN {EXT, NLA} ELSE {state'}
                        /\ SelectedProtocol' = state'
              /\ UNCHANGED result
    /\ UNCHANGED <<configuration, TcpConnected, SecurityConnected, RequestedProtocols,
                   sendNegoData, answer, requests, secured>>

\* nego_tcp_connect keeps an open connection and otherwise tries the host, the gateway or
\* both; tcp is what the last transport_connect returns.
nego_tcp_connect(tcp) == (TcpConnected => tcp) /\ TcpConnected' = tcp

\* nego_send_preconnection_pdu; ok is whether the write succeeds.
SendPreconnection(tcp, ok) ==
    /\ pc = "preconnect"
    /\ nego_tcp_connect(tcp)
    /\ IF tcp /\ ok THEN pc' = "attempt" /\ UNCHANGED <<state, result>>
                    ELSE state' = FINAL /\ Return("FALSE")
    /\ UNCHANGED <<configuration, EnabledProtocols, SecurityConnected, SelectedProtocol,
                   RequestedProtocols, sendNegoData, answer, requests, secured>>

-----------------------------------------------------------------------------
(* nego_attempt_ext, _nla, _tls, _rdp *)

\* nego_security_connect on a TCP connection; ok is what transport_connect_tls or
\* transport_connect_nla returns, transport_connect_rdp does nothing and succeeds.
\* There is no branch for EXT.
SecurityConnect(ok) ==
    LET connected == (SelectedProtocol = RDP) \/ (SelectedProtocol \in {TLS, NLA} /\ ok)
    IN  IF SecurityConnected
          THEN UNCHANGED <<SecurityConnected, secured>>
          ELSE /\ SecurityConnected' = connected
               /\ secured' = IF connected THEN secured \union {SelectedProtocol} ELSE secured

\* nego_send_negotiation_request, once it is written; the count stops at two.
nego_send_negotiation_request ==
    pc' = "sent" /\ requests' = IF requests = 0 THEN 1 ELSE 2

\* The attempt up to its request: nego_tcp_connect, on the preconnection PDU's connection
\* if there is one; nego_transport_connect, which connects the security layer too when
\* negotiation is disabled; nego_send_negotiation_request. A failure of any is final.
Attempt(tcp, ok, sent) ==
    /\ pc = "attempt" /\ state \in Protocols
    /\ RequestedProtocols' = Requested(state)
    /\ nego_tcp_connect(tcp)
    /\ IF tcp /\ ~NegotiateSecurityLayer
         THEN SecurityConnect(ok)
         ELSE UNCHANGED <<SecurityConnected, secured>>
    /\ IF tcp /\ (NegotiateSecurityLayer \/ SecurityConnected') /\ sent
         THEN nego_send_negotiation_request /\ UNCHANGED state
         ELSE pc' = "check" /\ state' = FAIL /\ UNCHANGED requests
    /\ UNCHANGED <<configuration, EnabledProtocols, SelectedProtocol, sendNegoData, result,
                   answer>>

\* The connection confirms: a selection, a failure, no negotiation data (li = 6), and the
\* ones no server should send: too short, or of an unknown type.
Answers ==
    [kind : {"response"}, selected : Protocols]
        \union [kind : {"none", "shortResponse", "shortHeader", "unknownType",
                        "sslNotAllowed", "otherFailure"}]

\* What a server may answer: RDP_NEG_RSP with something that was requested, or with RDP,
\* a failure code, or a confirm without negotiation data, the only one that may answer a
\* request without it.
MayAnswer(a) ==
    Conforming =>
        \/ a.kind = "none"
        \/ /\ RequestedProtocols # {} \/ sendNegoData
           /\ \/ a.kind = "response" /\ a.selected \in RequestedProtocols \union {RDP}
              \/ a.kind \in {"sslNotAllowed", "otherFailure"}

\* Mutant of RecvState: a confirm without negotiation data is taken for RDP security
\* whether or not that is enabled.
RecvStateAnyLegacy(a) ==
    CASE a.kind = "response" -> IF a.selected \in EnabledProtocols \union {EXT} THEN FINAL ELSE FAIL
      [] a.kind = "none" -> FINAL
      [] a.kind = "unknownType" -> state
      [] OTHER -> FAIL

\* Mutant of RecvState: the selected protocol is not compared with the enabled ones.
RecvStateAnySelection(a) ==
    CASE a.kind = "response" -> FINAL
      [] a.kind = "none" -> IF RDP \in EnabledProtocols THEN FINAL ELSE FAIL
      [] a.kind = "unknownType" -> state
      [] OTHER -> FAIL

\* nego_recv: the state after an answer. EXT is accepted whether or not it is enabled.
RecvState(a) ==
    CASE a.kind = "response" -> IF a.selected \in EnabledProtocols \union {EXT} THEN FINAL ELSE FAIL
      [] a.kind = "none" -> IF RDP \in EnabledProtocols THEN FINAL ELSE FAIL
      [] a.kind = "unknownType" -> state
      [] OTHER -> FAIL

\* Mutant of nego_transport_disconnect: the security layer is not marked disconnected.
DisconnectKeepsSecurity ==
    TcpConnected' = FALSE /\ requests' = 0 /\ UNCHANGED SecurityConnected

\* Mutant of nego_transport_disconnect: returns early, the TCP connection is kept.
DisconnectKeepsTcp == UNCHANGED <<TcpConnected, SecurityConnected, requests>>

\* nego_transport_disconnect.
nego_transport_disconnect ==
    TcpConnected' = FALSE /\ SecurityConnected' = FALSE /\ requests' = 0

\* nego_recv_response and the end of the attempt: unless the answer was accepted, the
\* connection is closed and the next weaker enabled protocol tried. nego_attempt_rdp has
\* no such end: it leaves connection and state as they are.
RecvResponse(a) ==
    /\ pc = "sent" /\ MayAnswer(a)
    /\ pc' = "check"
    /\ answer' = a.kind
    /\ SelectedProtocol' = IF a.kind = "response" THEN a.selected ELSE SelectedProtocol
    /\ sendNegoData' = (sendNegoData \/ a.kind = "sslNotAllowed")
    /\ IF RecvState(a) = FINAL \/ state = RDP
         THEN /\ state' = RecvState(a)
              /\ UNCHANGED <<TcpConnected, SecurityConnected, requests>>
         ELSE /\ state' = Fallback(state)
              /\ nego_transport_disconnect
    /\ UNCHANGED <<configuration, EnabledProtocols, RequestedProtocols, result, secured>>

\* transport_read_pdu or the TPKT and TPDU headers fail: the attempt fails for good.
RecvFails ==
    /\ pc = "sent"
    /\ pc' = "check" /\ state' = FAIL
    /\ UNCHANGED <<configuration, EnabledProtocols, TcpConnected, SecurityConnected,
                   SelectedProtocol, RequestedProtocols, sendNegoData, result, answer,
                   requests, secured>>

\* The end of nego_connect's loop body: leave it on FAIL and FINAL, else attempt again.
CheckState ==
    /\ pc = "check"
    /\ IF state = FAIL THEN state' = FINAL /\ Return("FALSE")
       ELSE /\ pc' = IF state = FINAL THEN "security" ELSE "attempt"
            /\ UNCHANGED <<state, result>>
    /\ UNCHANGED <<configuration, EnabledProtocols, TcpConnected, SecurityConnected,
                   SelectedProtocol, RequestedProtocols, sendNegoData, answer, requests,
                   secured>>

\* The settings take the selected protocol over, and the security layer is connected
\* unless it already is.
FinishConnect(ok) ==
    /\ pc = "security"
    /\ SecurityConnect(ok)
    /\ Return(IF SecurityConnected' THEN "TRUE" ELSE "FALSE")
    /\ UNCHANGED <<configuration, EnabledProtocols, state, TcpConnected, SelectedProtocol,
                   RequestedProtocols, sendNegoData, answer, requests>>

\* The caller goes on or gives up; rdp_reset allocates a new rdpNego for another try.
Done == pc = "done" /\ UNCHANGED nvars

Next ==
    \/ ChooseProtocol \/ RecvFails \/ CheckState \/ Done
    \/ \E tcp, ok \in BOOLEAN : SendPreconnection(tcp, ok)
    \/ \E tcp, ok, sent \in BOOLEAN : Attempt(tcp, ok, sent)
    \/ \E a \in Answers : RecvResponse(a)
    \/ \E ok \in BOOLEAN : FinishConnect(ok)

Spec == Init /\ [][Next]_nvars

\* nego_connect runs alone on its thread; every blocking call of the transport returns,
\* with an error at the latest when the connection is lost.
FairSpec == Spec /\ WF_nvars(Next)

-----------------------------------------------------------------------------
(* Properties *)

\* The types of rdpNego's fields and of the control and history variables.
TypeOK ==
    /\ Conforming \in BOOLEAN
    /\ settings \subseteq Protocols
    /\ EnabledProtocols \subseteq Protocols
    /\ NegotiateSecurityLayer \in BOOLEAN /\ SendPreconnectionPdu \in BOOLEAN
    /\ state \in Protocols \union {INITIAL, FAIL, FINAL}
    /\ TcpConnected \in BOOLEAN /\ SecurityConnected \in BOOLEAN
    /\ SelectedProtocol \in Protocols
    /\ RequestedProtocols \subseteq Protocols
    /\ sendNegoData \in BOOLEAN
    /\ pc \in {"start", "preconnect", "attempt", "sent", "check", "security", "done"}
    /\ result \in {"none", "TRUE", "FALSE"}
    /\ requests \in 0..2
    /\ secured \subseteq Protocols

\* Only an open TCP connection is ever taken for secured, so no attempt inherits the
\* security layer of the connection the attempt before it has closed.
SecurityNeedsTcp == SecurityConnected => TcpConnected

\* Whatever the server answers, the connection ends up with plain RDP security only if
\* the user has enabled it.
NoUnwantedDowngrade == RDP \in secured => RDP \in settings

\* When the server's last word was a selection, the security layer that nego_connect
\* reports as connected is one the user has enabled, whatever the server selected.
NegotiatedIsEnabled ==
    result = "TRUE" /\ answer = "response" => secured \subseteq settings

\* With a conforming server: the fallback never sends a second connection request on a
\* connection that has already answered one.
OneRequestPerConnection == Conforming => requests <= 1

\* With a conforming server: the protocol the settings take over is the one the security
\* layer was connected with, also where it was connected before the answer came.
SecuredAsSelected ==
    Conforming /\ result = "TRUE" => SelectedProtocol \in secured

\* With a conforming server the fallback ends: nego_connect returns.
NegotiationEnds == Conforming => <>(pc = "done")
=============================================================================
