----------------------------- MODULE ClientConnect -----------------------------
(***************************************************************************)
(* The client's connection sequence, libfreerdp/core: rdp_client_connect   *)
(* and rdp_client_redirect (connection.c), the dispatch of every received  *)
(* PDU by the state of the connection (rdp_recv_callback, rdp.c), channel  *)
(* joins, licensing, capabilities and finalization, and the loops that     *)
(* wait for the ACTIVE state. These loops nest: a Deactivate All PDU waits  *)
(* for the reactivation inside the callback that received it, and a        *)
(* redirection connects again inside the loop that met it.                 *)
(*                                                                         *)
(* The server is external and may send any PDU in any state. Every write   *)
(* may fail. nego_connect is module Nego; here only its outcome counts.    *)
(***************************************************************************)
EXTENDS Naturals, Sequences, FiniteSets

CONSTANTS
    StaticChannels,     \* the names of the static virtual channels, in the order of mcs->channels
    BitmapCachePersistEnabled,
    MaxNested           \* bound on the redirections and Deactivate All PDUs of a behaviour

\* FreeRDP_VirtualChannelInit refuses a name that is taken (client.c:549); "user", "global"
\* and "message" stand for the three channels that have no name.
ASSUME ConnectAssumption ==
    /\ StaticChannels \in Seq(STRING)
    /\ \A i, j \in DOMAIN StaticChannels : StaticChannels[i] = StaticChannels[j] => i = j
    /\ \A i \in DOMAIN StaticChannels : StaticChannels[i] \notin {"user", "global", "message"}
    /\ BitmapCachePersistEnabled \in BOOLEAN
    /\ MaxNested \in Nat

VARIABLES
    state,              \* rdp->state
    nla,                \* rdp->nla->state
    UseRdpSecurityLayer,
    do_crypt,
    keys,               \* rdp->rc4_encrypt_key (or the FIPS contexts) is there
    message,            \* mcs->messageChannelId # 0
    joined,             \* the channels whose joined flag is set
    license,            \* license->state
    finalize_sc_pdus,
    deactivation_reactivation,
    abortEvent,
    frames,             \* the loops that wait, the innermost last
    freed,              \* how many of the frames run on a transport that rdp_reset has freed
    pc,                 \* where the innermost loop is
    nested,             \* counts the redirections and deactivations, for the bound
    sent,               \* history: the PDUs written on this connection, licensing left out
    answered,           \* history: the finalization PDUs received since Confirm Active
    resumed             \* history: a loop went on after a redirection that failed

mcs == <<message, joined>>
crypt == <<UseRdpSecurityLayer, do_crypt, keys>>
share == <<finalize_sc_pdus, deactivation_reactivation, answered>>
loops == <<frames, freed, pc, resumed>>
vars == <<state, nla, crypt, mcs, license, share, abortEvent, loops, nested, sent>>

States == {"INITIAL", "NEGO", "NLA", "MCS_CONNECT", "MCS_ATTACH_USER", "MCS_CHANNEL_JOIN",
           "LICENSING", "CAPABILITIES_EXCHANGE", "FINALIZATION", "ACTIVE"}

\* The server's finalization PDUs, FINALIZE_SC_COMPLETE.
FinalizePdus == {"synchronize", "cooperate", "granted", "font_map"}

\* The channels in the order in which they are joined.
JoinOrder == (IF message THEN <<"user", "global", "message">> ELSE <<"user", "global">>)
             \o StaticChannels

\* The loop rdp_client_connect waits in, the main loop of the session, and the loop of
\* rdp_recv_deactivate_all inside a callback that was called in FINALIZATION or in ACTIVE.
Frames == {"connect", "run", "final", "active"}
Callbacks == {"final", "active"}
Terminal == {"failed", "ended", "crashed"}

Init ==
    /\ state = "INITIAL"
    /\ nla = "NEGO_TOKEN"
    /\ UseRdpSecurityLayer = FALSE /\ do_crypt = FALSE /\ keys = FALSE
    /\ message = FALSE /\ joined = {}
    /\ license = "AWAIT"
    /\ finalize_sc_pdus = {} /\ deactivation_reactivation = FALSE /\ answered = {}
    /\ abortEvent = FALSE
    /\ frames = <<"connect">> /\ freed = 0 /\ pc = "nego" /\ resumed = FALSE
    /\ nested = 0
    /\ sent = <<>>

-----------------------------------------------------------------------------
(* What a handler's status does to the loops: transport_check_fds, rdp_check_fds and the
   loops of rdp_client_connect and rdp_recv_deactivate_all. *)

\* Leaving frames i..Len(frames) returns through their callbacks to a transport_check_fds
\* whose transport a redirection has freed: anything may happen, a crash included.
ThroughFreed(i) == \E j \in i..Len(frames) : j <= freed /\ frames[j] \in Callbacks
Leave(i, where) == pc' = where \/ (ThroughFreed(i) /\ pc' = "crashed")

\* Status 0: the next PDU.
Continue == pc' = "loop" /\ UNCHANGED <<frames, freed, resumed>>

\* The state is ACTIVE: every loop that waits for it returns, the session's loop goes on.
Activate ==
    /\ state' = "ACTIVE"
    /\ frames' = <<"run">> /\ freed' = 0
    /\ Leave(1, "loop")
    /\ UNCHANGED resumed

\* The innermost rdp_client_connect that is running, 0 if there is none.
LastConnect == IF \E i \in 1..Len(frames) : frames[i] = "connect"
                 THEN CHOOSE i \in 1..Len(frames) :
                          frames[i] = "connect" /\ \A j \in (i+1)..Len(frames) : frames[j] # "connect"
                 ELSE 0

\* Mutant of Fail: the caller's loop is left as well.
FailLeavesCaller ==
    /\ frames' = SubSeq(frames, 1, IF LastConnect > 1 THEN LastConnect - 2 ELSE 1)
    /\ pc' = IF LastConnect > 1 THEN "loop" ELSE "failed"
    /\ UNCHANGED <<freed, resumed>>

\* Status -1: the callbacks' loops fail up to the innermost rdp_client_connect. That one
\* returns FALSE, which its caller, rdp_client_redirect, hands to rdp_check_fds as 0.
Fail ==
    IF LastConnect > 1
      THEN /\ frames' = SubSeq(frames, 1, LastConnect - 1)
           /\ Leave(LastConnect, "loop")
           /\ resumed' = TRUE
           /\ UNCHANGED freed
      ELSE /\ Leave(1, IF LastConnect = 1 THEN "failed" ELSE "ended")
           /\ UNCHANGED <<frames, freed, resumed>>

\* The first n of the PDUs ps are written; the handler fails unless that is all of them.
Send(ps, n) == n \in 0..Len(ps) /\ sent' = sent \o SubSeq(ps, 1, n)
Goto(s) == state' = s /\ Continue
Failed == UNCHANGED state /\ Fail

-----------------------------------------------------------------------------
(* rdp_client_connect and rdp_client_redirect *)

\* rdp_client_connect up to its loop. protocol is what nego_connect negotiates; "none" is a
\* failure. With NLA the first token has been sent and the state is NLA already.
rdp_client_connect(protocol, n) ==
    /\ pc = "nego"
    /\ UseRdpSecurityLayer' = (UseRdpSecurityLayer \/ protocol = "RDP")
    /\ CASE protocol = "none" -> state' = "NEGO" /\ Fail /\ n = 0 /\ UNCHANGED <<nla, sent>>
         [] protocol = "NLA" -> n = 0 /\ Goto("NLA") /\ nla' = "NEGO_TOKEN" /\ UNCHANGED sent
         [] OTHER -> /\ Send(<<"connect_initial">>, n)
                     /\ IF n = 1 THEN Goto("MCS_CONNECT") ELSE state' = "NEGO" /\ Fail
                     /\ UNCHANGED nla
    /\ UNCHANGED <<do_crypt, keys, mcs, license, share, abortEvent, nested>>

\* The keys are freed and do_crypt stays; mcs and license are new.
rdp_reset ==
    /\ keys' = FALSE
    /\ message' = FALSE /\ joined' = {}
    /\ license' = "AWAIT"
    /\ finalize_sc_pdus' = {} /\ deactivation_reactivation' = FALSE
    /\ UNCHANGED do_crypt

\* rdp_client_disconnect, which resets abortEvent too, then the settings of the redirection
\* (ok is whether they can be applied) and a new rdp_client_connect.
rdp_client_redirect(ok) ==
    /\ pc = "redirect"
    /\ abortEvent' = FALSE
    /\ rdp_reset
    /\ state' = "INITIAL"
    /\ sent' = <<>> /\ answered' = {}
    /\ freed' = Len(frames)
    /\ IF ok THEN frames' = Append(frames, "connect") /\ pc' = "nego" /\ UNCHANGED resumed
             ELSE pc' = "loop" /\ resumed' = TRUE /\ UNCHANGED frames
    /\ UNCHANGED <<nla, UseRdpSecurityLayer, nested>>

-----------------------------------------------------------------------------
(* The loops *)

\* transport_check_fds reads a PDU (read), or the transport fails. Without a connection
\* (INITIAL, NEGO) there is nothing to read from.
Read(read) ==
    /\ pc = "loop" /\ ~abortEvent
    /\ IF read /\ state \notin {"INITIAL", "NEGO"}
         THEN pc' = "recv" /\ UNCHANGED <<state, frames, freed, resumed>>
         ELSE Failed
    /\ UNCHANGED <<nla, crypt, mcs, license, share, abortEvent, nested, sent>>

\* Mutant of SeeAbort: rdp_recv_deactivate_all does not test freerdp_shall_disconnect.
SeeAbortOnlyInMainLoop ==
    /\ pc = "loop" /\ abortEvent
    /\ pc' = IF frames[Len(frames)] = "run" THEN "ended" ELSE pc
    /\ UNCHANGED <<state, nla, crypt, mcs, license, share, abortEvent, frames, freed, resumed,
                   nested, sent>>

\* freerdp_shall_disconnect: transport_check_fds returns 0 without reading. The session's
\* loop ends; rdp_recv_deactivate_all stops waiting and its callback goes on (in FINALIZATION
\* it tests finalize_sc_pdus); rdp_client_connect does not test it and calls again.
SeeAbort ==
    /\ pc = "loop" /\ abortEvent
    /\ LET top == Len(frames) IN
       CASE frames[top] = "run" ->
                pc' = "ended" /\ UNCHANGED <<state, frames, freed, resumed>>
         [] frames[top] = "final" /\ finalize_sc_pdus = FinalizePdus -> Activate
         [] frames[top] = "connect" -> UNCHANGED <<state, loops>>
         [] OTHER -> /\ frames' = SubSeq(frames, 1, top - 1)
                     /\ Leave(top, "loop")
                     /\ UNCHANGED <<state, freed, resumed>>
    /\ UNCHANGED <<nla, crypt, mcs, license, share, abortEvent, nested, sent>>

\* freerdp_abort_connect by the user, at any time.
freerdp_abort_connect ==
    /\ pc \notin Terminal /\ ~abortEvent
    /\ abortEvent' = TRUE
    /\ UNCHANGED <<state, nla, crypt, mcs, license, share, loops, nested, sent>>

-----------------------------------------------------------------------------
(* rdp_recv_callback *)

\* CONNECTION_STATE_NLA: nla_client_recv consumes a token (last when the context is
\* complete) or the public key echo, which must be right before the credentials are sent.
\* After the credentials rdp->nla is freed; a PDU that finds the state NLA still (a failed
\* redirection was resumed) reads a null pointer.
RecvNla(last, n) ==
    /\ pc = "recv" /\ state = "NLA"
    /\ IF nla = "NEGO_TOKEN"
         THEN /\ nla' = IF last THEN "PUB_KEY_AUTH" ELSE nla
              /\ n = 0 /\ Goto("NLA") /\ UNCHANGED sent
         ELSE IF nla = "PUB_KEY_AUTH"
         THEN /\ Send(<<"credentials", "connect_initial">>, n)
              /\ nla' = IF n > 0 THEN "AUTH_INFO" ELSE nla
              /\ IF n = 2 THEN Goto("MCS_CONNECT") ELSE Failed
         ELSE n = 0 /\ pc' = "crashed" /\ UNCHANGED <<state, nla, frames, freed, resumed, sent>>
    /\ UNCHANGED <<crypt, mcs, license, share, abortEvent, nested>>

\* A PDU that the states before licensing cannot parse, or an echo that is wrong.
RecvBad ==
    /\ pc = "recv"
    /\ state \in {"NLA", "MCS_CONNECT", "MCS_ATTACH_USER"}
    /\ state = "NLA" => nla # "AUTH_INFO"
    /\ Failed
    /\ UNCHANGED <<nla, crypt, mcs, license, share, abortEvent, nested, sent>>

\* The server's security data: with encryption level NONE the RDP layer does not encrypt.
gcc_read_server_security_data(encrypts) ==
    UseRdpSecurityLayer' = (UseRdpSecurityLayer /\ encrypts)

\* CONNECTION_STATE_MCS_CONNECT: the response says whether there is a message channel.
RecvConnectResponse(channel, encrypts, n) ==
    /\ pc = "recv" /\ state = "MCS_CONNECT"
    /\ message' = channel
    /\ gcc_read_server_security_data(encrypts)
    /\ Send(<<"erect_domain", "attach_user">>, n)
    /\ IF n = 2 THEN Goto("MCS_ATTACH_USER") ELSE Failed
    /\ UNCHANGED <<nla, do_crypt, keys, joined, license, share, abortEvent, nested>>

\* CONNECTION_STATE_MCS_ATTACH_USER
RecvAttachUserConfirm(n) ==
    /\ pc = "recv" /\ state = "MCS_ATTACH_USER"
    /\ Send(<<"user">>, n)
    /\ IF n = 1 THEN Goto("MCS_CHANNEL_JOIN") ELSE Failed
    /\ UNCHANGED <<nla, crypt, mcs, license, share, abortEvent, nested>>

\* The channel that is joined next: the first one that is not.
NextJoin(i) == /\ JoinOrder[i] \notin joined
               /\ \A j \in 1..(i-1) : JoinOrder[j] \in joined

AllJoined == \A i \in 1..Len(JoinOrder) : JoinOrder[i] \in joined

\* Mutant of SecureAndInform: the Client Info PDU goes out before the keys are exchanged.
InformAndSecure(n) ==
    LET exchange == IF UseRdpSecurityLayer THEN <<"security_exchange">> ELSE <<>> IN
    /\ Send(<<"client_info">> \o exchange, n)
    /\ keys' = (keys \/ (UseRdpSecurityLayer /\ n > 0))
    /\ do_crypt' = (do_crypt \/ (UseRdpSecurityLayer /\ n > 0))
    /\ IF n = 1 + Len(exchange) THEN Goto("LICENSING") ELSE Failed

\* rdp_client_establish_keys, then rdp_send_client_info. With do_crypt set and no keys the
\* Client Info PDU is encrypted with a null key.
SecureAndInform(n) ==
    LET exchange == IF UseRdpSecurityLayer THEN <<"security_exchange">> ELSE <<>> IN
    /\ keys' = (keys \/ (UseRdpSecurityLayer /\ n > 0))
    /\ do_crypt' = (do_crypt \/ (UseRdpSecurityLayer /\ n > 0))
    /\ IF do_crypt /\ ~keys /\ ~UseRdpSecurityLayer
         THEN n = 0 /\ pc' = "crashed" /\ UNCHANGED <<state, frames, freed, resumed, sent>>
         ELSE /\ Send(exchange \o <<"client_info">>, n)
              /\ IF n = 1 + Len(exchange) THEN Goto("LICENSING") ELSE Failed

\* CONNECTION_STATE_MCS_CHANNEL_JOIN, rdp_client_connect_mcs_channel_join_confirm. When all
\* are joined already (a failed redirection was resumed) the channel is not looked at.
RecvJoinConfirm(channel, n) ==
    /\ pc = "recv" /\ state = "MCS_CHANNEL_JOIN"
    /\ \/ /\ AllJoined
          /\ SecureAndInform(n)
          /\ UNCHANGED joined
       \/ \E i \in 1..Len(JoinOrder) :
             /\ NextJoin(i)
             /\ IF channel # JoinOrder[i]
                  THEN n = 0 /\ Failed /\ UNCHANGED <<joined, keys, do_crypt, sent>>
                  ELSE /\ joined' = joined \union {channel}
                       /\ IF i < Len(JoinOrder)
                            THEN /\ Send(<<JoinOrder[i + 1]>>, n)
                                 /\ IF n = 1 THEN Goto(state) ELSE Failed
                                 /\ UNCHANGED <<keys, do_crypt>>
                            ELSE SecureAndInform(n)
    /\ UNCHANGED <<nla, UseRdpSecurityLayer, message, license, share, abortEvent, nested>>

\* The license state after a message: granted, an error that aborts, or one to wait after.
\* A request, a challenge and an error that resends leave it as it is.
license_recv(to) == license' = to

\* CONNECTION_STATE_LICENSING, rdp_client_connect_license.
RecvLicense(to) ==
    /\ pc = "recv" /\ state = "LICENSING"
    /\ license_recv(to)
    /\ CASE to = "COMPLETED" -> Goto("CAPABILITIES_EXCHANGE")
         [] to = "ABORTED" -> Failed
         [] OTHER -> Goto("LICENSING")
    /\ UNCHANGED <<nla, crypt, mcs, share, abortEvent, nested, sent>>

\* rdp_recv_data_pdu, in sequence or not: kind is the finalization PDU, "other" any other.
rdp_recv_data_pdu(kind) ==
    /\ finalize_sc_pdus' = finalize_sc_pdus \union ({kind} \intersect FinalizePdus)
    /\ answered' = answered \union ({kind} \intersect FinalizePdus)
    /\ UNCHANGED deactivation_reactivation

\* Status 0 of rdp_recv_pdu: in FINALIZATION the callback tests finalize_sc_pdus.
Received == IF state = "FINALIZATION" /\ finalize_sc_pdus' = FinalizePdus THEN Activate
                                                                          ELSE Goto(state)

\* rdp_read_header sets abortEvent for a Disconnect Provider Ultimatum. From the capabilities
\* exchange on, that PDU and any PDU met after an abort is left alone.
RecvAborted ==
    /\ pc = "recv"
    /\ abortEvent' = TRUE
    /\ UNCHANGED <<nla, crypt, mcs, license, share, nested, sent>>
    /\ \/ state \in {"CAPABILITIES_EXCHANGE", "FINALIZATION", "ACTIVE"} /\ Received
       \/ state = "LICENSING" /\ (Goto(state) \/ Failed)

\* A data PDU in licensing or in place of Demand Active, rdp_recv_out_of_sequence_pdu; a
\* license that was aborted fails the step all the same.
RecvDataEarly(kind, ok) ==
    /\ pc = "recv" /\ state \in {"LICENSING", "CAPABILITIES_EXCHANGE"}
    /\ state = "CAPABILITIES_EXCHANGE" => ~abortEvent
    /\ rdp_recv_data_pdu(kind)
    /\ IF ok /\ license # "ABORTED" THEN Goto(state) ELSE Failed
    /\ UNCHANGED <<nla, crypt, mcs, license, abortEvent, nested, sent>>

\* Mutant of TransitionToFinalization: finalize_sc_pdus is not reset.
TransitionKeepsPdus == UNCHANGED finalize_sc_pdus

\* rdp_client_transition_to_state(FINALIZATION)
TransitionToFinalization == finalize_sc_pdus' = {}

\* The PDUs that answer a Demand Active PDU, rdp_client_connect_finalize.
ConfirmBatch ==
    <<"confirm_active", "client_synchronize", "client_cooperate", "request_control">>
    \o (IF ~deactivation_reactivation /\ BitmapCachePersistEnabled
          THEN <<"persistent_key_list", "font_list">> ELSE <<"font_list">>)

\* CONNECTION_STATE_CAPABILITIES_EXCHANGE, rdp_client_connect_demand_active. resize is
\* whether the desktop resize callback succeeds.
RecvDemandActive(resize, n) ==
    /\ pc = "recv" /\ ~abortEvent /\ state = "CAPABILITIES_EXCHANGE"
    /\ Send(ConfirmBatch, n)
    /\ answered' = IF n > 0 THEN {} ELSE answered
    /\ IF n = 0 \/ (n = 1 /\ ~resize)
         THEN Failed /\ UNCHANGED finalize_sc_pdus
         ELSE /\ TransitionToFinalization
              /\ IF n = Len(ConfirmBatch) THEN Goto("FINALIZATION")
                                          ELSE state' = "FINALIZATION" /\ Fail
    /\ UNCHANGED deactivation_reactivation
    /\ UNCHANGED <<nla, crypt, mcs, license, abortEvent, nested>>

\* rdp_recv_tpkt_pdu with a data PDU in FINALIZATION, which may complete it, or in ACTIVE.
\* Updates, channel data and unknown PDUs are "other".
RecvData(kind, ok) ==
    /\ pc = "recv" /\ ~abortEvent /\ state \in {"FINALIZATION", "ACTIVE"}
    /\ rdp_recv_data_pdu(kind)
    /\ IF ok THEN Received ELSE Failed
    /\ UNCHANGED <<nla, crypt, mcs, license, abortEvent, nested, sent>>

\* rdp_recv_deactivate_all
RecvDeactivateAll ==
    /\ pc = "recv" /\ ~abortEvent /\ state \in {"FINALIZATION", "ACTIVE"}
    /\ nested < MaxNested
    /\ nested' = nested + 1
    /\ deactivation_reactivation' = (state = "ACTIVE")
    /\ state' = "CAPABILITIES_EXCHANGE"
    /\ frames' = Append(frames, IF state = "ACTIVE" THEN "active" ELSE "final")
    /\ pc' = "loop"
    /\ UNCHANGED <<nla, crypt, mcs, license, finalize_sc_pdus, answered, freed, resumed,
                   abortEvent, sent>>

\* A Server Redirection PDU: status 1. In licensing license_recv drops the status, and a
\* FINALIZATION that is complete becomes ACTIVE instead.
RecvRedirection ==
    /\ pc = "recv"
    /\ \/ /\ state \in {"CAPABILITIES_EXCHANGE", "FINALIZATION", "ACTIVE"} /\ ~abortEvent
          /\ nested < MaxNested
          /\ nested' = nested + 1
          /\ IF state = "FINALIZATION" /\ finalize_sc_pdus = FinalizePdus THEN Activate
               ELSE pc' = "redirect" /\ UNCHANGED <<state, frames, freed, resumed>>
       \/ /\ state = "LICENSING" /\ license # "ABORTED"
          /\ Goto(state)
          /\ UNCHANGED nested
    /\ UNCHANGED <<nla, crypt, mcs, license, share, abortEvent, sent>>

-----------------------------------------------------------------------------
Channels == {"user", "global", "message"} \union {StaticChannels[i] : i \in DOMAIN StaticChannels}

\* What the server sends is the choice of the parameters.
Handle ==
    \/ \E last \in BOOLEAN, n \in 0..2 : RecvNla(last, n)
    \/ RecvBad
    \/ \E channel, encrypts \in BOOLEAN, n \in 0..2 : RecvConnectResponse(channel, encrypts, n)
    \/ \E n \in 0..1 : RecvAttachUserConfirm(n)
    \/ \E channel \in Channels, n \in 0..2 : RecvJoinConfirm(channel, n)
    \/ \E to \in {"AWAIT", "COMPLETED", "ABORTED"} : RecvLicense(to)
    \/ \E kind \in FinalizePdus \union {"other"}, ok \in BOOLEAN : RecvDataEarly(kind, ok)
    \/ \E resize \in BOOLEAN, n \in 0..6 : RecvDemandActive(resize, n)
    \/ \E kind \in FinalizePdus \union {"other"}, ok \in BOOLEAN : RecvData(kind, ok)
    \/ RecvDeactivateAll
    \/ RecvRedirection
    \/ RecvAborted

\* The steps of the connection thread that wait for nobody.
Client ==
    \/ \E protocol \in {"none", "RDP", "TLS", "NLA"}, n \in 0..1 : rdp_client_connect(protocol, n)
    \/ \E ok \in BOOLEAN : rdp_client_redirect(ok)
    \/ SeeAbort
    \/ Handle

Next ==
    \/ Client
    \/ \E read \in BOOLEAN : Read(read)
    \/ freerdp_abort_connect
    \/ pc \in Terminal /\ UNCHANGED vars

Spec == Init /\ [][Next]_vars

\* The thread goes on by itself; nothing is assumed of the server or the user.
FairSpec == Spec /\ WF_vars(Client)

-----------------------------------------------------------------------------
(* Properties *)

Pdus == {"credentials", "connect_initial", "erect_domain", "attach_user", "security_exchange",
         "client_info", "confirm_active", "client_synchronize", "client_cooperate",
         "request_control", "persistent_key_list", "font_list"} \union Channels

\* Every variable keeps its type.
TypeOK ==
    /\ state \in States
    /\ nla \in {"NEGO_TOKEN", "PUB_KEY_AUTH", "AUTH_INFO"}
    /\ UseRdpSecurityLayer \in BOOLEAN /\ do_crypt \in BOOLEAN /\ keys \in BOOLEAN
    /\ message \in BOOLEAN /\ joined \subseteq Channels
    /\ license \in {"AWAIT", "COMPLETED", "ABORTED"}
    /\ finalize_sc_pdus \subseteq FinalizePdus /\ answered \subseteq FinalizePdus
    /\ deactivation_reactivation \in BOOLEAN /\ abortEvent \in BOOLEAN
    /\ frames \in Seq(Frames) /\ frames # <<>> /\ freed \in Nat /\ resumed \in BOOLEAN
    /\ pc \in {"nego", "redirect", "loop", "recv"} \union Terminal
    /\ nested \in 0..MaxNested
    /\ sent \in Seq(Pdus)

\* A connection that counts as established (rdp->state is ACTIVE, which ends every waiting
\* loop) has really gone through the sequence on this server, however many deactivations,
\* redirections and failures came before: all channels joined, the license granted,
\* Confirm Active sent and the server's four finalization PDUs received after it. Not
\* claimed once abortEvent is set: transport_check_fds then stops reading, and whatever
\* the connection has gone through the session is on its way out.
ActiveIsEarned ==
    state = "ACTIVE" /\ ~abortEvent =>
        /\ AllJoined
        /\ license = "COMPLETED"
        /\ answered = FinalizePdus

\* The PDUs that may follow each other on one connection. The join of the last channel is
\* followed by the Client Info PDU, with RDP security by the keys first; the finalization
\* batch, the key list in its place, may come again after a reactivation.
Diagram ==
    {<<"credentials", "connect_initial">>, <<"connect_initial", "erect_domain">>,
     <<"erect_domain", "attach_user">>, <<"attach_user", "user">>,
     <<"security_exchange", "client_info">>, <<"client_info", "confirm_active">>,
     <<"confirm_active", "client_synchronize">>, <<"client_synchronize", "client_cooperate">>,
     <<"client_cooperate", "request_control">>, <<"request_control", "persistent_key_list">>,
     <<"request_control", "font_list">>, <<"persistent_key_list", "font_list">>,
     <<"font_list", "confirm_active">>}
    \union {<<JoinOrder[i], JoinOrder[i + 1]>> : i \in 1..(Len(JoinOrder) - 1)}
    \union {<<JoinOrder[Len(JoinOrder)], p>> : p \in {"security_exchange", "client_info"}}

\* The diagram in connection.c: unless a failed redirection was resumed, what the client
\* writes follows the documented sequence from its beginning: each channel is asked for
\* after the one before, the keys are exchanged immediately before the Client Info PDU, and
\* each Confirm Active is followed by the whole finalization batch before the next one.
FollowsSequence ==
    ~resumed =>
        /\ sent # <<>> => sent[1] \in {"credentials", "connect_initial"}
        /\ \A k \in 1..(Len(sent) - 1) : <<sent[k], sent[k + 1]>> \in Diagram

\* An abort ends a session whose connection is established, also while it waits for a
\* reactivation inside a callback, unless a redirection forgets the abort.
AbortEndsSession ==
    (abortEvent /\ \A i \in DOMAIN frames : frames[i] # "connect")
        ~> (pc \in Terminal \/ ~abortEvent)

\* An abort ends the connection attempt as well: the test testAbort (TestConnect.c) waits for
\* freerdp_connect to return after freerdp_abort_connect.
AbortEndsConnect == abortEvent ~> (pc \in Terminal \/ ~abortEvent)
===============================================================================
