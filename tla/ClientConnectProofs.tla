-------------------------- MODULE ClientConnectProofs --------------------------
(***************************************************************************)
(* TLAPS proofs about ClientConnect, for any number of static channels,    *)
(* redirections and deactivations.                                         *)
(***************************************************************************)
EXTENDS ClientConnect, TLAPS, WellFoundedInduction

\* The state is past the channel joins, and an ACTIVE is not the one an abort leaves behind.
Beyond(states) == state \in states \/ (state = "ACTIVE" /\ ~abortEvent)

\* The inductive invariant: what each state has achieved on the current connection. The
\* finalization PDUs that the client counts have been received after its Confirm Active.
PhaseInv ==
    /\ Beyond({"LICENSING", "CAPABILITIES_EXCHANGE", "FINALIZATION"}) => AllJoined
    /\ Beyond({"CAPABILITIES_EXCHANGE", "FINALIZATION"}) => license = "COMPLETED"
    /\ state = "FINALIZATION" => finalize_sc_pdus \subseteq answered
    /\ state = "ACTIVE" /\ ~abortEvent => answered = FinalizePdus
    /\ finalize_sc_pdus \subseteq FinalizePdus
    /\ answered \subseteq FinalizePdus

\* What PhaseInv is about, apart from the state.
achieved == <<message, joined, license, finalize_sc_pdus, answered>>

\* Steps that only move the loops, or leave for a state in which nothing is claimed, preserve
\* the invariant: reading, aborting, failing.
LEMMA QuietStep ==
    ASSUME PhaseInv, UNCHANGED achieved,
           state' = state \/ state' \in {"INITIAL", "NEGO", "NLA", "MCS_CONNECT",
                                         "MCS_ATTACH_USER", "MCS_CHANNEL_JOIN"},
           abortEvent' = abortEvent \/ abortEvent'
    PROVE  PhaseInv'
BY DEF PhaseInv, Beyond, achieved, AllJoined, JoinOrder

\* The same for a step that ends in ACTIVE after an abort: there nothing is claimed either.
LEMMA AbortedStep ==
    ASSUME PhaseInv, UNCHANGED achieved, state' = "ACTIVE", abortEvent'
    PROVE  PhaseInv'
BY DEF PhaseInv, Beyond, achieved

\* rdp_client_connect and rdp_client_redirect start a sequence from nothing.
LEMMA ConnectStep ==
    ASSUME PhaseInv,
           \/ \E protocol \in {"none", "RDP", "TLS", "NLA"}, n \in 0..1 :
                 rdp_client_connect(protocol, n)
           \/ \E ok \in BOOLEAN : rdp_client_redirect(ok)
    PROVE  PhaseInv'
<1>1. ASSUME NEW protocol \in {"none", "RDP", "TLS", "NLA"}, NEW n \in 0..1,
             rdp_client_connect(protocol, n)
      PROVE  PhaseInv'
  <2>1. state' \in {"NEGO", "NLA", "MCS_CONNECT"}
    BY <1>1 DEF rdp_client_connect, Goto
  <2>2. UNCHANGED achieved /\ abortEvent' = abortEvent
    BY <1>1 DEF rdp_client_connect, achieved, mcs, share
  <2> QED BY <2>1, <2>2, QuietStep
<1>2. ASSUME NEW ok \in BOOLEAN, rdp_client_redirect(ok)
      PROVE  PhaseInv'
  <2>1. state' = "INITIAL" /\ finalize_sc_pdus' = {} /\ answered' = {}
    BY <1>2 DEF rdp_client_redirect, rdp_reset
  <2> QED BY <2>1 DEF PhaseInv, Beyond
<1> QED BY <1>1, <1>2

\* The loops and the abort.
LEMMA LoopStep ==
    ASSUME PhaseInv,
           (\E read \in BOOLEAN : Read(read)) \/ SeeAbort \/ freerdp_abort_connect
    PROVE  PhaseInv'
<1>1. CASE \E read \in BOOLEAN : Read(read)
  <2>1. UNCHANGED achieved /\ state' = state /\ abortEvent' = abortEvent
    BY <1>1 DEF Read, Failed, achieved, mcs, share
  <2> QED BY <2>1, QuietStep
<1>2. CASE SeeAbort
  <2>1. UNCHANGED achieved /\ abortEvent' = abortEvent /\ abortEvent
    BY <1>2 DEF SeeAbort, achieved, mcs, share
  <2>2. state' = state \/ state' = "ACTIVE"
    BY <1>2 DEF SeeAbort, Activate
  <2> QED BY <2>1, <2>2, QuietStep, AbortedStep
<1>3. CASE freerdp_abort_connect
  <2>1. UNCHANGED achieved /\ state' = state /\ abortEvent'
    BY <1>3 DEF freerdp_abort_connect, achieved, mcs, share
  <2> QED BY <2>1, QuietStep
<1> QED BY <1>1, <1>2, <1>3

\* The handlers of the states before the channel joins.
LEMMA EarlyStep ==
    ASSUME PhaseInv,
           \/ \E last \in BOOLEAN, n \in 0..2 : RecvNla(last, n)
           \/ RecvBad
           \/ \E channel, encrypts \in BOOLEAN, n \in 0..2 :
                 RecvConnectResponse(channel, encrypts, n)
           \/ \E n \in 0..1 : RecvAttachUserConfirm(n)
    PROVE  PhaseInv'
<1> DEFINE Before == {"NLA", "MCS_CONNECT", "MCS_ATTACH_USER", "MCS_CHANNEL_JOIN"}
<1>1. state' \in Before
  <2>1. CASE \E last \in BOOLEAN, n \in 0..2 : RecvNla(last, n)
    BY <2>1 DEF RecvNla, Goto, Failed
  <2>2. CASE RecvBad
    BY <2>2 DEF RecvBad, Failed
  <2>3. CASE \E channel, encrypts \in BOOLEAN, n \in 0..2 :
                RecvConnectResponse(channel, encrypts, n)
    BY <2>3 DEF RecvConnectResponse, Goto, Failed
  <2>4. CASE \E n \in 0..1 : RecvAttachUserConfirm(n)
    BY <2>4 DEF RecvAttachUserConfirm, Goto, Failed
  <2> QED BY <2>1, <2>2, <2>3, <2>4
<1>2. UNCHANGED <<finalize_sc_pdus, answered>>
  BY DEF RecvNla, RecvBad, RecvConnectResponse, RecvAttachUserConfirm, share
<1> QED BY <1>1, <1>2 DEF PhaseInv, Beyond

\* The handler of the channel joins: licensing begins when the last channel of the join order
\* is confirmed, and the ones before it were.
LEMMA JoinStep ==
    ASSUME PhaseInv, NEW channel \in Channels, NEW n \in 0..2, RecvJoinConfirm(channel, n)
    PROVE  PhaseInv'
<1>1. Len(JoinOrder) \in Nat
  BY ConnectAssumption DEF ConnectAssumption, JoinOrder
<1>2. message' = message /\ UNCHANGED <<finalize_sc_pdus, answered>>
  BY DEF RecvJoinConfirm, share
<1>3. state' \in {"MCS_CHANNEL_JOIN", "LICENSING"}
  BY DEF RecvJoinConfirm, SecureAndInform, Goto, Failed
<1>4. state' = "LICENSING" => AllJoined'
  <2> SUFFICES ASSUME state' = "LICENSING" PROVE AllJoined'
    OBVIOUS
  <2>1. CASE AllJoined /\ UNCHANGED joined
    BY <1>2, <2>1 DEF AllJoined, JoinOrder
  <2>2. CASE \E i \in 1..Len(JoinOrder) :
                NextJoin(i) /\ channel = JoinOrder[i] /\ i = Len(JoinOrder)
                /\ joined' = joined \union {channel}
    <3>1. PICK i \in 1..Len(JoinOrder) :
                NextJoin(i) /\ channel = JoinOrder[i] /\ i = Len(JoinOrder)
                /\ joined' = joined \union {channel}
      BY <2>2
    <3>2. \A j \in 1..Len(JoinOrder) : JoinOrder[j] \in joined'
      BY <1>1, <3>1 DEF NextJoin
    <3> QED BY <1>2, <3>2 DEF AllJoined, JoinOrder
  <2>3. state = "MCS_CHANNEL_JOIN"
    BY DEF RecvJoinConfirm
  <2> QED BY <1>1, <2>1, <2>2, <2>3 DEF RecvJoinConfirm, Goto, Failed
<1> QED BY <1>2, <1>3, <1>4 DEF PhaseInv, Beyond

\* The handlers from licensing on.
LEMMA LateStep ==
    ASSUME PhaseInv,
           \/ \E to \in {"AWAIT", "COMPLETED", "ABORTED"} : RecvLicense(to)
           \/ \E resize \in BOOLEAN, n \in 0..6 : RecvDemandActive(resize, n)
           \/ RecvDeactivateAll
           \/ RecvRedirection
           \/ RecvAborted
    PROVE  PhaseInv'
<1>1. ASSUME NEW to \in {"AWAIT", "COMPLETED", "ABORTED"}, RecvLicense(to)
      PROVE  PhaseInv'
  <2>1. UNCHANGED <<message, joined, finalize_sc_pdus, answered>> /\ state = "LICENSING"
    BY <1>1 DEF RecvLicense, mcs, share
  <2>2. \/ state' = "LICENSING"
        \/ state' = "CAPABILITIES_EXCHANGE" /\ license' = "COMPLETED"
    BY <1>1 DEF RecvLicense, license_recv, Goto, Failed
  <2> QED BY <2>1, <2>2 DEF PhaseInv, Beyond, AllJoined, JoinOrder
<1>2. ASSUME NEW resize \in BOOLEAN, NEW n \in 0..6, RecvDemandActive(resize, n)
      PROVE  PhaseInv'
  <2>1. UNCHANGED <<message, joined, license, abortEvent>> /\ state = "CAPABILITIES_EXCHANGE"
    BY <1>2 DEF RecvDemandActive, mcs
  <2>2. answered' \in {{}, answered}
    BY <1>2 DEF RecvDemandActive
  <2>3. \/ state' = state /\ finalize_sc_pdus' = finalize_sc_pdus
        \/ state' = "FINALIZATION" /\ finalize_sc_pdus' = {}
    BY <1>2 DEF RecvDemandActive, TransitionToFinalization, Goto, Failed
  <2> QED BY <2>1, <2>2, <2>3 DEF PhaseInv, Beyond, AllJoined, JoinOrder
<1>3. ASSUME RecvDeactivateAll
      PROVE  PhaseInv'
  <2>1. UNCHANGED achieved /\ ~abortEvent /\ state' = "CAPABILITIES_EXCHANGE"
        /\ state \in {"FINALIZATION", "ACTIVE"}
    BY <1>3 DEF RecvDeactivateAll, achieved, mcs
  <2> QED BY <2>1 DEF PhaseInv, Beyond, achieved, AllJoined, JoinOrder
<1>4. ASSUME RecvRedirection
      PROVE  PhaseInv'
  <2>1. UNCHANGED achieved /\ abortEvent' = abortEvent
    BY <1>4 DEF RecvRedirection, achieved, mcs, share
  <2>2. \/ state' = state
        \/ state = "FINALIZATION" /\ finalize_sc_pdus = FinalizePdus /\ state' = "ACTIVE"
    BY <1>4 DEF RecvRedirection, Activate, Goto
  <2> QED BY <2>1, <2>2, QuietStep DEF PhaseInv, Beyond, achieved, AllJoined, JoinOrder
<1>5. ASSUME RecvAborted
      PROVE  PhaseInv'
  <2>1. UNCHANGED achieved /\ abortEvent'
    BY <1>5 DEF RecvAborted, achieved, mcs, share
  <2>2. state' = state \/ state' = "ACTIVE"
    BY <1>5 DEF RecvAborted, Received, Activate, Goto, Failed
  <2> QED BY <2>1, <2>2, QuietStep, AbortedStep
<1> QED BY <1>1, <1>2, <1>3, <1>4, <1>5

\* Data PDUs, in sequence or not: they add to both sets alike, and FINALIZATION ends only
\* when all four are there.
LEMMA DataStep ==
    ASSUME PhaseInv, NEW kind, NEW ok \in BOOLEAN,
           RecvDataEarly(kind, ok) \/ RecvData(kind, ok)
    PROVE  PhaseInv'
<1>1. UNCHANGED <<message, joined, license, abortEvent>> /\ rdp_recv_data_pdu(kind)
  BY DEF RecvDataEarly, RecvData, mcs
<1>2. \/ state' = state
      \/ state = "FINALIZATION" /\ finalize_sc_pdus' = FinalizePdus /\ state' = "ACTIVE"
  BY DEF RecvDataEarly, RecvData, Received, Activate, Goto, Failed
<1>3. state = "FINALIZATION" => ~abortEvent
  BY DEF RecvDataEarly, RecvData
<1>4. /\ finalize_sc_pdus' \subseteq FinalizePdus
      /\ answered' \subseteq FinalizePdus
      /\ finalize_sc_pdus \subseteq answered => finalize_sc_pdus' \subseteq answered'
      /\ answered = FinalizePdus => answered' = FinalizePdus
  BY <1>1 DEF rdp_recv_data_pdu, PhaseInv
<1> QED BY <1>1, <1>2, <1>3, <1>4 DEF PhaseInv, Beyond, AllJoined, JoinOrder

\* No step of the client, the server or the user breaks the invariant.
LEMMA PhaseStep == PhaseInv /\ [Next]_vars => PhaseInv'
<1> SUFFICES ASSUME PhaseInv, [Next]_vars PROVE PhaseInv'
  OBVIOUS
<1>1. CASE UNCHANGED vars
  BY <1>1, QuietStep DEF vars, achieved, mcs, share
<1>2. CASE Next
  BY <1>1, <1>2, ConnectStep, LoopStep, EarlyStep, JoinStep, LateStep, DataStep
     DEF Next, Client, Handle
<1> QED BY <1>1, <1>2

\* The initial state has achieved nothing and claims nothing.
LEMMA PhaseInit == Init => PhaseInv
BY DEF Init, PhaseInv, Beyond

\* A connection that becomes ACTIVE without an abort has joined every channel, holds a
\* license and has received the four finalization PDUs after its Confirm Active, for any
\* static channels, whatever the server sends, whichever writes fail, and however
\* deactivations and failed redirections are nested (rdp_recv_callback, connection.c).
THEOREM Earned == Spec => []ActiveIsEarned
<1>1. PhaseInv => ActiveIsEarned
  BY DEF PhaseInv, Beyond, ActiveIsEarned
<1> QED BY PhaseInit, PhaseStep, <1>1, PTL DEF Spec

-----------------------------------------------------------------------------
(* Types *)

Pcs == {"nego", "redirect", "loop", "recv"} \union Terminal

\* The waiting loops: the outermost one is rdp_client_connect or the session's loop, so a
\* callback's loop that is left always returns to another one.
LoopType ==
    /\ frames \in Seq(Frames) /\ frames # <<>> /\ frames[1] \in {"connect", "run"}
    /\ freed \in Nat
    /\ pc \in Pcs

\* What a step does to the loops: a handler goes on, fails, or activates; the innermost loop
\* moves; a callback's loop is left after an abort; a new loop begins to wait.
Stays == pc' \in Pcs /\ UNCHANGED <<frames, freed, resumed>>
Pops ==
    /\ frames[Len(frames)] \in Callbacks
    /\ frames' = SubSeq(frames, 1, Len(frames) - 1)
    /\ pc' \in {"loop", "crashed"} /\ UNCHANGED <<freed, resumed>>
Pushes(f) ==
    /\ frames' = Append(frames, f)
    /\ freed' \in {freed, Len(frames)} /\ pc' \in Pcs /\ UNCHANGED resumed
GivesUp == frames' = frames /\ freed' = Len(frames) /\ pc' = "loop" /\ resumed' = TRUE

LoopMove ==
    \/ Fail \/ Activate \/ Stays \/ Pops \/ GivesUp
    \/ \E f \in Frames : Pushes(f)

\* The least number principle for sets of naturals.
LEMMA SmallestOf ==
    ASSUME NEW T, T \subseteq Nat, T # {}
    PROVE  \E x \in T : \A y \in T : x <= y
<1> DEFINE R == OpToRel(<,Nat)
<1>1. IsWellFoundedOn(R, Nat)
  BY NatLessThanWellFounded, Zenon
<1>2. R = {ss \in Nat \X Nat : ss[1] < ss[2]}
  BY Zenon DEF OpToRel
<1> HIDE DEF R
<1>3. PICK x \in T : \A y \in T : ~(<<y, x>> \in R)
  BY <1>1, WFMin, Zenon
<1>4. \A u, v \in Nat : u < v => <<u, v>> \in R
  BY <1>2
<1>5. \A y \in T : y \in Nat /\ x \in Nat /\ ~(y < x)
  BY <1>3, <1>4
<1>6. \A y \in T : x <= y
  BY <1>5
<1> QED BY <1>6

\* LastConnect is the innermost of the frames that are an rdp_client_connect.
LEMMA LastConnectType ==
    ASSUME LoopType
    PROVE  /\ LastConnect \in 0..Len(frames)
           /\ LastConnect # 0 => frames[LastConnect] = "connect"
           /\ \A j \in (LastConnect + 1)..Len(frames) : frames[j] # "connect"
<1> DEFINE C(i) == frames[i] = "connect" /\ \A j \in (i+1)..Len(frames) : frames[j] # "connect"
<1>0. Len(frames) \in Nat
  BY DEF LoopType
<1>1. ASSUME \E i \in 1..Len(frames) : C(i)
      PROVE  LastConnect \in 1..Len(frames) /\ C(LastConnect)
  BY <1>0, <1>1 DEF LastConnect
<1>2. CASE \A i \in 1..Len(frames) : frames[i] # "connect"
  BY <1>0, <1>2 DEF LastConnect
<1>3. CASE \E i \in 1..Len(frames) : frames[i] = "connect"
  <2> DEFINE D == {d \in Nat : \E i \in 1..Len(frames) : d = Len(frames) - i /\ frames[i] = "connect"}
  <2>1. D \subseteq Nat /\ D # {}
    <3>1. PICK i \in 1..Len(frames) : frames[i] = "connect"
      BY <1>3
    <3>2. Len(frames) - i \in Nat
      BY <1>0
    <3> QED BY <3>1, <3>2
  <2>2. PICK d \in D : \A e \in D : d <= e
    BY <2>1, SmallestOf, Zenon
  <2>3. PICK i \in 1..Len(frames) : d = Len(frames) - i /\ frames[i] = "connect"
    BY <2>2
  <2>4. ASSUME NEW j \in (i+1)..Len(frames), frames[j] = "connect"
        PROVE  FALSE
    <3>1. Len(frames) - j \in D
      BY <1>0, <2>4
    <3>2. d <= Len(frames) - j
      BY <2>2, <3>1
    <3> QED BY <1>0, <2>3, <3>2
  <2>5. C(i)
    BY <2>3, <2>4
  <2>6. LastConnect \in 1..Len(frames) /\ C(LastConnect)
    BY <1>1, <2>5
  <2> QED BY <1>0, <2>6
<1> QED BY <1>2, <1>3

\* A prefix of the loops that is not empty has the same outermost loop.
LEMMA FramesPrefix ==
    ASSUME LoopType, NEW n \in 1..Len(frames)
    PROVE  /\ SubSeq(frames, 1, n) \in Seq(Frames)
           /\ SubSeq(frames, 1, n) # <<>>
           /\ Len(SubSeq(frames, 1, n)) = n
           /\ \A i \in 1..n : SubSeq(frames, 1, n)[i] = frames[i]
BY DEF LoopType

\* Whatever a step does to the loops, they stay well formed.
LEMMA LoopMoveType ==
    ASSUME LoopType, LoopMove
    PROVE  LoopType'
<1>0. Len(frames) \in Nat /\ Len(frames) >= 1
  BY DEF LoopType
<1>1. CASE Fail
  <2>1. CASE LastConnect > 1
    <3>1. LastConnect - 1 \in 1..Len(frames)
      BY <1>0, <2>1, LastConnectType
    <3>2. frames' = SubSeq(frames, 1, LastConnect - 1) /\ freed' = freed
      BY <1>1, <2>1 DEF Fail
    <3>3. pc' \in Pcs
      BY <1>1, <2>1 DEF Fail, Leave, Pcs, Terminal
    <3> QED BY <1>0, <3>1, <3>2, <3>3, FramesPrefix DEF LoopType
  <2>2. CASE ~(LastConnect > 1)
    BY <1>1, <2>2 DEF Fail, Leave, Pcs, Terminal, LoopType
  <2> QED BY <2>1, <2>2
<1>2. CASE Activate
  BY <1>2 DEF Activate, Leave, LoopType, Frames, Pcs, Terminal
<1>3. CASE Stays
  BY <1>3 DEF Stays, LoopType
<1>4. CASE Pops
  <2>1. Len(frames) # 1
    BY <1>4 DEF Pops, LoopType, Callbacks
  <2> DEFINE n == Len(frames)
  <2>2. n \in Nat /\ n >= 1 /\ n # 1
    BY <1>0, <2>1
  <2>3. frames' = SubSeq(frames, 1, n - 1) /\ freed' = freed /\ pc' \in Pcs
    BY <1>4 DEF Pops, Pcs, Terminal
  <2> HIDE DEF n
  <2>4. n - 1 \in 1..n /\ 1 \in 1..(n - 1)
    BY <2>2
  <2> QED BY <2>3, <2>4, FramesPrefix DEF LoopType, n
<1>5. CASE GivesUp
  BY <1>0, <1>5 DEF GivesUp, LoopType, Pcs
<1>6. CASE \E f \in Frames : Pushes(f)
  <2>1. PICK f \in Frames : Pushes(f)
    BY <1>6
  <2>2. frames' \in Seq(Frames) /\ frames' # <<>> /\ frames'[1] = frames[1]
    BY <1>0, <2>1 DEF Pushes, LoopType
  <2> QED BY <1>0, <2>1, <2>2 DEF Pushes, LoopType
<1> QED BY <1>1, <1>2, <1>3, <1>4, <1>5, <1>6 DEF LoopMove

\* How each action ends for the loops: everything but the loops themselves, a redirection and
\* a Deactivate All PDU ends in one of the ways of a handler.
LEMMA HandlerMoves ==
    ASSUME LoopType, NEW s,
           Continue \/ Fail \/ Activate \/ Goto(s) \/ Failed \/ Received
    PROVE  LoopMove
BY DEF Continue, Goto, Failed, Received, LoopMove, Stays, Pcs

\* rdp_client_connect goes on or fails; rdp_client_redirect begins a new rdp_client_connect or
\* gives up.
LEMMA ConnectMoves ==
    ASSUME LoopType,
           \/ \E protocol \in {"none", "RDP", "TLS", "NLA"}, n \in 0..1 :
                 rdp_client_connect(protocol, n)
           \/ \E ok \in BOOLEAN : rdp_client_redirect(ok)
    PROVE  LoopMove
<1>1. ASSUME NEW protocol \in {"none", "RDP", "TLS", "NLA"}, NEW n \in 0..1,
             rdp_client_connect(protocol, n)
      PROVE  LoopMove
  <2>1. Fail \/ Continue
    BY <1>1 DEF rdp_client_connect, Goto
  <2> QED BY <2>1, HandlerMoves
<1>2. ASSUME NEW ok \in BOOLEAN, rdp_client_redirect(ok)
      PROVE  LoopMove
  <2>1. CASE ok
    <3>1. Pushes("connect")
      BY <1>2, <2>1 DEF rdp_client_redirect, Pushes, Pcs
    <3> QED BY <3>1 DEF LoopMove, Frames
  <2>2. CASE ~ok
    BY <1>2, <2>2 DEF rdp_client_redirect, GivesUp, LoopMove
  <2> QED BY <2>1, <2>2
<1> QED BY <1>1, <1>2

\* The loops that read, and the abort: only SeeAbort leaves a loop, that of a callback.
LEMMA WaitMoves ==
    ASSUME LoopType,
           (\E read \in BOOLEAN : Read(read)) \/ SeeAbort \/ freerdp_abort_connect
    PROVE  LoopMove
<1>1. CASE \E read \in BOOLEAN : Read(read)
  BY <1>1 DEF Read, Failed, LoopMove, Stays, Pcs
<1>2. CASE SeeAbort
  <2>1. frames[Len(frames)] \in Frames
    BY DEF LoopType
  <2>2. CASE frames[Len(frames)] \in {"run", "connect"} \/ Activate
    BY <1>2, <2>2 DEF SeeAbort, LoopMove, Stays, Pcs, Terminal, loops, LoopType
  <2>3. CASE frames[Len(frames)] \in Callbacks /\ ~Activate
    BY <1>2, <2>3 DEF SeeAbort, LoopMove, Pops, Leave, Callbacks
  <2> QED BY <2>1, <2>2, <2>3 DEF Frames, Callbacks
<1>3. CASE freerdp_abort_connect
  BY <1>3 DEF freerdp_abort_connect, loops, LoopMove, Stays, LoopType
<1> QED BY <1>1, <1>2, <1>3

\* The handlers up to the channel joins go on, fail, or crash where they are.
LEMMA EarlyMoves ==
    ASSUME LoopType,
           \/ \E last \in BOOLEAN, n \in 0..2 : RecvNla(last, n)
           \/ RecvBad
           \/ \E channel, encrypts \in BOOLEAN, n \in 0..2 :
                 RecvConnectResponse(channel, encrypts, n)
           \/ \E n \in 0..1 : RecvAttachUserConfirm(n)
           \/ \E channel \in Channels, n \in 0..2 : RecvJoinConfirm(channel, n)
    PROVE  LoopMove
<1>1. CASE \E last \in BOOLEAN, n \in 0..2 : RecvNla(last, n)
  <2>1. Continue \/ Fail \/ Stays
    BY <1>1 DEF RecvNla, Goto, Failed, Stays, Pcs, Terminal
  <2> QED BY <2>1, HandlerMoves DEF LoopMove
<1>2. CASE RecvBad
  BY <1>2 DEF RecvBad, Failed, LoopMove
<1>3. CASE \E channel, encrypts \in BOOLEAN, n \in 0..2 :
              RecvConnectResponse(channel, encrypts, n)
  <2>1. Continue \/ Fail
    BY <1>3 DEF RecvConnectResponse, Goto, Failed
  <2> QED BY <2>1, HandlerMoves
<1>4. CASE \E n \in 0..1 : RecvAttachUserConfirm(n)
  <2>1. Continue \/ Fail
    BY <1>4 DEF RecvAttachUserConfirm, Goto, Failed
  <2> QED BY <2>1, HandlerMoves
<1>5. CASE \E channel \in Channels, n \in 0..2 : RecvJoinConfirm(channel, n)
  <2>1. Continue \/ Fail \/ Stays
    BY <1>5 DEF RecvJoinConfirm, SecureAndInform, Goto, Failed, Stays, Pcs, Terminal
  <2> QED BY <2>1, HandlerMoves DEF LoopMove
<1> QED BY <1>1, <1>2, <1>3, <1>4, <1>5

\* The handlers from licensing on; a Deactivate All PDU begins a callback's loop.
LEMMA LateMoves ==
    ASSUME LoopType,
           \/ \E to \in {"AWAIT", "COMPLETED", "ABORTED"} : RecvLicense(to)
           \/ \E kind \in FinalizePdus \union {"other"}, ok \in BOOLEAN :
                 RecvDataEarly(kind, ok) \/ RecvData(kind, ok)
           \/ \E resize \in BOOLEAN, n \in 0..6 : RecvDemandActive(resize, n)
           \/ RecvDeactivateAll
           \/ RecvRedirection
           \/ RecvAborted
    PROVE  LoopMove
<1>1. CASE \E to \in {"AWAIT", "COMPLETED", "ABORTED"} : RecvLicense(to)
  <2>1. Continue \/ Fail
    BY <1>1 DEF RecvLicense, Goto, Failed
  <2> QED BY <2>1, HandlerMoves
<1>2. CASE \E kind \in FinalizePdus \union {"other"}, ok \in BOOLEAN :
              RecvDataEarly(kind, ok) \/ RecvData(kind, ok)
  <2>1. Continue \/ Fail \/ Activate
    BY <1>2 DEF RecvDataEarly, RecvData, Received, Goto, Failed
  <2> QED BY <2>1, HandlerMoves
<1>3. CASE \E resize \in BOOLEAN, n \in 0..6 : RecvDemandActive(resize, n)
  <2>1. Continue \/ Fail
    BY <1>3 DEF RecvDemandActive, Goto, Failed
  <2> QED BY <2>1, HandlerMoves
<1>4. CASE RecvDeactivateAll
  <2>1. Pushes(IF state = "ACTIVE" THEN "active" ELSE "final")
    BY <1>4 DEF RecvDeactivateAll, Pushes, Pcs
  <2> QED BY <2>1 DEF LoopMove, Frames
<1>5. CASE RecvRedirection
  <2>1. Continue \/ Activate \/ Stays
    BY <1>5 DEF RecvRedirection, Goto, Stays, Pcs
  <2> QED BY <2>1, HandlerMoves DEF LoopMove
<1>6. CASE RecvAborted
  <2>1. Continue \/ Fail \/ Activate
    BY <1>6 DEF RecvAborted, Received, Goto, Failed
  <2> QED BY <2>1, HandlerMoves
<1> QED BY <1>1, <1>2, <1>3, <1>4, <1>5, <1>6

\* Every step keeps the loops well formed.
LEMMA LoopTypeStep == LoopType /\ [Next]_vars => LoopType'
<1> SUFFICES ASSUME LoopType, [Next]_vars PROVE LoopType'
  OBVIOUS
<1>1. CASE UNCHANGED vars
  BY <1>1 DEF vars, loops, LoopType
<1>2. CASE Next
  <2>1. LoopMove \/ UNCHANGED vars
    BY <1>2, ConnectMoves, WaitMoves, EarlyMoves, LateMoves DEF Next, Client, Handle
  <2> QED BY <1>1, <2>1, LoopMoveType
<1> QED BY <1>1, <1>2

\* The flags are Booleans.
FlagType ==
    /\ UseRdpSecurityLayer \in BOOLEAN /\ do_crypt \in BOOLEAN /\ keys \in BOOLEAN
    /\ message \in BOOLEAN
    /\ deactivation_reactivation \in BOOLEAN /\ abortEvent \in BOOLEAN
    /\ resumed \in BOOLEAN

\* The steps keep the flags Booleans: each one is left alone, set, or computed by a condition.
LEMMA FlagStep == FlagType /\ [Next]_vars => FlagType'
<1> SUFFICES ASSUME FlagType, [Next]_vars PROVE FlagType'
  OBVIOUS
<1> USE DEF FlagType, Continue, Activate, Fail, Failed, Goto, Received, vars, crypt, mcs, share, loops
<1>1. CASE UNCHANGED vars
  BY <1>1, Zenon
<1>2. ASSUME NEW protocol, NEW n, rdp_client_connect(protocol, n) PROVE FlagType'
  BY <1>2, Zenon DEF rdp_client_connect
<1>3. ASSUME NEW ok, rdp_client_redirect(ok) PROVE FlagType'
  BY <1>3, Zenon DEF rdp_client_redirect, rdp_reset
<1>4. CASE SeeAbort
  BY <1>4, Zenon DEF SeeAbort
<1>5. ASSUME NEW read, Read(read) PROVE FlagType'
  BY <1>5, Zenon DEF Read
<1>6. CASE freerdp_abort_connect
  BY <1>6, Zenon DEF freerdp_abort_connect
<1>7. ASSUME NEW last, NEW n, RecvNla(last, n) PROVE FlagType'
  BY <1>7, Zenon DEF RecvNla
<1>8. CASE RecvBad
  BY <1>8, Zenon DEF RecvBad
<1>9. ASSUME NEW channel \in BOOLEAN, NEW encrypts, NEW n,
             RecvConnectResponse(channel, encrypts, n)
      PROVE  FlagType'
  BY <1>9, Zenon DEF RecvConnectResponse, gcc_read_server_security_data
<1>10. ASSUME NEW n, RecvAttachUserConfirm(n) PROVE FlagType'
  BY <1>10, Zenon DEF RecvAttachUserConfirm
<1>11. ASSUME NEW channel, NEW n, RecvJoinConfirm(channel, n) PROVE FlagType'
  BY <1>11, Zenon DEF RecvJoinConfirm, SecureAndInform
<1>12. ASSUME NEW to, RecvLicense(to) PROVE FlagType'
  BY <1>12, Zenon DEF RecvLicense
<1>13. ASSUME NEW kind, NEW ok, RecvDataEarly(kind, ok) PROVE FlagType'
  BY <1>13, Zenon DEF RecvDataEarly, rdp_recv_data_pdu
<1>14. ASSUME NEW resize, NEW n, RecvDemandActive(resize, n) PROVE FlagType'
  BY <1>14, Zenon DEF RecvDemandActive
<1>15. ASSUME NEW kind, NEW ok, RecvData(kind, ok) PROVE FlagType'
  BY <1>15, Zenon DEF RecvData, rdp_recv_data_pdu
<1>16. CASE RecvDeactivateAll
  BY <1>16, Zenon DEF RecvDeactivateAll
<1>17. CASE RecvRedirection
  BY <1>17, Zenon DEF RecvRedirection
<1>18. CASE RecvAborted
  BY <1>18, Zenon DEF RecvAborted
<1>19. CASE Next
  BY <1>1, <1>2, <1>3, <1>4, <1>5, <1>6, <1>7, <1>8, <1>9, <1>10, <1>11, <1>12, <1>13, <1>14,
     <1>15, <1>16, <1>17, <1>18, <1>19, Zenon DEF Next, Client, Handle
<1> QED BY <1>1, <1>19

\* The states of the connection, of the authentication and of the license, the sets of
\* channels and of finalization PDUs, and the counter of the bound.
ValueType ==
    /\ state \in States
    /\ nla \in {"NEGO_TOKEN", "PUB_KEY_AUTH", "AUTH_INFO"}
    /\ license \in {"AWAIT", "COMPLETED", "ABORTED"}
    /\ joined \subseteq Channels
    /\ finalize_sc_pdus \subseteq FinalizePdus /\ answered \subseteq FinalizePdus
    /\ nested \in 0..MaxNested

\* Every step keeps these values in their sets.
LEMMA ValueStep == ValueType /\ [Next]_vars => ValueType'
<1> SUFFICES ASSUME ValueType, [Next]_vars PROVE ValueType'
  OBVIOUS
<1> USE DEF ValueType, States, Activate, Failed, Goto, Received, vars, crypt, mcs, share
<1>1. CASE UNCHANGED vars
  BY <1>1
<1>2. ASSUME NEW protocol, NEW n, rdp_client_connect(protocol, n) PROVE ValueType'
  BY <1>2 DEF rdp_client_connect
<1>3. ASSUME NEW ok, rdp_client_redirect(ok) PROVE ValueType'
  BY <1>3 DEF rdp_client_redirect, rdp_reset
<1>4. CASE SeeAbort
  BY <1>4 DEF SeeAbort
<1>5. ASSUME NEW read, Read(read) PROVE ValueType'
  BY <1>5 DEF Read
<1>6. CASE freerdp_abort_connect
  BY <1>6 DEF freerdp_abort_connect
<1>7. ASSUME NEW last, NEW n, RecvNla(last, n) PROVE ValueType'
  BY <1>7 DEF RecvNla
<1>8. CASE RecvBad
  BY <1>8 DEF RecvBad
<1>9. ASSUME NEW channel, NEW encrypts, NEW n, RecvConnectResponse(channel, encrypts, n)
      PROVE  ValueType'
  BY <1>9 DEF RecvConnectResponse
<1>10. ASSUME NEW n, RecvAttachUserConfirm(n) PROVE ValueType'
  BY <1>10 DEF RecvAttachUserConfirm
<1>11. ASSUME NEW channel \in Channels, NEW n, RecvJoinConfirm(channel, n) PROVE ValueType'
  <2>1. state' \in {state, "LICENSING"}
    BY <1>11 DEF RecvJoinConfirm, SecureAndInform
  <2>2. joined' \in {joined, joined \union {channel}}
    BY <1>11 DEF RecvJoinConfirm
  <2> QED BY <1>11, <2>1, <2>2 DEF RecvJoinConfirm
<1>12. ASSUME NEW to \in {"AWAIT", "COMPLETED", "ABORTED"}, RecvLicense(to) PROVE ValueType'
  BY <1>12 DEF RecvLicense, license_recv
<1>13. ASSUME NEW kind, NEW ok, RecvDataEarly(kind, ok) PROVE ValueType'
  BY <1>13 DEF RecvDataEarly, rdp_recv_data_pdu
<1>14. ASSUME NEW resize, NEW n, RecvDemandActive(resize, n) PROVE ValueType'
  BY <1>14 DEF RecvDemandActive, TransitionToFinalization
<1>15. ASSUME NEW kind, NEW ok, RecvData(kind, ok) PROVE ValueType'
  BY <1>15 DEF RecvData, rdp_recv_data_pdu
<1>16. CASE RecvDeactivateAll
  BY <1>16, ConnectAssumption DEF RecvDeactivateAll, ConnectAssumption
<1>17. CASE RecvRedirection
  BY <1>17, ConnectAssumption DEF RecvRedirection, ConnectAssumption
<1>18. CASE RecvAborted
  BY <1>18 DEF RecvAborted
<1>19. CASE Next
  BY <1>1, <1>2, <1>3, <1>4, <1>5, <1>6, <1>7, <1>8, <1>9, <1>10, <1>11, <1>12, <1>13, <1>14,
     <1>15, <1>16, <1>17, <1>18, <1>19 DEF Next, Client, Handle
<1> QED BY <1>1, <1>19

\* The join order is a sequence of the channels that begins with the user's, two at least.
LEMMA JoinOrderType ==
    /\ JoinOrder \in Seq(Channels)
    /\ Len(JoinOrder) \in Nat /\ Len(JoinOrder) >= 2
    /\ JoinOrder[1] = "user"
<1>1. StaticChannels \in Seq(Channels)
  BY ConnectAssumption DEF ConnectAssumption, Channels
<1>2. CASE message
  BY <1>1, <1>2 DEF JoinOrder, Channels
<1>3. CASE ~message
  BY <1>1, <1>3 DEF JoinOrder, Channels
<1> QED BY <1>2, <1>3

\* The PDUs that the handlers write.
LEMMA PduNames ==
    /\ \A p \in {"credentials", "connect_initial", "erect_domain", "attach_user", "user",
                 "security_exchange", "client_info", "confirm_active", "client_synchronize",
                 "client_cooperate", "request_control", "persistent_key_list", "font_list"} :
          p \in Pdus
    /\ \A c \in Channels : c \in Pdus
BY DEF Pdus, Channels

\* Send appends some of the PDUs it is given.
LEMMA SendType ==
    ASSUME sent \in Seq(Pdus), NEW ps \in Seq(Pdus), NEW n, Send(ps, n)
    PROVE  sent' \in Seq(Pdus)
<1>1. n \in 0..Len(ps) /\ SubSeq(ps, 1, n) \in Seq(Pdus)
  BY DEF Send
<1> QED BY <1>1 DEF Send

\* What is written are PDUs of the sequence.
LEMMA SentStep == sent \in Seq(Pdus) /\ [Next]_vars => sent' \in Seq(Pdus)
<1> SUFFICES ASSUME sent \in Seq(Pdus), [Next]_vars PROVE sent' \in Seq(Pdus)
  OBVIOUS
<1>1. CASE sent' = sent
  BY <1>1
<1>0. CASE sent' = <<>>
  BY <1>0
<1>3. ASSUME NEW protocol, NEW n \in 0..1, rdp_client_connect(protocol, n)
      PROVE  sent' \in Seq(Pdus)
  <2>1. <<"connect_initial">> \in Seq(Pdus)
    BY PduNames
  <2>2. sent' = sent \/ Send(<<"connect_initial">>, n)
    BY <1>3 DEF rdp_client_connect
  <2> QED BY <1>1, <2>1, <2>2, SendType
<1>4. ASSUME NEW last, NEW n \in 0..2, RecvNla(last, n)
      PROVE  sent' \in Seq(Pdus)
  <2>1. <<"credentials", "connect_initial">> \in Seq(Pdus)
    BY PduNames
  <2>2. sent' = sent \/ Send(<<"credentials", "connect_initial">>, n)
    BY <1>4 DEF RecvNla
  <2> QED BY <1>1, <2>1, <2>2, SendType
<1>5. ASSUME NEW channel, NEW encrypts, NEW n \in 0..2, RecvConnectResponse(channel, encrypts, n)
      PROVE  sent' \in Seq(Pdus)
  <2>1. <<"erect_domain", "attach_user">> \in Seq(Pdus)
    BY PduNames
  <2>2. Send(<<"erect_domain", "attach_user">>, n)
    BY <1>5 DEF RecvConnectResponse
  <2> QED BY <1>1, <2>1, <2>2, SendType
<1>6. ASSUME NEW n \in 0..1, RecvAttachUserConfirm(n)
      PROVE  sent' \in Seq(Pdus)
  <2>1. <<"user">> \in Seq(Pdus)
    BY PduNames
  <2>2. Send(<<"user">>, n)
    BY <1>6 DEF RecvAttachUserConfirm
  <2> QED BY <1>1, <2>1, <2>2, SendType
<1>7. ASSUME NEW n \in 0..2, SecureAndInform(n)
      PROVE  sent' \in Seq(Pdus)
  <2> DEFINE exchange == IF UseRdpSecurityLayer THEN <<"security_exchange">> ELSE <<>>
  <2>1. exchange \o <<"client_info">> \in Seq(Pdus)
    BY PduNames
  <2>2. sent' = sent \/ Send(exchange \o <<"client_info">>, n)
    BY <1>7 DEF SecureAndInform
  <2> QED BY <1>1, <2>1, <2>2, SendType
<1>8. ASSUME NEW channel, NEW n \in 0..2, RecvJoinConfirm(channel, n)
      PROVE  sent' \in Seq(Pdus)
  <2>1. \/ SecureAndInform(n) \/ sent' = sent
        \/ \E i \in 1..Len(JoinOrder) : i < Len(JoinOrder) /\ Send(<<JoinOrder[i + 1]>>, n)
    BY <1>8 DEF RecvJoinConfirm
  <2>2. ASSUME NEW i \in 1..Len(JoinOrder), i < Len(JoinOrder)
        PROVE  <<JoinOrder[i + 1]>> \in Seq(Pdus)
    <3>1. JoinOrder[i + 1] \in Pdus
      BY <2>2, JoinOrderType, PduNames
    <3> QED BY <3>1
  <2> QED BY <1>1, <1>7, <2>1, <2>2, SendType
<1>9. ASSUME NEW resize, NEW n \in 0..6, RecvDemandActive(resize, n)
      PROVE  sent' \in Seq(Pdus)
  <2>1. ConfirmBatch \in Seq(Pdus)
    BY PduNames DEF ConfirmBatch
  <2>2. Send(ConfirmBatch, n)
    BY <1>9 DEF RecvDemandActive
  <2> QED BY <1>1, <2>1, <2>2, SendType
<1>10. ASSUME \/ \E ok \in BOOLEAN : rdp_client_redirect(ok)
              \/ \E read \in BOOLEAN : Read(read)
              \/ SeeAbort \/ freerdp_abort_connect \/ RecvBad
              \/ \E to \in {"AWAIT", "COMPLETED", "ABORTED"} : RecvLicense(to)
              \/ \E kind \in FinalizePdus \union {"other"}, ok \in BOOLEAN :
                    RecvDataEarly(kind, ok) \/ RecvData(kind, ok)
              \/ RecvDeactivateAll \/ RecvRedirection \/ RecvAborted
              \/ UNCHANGED vars
       PROVE  sent' = sent \/ sent' = <<>>
  BY <1>10 DEF rdp_client_redirect, Read, SeeAbort, freerdp_abort_connect, RecvBad, RecvLicense,
               RecvDataEarly, RecvData, RecvDeactivateAll, RecvRedirection, RecvAborted, vars
<1> QED BY <1>0, <1>1, <1>3, <1>4, <1>5, <1>6, <1>8, <1>9, <1>10 DEF Next, Client, Handle

\* Every variable keeps its type, for any static channels (rdp->state, the nested loops, and
\* what is written): in particular a callback's loop always returns to another loop.
THEOREM TypeCorrect == Spec => []TypeOK
<1> DEFINE Inv == LoopType /\ FlagType /\ ValueType /\ sent \in Seq(Pdus)
<1>1. Init => Inv
  <2> SUFFICES ASSUME Init PROVE Inv
    OBVIOUS
  <2>1. LoopType
    BY DEF Init, LoopType, Frames, Pcs
  <2>2. FlagType
    BY Zenon DEF Init, FlagType
  <2>3. ValueType /\ sent \in Seq(Pdus)
    BY ConnectAssumption DEF Init, ValueType, States, ConnectAssumption
  <2> QED BY <2>1, <2>2, <2>3
<1>2. Inv /\ [Next]_vars => Inv'
  BY LoopTypeStep, FlagStep, ValueStep, SentStep
<1>3. Inv => TypeOK
  BY Zenon DEF LoopType, FlagType, ValueType, TypeOK, Pcs
<1> QED BY <1>1, <1>2, <1>3, PTL DEF Spec

-----------------------------------------------------------------------------
(* The order of what is written *)

Starts == {"credentials", "connect_initial"}
Late == {"CAPABILITIES_EXCHANGE", "FINALIZATION", "ACTIVE"}

\* A sequence of PDUs that begins as a connection does and follows the diagram d.
Chained(s, d) == \A k \in 1..(Len(s) - 1) : <<s[k], s[k + 1]>> \in d
Linked(s, d) == (s # <<>> => s[1] \in Starts) /\ Chained(s, d)

\* The last PDU that was written.
LastIs(p) == sent # <<>> /\ sent[Len(sent)] = p

\* How far the connection is in the sequence, by its state. The channels that are joined are
\* the ones before the channel that was asked for last; a callback's loop waits only in the
\* states that follow licensing.
Position ==
    /\ pc = "nego" => state = "INITIAL"
    /\ state \in {"INITIAL", "NLA"} => sent = <<>>
    /\ state = "MCS_CONNECT" =>
          sent \in {<<"connect_initial">>, <<"credentials", "connect_initial">>}
    /\ state = "MCS_ATTACH_USER" => LastIs("attach_user")
    /\ state \in {"INITIAL", "NLA", "MCS_CONNECT", "MCS_ATTACH_USER"} => joined = {}
    /\ state = "MCS_CHANNEL_JOIN" =>
          \E i \in 1..Len(JoinOrder) :
              joined = {JoinOrder[j] : j \in 1..(i - 1)} /\ LastIs(JoinOrder[i])
    /\ state \in Late \union {"LICENSING"} => LastIs("client_info") \/ LastIs("font_list")
    /\ frames[Len(frames)] \in Callbacks => state \in Late

\* The inductive invariant: until a failed redirection is resumed, what is written follows
\* the diagram, and while the connection is used its state says how far it has come.
SeqInv ==
    ~resumed =>
        /\ Linked(sent, Diagram)
        /\ pc \notin Terminal => Position

\* Only the empty sequence has length 0.
LEMMA EmptyLength ==
    ASSUME NEW S, NEW s \in Seq(S)
    PROVE  (Len(s) = 0) <=> (s = <<>>)
OBVIOUS

\* A chain stays one when a prefix of another chain is written after it, if the place where
\* they meet is in the diagram too; the last PDU is then the last of the prefix.
LEMMA LinkedExtend ==
    ASSUME NEW S, NEW s \in Seq(S), NEW ps \in Seq(S), NEW n \in 0..Len(ps), NEW d,
           Linked(s, d), Chained(ps, d), ps # <<>>,
           s = <<>> => ps[1] \in Starts,
           s # <<>> => <<s[Len(s)], ps[1]>> \in d,
           NEW t, t = s \o SubSeq(ps, 1, n)
    PROVE  /\ Linked(t, d)
           /\ n > 0 => t # <<>> /\ t[Len(t)] = ps[n]
<1> DEFINE m == Len(s)
           p == Len(ps)
           q == Len(t)
<1>1. m \in Nat /\ p \in Nat /\ p >= 1 /\ n \in Nat /\ n <= p /\ q = m + n /\ t \in Seq(S)
  <2>1. SubSeq(ps, 1, n) \in Seq(S) /\ Len(SubSeq(ps, 1, n)) = n
    OBVIOUS
  <2> QED BY <2>1
<1>2. \A k \in 1..m : t[k] = s[k]
  OBVIOUS
<1>3. \A k \in 1..n : t[m + k] = ps[k]
  OBVIOUS
<1>4. (m = 0) <=> (s = <<>>)
  OBVIOUS
<1>5. (q = 0) <=> (t = <<>>)
  <2>1. t \in Seq(S)
    BY <1>1
  <2> QED BY <2>1, EmptyLength, Zenon
<1>6. \A k \in 1..(m - 1) : <<s[k], s[k + 1]>> \in d
  BY DEF Linked, Chained
<1>7. \A k \in 1..(p - 1) : <<ps[k], ps[k + 1]>> \in d
  BY DEF Chained
<1>8. m > 0 => s[1] \in Starts /\ <<s[m], ps[1]>> \in d
  BY <1>4 DEF Linked
<1>9. m = 0 => ps[1] \in Starts
  BY <1>4
<1> HIDE DEF m, p, q
<1>10. t # <<>> => t[1] \in Starts
  <2>1. CASE m = 0
    <3>1. t # <<>> => 1 \in 1..n
      BY <1>1, <1>5, <2>1
    <3>2. t # <<>> => t[m + 1] = ps[1]
      BY <1>3, <3>1
    <3> QED BY <1>9, <2>1, <3>2
  <2>2. CASE m > 0
    <3>1. 1 \in 1..m
      BY <1>1, <2>2
    <3>2. t[1] = s[1]
      BY <1>2, <3>1
    <3> QED BY <1>8, <2>2, <3>2
  <2> QED BY <1>1, <2>1, <2>2
<1>11. ASSUME NEW k \in 1..(q - 1) PROVE <<t[k], t[k + 1]>> \in d
  <2>1. CASE k < m
    <3>1. k \in 1..(m - 1) /\ k \in 1..m /\ k + 1 \in 1..m
      BY <1>1, <2>1
    <3>2. t[k] = s[k] /\ t[k + 1] = s[k + 1]
      BY <1>2, <3>1
    <3> QED BY <1>6, <3>1, <3>2
  <2>2. CASE k = m
    <3>1. m \in 1..m /\ 1 \in 1..n /\ m > 0
      BY <1>1, <2>2
    <3>2. t[m] = s[m] /\ t[m + 1] = ps[1]
      BY <1>2, <1>3, <3>1
    <3> QED BY <1>8, <2>2, <3>1, <3>2
  <2>3. CASE k > m
    <3>1. k - m \in 1..n /\ (k - m) + 1 \in 1..n /\ k - m \in 1..(p - 1)
      BY <1>1, <2>3
    <3>2. k = m + (k - m) /\ k + 1 = m + ((k - m) + 1)
      BY <1>1
    <3>3. t[k] = ps[k - m] /\ t[k + 1] = ps[(k - m) + 1]
      BY <1>3, <3>1, <3>2
    <3> QED BY <1>7, <3>1, <3>3
  <2>4. q \in Nat /\ k \in Nat
    BY <1>1
  <2>5. k < m \/ k = m \/ k > m
    BY <1>1, <2>4
  <2> QED BY <2>1, <2>2, <2>3, <2>5
<1>12. Linked(t, d)
  BY <1>10, <1>11 DEF Linked, Chained, q
<1>13. n > 0 => t # <<>> /\ t[q] = ps[n]
  <2> SUFFICES ASSUME n > 0 PROVE t # <<>> /\ t[q] = ps[n]
    OBVIOUS
  <2>1. n \in 1..n /\ q # 0
    BY <1>1
  <2> QED BY <1>1, <1>3, <1>5, <2>1
<1> QED BY <1>12, <1>13 DEF q

\* The same for the write of a handler.
LEMMA SendLinked ==
    ASSUME sent \in Seq(Pdus), NEW ps \in Seq(Pdus), NEW n, Send(ps, n), NEW d,
           Linked(sent, d), Chained(ps, d), ps # <<>>,
           sent = <<>> => ps[1] \in Starts,
           sent # <<>> => <<sent[Len(sent)], ps[1]>> \in d
    PROVE  /\ Linked(sent', d)
           /\ n > 0 => sent' # <<>> /\ sent'[Len(sent')] = ps[n]
<1>1. n \in 0..Len(ps) /\ sent' = sent \o SubSeq(ps, 1, n)
  BY DEF Send
<1> HIDE DEF Linked, Chained
<1> QED BY <1>1, LinkedExtend, Zenon

\* No channel comes twice in the join order.
LEMMA JoinOrderDistinct ==
    \A i, j \in 1..Len(JoinOrder) : JoinOrder[i] = JoinOrder[j] => i = j
<1> DEFINE head == IF message THEN <<"user", "global", "message">> ELSE <<"user", "global">>
           h == IF message THEN 3 ELSE 2
           c == Len(StaticChannels)
<1>1. /\ h \in 2..3 /\ c \in Nat
      /\ Len(JoinOrder) = h + c
      /\ \A i \in 1..h : JoinOrder[i] = head[i]
      /\ \A i \in 1..c : JoinOrder[h + i] = StaticChannels[i]
  <2>1. CASE message
    BY <2>1, ConnectAssumption DEF ConnectAssumption, JoinOrder
  <2>2. CASE ~message
    BY <2>2, ConnectAssumption DEF ConnectAssumption, JoinOrder
  <2> QED BY <2>1, <2>2
<1>2. /\ \A i, j \in 1..h : head[i] = head[j] => i = j
      /\ \A i \in 1..h : head[i] \in {"user", "global", "message"}
  BY DEF h, head
<1>3. /\ \A i, j \in 1..c : StaticChannels[i] = StaticChannels[j] => i = j
      /\ \A i \in 1..c : StaticChannels[i] \notin {"user", "global", "message"}
  BY ConnectAssumption DEF ConnectAssumption
<1> HIDE DEF head, h, c
<1>4. ASSUME NEW i \in 1..Len(JoinOrder)
      PROVE  \/ i \in 1..h /\ JoinOrder[i] = head[i]
             \/ i - h \in 1..c /\ JoinOrder[i] = StaticChannels[i - h]
  <2>1. CASE i <= h
    BY <1>1, <2>1
  <2>2. CASE i > h
    <3>1. i - h \in 1..c /\ i = h + (i - h)
      BY <1>1, <2>2
    <3> QED BY <1>1, <3>1
  <2> QED BY <1>1, <2>1, <2>2
<1>5. ASSUME NEW i \in 1..Len(JoinOrder), NEW j \in 1..Len(JoinOrder), JoinOrder[i] = JoinOrder[j]
      PROVE  i = j
  <2>1. CASE i \in 1..h /\ j \in 1..h /\ head[i] = head[j]
    BY <1>2, <2>1
  <2>2. CASE i - h \in 1..c /\ j - h \in 1..c /\ StaticChannels[i - h] = StaticChannels[j - h]
    <3>1. i - h = j - h
      BY <1>3, <2>2
    <3> QED BY <1>1, <3>1
  <2> QED BY <1>2, <1>3, <1>4, <1>5, <2>1, <2>2
<1> QED BY <1>5

\* The diagram depends only on whether there is a message channel.
LEMMA DiagramKept ==
    ASSUME message' = message
    PROVE  JoinOrder' = JoinOrder /\ Diagram' = Diagram
BY DEF JoinOrder, Diagram

\* A step that writes nothing and joins nothing keeps the chain, and keeps the position unless
\* it makes up a state or a waiting callback.
LEMMA PositionKept ==
    ASSUME Position, UNCHANGED <<sent, message, joined>>,
           pc' = "nego" => pc = "nego" /\ state' = state,
           state' = state \/ (state \in Late \union {"LICENSING"} /\ state' \in Late),
           frames'[Len(frames')] \in Callbacks =>
               frames[Len(frames)] \in Callbacks \/ state' \in Late
    PROVE  Position'
BY DiagramKept DEF Position, LastIs, Late

\* The chain is a fact about what is written and the diagram only.
LEMMA LinkedKept ==
    ASSUME Linked(sent, Diagram), UNCHANGED <<sent, message>>
    PROVE  Linked(sent, Diagram)'
BY DiagramKept DEF Linked, Chained

\* Status -1 ends the use of this connection: either the loop that goes on is one that a
\* failed redirection resumes, or none does.
LEMMA FailEnds ==
    ASSUME Fail, ~resumed'
    PROVE  ~resumed /\ pc' \in Terminal
BY DEF Fail, Leave, Terminal

\* Once a failed redirection was resumed, that stays known.
LEMMA ResumedStays ==
    ASSUME LoopMove, ~resumed'
    PROVE  ~resumed
BY FailEnds DEF LoopMove, Activate, Stays, Pops, Pushes, GivesUp

\* What each lemma below assumes of a state and proves of the next one.
OnTrack == LoopType /\ ValueType /\ sent \in Seq(Pdus) /\ Linked(sent, Diagram) /\ Position
StaysOnTrack == Linked(sent, Diagram)' /\ (pc' \notin Terminal => Position')

\* A step that writes nothing and fails, goes on in the same state, or activates a connection
\* that is past licensing.
LEMMA QuietOnTrack ==
    ASSUME OnTrack, ~resumed', UNCHANGED <<sent, message, joined>>,
           \/ Fail
           \/ Continue /\ (state' = state \/ (state = "LICENSING" /\ state' \in Late))
           \/ Activate /\ state \in Late
    PROVE  StaysOnTrack
<1>1. Linked(sent, Diagram)'
  BY LinkedKept DEF OnTrack
<1>2. CASE Fail
  BY <1>1, <1>2, FailEnds DEF StaysOnTrack
<1>3. CASE Continue /\ (state' = state \/ (state = "LICENSING" /\ state' \in Late))
  <2>1. Position'
    BY <1>3, PositionKept DEF OnTrack, Continue
  <2> QED BY <1>1, <2>1 DEF StaysOnTrack
<1>4. CASE Activate /\ state \in Late
  <2>1. pc' \in Terminal \/ pc' = "loop"
    BY <1>4 DEF Activate, Leave, Terminal
  <2>2. frames'[Len(frames')] = "run" /\ state' = "ACTIVE"
    BY <1>4 DEF Activate
  <2>3. pc' = "loop" => Position'
    BY <1>4, <2>2, PositionKept DEF OnTrack, Late, Callbacks
  <2> QED BY <1>1, <2>1, <2>3 DEF StaysOnTrack
<1> QED BY <1>2, <1>3, <1>4

\* The handlers that write nothing.
LEMMA QuietHandlers ==
    ASSUME OnTrack, ~resumed',
           \/ RecvBad
           \/ \E to \in {"AWAIT", "COMPLETED", "ABORTED"} : RecvLicense(to)
           \/ \E kind \in FinalizePdus \union {"other"}, ok \in BOOLEAN :
                 RecvDataEarly(kind, ok) \/ RecvData(kind, ok)
           \/ RecvAborted
    PROVE  StaysOnTrack
<1> USE DEF Late
<1>1. CASE RecvBad
  BY <1>1, QuietOnTrack DEF RecvBad, Failed, mcs
<1>2. CASE \E to \in {"AWAIT", "COMPLETED", "ABORTED"} : RecvLicense(to)
  <2>1. UNCHANGED <<sent, message, joined>> /\ state = "LICENSING"
    BY <1>2 DEF RecvLicense, mcs
  <2>2. Fail \/ (Continue /\ state' \in {"LICENSING", "CAPABILITIES_EXCHANGE"})
    BY <1>2 DEF RecvLicense, Goto, Failed
  <2> QED BY <2>1, <2>2, QuietOnTrack
<1>3. CASE \E kind \in FinalizePdus \union {"other"}, ok \in BOOLEAN :
              RecvDataEarly(kind, ok) \/ RecvData(kind, ok)
  <2>1. UNCHANGED <<sent, message, joined>>
    BY <1>3 DEF RecvDataEarly, RecvData, mcs
  <2>2. Fail \/ (Continue /\ state' = state) \/ (Activate /\ state = "FINALIZATION")
    BY <1>3 DEF RecvDataEarly, RecvData, Received, Goto, Failed
  <2> QED BY <2>1, <2>2, QuietOnTrack
<1>4. CASE RecvAborted
  <2>1. UNCHANGED <<sent, message, joined>>
    BY <1>4 DEF RecvAborted, mcs
  <2>2. Fail \/ (Continue /\ state' = state) \/ (Activate /\ state = "FINALIZATION")
    BY <1>4 DEF RecvAborted, Received, Goto, Failed
  <2> QED BY <2>1, <2>2, QuietOnTrack
<1> QED BY <1>1, <1>2, <1>3, <1>4

\* The loops and the abort, and the PDUs that begin a nested loop or a redirection.
LEMMA QuietLoops ==
    ASSUME OnTrack, ~resumed',
           (\E read \in BOOLEAN : Read(read)) \/ SeeAbort \/ freerdp_abort_connect
           \/ RecvDeactivateAll \/ RecvRedirection
    PROVE  StaysOnTrack
<1> USE DEF Late
<1>0. UNCHANGED <<sent, message, joined>>
  BY DEF Read, SeeAbort, freerdp_abort_connect, RecvDeactivateAll, RecvRedirection, mcs
<1>1. Linked(sent, Diagram)'
  BY <1>0, LinkedKept DEF OnTrack
<1>2. CASE \E read \in BOOLEAN : Read(read)
  <2>1. Fail \/ (pc' = "recv" /\ UNCHANGED <<state, frames>>)
    BY <1>2 DEF Read, Failed
  <2>2. CASE pc' = "recv" /\ UNCHANGED <<state, frames>>
    BY <1>0, <1>1, <2>2, PositionKept DEF OnTrack, StaysOnTrack
  <2> QED BY <1>0, <2>1, <2>2, QuietOnTrack
<1>3. CASE SeeAbort
  <2>0. frames \in Seq(Frames) /\ frames # <<>>
    BY DEF OnTrack, LoopType
  <2> DEFINE top == frames[Len(frames)]
  <2>1. top \in Frames
    BY <2>0
  <2>2. top \in Callbacks => state \in Late
    BY DEF OnTrack, Position
  <2>3. CASE top = "run"
    BY <1>1, <1>3, <2>3 DEF SeeAbort, StaysOnTrack, Terminal
  <2>4. CASE top = "connect"
    <3>1. UNCHANGED <<state, frames, pc>>
      BY <1>3, <2>4 DEF SeeAbort, loops
    <3> QED BY <1>0, <1>1, <3>1, PositionKept DEF OnTrack, StaysOnTrack
  <2>5. CASE top \in Callbacks
    <3>1. \/ Activate
          \/ state' = state /\ pc' \in {"loop", "crashed"}
      BY <1>3, <2>5 DEF SeeAbort, Leave, Callbacks
    <3>2. CASE Activate
      BY <1>0, <2>2, <2>5, <3>2, QuietOnTrack
    <3>3. CASE state' = state /\ pc' \in {"loop", "crashed"}
      BY <1>0, <1>1, <2>2, <2>5, <3>3, PositionKept DEF OnTrack, StaysOnTrack
    <3> QED BY <3>1, <3>2, <3>3
  <2> QED BY <2>1, <2>3, <2>4, <2>5 DEF Frames, Callbacks
<1>4. CASE freerdp_abort_connect
  <2>1. UNCHANGED <<state, frames, pc>>
    BY <1>4 DEF freerdp_abort_connect, loops
  <2> QED BY <1>0, <1>1, <2>1, PositionKept DEF OnTrack, StaysOnTrack
<1>5. CASE RecvDeactivateAll
  <2>1. state \in Late /\ state' \in Late /\ pc' = "loop"
    BY <1>5 DEF RecvDeactivateAll
  <2> QED BY <1>0, <1>1, <2>1, PositionKept DEF OnTrack, StaysOnTrack
<1>6. CASE RecvRedirection
  <2>1. \/ Activate /\ state \in Late
        \/ pc' \in {"redirect", "loop"} /\ UNCHANGED <<state, frames>>
    BY <1>6 DEF RecvRedirection, Goto, Continue
  <2>2. CASE pc' \in {"redirect", "loop"} /\ UNCHANGED <<state, frames>>
    BY <1>0, <1>1, <2>2, PositionKept DEF OnTrack, StaysOnTrack
  <2> QED BY <1>0, <2>1, <2>2, QuietOnTrack
<1> QED BY <1>2, <1>3, <1>4, <1>5, <1>6

\* A first write that succeeds leaves just what was to be written.
LEMMA FirstWrite ==
    ASSUME NEW ps \in Seq(Pdus), sent = <<>>, Send(ps, Len(ps))
    PROVE  sent' = ps
<1> DEFINE q == SubSeq(ps, 1, Len(ps))
<1>1. q \in Seq(Pdus) /\ Len(q) = Len(ps) /\ \A i \in 1..Len(ps) : q[i] = ps[i]
  OBVIOUS
<1> HIDE DEF q
<1>2. q = ps
  BY <1>1
<1>3. <<>> \o q = q
  BY <1>1
<1> QED BY <1>2, <1>3 DEF Send, q

\* The pairs of the diagram that do not depend on the channels.
LEMMA FixedPairs ==
    /\ <<"credentials", "connect_initial">> \in Diagram
    /\ <<"connect_initial", "erect_domain">> \in Diagram
    /\ <<"erect_domain", "attach_user">> \in Diagram
    /\ <<"attach_user", "user">> \in Diagram
    /\ <<"security_exchange", "client_info">> \in Diagram
    /\ <<"client_info", "confirm_active">> \in Diagram
    /\ <<"confirm_active", "client_synchronize">> \in Diagram
    /\ <<"client_synchronize", "client_cooperate">> \in Diagram
    /\ <<"client_cooperate", "request_control">> \in Diagram
    /\ <<"request_control", "persistent_key_list">> \in Diagram
    /\ <<"request_control", "font_list">> \in Diagram
    /\ <<"persistent_key_list", "font_list">> \in Diagram
    /\ <<"font_list", "confirm_active">> \in Diagram
BY DEF Diagram

\* The first PDU of a connection, and the start of a new one after a redirection.
LEMMA ConnectOnTrack ==
    ASSUME OnTrack, ~resumed',
           \/ \E protocol \in {"none", "RDP", "TLS", "NLA"}, n \in 0..1 :
                 rdp_client_connect(protocol, n)
           \/ \E ok \in BOOLEAN : rdp_client_redirect(ok)
    PROVE  StaysOnTrack
<1>1. ASSUME NEW protocol \in {"none", "RDP", "TLS", "NLA"}, NEW n \in 0..1,
             rdp_client_connect(protocol, n)
      PROVE  StaysOnTrack
  <2>1. state = "INITIAL" /\ sent = <<>> /\ joined = {} /\ frames[Len(frames)] \notin Callbacks
    BY <1>1 DEF rdp_client_connect, OnTrack, Position, Late
  <2>2. UNCHANGED <<message, joined>>
    BY <1>1 DEF rdp_client_connect, mcs
  <2> DEFINE ps == <<"connect_initial">>
  <2>0. ps \in Seq(Pdus) /\ Len(ps) = 1
    BY PduNames
  <2>3. sent' = <<>> \/ sent' = <<"connect_initial">>
    <3>1. sent' = sent \/ Send(<<"connect_initial">>, n)
      BY <1>1 DEF rdp_client_connect
    <3>2. CASE Send(<<"connect_initial">>, n) /\ n = 0
      BY <2>1, <3>2 DEF Send
    <3>3. CASE Send(<<"connect_initial">>, n) /\ n = 1
      BY <2>0, <2>1, <3>3, FirstWrite
    <3> QED BY <2>1, <3>1, <3>2, <3>3
  <2>4. Linked(sent', Diagram')
    <3>1. CASE sent' = <<>>
      BY <3>1 DEF Linked, Chained
    <3>2. CASE sent' = <<"connect_initial">>
      BY <3>2 DEF Linked, Chained, Starts
    <3> QED BY <2>3, <3>1, <3>2
  <2>5. \/ Fail
        \/ Continue /\ state' = "NLA" /\ sent' = sent
        \/ Continue /\ state' = "MCS_CONNECT" /\ Send(<<"connect_initial">>, 1)
    BY <1>1 DEF rdp_client_connect, Goto
  <2>6. CASE Fail
    BY <2>4, <2>6, FailEnds DEF StaysOnTrack
  <2>7. CASE Continue /\ state' = "NLA" /\ sent' = sent
    <3>1. Position'
      BY <2>1, <2>2, <2>7 DEF Position, Continue, Late
    <3> QED BY <2>4, <3>1 DEF StaysOnTrack
  <2>8. CASE Continue /\ state' = "MCS_CONNECT" /\ Send(<<"connect_initial">>, 1)
    <3>1. sent' = <<"connect_initial">>
      BY <2>0, <2>1, <2>8, FirstWrite
    <3>2. Position'
      BY <2>1, <2>2, <2>8, <3>1 DEF Position, Continue, Late
    <3> QED BY <2>4, <3>2 DEF StaysOnTrack
  <2> QED BY <2>5, <2>6, <2>7, <2>8
<1>2. ASSUME NEW ok \in BOOLEAN, rdp_client_redirect(ok)
      PROVE  StaysOnTrack
  <2>1. sent' = <<>> /\ joined' = {} /\ state' = "INITIAL"
    BY <1>2 DEF rdp_client_redirect, rdp_reset
  <2>2. frames' = Append(frames, "connect") /\ frames \in Seq(Frames)
    BY <1>2 DEF rdp_client_redirect, OnTrack, LoopType
  <2>3. frames'[Len(frames')] = "connect"
    BY <2>2
  <2>4. Linked(sent', Diagram')
    BY <2>1 DEF Linked, Chained
  <2>5. Position'
    BY <2>1, <2>3 DEF Position, Callbacks, Late
  <2> QED BY <2>4, <2>5 DEF StaysOnTrack
<1> QED BY <1>1, <1>2

\* The handlers that write PDUs of the sequence before the channel joins.
LEMMA EarlyOnTrack ==
    ASSUME OnTrack, ~resumed',
           \/ \E last \in BOOLEAN, n \in 0..2 : RecvNla(last, n)
           \/ \E channel, encrypts \in BOOLEAN, n \in 0..2 :
                 RecvConnectResponse(channel, encrypts, n)
           \/ \E n \in 0..1 : RecvAttachUserConfirm(n)
    PROVE  StaysOnTrack
<1>0. LoopType /\ ValueType /\ sent \in Seq(Pdus) /\ Linked(sent, Diagram) /\ Position
  BY DEF OnTrack
<1>1. ASSUME NEW last \in BOOLEAN, NEW n \in 0..2, RecvNla(last, n)
      PROVE  StaysOnTrack
  <2> DEFINE ps == <<"credentials", "connect_initial">>
  <2>1. sent = <<>> /\ joined = {} /\ frames[Len(frames)] \notin Callbacks
    BY <1>0, <1>1 DEF RecvNla, Position, Late
  <2>2. UNCHANGED <<message, joined>> /\ state = "NLA"
    BY <1>1 DEF RecvNla, mcs
  <2>3. \/ sent' = sent /\ (pc' = "crashed" \/ (Continue /\ state' = state))
        \/ Send(ps, n) /\ (Fail \/ (n = 2 /\ Continue /\ state' = "MCS_CONNECT"))
    BY <1>1 DEF RecvNla, Goto, Failed
  <2>4. CASE sent' = sent /\ (pc' = "crashed" \/ (Continue /\ state' = state))
    BY <1>0, <2>2, <2>4, LinkedKept, PositionKept DEF StaysOnTrack, Terminal, Continue
  <2>5. CASE Send(ps, n) /\ (Fail \/ (n = 2 /\ Continue /\ state' = "MCS_CONNECT"))
    <3>1. ps \in Seq(Pdus) /\ ps # <<>> /\ ps[1] \in Starts
      BY PduNames DEF Starts
    <3>2. Chained(ps, Diagram)
      BY FixedPairs DEF Chained
    <3>3. Linked(sent', Diagram')
      BY <1>0, <2>1, <2>2, <2>5, <3>1, <3>2, SendLinked, DiagramKept
    <3>4. CASE Fail
      BY <3>3, <3>4, FailEnds DEF StaysOnTrack
    <3>5. CASE n = 2 /\ Continue /\ state' = "MCS_CONNECT"
      <4>1. sent' = ps
        BY <2>1, <2>5, <3>1, <3>5, FirstWrite
      <4>2. Position'
        BY <2>1, <2>2, <3>5, <4>1 DEF Position, Continue, Late
      <4> QED BY <3>3, <4>2 DEF StaysOnTrack
    <3> QED BY <2>5, <3>4, <3>5
  <2> QED BY <2>3, <2>4, <2>5
<1>2. ASSUME NEW channel \in BOOLEAN, NEW encrypts \in BOOLEAN, NEW n \in 0..2,
             RecvConnectResponse(channel, encrypts, n)
      PROVE  StaysOnTrack
  <2> DEFINE ps == <<"erect_domain", "attach_user">>
  <2>1. /\ sent \in {<<"connect_initial">>, <<"credentials", "connect_initial">>}
        /\ joined = {} /\ frames[Len(frames)] \notin Callbacks
    BY <1>0, <1>2 DEF RecvConnectResponse, Position, Late
  <2>2. joined' = joined /\ Send(ps, n)
        /\ (Fail \/ (n = 2 /\ Continue /\ state' = "MCS_ATTACH_USER"))
    BY <1>2 DEF RecvConnectResponse, Goto, Failed
  <2>3. ps \in Seq(Pdus) /\ ps # <<>>
    BY PduNames
  <2>4. \A d \in {<<"credentials", "connect_initial">>, <<"connect_initial", "erect_domain">>,
                  <<"erect_domain", "attach_user">>} : d \in Diagram'
    BY DEF Diagram
  <2>5. Chained(ps, Diagram')
    BY <2>4 DEF Chained
  <2>6. Linked(sent, Diagram') /\ sent # <<>> /\ sent[Len(sent)] = "connect_initial"
    <3>1. CASE sent = <<"connect_initial">>
      BY <3>1 DEF Linked, Chained, Starts
    <3>2. CASE sent = <<"credentials", "connect_initial">>
      BY <2>4, <3>2 DEF Linked, Chained, Starts
    <3> QED BY <2>1, <3>1, <3>2
  <2>7. <<sent[Len(sent)], ps[1]>> \in Diagram'
    BY <2>4, <2>6
  <2>8. /\ Linked(sent', Diagram')
        /\ n > 0 => sent' # <<>> /\ sent'[Len(sent')] = ps[n]
    BY <1>0, <2>2, <2>3, <2>5, <2>6, <2>7, SendLinked
  <2>9. CASE Fail
    BY <2>8, <2>9, FailEnds DEF StaysOnTrack
  <2>10. CASE n = 2 /\ Continue /\ state' = "MCS_ATTACH_USER"
    <3>1. LastIs("attach_user")'
      BY <2>8, <2>10 DEF LastIs
    <3>2. Position'
      BY <2>1, <2>2, <2>10, <3>1 DEF Position, Continue, Late
    <3> QED BY <2>8, <3>2 DEF StaysOnTrack
  <2> QED BY <2>2, <2>9, <2>10
<1>3. ASSUME NEW n \in 0..1, RecvAttachUserConfirm(n)
      PROVE  StaysOnTrack
  <2> DEFINE ps == <<"user">>
  <2>1. LastIs("attach_user") /\ joined = {} /\ frames[Len(frames)] \notin Callbacks
    BY <1>0, <1>3 DEF RecvAttachUserConfirm, Position, Late
  <2>2. UNCHANGED <<message, joined>> /\ Send(ps, n)
        /\ (Fail \/ (n = 1 /\ Continue /\ state' = "MCS_CHANNEL_JOIN"))
    BY <1>3 DEF RecvAttachUserConfirm, Goto, Failed, mcs
  <2>3. ps \in Seq(Pdus) /\ ps # <<>> /\ Chained(ps, Diagram)
    BY PduNames DEF Chained
  <2>4. sent # <<>> /\ <<sent[Len(sent)], ps[1]>> \in Diagram
    BY <2>1, FixedPairs DEF LastIs
  <2>5. /\ Linked(sent', Diagram')
        /\ n > 0 => sent' # <<>> /\ sent'[Len(sent')] = ps[n]
    BY <1>0, <2>2, <2>3, <2>4, SendLinked, DiagramKept
  <2>6. CASE Fail
    BY <2>5, <2>6, FailEnds DEF StaysOnTrack
  <2>7. CASE n = 1 /\ Continue /\ state' = "MCS_CHANNEL_JOIN"
    <3>1. sent' # <<>> /\ sent'[Len(sent')] = "user"
      BY <2>5, <2>7
    <3>2. 1 \in 1..Len(JoinOrder) /\ JoinOrder[1] = "user" /\ JoinOrder' = JoinOrder
      BY <2>2, JoinOrderType, DiagramKept
    <3>3. joined' = {JoinOrder[j] : j \in 1..(1 - 1)}
      BY <2>1, <2>2
    <3>4. \E i \in 1..Len(JoinOrder') :
              joined' = {JoinOrder[j] : j \in 1..(i - 1)}' /\ LastIs(JoinOrder[i])'
      BY <3>1, <3>2, <3>3 DEF LastIs
    <3>5. Position'
      BY <2>1, <2>7, <3>4 DEF Position, Continue, Late
    <3> QED BY <2>5, <3>5 DEF StaysOnTrack
  <2> QED BY <2>2, <2>6, <2>7
<1> QED BY <1>1, <1>2, <1>3

\* With the keys exchanged first where the RDP layer secures the connection, the Client Info
\* PDU follows the join of the last channel.
LEMMA InformOnTrack ==
    ASSUME OnTrack, ~resumed', NEW n, SecureAndInform(n), message' = message,
           LastIs(JoinOrder[Len(JoinOrder)]), frames[Len(frames)] \notin Callbacks
    PROVE  StaysOnTrack
<1>0. sent \in Seq(Pdus) /\ Linked(sent, Diagram)
  BY DEF OnTrack
<1> DEFINE exchange == IF UseRdpSecurityLayer THEN <<"security_exchange">> ELSE <<>>
           ps == exchange \o <<"client_info">>
<1>1. /\ ps \in Seq(Pdus) /\ Len(ps) = 1 + Len(exchange)
      /\ \/ Len(ps) = 1 /\ ps[1] = "client_info"
         \/ Len(ps) = 2 /\ ps[1] = "security_exchange" /\ ps[2] = "client_info"
  <2>1. CASE UseRdpSecurityLayer
    BY <2>1, PduNames
  <2>2. CASE ~UseRdpSecurityLayer
    BY <2>2, PduNames
  <2> QED BY <2>1, <2>2
<1>2. \/ pc' = "crashed" /\ sent' = sent
      \/ Send(ps, n) /\ (Fail \/ (n = Len(ps) /\ Continue /\ state' = "LICENSING"))
  BY <1>1 DEF SecureAndInform, Goto, Failed
<1> HIDE DEF ps, exchange
<1>3. ps \in Seq(Pdus) /\ ps # <<>> /\ Len(ps) > 0 /\ ps[Len(ps)] = "client_info"
      /\ ps[1] \in {"security_exchange", "client_info"}
  BY <1>1
<1>4. Chained(ps, Diagram)
  <2> SUFFICES ASSUME NEW k \in 1..(Len(ps) - 1) PROVE <<ps[k], ps[k + 1]>> \in Diagram
    BY DEF Chained
  <2>1. k = 1 /\ k + 1 = 2 /\ Len(ps) = 2
    BY <1>1
  <2>2. ps[k] = "security_exchange" /\ ps[k + 1] = "client_info"
    BY <1>1, <2>1
  <2> QED BY <2>2, FixedPairs
<1>5. sent # <<>> /\ <<sent[Len(sent)], ps[1]>> \in Diagram
  BY <1>3 DEF LastIs, Diagram
<1>6. CASE pc' = "crashed" /\ sent' = sent
  BY <1>0, <1>6, LinkedKept DEF StaysOnTrack, Terminal
<1>7. CASE Send(ps, n) /\ (Fail \/ (n = Len(ps) /\ Continue /\ state' = "LICENSING"))
  <2>1. /\ Linked(sent', Diagram')
        /\ n > 0 => sent' # <<>> /\ sent'[Len(sent')] = ps[n]
    BY <1>0, <1>3, <1>4, <1>5, <1>7, SendLinked, DiagramKept
  <2>2. CASE Fail
    BY <2>1, <2>2, FailEnds DEF StaysOnTrack
  <2>3. CASE n = Len(ps) /\ Continue /\ state' = "LICENSING"
    <3>1. LastIs("client_info")'
      BY <1>3, <2>1, <2>3 DEF LastIs
    <3>2. Position'
      BY <2>3, <3>1 DEF Position, Continue, Late
    <3> QED BY <2>1, <3>2 DEF StaysOnTrack
  <2> QED BY <1>7, <2>2, <2>3
<1> QED BY <1>2, <1>6, <1>7

\* A channel is asked for after the join of the one before it was confirmed.
LEMMA JoinOnTrack ==
    ASSUME OnTrack, ~resumed', NEW channel \in Channels, NEW n \in 0..2,
           RecvJoinConfirm(channel, n)
    PROVE  StaysOnTrack
<1>0. sent \in Seq(Pdus) /\ Linked(sent, Diagram) /\ Position
  BY DEF OnTrack
<1>1. state = "MCS_CHANNEL_JOIN" /\ message' = message /\ frames[Len(frames)] \notin Callbacks
  BY <1>0 DEF RecvJoinConfirm, Position, Late
<1>2. PICK i \in 1..Len(JoinOrder) :
          joined = {JoinOrder[j] : j \in 1..(i - 1)} /\ LastIs(JoinOrder[i])
  BY <1>0, <1>1 DEF Position
<1>3. Len(JoinOrder) \in Nat /\ JoinOrder[i] \notin joined
  BY <1>2, JoinOrderType, JoinOrderDistinct
<1>4. ~AllJoined
  BY <1>3 DEF AllJoined
<1>5. \A k \in 1..Len(JoinOrder) : NextJoin(k) => k = i
  <2> SUFFICES ASSUME NEW k \in 1..Len(JoinOrder), NextJoin(k) PROVE k = i
    OBVIOUS
  <2>1. k < i => JoinOrder[k] \in joined
    BY <1>2, <1>3
  <2>2. i < k => JoinOrder[i] \in joined
    BY <1>3 DEF NextJoin
  <2> QED BY <1>3, <2>1, <2>2 DEF NextJoin
<1>6. \/ Failed /\ UNCHANGED <<joined, sent>>
      \/ /\ joined' = joined \union {JoinOrder[i]}
         /\ i < Len(JoinOrder)
         /\ Send(<<JoinOrder[i + 1]>>, n)
         /\ IF n = 1 THEN Goto(state) ELSE Failed
      \/ i = Len(JoinOrder) /\ SecureAndInform(n)
  <2>1. PICK k \in 1..Len(JoinOrder) :
            /\ NextJoin(k)
            /\ IF channel # JoinOrder[k]
                 THEN n = 0 /\ Failed /\ UNCHANGED <<joined, keys, do_crypt, sent>>
                 ELSE /\ joined' = joined \union {channel}
                      /\ IF k < Len(JoinOrder)
                           THEN /\ Send(<<JoinOrder[k + 1]>>, n)
                                /\ IF n = 1 THEN Goto(state) ELSE Failed
                                /\ UNCHANGED <<keys, do_crypt>>
                           ELSE SecureAndInform(n)
    BY <1>4, Zenon DEF RecvJoinConfirm
  <2>2. k = i
    BY <1>5, <2>1
  <2>3. i < Len(JoinOrder) \/ i = Len(JoinOrder)
    BY <1>3
  <2> QED BY <2>1, <2>2, <2>3, Zenon
<1>7. CASE Failed /\ UNCHANGED <<joined, sent>>
  BY <1>1, <1>7, QuietOnTrack DEF Failed
<1>8. CASE i = Len(JoinOrder) /\ SecureAndInform(n)
  BY <1>1, <1>2, <1>8, InformOnTrack
<1>9. CASE /\ joined' = joined \union {JoinOrder[i]}
           /\ i < Len(JoinOrder)
           /\ Send(<<JoinOrder[i + 1]>>, n)
           /\ IF n = 1 THEN Goto(state) ELSE Failed
  <2> DEFINE ps == <<JoinOrder[i + 1]>>
  <2>1. i + 1 \in 1..Len(JoinOrder) /\ i \in 1..(Len(JoinOrder) - 1)
    BY <1>3, <1>9
  <2>2. JoinOrder[i + 1] \in Pdus
    BY <2>1, JoinOrderType, PduNames
  <2>3. ps \in Seq(Pdus) /\ ps # <<>> /\ Chained(ps, Diagram)
    BY <2>2 DEF Chained
  <2>4. <<JoinOrder[i], JoinOrder[i + 1]>> \in Diagram
    BY <2>1 DEF Diagram
  <2>5. sent # <<>> /\ <<sent[Len(sent)], ps[1]>> \in Diagram
    BY <1>2, <2>4 DEF LastIs
  <2>6. /\ Linked(sent', Diagram')
        /\ n > 0 => sent' # <<>> /\ sent'[Len(sent')] = ps[n]
    BY <1>0, <1>1, <1>9, <2>3, <2>5, SendLinked, DiagramKept
  <2>7. CASE n # 1
    BY <1>9, <2>6, <2>7, FailEnds DEF StaysOnTrack, Failed
  <2>8. CASE n = 1
    <3>1. sent' # <<>> /\ sent'[Len(sent')] = JoinOrder[i + 1]
      BY <2>6, <2>8
    <3>2. joined' = {JoinOrder[j] : j \in 1..((i + 1) - 1)}
      <4>1. 1..((i + 1) - 1) = (1..(i - 1)) \union {i}
        BY <1>3
      <4> QED BY <1>2, <1>9, <4>1
    <3>3. \E m \in 1..Len(JoinOrder') :
              joined' = {JoinOrder[j] : j \in 1..(m - 1)}' /\ LastIs(JoinOrder[m])'
      BY <1>1, <2>1, <3>1, <3>2, DiagramKept DEF LastIs
    <3>4. Continue /\ state' = "MCS_CHANNEL_JOIN"
      BY <1>1, <1>9, <2>8 DEF Goto
    <3>5. Position'
      BY <1>1, <3>3, <3>4 DEF Position, Continue, Late
    <3> QED BY <2>6, <3>5 DEF StaysOnTrack
  <2> QED BY <2>7, <2>8
<1> QED BY <1>6, <1>7, <1>8, <1>9

\* Confirm Active and the finalization batch, which follow the Client Info PDU or the Font
\* List PDU of the activation before.
LEMMA DemandOnTrack ==
    ASSUME OnTrack, ~resumed', NEW resize \in BOOLEAN, NEW n \in 0..6,
           RecvDemandActive(resize, n)
    PROVE  StaysOnTrack
<1>0. sent \in Seq(Pdus) /\ Linked(sent, Diagram) /\ Position
  BY DEF OnTrack
<1>1. /\ state = "CAPABILITIES_EXCHANGE" /\ UNCHANGED <<message, joined>>
      /\ LastIs("client_info") \/ LastIs("font_list")
      /\ Send(ConfirmBatch, n)
      /\ Fail \/ (n = Len(ConfirmBatch) /\ Continue /\ state' = "FINALIZATION")
  BY <1>0 DEF RecvDemandActive, Goto, Failed, Position, Late, mcs
<1> DEFINE ps == ConfirmBatch
<1>2. /\ ps \in Seq(Pdus)
      /\ ps[1] = "confirm_active" /\ ps[2] = "client_synchronize"
      /\ ps[3] = "client_cooperate" /\ ps[4] = "request_control"
      /\ \/ Len(ps) = 5 /\ ps[5] = "font_list"
         \/ Len(ps) = 6 /\ ps[5] = "persistent_key_list" /\ ps[6] = "font_list"
  <2>1. CASE ~deactivation_reactivation /\ BitmapCachePersistEnabled
    BY <2>1, PduNames DEF ConfirmBatch
  <2>2. CASE ~(~deactivation_reactivation /\ BitmapCachePersistEnabled)
    BY <2>2, PduNames DEF ConfirmBatch
  <2> QED BY <2>1, <2>2
<1> HIDE DEF ps
<1>3. ps # <<>> /\ Len(ps) > 0 /\ ps[Len(ps)] = "font_list"
  BY <1>2
<1>4. Chained(ps, Diagram)
  <2> SUFFICES ASSUME NEW k \in 1..(Len(ps) - 1) PROVE <<ps[k], ps[k + 1]>> \in Diagram
    BY DEF Chained
  <2> DEFINE m == Len(ps)
  <2>1. k \in 1..(m - 1) /\ (m = 5 \/ m = 6)
    BY <1>2
  <2> HIDE DEF m
  <2>2. CASE k = 1
    <3>1. ps[k] = "confirm_active" /\ ps[k + 1] = "client_synchronize"
      BY <1>2, <2>2
    <3> QED BY <3>1, FixedPairs
  <2>3. CASE k = 2
    <3>1. ps[k] = "client_synchronize" /\ ps[k + 1] = "client_cooperate"
      BY <1>2, <2>3
    <3> QED BY <3>1, FixedPairs
  <2>4. CASE k = 3
    <3>1. ps[k] = "client_cooperate" /\ ps[k + 1] = "request_control"
      BY <1>2, <2>4
    <3> QED BY <3>1, FixedPairs
  <2>5. CASE k = 4
    <3>1. ps[k] = "request_control" /\ ps[k + 1] \in {"font_list", "persistent_key_list"}
      BY <1>2, <2>5
    <3> QED BY <3>1, FixedPairs
  <2>6. CASE k = 5
    <3>1. m = 6
      BY <2>1, <2>6
    <3>2. ps[k] = "persistent_key_list" /\ ps[k + 1] = "font_list"
      BY <1>2, <2>6, <3>1 DEF m
    <3> QED BY <3>2, FixedPairs
  <2> QED BY <2>1, <2>2, <2>3, <2>4, <2>5, <2>6
<1>5. sent # <<>> /\ <<sent[Len(sent)], ps[1]>> \in Diagram
  BY <1>1, <1>2, FixedPairs DEF LastIs
<1>6. /\ Linked(sent', Diagram')
      /\ n > 0 => sent' # <<>> /\ sent'[Len(sent')] = ps[n]
  BY <1>0, <1>1, <1>2, <1>3, <1>4, <1>5, SendLinked, DiagramKept DEF ps
<1>7. CASE Fail
  BY <1>6, <1>7, FailEnds DEF StaysOnTrack
<1>8. CASE n = Len(ps) /\ Continue /\ state' = "FINALIZATION"
  <2>1. LastIs("font_list")'
    BY <1>3, <1>6, <1>8 DEF LastIs
  <2>2. Position'
    BY <1>8, <2>1 DEF Position, Continue, Late
  <2> QED BY <1>6, <2>2 DEF StaysOnTrack
<1> QED BY <1>1, <1>7, <1>8 DEF ps

\* No step breaks the invariant.
LEMMA SeqStep ==
    ASSUME SeqInv, LoopType, ValueType, sent \in Seq(Pdus), [Next]_vars
    PROVE  SeqInv'
<1>1. CASE UNCHANGED vars
  <2>1. UNCHANGED <<sent, message, joined, pc, state, frames, resumed>>
    BY <1>1 DEF vars, mcs, loops
  <2> QED BY <2>1, LinkedKept, PositionKept DEF SeqInv
<1>2. CASE Next /\ ~(UNCHANGED vars)
  <2> SUFFICES ASSUME ~resumed' PROVE StaysOnTrack
    BY DEF SeqInv, StaysOnTrack
  <2>1. Client \/ (\E read \in BOOLEAN : Read(read)) \/ freerdp_abort_connect
    BY <1>2 DEF Next
  <2>2. pc \notin Terminal
    BY <2>1 DEF Client, Handle, Read, freerdp_abort_connect, rdp_client_connect,
                rdp_client_redirect, SeeAbort, RecvNla, RecvBad, RecvConnectResponse,
                RecvAttachUserConfirm, RecvJoinConfirm, RecvLicense, RecvDataEarly,
                RecvDemandActive, RecvData, RecvDeactivateAll, RecvRedirection, RecvAborted,
                Terminal
  <2>3. LoopMove
    BY <2>1, ConnectMoves, WaitMoves, EarlyMoves, LateMoves DEF Client, Handle
  <2>4. OnTrack
    BY <2>2, <2>3, ResumedStays DEF SeqInv, OnTrack
  <2> QED BY <2>1, <2>4, QuietHandlers, QuietLoops, ConnectOnTrack, EarlyOnTrack, JoinOnTrack,
             DemandOnTrack DEF Client, Handle
<1> QED BY <1>1, <1>2

\* Whatever the server sends, whichever writes fail, and for any static channels, what the
\* client writes on a connection follows the documented diagram, until a redirection fails
\* and the loop that met it goes on (connection.c, rdp_client_connect and the handlers that
\* rdp_recv_callback calls).
THEOREM InSequence == Spec => []FollowsSequence
<1> DEFINE Inv == LoopType /\ ValueType /\ sent \in Seq(Pdus) /\ SeqInv
<1>1. Init => Inv
  <2> SUFFICES ASSUME Init PROVE Inv
    OBVIOUS
  <2>1. LoopType
    BY DEF Init, LoopType, Frames, Pcs
  <2>2. ValueType /\ sent \in Seq(Pdus)
    BY ConnectAssumption DEF Init, ValueType, States, ConnectAssumption
  <2>3. Linked(sent, Diagram)
    BY DEF Init, Linked, Chained
  <2>4. Position
    BY DEF Init, Position, Late, Callbacks
  <2> QED BY <2>1, <2>2, <2>3, <2>4 DEF SeqInv
<1>2. Inv /\ [Next]_vars => Inv'
  BY LoopTypeStep, ValueStep, SentStep, SeqStep
<1>3. Inv => FollowsSequence
  BY DEF SeqInv, Linked, Chained, Starts, FollowsSequence
<1> QED BY <1>1, <1>2, <1>3, PTL DEF Spec

===============================================================================
