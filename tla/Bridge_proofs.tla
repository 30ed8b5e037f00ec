---------------------------- MODULE Bridge_proofs ----------------------------
(***************************************************************************)
(* Proofs about the bridge, for every number of addresses, every way in    *)
(* which they fail, every timeout and any number of kills.  That the       *)
(* notice is true rests on two things: a context has its will exactly as   *)
(* long as it is not disconnected (WillIsArmed), so no end of a connection *)
(* is passed over, and a socket that is lost in a pass of the loop does    *)
(* not outlive that pass (SocketIsServed).                                 *)
(***************************************************************************)
EXTENDS Bridge, TLAPS

Indices == 0 .. Addresses - 1
Reach == Faults \cup {"up"}

Context ==
  [sock : BOOLEAN, state : {"new", "connected", "disconnected"}, cur : Indices,
   waiting : BOOLEAN, restartIn : 0 .. RestartTimeout + 1, primaryIn : 0 .. PrimaryRetry + 1,
   lazy : BOOLEAN, private : BOOLEAN, pinged : BOOLEAN, silence : Nat, will : BOOLEAN,
   told : BOOLEAN, msgs : 0 .. MaxMessages, notice : {"none", "0", "1"}]

BridgeTypeOK ==
  /\ startType \in StartTypes /\ roundRobin \in BOOLEAN
  /\ reach \in [Indices -> Reach]
  /\ b \in Context
  /\ pc \in {"serve", "restart", "poll"}
  /\ kills \in Nat

\* mqtt3_bridge_connect sets the will, and the end of the connection takes it.
WillIsArmed(e) == e.told /\ (e.will <=> e.state # "disconnected")

\* A context with a socket is not disconnected, and one that is connected has its socket.
SocketIsServed(e) == (e.sock => e.state # "disconnected") /\ (e.state = "connected" => e.sock)

\* What the clients of the broker read.
NoticeOfState(e) == e.notice = "1" <=> e.state = "connected"

Kept(e) == WillIsArmed(e) /\ SocketIsServed(e) /\ NoticeOfState(e)

BridgeIInv == BridgeTypeOK /\ Kept(b)

-----------------------------------------------------------------------------
\* A new connection keeps what there is to keep, if the notice does not say 1 (mqtt3_bridge_connect).
LEMMA ConnectKeeps ==
  ASSUME NEW e \in Context, e.told => e.notice # "1"
  PROVE  Connect(e) \in Context /\ Kept(Connect(e))
<1>1. /\ TryConnect(e.cur) \in BOOLEAN
      /\ (IF CleanSession THEN 0 ELSE e.msgs) \in 0 .. MaxMessages
      /\ (IF e.told THEN e.notice ELSE "0") \in {"none", "0", "1"}
  BY BridgeAssumption DEF TryConnect, Context
<1>2. Connect(e) \in Context
  BY <1>1, ZenonT(60) DEF Connect, Context
<1>3. /\ Connect(e).state = "new" /\ Connect(e).will /\ Connect(e).told
      /\ Connect(e).notice # "1"
  BY DEF Connect, Context
<1> QED
  BY <1>2, <1>3 DEF Kept, WillIsArmed, SocketIsServed, NoticeOfState

\* The context of a broker that starts, with what its file says.
LEMMA NewKeeps ==
  ASSUME NEW msgs \in 0 .. MaxMessages, NEW notice \in {"none", "0", "1"}
  PROVE  Connect(New(msgs, notice)) \in Context /\ Kept(Connect(New(msgs, notice)))
<1>1. New(msgs, notice) \in Context /\ ~New(msgs, notice).told
  BY BridgeAssumption DEF New, Context, Indices
<1> QED
  BY <1>1, ConnectKeeps

\* The end of a connection, whatever has become of its socket (mqtt3_context_disconnect).
LEMMA DisconnectKeeps ==
  ASSUME NEW e \in Context, WillIsArmed(e), NoticeOfState(e), e.sock => e.state # "disconnected"
  PROVE  Disconnect(e) \in Context /\ Kept(Disconnect(e))
<1>1. CASE e.state = "disconnected"
  BY <1>1 DEF Disconnect, Kept, WillIsArmed, SocketIsServed, NoticeOfState, Context
<1>2. CASE e.state # "disconnected"
  <2>1. Disconnect(e) \in Context
    BY ZenonT(60) DEF Disconnect, Context
  <2>2. /\ Disconnect(e).state = "disconnected" /\ ~Disconnect(e).will /\ ~Disconnect(e).sock
        /\ Disconnect(e).notice = "0" /\ Disconnect(e).told = e.told
    BY <1>2 DEF Disconnect, Context, WillIsArmed
  <2> QED
    BY <2>1, <2>2 DEF Kept, WillIsArmed, SocketIsServed, NoticeOfState
<1> QED BY <1>1, <1>2

\* The checks of a pass may take the socket of a context and leave it to the end of the pass.
LEMMA ChecksKeep ==
  ASSUME NEW e \in Context, WillIsArmed(e), NoticeOfState(e), e.state # "disconnected"
  PROVE  /\ CheckKeepalive(e) \in Context /\ TryPrimary(e) \in Context
         /\ WillIsArmed(CheckKeepalive(e)) /\ WillIsArmed(TryPrimary(e))
         /\ NoticeOfState(CheckKeepalive(e)) /\ NoticeOfState(TryPrimary(e))
         /\ CheckKeepalive(e).state # "disconnected" /\ TryPrimary(e).state # "disconnected"
<1>1. CheckKeepalive(e) \in Context
  BY DEF CheckKeepalive, Context
<1>2. TryPrimary(e) \in Context
  <2>1. Addresses - 1 \in Indices
    BY BridgeAssumption DEF Indices
  <2> QED BY <2>1 DEF TryPrimary, Context
<1>3. /\ CheckKeepalive(e).told = e.told /\ CheckKeepalive(e).will = e.will
      /\ CheckKeepalive(e).state = e.state /\ CheckKeepalive(e).notice = e.notice
  BY DEF CheckKeepalive, Context
<1>4. /\ TryPrimary(e).told = e.told /\ TryPrimary(e).will = e.will
      /\ TryPrimary(e).state = e.state /\ TryPrimary(e).notice = e.notice
  BY DEF TryPrimary, Context
<1> QED
  BY <1>1, <1>2, <1>3, <1>4 DEF WillIsArmed, NoticeOfState

\* Fields on which none of the three conditions depends may change.
LEMMA OthersKeep ==
  ASSUME NEW d, NEW e, Kept(d), e.told = d.told, e.will = d.will, e.state = d.state, e.sock = d.sock, e.notice = d.notice
  PROVE  Kept(e)
BY DEF Kept, WillIsArmed, SocketIsServed, NoticeOfState

\* The next address is one of the list.
LEMMA NextAddressKeeps ==
  ASSUME NEW e \in Context, Kept(e)
  PROVE  NextAddress(e) \in Context /\ Kept(NextAddress(e))
<1>1. (e.cur + 1) % Addresses \in Indices
  BY BridgeAssumption, e.cur \in Nat DEF Context, Indices
<1>2. NextAddress(e) \in Context
  BY <1>1 DEF NextAddress, Context
<1>3. /\ NextAddress(e).told = e.told /\ NextAddress(e).will = e.will
      /\ NextAddress(e).state = e.state /\ NextAddress(e).sock = e.sock
      /\ NextAddress(e).notice = e.notice
  BY DEF NextAddress, Context
<1> QED
  BY <1>2, <1>3, OthersKeep

\* Time passes.
LEMMA ElapseKeeps ==
  ASSUME NEW e \in Context, Kept(e), NEW second \in 0 .. 1
  PROVE  Elapse(e, second) \in Context /\ Kept(Elapse(e, second))
<1>1. /\ e.restartIn \in 0 .. RestartTimeout + 1 /\ e.primaryIn \in 0 .. PrimaryRetry + 1
      /\ e.silence \in Nat
  BY DEF Context
<1>2. /\ (IF e.restartIn >= second THEN e.restartIn - second ELSE e.restartIn) \in 0 .. RestartTimeout + 1
      /\ (IF e.primaryIn >= second THEN e.primaryIn - second ELSE e.primaryIn) \in 0 .. PrimaryRetry + 1
      /\ (IF e.sock THEN e.silence + second ELSE e.silence) \in Nat
  BY <1>1, BridgeAssumption
<1>3. Elapse(e, second) \in Context
  BY <1>2 DEF Elapse, Context
<1>4. /\ Elapse(e, second).told = e.told /\ Elapse(e, second).will = e.will
      /\ Elapse(e, second).state = e.state /\ Elapse(e, second).sock = e.sock
      /\ Elapse(e, second).notice = e.notice
  BY DEF Elapse, Context
<1> QED
  BY <1>3, <1>4, OthersKeep

-----------------------------------------------------------------------------
\* The bridges as bridges_start leaves them.
LEMMA BridgeInitially ==
  ASSUME Init
  PROVE  BridgeIInv
<1>1. Connect(New(0, "none")) \in Context /\ Kept(Connect(New(0, "none")))
  <2>1. 0 \in 0 .. MaxMessages
    BY BridgeAssumption
  <2> QED BY <2>1, NewKeeps
<1> QED
  BY <1>1 DEF Init, BridgeIInv, BridgeTypeOK, Indices, Reach

\* Serve: what the checks have taken from the context, the end of the pass settles.
LEMMA ServeStep ==
  ASSUME BridgeIInv, Serve
  PROVE  BridgeIInv'
<1> USE DEF BridgeIInv
<1>1. CASE ~b.sock
  BY <1>1 DEF Serve, BridgeTypeOK, config
<1>2. CASE b.sock
  <2> DEFINE d == CheckKeepalive(b)
             e == TryPrimary(d)
  <2>1. b \in Context /\ WillIsArmed(b) /\ NoticeOfState(b) /\ b.state # "disconnected"
    BY <1>2 DEF Kept, SocketIsServed, BridgeTypeOK
  <2>2. d \in Context /\ WillIsArmed(d) /\ NoticeOfState(d) /\ d.state # "disconnected"
    BY <2>1, ChecksKeep
  <2>3. e \in Context /\ WillIsArmed(e) /\ NoticeOfState(e) /\ e.state # "disconnected"
    BY <2>2, ChecksKeep
  <2> HIDE DEF e
  <2>4. Served(e) \in Context /\ Kept(Served(e))
    BY <2>3, DisconnectKeeps DEF Served, Kept, SocketIsServed
  <2>5. b' = Served(e)
    BY <1>2 DEF Serve, e
  <2> QED
    BY <2>4, <2>5 DEF Serve, BridgeTypeOK, config
<1> QED BY <1>1, <1>2

\* The bridges without a connection: one is planned, made, or left for later.
LEMMA RestartStep ==
  ASSUME BridgeIInv, Schedule \/ RestartBridge \/ NoRestart
  PROVE  BridgeIInv'
<1> USE DEF BridgeIInv, Restarting
<1>1. b \in Context /\ Kept(b)
  BY DEF BridgeTypeOK
<1>2. b' \in Context /\ Kept(b')
  <2>1. CASE Schedule
    <3> DEFINE d == [b EXCEPT !.waiting = TRUE, !.restartIn = RestartTimeout + 1]
               e == NextAddress(d)
    <3>1. d \in Context
      <4>1. RestartTimeout + 1 \in 0 .. RestartTimeout + 1
        BY BridgeAssumption
      <4> QED BY <1>1, <4>1 DEF Context
    <3>2. Kept(d)
      <4>1. d.told = b.told /\ d.will = b.will /\ d.state = b.state /\ d.sock = b.sock /\ d.notice = b.notice
        BY <1>1 DEF Context
      <4> QED BY <1>1, <4>1, OthersKeep
    <3>3. e \in Context /\ Kept(e)
      BY <3>1, <3>2, NextAddressKeeps
    <3>4. b' = IF ~roundRobin /\ e.cur # 0 THEN [e EXCEPT !.primaryIn = PrimaryRetry + 1] ELSE e
      BY <2>1 DEF Schedule
    <3> HIDE DEF e
    <3>5. b' \in Context
      BY <3>3, <3>4, BridgeAssumption DEF Context
    <3>6. b'.told = e.told /\ b'.will = e.will /\ b'.state = e.state /\ b'.sock = e.sock /\ b'.notice = e.notice
      BY <3>3, <3>4 DEF Context
    <3> QED
      BY <3>3, <3>5, <3>6, OthersKeep
  <2>2. CASE RestartBridge
    <3> DEFINE d == [b EXCEPT !.waiting = FALSE]
               e == Connect(d)
    <3>1. d \in Context /\ (d.told => d.notice # "1")
      BY <1>1, <2>2 DEF Context, RestartBridge, RestartIsDue, Kept, SocketIsServed, NoticeOfState
    <3>2. e \in Context /\ Kept(e)
      BY <3>1, ConnectKeeps
    <3>3. b' = IF e.sock THEN e ELSE NextAddress(e)
      BY <2>2 DEF RestartBridge
    <3> HIDE DEF e
    <3> QED
      BY <3>2, <3>3, NextAddressKeeps
  <2>3. CASE NoRestart
    BY <1>1, <2>3 DEF NoRestart
  <2> QED BY <2>1, <2>2, <2>3
<1>3. pc' = "poll" /\ UNCHANGED <<startType, roundRobin, reach, kills>>
  BY DEF Schedule, RestartBridge, NoRestart, config
<1> QED
  BY <1>2, <1>3 DEF BridgeTypeOK

\* An answer to the CONNECT or to a ping.
LEMMA AnsweredKeeps ==
  ASSUME b \in Context, Kept(b), b.sock, b.state \in {"new", "connected"}
  PROVE  Answered \in Context /\ Kept(Answered)
<1>1. WillIsArmed(b) /\ NoticeOfState(b)
  BY DEF Kept
<1>2. CASE b.state = "new" /\ Refuses
  <2> DEFINE d == [b EXCEPT !.private = FALSE]
  <2>1. d \in Context
    BY DEF Context
  <2>2. WillIsArmed(d) /\ NoticeOfState(d) /\ d.state # "disconnected"
    BY <1>1 DEF Context, WillIsArmed, NoticeOfState
  <2>3. Disconnect(d) \in Context /\ Kept(Disconnect(d))
    BY <2>1, <2>2, DisconnectKeeps
  <2> QED
    BY <1>2, <2>3 DEF Answered, Connack
<1>3. CASE b.state = "new" /\ ~Refuses
  <2> DEFINE d == [b EXCEPT !.state = "connected", !.silence = 0, !.notice = "1"]
  <2>1. d \in Context
    BY DEF Context
  <2>2. d.sock /\ d.told /\ d.will /\ d.state = "connected" /\ d.notice = "1"
    BY <1>1, <1>3 DEF Context, WillIsArmed
  <2>3. Answered = d
    BY <1>3 DEF Answered, Connack
  <2> QED
    BY <2>1, <2>2, <2>3 DEF Kept, WillIsArmed, SocketIsServed, NoticeOfState
<1>4. CASE b.state = "connected"
  <2> DEFINE d == [b EXCEPT !.pinged = FALSE, !.silence = 0, !.msgs = 0]
  <2>1. d \in Context
    <3>1. 0 \in 0 .. MaxMessages
      BY BridgeAssumption
    <3> QED BY <3>1 DEF Context
  <2>2. d.told = b.told /\ d.will = b.will /\ d.state = b.state /\ d.sock = b.sock /\ d.notice = b.notice
    BY DEF Context
  <2>3. Answered = d
    BY <1>4 DEF Answered
  <2> QED
    BY <2>1, <2>2, <2>3, OthersKeep
<1> QED
  BY <1>2, <1>3, <1>4

\* What the socket has: an answer, or the end.
LEMMA HeardKeeps ==
  ASSUME BridgeIInv, b.sock, NEW heard \in Heard
  PROVE  heard \in Context /\ Kept(heard)
<1>1. b \in Context /\ Kept(b) /\ WillIsArmed(b) /\ NoticeOfState(b) /\ b.state \in {"new", "connected"}
  BY DEF BridgeIInv, BridgeTypeOK, Context, Kept, SocketIsServed
<1>2. heard = Answered \/ heard = Disconnect(b)
  BY DEF Heard
<1>3. Answered \in Context /\ Kept(Answered)
  BY <1>1, AnsweredKeeps
<1>4. Disconnect(b) \in Context /\ Kept(Disconnect(b))
  BY <1>1, DisconnectKeeps
<1> QED
  BY <1>2, <1>3, <1>4

\* A step of poll.
LEMMA PollStep ==
  ASSUME BridgeIInv, PollReady \/ PollTimeout \/ Tick
  PROVE  BridgeIInv'
<1> USE DEF BridgeIInv, Polling
<1>1. b \in Context /\ Kept(b)
  BY DEF BridgeTypeOK
<1>2. b' \in Context /\ Kept(b')
  <2>1. CASE PollReady
    <3>1. PICK heard \in Heard, second \in 0 .. 1 : b' = Elapse(heard, second)
      BY <2>1 DEF PollReady
    <3>2. heard \in Context /\ Kept(heard)
      BY <2>1, HeardKeeps DEF PollReady
    <3> QED
      BY <3>1, <3>2, ElapseKeeps
  <2>2. CASE PollTimeout
    BY <1>1, <2>2 DEF PollTimeout
  <2>3. CASE Tick
    BY <1>1, <2>3, ElapseKeeps DEF Tick
  <2> QED BY <2>1, <2>2, <2>3
<1>3. pc' = "serve" /\ UNCHANGED <<startType, roundRobin, reach, kills>>
  BY DEF PollReady, PollTimeout, Tick, config
<1> QED
  BY <1>2, <1>3 DEF BridgeTypeOK

\* Other addresses, other messages, another process.
LEMMA WorldStep ==
  ASSUME BridgeIInv, ReachChanges \/ Publish \/ Killed
  PROVE  BridgeIInv'
<1> USE DEF BridgeIInv
<1>1. b \in Context /\ Kept(b)
  BY DEF BridgeTypeOK
<1>2. CASE ReachChanges
  <2>1. reach' \in [Indices -> Reach]
    BY <1>2 DEF ReachChanges, BridgeTypeOK, Reach
  <2> QED
    BY <1>2, <2>1 DEF ReachChanges, BridgeTypeOK, config
<1>3. CASE Publish
  <2> DEFINE msgs == IF b.msgs < MaxMessages THEN b.msgs + 1 ELSE b.msgs
  <2>1. b' = [b EXCEPT !.msgs = msgs, !.lazy = @ \/ (~b.sock /\ msgs >= Threshold)]
    BY <1>3 DEF Publish
  <2>2. msgs \in 0 .. MaxMessages
    BY <1>1, BridgeAssumption DEF Context
  <2>3. (b.lazy \/ (~b.sock /\ msgs >= Threshold)) \in BOOLEAN
    OBVIOUS
  <2> HIDE DEF msgs
  <2>4. b' \in Context
    BY <1>1, <2>1, <2>2, <2>3 DEF Context
  <2>5. b'.told = b.told /\ b'.will = b.will /\ b'.state = b.state /\ b'.sock = b.sock /\ b'.notice = b.notice
    BY <1>1, <2>1 DEF Context
  <2>6. Kept(b')
    BY <1>1, <2>5, OthersKeep
  <2> QED
    BY <1>3, <2>4, <2>6 DEF Publish, BridgeTypeOK, config
<1>4. CASE Killed
  <2>1. PICK msgs \in 0 .. b.msgs, notice \in {"none", "0", "1"} : b' = Connect(New(msgs, notice))
    BY <1>4 DEF Killed
  <2>2. msgs \in 0 .. MaxMessages
    BY <1>1, BridgeAssumption DEF Context
  <2>3. b' \in Context /\ Kept(b')
    BY <2>1, <2>2, NewKeeps
  <2> QED
    BY <1>4, <2>3 DEF Killed, BridgeTypeOK, config
<1> QED BY <1>2, <1>3, <1>4

\* The inductive invariant of the bridge.
THEOREM BridgeInvariant == Spec => []BridgeIInv
<1>1. Init => BridgeIInv
  BY BridgeInitially
<1>2. BridgeIInv /\ [Next]_vars => BridgeIInv'
  <2> SUFFICES ASSUME BridgeIInv, [Next]_vars
               PROVE  BridgeIInv'
    OBVIOUS
  <2>1. CASE Loop
    BY <2>1, ServeStep, RestartStep, PollStep DEF Loop
  <2>2. CASE ReachChanges \/ Publish \/ Killed
    BY <2>2, WorldStep
  <2>3. CASE UNCHANGED vars
    BY <2>3 DEF vars, BridgeIInv, BridgeTypeOK
  <2> QED
    BY <2>1, <2>2, <2>3 DEF Next
<1> QED
  BY <1>1, <1>2, PTL DEF Spec

\* Every variable has its type; no counter of the bridge leaves its range.
THEOREM BridgeTypes == Spec => []BridgeTypeOK
<1>1. BridgeIInv => BridgeTypeOK
  BY DEF BridgeIInv
<1> QED
  BY <1>1, BridgeInvariant, PTL

\* The retained notice says 1 exactly while the bridge is connected, for any number of
\* addresses, any failures and any number of kills (mqtt3_bridge_connect,
\* mqtt3_handle_connack, mqtt3_context_send_will).
THEOREM NoticeAlwaysTrue == Spec => []NoticeIsTrue
<1>1. BridgeIInv => NoticeIsTrue
  BY DEF BridgeIInv, Kept, SocketIsServed, NoticeOfState, NoticeIsTrue, IsConnected
<1> QED
  BY <1>1, BridgeInvariant, PTL
=============================================================================
