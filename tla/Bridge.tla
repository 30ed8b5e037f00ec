------------------------------- MODULE Bridge -------------------------------
(***************************************************************************)
(* A bridge: the broker as the client of another broker (bridge.c), which  *)
(* the main loop keeps connected (loop.c).  It has a list of addresses and *)
(* goes to the next one when a connection fails; the first is the main one *)
(* unless round_robin is set.  It tells the clients of its own broker, in  *)
(* a retained message, whether it is connected.                            *)
(*                                                                         *)
(* A pass of the loop has three steps: the open connections, the bridges   *)
(* that have none, the sockets that poll has found ready.  The timers      *)
(* count down; a step of poll takes a second or less.                      *)
(***************************************************************************)
EXTENDS Naturals

CONSTANTS
  Addresses,       \* address_count
  StartTypes,      \* of the bst_ values: "automatic", "lazy", "once"
  OldBrokers,      \* addresses of brokers that do not know try_private
  Faults,          \* how an address may fail: "down", "silent", "unknown"
  RestartTimeout,
  PrimaryRetry,    \* 5 seconds in the code
  KeepAlive,
  Threshold,
  CleanSession,
  MaxMessages,     \* bound: more messages than these are not counted
  MaxKills         \* bound: how often the broker is killed

ASSUME BridgeAssumption ==
  /\ Addresses \in Nat \ {0}
  /\ StartTypes \subseteq {"automatic", "lazy", "once"}
  /\ OldBrokers \subseteq 0 .. Addresses - 1
  /\ Faults \subseteq {"down", "silent", "unknown"}
  /\ {RestartTimeout, PrimaryRetry, KeepAlive, Threshold} \subseteq Nat \ {0}
  /\ CleanSession \in BOOLEAN
  /\ MaxMessages \in Nat /\ Threshold <= MaxMessages

VARIABLES
  startType, roundRobin,  \* the configuration
  reach,     \* what a connection to each address meets now
  b,         \* the context of the bridge and its struct _mqtt3_bridge
  pc,        \* the step of the loop: "serve", "restart" or "poll"
  kills      \* how often the broker was killed

vars == <<startType, roundRobin, reach, b, pc, kills>>
config == <<startType, roundRobin>>

\* Mutant of NextAddress: the list is left at its end.
NextAddressStays(e) == [e EXCEPT !.cur = IF @ + 1 = Addresses THEN @ ELSE @ + 1]

NextAddress(e) == [e EXCEPT !.cur = (@ + 1) % Addresses]

\* _mosquitto_try_connect.  An unknown address (its name is not resolved, or there is no way
\* to it) is an error at once; every other failure is found later, by poll.
TryConnect(a) == reach[a] # "unknown"

\* Mutant of Connect: the bridge does not say that it is not connected yet.
ConnectUntold(e) ==
  [e EXCEPT !.state = "new", !.lazy = FALSE, !.pinged = FALSE, !.silence = 0, !.will = TRUE,
            !.sock = TryConnect(e.cur),
            !.msgs = IF CleanSession THEN 0 ELSE @]

\* mqtt3_bridge_connect, with notifications
Connect(e) ==
  [e EXCEPT !.state = "new", !.lazy = FALSE, !.pinged = FALSE, !.silence = 0, !.will = TRUE,
            !.sock = TryConnect(e.cur),
            !.msgs = IF CleanSession THEN 0 ELSE @,
            !.notice = IF e.told THEN @ ELSE "0",
            !.told = TRUE]

\* mqtt3_bridge_new: the messages and the notice may be in the broker's file.
New(msgs, notice) ==
  [sock |-> FALSE, state |-> "new", cur |-> 0, waiting |-> FALSE, restartIn |-> 0,
   primaryIn |-> 0, lazy |-> FALSE, private |-> TRUE, pinged |-> FALSE, silence |-> 0,
   will |-> FALSE, told |-> FALSE, msgs |-> msgs, notice |-> notice]

Init ==
  /\ startType \in StartTypes /\ roundRobin \in BOOLEAN
  /\ reach \in [0 .. Addresses - 1 -> Faults \cup {"up"}]
  /\ b = Connect(New(0, "none"))
  /\ pc = "serve"
  /\ kills = 0

-----------------------------------------------------------------------------
\* do_disconnect with mqtt3_context_disconnect: the will is the notice.
Disconnect(e) ==
  IF e.state = "disconnected" THEN e
  ELSE [e EXCEPT !.notice = IF e.will THEN "0" ELSE @, !.will = FALSE,
                 !.sock = FALSE, !.state = "disconnected"]

\* _mosquitto_check_keepalive: a ping, or the end when the last one was not answered.  The
\* idle timeout of a lazy bridge is not reached: the ping comes first and is something sent.
CheckKeepalive(e) ==
  IF e.silence < KeepAlive THEN e
  ELSE IF e.state = "connected" /\ ~e.pinged
  THEN [e EXCEPT !.pinged = TRUE, !.silence = 0]
  ELSE [e EXCEPT !.sock = FALSE]

\* Mutant of TryPrimary: the restart begins with the first of the other addresses.
TryPrimaryNext(e) ==
  IF ~roundRobin /\ e.cur # 0 /\ e.primaryIn = 0 /\ TryConnect(0)
  THEN [e EXCEPT !.sock = FALSE, !.cur = 0]
  ELSE e

\* mosquitto_main_loop: a connection to the main address is enough when it is pending.
TryPrimary(e) ==
  IF ~roundRobin /\ e.cur # 0 /\ e.primaryIn = 0 /\ TryConnect(0)
  THEN [e EXCEPT !.sock = FALSE, !.cur = Addresses - 1]
  ELSE e

\* mqtt3_db_message_write finds that the socket is closed.
Served(e) == IF e.sock THEN e ELSE Disconnect(e)

Serve ==
  /\ pc = "serve" /\ pc' = "restart"
  /\ b' = IF b.sock THEN Served(TryPrimary(CheckKeepalive(b))) ELSE b
  /\ UNCHANGED <<config, reach, kills>>

-----------------------------------------------------------------------------
Restarting == pc = "restart" /\ pc' = "poll" /\ UNCHANGED <<config, reach, kills>>

\* restart_t = now + restart_timeout, and the next address
Schedule ==
  /\ Restarting
  /\ ~b.sock /\ ~b.waiting
  /\ LET e == NextAddress([b EXCEPT !.waiting = TRUE, !.restartIn = RestartTimeout + 1])
     IN  b' = IF ~roundRobin /\ e.cur # 0 THEN [e EXCEPT !.primaryIn = PrimaryRetry + 1] ELSE e

\* Mutant of RestartIsDue: the messages restart an automatic bridge.
RestartIsDueAutomatic ==
  /\ ~b.sock /\ b.waiting
  /\ startType = "automatic"
  /\ b.lazy \/ b.restartIn = 0

\* The messages restart a lazy bridge, the time an automatic one.
RestartIsDue ==
  /\ ~b.sock /\ b.waiting
  /\ \/ startType = "lazy" /\ b.lazy
     \/ startType = "automatic" /\ b.restartIn = 0

\* A failure at once goes to the next address, as the end of a connection does.
RestartBridge ==
  /\ Restarting
  /\ RestartIsDue
  /\ LET e == Connect([b EXCEPT !.waiting = FALSE])
     IN  b' = IF e.sock THEN e ELSE NextAddress(e)

NoRestart ==
  /\ Restarting
  /\ b.sock \/ (b.waiting /\ ~RestartIsDue)
  /\ UNCHANGED b

-----------------------------------------------------------------------------
Refuses == b.private /\ b.cur \in OldBrokers

\* mqtt3_handle_connack: CONNACK_REFUSED_PROTOCOL_VERSION or CONNACK_ACCEPTED
Connack ==
  IF Refuses THEN Disconnect([b EXCEPT !.private = FALSE])
  ELSE [b EXCEPT !.state = "connected", !.silence = 0, !.notice = "1"]

Answered ==
  IF b.state = "new" THEN Connack ELSE [b EXCEPT !.pinged = FALSE, !.silence = 0, !.msgs = 0]

\* loop_handle_reads_writes: what the socket has; with a PINGRESP come acknowledgements.  A
\* connection that was made outlives the name of its address, or ends with the way to it.
Heard ==
  (IF reach[b.cur] \in {"up", "unknown"} THEN {Answered} ELSE {})
    \cup (IF reach[b.cur] \in {"down", "unknown"} THEN {Disconnect(b)} ELSE {})

Elapse(e, second) ==
  [e EXCEPT !.restartIn = IF @ >= second THEN @ - second ELSE @,
            !.primaryIn = IF @ >= second THEN @ - second ELSE @,
            !.silence = IF e.sock THEN @ + second ELSE @]

Polling == pc = "poll" /\ pc' = "serve" /\ UNCHANGED <<config, reach, kills>>

PollReady ==
  /\ Polling
  /\ b.sock
  /\ \E heard \in Heard, second \in 0 .. 1 : b' = Elapse(heard, second)

\* The timeout of poll; an address that is up answers before a second has passed.
PollTimeout == Polling /\ UNCHANGED b

Tick ==
  /\ Polling
  /\ b.sock => reach[b.cur] # "up"
  /\ b' = Elapse(b, 1)

Loop == Serve \/ Schedule \/ RestartBridge \/ NoRestart \/ PollReady \/ PollTimeout \/ Tick

-----------------------------------------------------------------------------
\* An address comes or goes.
ReachChanges ==
  /\ pc = "poll"
  /\ \E a \in DOMAIN reach, r \in Faults \cup {"up"} : reach[a] # r /\ reach' = [reach EXCEPT ![a] = r]
  /\ UNCHANGED <<config, b, pc, kills>>

\* mqtt3_db_message_insert: a message for the bridge, of which only a lazy one takes notice.
Publish ==
  /\ pc = "poll" /\ startType = "lazy"
  /\ LET msgs == IF b.msgs < MaxMessages THEN b.msgs + 1 ELSE b.msgs
     IN  b' = [b EXCEPT !.msgs = msgs, !.lazy = @ \/ (~b.sock /\ msgs >= Threshold)]
  /\ UNCHANGED <<config, reach, pc, kills>>

\* The broker is killed and started again with what its file says.
Killed ==
  /\ pc = "poll" /\ kills < MaxKills
  /\ kills' = kills + 1
  /\ \E msgs \in 0 .. b.msgs, notice \in {"none", "0", "1"} : b' = Connect(New(msgs, notice))
  /\ pc' = "serve"
  /\ UNCHANGED <<config, reach>>

Next == Loop \/ ReachChanges \/ Publish \/ Killed

\* The loop goes on, time passes, and a broker that is there answers in the end.
Spec ==
  /\ Init /\ [][Next]_vars
  /\ WF_vars(Loop)
  /\ SF_vars(PollReady)
  /\ SF_vars(Tick)

-----------------------------------------------------------------------------
IsConnected == b.sock /\ b.state = "connected"

\* The retained notice says 1 exactly while the bridge is connected, however the
\* connection ended, and also after the broker was killed and its file says otherwise
\* (mqtt3_bridge_connect, mqtt3_handle_connack, mqtt3_context_send_will).
NoticeIsTrue == pc = "poll" => (b.notice = "1" <=> IsConnected)

Reachable(a) == <>[](reach[a] = "up")
NeverUnknown == <>[](\A a \in DOMAIN reach : reach[a] # "unknown")

\* With round_robin, an automatic bridge of which some address works in the end is connected
\* again and again, whatever the others do, if none fails at once (mosquitto_main_loop).
ComesBack ==
  \A a \in 0 .. Addresses - 1 :
    startType = "automatic" /\ roundRobin /\ NeverUnknown /\ Reachable(a) => []<>IsConnected

\* Without round_robin the bridge ends at its main address when that works for good, also
\* when it was connected to another one.
PrimaryIsRegained ==
  startType = "automatic" /\ ~roundRobin /\ NeverUnknown /\ Reachable(0) => <>[](IsConnected /\ b.cur = 0)

AllReachable == \A a \in 0 .. Addresses - 1 : Reachable(a)

\* When all addresses work, messages that keep coming start a lazy bridge, and start it again
\* whenever it is stopped, whatever has become of lazy_reconnect and of the messages before; a
\* message that has asked for it is enough (mqtt3_db_message_insert, mosquitto_main_loop).
LazyIsStarted ==
  startType = "lazy" /\ AllReachable /\ ([]<><<Publish>>_vars \/ []<>b.lazy) => []<>IsConnected

\* mosquitto.conf: "lazy" bridges "will be started automatically when the number of queued
\* messages exceeds the number set with the threshold parameter".  It does not hold: an
\* attempt that fails clears lazy_reconnect (mqtt3_bridge_connect), and the messages that
\* wait do not set it again.
LazyStartsByQueue == startType = "lazy" /\ AllReachable => [](b.msgs > Threshold => <>IsConnected)

\* mosquitto.conf of round_robin: "whilst connected to a secondary bridge, the bridge will
\* periodically attempt to reconnect to the main bridge until successful".  The connection does
\* not outlive the attempts: each one closes it, although the main address refuses
\* (mosquitto_main_loop takes a pending connection for made).
OthersAreKept ==
  startType = "automatic" /\ ~roundRobin
    /\ <>[](\A a \in 0 .. Addresses - 1 : reach[a] = IF a = 0 THEN "down" ELSE "up") => <>[]IsConnected
=============================================================================
