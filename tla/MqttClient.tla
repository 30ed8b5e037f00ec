----------------------------- MODULE MqttClient -----------------------------
(***************************************************************************)
(* The client library (lib/): the functions of messages_mosq.c,            *)
(* mosquitto.c and the handlers of read_handle*.c as operators on a record *)
(*   cl = [sock, state, ping, mid, in, out, inflight, packets, got]        *)
(* sock: there is a connection; state: mosq_cs_new or _connected; ping:    *)
(* ping_t is set; in, out: the lists of messages, whose field due says     *)
(* that message_retry has passed since their timestamp; inflight:          *)
(* inflight_messages; packets: out_packet and what the socket has not      *)
(* delivered; got: the messages handed to on_message.                      *)
(***************************************************************************)
EXTENDS Naturals, SequencesExt

CONSTANTS
  MaxClientInflight,    \* max_inflight_messages, 20
  MaxClientMid          \* 65535

ASSUME ClientAssumption == {MaxClientInflight, MaxClientMid} \subseteq Nat \ {0}

\* mosquitto_new with mosquitto_reinitialise
NewClient ==
  [sock |-> FALSE, state |-> "new", ping |-> FALSE, mid |-> 0, in |-> <<>>, out |-> <<>>,
   inflight |-> 0, packets |-> <<>>, got |-> <<>>]

\* _mosquitto_packet_queue
PacketQueue(cl, packet) == [cl EXCEPT !.packets = Append(@, packet)]

Answer(type, mid) == [type |-> type, mid |-> mid]

\* _mosquitto_send_publish, which needs a connection.
SendPublish(cl, m) ==
  IF cl.sock THEN PacketQueue(cl, [type |-> "publish", mid |-> m.mid, qos |-> m.qos, body |-> m.body]) ELSE cl

\* _mosquitto_mid_generate
NextMid(mid) == IF mid = MaxClientMid THEN 1 ELSE mid + 1

WaitsFor(qos) == IF qos = 1 THEN "wait_for_puback" ELSE "wait_for_pubrec"

\* _mosquitto_message_queue for an outgoing message, with the state mosquitto_publish gives it.
MessageQueue(cl, mid, qos, body) ==
  LET starts == cl.inflight < MaxClientInflight
      message == [mid |-> mid, qos |-> qos, body |-> body, due |-> FALSE,
                  state |-> IF starts THEN WaitsFor(qos) ELSE "invalid"]
  IN  [cl EXCEPT !.out = Append(@, message), !.inflight = IF starts THEN @ + 1 ELSE @]

\* Mutant of ResetState: a message of QoS 2 starts its exchange anew.
ResetStateAnew(m, i) == IF i > MaxClientInflight THEN "invalid" ELSE WaitsFor(m.qos)

\* What _mosquitto_messages_reconnect_reset makes of the i-th message.
ResetState(m, i) ==
  IF i > MaxClientInflight THEN "invalid" ELSE IF m.qos = 1 THEN "wait_for_puback" ELSE m.state

(***************************************************************************)
(* _mosquitto_messages_reconnect_reset: every message will be sent again   *)
(* at once (timestamp = 0); those in flight are the first ones, and what a *)
(* message of QoS 2 waits for is preserved.                                *)
(***************************************************************************)
MessagesReset(cl) ==
  [cl EXCEPT !.in = [i \in DOMAIN @ |-> [@[i] EXCEPT !.due = TRUE]],
             !.out = [i \in DOMAIN @ |-> [@[i] EXCEPT !.due = TRUE, !.state = ResetState(cl.out[i], i)]],
             !.inflight = IF Len(cl.out) < MaxClientInflight THEN Len(cl.out) ELSE MaxClientInflight]

\* _mosquitto_reconnect up to _mosquitto_socket_connect
StartReconnect(cl) == MessagesReset([cl EXCEPT !.packets = <<>>, !.ping = FALSE, !.state = "new"])

\* _mosquitto_socket_close.  The packets stay until the next _mosquitto_reconnect.
SocketClose(cl) == [cl EXCEPT !.sock = FALSE]

Found(list, mid) == {i \in DOMAIN list : list[i].mid = mid}

\* _mosquitto_message_remove for an outgoing message starts those that are waiting.
StartNext(cl, i) ==
  LET m == cl.out[i]
  IN  IF m.state = "invalid" /\ cl.inflight < MaxClientInflight
      THEN SendPublish([cl EXCEPT !.out[i].state = WaitsFor(m.qos), !.inflight = @ + 1], m)
      ELSE cl

MessageOutRemove(cl, mid) ==
  IF Found(cl.out, mid) = {} THEN cl
  ELSE LET rest == [cl EXCEPT !.out = RemoveAt(@, Min(Found(@, mid))), !.inflight = @ - 1]
       IN  FoldLeft(StartNext, rest, [i \in DOMAIN rest.out |-> i])

\* Handing a message to on_message
OnMessage(cl, body) == [cl EXCEPT !.got = Append(@, body)]

\* Mutant of ClientPublish: a message of QoS 2 is answered but not kept.
ClientPublishForgets(cl, packet) ==
  CASE packet.qos = 0 -> OnMessage(cl, packet.body)
    [] packet.qos = 1 -> OnMessage(PacketQueue(cl, Answer("puback", packet.mid)), packet.body)
    [] packet.qos = 2 -> PacketQueue(cl, Answer("pubrec", packet.mid))

\* _mosquitto_handle_publish
ClientPublish(cl, packet) ==
  CASE packet.qos = 0 -> OnMessage(cl, packet.body)
    [] packet.qos = 1 -> OnMessage(PacketQueue(cl, Answer("puback", packet.mid)), packet.body)
    [] packet.qos = 2 ->
         [PacketQueue(cl, Answer("pubrec", packet.mid)) EXCEPT
            !.in = Append(@, [mid |-> packet.mid, body |-> packet.body, due |-> FALSE])]

\* _mosquitto_handle_pubackcomp
ClientPubackcomp(cl, mid) == MessageOutRemove(cl, mid)

\* Mutant of ClientPubrec: the message is given up.
ClientPubrecRemoves(cl, mid) == PacketQueue(MessageOutRemove(cl, mid), Answer("pubrel", mid))

\* _mosquitto_handle_pubrec: PUBREL is sent for an unknown message too.
ClientPubrec(cl, mid) ==
  LET found == Found(cl.out, mid)
      updated == IF found = {} THEN cl
                 ELSE [cl EXCEPT !.out[Min(found)] = [@ EXCEPT !.state = "wait_for_pubcomp", !.due = FALSE]]
  IN  PacketQueue(updated, Answer("pubrel", mid))

\* _mosquitto_handle_pubrel: the first message with this identifier is handed over, once.
ClientPubrel(cl, mid) ==
  LET found == Found(cl.in, mid)
      handed == IF found = {} THEN cl
                ELSE [OnMessage(cl, cl.in[Min(found)].body) EXCEPT !.in = RemoveAt(@, Min(found))]
  IN  PacketQueue(handed, Answer("pubcomp", mid))

\* _mosquitto_packet_handle
ClientHandle(cl, packet) ==
  CASE packet.type = "connack" -> [cl EXCEPT !.state = "connected"]
    [] packet.type = "pingresp" -> [cl EXCEPT !.ping = FALSE]
    [] packet.type = "publish" -> ClientPublish(cl, packet)
    [] packet.type \in {"puback", "pubcomp"} -> ClientPubackcomp(cl, packet.mid)
    [] packet.type = "pubrec" -> ClientPubrec(cl, packet.mid)
    [] packet.type = "pubrel" -> ClientPubrel(cl, packet.mid)
    [] packet.type = "suback" -> cl

\* Mutant of RetryOut: PUBREL is not repeated.
RetryOutPublish(cl, i) ==
  LET m == cl.out[i]
      sent == [cl EXCEPT !.out[i].due = FALSE]
  IN  IF ~m.due \/ m.state = "invalid" THEN cl
      ELSE IF m.state = "wait_for_pubcomp" THEN sent
      ELSE SendPublish(sent, m)

\* _mosquitto_message_retry_check
RetryOut(cl, i) ==
  LET m == cl.out[i]
      sent == [cl EXCEPT !.out[i].due = FALSE]
  IN  CASE ~m.due \/ m.state = "invalid" -> cl
        [] m.due /\ m.state = "wait_for_pubcomp" -> PacketQueue(sent, Answer("pubrel", m.mid))
        [] OTHER -> SendPublish(sent, m)

RetryIn(cl, i) ==
  IF cl.in[i].due THEN PacketQueue([cl EXCEPT !.in[i].due = FALSE], Answer("pubrec", cl.in[i].mid)) ELSE cl

RetryCheck(cl) ==
  FoldLeft(RetryIn, FoldLeft(RetryOut, cl, [i \in DOMAIN cl.out |-> i]), [i \in DOMAIN cl.in |-> i])
=============================================================================
