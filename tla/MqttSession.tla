----------------------------- MODULE MqttSession -----------------------------
(***************************************************************************)
(* The client "t" of the tracker program and the broker, over a connection *)
(* that may be lost, at once or without notice.  The thread of the client  *)
(* library (thread_mosq.c) reads, retries and connects again; the report   *)
(* thread of the program publishes and has subscribed once; the broker     *)
(* reads, writes, retries and notices the end of the connection.  "e"      *)
(* stands for everybody else: it takes what t publishes, and sends the     *)
(* commands.                                                               *)
(***************************************************************************)
EXTENDS BrokerHandlers, MqttClient, FiniteSetsExt

CONSTANTS
  Qos,            \* of the publications and commands
  SubscribedQos,
  MaxMessages,    \* bound on the publications and the commands
  MaxLosses,      \* bound on the connections that are lost
  MaxFaults       \* bound on these and on answers that come too late

VARIABLES
  clean,          \* clean_session of mosquitto_new
  cl,             \* the client
  connecting,     \* where _mosquitto_reconnect is: done, before or after the socket is opened
  sending,        \* the report thread is between mosquitto_publish and _mosquitto_send_publish
  subscribed,     \* it has called mosquitto_subscribe
  conn,           \* the connection: none, up, or broken without notice
  bound,          \* the broker has seen CONNECT on it
  down,           \* the packets on their way to the client
  db,             \* the broker
  said,           \* history: the topic and QoS of each publication and command
  owed,           \* history: the commands with QoS 1 or 2 for the session of t
  overtaken,      \* history: the publications answered while the report thread was sending them
  losses, ages    \* history

clientVars == <<cl, connecting>>
programVars == <<sending, subscribed, overtaken>>
linkVars == <<conn, bound, down>>
brokerVars == <<db, owed>>
bounds == <<losses, ages>>
vars == <<clean, clientVars, programVars, linkVars, brokerVars, said, bounds>>

t == "t"
e == "e"
Commands == "commands"
Reports == "reports"

Init ==
  /\ clean \in BOOLEAN
  /\ cl = NewClient /\ connecting = "done"
  /\ sending = <<>> /\ subscribed = FALSE /\ said = <<>> /\ overtaken = {}
  /\ conn = "none" /\ bound = FALSE /\ down = <<>>
  /\ db = SubAdd([EmptyDb EXCEPT !.ctx[e].known = TRUE, !.ctx[e].clean = FALSE], e, Reports, 2)
  /\ owed = {}
  /\ losses = 0 /\ ages = 0

(***************************************************************************)
(* The thread of the library: mosquitto_loop_forever                       *)
(***************************************************************************)
\* What is written to a broken connection vanishes.
Client(new) == cl' = IF conn = "broken" THEN [new EXCEPT !.packets = <<>>] ELSE new

ReconnectStart ==
  /\ ~cl.sock /\ connecting = "done"
  /\ cl' = StartReconnect(cl) /\ connecting' = "opening"
  /\ UNCHANGED <<clean, programVars, linkVars, brokerVars, said, bounds>>

Open ==
  /\ connecting = "opening"
  /\ cl' = [cl EXCEPT !.sock = TRUE] /\ connecting' = "open"
  /\ conn' = "up" /\ bound' = FALSE /\ down' = <<>>
  /\ UNCHANGED <<clean, programVars, brokerVars, said, bounds>>

SendConnect ==
  /\ connecting = "open"
  /\ Client(PacketQueue(cl, Answer("connect", 0))) /\ connecting' = "done"
  /\ UNCHANGED <<clean, programVars, linkVars, brokerVars, said, bounds>>

Looping == cl.sock /\ connecting = "done"

Answers(packet, m) == packet.type \in {"puback", "pubrec", "pubcomp"} /\ packet.mid = m.mid

\* mosquitto_loop_read
ClientRead ==
  /\ Looping
  /\ down # <<>>
  /\ Client(ClientHandle(cl, Head(down)))
  /\ overtaken' = overtaken \cup {m.body : m \in {x \in ToSet(sending) : Answers(Head(down), x)}}
  /\ down' = Tail(down)
  /\ UNCHANGED <<clean, connecting, sending, subscribed, conn, bound, brokerVars, said, bounds>>

\* mosquitto_loop_misc: last_retry_check
Retry ==
  /\ Looping
  /\ \E new \in {RetryCheck(cl)} \ {cl} : Client(new)
  /\ UNCHANGED <<clean, connecting, programVars, linkVars, brokerVars, said, bounds>>

Close ==
  /\ cl' = [SocketClose(cl) EXCEPT !.packets = <<>>]
  /\ conn' = "none" /\ bound' = FALSE /\ down' = <<>>

\* Mutant of Keepalive: an answer to the ping that does not come is not noticed.
KeepaliveForgets ==
  /\ Looping
  /\ cl.packets = <<>> /\ down = <<>>
  /\ \/ /\ cl.state = "connected" /\ ~cl.ping
        /\ Client([PacketQueue(cl, Answer("pingreq", 0)) EXCEPT !.ping = TRUE])
        /\ UNCHANGED linkVars
     \/ /\ cl.state # "connected"
        /\ Close
  /\ UNCHANGED <<clean, connecting, programVars, brokerVars, said, bounds>>

\* _mosquitto_check_keepalive: nothing has been sent or received for keepalive seconds, which
\* is longer than an answer takes.
Keepalive ==
  /\ Looping
  /\ cl.packets = <<>> /\ down = <<>>
  /\ \/ /\ cl.state = "connected" /\ ~cl.ping
        /\ Client([PacketQueue(cl, Answer("pingreq", 0)) EXCEPT !.ping = TRUE])
        /\ UNCHANGED linkVars
     \/ /\ cl.state # "connected" \/ cl.ping
        /\ Close
  /\ UNCHANGED <<clean, connecting, programVars, brokerVars, said, bounds>>

(***************************************************************************)
(* The report thread, which subscribes before it publishes                 *)
(***************************************************************************)
\* mosquitto_subscribe
Subscribe ==
  /\ ~subscribed /\ cl.sock
  /\ LET mid == NextMid(cl.mid)
     IN  Client([PacketQueue(cl, Answer("subscribe", mid)) EXCEPT !.mid = mid])
  /\ subscribed' = TRUE
  /\ UNCHANGED <<clean, connecting, sending, overtaken, linkVars, brokerVars, said, bounds>>

\* mosquitto_publish, until it unlocks out_message_mutex
Publish(qos) ==
  LET mid == NextMid(cl.mid)
      message == [mid |-> mid, qos |-> qos, body |-> Len(said) + 1]
      queued == MessageQueue(cl, mid, qos, message.body)
      new == IF qos = 0 THEN cl ELSE queued
  IN  /\ subscribed /\ sending = <<>> /\ Len(said) < MaxMessages
      /\ cl' = [new EXCEPT !.mid = mid]
      /\ sending' = IF qos = 0 \/ queued.inflight > cl.inflight THEN <<message>> ELSE <<>>
      /\ said' = Append(said, [topic |-> Reports, qos |-> qos])
      /\ UNCHANGED <<clean, connecting, subscribed, overtaken, linkVars, brokerVars, bounds>>

\* _mosquitto_send_publish
PublishSend ==
  /\ sending # <<>>
  /\ Client(SendPublish(cl, Head(sending))) /\ sending' = <<>>
  /\ UNCHANGED <<clean, connecting, subscribed, overtaken, said, linkVars, brokerVars, bounds>>

(***************************************************************************)
(* The broker                                                              *)
(***************************************************************************)
Queued(d) == {d.store[m.id].m.body : m \in {x \in ToSet(d.ctx[t].msgs) : x.dir = "out" /\ x.qos > 0}}
HasSession(d) == \E leaf \in d.subs : leaf.client = t

\* A step of the broker: what it sends goes to the connection it has with t, if that works.
BrokerStep(new) ==
  /\ db' = [new EXCEPT !.out = [c \in Clients |-> <<>>]]
  /\ down' = IF bound' /\ conn' = "up" THEN down \o new.out[t] ELSE down
  /\ owed' = IF HasSession(new) THEN owed ELSE {}

Message(topic, qos, body) == [topic |-> topic, qos |-> qos, retain |-> FALSE, empty |-> FALSE, body |-> body]

\* mqtt3_packet_handle
Handled(packet) ==
  CASE packet.type = "connect" -> HandleConnect(db, t, clean, <<>>)
    [] packet.type = "subscribe" -> HandleSubscribe(db, t, packet.mid, Commands, SubscribedQos)
    [] packet.type = "publish" -> HandlePublish(db, t, packet.mid, Message(Reports, packet.qos, packet.body))
    [] packet.type = "pingreq" -> HandlePingreq(db, t)
    [] packet.type \in {"puback", "pubcomp"} -> HandlePubackcomp(db, t, packet.mid)
    [] packet.type = "pubrec" -> HandlePubrec(db, t, packet.mid)
    [] packet.type = "pubrel" -> HandlePubrel(db, t, packet.mid)

\* _mosquitto_packet_read: the first packet of a connection must be CONNECT.
BrokerRead ==
  /\ conn = "up" /\ cl.packets # <<>>
  /\ LET packet == Head(cl.packets)
     IN  \/ /\ bound \/ packet.type = "connect"
            /\ bound' = TRUE
            /\ cl' = [cl EXCEPT !.packets = Tail(@)]
            /\ UNCHANGED <<conn, connecting>>
            /\ \E new \in {Handled(packet)} : BrokerStep(new)
         \/ /\ ~bound /\ packet.type # "connect"
            /\ Close
            /\ connecting' = "done"
            /\ UNCHANGED <<db, owed>>
  /\ UNCHANGED <<clean, programVars, said, bounds>>

ToBeSent == {"publish_qos0", "publish_qos1", "publish_qos2", "send_pubrec", "resend_pubrel"}

\* mosquitto_main_loop: mqtt3_db_message_write
BrokerWrite ==
  /\ db.ctx[t].sock
  /\ UNCHANGED <<conn, bound>>
  /\ \E new \in {MessageWrite(db, t)} \ {db} : BrokerStep(new)
  /\ UNCHANGED <<clean, clientVars, programVars, said, bounds>>

\* do_disconnect, after an error or when nothing was heard for long
BrokerNotices ==
  /\ db.ctx[t].sock /\ ~bound
  /\ UNCHANGED <<conn, bound>>
  /\ \E new \in {DoDisconnect(db, t)} : BrokerStep(new)
  /\ UNCHANGED <<clean, clientVars, programVars, said, bounds>>

\* A command of another client (mqtt3_db_messages_easy_queue)
Command(qos) ==
  LET new == EasyQueue(db, e, Message(Commands, qos, Len(said) + 1))
  IN  /\ Len(said) < MaxMessages
      /\ said' = Append(said, [topic |-> Commands, qos |-> qos])
      /\ db' = new
      /\ owed' = owed \cup (Queued(new) \ Queued(db))
      /\ UNCHANGED <<clean, clientVars, programVars, linkVars, bounds>>

(***************************************************************************)
(* The connection, and time                                                *)
(***************************************************************************)
Lose ==
  /\ conn = "up" /\ losses < MaxLosses /\ losses + ages < MaxFaults
  /\ losses' = losses + 1
  /\ \/ Close /\ connecting' = "done"
     \/ /\ conn' = "broken" /\ bound' = FALSE /\ down' = <<>>
        /\ cl' = [cl EXCEPT !.packets = <<>>]
        /\ UNCHANGED connecting
  /\ UNCHANGED <<clean, programVars, brokerVars, said, ages>>

\* message_retry or retry_interval passes before an answer has arrived.
Age ==
  /\ losses + ages < MaxFaults
  /\ ages' = ages + 1
  /\ \/ /\ \E i \in DOMAIN cl.out : cl' = [cl EXCEPT !.out[i].due = TRUE]
        /\ UNCHANGED db
     \/ /\ \E i \in DOMAIN cl.in : cl' = [cl EXCEPT !.in[i].due = TRUE]
        /\ UNCHANGED db
     \/ /\ db.ctx[t].sock
        /\ \E k \in DOMAIN db.ctx[t].msgs : db' = [db EXCEPT !.ctx[t].msgs[k] = TimedOut(@)]
        /\ UNCHANGED cl
  /\ UNCHANGED <<clean, connecting, programVars, linkVars, owed, said, losses>>

AllDue(list) == [i \in DOMAIN list |-> [list[i] EXCEPT !.due = TRUE]]

\* The same for messages whose answer will not come.
Late ==
  /\ conn = "up" /\ bound /\ cl.packets = <<>> /\ down = <<>>
  /\ db' = [db EXCEPT !.ctx[t].msgs = [k \in DOMAIN @ |-> TimedOut(@[k])]]
  /\ cl' = [cl EXCEPT !.in = AllDue(@), !.out = AllDue(@)]
  /\ UNCHANGED <<clean, connecting, programVars, linkVars, owed, said, bounds>>

Next ==
  \/ ReconnectStart \/ Open \/ SendConnect \/ ClientRead \/ Retry \/ Keepalive
  \/ Subscribe \/ PublishSend
  \/ \E qos \in Qos : Publish(qos) \/ Command(qos)
  \/ BrokerRead \/ BrokerWrite \/ BrokerNotices
  \/ Lose \/ Age \/ Late

Arrived == Looping /\ down # <<>>
Due == Looping /\ \E m \in ToSet(cl.in) \cup {x \in ToSet(cl.out) : x.state # "invalid"} : m.due
Readable == conn = "up" /\ cl.packets # <<>>
Writable == db.ctx[t].sock /\ \E m \in ToSet(db.ctx[t].msgs) : m.state \in ToBeSent

\* The thread of the library and the broker run for ever, a function that was called goes on.
Spec ==
  /\ Init /\ [][Next]_vars
  /\ WF_vars(ReconnectStart) /\ WF_vars(Open) /\ WF_vars(SendConnect)
  /\ WF_vars(Keepalive) /\ WF_vars(PublishSend)
  /\ ([]<>~Arrived \/ []<><<ClientRead>>_vars) /\ ([]<>~Due \/ []<><<Retry>>_vars)
  /\ ([]<>~Readable \/ []<><<BrokerRead>>_vars) /\ ([]<>~Writable \/ []<><<BrokerWrite>>_vars)
  /\ WF_vars(BrokerNotices) /\ SF_vars(Late)
-----------------------------------------------------------------------------
Bodies == 1 .. MaxMessages

Outgoing == {m.body : m \in ToSet(cl.out)}
Reported == {b \in DOMAIN said : said[b].topic = Reports}
PassedOn(body) ==
  Len(SelectSeq(db.ctx[e].msgs, LAMBDA m : db.store[m.id].m.body = body))

\* A publication of QoS 1 is in the queue of the client until the broker has passed it on,
\* whatever connections are lost; one of QoS 2 too, if the session is not clean.
NothingIsLost ==
  \A b \in Reported : said[b].qos \in (IF clean THEN {1} ELSE {1, 2}) => b \in Outgoing \/ PassedOn(b) > 0

\* The broker passes on a publication of QoS 0 or 2 once, unless the thread that publishes it
\* is still sending it when the library's thread has sent it already.
PassedOnOnce ==
  \A b \in Reported : said[b].qos \in {0, 2} /\ b \notin overtaken => PassedOn(b) <= 1

\* A command that the broker has taken for the session of t is in its queue until the client
\* has it.
CommandsAreKept == owed \subseteq Queued(db) \cup {m.body : m \in ToSet(cl.in)} \cup ToSet(cl.got)

\* mqtt(7) of QoS 2: "deliver the message exactly once".  It does not hold for the commands:
\* the library keeps a message that comes again beside the first one, and hands over one for
\* each PUBREL (_mosquitto_handle_publish, _mosquitto_handle_pubrel).
ReceivedOnce ==
  \A b \in DOMAIN said :
    said[b].topic = Commands /\ said[b].qos = 2 => Len(SelectSeq(cl.got, LAMBDA x : x = b)) <= 1

\* Every publication of QoS 1 or 2 is acknowledged in the end.
EventuallyAcknowledged == \A b \in Bodies : b \in Outgoing ~> b \notin Outgoing

\* Every command for a session is received, unless the session ends.
EventuallyReceived ==
  \A b \in Bodies : b \in owed ~> b \in ToSet(cl.got) \/ b \notin owed
=============================================================================
