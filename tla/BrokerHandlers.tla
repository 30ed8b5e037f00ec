--------------------------- MODULE BrokerHandlers ---------------------------
(***************************************************************************)
(* The handlers of the broker's packets (read_handle.c,                    *)
(* read_handle_server.c, read_handle_shared.c) and its contexts            *)
(* (context.c, do_disconnect of loop.c), as operators on the record of     *)
(* BrokerDb.  A message is [topic, qos, retain, empty, body].              *)
(***************************************************************************)
EXTENDS BrokerDb

\* mqtt3_subs_clean_session
SubsCleanSession(db, c) == [db EXCEPT !.subs = {leaf \in @ : leaf.client # c}]

\* mqtt3_context_cleanup
ContextCleanup(db, c) == [MessagesDelete(SubsCleanSession(db, c), c) EXCEPT !.ctx[c] = NewContext]

\* mqtt3_context_send_will
ContextSendWill(db, c) ==
  LET will == db.ctx[c].will
      sent == IF will = <<>> THEN db ELSE EasyQueue(db, c, Head(will))
  IN  [sent EXCEPT !.ctx[c].will = <<>>]

\* do_disconnect with mqtt3_context_disconnect.  The will goes out before the socket is
\* closed.  A context with a clean session is freed at the start of the next round
\* (mosquitto__free_disused_contexts); without an identifier it gets nothing until then.
DoDisconnect(db, c) ==
  LET closed == [ContextSendWill(db, c) EXCEPT !.ctx[c].sock = FALSE]
  IN  IF db.ctx[c].clean THEN ContextCleanup(closed, c) ELSE closed

\* mqtt3_handle_disconnect: mosq_cs_disconnecting drops the will.
HandleDisconnect(db, c) == DoDisconnect([db EXCEPT !.ctx[c].will = <<>>], c)

\* Mutant of TakeOver: last_mid starts anew.
TakeOverNoMid(found, fresh) ==
  LET msgs == ReconnectReset(found.msgs)
  IN  [fresh EXCEPT !.msgs = msgs, !.n12 = Count12(msgs)]

\* Mutant of TakeOver: the messages that wait are not counted again.
TakeOverUncounted(found, fresh) ==
  [fresh EXCEPT !.msgs = ReconnectReset(found.msgs), !.mid = found.mid]

\* The session that a persistent client finds again.
TakeOver(found, fresh) ==
  LET msgs == ReconnectReset(found.msgs)
  IN  [fresh EXCEPT !.msgs = msgs, !.mid = found.mid, !.n12 = Count12(msgs)]

\* Mutant of GoesOn: the session of a connection that is still open is lost.
GoesOnIfClosed(found, clean) == found.known /\ ~found.sock /\ ~clean /\ ~found.clean

\* mqtt3_handle_connect: a session goes on if neither the old nor the new one is clean.
GoesOn(found, clean) == found.known /\ ~clean /\ ~found.clean

(***************************************************************************)
(* mqtt3_handle_connect on a new socket, also while an old one is open.    *)
(* The context that is found is closed without its will.                   *)
(***************************************************************************)
HandleConnect(db, c, clean, will) ==
  LET found == db.ctx[c]
      fresh == [NewContext EXCEPT !.known = TRUE, !.sock = TRUE, !.clean = clean, !.will = will]
      old == IF GoesOn(found, clean) THEN db ELSE ContextCleanup(db, c)
      new == [old EXCEPT !.ctx[c] = IF GoesOn(found, clean) THEN TakeOver(found, fresh) ELSE fresh]
  IN  Send(new, c, [type |-> "connack", present |-> found.known /\ ~clean /\ c \notin V31])

\* mqtt3_handle_publish, of a message that its sender may publish and that is not too large
HandlePublish(db, c, mid, m) ==
  LET known == IF m.qos = 0 THEN 0 ELSE MessageStoreFind(db, c, mid)
      stored == IF known = 0 THEN MessageStore(db, c, mid, m) ELSE db
      id == IF known = 0 THEN stored.last ELSE known
      queued == MessagesQueue(stored, id, m.qos, m.retain, db.subs)
      inserted == Insert(stored, c, mid, "in", 2, m.retain, id)
  IN  CASE m.qos = 0 -> queued
        [] m.qos = 1 -> Send(queued, c, Packet("puback", mid))
        [] m.qos = 2 /\ known = 0 /\ inserted.rc # 0 -> inserted.db
        [] m.qos = 2 /\ known = 0 -> Send(inserted.db, c, Packet("pubrec", mid))
        [] OTHER -> Send(db, c, Packet("pubrec", mid))

\* _mosquitto_handle_pubrel, also for an unknown message
HandlePubrel(db, c, mid) == Send(MessageRelease(db, c, mid), c, Packet("pubcomp", mid))

\* _mosquitto_handle_pubackcomp
HandlePubackcomp(db, c, mid) == MessageDelete(db, c, mid, "out")

\* _mosquitto_handle_pubrec
HandlePubrec(db, c, mid) ==
  Send(MessageUpdate(db, c, mid, "wait_for_pubcomp"), c, Packet("pubrel", mid))

\* _mosquitto_handle_pingreq
HandlePingreq(db, c) == Send(db, c, Packet("pingresp", 0))

\* mqtt3_sub_add: a leaf that is there gets the new QoS.
SubAdd(db, c, topic, qos) ==
  [db EXCEPT !.subs = {leaf \in @ : leaf.client # c \/ leaf.topic # topic}
                        \cup {[client |-> c, topic |-> topic, qos |-> qos]}]

\* mqtt3_handle_subscribe.  With MQTT 3.1 the retained message is sent once, for a new leaf.
HandleSubscribe(db, c, mid, topic, qos) ==
  LET added == SubAdd(db, c, topic, qos)
      again == c \in V31 /\ \E leaf \in db.subs : leaf.client = c /\ leaf.topic = topic
      kept == IF again THEN 0 ELSE db.kept[topic]
      told == IF kept = 0 THEN added
              ELSE InsertOut(added, c, Lower(db.store[kept].m.qos, qos), TRUE, kept)
  IN  Send(told, c, Packet("suback", mid))

\* mqtt3_handle_unsubscribe
HandleUnsubscribe(db, c, mid, topic) ==
  Send([db EXCEPT !.subs = {leaf \in @ : leaf.client # c \/ leaf.topic # topic}],
       c, Packet("unsuback", mid))
=============================================================================
