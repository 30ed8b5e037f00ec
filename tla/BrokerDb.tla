------------------------------ MODULE BrokerDb ------------------------------
(***************************************************************************)
(* The broker's store of messages and the queue of each client             *)
(* (database.c), as operators on a record                                  *)
(*   db = [store, last, kept, subs, ctx, out]                              *)
(* store: the messages by number, with their reference counts; last:       *)
(* last_db_id; kept: the number of the retained message of each topic, or  *)
(* 0; subs: the leaves of the subscriptions, [client, topic, qos], one for *)
(* each client and topic; ctx: the contexts; out: the packets sent to each *)
(* client.  There are no wildcards, as TopicRouting says what they mean.   *)
(* A loop of the code is a function of its rounds, pass[0] is the start.   *)
(***************************************************************************)
EXTENDS Naturals, SequencesExt

CONSTANTS
  Clients,
  Names,          \* the topics
  MaxInflight,    \* max_inflight_messages, 0 for no limit
  MaxQueued,      \* max_queued_messages, 0 for no limit
  QueueQos0,      \* queue_qos0_messages
  MaxMid,         \* the largest message identifier, 65535
  V31             \* the clients that speak MQTT 3.1 and not 3.1.1

ASSUME BrokerAssumption ==
  /\ {MaxInflight, MaxQueued, MaxMid} \subseteq Nat
  /\ MaxMid > 0
  /\ IsFiniteSet(Clients) /\ IsFiniteSet(Names)
  /\ QueueQos0 \in BOOLEAN
  /\ V31 \subseteq Clients

\* mqtt3_context_init
NewContext == [known |-> FALSE, sock |-> FALSE, clean |-> TRUE, will |-> <<>>,
               msgs |-> <<>>, n12 |-> 0, mid |-> 0]

\* mqtt3_db_open without a file
EmptyDb == [store |-> <<>>, last |-> 0, kept |-> [t \in Names |-> 0], subs |-> {},
            ctx |-> [c \in Clients |-> NewContext], out |-> [c \in Clients |-> <<>>]]

Packet(type, mid) == [type |-> type, mid |-> mid]

\* The functions _mosquitto_send_*: to a socket that is there.
Send(db, c, packet) ==
  IF db.ctx[c].sock THEN [db EXCEPT !.out[c] = Append(@, packet)] ELSE db

Ref(db, id) == [db EXCEPT !.store[id].refs = @ + 1]

\* mosquitto__db_msg_store_deref and _remove
Deref(db, id) ==
  IF db.store[id].refs = 1 THEN [db EXCEPT !.store = Restrict(@, DOMAIN @ \ {id})]
  ELSE [db EXCEPT !.store[id].refs = @ - 1]

\* mqtt3_db_message_store: the new message has the number `last`.
MessageStore(db, source, mid, m) ==
  LET id == db.last + 1
      stored == [refs |-> 0, source |-> source, smid |-> mid, dests |-> {}, m |-> m]
  IN  [db EXCEPT !.last = id, !.store = [i \in DOMAIN @ \cup {id} |-> IF i = id THEN stored ELSE @[i]]]

\* mqtt3_db_message_store_find: the number of the incoming message with this identifier, or 0
MessageStoreFind(db, c, mid) ==
  LET msgs == db.ctx[c].msgs
      found == {k \in DOMAIN msgs : msgs[k].dir = "in" /\ db.store[msgs[k].id].smid = mid}
  IN  IF found = {} THEN 0 ELSE msgs[Min(found)].id

\* _mosquitto_mid_generate
MidGenerate(mid) == IF mid = MaxMid THEN 1 ELSE mid + 1

PublishState == [qos \in 0 .. 2 |-> <<"publish_qos0", "publish_qos1", "publish_qos2">>[qos + 1]]

\* A queued message whose turn it is.
Started(m, incoming) ==
  IF m.state # "queued" THEN m
  ELSE IF m.dir = "out" THEN [m EXCEPT !.state = PublishState[m.qos]]
  ELSE IF m.qos = 2 THEN [m EXCEPT !.state = incoming]
  ELSE m

\* _message_remove, which starts the queued messages that are now at the head: all of
\* them, as it does not count.
MessageRemove(db, c, k) ==
  LET gone == db.ctx[c].msgs[k]
      rest == RemoveAt(db.ctx[c].msgs, k)
      AtHead(j) == MaxInflight > 0 /\ \A i \in 1 .. j : rest[i].state = "queued"
      msgs == [j \in DOMAIN rest |-> IF AtHead(j) THEN Started(rest[j], "send_pubrec") ELSE rest[j]]
      count == IF gone.qos > 0 THEN db.ctx[c].n12 - 1 ELSE db.ctx[c].n12
  IN  [Deref(db, gone.id) EXCEPT !.ctx[c] = [db.ctx[c] EXCEPT !.msgs = msgs, !.n12 = count]]

\* Starts the queued messages among the first n.
StartFirst(db, c, n) ==
  [db EXCEPT !.ctx[c].msgs = [j \in DOMAIN @ |-> IF j <= n THEN Started(@[j], "wait_for_pubrel") ELSE @[j]]]

Places(db, c, mid, dir) ==
  {k \in DOMAIN db.ctx[c].msgs : db.ctx[c].msgs[k].mid = mid /\ db.ctx[c].msgs[k].dir = dir}

Lower(a, b) == IF a < b THEN a ELSE b

\* mqtt3_db_message_delete, for identifiers that are not used twice
MessageDelete(db, c, mid, dir) ==
  IF Places(db, c, mid, dir) = {} THEN StartFirst(db, c, MaxInflight)
  ELSE LET k == Min(Places(db, c, mid, dir))
       IN  StartFirst(MessageRemove(StartFirst(db, c, Lower(k, MaxInflight)), c, k), c, MaxInflight)

\* The part of mqtt3_db_message_insert that links the message; fresh: its receivers are noted.
Linked(db, c, m, fresh) ==
  LET ctx == db.ctx[c]
      count == IF m.qos > 0 THEN ctx.n12 + 1 ELSE ctx.n12
      dests == IF fresh THEN db.store[m.id].dests \cup {c} ELSE db.store[m.id].dests
  IN  [Ref(db, m.id) EXCEPT
         !.ctx[c] = [ctx EXCEPT !.msgs = Append(ctx.msgs, m), !.n12 = count],
         !.store[m.id].dests = dests]

(***************************************************************************)
(* mqtt3_db_message_insert.  Result 0: will be sent; 2: queued, dropped or *)
(* not wanted.                                                             *)
(***************************************************************************)
Insert(db, c, mid, dir, qos, retain, id) ==
  LET ctx == db.ctx[c]
      fresh == dir = "out" /\ ~retain
      room == qos = 0 \/ MaxInflight = 0 \/ ctx.n12 < MaxInflight
      As(state) ==
        Linked(db, c, [mid |-> mid, dir |-> dir, state |-> state, qos |-> qos,
                       dup |-> FALSE, retain |-> retain, id |-> id], fresh)
      Result(new, rc) == [db |-> new, rc |-> rc]
  IN  IF fresh /\ c \in db.store[id].dests THEN Result(db, 0)
      ELSE IF ~ctx.sock /\ qos = 0 /\ ~QueueQos0 THEN Result(db, 2)
      ELSE IF ctx.sock /\ room
        THEN Result(As(IF dir = "out" THEN PublishState[qos] ELSE "wait_for_pubrel"), 0)
      ELSE IF ctx.sock /\ (MaxQueued = 0 \/ ctx.n12 < MaxQueued + MaxInflight)
        THEN Result(As("queued"), 2)
      ELSE IF ~ctx.sock /\ (MaxQueued = 0 \/ ctx.n12 < MaxQueued) THEN Result(As("queued"), 0)
      ELSE Result(db, 2)

\* Its use in _subs_process and _retain_process.
InsertOut(db, c, qos, retain, id) ==
  LET mid == IF qos > 0 THEN MidGenerate(db.ctx[c].mid) ELSE 0
      counted == IF qos > 0 THEN [db EXCEPT !.ctx[c].mid = mid] ELSE db
  IN  Insert(counted, c, mid, "out", qos, retain, id).db

\* The part of _subs_process that keeps a retained message.
Retain(db, id) ==
  LET m == db.store[id].m
      dropped == IF db.kept[m.topic] = 0 THEN db ELSE Deref(db, db.kept[m.topic])
  IN  IF m.empty THEN [dropped EXCEPT !.kept[m.topic] = 0]
      ELSE [Ref(dropped, id) EXCEPT !.kept[m.topic] = id]

\* _subs_process: the leaves get the message one after the other.  Their order says nothing, as
\* each is of another client.
SubsProcess(db, id, qos, leaves) ==
  LET pass[i \in 0 .. Len(leaves)] ==
        IF i = 0 THEN db
        ELSE InsertOut(pass[i - 1], leaves[i].client, Lower(qos, leaves[i].qos), FALSE, id)
  IN  pass[Len(leaves)]

\* mqtt3_db_messages_queue; leaves: who may get it, nobody when a file is read.
MessagesQueue(db, id, qos, retain, leaves) ==
  LET held == Ref(db, id)
      kept == IF retain THEN Retain(held, id) ELSE held
      asked == {leaf \in leaves : leaf.topic = db.store[id].m.topic}
  IN  Deref(SubsProcess(kept, id, qos, SetToSeq(asked)), id)

\* mqtt3_db_messages_easy_queue
EasyQueue(db, source, m) ==
  LET stored == MessageStore(db, source, 0, m)
  IN  MessagesQueue(stored, stored.last, m.qos, m.retain, db.subs)

\* StartFirst, with a PUBREC for each incoming message that it starts
Pubrecs(db, c, n) ==
  LET msgs == db.ctx[c].msgs
      pass[i \in 0 .. Lower(n, Len(msgs))] ==
        IF i = 0 THEN StartFirst(db, c, n)
        ELSE IF msgs[i].state = "queued" /\ msgs[i].dir = "in"
          THEN Send(pass[i - 1], c, Packet("pubrec", msgs[i].mid))
        ELSE pass[i - 1]
  IN  pass[Lower(n, Len(msgs))]

\* mqtt3_db_message_release; rc as in the code: 1 if there is no such message.
MessageRelease(db, c, mid) ==
  LET found == Places(db, c, mid, "in")
      k == Min(found)
      before == Pubrecs(db, c, IF found = {} THEN MaxInflight ELSE Lower(k, MaxInflight))
      msg == before.ctx[c].msgs[k]
      routed == MessagesQueue(before, msg.id, db.store[msg.id].m.qos, msg.retain, db.subs)
  IN  IF found = {} THEN before ELSE Pubrecs(MessageRemove(routed, c, k), c, MaxInflight)

\* mqtt3_db_message_update for a PUBREC
MessageUpdate(db, c, mid, state) ==
  [db EXCEPT !.ctx[c].msgs = [k \in DOMAIN @ |->
     IF k \in Places(db, c, mid, "out") THEN [@[k] EXCEPT !.state = state] ELSE @[k]]]

\* mqtt3_db_messages_delete
MessagesDelete(db, c) ==
  LET msgs == db.ctx[c].msgs
      pass[i \in 0 .. Len(msgs)] == IF i = 0 THEN db ELSE Deref(pass[i - 1], msgs[i].id)
  IN  [pass[Len(msgs)] EXCEPT !.ctx[c] = [@ EXCEPT !.msgs = <<>>, !.n12 = 0]]

\* msg_count12, as mqtt3_db_message_reconnect_reset counts anew
Count12(msgs) == Cardinality({k \in DOMAIN msgs : msgs[k].qos > 0})

\* mqtt3_db_message_reconnect_reset
ReconnectReset(msgs) ==
  LET Again(m) ==
        IF m.dir = "in" \/ m.state = "queued" THEN m
        ELSE IF m.state = "wait_for_pubcomp" THEN [m EXCEPT !.state = "resend_pubrel"]
        ELSE [m EXCEPT !.state = PublishState[m.qos]]
  IN  [k \in DOMAIN msgs |->
        IF msgs[k].state = "queued" /\ (MaxInflight = 0 \/ k <= MaxInflight)
        THEN [msgs[k] EXCEPT !.state = PublishState[msgs[k].qos]] ELSE Again(msgs[k])]

\* mqtt3_db_message_timeout_check, for a message that has waited for retry_interval
TimedOut(m) ==
  LET again == [wait_for_puback |-> "publish_qos1", wait_for_pubrec |-> "publish_qos2",
                wait_for_pubrel |-> "send_pubrec", wait_for_pubcomp |-> "resend_pubrel"]
  IN  IF m.state \in DOMAIN again THEN [m EXCEPT !.state = again[m.state], !.dup = TRUE] ELSE m

(***************************************************************************)
(* mqtt3_db_message_write walks over the queue once.  at: the message it   *)
(* is at; count: the incoming messages it has met.                         *)
(***************************************************************************)
WriteOne(w, c) ==
  LET m == w.db.ctx[c].msgs[w.at]
      count == IF m.dir = "in" THEN w.count + 1 ELSE w.count
      On(packet, state, dup) ==
        [db |-> [Send(w.db, c, packet) EXCEPT !.ctx[c].msgs[w.at] = [m EXCEPT !.state = state, !.dup = dup]],
         at |-> w.at + 1, count |-> count]
      publish == [type |-> "publish", mid |-> m.mid, qos |-> m.qos, dup |-> m.dup,
                  retain |-> m.retain, body |-> w.db.store[m.id].m.body]
  IN  CASE m.state = "publish_qos0" ->
             [db |-> MessageRemove(Send(w.db, c, publish), c, w.at), at |-> w.at, count |-> count]
        [] m.state = "publish_qos1" -> On(publish, "wait_for_puback", TRUE)
        [] m.state = "publish_qos2" -> On(publish, "wait_for_pubrec", TRUE)
        [] m.state = "send_pubrec" -> On(Packet("pubrec", m.mid), "wait_for_pubrel", m.dup)
        [] m.state = "resend_pubrel" -> On(Packet("pubrel", m.mid), "wait_for_pubcomp", m.dup)
        [] m.state = "queued" /\ m.dir = "in" /\ (MaxInflight = 0 \/ count < MaxInflight) ->
             [db |-> [w.db EXCEPT !.ctx[c].msgs[w.at].state = "send_pubrec"], at |-> w.at, count |-> count]
        [] OTHER -> [db |-> w.db, at |-> w.at + 1, count |-> count]

MessageWrite(db, c) ==
  LET rounds == 2 * Len(db.ctx[c].msgs)
      pass[i \in 0 .. rounds] ==
        IF i = 0 THEN [db |-> db, at |-> 1, count |-> 0]
        ELSE IF pass[i - 1].at > Len(pass[i - 1].db.ctx[c].msgs) THEN pass[i - 1]
        ELSE WriteOne(pass[i - 1], c)
  IN  pass[rounds].db
=============================================================================
