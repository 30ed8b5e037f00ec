------------------------------- MODULE Broker -------------------------------
(***************************************************************************)
(* The broker: its main loop (loop.c), which calls the handlers, and its   *)
(* file (persist.c).  The broker has one thread, so a handler is a step.   *)
(* The clients are any that keep to the protocol; their connections come   *)
(* and go, and the broker may be killed at any moment and started again.   *)
(***************************************************************************)
EXTENDS BrokerHandlers, Admission

CONSTANTS
  Publishers,
  Subscribers,
  Publications,    \* what may be published: [topic, qos, retain, empty]
  ConnectPackets,  \* the CONNECT packets, as in Admission
  MaxBody,         \* bound on the number of publications
  MaxLost          \* bound on the number of steps between a backup and a crash

\* What may be published, and left as a will
Publication == [topic : Names, qos : 0 .. 2, retain : BOOLEAN, empty : BOOLEAN]

ASSUME ClientsAssumption ==
  /\ Publishers \cup Subscribers \subseteq Clients
  /\ Publications \subseteq Publication
  /\ \A p \in ConnectPackets :
       /\ p.clean \in BOOLEAN
       /\ p.will # <<>> => \E will \in Publication : p.will = <<will>>
  /\ {MaxBody, MaxLost} \subseteq Nat

\* A client keeps its version of the protocol.
ASSUME VersionAssumption == \A p \in ConnectPackets : V311(p) <=> ClientId(p) \notin V31

VARIABLES
  db,
  disk,      \* the file of the last backup; <<>> if there is none
  saved,     \* history: the state that was saved in it
  lost,      \* the number of steps since then
  body       \* the number of the last publication

brokerVars == <<db, disk, saved, lost, body>>

Init ==
  /\ db = EmptyDb
  /\ disk = <<>> /\ saved = <<>> /\ lost = 0
  /\ body = 0

\* A step of the broker; what it has sent is nothing that it remembers.
Becomes(new) ==
  /\ disk # <<>> => lost < MaxLost
  /\ lost' = IF disk = <<>> THEN 0 ELSE lost + 1
  /\ db' = [new EXCEPT !.out = [c \in Clients |-> <<>>]]
  /\ UNCHANGED <<disk, saved>>

Connected(c) == db.ctx[c].sock
Message(p) ==
  [topic |-> p.topic, qos |-> p.qos, retain |-> p.retain, empty |-> p.empty, body |-> body + 1]
NewPublication == body < MaxBody /\ body' = body + 1

Accepted == {p \in ConnectPackets : Verdict(p) = 0}

\* The bound MaxMid: each client has n identifiers left.  The code starts again after 65535.
IdentifiersLeft(n) == \A c \in Clients : db.ctx[c].mid + n <= MaxMid
Wills == {c \in Clients : db.ctx[c].will # <<>>}

\* A new socket and its CONNECT packet.  A will is counted as a publication.
Connect(c) ==
  \E p \in Accepted :
    /\ ClientId(p) = c
    /\ IF p.will = <<>> THEN UNCHANGED body ELSE NewPublication
    /\ Becomes(HandleConnect(db, c, p.clean, IF p.will = <<>> THEN <<>> ELSE <<Message(Head(p.will))>>))

\* A packet that is not accepted: the socket is closed, whoever it says to be.
Refuse ==
  /\ ConnectPackets \ Accepted # {}
  /\ Becomes(db)
  /\ UNCHANGED body

Disconnect(c) ==
  /\ Connected(c)
  /\ Becomes(HandleDisconnect(db, c))
  /\ UNCHANGED body

\* loop_handle_reads_writes: a socket error, or a second CONNECT; or mosquitto_main_loop: nothing was heard for
\* one and a half times the keepalive.
ConnectionLost(c) ==
  /\ Connected(c)
  /\ c \in Wills => IdentifiersLeft(1)
  /\ Becomes(DoDisconnect(db, c))
  /\ UNCHANGED body

\* mosquitto_main_loop: the end of persistent_client_expiration
Expire(c) ==
  /\ db.ctx[c].known
  /\ ~Connected(c)
  /\ Becomes(ContextCleanup(db, c))
  /\ UNCHANGED body

\* mosquitto_main_loop: mqtt3_db_message_write for each context
Write(c) ==
  /\ Connected(c)
  /\ Becomes(MessageWrite(db, c))
  /\ UNCHANGED body

\* mosquitto_main_loop: mqtt3_db_message_timeout_check finds one message too old.
Retry(c, k) ==
  /\ Connected(c)
  /\ Becomes([db EXCEPT !.ctx[c].msgs[k] = TimedOut(@)])
  /\ UNCHANGED body

(***************************************************************************)
(* Packets, of clients that keep to the protocol: an identifier is used    *)
(* for one message at a time, and only what was sent is answered, perhaps  *)
(* late and more than once.                                                *)
(***************************************************************************)
Incoming(c) == {m \in ToSet(db.ctx[c].msgs) : m.dir = "in"}
Sent(c, qos) == {m \in ToSet(db.ctx[c].msgs) : m.dir = "out" /\ m.qos = qos /\ m.dup}
Received(c) == {m \in Sent(c, 2) : m.state \in {"resend_pubrel", "wait_for_pubcomp"}}

Publish(c, p) ==
  LET mid == IF p.qos = 0 THEN 0 ELSE (body % MaxMid) + 1
  IN  /\ c \in Publishers
      /\ \A m \in Incoming(c) : m.mid # mid
      /\ IdentifiersLeft(1)
      /\ NewPublication
      /\ Becomes(HandlePublish(db, c, mid, Message(p)))

\* A message of QoS 2 that the broker already has.
PublishAgain(c, mid) == Becomes(HandlePublish(db, c, mid, [qos |-> 2, retain |-> FALSE])) /\ UNCHANGED body

Pubrel(c, mid) == IdentifiersLeft(1) /\ Becomes(HandlePubrel(db, c, mid)) /\ UNCHANGED body
Ack(c, mid) == Becomes(HandlePubackcomp(db, c, mid)) /\ UNCHANGED body
Pubrec(c, mid) == Becomes(HandlePubrec(db, c, mid)) /\ UNCHANGED body

\* Each SUBSCRIBE may take an identifier for the retained message.  The bound leaves enough of
\* them for the publications.
Subscribe(c, topic, qos) ==
  /\ c \in Subscribers
  /\ db.ctx[c].mid + MaxBody < MaxMid
  /\ Becomes(HandleSubscribe(db, c, 1, topic, qos))
  /\ UNCHANGED body

Unsubscribe(c, topic) ==
  /\ c \in Subscribers
  /\ Becomes(HandleUnsubscribe(db, c, 1, topic))
  /\ UNCHANGED body

\* mqtt3_packet_handle
PacketHandle(c) ==
  \/ \E p \in Publications : Publish(c, p)
  \/ \E m \in Incoming(c) : PublishAgain(c, m.mid) \/ Pubrel(c, m.mid)
  \/ \E m \in Sent(c, 1) \cup Received(c) : Ack(c, m.mid)
  \/ \E m \in Sent(c, 2) : Pubrec(c, m.mid)
  \/ \E topic \in Names : Unsubscribe(c, topic) \/ \E qos \in 1 .. 2 : Subscribe(c, topic, qos)

(***************************************************************************)
(* mqtt3_db_backup: what the file says.  Contexts, messages and leaves of  *)
(* clean sessions are not written; reference counts, and who has been sent *)
(* a message, have no place in the file.  It replaces the old file at the  *)
(* end (rename), so a broker that is killed meanwhile keeps the old one.   *)
(***************************************************************************)
Durable(d) == {c \in Clients : d.ctx[c].known /\ ~d.ctx[c].clean}

MessageStoreWrite(d) ==
  [id \in DOMAIN d.store |-> [source |-> d.store[id].source, smid |-> d.store[id].smid, m |-> d.store[id].m]]

ClientMessagesWrite(ctx) == ctx.msgs

ClientWrite(d) == [c \in Durable(d) |-> [mid |-> d.ctx[c].mid, msgs |-> ClientMessagesWrite(d.ctx[c])]]

SubsWrite(d) == {leaf \in d.subs : leaf.client \in Durable(d)}

KeptMessages(d) == {d.kept[t] : t \in Names} \ {0}

File(d) ==
  [last |-> d.last, store |-> MessageStoreWrite(d), clients |-> ClientWrite(d),
   subs |-> SubsWrite(d), kept |-> KeptMessages(d)]

\* _db_client_chunk_restore with _db_find_or_add_context
RestoredContext(client) ==
  [NewContext EXCEPT !.known = TRUE, !.clean = FALSE, !.mid = client.mid]

\* Mutant of RestoredMessage: the identifier that its publisher gave it is lost.
RestoredMessageNoMid(stored) == [refs |-> 0, dests |-> {}, source |-> stored.source, smid |-> 0, m |-> stored.m]

\* _db_msg_store_chunk_restore
RestoredMessage(stored) ==
  [refs |-> 0, dests |-> {}, source |-> stored.source, smid |-> stored.smid, m |-> stored.m]

\* _db_client_msg_restore: a reference for each message, but no count for the client
RestoredRefs(d, c, msgs) ==
  LET pass[i \in 0 .. Len(msgs)] ==
        IF i = 0 THEN d ELSE [Ref(pass[i - 1], msgs[i].id) EXCEPT !.ctx[c].msgs = Append(@, msgs[i])]
  IN  pass[Len(msgs)]

\* _db_client_msg_chunk_restore
RestoredQueues(d, clients) ==
  LET order == SetToSeq(DOMAIN clients)
      pass[i \in 0 .. Len(order)] ==
        IF i = 0 THEN d ELSE RestoredRefs(pass[i - 1], order[i], clients[order[i]].msgs)
  IN  pass[Len(order)]

\* _db_sub_chunk_restore
RestoredSubs(d, subs) == [d EXCEPT !.subs = subs]

\* _db_retain_chunk_restore: without a source nobody is told.
RestoredRetain(d, kept) ==
  LET order == SetToSeq(kept)
      pass[i \in 0 .. Len(order)] ==
        IF i = 0 THEN d
        ELSE LET m == d.store[order[i]].m IN MessagesQueue(pass[i - 1], order[i], m.qos, m.retain, {})
  IN  pass[Len(order)]

\* mqtt3_db_restore, in the order of the file
Restore(file) ==
  LET read == [EmptyDb EXCEPT
                 !.last = file.last,
                 !.store = [id \in DOMAIN file.store |-> RestoredMessage(file.store[id])],
                 !.ctx = [c \in Clients |-> IF c \in DOMAIN file.clients
                                            THEN RestoredContext(file.clients[c]) ELSE @[c]]]
  IN  RestoredRetain(RestoredSubs(RestoredQueues(read, file.clients), file.subs), file.kept)

\* mosquitto_main_loop: autosave_interval, or SIGUSR1.
Backup ==
  /\ disk = <<>>
  /\ disk' = File(db) /\ saved' = db /\ lost' = 0
  /\ UNCHANGED <<db, body>>

\* The broker is killed and started again (mqtt3_db_open).  The file is still there, but
\* nothing new would follow from a second crash with it.
Crash ==
  /\ db' = IF disk = <<>> THEN EmptyDb ELSE Restore(disk)
  /\ disk' = <<>> /\ saved' = <<>> /\ lost' = 0
  /\ UNCHANGED body

\* What main leaves when mosquitto_main_loop has ended: the wills go out before the backup.
Left(d) ==
  LET order == SetToSeq(Clients)
      pass[i \in 0 .. Len(order)] == IF i = 0 THEN d ELSE ContextSendWill(pass[i - 1], order[i])
  IN  pass[Len(order)]

\* SIGTERM: the broker ends in order, and is started again.  An earlier file would only be
\* replaced.
Stop ==
  /\ disk = <<>>
  /\ IdentifiersLeft(Cardinality(Wills))
  /\ db' = Restore(File(Left(db)))
  /\ disk' = <<>> /\ saved' = <<>> /\ lost' = 0
  /\ UNCHANGED body

Next ==
  \/ \E c \in Clients :
       \/ Connect(c) \/ Disconnect(c) \/ ConnectionLost(c) \/ Expire(c) \/ Write(c)
       \/ \E k \in DOMAIN db.ctx[c].msgs : Retry(c, k)
       \/ Connected(c) /\ PacketHandle(c)
  \/ Refuse
  \/ Backup
  \/ Crash
  \/ Stop

Spec == Init /\ [][Next]_brokerVars
-----------------------------------------------------------------------------
Queue(c) == db.ctx[c].msgs
\* The places of the queues that hold a message, and the topics that keep it
Waiting(ctx, id) == UNION {{<<c, k>> : k \in {j \in DOMAIN ctx[c].msgs : ctx[c].msgs[j].id = id}} : c \in Clients}
Keeping(kept, id) == {t \in Names : kept[t] = id}
References(d, id) == Cardinality(Waiting(d.ctx, id)) + Cardinality(Keeping(d.kept, id))

\* Each message is counted as often as the queues and the retained message refer to it, so
\* it is freed with the last reference and never before, and the count on which the limits
\* of a queue depend is right while its client is connected: also across take-overs, clean
\* sessions and restarts (mosquitto__db_msg_store_deref, mqtt3_db_message_reconnect_reset).
CountsAreExact ==
  /\ \A c \in Clients : \A m \in ToSet(Queue(c)) : m.id \in DOMAIN db.store
  /\ KeptMessages(db) \subseteq DOMAIN db.store
  /\ \A id \in DOMAIN db.store : db.store[id].refs = References(db, id)
  /\ \A c \in Clients : Connected(c) => db.ctx[c].n12 = Count12(Queue(c))

\* No two messages on the way to a client have one identifier, so an acknowledgement
\* removes the message it is for (last_mid, which the file keeps).
MidsAreDistinct ==
  \A c \in Clients : \A i, j \in DOMAIN Queue(c) :
    i # j /\ Queue(c)[i].mid = Queue(c)[j].mid /\ Queue(c)[i].dir = Queue(c)[j].dir => Queue(c)[i].qos = 0

\* A message of a queue is not sent before those of its QoS ahead of it
\* (mqtt3_db_message_write, _message_remove).
SentInOrder ==
  \A c \in Clients : \A i, j \in DOMAIN Queue(c) :
    LET a == Queue(c)[i]
        b == Queue(c)[j]
    IN  i < j /\ a.dir = "out" /\ b.dir = "out" /\ a.qos = b.qos /\ b.qos > 0
          /\ b.state \in {"wait_for_puback", "wait_for_pubrec"}
          => a.state # "queued"

\* A message of QoS 1 or 2 leaves the queue of a client only when the client acknowledges
\* it, the session ends, or the broker is killed.
KeptUntilAcknowledged ==
  [][\A c \in Clients : \A m \in ToSet(Queue(c)) :
       \/ m.qos = 0
       \/ \E n \in ToSet(Queue(c)') : n.mid = m.mid /\ n.dir = m.dir /\ n.id = m.id
       \/ m.dir = "out" /\ Ack(c, m.mid)
       \/ m.dir = "in" /\ Pubrel(c, m.mid)
       \/ db.ctx[c].clean /\ ~Connected(c)'
       \/ Expire(c)
       \/ Connect(c) /\ (db.ctx[c].clean \/ db.ctx[c].clean')
       \/ Crash]_brokerVars

\* What outlives the broker: the queues, the subscriptions and the last identifiers of the
\* clients with a persistent session, and the retained message.
Lasting(d) ==
  [queues |-> [c \in Durable(d) |->
                 [k \in DOMAIN d.ctx[c].msgs |->
                    LET m == d.ctx[c].msgs[k]
                    IN  [mid |-> m.mid, dir |-> m.dir, qos |-> m.qos, state |-> m.state,
                         message |-> d.store[m.id].m, source |-> d.store[m.id].source,
                         smid |-> d.store[m.id].smid]]],
   mids |-> [c \in Durable(d) |-> d.ctx[c].mid],
   subs |-> {leaf \in d.subs : leaf.client \in Durable(d)},
   kept |-> {d.store[id].m : id \in KeptMessages(d)}]

\* A broker that is started again has what the last backup has saved, and nothing more;
\* the backup at its orderly end has the wills of all that were connected.
RestartIsLastBackup ==
  [][/\ Crash => Lasting(db') = Lasting(IF disk = <<>> THEN EmptyDb ELSE saved)
     /\ Stop => Lasting(db') = Lasting(Left(db))]_brokerVars
=============================================================================
