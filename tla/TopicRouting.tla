---------------------------- MODULE TopicRouting ----------------------------
(***************************************************************************)
(* Subscriptions, publications and access rights of the broker, with the   *)
(* tree of SubTree: the parts of the packet handlers (read_handle.c,       *)
(* read_handle_server.c) that concern topics.  Every request is handled as *)
(* a whole, as the broker has one thread.  The clients are connected and   *)
(* have room for every message.                                            *)
(***************************************************************************)
EXTENDS SubTree

CONSTANTS
  Clients,       \* each named by a character
  Filters,
  Messages,      \* [topic, qos, retain, empty]
  UserOf,
  NoUser,
  AclFile,       \* the lines of the acl_file: [word, name, access]
  MaxLeaves      \* bound on the number of subscriptions

\* Topics and filters are strings, here sequences of characters.
ASSUME TopicsAssumption ==
  Filters \cup {m.topic : m \in Messages} \subseteq Seq(STRING)

VARIABLES tree, sent

treeVars == <<tree, sent>>

(***************************************************************************)
(* _aclfile_parse: "topic" lines belong to the user of the last "user"     *)
(* line above them, to clients without a user name if there is none;       *)
(* "pattern" lines to everybody.  _add_acl and _add_acl_pattern keep them  *)
(* in the order of the file.                                               *)
(***************************************************************************)
UserAt(i) ==
  LET above == {j \in 1 .. i : AclFile[j].word = "user"}
  IN  IF above = {} THEN NoUser ELSE AclFile[Max(above)].name

Access(line) ==
  IF line.access \in {"readwrite", "none"} THEN {"read", "write"} ELSE {line.access}

Rule(i) == [user |-> UserAt(i), topic |-> AclFile[i].name, access |-> Access(AclFile[i])]

RulesOf(user) == SelectSeq([i \in DOMAIN AclFile |-> i],
                           LAMBDA i : AclFile[i].word = "topic" /\ UserAt(i) = user)

Patterns == SelectSeq([i \in DOMAIN AclFile |-> i], LAMBDA i : AclFile[i].word = "pattern")

\* The part of mosquitto_acl_check_default that puts names into a pattern.
LocalAcl(client, topic) ==
  [i \in DOMAIN topic |-> IF topic[i] = "%c" THEN client
                          ELSE IF UserOf[client] # NoUser /\ topic[i] = "%u" THEN UserOf[client]
                          ELSE topic[i]]

Unrestricted == \A i \in DOMAIN AclFile : AclFile[i].word = "user"

\* mosquitto_acl_check_default: without rules everything is allowed; else the rules of the
\* user, then the patterns.  A bridge, which may do everything, is not among the clients.
MayAccess(client, topic, right) ==
  LET Grants(i, acl) == MatchesSub(acl, topic) /\ right \in Rule(i).access
      rules == RulesOf(UserOf[client])
  IN  \/ Unrestricted
      \/ \E k \in DOMAIN rules : Grants(rules[k], Rule(rules[k]).topic)
      \/ /\ {client, UserOf[client]} \cap {"+", "#"} = {}
         /\ \E k \in DOMAIN Patterns :
              LET pattern == Rule(Patterns[k]).topic
              IN  /\ UserOf[client] = NoUser => "%u" \notin ToSet(pattern)
                  /\ Grants(Patterns[k], LocalAcl(client, pattern))

\* Who may publish to a topic, and who may get a message with it.
Granted ==
  [right \in {"read", "write"} |->
     {p \in Clients \X {m.topic : m \in Messages} : MayAccess(p[1], p[2], right)}]

Lower(a, b) == IF a < b THEN a ELSE b

Init == tree = EmptyTree /\ sent = {}

\* _retain_process
RetainProcess(client, qos, m) ==
  IF <<client, m.topic>> \in Granted["read"]
  THEN {[client |-> client, message |-> m, qos |-> Lower(m.qos, qos), stale |-> TRUE]}
  ELSE {}

\* mqtt3_handle_subscribe, for one of the filters of a packet of MQTT 3.1.1: the subscription
\* first, then the retained messages, also when the client has the subscription already.
Subscribe(client, filter, qos) ==
  LET added == SubAdd(tree, client, filter, qos)
  IN  /\ SubTopicOK(filter)
      /\ tree' = added
      /\ sent' = UNION {RetainProcess(client, qos, m) : m \in RetainSearch(added, filter)}

\* mqtt3_handle_unsubscribe, for one of the filters of a packet
Unsubscribe(client, filter) ==
  /\ SubTopicOK(filter)
  /\ tree' = SubRemove(tree, client, filter)
  /\ sent' = {}

\* mqtt3_context_cleanup of a client with a clean session
Leave(client) ==
  /\ tree' = CleanSession(tree, client)
  /\ sent' = {}

\* _subs_process: the leaves of one node; dest_ids keeps a client from getting a message twice.
SubsProcess(deliveries, node, m) ==
  FoldLeft(LAMBDA got, leaf :
             IF <<leaf.client, m.topic>> \in Granted["read"] /\ \A d \in got : d.client # leaf.client
             THEN got \cup {[client |-> leaf.client, message |-> m, qos |-> Lower(m.qos, leaf.qos),
                             stale |-> FALSE]}
             ELSE got, deliveries, node.subs)

\* mqtt3_handle_publish with mqtt3_db_messages_queue, for QoS 0 and 1.
Publish(client, m) ==
  LET kept == IF m.retain THEN Retain(tree, m) ELSE tree
  IN  /\ PubTopicOK(m.topic)
      /\ <<client, m.topic>> \in Granted["write"]
      /\ tree' = kept
      /\ sent' = FoldLeft(LAMBDA got, node : SubsProcess(got, node, m), {}, Search(kept, m.topic))

\* mqtt3_handle_publish: process_bad_message
Refuse(client, m) ==
  /\ PubTopicOK(m.topic)
  /\ <<client, m.topic>> \notin Granted["write"]
  /\ sent' = {}
  /\ UNCHANGED tree

Leaves == UNION {{[client |-> tree[i].subs[k].client, path |-> tree[i].path] : k \in DOMAIN tree[i].subs} :
                   i \in DOMAIN tree}

Next == \E c \in Clients :
  \/ \E f \in Filters, q \in {0, 2} : Cardinality(Leaves) < MaxLeaves /\ Subscribe(c, f, q)
  \/ \E f \in Filters : Unsubscribe(c, f)
  \/ Leave(c)
  \/ \E m \in Messages : Publish(c, m) \/ Refuse(c, m)

Spec == Init /\ [][Next]_treeVars
-----------------------------------------------------------------------------
(* The refinement mapping: what the leaves and the retained messages mean. *)
FilterOf == [path \in {PathOf(f) : f \in Filters} |-> CHOOSE f \in Filters : PathOf(f) = path]

subscribed ==
  UNION {{[client |-> tree[i].subs[k].client, filter |-> FilterOf[tree[i].path], qos |-> tree[i].subs[k].qos] :
            k \in DOMAIN tree[i].subs} : i \in DOMAIN tree}
kept == {tree[i].retained : i \in DOMAIN tree} \ {None}

\* The meaning of the access rules: those of a client's own user, and those for everybody
\* with the name of the client and of its user in the place of %c and %u.
WithNames(client, topic) ==
  [i \in DOMAIN topic |-> CASE topic[i] = "%c" -> client
                           [] topic[i] = "%u" /\ UserOf[client] # NoUser -> UserOf[client]
                           [] OTHER -> topic[i]]

RulesFor(client) ==
  {Rule(i) : i \in {j \in DOMAIN AclFile : AclFile[j].word = "topic" /\ UserAt(j) = UserOf[client]}}
    \cup {[Rule(i) EXCEPT !.topic = WithNames(client, @)] : i \in ToSet(Patterns)}

Promised ==
  [client \in Clients, topic \in {m.topic : m \in Messages}, right \in {"read", "write"} |->
     Unrestricted \/ \E r \in RulesFor(client) : right \in r.access /\ Covers(r.topic, topic)]

Covering == [topic \in {m.topic : m \in Messages} |-> {f \in Filters : Covers(f, topic)}]

Promise == INSTANCE RoutingSpec WITH Allowed <- Promised

\* The tree finds exactly the clients and the retained messages that the filters
\* promise, whatever was added to it and removed from it before, in whatever order
\* (mqtt3_sub_add, mqtt3_sub_remove, mqtt3_subs_clean_session, _sub_search, _retain_search).
RoutesAsPromised == Promise!Spec

\* mqtt(7): "if a new subscription is made that matches the topic of the retained message, then
\* the message will be sent to the client".  It does not hold for # directly behind +: such a
\* subscription gets the messages of the level above, but not always the retained one
\* (_retain_search).
RetainedIsSent ==
  [][\A c \in Clients, f \in Filters, q \in {0, 2} : Subscribe(c, f, q) =>
       \A m \in kept : f \in Covering[m.topic] /\ Promised[c, m.topic, "read"] =>
         \E d \in sent' : d.client = c /\ d.message = m]_treeVars

\* Every node hangs on its parent and is made once, with one leaf for each client: nothing
\* is freed that is still in use, and no subscription is answered twice.
TreeOK ==
  /\ \A i, j \in DOMAIN tree : tree[i].path = tree[j].path => i = j
  /\ \A i \in DOMAIN tree : Len(tree[i].path) > 1 => Front(tree[i].path) \in Paths(tree)
  /\ \A i \in DOMAIN tree : \A k, l \in DOMAIN tree[i].subs :
       tree[i].subs[k].client = tree[i].subs[l].client => k = l
=============================================================================
