----------------------------- MODULE RoutingSpec ----------------------------
(***************************************************************************)
(* What subscribing and publishing promise (mqtt.7), without a tree: a     *)
(* message goes once to each client with a filter that covers its topic, a *)
(* new subscription gets the retained messages its filter covers, and      *)
(* nobody sends or receives what the access rules do not allow.            *)
(***************************************************************************)
EXTENDS Topics

CONSTANTS
  Clients,
  Filters,
  Messages,      \* [topic, qos, retain, empty]
  Allowed,       \* [client, topic, right]: who may publish ("write") and get messages ("read")
  Covering       \* [topic]: the filters that cover it

VARIABLES
  subscribed,    \* [client, filter, qos], one for each client and filter
  kept,          \* the retained messages, one for each topic
  sent           \* what the last request made the broker send

routingVars == <<subscribed, kept, sent>>

Lower(a, b) == IF a < b THEN a ELSE b

Init == subscribed = {} /\ kept = {} /\ sent = {}

Retained(client, filter, qos, messages) ==
  {[client |-> client, message |-> m, qos |-> Lower(m.qos, qos), stale |-> TRUE] :
     m \in {k \in messages : filter \in Covering[k.topic] /\ Allowed[client, k.topic, "read"]}}

\* What # directly behind + covers without a level for #: the tree may miss its
\* retained message.
MayMiss(filter, m) == HashBehindPlus(filter) /\ Len(Levels(m.topic)) < Len(Levels(filter))

Subscribe(client, filter, qos) ==
  /\ subscribed' = {s \in subscribed : s.client # client \/ s.filter # filter}
                     \cup {[client |-> client, filter |-> filter, qos |-> qos]}
  /\ sent' \subseteq Retained(client, filter, qos, kept)
  /\ Retained(client, filter, qos, {m \in kept : ~MayMiss(filter, m)}) \subseteq sent'
  /\ UNCHANGED kept

Unsubscribe(client, filter) ==
  /\ subscribed' = {s \in subscribed : s.client # client \/ s.filter # filter}
  /\ sent' = {}
  /\ UNCHANGED kept

Leave(client) ==
  /\ subscribed' = {s \in subscribed : s.client # client}
  /\ sent' = {}
  /\ UNCHANGED kept

\* One message for each client, at the QoS of one of the filters that cover its topic.
Publish(client, m) ==
  LET Fits(c) == {s \in subscribed : /\ s.client = c /\ s.filter \in Covering[m.topic]
                                     /\ Allowed[c, m.topic, "read"]}
      others == {k \in kept : k.topic # m.topic}
  IN  /\ Allowed[client, m.topic, "write"]
      /\ \A c \in Clients : Cardinality({d \in sent' : d.client = c}) = IF Fits(c) = {} THEN 0 ELSE 1
      /\ \A d \in sent' : \E s \in Fits(d.client) :
           d = [client |-> s.client, message |-> m, qos |-> Lower(m.qos, s.qos), stale |-> FALSE]
      /\ \/ kept' = IF ~m.retain THEN kept ELSE IF m.empty THEN others ELSE others \cup {m}
         \* A topic of its own under $ is not kept before somebody subscribes there.
         \/ kept' = kept /\ StartsWithDollar(m.topic)
      /\ UNCHANGED subscribed

Refused(client, m) ==
  /\ ~Allowed[client, m.topic, "write"]
  /\ sent' = {}
  /\ UNCHANGED <<subscribed, kept>>

Next == \E c \in Clients :
  \/ \E f \in Filters, q \in {0, 2} : SubTopicOK(f) /\ Subscribe(c, f, q)
  \/ \E f \in Filters : Unsubscribe(c, f)
  \/ Leave(c)
  \/ \E m \in Messages : PubTopicOK(m.topic) /\ (Publish(c, m) \/ Refused(c, m))

Spec == Init /\ [][Next]_routingVars
=============================================================================
