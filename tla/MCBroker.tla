------------------------------ MODULE MCBroker ------------------------------
(* A publisher, which may have a will, and a subscriber of version 3.1, which has a password. *)
EXTENDS Broker

OfTopicA(qos, retain, empty) == [topic |-> "a", qos |-> qos, retain |-> retain, empty |-> empty]
MCPublications == {OfTopicA(1, TRUE, FALSE), OfTopicA(2, FALSE, FALSE), OfTopicA(0, TRUE, TRUE)}
MCPasswords == [name \in {"user"} |-> "secret"]

Plain(id, clean) ==
  [protocol |-> IF id \in V31 THEN "MQIsdp" ELSE "MQTT", versionFits |-> TRUE,
   reserved |-> "nothing", clean |-> clean, id |-> id,
   will |-> <<>>, willFits |-> TRUE, name |-> NoName, password |-> NoPassword, torn |-> "nothing"]
User(p, password) == [p EXCEPT !.name = "user", !.password = password]

MCConnectPackets ==
  {Plain("p", clean) : clean \in BOOLEAN}
    \cup {[Plain("p", clean) EXCEPT !.will = <<OfTopicA(1, FALSE, FALSE)>>] : clean \in BOOLEAN}
    \cup {User(Plain("s", clean), "secret") : clean \in BOOLEAN}
    \cup {User(Plain("s", TRUE), "guess"), [User(Plain("s", TRUE), "secret") EXCEPT !.torn = "password"]}
    \cup {[Plain("p", FALSE) EXCEPT !.versionFits = FALSE], Plain(NoId, FALSE)}
=============================================================================
