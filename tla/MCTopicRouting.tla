--------------------------- MODULE MCTopicRouting ---------------------------
(* Two clients, one of them with a user name, filters with every wildcard. *)
EXTENDS TopicRouting, TLC

MCClients == {"a", "c"}
MCUserOf == [c \in MCClients |-> IF c = "c" THEN "b" ELSE "anonymous"]

MCFilters == {<<"a", "/", "#">>, <<"+", "/", "b">>, <<"#">>, <<"+", "/", "#">>, <<"$", "b">>}

Message(topic, qos, retain, empty) == [topic |-> topic, qos |-> qos, retain |-> retain, empty |-> empty]
MCMessages == {Message(<<"a">>, 1, TRUE, FALSE), Message(<<"a", "/", "b">>, 2, TRUE, FALSE),
               Message(<<"a", "/", "b">>, 0, TRUE, TRUE), Message(<<"$", "b">>, 1, TRUE, FALSE)}

Line(word, name, access) == [word |-> word, name |-> name, access |-> access]
MCAclFile == <<Line("topic", <<"b">>, "none"), Line("user", "b", "none"),
               Line("topic", <<"a", "/", "+">>, "read"), Line("topic", <<"#">>, "write"),
               Line("pattern", <<"%c", "/", "#">>, "readwrite"), Line("pattern", <<"$", "%u">>, "none")>>
=============================================================================
