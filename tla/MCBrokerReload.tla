--------------------------- MODULE MCBrokerReload ---------------------------
(* A client with a name, one without; files with and without errors. *)
EXTENDS BrokerReload

MCArgs == << <<"-c", "conf">>, <<"-p", "1884">> >>
MCAtoi == [w \in {"0", "2", "10", "1884", "70000"} |->
  CASE w = "0" -> 0 [] w = "2" -> 2 [] w = "10" -> 10 [] w = "1884" -> 1884 [] w = "70000" -> 70000]
MCSeconds == [h |-> 3600, d |-> 86400]
MCPortOf == "hub" :> 1883
MCIdsWith == "n" :> {"named"}

\* One option of every kind, with a listener and a bridge; a stricter configuration; one with an
\* error in the middle.
Files == << <<"password_file", "passwords">>, <<"acl_file", "lists">>, <<"psk_file", "keys">> >>
Every == Files \o <<
  <<"allow_duplicate_messages", "true">>, <<"autosave_interval", "10">>, <<"log_dest", "none">>,
  <<"log_dest", "file", "log">>, <<"log_type", "error">>, <<"log_type", "debug">>,
  <<"max_queued_messages", "2">>, <<"retained_persistence", "true">>,
  <<"persistence_location", "here">>, <<"persistent_client_expiration", "2", "d">>,
  <<"auth_opt_", "key", "value">>, <<"message_size_limit", "10">>, <<"user", "somebody">>,
  <<"cafile", "certificate">>, <<"listener", "1884", "host">>, <<"protocol", "mqtt">>,
  <<"connection", "bridge">>, <<"address", "hub">>, <<"topic", "t", "in", "2", "", "far">>,
  <<"keepalive_interval", "2">>, <<"bridge_identity", "me">>, <<"bridge_psk", "key">> >>
Strict == << <<"allow_anonymous", "false">>, <<"clientid_prefixes", "n">>, <<"max_inflight_messages", "10">>,
             <<"sys_interval", "0">> >> \o Files
Wrong == << <<"allow_anonymous", "false">>, <<"retry_interval", "0">> >> \o Files

MCVersions == [
  conf      |-> {Every, Strict, Wrong},
  passwords |-> {<< <<"user", "secret">> >>, << <<"other">>, <<"user", "no hash">> >>, Missing},
  lists     |-> {<< <<"topic", "a">>, <<"user", "user">>, <<"topic", "read", "b">> >>,
                 << <<"user", "user">>, <<"topic", "c">>, <<"topic", "use", "d">> >>,
                 << <<"pattern", "write", "p">> >>},
  keys      |-> {<< <<"me", "0f">> >>}]

Client(id, name, password, clean) ==
  [protocol |-> "MQTT", versionFits |-> TRUE, reserved |-> "nothing", clean |-> clean, id |-> id,
   will |-> <<>>, willFits |-> TRUE, name |-> name, password |-> password, torn |-> "nothing"]

MCConnectPackets ==
  {Client("named", "user", "secret", clean) : clean \in BOOLEAN}
    \cup {Client("anonymous", NoName, NoPassword, TRUE)}
=============================================================================
