---------------------------- MODULE BrokerConfig ----------------------------
(***************************************************************************)
(* mosquitto.conf: how conf.c reads it when the broker starts and when it  *)
(* is told to reload.  A line is the sequence of its words, a comment is   *)
(* no line, and a file without include_dir is read.  What an option has    *)
(* been set to is kept in a partial function: NULL is no entry.            *)
(*                                                                         *)
(* config: broker, the options of the broker; default, the default         *)
(* listener; listeners and bridges, sequences; limits, the arguments of    *)
(* mqtt3_db_limits_set.  A reader r also has, beside config and ok, cr     *)
(* (struct config_recurse), and the numbers of cur_listener (0: the        *)
(* default one) and cur_bridge (0: none).                                  *)
(***************************************************************************)
EXTENDS Integers, SequencesExt

CONSTANTS
  Atoi,        \* from the words with a number to the number
  Seconds,     \* how long the h, d, w, m and y of a duration are
  PortOf,      \* from the addresses of bridges to their ports
  ShortKeys,   \* the keys after auth_opt_ of less than three letters
  Unresolved,  \* the hosts that cannot be resolved
  Wild         \* the words with a wildcard

ASSUME ConfigAssumption ==
  /\ \A word \in DOMAIN Atoi : Atoi[word] \in Int
  /\ \A unit \in DOMAIN Seconds : Seconds[unit] \in Nat \ {0}

Unset(options, names) == Restrict(options, DOMAIN options \ names)
With(options, name, value) == (name :> value) @@ options
MaxInt == 2147483647

-----------------------------------------------------------------------------
(* The options: to what they belong, how they are read, what they may be.  *)

Flag(of) == [of |-> of, read |-> "flag"]
Text(of) == [of |-> of, read |-> "text"]
Choice(of, among) == [of |-> of, read |-> "choice", among |-> among]
AtLeast(of, low) == [of |-> of, read |-> "number", low |-> low, high |-> MaxInt, raised |-> TRUE]
Within(of, low, high) == [of |-> of, read |-> "number", low |-> low, high |-> high, raised |-> FALSE]
Ignored == [of |-> "nothing", read |-> "ignored"]
All(names, option) == [name \in names |-> option]
WordsFor(numbers) == {word \in DOMAIN Atoi : Atoi[word] \in numbers}

AclFileToBindAddress ==
  All({"acl_file", "auth_plugin", "auto_id_prefix"}, Text("broker"))
    @@ All({"allow_anonymous", "allow_duplicate_messages", "allow_zero_length_clientid",
            "auth_plugin_deny_special_chars", "autosave_on_changes"}, Flag("broker"))
    @@ "autosave_interval" :> AtLeast("broker", 0)
    @@ "bind_address" :> Text("default")

BridgeOptions ==
  All({"bridge_attempt_unsubscribe", "bridge_insecure"}, Flag("bridge"))
    @@ All({"bridge_cafile", "bridge_capath", "bridge_certfile", "bridge_identity",
            "bridge_keyfile"}, Text("bridge"))
    @@ "bridge_protocol_version" :> Choice("bridge", {"mqttv31", "mqttv311"})

BridgePskToClientidPrefixes ==
  All({"bridge_psk", "bridge_tls_version", "clientid"}, Text("bridge"))
    @@ "cleansession" :> Flag("bridge")
    @@ All({"cafile", "capath", "certfile", "ciphers"}, Text("listener"))
    @@ "clientid_prefixes" :> Text("broker")

ConnectionMessagesToIdleTimeout ==
  "connection_messages" :> Flag("broker")
    @@ "crlfile" :> Text("listener")
    @@ "http_dir" :> Ignored
    @@ "idle_timeout" :> AtLeast("bridge", 1)

KeepaliveToLocalUsername ==
  "keepalive_interval" :> AtLeast("bridge", 5)
    @@ "keyfile" :> Text("listener")
    @@ All({"local_clientid", "local_password", "local_username"}, Text("bridge"))

LogFacilityAndTimestamp ==
  "log_facility" :> Choice("broker", WordsFor(0 .. 7)) @@ "log_timestamp" :> Flag("broker")

MaxConnectionsToPersistence ==
  "max_connections" :> AtLeast("listener", -1)
    @@ All({"max_inflight_messages", "max_queued_messages"}, AtLeast("cr", 0))
    @@ "message_size_limit" :> Within("broker", 0, 268435455)
    @@ "mount_point" :> Text("listener")
    @@ "notifications" :> Flag("bridge")
    @@ All({"notification_topic", "password"}, Text("bridge"))
    @@ All({"password_file", "persistence_file", "persistence_location"}, Text("broker"))
    @@ "persistence" :> Flag("broker")

PidFileToRoundRobin ==
  All({"pid_file", "psk_file"}, Text("broker"))
    @@ "port" :> Choice("default", WordsFor(1 .. 65535))
    @@ "protocol" :> Choice("listener", {"mqtt"})
    @@ "psk_hint" :> Text("listener")
    @@ "queue_qos0_messages" :> Flag("broker")
    @@ "require_certificate" :> Flag("listener")
    @@ "restart_timeout" :> AtLeast("bridge", 1)
    @@ "retry_interval" :> Within("broker", 1, 3600)
    @@ "round_robin" :> Flag("bridge")

StartTypeToTlsVersion ==
  "start_type" :> Choice("bridge", {"automatic", "lazy", "once"})
    @@ "store_clean_interval" :> Ignored
    @@ "sys_interval" :> Within("broker", 0, 65535)
    @@ "threshold" :> AtLeast("bridge", 1)
    @@ "tls_version" :> Text("listener")

TryPrivateToUsername ==
  "try_private" :> Flag("bridge")
    @@ "upgrade_outgoing_qos" :> Flag("broker")
    @@ All({"use_identity_as_username", "use_username_as_clientid"}, Flag("listener"))
    @@ "user" :> Text("broker")
    @@ "username" :> Text("bridge")
    @@ All({"websockets_log_level", "trace_level", "ffdc_output", "max_log_entries",
            "trace_output"}, Ignored)

Options ==
  AclFileToBindAddress @@ BridgeOptions @@ BridgePskToClientidPrefixes
    @@ ConnectionMessagesToIdleTimeout @@ KeepaliveToLocalUsername @@ LogFacilityAndTimestamp
    @@ MaxConnectionsToPersistence @@ PidFileToRoundRobin @@ StartTypeToTlsVersion
    @@ TryPrivateToUsername

\* Second names of the same options
Alias == [addresses |-> "address", remote_clientid |-> "clientid", remote_password |-> "password",
          remote_username |-> "username", retained_persistence |-> "persistence"]

\* `if(reload) continue': not read again; protocol, of all those of a listener, is.
Skipped(name) ==
  \/ name \in {"auth_plugin", "auth_plugin_deny_special_chars", "pid_file", "user", "address",
               "connection", "listener", "topic"}
  \/ name \in DOMAIN Options \ {"protocol"} /\ Options[name].of \in {"default", "listener", "bridge"}

-----------------------------------------------------------------------------
(* A line with a value: what the option becomes, and whether it may.       *)

Outcome(ok, options) == [ok |-> ok, options |-> options]

\* _conf_parse_bool: another word is only reported.
ReadFlag(options, name, word) ==
  Outcome(TRUE, IF word \in {"true", "1"} THEN With(options, name, TRUE)
                ELSE IF word \in {"false", "0"} THEN With(options, name, FALSE)
                ELSE options)

\* _conf_parse_int and what follows it: a number too low is raised, or one out of its range is
\* an error that leaves it stored.
ReadNumber(is, options, name, word) ==
  LET n == Atoi[word]
  IN  IF is.raised THEN Outcome(TRUE, With(options, name, IF n < is.low THEN is.low ELSE n))
                   ELSE Outcome(n >= is.low /\ n <= is.high, With(options, name, n))

\* _conf_parse_string: a second value is an error.
ReadText(options, name, word) ==
  IF name \in DOMAIN options
  THEN Outcome(FALSE, options)
  ELSE Outcome(/\ name = "bind_address" => word \notin Unresolved
               /\ name = "mount_point" => word \notin Wild,
               With(options, name, word))

ReadChoice(is, options, name, word) ==
  IF word \in is.among THEN Outcome(TRUE, With(options, name, word)) ELSE Outcome(FALSE, options)

\* An option without a value is an error, but for these, which are left as they are.
MayBeEmpty == {"max_connections", "max_inflight_messages", "max_queued_messages", "protocol"}

ReadValue(is, options, name, line) ==
  CASE is.read = "ignored" -> Outcome(TRUE, options)
    [] Len(line) = 1 -> Outcome(name \in MayBeEmpty, options)
    [] is.read = "flag" -> ReadFlag(options, name, line[2])
    [] is.read = "number" -> ReadNumber(is, options, name, line[2])
    [] is.read = "text" -> ReadText(options, name, line[2])
    [] is.read = "choice" -> ReadChoice(is, options, name, line[2])

\* A connection is encrypted with certificates or with keys: what may not be set before.
Certificates == {"bridge_cafile", "bridge_capath", "bridge_certfile", "bridge_keyfile"}
Excluded(name) ==
  CASE name \in Certificates -> {"bridge_identity", "bridge_psk"}
    [] name \in {"bridge_identity", "bridge_psk"} -> Certificates
    [] name \in {"cafile", "certfile"} -> {"psk_hint"}
    [] OTHER -> {}

\* These are freed before they are read again.
Renewed == {"acl_file", "clientid_prefixes", "password_file", "psk_file"}

-----------------------------------------------------------------------------
Fail(r) == [r EXCEPT !.ok = FALSE]

\* The options to which a line belongs, and the reader with them changed
Section(r, of) ==
  CASE of = "cr" -> r.cr
    [] of = "default" \/ (of = "listener" /\ r.listener = 0) -> r.config.default
    [] of = "listener" /\ r.listener # 0 -> r.config.listeners[r.listener]
    [] of = "bridge" -> r.config.bridges[r.bridge]
    [] OTHER -> r.config.broker

Store(r, of, options) ==
  CASE of = "cr" -> [r EXCEPT !.cr = options]
    [] of = "default" \/ (of = "listener" /\ r.listener = 0) -> [r EXCEPT !.config.default = options]
    [] of = "listener" /\ r.listener # 0 -> [r EXCEPT !.config.listeners[r.listener] = options]
    [] of = "bridge" -> [r EXCEPT !.config.bridges[r.bridge] = options]
    [] OTHER -> [r EXCEPT !.config.broker = options]

ReadOption(r, is, name, line, reload) ==
  LET options == Section(r, is.of)
      before  == IF reload THEN Unset(options, Renewed \cap {name}) ELSE options
      outcome == ReadValue(is, before, name, line)
  IN  IF \/ is.of = "bridge" /\ r.bridge = 0
         \/ name = "mount_point" /\ r.config.listeners = <<>>
         \/ Excluded(name) \cap DOMAIN options # {}
      THEN Fail(r)
      ELSE [Store(r, is.of, outcome.options) EXCEPT !.ok = outcome.ok]

-----------------------------------------------------------------------------
(* The lines that are read in a way of their own.                          *)

Address(r, line) ==
  LET addresses == [i \in 1 .. Len(line) - 1 |-> [address |-> line[i + 1], port |-> PortOf[line[i + 1]]]]
  IN  IF \/ r.bridge = 0
         \/ "addresses" \in DOMAIN Section(r, "bridge")
         \/ addresses = <<>>
         \/ \E i \in DOMAIN addresses : addresses[i].port \notin 1 .. 65535
      THEN Fail(r)
      ELSE Store(r, "bridge", With(Section(r, "bridge"), "addresses", addresses))

\* The line is auth_opt_, its key, its value.
AuthOption(r, line) ==
  IF Len(line) < 3 \/ line[2] \in ShortKeys
  THEN Fail(r)
  ELSE [r EXCEPT !.config.broker["auth_options"] = Append(@, Tail(line))]

BridgeDefaults == [
  keepalive_interval |-> 60, notifications |-> TRUE, start_type |-> "automatic", idle_timeout |-> 60,
  restart_timeout |-> 30, threshold |-> 10, try_private |-> TRUE, bridge_attempt_unsubscribe |-> TRUE,
  bridge_protocol_version |-> "mqttv31", topics |-> <<>>,
  topic_remapping |-> FALSE]

Connection(r, line) ==
  IF Len(line) = 1 \/ \E i \in DOMAIN r.config.bridges : r.config.bridges[i].name = line[2]
  THEN Fail(r)
  ELSE [r EXCEPT !.config.bridges = Append(@, With(BridgeDefaults, "name", line[2])), !.bridge = @ + 1]

\* A new listener is unlimited, by a 0, and what the next lines are about.
Listener(r, line) ==
  IF Len(line) = 1 \/ line[2] \notin WordsFor(1 .. 65535)
  THEN Fail(r)
  ELSE [r EXCEPT
         !.config.listeners = Append(@, [port |-> line[2], protocol |-> "mqtt", max_connections |-> 0]
                                          @@ (IF Len(line) > 2 THEN "bind_address" :> line[3] ELSE <<>>)),
         !.listener = Len(r.config.listeners) + 1]

\* The words of log_dest and log_type add up; none begins anew.
LogWords(r, name, word) ==
  IF word = "none" THEN {} ELSE (IF name \in DOMAIN r.cr THEN r.cr[name] ELSE {}) \cup {word}

LogDest(r, line) ==
  IF \/ Len(line) = 1
     \/ line[2] \notin {"none", "syslog", "stdout", "stderr", "topic", "file"}
     \/ line[2] = "file" /\ (Len(line) = 2 \/ "log_file" \in DOMAIN r.config.broker)
  THEN Fail(r)
  ELSE [r EXCEPT !.cr = With(@, "log_dest", LogWords(r, "log_dest", line[2])),
                 !.config.broker = IF line[2] = "file" THEN With(@, "log_file", line[3]) ELSE @]

Everything == {"information", "notice", "warning", "error", "debug", "subscribe", "unsubscribe", "all"}

LogType(r, line) ==
  IF Len(line) = 1 THEN r
  ELSE IF line[2] \notin Everything \cup {"none"} THEN Fail(r)
  ELSE [r EXCEPT !.cr = With(@, "log_type", IF line[2] = "all" THEN Everything
                                            ELSE LogWords(r, "log_type", line[2]))]

\* The line has the number and the unit of the duration as two words.
Expiration(r, line) ==
  IF Len(line) = 1 THEN r
  ELSE IF Len(line) = 2 \/ line[3] \notin DOMAIN Seconds THEN Fail(r)
  ELSE LET seconds == Atoi[line[2]] * Seconds[line[3]]
       IN  [r EXCEPT !.config.broker["persistent_client_expiration"] = seconds, !.ok = seconds > 0]

\* A topic of a bridge: direction, qos, local and remote prefix may follow it, "" is no prefix.
BridgeTopic(r, line) ==
  LET given(i)  == i <= Len(line)
      prefix(i) == IF given(i) /\ line[i] # "" THEN <<line[i]>> ELSE <<>>
      name      == prefix(2)
      topic     == [direction |-> IF given(3) THEN line[3] ELSE "out",
                    qos |-> IF given(4) THEN Atoi[line[4]] ELSE 0,
                    local_topic |-> prefix(5) \o name, remote_topic |-> prefix(6) \o name]
  IN  IF \/ r.bridge = 0 \/ ~given(2)
         \/ topic.direction \notin {"out", "in", "both"}
         \/ topic.qos \notin 0 .. 2
         \/ \E i \in {5, 6} : given(i) /\ line[i] \in Wild
         \/ name = <<>> /\ <<>> \in {prefix(5), prefix(6)}
      THEN Fail(r)
      ELSE [r EXCEPT !.config.bridges[r.bridge].topics = Append(@, topic),
                     !.config.bridges[r.bridge].topic_remapping = @ \/ given(5)]

\* The loop over the lines ends with the first error.
ReadLine(r, line, reload) ==
  LET name == IF Head(line) \in DOMAIN Alias THEN Alias[Head(line)] ELSE Head(line) IN
  IF ~r.ok \/ (reload /\ Skipped(name)) THEN r
  ELSE CASE name = "address" -> Address(r, line)
         [] name = "auth_opt_" -> AuthOption(r, line)
         [] name = "connection" -> Connection(r, line)
         [] name = "listener" -> Listener(r, line)
         [] name = "log_dest" -> LogDest(r, line)
         [] name = "log_type" -> LogType(r, line)
         [] name = "persistent_client_expiration" -> Expiration(r, line)
         [] name = "topic" -> BridgeTopic(r, line)
         [] name \in DOMAIN Options -> ReadOption(r, Options[name], name, line, reload)
         [] OTHER -> Fail(r)

-----------------------------------------------------------------------------
(* The whole configuration.  files: from the names of the files to their   *)
(* lines; what cannot be opened has no entry.                              *)

DefaultLogTypes == {"error", "warning", "notice", "information"}

ReloadDefaults(verbose) == [
  allow_anonymous |-> TRUE, allow_duplicate_messages |-> FALSE, allow_zero_length_clientid |-> TRUE,
  auth_options |-> <<>>, autosave_interval |-> 1800, autosave_on_changes |-> FALSE,
  connection_messages |-> TRUE, log_dest |-> {"stderr"}, log_facility |-> "daemon",
  log_timestamp |-> TRUE, log_type |-> IF verbose THEN Everything ELSE DefaultLogTypes,
  persistence |-> FALSE, persistent_client_expiration |-> 0, queue_qos0_messages |-> FALSE,
  retry_interval |-> 20, sys_interval |-> 10, upgrade_outgoing_qos |-> FALSE]

Freed == {"acl_file", "auto_id_prefix", "clientid_prefixes", "log_file", "password_file",
          "persistence_file", "persistence_location", "psk_file"}

\* Mutant: the texts of the configuration before stay.
InitReloadKeeps(broker) == ReloadDefaults(broker.verbose) @@ broker

InitReload(broker) == ReloadDefaults(broker.verbose) @@ Unset(broker, Freed)

Limits == [max_inflight_messages |-> 20, max_queued_messages |-> 100]

ConfigInit == [
  broker    |-> [auth_plugin_deny_special_chars |-> TRUE, verbose |-> FALSE, message_size_limit |-> 0]
                  @@ ReloadDefaults(FALSE),
  default   |-> [max_connections |-> -1, protocol |-> "mqtt"],
  listeners |-> <<>>,
  bridges   |-> <<>>,
  limits    |-> Limits]

Reader(config, opened) == [config |-> config, cr |-> Limits, listener |-> 0, bridge |-> 0, ok |-> opened]

\* persistence_file and persistence_filepath
PersistencePath(broker) ==
  IF ~broker.persistence THEN broker
  ELSE LET located == Restrict(broker, DOMAIN broker \cap {"persistence_location"})
           named   == broker @@ "persistence_file" :> "mosquitto.db"
       IN  With(named, "persistence_filepath", located @@ "file" :> named.persistence_file)

BridgeIsComplete(bridge) ==
  /\ "addresses" \in DOMAIN bridge
  /\ bridge.topics # <<>>
  /\ "bridge_psk" \in DOMAIN bridge <=> "bridge_identity" \in DOMAIN bridge

\* What is to be logged, if the file says so
Logging(broker, cr) ==
  LET given == Restrict(cr, DOMAIN cr \ DOMAIN Limits)
  IN  (IF broker.verbose THEN With(given, "log_type", Everything) ELSE given) @@ broker

\* mqtt3_config_read after the file has been read: the limits are set before the bridges are
\* looked at, the logging after it.  After an error everything read before it stays.
Finish(r) ==
  LET set == [r.config EXCEPT !.broker = PersistencePath(@) @@ "user" :> "mosquitto",
                              !.limits = Restrict(r.cr, DOMAIN Limits)]
  IN  IF ~r.ok THEN [config |-> r.config, ok |-> FALSE]
      ELSE IF \E i \in DOMAIN r.config.bridges : ~BridgeIsComplete(r.config.bridges[i])
      THEN [config |-> set, ok |-> FALSE]
      ELSE [config |-> [set EXCEPT !.broker = Logging(@, r.cr)], ok |-> TRUE]

\* The lines of a file, and whether it can be opened
ConfigReadFile(config, opened, lines, reload) ==
  FoldLeft(LAMBDA r, line : ReadLine(r, line, reload), Reader(config, opened), lines)

ConfigRead(config, files, reload) ==
  IF "config_file" \notin DOMAIN config.broker THEN [config |-> config, ok |-> TRUE]
  ELSE LET file   == config.broker.config_file
           opened == file \in DOMAIN files
       IN  Finish(ConfigReadFile(IF reload THEN [config EXCEPT !.broker = InitReload(@)] ELSE config,
                           opened, IF opened THEN files[file] ELSE <<>>, reload))

\* A default listener is asked for by no other one, or by any option of it but tls_version.
ListenerFlags == {"require_certificate", "use_identity_as_username", "use_username_as_clientid"}
DefaultIsWanted(config) ==
  LET is == config.default IN
  \/ config.listeners = <<>>
  \/ \E name \in DOMAIN is \cap ListenerFlags : is[name]
  \/ is.max_connections # -1
  \/ DOMAIN is \ (ListenerFlags \cup {"tls_version", "max_connections", "protocol"}) # {}

Argument(s, arg, files) ==
  CASE ~s.ok -> s
    [] s.ok /\ arg[1] = "-c" /\ Len(arg) > 1 ->
         ConfigRead([s.config EXCEPT !.broker = With(@, "config_file", arg[2])], files, FALSE)
    [] s.ok /\ arg[1] = "-p" /\ Len(arg) > 1 ->
         IF arg[2] \in WordsFor(1 .. 65535)
         THEN [s EXCEPT !.config.default = With(@, "port", arg[2])] ELSE [s EXCEPT !.ok = FALSE]
    [] s.ok /\ arg[1] = "-v" -> [s EXCEPT !.config.broker.verbose = TRUE]
    [] s.ok /\ arg[1] = "-d" -> [s EXCEPT !.config.broker = With(@, "daemon", TRUE)]
    [] OTHER -> [s EXCEPT !.ok = FALSE]

\* The end of mqtt3_config_parse_args
WithDefaults(s) ==
  [s EXCEPT
    !.config.listeners = IF DefaultIsWanted(s.config)
                         THEN Append(@, s.config.default @@ "port" :> "1883") ELSE @,
    !.config.broker = Logging(@ @@ "user" :> "mosquitto", <<>>)]

\* mqtt3_config_parse_args
ParseArgs(args, files) ==
  WithDefaults(FoldLeft(LAMBDA s, arg : Argument(s, arg, files),
                        [config |-> ConfigInit, ok |-> TRUE], args))
=============================================================================
