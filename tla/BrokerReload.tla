---------------------------- MODULE BrokerReload ----------------------------
(***************************************************************************)
(* The broker is told by a SIGHUP to read its configuration, its passwords *)
(* and its access lists again while clients are connected.  The files are  *)
(* edited and the signal comes at any moment, also between the two steps   *)
(* in which the main loop reads the configuration and the other files.     *)
(* A restart loses all contexts: persistence is in Broker, what a list     *)
(* grants in Topics.                                                       *)
(***************************************************************************)
EXTENDS BrokerConfig, AccessFiles

CONSTANTS
  Args,           \* the arguments of the command line
  Versions,       \* from the names of the files to what may be in them
  Missing,        \* in place of a file that cannot be opened
  ConnectPackets, \* the packets of Admission that clients send
  NoId, Ids,      \* no identifier, and the identifiers
  IdsWith,        \* from the prefixes to the identifiers that begin with them
  MaxPatterns     \* bound: no signal while there are more patterns, which reloads may add up

VARIABLES
  disk,           \* the files that can be opened
  running,
  config, db,     \* the configuration; the passwords and lists
  contexts,       \* from identifiers to [name, password, clean, connected, acl]
  flag_reload,
  reloading       \* the main loop is between mqtt3_config_read and mosquitto_security_cleanup

vars == <<disk, running, config, db, contexts, flag_reload, reloading>>

\* What a CONNECT is checked against with a configuration and its lists
Checks(cfg, lists) == INSTANCE Admission WITH
  Passwords <- PasswordsOf(lists),
  AllowAnonymous <- cfg.broker.allow_anonymous,
  AllowZeroLengthId <- cfg.broker.allow_zero_length_clientid,
  PrefixedIds <- IF "clientid_prefixes" \in DOMAIN cfg.broker
                 THEN IdsWith[cfg.broker.clientid_prefixes] ELSE Ids,
  UsernameAsClientid <- "use_username_as_clientid" \in DOMAIN cfg.listeners[1]
                          /\ cfg.listeners[1].use_username_as_clientid

Init ==
  /\ disk = <<>>
  /\ running = FALSE
  /\ config = ConfigInit
  /\ db = EmptyDb
  /\ contexts = <<>>
  /\ flag_reload = FALSE
  /\ reloading = FALSE

-----------------------------------------------------------------------------
Edit(file) ==
  /\ \E lines \in Versions[file] :
       disk' = IF lines = Missing THEN Unset(disk, {file}) ELSE With(disk, file, lines)
  /\ UNCHANGED <<running, config, db, contexts, flag_reload, reloading>>

\* main ends if the configuration or one of the files has an error.  No plugin is loaded.
Start ==
  LET read  == ParseArgs(Args, disk)
      lists == SecurityInit(EmptyDb, read.config.broker, disk)
  IN  /\ ~running
      /\ read.ok /\ lists.ok
      /\ running' = TRUE
      /\ config' = read.config
      /\ db' = lists.db
      /\ UNCHANGED <<disk, contexts, flag_reload, reloading>>

\* handle_sigint
Stop ==
  /\ running /\ ~reloading
  /\ running' = FALSE
  /\ config' = ConfigInit
  /\ db' = EmptyDb
  /\ contexts' = <<>>
  /\ flag_reload' = FALSE
  /\ UNCHANGED <<disk, reloading>>

\* handle_sighup
Signal ==
  /\ running /\ Len(db.acl_patterns) <= MaxPatterns
  /\ flag_reload' = TRUE
  /\ UNCHANGED <<disk, running, config, db, contexts, reloading>>

\* What mqtt3_config_read returns is ignored.
LoadConfig ==
  /\ running /\ flag_reload /\ ~reloading
  /\ config' = ConfigRead(config, disk, TRUE).config
  /\ reloading' = TRUE
  /\ UNCHANGED <<disk, running, db, contexts, flag_reload>>

\* mosquitto_security_apply_default: a client without a name is refused by any password file.
Refused(lists, c) ==
  \/ ~config.broker.allow_anonymous /\ c.name = NoName
  \/ ~Checks(config, lists)!KnownUser(c.name, c.password)

Apply(lists, all) ==
  LET kept == {id \in DOMAIN all : ~Refused(lists, all[id])}
  IN  [id \in kept \cup {i \in DOMAIN all : ~all[i].clean} |->
        IF id \notin kept THEN [all[id] EXCEPT !.connected = FALSE]
        ELSE IF AclsOf(lists, all[id].name) # <<>>
        THEN [all[id] EXCEPT !.acl = AclsOf(lists, all[id].name)]
        ELSE all[id]]

\* Mutant: the contexts keep the lists that have been freed.
StillLinked == contexts

\* _acl_cleanup takes the lists away from the contexts, unless it returns early.
Unlinked == IF db.acl_list = <<>> THEN contexts ELSE [id \in DOMAIN contexts |-> [contexts[id] EXCEPT !.acl = <<>>]]

\* Cleanup, init and apply, with their results ignored.  A signal that came since the reload
\* began is forgotten.
LoadSecurity ==
  LET lists == SecurityInit(SecurityCleanup(db), config.broker, disk).db
  IN  /\ running /\ reloading
      /\ db' = lists
      /\ contexts' = Apply(lists, Unlinked)
      /\ flag_reload' = FALSE
      /\ reloading' = FALSE
      /\ UNCHANGED <<disk, running, config>>

\* A CONNECT that is accepted; the old context of the identifier is dropped.
Connect(p) ==
  /\ running /\ ~reloading
  /\ Checks(config, db)!Verdict(p) = 0
  /\ LET named == Checks(config, db)!Named(p)
         name  == IF named THEN p.name ELSE NoName
     IN  contexts' = With(contexts, Checks(config, db)!ClientId(p),
           [name |-> name, password |-> IF named THEN p.password ELSE NoPassword,
            clean |-> p.clean, connected |-> TRUE, acl |-> AclsOf(db, name)])
  /\ UNCHANGED <<disk, running, config, db, flag_reload, reloading>>

Disconnect(id) ==
  /\ running /\ ~reloading
  /\ id \in DOMAIN contexts /\ contexts[id].connected
  /\ contexts' = IF contexts[id].clean THEN Unset(contexts, {id})
                 ELSE [contexts EXCEPT ![id].connected = FALSE]
  /\ UNCHANGED <<disk, running, config, db, flag_reload, reloading>>

Next ==
  \/ \E file \in DOMAIN Versions : Edit(file)
  \/ Start \/ Stop \/ Signal \/ LoadConfig \/ LoadSecurity
  \/ \E p \in ConnectPackets : Connect(p)
  \/ \E id \in Ids : Disconnect(id)

Spec == Init /\ [][Next]_vars

-----------------------------------------------------------------------------
\* mosquitto.conf(5): what is reloaded on the reload signal, beside the limits
Reloaded == {
  "acl_file", "allow_anonymous", "allow_duplicate_messages", "autosave_interval",
  "autosave_on_changes", "clientid_prefixes", "connection_messages", "log_dest", "log_file",
  "log_timestamp", "log_type", "password_file", "persistence", "persistence_file", "persistence_location",
  "persistent_client_expiration", "psk_file", "queue_qos0_messages", "retry_interval",
  "sys_interval", "upgrade_outgoing_qos"}

Only(broker, names) == Restrict(broker, DOMAIN broker \cap names)
NotReloaded == {"auth_plugin", "auth_plugin_deny_special_chars", "pid_file", "user"}

\* A reload is as good as a restart: of files with which the broker would start it accepts the
\* configuration, sets every option that is documented to be reloaded as a start does, leaves
\* the others, the listeners and the bridges as they were, and finds the same passwords, keys
\* and lists, unless only patterns were in force before.
ReloadIsRestart ==
  [][LET fresh == ParseArgs(Args, disk)
         lists == SecurityInit(EmptyDb, config.broker, disk) IN
     /\ LoadConfig /\ fresh.ok =>
          /\ ConfigRead(config, disk, TRUE).ok
          /\ Only(config'.broker, Reloaded) = Only(fresh.config.broker, Reloaded)
          /\ Only(config'.broker, NotReloaded) = Only(config.broker, NotReloaded)
          /\ config'.limits = fresh.config.limits
          /\ config'.listeners = config.listeners /\ config'.bridges = config.bridges
     /\ LoadSecurity /\ lists.ok /\ (db.acl_list = <<>> => db.acl_patterns = <<>>) => db' = lists.db]_vars

\* Of the connected clients a reload drops exactly those that could not connect again with their
\* names and passwords, and those without a name if there is a password file; the others have
\* the access list that they would get by connecting again ("Disconnecting users with invalid
\* passwords", "Reapplying ACLs": the comment on mosquitto_security_apply_default; of the
\* password file mosquitto.conf(5) says otherwise, see ConnectedStay).
ReloadIsReconnect ==
  [][LoadSecurity =>
       \A id \in DOMAIN contexts :
         LET c       == contexts[id]
             packet  == [protocol |-> "MQTT", name |-> c.name, password |-> c.password, torn |-> "nothing"]
             checks  == Checks(config', db')!UserChecks(packet)
             allowed == \A i \in DOMAIN checks : ~checks[i].fails
             stays   == id \in DOMAIN contexts' /\ contexts'[id].connected
         IN  c.connected =>
               /\ stays <=> allowed /\ (c.name = NoName => db'.unpwd = <<>>)
               /\ stays => contexts'[id].acl = AclsOf(db', c.name)]_vars

\* mosquitto.conf(5) of password_file: "Clients that are already connected will not be
\* affected" by its reload, so a client that gave a name stays.  It does not hold of
\* mosquitto_security_apply_default.
ConnectedStay ==
  [][LoadSecurity =>
       \A id \in DOMAIN contexts :
         contexts[id].connected /\ contexts[id].name # NoName =>
           id \in DOMAIN contexts' /\ contexts'[id].connected]_vars

\* mosquitto.conf(5) of acl_file: "The currently loaded ACLs will be freed and reloaded", so
\* that what is in force is what the file holds.  It does not hold of _acl_cleanup.
ListsAreThoseOfTheFile ==
  [][LET lists == SecurityInit(EmptyDb, config.broker, disk) IN
     LoadSecurity /\ lists.ok =>
       db'.acl_list = lists.db.acl_list /\ db'.acl_patterns = lists.db.acl_patterns]_vars
=============================================================================
