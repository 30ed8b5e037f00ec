------------------------------ MODULE Admission ------------------------------
(***************************************************************************)
(* What the broker asks of a CONNECT packet, in the order of               *)
(* mqtt3_handle_connect.  A packet is a record                             *)
(*   [protocol, versionFits, reserved, clean, id, will, willFits, name,    *)
(*    password, torn]                                                      *)
(* versionFits: its version is the one of its protocol; reserved: what is  *)
(* reserved in it, a "bit" or the "qos" 3 of a will; willFits: the flags   *)
(* and the topic of the will are valid; torn: the field in which the       *)
(* packet ends too early.  Certificates (use_identity_as_username) are     *)
(* left out.                                                               *)
(***************************************************************************)
EXTENDS Naturals, Sequences

CONSTANTS
  NoId, NoName, NoPassword,   \* an empty identifier; fields that are not there
  Passwords,                  \* password_file: from the names to their passwords
  AllowAnonymous,             \* allow_anonymous
  AllowZeroLengthId,          \* allow_zero_length_clientid
  PrefixedIds,                \* the identifiers with clientid_prefixes; NoId: the generated ones
  UsernameAsClientid          \* use_username_as_clientid

ASSUME AdmissionAssumption == {AllowAnonymous, AllowZeroLengthId, UsernameAsClientid} \subseteq BOOLEAN

V311(p) == p.protocol = "MQTT"
Closed == 99     \* the socket is closed without a CONNACK

\* The password; of a packet of version 3.1 that ends before it there is none.
PasswordOf(p) == IF p.torn = "password" THEN NoPassword ELSE p.password

\* mosquitto_unpwd_check: without a password file any name will do.
KnownUser(name, password) ==
  DOMAIN Passwords # {} =>
    name \in DOMAIN Passwords /\ Passwords[name] \in {password, NoPassword}

\* username_flag; of a packet of version 3.1 that ends before it, it is ignored.
Named(p) == p.name # NoName /\ p.torn # "name"

Check(fails, answer) == [fails |-> fails, answer |-> answer]

\* From the protocol to the will
ProtocolChecks(p) ==
  << Check(p.torn = "protocol" \/ p.protocol \notin {"MQIsdp", "MQTT"}, Closed),
     Check(~p.versionFits, 1),
     Check(p.reserved = "qos" \/ (V311(p) /\ p.reserved = "bit"), Closed),
     Check(p.torn = "id", Closed),
     Check(p.id = NoId /\ (~V311(p) \/ ~p.clean \/ ~AllowZeroLengthId), 2),
     Check(p.id \notin PrefixedIds, 5),
     Check(p.torn = "will" \/ (~p.willFits /\ (V311(p) \/ p.will # <<>>)), Closed) >>

\* From the user name on
UserChecks(p) ==
  << Check(V311(p) /\ p.torn \in {"name", "password"}, Closed),
     Check(V311(p) /\ p.name = NoName /\ p.password # NoPassword, Closed),
     Check(Named(p) /\ ~KnownUser(p.name, PasswordOf(p)), 5),
     Check(~Named(p) /\ ~AllowAnonymous, 5),
     Check(~Named(p) /\ UsernameAsClientid, 5) >>

\* The first check that fails decides; 0: the connection is accepted.
Verdict(p) ==
  LET failed == SelectSeq(ProtocolChecks(p) \o UserChecks(p), LAMBDA check : check.fails)
  IN  IF failed = <<>> THEN 0 ELSE Head(failed).answer

\* The identifier under which the session is looked for.  (An empty one is replaced by a new
\* one, which no other client has.)
ClientId(p) == IF UsernameAsClientid THEN p.name ELSE p.id
=============================================================================
