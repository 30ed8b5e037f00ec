----------------------------- MODULE AccessFiles -----------------------------
(***************************************************************************)
(* The files with names, passwords, keys and access lists, as              *)
(* security_default.c reads them into                                      *)
(*   db = [unpwd, psk_id, acl_list, acl_patterns],                         *)
(* and how it drops what it has read.  A line is the sequence of its       *)
(* words; a password stands for its hash.                                  *)
(***************************************************************************)
EXTENDS Naturals, SequencesExt

CONSTANTS
  NoName, NoPassword,  \* a user name, a password that is not there
  NoHash,              \* the passwords that are no hash
  NoKey                \* the keys that are not hexadecimal

Found(ok, db) == [ok |-> ok, db |-> db]

EmptyDb == [unpwd |-> <<>>, psk_id |-> <<>>, acl_list |-> <<>>, acl_patterns |-> <<>>]

\* _pwfile_parse: each line is added to what is there.
PwfileParse(entries, lines) ==
  entries \o [i \in DOMAIN lines |->
    [name |-> lines[i][1], password |-> IF Len(lines[i]) > 1 THEN lines[i][2] ELSE NoPassword]]

Protected(entries) == {i \in DOMAIN entries : entries[i].password # NoPassword}

\* The hashes are decoded up to the first that is none.  From it on nobody can give the password.
Undecoded == "undecoded"
UnpwdFileParse(db, lines) ==
  LET read == PwfileParse(db.unpwd, lines)
      bad  == {i \in Protected(read) : read[i].password \in NoHash}
  IN  Found(bad = {},
        [db EXCEPT !.unpwd = [i \in DOMAIN read |->
          IF i \in Protected(read) /\ \E j \in bad : j <= i
          THEN [read[i] EXCEPT !.password = Undecoded] ELSE read[i]]])

PskFileParse(db, lines) ==
  LET read == PwfileParse(db.psk_id, lines)
  IN  Found(\A i \in DOMAIN read : read[i].password \notin NoKey \cup {NoPassword},
              [db EXCEPT !.psk_id = read])

\* The lists of the users, in the order of their first topics
AddAcl(list, user, acl) ==
  LET its == {i \in DOMAIN list : list[i].user = user}
  IN  IF its = {} THEN Append(list, [user |-> user, acl |-> <<acl>>])
      ELSE [i \in DOMAIN list |->
             IF i \in its THEN [list[i] EXCEPT !.acl = Append(@, acl)] ELSE list[i]]

Accesses == [read |-> {"read"}, write |-> {"write"}, readwrite |-> {"read", "write"}]

\* A line with a topic: of the user of the lines before, or a pattern for all.  Another word
\* is passed over, and what stood before an error stays.
AclLine(s, line) ==
  LET access == IF Len(line) > 2 THEN line[2] ELSE "readwrite"
      acl    == [topic |-> Last(line), access |-> Accesses[access]]
  IN  CASE ~s.ok \/ line[1] \notin {"topic", "pattern", "user"} -> s
        [] s.ok /\ line[1] \in {"topic", "pattern"} /\ Len(line) > 1 /\ access \in DOMAIN Accesses ->
             IF line[1] = "topic" THEN [s EXCEPT !.db.acl_list = AddAcl(@, s.user, acl)]
                                  ELSE [s EXCEPT !.db.acl_patterns = Append(@, acl)]
        [] s.ok /\ line[1] = "user" /\ Len(line) > 1 -> [s EXCEPT !.user = line[2]]
        [] OTHER -> [s EXCEPT !.ok = FALSE]

AclFileParse(db, lines) ==
  LET read == FoldLeft(AclLine, [ok |-> TRUE, user |-> NoName, db |-> db], lines)
  IN  Found(read.ok, read.db)

Parse(db, option, lines) ==
  CASE option = "password_file" -> UnpwdFileParse(db, lines)
    [] option = "acl_file" -> AclFileParse(db, lines)
    [] option = "psk_file" -> PskFileParse(db, lines)

\* Without the option nothing is read; a file that cannot be opened is an error.
ReadFile(before, broker, files, option) ==
  IF ~before.ok \/ option \notin DOMAIN broker THEN before
  ELSE IF broker[option] \in DOMAIN files THEN Parse(before.db, option, files[broker[option]])
  ELSE Found(FALSE, before.db)

\* mosquitto_security_init_default: the first error ends it.
SecurityInit(db, broker, files) ==
  FoldLeft(LAMBDA before, option : ReadFile(before, broker, files, option), Found(TRUE, db),
           <<"password_file", "acl_file", "psk_file">>)

\* _acl_cleanup returns early without an acl_list, and so leaves the patterns.
AclCleanup(db) ==
  IF db.acl_list = <<>> THEN db ELSE [db EXCEPT !.acl_list = <<>>, !.acl_patterns = <<>>]

SecurityCleanup(db) == [AclCleanup(db) EXCEPT !.unpwd = <<>>, !.psk_id = <<>>]

\* The first entry of a name counts.
PasswordsOf(db) ==
  [name \in {db.unpwd[i].name : i \in DOMAIN db.unpwd} |->
     db.unpwd[SelectInSeq(db.unpwd, LAMBDA entry : entry.name = name)].password]

\* The list of a user, <<>> if there is none
AclsOf(db, name) == SelectSeq(db.acl_list, LAMBDA entry : entry.user = name)
=============================================================================
