---------------------------- MODULE Configuration ----------------------------
(***************************************************************************)
(* readAndAssignConfigurationDetails: each line of the configuration file  *)
(* is given to jsmn on its own, and a line whose first token is a string   *)
(* and whose second one is a bare word sets what the string names.         *)
(*                                                                         *)
(* A line is what jsmn makes of it: its key, its value, and the number of  *)
(* words of the comment that follows (of which a line without a key is     *)
(* made).  Of the settings there are the texts, for which the name of the  *)
(* broker stands, the numbers, for which the periods of the loops stand,   *)
(* and those of the light sensors, which depend on each other.             *)
(***************************************************************************)
EXTENDS Naturals, Sequences

CONSTANTS
  Sensors,      \* LEFT_TOP, RIGHT_TOP, LEFT_BOTTOM, RIGHT_BOTTOM
  Inputs,       \* LIGHT_SENSOR_*: the numbers of the inputs, 0 among them
  Scalars,      \* the tuning of a sensor: LIGHT_SENSOR_SCALAR_ and _OFFSET_
  Loops,        \* the threads with a period: PWM_UPDATE_RATE_SECONDS and so on
  Periods,      \* their values
  HostNames,    \* values of MQTT_HOST_NAME, as sequences
  Missing,      \* of a line without a value
  Lines,        \* the lines that a file may have
  MaxTokens,    \* MAX_PARSE_TOKENS: 10 in the code
  MaxLines      \* bound on the lines of a file

InputKey(s)  == [sets |-> "input", of |-> s]
ScalarKey(s) == [sets |-> "scalar", of |-> s]
PeriodKey(l) == [sets |-> "period", of |-> l]
HostKey      == [sets |-> "host", of |-> "broker"]
MappingKey(s) == [sets |-> "mapping", of |-> s]   \* A2D_*, which the shipped files have
UnknownKey   == [sets |-> "nothing", of |-> "unknown"]   \* of another name
NoKey        == [sets |-> "nothing", of |-> "comment"]   \* the first token is no string

Keys ==
  {InputKey(s) : s \in Sensors} \cup {ScalarKey(s) : s \in Sensors}
    \cup {PeriodKey(l) : l \in Loops} \cup {HostKey}

\* What the code does not compare with.
OtherKeys == {MappingKey(s) : s \in Sensors} \cup {UnknownKey, NoKey}

Values(key) ==
  CASE key.sets \in {"input", "mapping"} -> Inputs
    [] key.sets = "scalar" -> Scalars
    [] key.sets = "period" -> Periods
    [] key.sets = "host" -> HostNames
    [] OTHER -> {0}

ASSUME ConfigurationAssumption ==
  /\ 0 \in Inputs /\ Inputs \subseteq Nat
  /\ 0 \in Scalars /\ Scalars \subseteq Nat
  /\ 0 \in Periods /\ Periods \subseteq Nat
  /\ \A h \in HostNames : h \in Seq(Nat) /\ h # <<>>
  /\ MaxTokens \in Nat /\ MaxTokens >= 2
  /\ \A line \in Lines :
       /\ line.key \in Keys \cup OtherKeys
       /\ line.value \in Values(line.key) \cup {Missing}
       /\ line.words \in Nat
       /\ line.torn \in BOOLEAN /\ line.commented \in BOOLEAN

VARIABLES
  settings,   \* the static variables of GlobalConfig.c
  file        \* the lines that have been read

configurationVars == <<settings, file>>

\* What the static variables hold before.
NoSettings ==
  [input |-> [s \in Sensors |-> 0], scalar |-> [i \in Inputs |-> 0],
   period |-> [l \in Loops |-> 0], host |-> <<>>]

\* strncpy of the length of the value: what stood behind it stays.
Overwrite(text, value) == value \o SubSeq(text, Len(value) + 1, Len(text))

\* Mutants of Assign: the branch of a tuning was copied from the first sensor's and its index
\* left; the first value of a period stays.
AssignCopied(s, key, v) ==
  CASE key.sets = "input" -> [s EXCEPT !.input[key.of] = v]
    [] key.sets = "scalar" -> [s EXCEPT !.scalar[s.input[CHOOSE t \in Sensors : TRUE]] = v]
    [] key.sets = "period" -> [s EXCEPT !.period[key.of] = v]
    [] key.sets = "host" -> [s EXCEPT !.host = Overwrite(@, v)]
    [] OTHER -> s

AssignFirst(s, key, v) ==
  CASE key.sets = "input" -> [s EXCEPT !.input[key.of] = v]
    [] key.sets = "scalar" -> [s EXCEPT !.scalar[s.input[key.of]] = v]
    [] key.sets = "period" -> [s EXCEPT !.period[key.of] = IF @ = 0 THEN v ELSE @]
    [] key.sets = "host" -> [s EXCEPT !.host = v]
    [] OTHER -> s

\* The comparisons with the known names.  A tuning goes to the input that its sensor has now.
Assign(s, key, v) ==
  CASE key.sets = "input" -> [s EXCEPT !.input[key.of] = v]
    [] key.sets = "scalar" -> [s EXCEPT !.scalar[s.input[key.of]] = v]
    [] key.sets = "period" -> [s EXCEPT !.period[key.of] = v]
    [] key.sets = "host" -> [s EXCEPT !.host = Overwrite(@, v)]
    [] OTHER -> s

\* jsmn_parse: the number of tokens.
Tokens(line) ==
  (IF line.key = NoKey THEN 0 ELSE 1) + (IF line.value = Missing THEN 0 ELSE 1) + line.words

\* NumTokens > 0: jsmn has neither run out of tokens nor met a bracket, a quote or a byte
\* that it does not take.
Parsed(line) == ~line.torn /\ Tokens(line) \in 1 .. MaxTokens

\* TokenKey and TokenValue.  Without a value the second token is the first word of the
\* comment or, if there is none, what an earlier line has left there.
Assigned(s, line) ==
  IF ~Parsed(line) \/ line.key = NoKey THEN {s}
  ELSE IF line.value # Missing THEN {Assign(s, line.key, line.value)}
  ELSE {s} \cup {Assign(s, line.key, v) : v \in Values(line.key)}

ReadLine(line) ==
  /\ Len(file) < MaxLines
  /\ file' = Append(file, line)
  /\ settings' \in Assigned(settings, line)

-----------------------------------------------------------------------------
\* What the file means, in the words of its own first lines: a line is '"Key" : Value',
\* perhaps with a comment, or it is a comment.
ValueAt(key, default, n) ==
  LET given == {i \in 1 .. n : file[i].key = key}
  IN  IF given = {} THEN default
      ELSE file[CHOOSE i \in given : \A j \in given : j <= i].value

LastValue(key, default) == ValueAt(key, default, Len(file))

\* Files that the code takes as they are meant: no parameter is commented out by the lines
\* around it, none lacks its value, and no comment behind one is more than jsmn can take.
Plain ==
  \A i \in DOMAIN file : file[i].key \in Keys => Parsed(file[i]) /\ ~file[i].commented /\ file[i].value # Missing

\* No name of the broker follows a longer one.
NamesGrow ==
  \A i, j \in DOMAIN file : i < j /\ file[i].key = HostKey /\ file[j].key = HostKey => Len(file[i].value) <= Len(file[j].value)

\* Of a plain file, each setting is the last one given (readAndAssignConfigurationDetails).
EachSettingIsItsLast ==
  Plain =>
    /\ \A l \in Loops : settings.period[l] = LastValue(PeriodKey(l), 0)
    /\ \A s \in Sensors : settings.input[s] = LastValue(InputKey(s), 0)
    /\ NamesGrow => settings.host = LastValue(HostKey, <<>>)

\* The input that the file has given a sensor before its line n.
InputAt(s, n) == ValueAt(InputKey(s), 0, n)

\* Nothing is tuned behind line n that is then at the input that s had there.
TuningLasts(s, n) ==
  \A i \in DOMAIN file, t \in Sensors :
    n < i /\ file[i].key = ScalarKey(t) => InputAt(t, i) # InputAt(s, n)

\* A sensor has the tuning that the file gives it, in whichever order the lines of the others
\* come and whatever inputs they share or take over, if it has at the end the input that it
\* had at that line ("this must come after the specification of the A/D sensor position
\* mapping") and no later tuning was for that input (lightSensorScalar is indexed by input,
\* and the input is a setting itself).
TuningFollowsSensor ==
  Plain => \A s \in Sensors, n \in DOMAIN file :
    file[n].key = ScalarKey(s) /\ TuningLasts(s, n) /\ InputAt(s, Len(file)) = InputAt(s, n) =>
      settings.scalar[settings.input[s]] = file[n].value

\* The file's "A/D sensor position mapping": each light sensor has the input that the lines
\* A2D_* give it (the comparisons with LIGHT_SENSOR_LEFT_TOP and so on).  It does not hold:
\* nothing reads those lines.
MappingIsObeyed ==
  Plain => \A s \in Sensors : settings.input[s] = LastValue(MappingKey(s), settings.input[s])
=============================================================================
