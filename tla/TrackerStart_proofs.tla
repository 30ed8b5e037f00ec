------------------------ MODULE TrackerStart_proofs ------------------------
(***************************************************************************)
(* Proofs about the configuration file, for every set of lines and files   *)
(* of every length and order.  The settings are read line by line, while   *)
(* what the file means (LastValue, InputAt) looks at it as a whole: the    *)
(* proofs go by what one more line changes of the latter (LastOfAppend,    *)
(* ValueAtKept).                                                           *)
(***************************************************************************)
EXTENDS TrackerStart, TLAPS, WellFoundedInduction

Units == {"starting", "reading", "running", "failed", "stopped"}

Settings ==
  [input : [Sensors -> Inputs], scalar : [Inputs -> Scalars], period : [Loops -> Periods], host : Seq(Nat)]

StartTypeOK ==
  /\ settings \in Settings
  /\ file \in Seq(Lines)
  /\ unit \in Units
  /\ readable \in BOOLEAN
  /\ took \in [Loops -> Durations \cup {0}]
  /\ DOMAIN pause \subseteq Loops

\* A tuning stays at the input where its line found the sensor, wherever that goes then.
TuningStays ==
  Plain => \A s \in Sensors, n \in DOMAIN file :
    file[n].key = ScalarKey(s) /\ TuningLasts(s, n) => settings.scalar[InputAt(s, n)] = file[n].value

FileInv == EachSettingIsItsLast /\ TuningStays

StartIInv == StartTypeOK /\ FileInv

-----------------------------------------------------------------------------
\* A set of positions in a file, unless it is empty, has a last one.
LEMMA LastPosition ==
  ASSUME NEW n \in Nat, NEW I \in SUBSET (1 .. n), I # {}
  PROVE  \E i \in I : \A j \in I : j <= i
<1> DEFINE D == {n - i : i \in I}
<1>1. D \subseteq Nat /\ D # {}
  <2>1. \A i \in I : i \in 1 .. n /\ n - i \in Nat
    OBVIOUS
  <2> QED BY <2>1
<1>2. PICK d \in D : \A e \in D : ~(<<e, d>> \in OpToRel(<, Nat))
  BY <1>1, NatLessThanWellFounded, WFMin
<1>3. \A e \in D : ~(e < d)
  BY <1>1, <1>2 DEF OpToRel
<1>4. PICK i \in I : d = n - i
  OBVIOUS
<1>5. \A j \in I : n - j \in D
  OBVIOUS
<1>6. \A j \in I : ~(n - j < n - i)
  BY <1>3, <1>4, <1>5
<1> QED
  BY <1>6

\* The file after one more line.
LEMMA LineAppended ==
  ASSUME file \in Seq(Lines), NEW line \in Lines, file' = Append(file, line)
  PROVE  /\ file' \in Seq(Lines)
         /\ DOMAIN file = 1 .. Len(file) /\ Len(file) \in Nat
         /\ DOMAIN file' = (DOMAIN file) \cup {Len(file) + 1}
         /\ \A i \in DOMAIN file : file'[i] = file[i]
         /\ file'[Len(file) + 1] = line
  OBVIOUS

\* The lines up to one that has been read do not change.
LEMMA ValueAtKept ==
  ASSUME file \in Seq(Lines), NEW line \in Lines, file' = Append(file, line), NEW key, NEW default,
         NEW n \in 0 .. Len(file)
  PROVE  ValueAt(key, default, n)' = ValueAt(key, default, n)
<1> DEFINE given == {i \in 1 .. n : file[i].key = key}
           given1 == {i \in 1 .. n : file'[i].key = key}
           last(G) == CHOOSE i \in G : \A j \in G : j <= i
<1>1. n \in Nat /\ \A i \in 1 .. n : file'[i] = file[i]
  BY LineAppended
<1>2. given1 = given
  BY <1>1
<1>3. ValueAt(key, default, n) = IF given = {} THEN default ELSE file[last(given)].value
  BY DEF ValueAt
<1>4. ValueAt(key, default, n)' = IF given1 = {} THEN default ELSE file'[last(given1)].value
  BY DEF ValueAt
<1>5. CASE given # {}
  <2>1. given \in SUBSET (1 .. n)
    OBVIOUS
  <2>2. \E i \in given : \A j \in given : j <= i
    BY <1>1, <1>5, <2>1, LastPosition
  <2>3. last(given) \in given
    BY <2>2
  <2>4. file'[last(given)] = file[last(given)]
    BY <1>1, <2>3
  <2>5. ValueAt(key, default, n)' = file'[last(given)].value
    BY <1>2, <1>4, <1>5
  <2> QED
    BY <1>3, <1>5, <2>4, <2>5
<1> QED
  BY <1>2, <1>3, <1>4, <1>5

\* The last value of a key is that of the new line, if it has the key, and what it was if not.
LEMMA LastOfAppend ==
  ASSUME file \in Seq(Lines), NEW line \in Lines, file' = Append(file, line), NEW key, NEW default
  PROVE  LastValue(key, default)' = IF line.key = key THEN line.value ELSE LastValue(key, default)
<1> DEFINE n == Len(file) + 1
           given == {i \in 1 .. Len(file) : file[i].key = key}
           given1 == {i \in 1 .. n : file'[i].key = key}
           last(G) == CHOOSE i \in G : \A j \in G : j <= i
<1>1. /\ Len(file) \in Nat /\ Len(file') = n
      /\ 1 .. n = (1 .. Len(file)) \cup {n}
      /\ \A i \in 1 .. Len(file) : file'[i] = file[i]
      /\ file'[n] = line
  BY LineAppended
<1>2. LastValue(key, default) = ValueAt(key, default, Len(file))
  BY DEF LastValue
<1>3. LastValue(key, default)' = IF given1 = {} THEN default ELSE file'[last(given1)].value
  BY <1>1 DEF LastValue, ValueAt
<1>4. CASE line.key = key
  <2>1. given1 = given \cup {n} /\ \A j \in given : j \in 1 .. Len(file)
    BY <1>1, <1>4
  <2>2. n \in given1 /\ \A j \in given1 : j <= n
    BY <1>1, <2>1
  <2>3. last(given1) \in given1 /\ \A j \in given1 : j <= last(given1)
    BY <2>2
  <2>4. last(given1) = n
    BY <1>1, <2>1, <2>2, <2>3
  <2> QED
    BY <1>1, <1>3, <1>4, <2>2, <2>4
<1>5. CASE line.key # key
  <2>1. given1 = given
    BY <1>1, <1>5
  <2>2. ValueAt(key, default, Len(file)) = IF given = {} THEN default ELSE file[last(given)].value
    BY DEF ValueAt
  <2>3. CASE given = {}
    BY <1>2, <1>3, <1>5, <2>1, <2>2, <2>3
  <2>4. CASE given # {}
    <3>1. given \in SUBSET (1 .. Len(file))
      OBVIOUS
    <3>2. \E i \in given : \A j \in given : j <= i
      BY <1>1, <2>4, <3>1, LastPosition
    <3>3. last(given) \in given
      BY <3>2
    <3>4. file'[last(given)] = file[last(given)]
      BY <1>1, <3>3
    <3> QED
      BY <1>2, <1>3, <1>5, <2>1, <2>2, <2>4, <3>4
  <2> QED BY <2>3, <2>4
<1> QED BY <1>4, <1>5

\* If none of the lines up to one has the key they say nothing of it; otherwise one has the
\* value.
LEMMA ValueIsGiven ==
  ASSUME NEW key, NEW default, NEW n \in Nat
  PROVE  \/ /\ ValueAt(key, default, n) = default
            /\ \A i \in 1 .. n : file[i].key # key
         \/ \E i \in 1 .. n : file[i].key = key /\ ValueAt(key, default, n) = file[i].value
<1> DEFINE given == {i \in 1 .. n : file[i].key = key}
           last == CHOOSE i \in given : \A j \in given : j <= i
<1>1. ValueAt(key, default, n) = IF given = {} THEN default ELSE file[last].value
  BY DEF ValueAt
<1>2. CASE given = {}
  BY <1>1, <1>2
<1>3. CASE given # {}
  <2>1. given \in SUBSET (1 .. n)
    OBVIOUS
  <2>2. \E i \in given : \A j \in given : j <= i
    BY <1>3, <2>1, LastPosition
  <2>3. last \in given
    BY <2>2
  <2> QED
    BY <1>1, <1>3, <2>3
<1> QED BY <1>2, <1>3

\* The same of all lines.
LEMMA LastIsGiven ==
  ASSUME file \in Seq(Lines), NEW key, NEW default
  PROVE  \/ /\ LastValue(key, default) = default
            /\ \A i \in DOMAIN file : file[i].key # key
         \/ \E i \in DOMAIN file : file[i].key = key /\ LastValue(key, default) = file[i].value
<1>1. Len(file) \in Nat /\ DOMAIN file = 1 .. Len(file)
  OBVIOUS
<1> QED
  BY <1>1, ValueIsGiven DEF LastValue

-----------------------------------------------------------------------------
\* What a line may set.
LEMMA KeyKinds ==
  ASSUME NEW key \in Keys \cup OtherKeys
  PROVE  \/ \E s \in Sensors : key = InputKey(s) /\ key.sets = "input" /\ key.of = s /\ Values(key) = Inputs
         \/ \E s \in Sensors : key = ScalarKey(s) /\ key.sets = "scalar" /\ key.of = s /\ Values(key) = Scalars
         \/ \E l \in Loops : key = PeriodKey(l) /\ key.sets = "period" /\ key.of = l /\ Values(key) = Periods
         \/ key = HostKey /\ key.sets = "host" /\ Values(key) = HostNames
         \/ key \notin Keys /\ key.sets \in {"nothing", "mapping"}
BY DEF Keys, OtherKeys, Values, InputKey, ScalarKey, PeriodKey, HostKey, MappingKey,
       UnknownKey, NoKey

\* strncpy over a text of at least the length of the value, or a shorter one.
LEMMA OverwriteText ==
  ASSUME NEW text \in Seq(Nat), NEW value \in Seq(Nat)
  PROVE  /\ Overwrite(text, value) \in Seq(Nat)
         /\ Len(text) <= Len(value) => Overwrite(text, value) = value
<1>1. SubSeq(text, Len(value) + 1, Len(text)) \in Seq(Nat)
  OBVIOUS
<1>2. Len(text) <= Len(value) => SubSeq(text, Len(value) + 1, Len(text)) = <<>>
  OBVIOUS
<1>3. value \o <<>> = value
  OBVIOUS
<1> QED
  BY <1>1, <1>2, <1>3 DEF Overwrite

\* What each kind of key assigns.
LEMMA AssignKinds ==
  ASSUME NEW s \in Settings, NEW key \in Keys \cup OtherKeys, NEW v \in Values(key)
  PROVE  /\ Assign(s, key, v) \in Settings
         /\ key.sets = "input" => Assign(s, key, v) = [s EXCEPT !.input[key.of] = v]
         /\ key.sets = "scalar" => Assign(s, key, v) = [s EXCEPT !.scalar[s.input[key.of]] = v]
         /\ key.sets = "period" => Assign(s, key, v) = [s EXCEPT !.period[key.of] = v]
         /\ key.sets = "host" => Assign(s, key, v) = [s EXCEPT !.host = Overwrite(@, v)]
         /\ key.sets \in {"nothing", "mapping"} => Assign(s, key, v) = s
<1>1. /\ key.sets = "input" => Assign(s, key, v) = [s EXCEPT !.input[key.of] = v]
      /\ key.sets = "scalar" => Assign(s, key, v) = [s EXCEPT !.scalar[s.input[key.of]] = v]
      /\ key.sets = "period" => Assign(s, key, v) = [s EXCEPT !.period[key.of] = v]
      /\ key.sets = "host" => Assign(s, key, v) = [s EXCEPT !.host = Overwrite(@, v)]
      /\ key.sets \in {"nothing", "mapping"} => Assign(s, key, v) = s
  BY DEF Assign
<1>2. Assign(s, key, v) \in Settings
  <2>1. CASE \E t \in Sensors : key = InputKey(t) /\ key.sets = "input" /\ key.of = t /\ Values(key) = Inputs
    <3>1. [s.input EXCEPT ![key.of] = v] \in [Sensors -> Inputs]
      BY <2>1 DEF Settings
    <3> QED
      BY <1>1, <2>1, <3>1, SMTT(30) DEF Settings
  <2>2. CASE \E t \in Sensors : key = ScalarKey(t) /\ key.sets = "scalar" /\ key.of = t /\ Values(key) = Scalars
    BY <1>1, <2>2, SMTT(30) DEF Settings
  <2>3. CASE \E l \in Loops : key = PeriodKey(l) /\ key.sets = "period" /\ key.of = l /\ Values(key) = Periods
    BY <1>1, <2>3, SMTT(30) DEF Settings
  <2>4. CASE key = HostKey /\ key.sets = "host" /\ Values(key) = HostNames
    <3>1. s.host \in Seq(Nat) /\ v \in Seq(Nat)
      BY <2>4, ConfigurationAssumption DEF Settings
    <3>2. Overwrite(s.host, v) \in Seq(Nat)
      BY <3>1, OverwriteText
    <3> QED
      BY <1>1, <2>4, <3>2 DEF Settings
  <2>5. CASE key \notin Keys /\ key.sets \in {"nothing", "mapping"}
    BY <1>1, <2>5
  <2> QED
    BY <2>1, <2>2, <2>3, <2>4, <2>5, KeyKinds
<1> QED BY <1>1, <1>2

\* A line keeps the types; one of a plain file sets what it says, or nothing.
LEMMA LineAssigns ==
  ASSUME settings \in Settings, NEW line \in Lines, settings' \in Assigned(settings, line)
  PROVE  /\ settings' \in Settings
         /\ line.key \in Keys /\ Parsed(line) /\ line.value # Missing =>
              line.value \in Values(line.key) /\ settings' = Assign(settings, line.key, line.value)
         /\ line.key \notin Keys => settings' = settings
<1>1. /\ line.key \in Keys \cup OtherKeys
      /\ line.value \in Values(line.key) \cup {Missing}
  BY ConfigurationAssumption
<1>2. \A v \in Values(line.key) :
        /\ Assign(settings, line.key, v) \in Settings
        /\ line.key \notin Keys => Assign(settings, line.key, v) = settings
  <2> TAKE v \in Values(line.key)
  <2>1. line.key \notin Keys => line.key.sets \in {"nothing", "mapping"}
    BY <1>1 DEF OtherKeys, MappingKey, UnknownKey, NoKey
  <2> QED BY <1>1, <2>1, AssignKinds
<1>3. NoKey \notin Keys
  BY DEF Keys, NoKey, InputKey, ScalarKey, PeriodKey, HostKey
<1>4. \/ settings' = settings
      \/ line.value # Missing /\ settings' = Assign(settings, line.key, line.value)
      \/ line.value = Missing /\ \E v \in Values(line.key) : settings' = Assign(settings, line.key, v)
  BY DEF Assigned
<1>5. settings' \in Settings /\ (line.key \notin Keys => settings' = settings)
  BY <1>1, <1>2, <1>4
<1>6. ASSUME line.key \in Keys, Parsed(line), line.value # Missing
      PROVE  line.value \in Values(line.key) /\ settings' = Assign(settings, line.key, line.value)
  BY <1>1, <1>3, <1>6 DEF Assigned
<1> QED BY <1>5, <1>6

-----------------------------------------------------------------------------
\* What is true of a file that has one more line was true of the file, and of the line.
LEMMA PlainLonger ==
  ASSUME file \in Seq(Lines), NEW line \in Lines, file' = Append(file, line)
  PROVE  /\ Plain' => Plain /\ (line.key \in Keys => Parsed(line) /\ line.value # Missing)
         /\ NamesGrow' => NamesGrow
         /\ NamesGrow' /\ line.key = HostKey =>
              \A i \in DOMAIN file : file[i].key = HostKey => Len(file[i].value) <= Len(line.value)
<1> DEFINE n == Len(file) + 1
<1>1. /\ DOMAIN file = 1 .. Len(file) /\ Len(file) \in Nat
      /\ DOMAIN file' = (DOMAIN file) \cup {n}
      /\ \A i \in DOMAIN file : file'[i] = file[i]
      /\ file'[n] = line
  BY LineAppended
<1>2. \A i \in DOMAIN file : i \in DOMAIN file' /\ i < n
  BY <1>1
<1> HIDE DEF n
<1>3. Plain' => Plain /\ (line.key \in Keys => Parsed(line) /\ line.value # Missing)
  BY <1>1, <1>2 DEF Plain, Parsed, Tokens
<1>4. NamesGrow' => NamesGrow
  BY <1>1, <1>2 DEF NamesGrow
<1>5. ASSUME NamesGrow', line.key = HostKey, NEW i \in DOMAIN file, file[i].key = HostKey
      PROVE  Len(file[i].value) <= Len(line.value)
  BY <1>1, <1>2, <1>5 DEF NamesGrow, HostKey
<1> QED
  BY <1>3, <1>4, <1>5

\* A line of a plain file: what it says is set, and it is the last of its key.
LEMMA PlainLine ==
  ASSUME StartTypeOK, NEW line \in Lines, ReadLine(line), Plain'
  PROVE  /\ Plain
         /\ line.key \in Keys \cup OtherKeys
         /\ line.key \notin Keys => settings' = settings
         /\ line.key \in Keys =>
              line.value \in Values(line.key) /\ settings' = Assign(settings, line.key, line.value)
         /\ \A key, default : LastValue(key, default)' =
              IF line.key = key THEN line.value ELSE LastValue(key, default)
<1>1. settings \in Settings /\ file \in Seq(Lines)
  BY DEF StartTypeOK
<1>2. file' = Append(file, line) /\ settings' \in Assigned(settings, line)
  BY DEF ReadLine
<1>3. Plain /\ (line.key \in Keys => Parsed(line) /\ line.value # Missing)
  BY <1>1, <1>2, PlainLonger
<1>4. ASSUME NEW key, NEW default
      PROVE  LastValue(key, default)' = IF line.key = key THEN line.value ELSE LastValue(key, default)
  BY <1>1, <1>2, LastOfAppend
<1> QED
  BY <1>1, <1>2, <1>3, <1>4, LineAssigns, ConfigurationAssumption

\* The last setting is the one that counts.
LEMMA ReadSetsLast ==
  ASSUME StartTypeOK, EachSettingIsItsLast, NEW line \in Lines, ReadLine(line)
  PROVE  EachSettingIsItsLast'
<1> SUFFICES ASSUME Plain'
             PROVE  /\ \A l \in Loops : settings'.period[l] = LastValue(PeriodKey(l), 0)'
                    /\ \A s \in Sensors : settings'.input[s] = LastValue(InputKey(s), 0)'
                    /\ NamesGrow' => settings'.host = LastValue(HostKey, <<>>)'
  BY DEF EachSettingIsItsLast
<1> DEFINE key == line.key
           v == line.value
<1>1. /\ key \in Keys \cup OtherKeys
      /\ key \notin Keys => settings' = settings
      /\ key \in Keys => v \in Values(key) /\ settings' = Assign(settings, key, v)
      /\ \A k, default : LastValue(k, default)' = IF key = k THEN v ELSE LastValue(k, default)
  BY PlainLine
<1>2. /\ \A l \in Loops : settings.period[l] = LastValue(PeriodKey(l), 0)
      /\ \A s \in Sensors : settings.input[s] = LastValue(InputKey(s), 0)
      /\ NamesGrow' => settings.host = LastValue(HostKey, <<>>)
  BY PlainLine, PlainLonger DEF EachSettingIsItsLast, ReadLine, StartTypeOK
<1>3. settings \in Settings
  BY DEF StartTypeOK
<1> USE DEF PeriodKey, InputKey, ScalarKey, HostKey
<1>4. CASE \E s \in Sensors : key = InputKey(s) /\ key.sets = "input" /\ key.of = s /\ Values(key) = Inputs
  <2>1. PICK s \in Sensors : key = InputKey(s)
    BY <1>4
  <2>2. settings' = [settings EXCEPT !.input[s] = v]
    BY <1>1, <1>3, <2>1, AssignKinds DEF Keys
  <2> QED
    BY <1>1, <1>2, <1>3, <2>1, <2>2 DEF Settings
<1>5. CASE \E s \in Sensors : key = ScalarKey(s) /\ key.sets = "scalar" /\ key.of = s /\ Values(key) = Scalars
  <2>1. PICK s \in Sensors : key = ScalarKey(s)
    BY <1>5
  <2>2. settings' = [settings EXCEPT !.scalar[settings.input[s]] = v]
    BY <1>1, <1>3, <2>1, AssignKinds DEF Keys
  <2> QED
    BY <1>1, <1>2, <1>3, <2>1, <2>2 DEF Settings
<1>6. CASE \E l \in Loops : key = PeriodKey(l) /\ key.sets = "period" /\ key.of = l /\ Values(key) = Periods
  <2>1. PICK l \in Loops : key = PeriodKey(l)
    BY <1>6
  <2>2. settings' = [settings EXCEPT !.period[l] = v]
    BY <1>1, <1>3, <2>1, AssignKinds DEF Keys
  <2> QED
    BY <1>1, <1>2, <1>3, <2>1, <2>2 DEF Settings
<1>7. CASE key = HostKey /\ key.sets = "host" /\ Values(key) = HostNames
  <2>1. settings' = [settings EXCEPT !.host = Overwrite(@, v)]
    BY <1>1, <1>3, <1>7, AssignKinds DEF Keys
  <2>2. v \in Seq(Nat) /\ settings.host \in Seq(Nat)
    BY <1>1, <1>3, <1>7, ConfigurationAssumption DEF Keys, Settings
  <2>3. ASSUME NamesGrow'
        PROVE  Len(settings.host) <= Len(v)
    <3>1. \A i \in DOMAIN file : file[i].key = HostKey => Len(file[i].value) <= Len(v)
      BY <1>7, <2>3, PlainLonger DEF ReadLine, StartTypeOK
    <3>2. \/ settings.host = <<>>
          \/ \E i \in DOMAIN file : file[i].key = HostKey /\ settings.host = file[i].value
      BY <1>2, <2>3, LastIsGiven DEF StartTypeOK
    <3> QED
      BY <2>2, <3>1, <3>2
  <2>4. NamesGrow' => settings'.host = v
    BY <1>3, <2>1, <2>2, <2>3, OverwriteText DEF Settings
  <2>5. settings'.period = settings.period /\ settings'.input = settings.input
    BY <1>3, <2>1 DEF Settings
  <2> QED
    BY <1>1, <1>2, <1>7, <2>4, <2>5
<1>8. CASE key \notin Keys /\ key.sets \in {"nothing", "mapping"}
  BY <1>1, <1>2, <1>8
<1> QED
  BY <1>1, <1>4, <1>5, <1>6, <1>7, <1>8, KeyKinds

\* In a plain file the inputs of the sensors are inputs.
LEMMA InputsAreInputs ==
  ASSUME file \in Seq(Lines), Plain, NEW s \in Sensors, NEW n \in 0 .. Len(file)
  PROVE  InputAt(s, n) \in Inputs
<1>1. n \in Nat /\ \A i \in 1 .. n : i \in DOMAIN file /\ file[i] \in Lines
  OBVIOUS
<1>2. InputKey(s) \in Keys /\ Values(InputKey(s)) = Inputs
  BY DEF Keys, Values, InputKey
<1>3. ASSUME NEW i \in 1 .. n, file[i].key = InputKey(s)
      PROVE  file[i].value \in Inputs
  BY <1>1, <1>2, <1>3, ConfigurationAssumption DEF Plain
<1> QED
  BY <1>1, <1>3, ValueIsGiven, ConfigurationAssumption DEF InputAt

\* The inputs at the lines before a new one are what they were, and so is whether a tuning
\* of theirs lasts, unless it is for the same input.
LEMMA InputAtKept ==
  ASSUME file \in Seq(Lines), NEW line \in Lines, file' = Append(file, line), NEW s \in Sensors,
         NEW last, last = Len(file) + 1, NEW n \in DOMAIN file, TuningLasts(s, n)'
  PROVE  /\ InputAt(s, n)' = InputAt(s, n)
         /\ TuningLasts(s, n)
         /\ \A t \in Sensors : line.key = ScalarKey(t) => InputAt(t, last)' # InputAt(s, n)
<1>1. /\ DOMAIN file = 1 .. Len(file) /\ Len(file) \in Nat
      /\ DOMAIN file' = (DOMAIN file) \cup {last}
      /\ \A i \in DOMAIN file : file'[i] = file[i]
      /\ file'[last] = line
  BY LineAppended
<1>2. ASSUME NEW t \in Sensors, NEW i \in DOMAIN file
      PROVE  InputAt(t, i)' = InputAt(t, i)
  <2>1. InputKey(t)' = InputKey(t) /\ i \in 0 .. Len(file)
    BY <1>1 DEF InputKey
  <2> QED BY <2>1, ValueAtKept DEF InputAt
<1>3. \A i \in DOMAIN file', t \in Sensors :
        n < i /\ file'[i].key = ScalarKey(t) => InputAt(t, i)' # InputAt(s, n)'
  BY DEF TuningLasts, ScalarKey
<1>4. TuningLasts(s, n)
  BY <1>1, <1>2, <1>3 DEF TuningLasts
<1>5. n < last
  BY <1>1
<1> QED
  BY <1>1, <1>2, <1>3, <1>4, <1>5

\* A tuning stays where it is until another one is read for the same input.
LEMMA ReadTunes ==
  ASSUME StartTypeOK, EachSettingIsItsLast, TuningStays, NEW line \in Lines, ReadLine(line)
  PROVE  TuningStays'
<1> DEFINE key == line.key
           v == line.value
<1> SUFFICES ASSUME Plain', NEW s \in Sensors, NEW n \in DOMAIN file',
                    file'[n].key = ScalarKey(s), TuningLasts(s, n)'
             PROVE  settings'.scalar[InputAt(s, n)'] = file'[n].value
  BY DEF TuningStays, ScalarKey
<1>1. /\ key \in Keys \cup OtherKeys
      /\ key \notin Keys => settings' = settings
      /\ key \in Keys => v \in Values(key) /\ settings' = Assign(settings, key, v)
      /\ \A k, default : LastValue(k, default)' = IF key = k THEN v ELSE LastValue(k, default)
      /\ Plain
  BY PlainLine
<1>2. settings \in Settings /\ file \in Seq(Lines) /\ file' = Append(file, line)
  BY DEF StartTypeOK, ReadLine
<1>0. PICK last : last = Len(file) + 1
  OBVIOUS
<1>3. /\ DOMAIN file = 1 .. Len(file) /\ Len(file) \in Nat /\ Len(file') = last
      /\ DOMAIN file' = (DOMAIN file) \cup {last}
      /\ \A i \in DOMAIN file : file'[i] = file[i]
      /\ file'[last] = line
  BY <1>0, <1>2, LineAppended
\* The input at a new tuning is the one the sensor has.
<1>4. ASSUME NEW t \in Sensors, key = ScalarKey(t)
      PROVE  InputAt(t, last)' = settings.input[t]
  <2>1. InputAt(t, last)' = LastValue(InputKey(t), 0)'
    BY <1>3 DEF InputAt, LastValue, InputKey
  <2>2. key # InputKey(t)
    BY <1>4 DEF ScalarKey, InputKey
  <2>3. settings.input[t] = LastValue(InputKey(t), 0)
    BY <1>1 DEF EachSettingIsItsLast
  <2> QED
    BY <1>1, <2>1, <2>2, <2>3
\* What a new tuning sets.
<1>5. ASSUME NEW t \in Sensors, key = ScalarKey(t)
      PROVE  /\ settings.input[t] \in Inputs
             /\ settings'.scalar = [settings.scalar EXCEPT ![settings.input[t]] = v]
  <2>1. settings' = [settings EXCEPT !.scalar[settings.input[t]] = v]
    BY <1>1, <1>2, <1>5, AssignKinds DEF Keys, ScalarKey
  <2> QED
    BY <1>2, <2>1 DEF Settings
<1>6. CASE n = last
  <2>1. key = ScalarKey(s) /\ file'[n].value = v
    BY <1>3, <1>6
  <2>2. InputAt(s, n)' = settings.input[s]
    BY <1>4, <1>6, <2>1
  <2> QED
    BY <1>2, <1>5, <2>1, <2>2 DEF Settings
<1>7. CASE n \in DOMAIN file
  <2>1. /\ InputAt(s, n)' = InputAt(s, n)
        /\ TuningLasts(s, n)
        /\ \A t \in Sensors : key = ScalarKey(t) => InputAt(t, last)' # InputAt(s, n)
    BY <1>0, <1>2, <1>7, InputAtKept
  <2>2. settings.scalar[InputAt(s, n)] = file'[n].value
    BY <1>1, <1>3, <1>7, <2>1 DEF TuningStays
  <2>3. InputAt(s, n) \in Inputs
    <3>1. n \in 0 .. Len(file)
      BY <1>3, <1>7
    <3> QED BY <1>1, <1>2, <3>1, InputsAreInputs
  <2>4. CASE \E t \in Sensors : key = ScalarKey(t)
    <3>1. PICK t \in Sensors : key = ScalarKey(t)
      BY <2>4
    <3>2. settings.input[t] # InputAt(s, n)
      BY <1>4, <2>1, <3>1
    <3> QED
      BY <1>2, <1>5, <2>1, <2>2, <2>3, <3>1, <3>2 DEF Settings
  <2>5. CASE ~\E t \in Sensors : key = ScalarKey(t)
    <3>1. CASE key \notin Keys
      BY <1>1, <2>1, <2>2, <3>1
    <3>2. CASE key \in Keys
      <4>1. key.sets \in {"input", "period", "host"}
        BY <2>5, <3>2 DEF Keys, InputKey, ScalarKey, PeriodKey, HostKey
      <4>2. settings'.scalar = settings.scalar
        <5>1. Assign(settings, key, v).scalar = settings.scalar
          <6>1. v \in Values(key) /\ settings \in Settings
            BY <1>1, <1>2, <3>2
          <6>2. CASE key.sets = "input"
            BY <1>1, <6>1, <6>2, AssignKinds DEF Settings
          <6>3. CASE key.sets = "period"
            BY <1>1, <6>1, <6>3, AssignKinds DEF Settings
          <6>4. CASE key.sets = "host"
            BY <1>1, <6>1, <6>4, AssignKinds DEF Settings
          <6> QED
            BY <4>1, <6>2, <6>3, <6>4
        <5> QED
          BY <1>1, <3>2, <5>1
      <4> QED
        BY <2>1, <2>2, <4>2
    <3> QED BY <3>1, <3>2
  <2> QED BY <2>4, <2>5
<1> QED
  BY <1>3, <1>6, <1>7

-----------------------------------------------------------------------------
\* Before the first line.
Unread == settings = NoSettings /\ file = <<>>

\* Before the first line is read, and before the first round.
LEMMA StartInitially ==
  Unread => settings \in Settings /\ file \in Seq(Lines) /\ FileInv
<1> SUFFICES ASSUME Unread
             PROVE  settings \in Settings /\ file \in Seq(Lines) /\ FileInv
  OBVIOUS
<1> USE DEF Unread
<1>1. settings \in Settings
  BY ConfigurationAssumption DEF NoSettings, Settings
<1>2. file \in Seq(Lines) /\ DOMAIN file = {}
  OBVIOUS
<1>3. \A key, default : LastValue(key, default) = default
  <2> TAKE key, default
  <2> QED BY <1>2, LastIsGiven
<1>4. EachSettingIsItsLast
  BY <1>3 DEF EachSettingIsItsLast, NoSettings
<1>5. TuningStays
  BY <1>2 DEF TuningStays
<1> QED
  BY <1>1, <1>2, <1>4, <1>5 DEF FileInv

\* The same of the next state, of a new process.
LEMMA UnreadAgain ==
  Unread' => (settings \in Settings /\ file \in Seq(Lines) /\ FileInv)'
BY StartInitially, PTL

\* Nothing but the two variables of the configuration counts for its invariant.
LEMMA FileKept ==
  ASSUME FileInv, UNCHANGED configurationVars
  PROVE  FileInv'
<1>1. settings' = settings /\ file' = file
  BY DEF configurationVars
<1>2. /\ \A key, default : LastValue(key, default)' = LastValue(key, default)
      /\ \A s, n : InputAt(s, n)' = InputAt(s, n)
  BY <1>1 DEF LastValue, ValueAt, InputAt, InputKey
<1>3. Plain' = Plain /\ NamesGrow' = NamesGrow /\ \A s, n : TuningLasts(s, n)' = TuningLasts(s, n)
  BY <1>1, <1>2 DEF Plain, NamesGrow, TuningLasts, Parsed, Tokens, ScalarKey
<1>4. EachSettingIsItsLast'
  BY <1>1, <1>2, <1>3 DEF FileInv, EachSettingIsItsLast
<1>5. TuningStays'
  BY <1>1, <1>2, <1>3 DEF FileInv, TuningStays, ScalarKey
<1> QED
  BY <1>4, <1>5 DEF FileInv

\* The steps of a process that is starting.
LEMMA ReadStep ==
  ASSUME StartIInv, Read
  PROVE  StartIInv'
<1> USE DEF StartIInv
<1>1. PICK line \in Lines : ReadLine(line)
  BY DEF Read
<1>2. UNCHANGED <<unit, readable, took, pause>>
  BY DEF Read
<1>3. settings' \in Settings /\ file' \in Seq(Lines)
  BY <1>1, LineAssigns, LineAppended DEF ReadLine, StartTypeOK
<1>4. StartTypeOK'
  BY <1>2, <1>3 DEF StartTypeOK
<1>5. FileInv'
  BY <1>1, ReadSetsLast, ReadTunes DEF FileInv
<1> QED
  BY <1>4, <1>5

\* The steps of main, of the end of the file and of a failure read no line and do not pause.
LEMMA UnitStep ==
  ASSUME StartIInv, Main \/ EndOfFile \/ Fail \/ FileChanges
  PROVE  StartIInv'
<1> USE DEF StartIInv
<1>1. UNCHANGED <<configurationVars, took, pause>>
  BY DEF Main, EndOfFile, Fail, FileChanges
<1>2. FileInv'
  BY <1>1, FileKept
<1>3. unit' \in Units /\ readable' \in BOOLEAN
  BY DEF Main, EndOfFile, Fail, FileChanges, StartTypeOK, Units
<1>4. StartTypeOK'
  BY <1>1, <1>3 DEF StartTypeOK, configurationVars
<1> QED
  BY <1>2, <1>4

\* A new process starts with nothing read.
LEMMA RestartStep ==
  ASSUME StartIInv, Restart
  PROVE  StartIInv'
<1> USE DEF StartIInv
<1>1. /\ unit' = "starting" /\ settings' = NoSettings /\ file' = <<>>
      /\ took' = [l \in Loops |-> 0] /\ pause' = <<>> /\ readable' = readable
  BY DEF Restart
<1>2. settings' \in Settings /\ file' \in Seq(Lines) /\ FileInv'
  BY <1>1, UnreadAgain DEF Unread
<1>3. DOMAIN pause' = {}
  BY <1>1
<1>4. StartTypeOK'
  BY <1>1, <1>2, <1>3 DEF StartTypeOK, Units
<1> QED
  BY <1>2, <1>4

\* A thread ends a round and pauses, or its pause ends.
LEMMA LoopStep ==
  ASSUME StartIInv, NEW l \in Loops, Wake(l) \/ \E duration \in Durations : Round(l, duration)
  PROVE  StartIInv'
<1> USE DEF StartIInv
<1>1. UNCHANGED <<configurationVars, unit, readable>> /\ unit = "running"
  BY DEF Wake, Round
<1>2. FileInv' /\ settings' = settings /\ file' = file
  BY <1>1, FileKept DEF configurationVars
<1>3. StartTypeOK'
  <2>1. CASE Wake(l)
    <3>1. took' = took /\ DOMAIN pause' = DOMAIN pause \ {l} /\ \A k \in DOMAIN pause' : pause'[k] = pause[k]
      BY <2>1 DEF Wake
    <3> QED
      BY <1>1, <1>2, <3>1 DEF StartTypeOK
  <2>2. CASE \E duration \in Durations : Round(l, duration)
    <3>1. PICK duration \in Durations : Round(l, duration)
      BY <2>2
    <3>2. /\ took' = [took EXCEPT ![l] = duration]
          /\ l \notin DOMAIN pause /\ DOMAIN pause' = DOMAIN pause \cup {l}
      BY <3>1 DEF Round
    <3>3. took' \in [Loops -> Durations \cup {0}]
      BY <3>2 DEF StartTypeOK
    <3> QED
      BY <1>1, <1>2, <3>2, <3>3 DEF StartTypeOK
  <2> QED BY <2>1, <2>2
<1> QED
  BY <1>2, <1>3

\* The inductive invariant of the program's start and of its loops.
THEOREM StartInvariant == Spec => []StartIInv
<1>1. Init => StartIInv
  <2> SUFFICES ASSUME Init
               PROVE  StartIInv
    OBVIOUS
  <2>1. settings \in Settings /\ file \in Seq(Lines) /\ FileInv
    BY StartInitially DEF Init, Unread
  <2>2. pause = <<>> /\ DOMAIN pause = {}
    BY DEF Init
  <2> QED
    BY <2>1, <2>2 DEF Init, StartIInv, StartTypeOK, Units
<1>2. StartIInv /\ [Next]_startVars => StartIInv'
  <2> SUFFICES ASSUME StartIInv, [Next]_startVars
               PROVE  StartIInv'
    OBVIOUS
  <2>1. CASE Main \/ EndOfFile \/ Fail \/ FileChanges
    BY <2>1, UnitStep
  <2>2. CASE Read
    BY <2>2, ReadStep
  <2>3. CASE Restart
    BY <2>3, RestartStep
  <2>4. CASE \E l \in Loops : Wake(l) \/ \E duration \in Durations : Round(l, duration)
    BY <2>4, LoopStep
  <2>5. CASE UNCHANGED startVars
    <3>1. UNCHANGED configurationVars /\ UNCHANGED <<settings, file, unit, readable, took, pause>>
      BY <2>5 DEF startVars, configurationVars
    <3>2. FileInv'
      BY <3>1, FileKept DEF StartIInv
    <3> QED
      BY <3>1, <3>2 DEF StartIInv, StartTypeOK
  <2> QED
    BY <2>1, <2>2, <2>3, <2>4, <2>5 DEF Next
<1> QED
  BY <1>1, <1>2, PTL DEF Spec

\* Of a plain file of any length each setting is the last one given
\* (readAndAssignConfigurationDetails).
THEOREM SettingsAreTheLast == Spec => []EachSettingIsItsLast
<1>1. StartIInv => EachSettingIsItsLast
  BY DEF StartIInv, FileInv
<1> QED
  BY <1>1, StartInvariant, PTL

\* Each sensor has the tuning that the file gives it, in files of any length and order, if it
\* has at the end the input it had at that line (lightSensorScalar, lightSensorOffset).
THEOREM TuningStaysWithSensor == Spec => []TuningFollowsSensor
<1>1. StartIInv => TuningFollowsSensor
  <2> SUFFICES ASSUME StartIInv, Plain, NEW s \in Sensors, NEW n \in DOMAIN file,
                      file[n].key = ScalarKey(s), TuningLasts(s, n), InputAt(s, Len(file)) = InputAt(s, n)
               PROVE  settings.scalar[settings.input[s]] = file[n].value
    BY DEF TuningFollowsSensor
  <2>1. settings.input[s] = InputAt(s, Len(file))
    BY DEF StartIInv, FileInv, EachSettingIsItsLast, LastValue, InputAt
  <2>2. settings.scalar[InputAt(s, n)] = file[n].value
    BY DEF StartIInv, FileInv, TuningStays
  <2> QED
    BY <2>1, <2>2
<1> QED
  BY <1>1, StartInvariant, PTL
=============================================================================
