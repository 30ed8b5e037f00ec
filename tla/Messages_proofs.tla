-------------------------- MODULE Messages_proofs --------------------------
(***************************************************************************)
(* Proofs about the two messages of the tracker program.                   *)
(*                                                                         *)
(* The one that goes out, with the irradiance (LightSensors): for every    *)
(* set of corners, on inputs of their own or shared ones, every calibration*)
(* and every set of voltages, with reads that may fail.  An element is     *)
(* scaled as often as corners have its input, so the array in the middle   *)
(* of the scaling is described by how many of them are done.               *)
(*                                                                         *)
(* The one that comes in, with the stow commands (StowMessage): for any    *)
(* keys, numbers and number of tokens.  A command can only change in the   *)
(* walk, which is reached with every container closed (WalkInv).  That a   *)
(* flat message is obeyed needs more: the tokens of a flat text alternate  *)
(* between key and value (ScanFlat), and what the members mean and what    *)
(* the walk has stored so far are both the last pair with that key among   *)
(* the tokens passed (Follows).  What lies behind the text is kept apart   *)
(* from it by the number of the tokens before it, which is odd (ApartInv). *)
(***************************************************************************)
EXTENDS LightSensors, StowMessage, FiniteSetTheorems, TLAPS, WellFoundedInduction

-----------------------------------------------------------------------------
(***************************************************************************)
(* The irradiance message                                                  *)
(***************************************************************************)

\* Who holds the mutex, and where.
LockInv ==
  /\ lock = "main" <=> mainPc \in {"read", "scale"}
  /\ lock = "report" <=> reportPc = "copy"

\* How many of a set of corners have input i.
Times(i, corners) == Cardinality(At(i, corners))

\* What the array holds: half read, half scaled, or the last complete round.  An element that no
\* corner has is as it was sampled from the beginning.
ArrayInv ==
  /\ lock # "main" => irradianceV = measured
  /\ mainPc = "read" => \A c \in Corners \ todo : irradianceV[Input[c]] = sample[Input[c]]
  /\ mainPc # "scale" => \A i \in Elements : At(i, Corners) = {} => irradianceV[i] = sample[i]
  /\ mainPc = "scale" =>
       \A i \in Elements : irradianceV[i] = Scaled(i, sample[i], Times(i, Corners \ todo))

\* The message agrees with the array as far as it has been copied.
CopyInv ==
  reportPc = "copy" => \A i \in Elements \ uncopied : message[i] = irradianceV[i]

SensorIInv ==
  SensorTypeOK /\ LockInv /\ ArrayInv /\ CopyInv /\ TurnIsReported

\* Each corner has an input.
LEMMA InputsOfCorners ==
  \A c \in Corners : Input[c] \in Elements
  BY SensorAssumption

\* Scaling an integer gives an integer.
LEMMA ScaleType ==
  ASSUME NEW i \in Elements, NEW v \in Int
  PROVE  Scale(i, v) \in Int
  BY SensorAssumption DEF Scale

\* The scaling of an element as a loop over the corners that have it.
ScaleStepOf(i, v, k) == Scale(i, v)
ScaledInt(i, k, v) == v \in Int
OfScale == INSTANCE Passes WITH Step <- ScaleStepOf, Inv <- ScaledInt

\* A value scaled n times is scaled once more than one scaled n - 1 times.
LEMMA ScaledTimes ==
  ASSUME NEW i \in Elements, NEW v \in Int, NEW n \in Nat
  PROVE  /\ Scaled(i, v, 0) = v
         /\ Scaled(i, v, n + 1) = Scale(i, Scaled(i, v, n))
         /\ Scaled(i, v, n) \in Int
<1>1. \A m : Scaled(i, v, m) = OfScale!Pass(i, v, m)
  BY DEF Scaled, OfScale!Pass, ScaleStepOf
<1>2. OfScale!Pass(i, v, 0) = v
  BY OfScale!PassOfNone
<1>3. OfScale!Pass(i, v, n + 1) = Scale(i, OfScale!Pass(i, v, n))
  BY OfScale!PassOfNext DEF ScaleStepOf
<1>4. OfScale!Pass(i, v, n) \in Int
  <2>1. \A d : ScaledInt(i, 0, d) => ScaledInt(i, 0, ScaleStepOf(i, d, 0))
    BY ScaleType DEF ScaledInt, ScaleStepOf
  <2>2. /\ ScaledInt(i, 0, v)
        /\ \A k \in 1 .. n : \A d : ScaledInt(i, k - 1, d) => ScaledInt(i, k, ScaleStepOf(i, d, k))
    BY <2>1 DEF ScaledInt, ScaleStepOf
  <2>3. ScaledInt(i, n, OfScale!Pass(i, v, n))
    BY <2>2, OfScale!PassKeeps
  <2> QED BY <2>3 DEF ScaledInt
<1> QED
  BY <1>1, <1>2, <1>3, <1>4

\* None of no corners, and a number of any.
LEMMA TimesType ==
  ASSUME NEW i \in Elements, NEW S, S \subseteq Corners
  PROVE  /\ IsFiniteSet(At(i, S)) /\ Times(i, S) \in Nat
         /\ At(i, S) = {} => Times(i, S) = 0
<1>1. IsFiniteSet(At(i, S))
  BY SensorAssumption, FS_Subset DEF At
<1> QED
  BY <1>1, FS_EmptySet, FS_CardinalityType DEF Times

\* One more with a corner that has the input, the same with another.
LEMMA TimesWith ==
  ASSUME NEW i \in Elements, NEW S, S \subseteq Corners, NEW c \in Corners \ S
  PROVE  Times(i, S \cup {c}) = IF Input[c] = i THEN Times(i, S) + 1 ELSE Times(i, S)
<1>1. CASE Input[c] = i
  <2>1. At(i, S \cup {c}) = At(i, S) \cup {c} /\ c \notin At(i, S)
    BY <1>1 DEF At
  <2>2. Cardinality(At(i, S) \cup {c}) = Cardinality(At(i, S)) + 1
    BY TimesType, <2>1, FS_AddElement
  <2> QED BY <1>1, <2>1, <2>2 DEF Times
<1>2. CASE Input[c] # i
  <2>1. At(i, S \cup {c}) = At(i, S)
    BY <1>2 DEF At
  <2> QED BY <1>2, <2>1 DEF Times
<1> QED
  BY <1>1, <1>2

\* A direction is one of three, whatever the difference is.
LEMMA TurnType ==
  ASSUME NEW v
  PROVE  /\ Turn(v) \in [azimuth : {-1, 0, 1}, altitude : {-1, 0, 1}]
         /\ NoTurn \in [azimuth : {-1, 0, 1}, altitude : {-1, 0, 1}]
  BY DEF Turn, Direction, NoTurn

\* Before the first round.
LEMMA SensorInitially ==
  ASSUME SensorInit
  PROVE  SensorIInv
<1>1. Zero \in [Elements -> Int]
  BY DEF Zero
<1>2. voltage \in [Elements -> Voltages] /\ NoTurn \in [azimuth : {-1, 0, 1}, altitude : {-1, 0, 1}]
  BY DEF SensorInit, NoTurn
<1>3. SensorTypeOK
  BY <1>1, <1>2 DEF SensorInit, SensorTypeOK
<1> QED
  BY <1>3 DEF SensorInit, SensorIInv, LockInv, ArrayInv, CopyInv, TurnIsReported

-----------------------------------------------------------------------------
\* What one AtoD_read does, when it succeeds and when it fails.
LEMMA ReadStep ==
  ASSUME SensorIInv, NEW c \in Corners, NEW v \in Int, Read(c, v)
  PROVE  SensorIInv'
<1> USE DEF SensorIInv
<1>1. /\ mainPc = "read" /\ c \in todo
      /\ irradianceV' = [irradianceV EXCEPT ![Input[c]] = v]
      /\ sample' = [sample EXCEPT ![Input[c]] = v]
      /\ todo' = IF todo = {c} THEN Corners ELSE todo \ {c}
      /\ mainPc' = IF todo = {c} THEN "scale" ELSE "read"
      /\ UNCHANGED <<voltage, lock, turn, measured, reportPc, uncopied, message>>
  BY DEF Read, reportVars
<1>2. /\ irradianceV' \in [Elements -> Int] /\ sample' \in [Elements -> Int]
      /\ irradianceV'[Input[c]] = v /\ sample'[Input[c]] = v
  BY <1>1, InputsOfCorners DEF SensorTypeOK
<1>3. \A i \in Elements : i # Input[c] =>
         irradianceV'[i] = irradianceV[i] /\ sample'[i] = sample[i]
  BY <1>1, InputsOfCorners DEF SensorTypeOK
<1>4. SensorTypeOK'
  BY <1>1, <1>2 DEF SensorTypeOK
<1>5. LockInv' /\ lock = "main" /\ reportPc # "copy"
  BY <1>1 DEF LockInv
<1>6. \A d \in Corners : d \notin todo \/ d = c => irradianceV'[Input[d]] = sample'[Input[d]]
  BY <1>1, <1>2, <1>3, InputsOfCorners DEF ArrayInv
<1>7. \A i \in Elements : At(i, Corners) = {} => irradianceV'[i] = sample'[i]
  BY <1>1, <1>3 DEF ArrayInv, At
<1>8. ArrayInv'
  <2>1. CASE todo # {c}
    BY <1>1, <1>5, <1>6, <1>7, <2>1 DEF ArrayInv
  <2>2. CASE todo = {c}
    <3>1. ASSUME NEW i \in Elements
          PROVE  irradianceV'[i] = Scaled(i, sample'[i], Times(i, Corners \ todo'))
      <4>1. irradianceV'[i] = sample'[i] /\ sample'[i] \in Int
        BY <1>2, <1>6, <1>7, <2>2 DEF At
      <4>2. At(i, Corners \ todo') = {}
        BY <1>1, <2>2 DEF At
      <4>3. Times(i, Corners \ todo') = 0
        BY <4>2, TimesType
      <4> QED BY <4>1, <4>3, ScaledTimes
    <3> QED BY <1>1, <1>5, <2>2, <3>1 DEF ArrayInv
  <2> QED BY <2>1, <2>2
<1>9. CopyInv' /\ TurnIsReported'
  BY <1>1, <1>5 DEF CopyInv, TurnIsReported
<1> QED
  BY <1>4, <1>5, <1>8, <1>9

\* One element is scaled under the mutex.
LEMMA ScaleStep ==
  ASSUME SensorIInv, NEW c \in Corners, ScaleInput(c)
  PROVE  SensorIInv'
<1> USE DEF SensorIInv
<1>1. /\ mainPc = "scale" /\ c \in todo
      /\ irradianceV' = [irradianceV EXCEPT ![Input[c]] = Scale(Input[c], irradianceV[Input[c]])]
      /\ todo' = todo \ {c}
      /\ UNCHANGED <<voltage, lock, mainPc, turn, sample, measured, reportPc, uncopied, message>>
  BY DEF ScaleInput, mainVars, reportVars
<1>2. Scale(Input[c], irradianceV[Input[c]]) \in Int
  BY InputsOfCorners, ScaleType DEF SensorTypeOK
<1>3. /\ irradianceV' \in [Elements -> Int]
      /\ irradianceV'[Input[c]] = Scale(Input[c], irradianceV[Input[c]])
      /\ \A i \in Elements : i # Input[c] => irradianceV'[i] = irradianceV[i]
  BY <1>1, <1>2, InputsOfCorners DEF SensorTypeOK
<1>4. SensorTypeOK'
  BY <1>1, <1>3 DEF SensorTypeOK
<1>5. LockInv' /\ lock = "main" /\ reportPc # "copy"
  BY <1>1 DEF LockInv
<1>6. ASSUME NEW i \in Elements
      PROVE  irradianceV'[i] = Scaled(i, sample'[i], Times(i, Corners \ todo'))
  <2> DEFINE done == Corners \ todo
  <2>1. Corners \ todo' = done \cup {c} /\ c \in Corners \ done /\ done \subseteq Corners
    BY <1>1
  <2>2. irradianceV[i] = Scaled(i, sample[i], Times(i, done)) /\ sample'[i] = sample[i] /\ sample[i] \in Int
    BY <1>1 DEF ArrayInv, SensorTypeOK
  <2> HIDE DEF done
  <2>3. Times(i, done) \in Nat
    BY <2>1, TimesType
  <2>4. Times(i, done \cup {c}) = IF Input[c] = i THEN Times(i, done) + 1 ELSE Times(i, done)
    BY <2>1, TimesWith
  <2>5. Scaled(i, sample[i], Times(i, done) + 1) = Scale(i, Scaled(i, sample[i], Times(i, done)))
    BY <2>2, <2>3, ScaledTimes
  <2> QED
    BY <1>3, <2>1, <2>2, <2>4, <2>5
<1>7. ArrayInv'
  BY <1>1, <1>5, <1>6 DEF ArrayInv
<1>8. CopyInv' /\ TurnIsReported'
  BY <1>1, <1>5 DEF CopyInv, TurnIsReported
<1> QED
  BY <1>4, <1>5, <1>7, <1>8

\* The last scaling done, the array is the complete round.
LEMMA UnlockStep ==
  ASSUME SensorIInv, MainUnlock
  PROVE  SensorIInv'
<1> USE DEF SensorIInv
<1>1. /\ mainPc = "scale" /\ todo = {} /\ lock' = "free" /\ mainPc' = "decide"
      /\ measured' = [i \in Elements |-> Scaled(i, sample[i], Cardinality(At(i, Corners)))]
      /\ UNCHANGED <<voltage, irradianceV, todo, turn, sample, reportPc, uncopied, message>>
  BY DEF MainUnlock, reportVars
<1>2. \A i \in Elements : irradianceV[i] = Scaled(i, sample[i], Cardinality(At(i, Corners)))
  BY <1>1 DEF ArrayInv, Times
<1>3. irradianceV' = measured'
  BY <1>1, <1>2 DEF SensorTypeOK
<1>4. SensorTypeOK'
  BY <1>1, <1>3 DEF SensorTypeOK
<1>5. LockInv'
  BY <1>1 DEF LockInv
<1>6. ASSUME NEW i \in Elements, At(i, Corners) = {}
      PROVE  irradianceV'[i] = sample'[i]
  <2>1. Times(i, Corners) = 0 /\ sample[i] \in Int
    BY <1>6, TimesType DEF SensorTypeOK
  <2> QED BY <1>1, <1>2, <2>1, ScaledTimes DEF Times
<1>7. ArrayInv' /\ CopyInv' /\ TurnIsReported'
  BY <1>1, <1>3, <1>5, <1>6 DEF ArrayInv, CopyInv, LockInv, TurnIsReported
<1> QED
  BY <1>4, <1>5, <1>7

\* One element is copied into the message, under the mutex.
LEMMA CopyStep ==
  ASSUME SensorIInv, NEW i \in Elements, CopyElement(i)
  PROVE  SensorIInv'
<1> USE DEF SensorIInv
<1>1. /\ reportPc = "copy" /\ i \in uncopied
      /\ message' = [message EXCEPT ![i] = irradianceV[i]]
      /\ uncopied' = uncopied \ {i}
      /\ UNCHANGED <<voltage, irradianceV, lock, todo, mainPc, turn, sample, measured, reportPc>>
  BY DEF CopyElement, mainVars
<1>2. /\ message' \in [Elements -> Int]
      /\ message'[i] = irradianceV[i]
      /\ \A j \in Elements : j # i => message'[j] = message[j]
  BY <1>1 DEF SensorTypeOK
<1>3. SensorTypeOK'
  BY <1>1, <1>2 DEF SensorTypeOK
<1>4. LockInv' /\ lock = "report" /\ mainPc \notin {"read", "scale"}
  BY <1>1 DEF LockInv
<1>5. ArrayInv' /\ TurnIsReported'
  BY <1>1, <1>4 DEF ArrayInv, TurnIsReported
<1>6. CopyInv'
  BY <1>1, <1>2 DEF CopyInv
<1> QED
  BY <1>3, <1>4, <1>5, <1>6

\* The steps that move neither the array nor the message.
LEMMA OtherStep ==
  ASSUME SensorIInv,
         \/ MainLock \/ Decide \/ ReportLock \/ ReportUnlock \/ Publish \/ LightMoves
         \/ UNCHANGED sensorVars
  PROVE  SensorIInv'
<1> USE DEF SensorIInv, mainVars, reportVars
<1>1. CASE MainLock
  BY <1>1 DEF MainLock, SensorTypeOK, LockInv, ArrayInv, CopyInv, TurnIsReported
<1>2. CASE Decide
  <2>1. irradianceV = measured /\ turn' \in {Turn(measured), NoTurn}
    BY <1>2 DEF Decide, LockInv, ArrayInv
  <2>2. turn' \in [azimuth : {-1, 0, 1}, altitude : {-1, 0, 1}]
    BY <2>1, TurnType
  <2>3. SensorTypeOK'
    BY <1>2, <2>2 DEF Decide, SensorTypeOK
  <2>4. TurnIsReported'
    BY <1>2, <2>1 DEF Decide, TurnIsReported
  <2> QED
    BY <1>2, <2>3, <2>4 DEF Decide, LockInv, ArrayInv, CopyInv
<1>3. CASE ReportLock
  BY <1>3 DEF ReportLock, SensorTypeOK, LockInv, ArrayInv, CopyInv, TurnIsReported
<1>4. CASE ReportUnlock
  BY <1>4 DEF ReportUnlock, SensorTypeOK, LockInv, ArrayInv, CopyInv, TurnIsReported
<1>5. CASE Publish
  BY <1>5 DEF Publish, SensorTypeOK, LockInv, ArrayInv, CopyInv, TurnIsReported
<1>6. CASE LightMoves
  BY <1>6 DEF LightMoves, SensorTypeOK, LockInv, ArrayInv, CopyInv, TurnIsReported
<1>7. CASE UNCHANGED sensorVars
  BY <1>7 DEF sensorVars, SensorTypeOK, LockInv, ArrayInv, CopyInv, TurnIsReported
<1> QED
  BY <1>1, <1>2, <1>3, <1>4, <1>5, <1>6, <1>7

\* The inductive invariant of the irradiance array.
THEOREM SensorInvariant == SensorSpec => []SensorIInv
<1>1. SensorInit => SensorIInv
  BY SensorInitially
<1>2. ASSUME SensorIInv, [SensorNext]_sensorVars
      PROVE  SensorIInv'
  <2>1. ASSUME NEW c \in Corners, AtoD_read(c)
        PROVE  SensorIInv'
    <3>1. voltage[Input[c]] \in Int
      BY <1>2, InputsOfCorners, SensorAssumption DEF SensorIInv, SensorTypeOK
    <3> QED
      BY <1>2, <2>1, <3>1, ReadStep DEF AtoD_read
  <2>2. ASSUME NEW c \in Corners, FailedRead(c)
        PROVE  SensorIInv'
    BY <1>2, <2>2, ReadStep, SensorAssumption DEF FailedRead
  <2> QED
    BY <1>2, <2>1, <2>2, ScaleStep, UnlockStep, CopyStep, OtherStep
       DEF SensorNext, MainRound, ReportRound
<1> QED
  BY <1>1, <1>2, PTL DEF SensorSpec

-----------------------------------------------------------------------------
\* The variables of the array and its mutex keep their types.
THEOREM SensorTypeCorrect == SensorSpec => []SensorTypeOK
<1>1. SensorIInv => SensorTypeOK
  BY DEF SensorIInv
<1> QED
  BY <1>1, SensorInvariant, PTL

\* The report thread's message holds the scaled values of one round of main.
THEOREM MessageAlwaysOneRound == SensorSpec => []MessageIsOneRound
<1>1. ASSUME SensorIInv
      PROVE  MessageIsOneRound
  <2> SUFFICES ASSUME reportPc = "copy", uncopied = {}
               PROVE  message = measured
    BY DEF MessageIsOneRound
  <2>1. irradianceV = measured
    BY <1>1 DEF SensorIInv, LockInv, ArrayInv
  <2>2. \A i \in Elements : message[i] = irradianceV[i]
    BY <1>1 DEF SensorIInv, CopyInv
  <2>3. message \in [Elements -> Int] /\ irradianceV \in [Elements -> Int]
    BY <1>1 DEF SensorIInv, SensorTypeOK
  <2> QED
    BY <2>1, <2>2, <2>3
<1> QED
  BY <1>1, SensorInvariant, PTL

\* While nobody holds the mutex every element has been scaled once for each corner that has it.
THEOREM FreeAlwaysScaled == SensorSpec => []FreeMeansScaled
<1>1. SensorIInv => FreeMeansScaled
  BY DEF SensorIInv, ArrayInv, FreeMeansScaled
<1> QED
  BY <1>1, SensorInvariant, PTL

\* main drives the axes, without the mutex, by the values of its last round.
THEOREM TurnAlwaysReported == SensorSpec => []TurnIsReported
<1>1. SensorIInv => TurnIsReported
  BY DEF SensorIInv
<1> QED
  BY <1>1, SensorInvariant, PTL

-----------------------------------------------------------------------------
(***************************************************************************)
(* The stow message                                                        *)
(***************************************************************************)

WalkInv ==
  /\ pc = "parse" => stowCmd = before /\ index = 0
  /\ pc = "walk" => open = <<>> /\ index >= 2

MessageIInv == MessageTypeOK /\ WalkInv /\ RefusedChangesNothing

\* No string token is a number or a container.
LEMMA TokenKinds ==
  ASSUME NEW t \in Token
  PROVE  /\ t.type = "string" => t \in StringTokens
         /\ t.type = "primitive" => t.text \in Values
BY DEF Token, Containers, StringTokens, PrimitiveTokens

\* Allocate keeps the tokens that are there and makes at most MaxTokens.
LEMMA Allocation ==
  ASSUME NEW t \in Token, tokens \in Seq(Token), Len(tokens) <= MaxTokens, Allocate(t)
  PROVE  /\ pc' \in {"parse", "done"}
         /\ tokens' \in Seq(Token) /\ Len(tokens') <= MaxTokens
         /\ tokens' = tokens \/ tokens' = Append(tokens, t)
BY MessageAssumption DEF Allocate, Refuse

\* A step of the scan touches neither the commands nor the index: what is left
\* to show of it is the type of what it does change.
LEMMA ScanKeeps ==
  ASSUME MessageIInv, pc = "parse", UNCHANGED <<stowCmd, before, index>>,
         pc' \in {"parse", "done"}, MessageTypeOK'
  PROVE  MessageIInv'
<1>1. stowCmd' = before' /\ index' = 0
  BY DEF MessageIInv, WalkInv
<1>2. WalkInv'
  BY <1>1 DEF WalkInv
<1>3. RefusedChangesNothing'
  BY <1>1 DEF RefusedChangesNothing
<1> QED BY <1>2, <1>3 DEF MessageIInv

\* Every step of the scan but the end of the text.
LEMMA LexemeInv ==
  ASSUME MessageIInv,
         \/ \E type \in {"object", "array"} : OpenContainer(type)
         \/ CloseContainer
         \/ \E s \in Strings : String(s)
         \/ \E v \in Values : Primitive(v)
         \/ StrayByte
  PROVE  MessageIInv'
<1> USE DEF Scanning
<1>1. CASE \E type \in {"object", "array"} : OpenContainer(type)
  <2>1. PICK type \in {"object", "array"} : OpenContainer(type)
    BY <1>1
  <2>2. [type |-> type, text |-> ""] \in Token
    BY DEF Token, Containers
  <2>3. /\ pc' \in {"parse", "done"}
        /\ tokens' \in Seq(Token) /\ Len(tokens') <= MaxTokens
    BY <2>1, <2>2, Allocation DEF OpenContainer, MessageIInv, MessageTypeOK
  <2>4. open' \in Seq({"object", "array"})
    <3>1. open \in Seq({"object", "array"}) /\ <<type>> \in Seq({"object", "array"})
      BY DEF MessageIInv, MessageTypeOK
    <3>2. <<type>> \o open \in Seq({"object", "array"})
      BY <3>1
    <3> QED BY <2>1, <3>2 DEF OpenContainer
  <2>5. MessageTypeOK'
    BY <2>1, <2>3, <2>4 DEF OpenContainer, MessageIInv, MessageTypeOK
  <2> QED BY <2>1, <2>3, <2>5, ScanKeeps DEF OpenContainer
<1>2. CASE CloseContainer
  <2>1. MessageTypeOK'
    <3>1. own' \in Nat
      BY <1>2 DEF CloseContainer, MessageIInv, MessageTypeOK
    <3> QED BY <1>2, <3>1 DEF CloseContainer, MessageIInv, MessageTypeOK
  <2> QED BY <1>2, <2>1, ScanKeeps DEF CloseContainer
<1>3. CASE \E s \in Strings : String(s)
  <2>1. PICK s \in Strings : String(s)
    BY <1>3
  <2>2. [type |-> "string", text |-> s] \in Token
    BY DEF Token, StringTokens
  <2>3. /\ pc' \in {"parse", "done"}
        /\ tokens' \in Seq(Token) /\ Len(tokens') <= MaxTokens
    BY <2>1, <2>2, Allocation DEF String, MessageIInv, MessageTypeOK
  <2>4. afterKey' \in BOOLEAN
    BY <2>1 DEF String
  <2>5. MessageTypeOK'
    BY <2>1, <2>3, <2>4 DEF String, MessageIInv, MessageTypeOK
  <2> QED BY <2>1, <2>3, <2>5, ScanKeeps DEF String
<1>4. CASE \E v \in Values : Primitive(v)
  <2>1. PICK v \in Values : Primitive(v)
    BY <1>4
  <2>2. [type |-> "primitive", text |-> v] \in Token
    BY DEF Token, PrimitiveTokens
  <2>3. /\ pc' \in {"parse", "done"}
        /\ tokens' \in Seq(Token) /\ Len(tokens') <= MaxTokens
    BY <2>1, <2>2, Allocation DEF Primitive, MessageIInv, MessageTypeOK
  <2>4. meant' \in [Commands -> Values]
    BY <2>1 DEF Primitive, MessageIInv, MessageTypeOK
  <2>5. MessageTypeOK'
    BY <2>1, <2>3, <2>4 DEF Primitive, MessageIInv, MessageTypeOK
  <2> QED BY <2>1, <2>3, <2>5, ScanKeeps DEF Primitive
<1>5. CASE StrayByte
  <2>1. MessageTypeOK'
    BY <1>5 DEF StrayByte, Refuse, MessageIInv, MessageTypeOK
  <2> QED BY <1>5, <2>1, ScanKeeps DEF StrayByte, Refuse
<1> QED BY <1>1, <1>2, <1>3, <1>4, <1>5

\* The end of the text: accepted, or refused with open brackets.
LEMMA EndOfTextInv ==
  ASSUME MessageIInv, EndOfText
  PROVE  MessageIInv'
<1>1. MessageTypeOK'
  <2>1. pc' \in {"walk", "done"} /\ index' \in Nat
    BY DEF EndOfText, Refuse, MessageIInv, MessageTypeOK
  <2>2. UNCHANGED <<tokens, textVars, stowCmd, before>>
    BY DEF EndOfText
  <2> QED BY <2>1, <2>2 DEF textVars, MessageIInv, MessageTypeOK
<1>2. stowCmd' = before'
  BY DEF EndOfText, textVars, MessageIInv, WalkInv
<1>3. WalkInv'
  BY DEF EndOfText, Refuse, textVars, WalkInv
<1>4. RefusedChangesNothing'
  BY <1>2 DEF RefusedChangesNothing
<1> QED BY <1>1, <1>3, <1>4 DEF MessageIInv

\* A pair stores a value of the right type, and only the walk does.
LEMMA PairInv ==
  ASSUME MessageIInv, Pair
  PROVE  MessageIInv'
<1> DEFINE key == tokens[index]
<1> USE DEF MessageIInv
<1>1. index \in 1..Len(tokens) /\ key \in Token
  BY DEF Pair, MessageTypeOK, WalkInv
<1>2. PICK value \in Token : Store(key, value)
  BY <1>1 DEF Pair, TokensAt, MessageTypeOK
<1>3. \/ UNCHANGED stowCmd
      \/ /\ key \in StringTokens /\ key.text \in Commands /\ value.text \in Values
         /\ stowCmd' = [stowCmd EXCEPT ![key.text] = value.text]
  BY <1>1, <1>2, TokenKinds DEF Store
<1>4. stowCmd' \in [Commands -> Values]
  BY <1>3 DEF MessageTypeOK
<1>5. MessageTypeOK'
  BY <1>4 DEF Pair, textVars, MessageTypeOK
<1>6. WalkInv' /\ RefusedChangesNothing'
  BY DEF Pair, textVars, WalkInv, RefusedChangesNothing, MessageTypeOK
<1> QED BY <1>5, <1>6

\* The return, the next message, and a step that changes nothing.
LEMMA OtherInv ==
  ASSUME MessageIInv, Return \/ NextMessage \/ UNCHANGED messageVars
  PROVE  MessageIInv'
<1> USE DEF MessageIInv, textVars
<1>1. CASE Return
  <2>1. MessageTypeOK'
    BY <1>1 DEF Return, MessageTypeOK
  <2>2. index' # 0 /\ open' = <<>>
    BY <1>1 DEF Return, WalkInv, MessageTypeOK
  <2>3. WalkInv' /\ RefusedChangesNothing'
    BY <1>1, <2>2 DEF Return, WalkInv, RefusedChangesNothing
  <2> QED BY <2>1, <2>3
<1>2. CASE NextMessage
  <2>1. MessageTypeOK'
    <3>1. tokens' \in Seq(Token) /\ Len(tokens') = 0 /\ open' \in Seq({"object", "array"})
      BY <1>2 DEF NextMessage
    <3>2. Len(tokens') <= MaxTokens /\ index' \in Nat
      BY <1>2, <3>1, MessageAssumption DEF NextMessage
    <3>3. afterKey' \in BOOLEAN /\ ended' \in BOOLEAN /\ own' \in Nat /\ beyond' \in BOOLEAN
      BY <1>2, Zenon DEF NextMessage
    <3>4. UNCHANGED stowCmd /\ before' = stowCmd /\ meant' = stowCmd /\ pc' = "parse"
      BY <1>2 DEF NextMessage
    <3> QED BY <3>1, <3>2, <3>3, <3>4, Zenon DEF MessageTypeOK
  <2>2. pc' = "parse" /\ index' = 0 /\ stowCmd' = before'
    BY <1>2 DEF NextMessage
  <2> QED BY <2>1, <2>2 DEF WalkInv, RefusedChangesNothing
<1>3. CASE UNCHANGED messageVars
  BY <1>3 DEF messageVars, MessageTypeOK, WalkInv, RefusedChangesNothing
<1> QED BY <1>1, <1>2, <1>3

\* The inductive invariant holds of the callback.
THEOREM MessageInvariant == MessageSpec => []MessageIInv
<1>1. ASSUME MessageInit PROVE MessageIInv
  <2>1. tokens \in Seq(Token) /\ Len(tokens) = 0 /\ open \in Seq({"object", "array"})
    BY <1>1 DEF MessageInit
  <2>2. stowCmd \in [Commands -> Values] /\ 0 <= MaxTokens
    BY <1>1, MessageAssumption DEF MessageInit
  <2>3. before = stowCmd /\ meant = stowCmd /\ index \in Nat
    BY <1>1 DEF MessageInit
  <2>4. afterKey \in BOOLEAN /\ ended \in BOOLEAN /\ own \in Nat /\ beyond \in BOOLEAN
    BY <1>1, Zenon DEF MessageInit
  <2>5. MessageTypeOK
    BY <1>1, <2>1, <2>2, <2>3, <2>4, Zenon DEF MessageInit, MessageTypeOK
  <2> QED BY <1>1, <2>5 DEF MessageInit, MessageIInv, WalkInv, RefusedChangesNothing
<1>2. MessageIInv /\ [MessageNext]_messageVars => MessageIInv'
  BY LexemeInv, EndOfTextInv, PairInv, OtherInv DEF MessageNext, Scan
<1> QED BY <1>1, <1>2, PTL DEF MessageSpec

\* The walk stays inside the tokens there is room for.
THEOREM MessageTypeCorrect == MessageSpec => []MessageTypeOK
<1>1. MessageIInv => MessageTypeOK
  BY DEF MessageIInv
<1> QED BY <1>1, MessageInvariant, PTL

\* A text that jsmn refuses leaves both commands alone.
THEOREM RefusalAlwaysHarmless == MessageSpec => []RefusedChangesNothing
<1>1. MessageIInv => RefusedChangesNothing
  BY DEF MessageIInv
<1> QED BY <1>1, MessageInvariant, PTL

-----------------------------------------------------------------------------
\* t[j] and t[j + 1] are a pair, among the first n tokens of t, that sets c.
Sets(t, c, j, n) ==
  /\ j \in 2..(n - 1) /\ j % 2 = 0
  /\ t[j].type = "string" /\ t[j].text = c
  /\ t[j + 1].type = "primitive"

Last(t, c, j, n) ==
  Sets(t, c, j, n) /\ \A k \in Nat : Sets(t, c, k, n) => k <= j

\* m is what the pairs among the first n tokens of t make of b.
Follows(t, b, m, n) ==
  \A c \in Commands :
    /\ (\A j \in Nat : ~Sets(t, c, j, n)) => m[c] = b[c]
    /\ \A j \in Nat : Last(t, c, j, n) => m[c] = t[j + 1].text

\* While the text of a flat message is scanned.
ScanFlat ==
  LET n == Len(tokens)
  IN  /\ n = 0 => open = <<>> /\ ~ended
      /\ n > 0 /\ ~ended => open = <<"object">>
      /\ ended => open = <<>> /\ ~afterKey
      /\ afterKey <=> n > 0 /\ n % 2 = 0
      /\ afterKey => tokens[n].type = "string"
      /\ Follows(tokens, before, meant, n)

\* While its tokens are walked over.
WalkFlat ==
  LET n == Len(tokens)
  IN  /\ n % 2 = 1 /\ index % 2 = 0 /\ index <= n + 1
      /\ Follows(tokens, before, meant, n)
      /\ Follows(tokens, before, stowCmd, index - 1)

FlatInv ==
  /\ Flat /\ ~beyond =>
       /\ pc = "parse" => ScanFlat
       /\ pc = "walk" => WalkFlat
  /\ FlatIsObeyed
  /\ beyond => ended

\* If some pair sets c, one of them is the last.
LEMMA LastPair ==
  ASSUME NEW t, NEW c, NEW n \in Nat, NEW j \in Nat, Sets(t, c, j, n)
  PROVE  \E k \in Nat : Last(t, c, k, n)
<1> DEFINE T == {d \in Nat : \E k \in Nat : Sets(t, c, k, n) /\ d = n - k}
<1>1. T \subseteq Nat /\ T # {}
  <2>1. n - j \in T
    BY DEF Sets
  <2> QED BY <2>1
<1>2. PICK d \in T : \A e \in T : ~(<<e, d>> \in OpToRel(<, Nat))
  BY <1>1, NatLessThanWellFounded, WFMin
<1>3. \A e \in T : ~(e < d)
  BY <1>1, <1>2 DEF OpToRel
<1>4. PICK k \in Nat : Sets(t, c, k, n) /\ d = n - k
  BY <1>2
<1>5. ASSUME NEW i \in Nat, Sets(t, c, i, n) PROVE i <= k
  <2>1. n - i \in T
    BY <1>5 DEF Sets
  <2> QED BY <2>1, <1>3, <1>4
<1> QED BY <1>4, <1>5 DEF Last

\* The pairs determine what they make of the commands.
LEMMA FollowsUnique ==
  ASSUME NEW t, NEW b, NEW m1 \in [Commands -> Values], NEW m2 \in [Commands -> Values],
         NEW n \in Nat, Follows(t, b, m1, n), Follows(t, b, m2, n)
  PROVE  m1 = m2
<1>1. ASSUME NEW c \in Commands PROVE m1[c] = m2[c]
  <2>1. CASE \A j \in Nat : ~Sets(t, c, j, n)
    BY <2>1 DEF Follows
  <2>2. CASE \E j \in Nat : Sets(t, c, j, n)
    <3>1. PICK k \in Nat : Last(t, c, k, n)
      BY <2>2, LastPair
    <3> QED BY <3>1 DEF Follows
  <2> QED BY <2>1, <2>2
<1> QED BY <1>1

\* The first token is no pair.
LEMMA FollowsFirst ==
  ASSUME NEW t, NEW b, NEW n \in 0..1
  PROVE  Follows(t, b, b, n)
BY DEF Follows, Last, Sets

\* One token more that completes no pair changes nothing.
LEMMA FollowsSkip ==
  ASSUME NEW t, NEW b, NEW m, NEW n \in Nat, Follows(t, b, m, n),
         n < 2 \/ n % 2 = 1
           \/ ~(t[n].type = "string" /\ t[n].text \in Commands
                /\ t[n + 1].type = "primitive")
  PROVE  Follows(t, b, m, n + 1)
<1>1. \A c \in Commands : \A j \in Nat : Sets(t, c, j, n + 1) <=> Sets(t, c, j, n)
  BY DEF Sets
<1>2. \A c \in Commands : \A j \in Nat : Last(t, c, j, n + 1) <=> Last(t, c, j, n)
  BY <1>1 DEF Last
<1> QED BY <1>1, <1>2 DEF Follows

\* A pair that sets a command becomes the last one for it.
LEMMA FollowsPair ==
  ASSUME NEW t, NEW b, NEW m \in [Commands -> Values], NEW n \in Nat, Follows(t, b, m, n),
         n >= 2, n % 2 = 0, t[n].type = "string", t[n].text \in Commands,
         t[n + 1].type = "primitive"
  PROVE  Follows(t, b, [m EXCEPT ![t[n].text] = t[n + 1].text], n + 1)
<1> DEFINE key == t[n].text
<1>1. Sets(t, key, n, n + 1) /\ \A j \in Nat : Sets(t, key, j, n + 1) => j <= n
  BY DEF Sets
<1>2. Last(t, key, n, n + 1) /\ \A j \in Nat : Last(t, key, j, n + 1) => j = n
  BY <1>1 DEF Last
<1>3. \A c \in Commands \ {key} : \A j \in Nat : Sets(t, c, j, n + 1) <=> Sets(t, c, j, n)
  BY DEF Sets
<1>4. \A c \in Commands \ {key} : \A j \in Nat : Last(t, c, j, n + 1) <=> Last(t, c, j, n)
  BY <1>3 DEF Last
<1> QED BY <1>1, <1>2, <1>3, <1>4 DEF Follows

\* The tokens after the first n do not matter.
LEMMA FollowsPrefix ==
  ASSUME NEW t, NEW u, NEW b, NEW m, NEW n \in Nat, Follows(t, b, m, n),
         \A i \in 1..n : u[i] = t[i]
  PROVE  Follows(u, b, m, n)
<1>1. \A c \in Commands : \A j \in Nat : Sets(u, c, j, n) <=> Sets(t, c, j, n)
  BY DEF Sets
<1>2. \A c \in Commands : \A j \in Nat : Last(u, c, j, n) => Last(t, c, j, n) /\ u[j + 1] = t[j + 1]
  BY <1>1 DEF Last, Sets
<1> QED BY <1>1, <1>2 DEF Follows

-----------------------------------------------------------------------------
\* A message of too many tokens is not obeyed.
LEMMA FullFlat ==
  ASSUME MessageIInv, pc = "parse", beyond' => ended', pc' = "done", tokens' = tokens,
         Len(tokens) = MaxTokens, UNCHANGED <<stowCmd, before, index>>
  PROVE  FlatInv'
<1>1. stowCmd' = before' /\ Len(tokens') = MaxTokens /\ index' = 0
  BY DEF MessageIInv, WalkInv
<1> QED BY <1>1 DEF FlatInv, FlatIsObeyed

\* Allocate makes a token, or the array is full.
LEMMA AllocateCases ==
  ASSUME MessageIInv, NEW token \in Token, Allocate(token)
  PROVE  \/ pc' = "parse" /\ tokens' = Append(tokens, token)
         \/ pc' = "done" /\ tokens' = tokens /\ Len(tokens) = MaxTokens
<1>1. Len(tokens) \in Nat /\ Len(tokens) <= MaxTokens /\ MaxTokens \in Nat
  BY MessageAssumption DEF MessageIInv, MessageTypeOK
<1>2. Len(tokens) < MaxTokens \/ Len(tokens) = MaxTokens
  BY <1>1
<1> QED BY <1>1, <1>2 DEF Allocate, Refuse

\* One more token: the tokens before it stay, and a flat text was flat before.
LEMMA AppendedFlat ==
  ASSUME MessageIInv, NEW token \in Token, tokens' = Append(tokens, token)
  PROVE  /\ Len(tokens) \in Nat /\ Len(tokens') = Len(tokens) + 1
         /\ \A i \in 1..Len(tokens) : tokens'[i] = tokens[i]
         /\ tokens'[Len(tokens) + 1] = token
         /\ Flat' => Flat
         /\ Flat' /\ Len(tokens) > 0 => token.type \in {"string", "primitive"}
<1>1. tokens \in Seq(Token)
  BY DEF MessageIInv, MessageTypeOK
<1>2. /\ Len(tokens) \in Nat /\ Len(tokens') = Len(tokens) + 1
      /\ \A i \in 1..Len(tokens) : tokens'[i] = tokens[i]
      /\ tokens'[Len(tokens) + 1] = token
  BY <1>1
<1> QED BY <1>2 DEF Flat, FlatUpTo

\* While a flat text is scanned, a container is only opened as the first token.
LEMMA OpenFlat ==
  ASSUME MessageIInv, FlatInv, NEW type \in {"object", "array"}, OpenContainer(type)
  PROVE  FlatInv'
<1>1. /\ pc = "parse" /\ UNCHANGED <<stowCmd, before, index, meant>>
      /\ ValueMayFollow \/ (tokens = <<>> /\ type = "object")
      /\ Allocate([type |-> type, text |-> ""])
      /\ open' = <<type>> \o open
      /\ afterKey' = FALSE /\ beyond' = ended /\ ended' = ended
  BY DEF OpenContainer, Scanning
<1>2. PICK token \in Token : Allocate(token) /\ token.type = type
  <2>1. [type |-> type, text |-> ""] \in Token
    BY DEF Token, Containers
  <2> QED BY <1>1, <2>1
<1>3. beyond' => ended'
  BY <1>1, Zenon
<1>4. CASE pc' = "done" /\ tokens' = tokens /\ Len(tokens) = MaxTokens
  BY <1>1, <1>3, <1>4, FullFlat
<1>5. CASE pc' = "parse" /\ tokens' = Append(tokens, token)
  <2>1. SUFFICES ASSUME Flat', ~beyond' PROVE ScanFlat'
    BY <1>3, <1>5 DEF FlatInv, FlatIsObeyed
  <2>2. ~ended /\ ~beyond
    BY <1>1, <2>1, Zenon DEF FlatInv
  <2>3. Flat /\ Len(tokens) = 0 /\ Len(tokens') = 1
    BY <1>2, <1>5, <2>1, AppendedFlat
  <2>4. ScanFlat
    BY <1>1, <2>2, <2>3 DEF FlatInv
  <2>5. meant' = before'
    <3>1. Follows(tokens, before, before, 0)
      BY FollowsFirst, 0 \in 0..1
    <3>2. Follows(tokens, before, meant, 0)
      BY <2>3, <2>4 DEF ScanFlat
    <3>3. meant \in [Commands -> Values] /\ before \in [Commands -> Values]
      BY DEF MessageIInv, MessageTypeOK
    <3> QED BY <1>1, <3>1, <3>2, <3>3, FollowsUnique
  <2>6. type = "object" /\ open' = <<"object">>
    <3>1. open = <<>> /\ ~afterKey
      BY <2>3, <2>4 DEF ScanFlat
    <3>2. type = "object"
      BY <1>1, <2>2, <3>1 DEF ValueMayFollow
    <3>3. <<"object">> \o <<>> = <<"object">>
      OBVIOUS
    <3> QED BY <1>1, <3>1, <3>2, <3>3
  <2>7. ~afterKey' /\ ~ended'
    BY <1>1, <2>2, Zenon
  <2>8. Follows(tokens', before', meant', 1)
    BY <2>5, FollowsFirst, 1 \in 0..1
  <2> QED BY <2>3, <2>6, <2>7, <2>8 DEF ScanFlat
<1> QED BY <1>2, <1>4, <1>5, AllocateCases

\* The object is closed after a value.
LEMMA CloseFlat ==
  ASSUME MessageIInv, FlatInv, CloseContainer
  PROVE  FlatInv'
<1>1. /\ pc = "parse" /\ UNCHANGED <<stowCmd, before, index, meant, pc, tokens, afterKey, beyond>>
      /\ open # <<>> /\ ~afterKey /\ open' = Tail(open)
      /\ ended' = (ended \/ Len(open) = 1)
  BY DEF CloseContainer, Scanning
<1>2. beyond' => ended'
  BY <1>1, Zenon DEF FlatInv
<1>3. SUFFICES ASSUME Flat, ~beyond PROVE ScanFlat'
  BY <1>1, <1>2 DEF FlatInv, FlatIsObeyed, Flat, FlatUpTo
<1>4. ScanFlat
  BY <1>1, <1>3 DEF FlatInv
<1>5. Len(tokens) \in Nat /\ Len(tokens) > 0 /\ open = <<"object">>
  BY <1>1, <1>4 DEF ScanFlat, MessageIInv, MessageTypeOK
<1>6. Tail(open) = <<>> /\ Len(open) = 1
  BY <1>5
<1>7. open' = <<>> /\ ended' /\ ~afterKey'
  BY <1>1, <1>6, Zenon
<1> QED BY <1>1, <1>4, <1>5, <1>7 DEF ScanFlat

\* In a flat text that goes on, a value may follow exactly after a key.
LEMMA FlatValue ==
  ASSUME MessageIInv, FlatInv, pc = "parse", Flat, ~beyond, ~ended,
         KeyMayFollow \/ ValueMayFollow
  PROVE  /\ ScanFlat /\ open = <<"object">> /\ Len(tokens) \in Nat /\ Len(tokens) > 0
         /\ KeyMayFollow <=> ~afterKey
         /\ ValueMayFollow <=> afterKey
<1>1. ScanFlat
  BY DEF FlatInv
<1>2. Len(tokens) \in Nat
  BY DEF MessageIInv, MessageTypeOK
<1>3. CASE Len(tokens) = 0
  BY <1>1, <1>3 DEF ScanFlat, KeyMayFollow, ValueMayFollow
<1>4. CASE Len(tokens) > 0
  <2>1. open = <<"object">>
    BY <1>1, <1>4 DEF ScanFlat
  <2>2. open # <<>> /\ Head(open) = "object"
    BY <2>1
  <2>3. /\ KeyMayFollow <=> ~afterKey
        /\ ValueMayFollow <=> afterKey
    BY <2>2, Zenon DEF KeyMayFollow, ValueMayFollow
  <2> QED BY <1>1, <1>2, <1>4, <2>1, <2>3
<1> QED BY <1>2, <1>3, <1>4

\* A string of a flat text becomes a key or a value at the place it has.
LEMMA StringFlat ==
  ASSUME MessageIInv, FlatInv, NEW s \in Strings, String(s)
  PROVE  FlatInv'
<1>1. /\ pc = "parse" /\ UNCHANGED <<stowCmd, before, index, meant, open>>
      /\ KeyMayFollow \/ ValueMayFollow
      /\ Allocate([type |-> "string", text |-> s])
      /\ afterKey' = (KeyMayFollow /\ ~ended) /\ beyond' = ended /\ ended' = ended
  BY DEF String, Scanning
<1>2. PICK token \in Token : Allocate(token) /\ token.type = "string"
  <2>1. [type |-> "string", text |-> s] \in Token
    BY DEF Token, StringTokens
  <2> QED BY <1>1, <2>1
<1>3. beyond' => ended'
  BY <1>1, Zenon
<1>4. CASE pc' = "done" /\ tokens' = tokens /\ Len(tokens) = MaxTokens
  BY <1>1, <1>3, <1>4, FullFlat
<1>5. CASE pc' = "parse" /\ tokens' = Append(tokens, token)
  <2>1. SUFFICES ASSUME Flat', ~beyond' PROVE ScanFlat'
    BY <1>3, <1>5 DEF FlatInv, FlatIsObeyed
  <2> DEFINE n == Len(tokens)
  <2>2. ~ended /\ ~beyond
    BY <1>1, <2>1, Zenon DEF FlatInv
  <2>3. /\ Flat /\ n \in Nat /\ Len(tokens') = n + 1
        /\ \A i \in 1..n : tokens'[i] = tokens[i]
        /\ tokens'[n + 1].type = "string"
    BY <1>2, <1>5, <2>1, AppendedFlat
  <2>4. ScanFlat /\ open = <<"object">> /\ n > 0 /\ (KeyMayFollow <=> ~afterKey)
    BY <1>1, <2>2, <2>3, FlatValue
  <2>5. afterKey' <=> ~afterKey
    BY <1>1, <2>2, <2>4, Zenon
  <2>6. afterKey' <=> n + 1 > 0 /\ (n + 1) % 2 = 0
    BY <2>3, <2>4, <2>5 DEF ScanFlat
  <2>7. Follows(tokens', before', meant', n + 1)
    <3>1. Follows(tokens', before, meant, n)
      BY <2>3, <2>4, FollowsPrefix DEF ScanFlat
    <3> QED BY <1>1, <2>3, <3>1, FollowsSkip
  <2>8. ~ended' /\ open' = <<"object">>
    BY <1>1, <2>2, <2>4
  <2> QED BY <2>3, <2>6, <2>7, <2>8 DEF ScanFlat
<1> QED BY <1>2, <1>4, <1>5, AllocateCases

\* A primitive of a flat text becomes a value.
LEMMA PrimitiveFlat ==
  ASSUME MessageIInv, FlatInv, NEW v \in Values, Primitive(v)
  PROVE  FlatInv'
<1> DEFINE n == Len(tokens)
<1> DEFINE key == tokens[n].text
<1>1. /\ pc = "parse" /\ UNCHANGED <<stowCmd, before, index, open>>
      /\ ValueMayFollow
      /\ Allocate([type |-> "primitive", text |-> v])
      /\ meant' = IF Len(open) = 1 /\ afterKey /\ key \in Commands
                  THEN [meant EXCEPT ![key] = v] ELSE meant
      /\ afterKey' = FALSE /\ beyond' = ended /\ ended' = ended
  BY DEF Primitive, Scanning
<1>2. PICK token \in Token : Allocate(token) /\ token.type = "primitive" /\ token.text = v
  <2>1. [type |-> "primitive", text |-> v] \in Token
    BY DEF Token, PrimitiveTokens
  <2> QED BY <1>1, <2>1
<1>3. beyond' => ended'
  BY <1>1, Zenon
<1>4. CASE pc' = "done" /\ tokens' = tokens /\ Len(tokens) = MaxTokens
  BY <1>1, <1>3, <1>4, FullFlat
<1>5. CASE pc' = "parse" /\ tokens' = Append(tokens, token)
  <2>1. SUFFICES ASSUME Flat', ~beyond' PROVE ScanFlat'
    BY <1>3, <1>5 DEF FlatInv, FlatIsObeyed
  <2>2. ~ended /\ ~beyond
    BY <1>1, <2>1, Zenon DEF FlatInv
  <2>3. /\ Flat /\ n \in Nat /\ Len(tokens') = n + 1
        /\ \A i \in 1..n : tokens'[i] = tokens[i]
        /\ tokens'[n + 1] = token
    BY <1>5, <2>1, AppendedFlat
  <2>4. ScanFlat /\ open = <<"object">> /\ n > 0 /\ afterKey
    BY <1>1, <2>2, <2>3, FlatValue
  <2>5. n % 2 = 0 /\ n >= 2 /\ tokens[n].type = "string"
    BY <2>3, <2>4 DEF ScanFlat
  <2>6. Follows(tokens', before, meant, n) /\ tokens'[n] = tokens[n]
    BY <2>3, <2>4, FollowsPrefix DEF ScanFlat
  <2>7. Len(open) = 1
    BY <2>4
  <2>8. Follows(tokens', before, meant', n + 1)
    <3>1. CASE key \in Commands
      <4>1. meant' = [meant EXCEPT ![tokens'[n].text] = tokens'[n + 1].text]
        BY <1>1, <1>2, <2>3, <2>4, <2>6, <2>7, <3>1
      <4>2. meant \in [Commands -> Values]
        BY DEF MessageIInv, MessageTypeOK
      <4>3. tokens'[n].type = "string" /\ tokens'[n].text \in Commands
            /\ tokens'[n + 1].type = "primitive"
        BY <1>2, <2>3, <2>5, <2>6, <3>1
      <4> QED BY <2>3, <2>5, <2>6, <4>1, <4>2, <4>3, FollowsPair
    <3>2. CASE key \notin Commands
      <4>1. meant' = meant
        BY <1>1, <3>2
      <4> QED BY <2>3, <2>6, <3>2, <4>1, FollowsSkip
    <3> QED BY <3>1, <3>2
  <2>9. ~ended' /\ ~afterKey' /\ open' = <<"object">>
    BY <1>1, <2>2, <2>4
  <2> QED BY <1>1, <2>3, <2>5, <2>8, <2>9 DEF ScanFlat
<1> QED BY <1>2, <1>4, <1>5, AllocateCases

\* What is read beyond the text is not of the message.
LEMMA StrayFlat ==
  ASSUME MessageIInv, FlatInv, StrayByte
  PROVE  FlatInv'
<1>1. beyond' /\ ended' /\ pc' = "done"
  BY Zenon DEF StrayByte, Scanning, Refuse
<1> QED BY <1>1 DEF FlatInv, FlatIsObeyed

\* The text of a flat message ends after a value, and the walk begins.
LEMMA EndFlat ==
  ASSUME MessageIInv, FlatInv, EndOfText
  PROVE  FlatInv'
<1>1. /\ pc = "parse" /\ ended /\ UNCHANGED <<tokens, stowCmd, before, meant, ended, beyond>>
      /\ \/ open = <<>> /\ pc' = "walk" /\ index' = 2
         \/ open # <<>> /\ pc' = "done"
  BY DEF EndOfText, Refuse, textVars
<1>2. beyond' => ended'
  BY <1>1, Zenon DEF FlatInv
<1>3. CASE Flat /\ ~beyond
  <2>1. ScanFlat
    BY <1>1, <1>3 DEF FlatInv
  <2>2. pc' = "walk" /\ index' = 2
    BY <1>1, <2>1 DEF ScanFlat
  <2>3. Len(tokens) \in Nat /\ Len(tokens) % 2 = 1
    BY <1>1, <2>1 DEF ScanFlat, MessageIInv, MessageTypeOK
  <2>4. Follows(tokens, before, stowCmd, 1)
    <3>1. stowCmd = before
      BY <1>1 DEF MessageIInv, WalkInv
    <3> QED BY <3>1, FollowsFirst, 1 \in 0..1
  <2>5. WalkFlat'
    BY <1>1, <2>1, <2>2, <2>3, <2>4 DEF ScanFlat, WalkFlat
  <2> QED BY <1>2, <2>2, <2>5 DEF FlatInv, FlatIsObeyed
<1>4. CASE ~(Flat /\ ~beyond)
  BY <1>1, <1>2, <1>4 DEF FlatInv, FlatIsObeyed, Flat, FlatUpTo
<1> QED BY <1>3, <1>4

\* A pair of the walk, both of whose tokens are there, is one more pair that is followed.
LEMMA WalkPair ==
  ASSUME MessageIInv, Pair, index % 2 = 0, index + 1 <= Len(tokens),
         Follows(tokens, before, stowCmd, index - 1)
  PROVE  Follows(tokens, before, stowCmd', index + 1)
<1> DEFINE key == tokens[index]
<1>1. pc = "walk" /\ index \in Nat /\ index >= 2 /\ Len(tokens) \in Nat
  BY DEF Pair, MessageIInv, MessageTypeOK, WalkInv
<1>2. PICK value \in TokensAt(index + 1) : Store(tokens[index], value)
  BY DEF Pair
<1>3. value = tokens[index + 1]
  BY <1>2 DEF TokensAt
<1>4. Follows(tokens, before, stowCmd, index)
  <2>1. (index - 1) % 2 = 1
    BY <1>1
  <2> QED BY <1>1, <2>1, FollowsSkip
<1>5. CASE key.type = "string" /\ value.type = "primitive" /\ key.text \in Commands
  <2>1. stowCmd' = [stowCmd EXCEPT ![key.text] = tokens[index + 1].text]
    BY <1>2, <1>3, <1>5 DEF Store
  <2>2. stowCmd \in [Commands -> Values]
    BY DEF MessageIInv, MessageTypeOK
  <2> QED BY <1>1, <1>3, <1>4, <1>5, <2>1, <2>2, FollowsPair
<1>6. CASE ~(key.type = "string" /\ value.type = "primitive" /\ key.text \in Commands)
  <2>1. stowCmd' = stowCmd
    BY <1>2, <1>6 DEF Store
  <2> QED BY <1>1, <1>3, <1>4, <1>6, <2>1, FollowsSkip
<1> QED BY <1>5, <1>6

\* The walk of a flat message takes every key with its value.
LEMMA PairFlat ==
  ASSUME MessageIInv, FlatInv, Pair
  PROVE  FlatInv'
<1> DEFINE n == Len(tokens)
<1>1. /\ pc = "walk" /\ index <= n /\ index' = index + 2
      /\ UNCHANGED <<pc, tokens, before, meant, ended, beyond>>
  BY DEF Pair, textVars
<1>2. SUFFICES ASSUME Flat, ~beyond PROVE WalkFlat'
  BY <1>1 DEF FlatInv, FlatIsObeyed, Flat, FlatUpTo
<1>3. WalkFlat /\ n \in Nat /\ index \in Nat /\ index >= 2
  BY <1>1, <1>2 DEF FlatInv, MessageIInv, MessageTypeOK, WalkInv
<1>4. index + 1 <= n /\ index % 2 = 0 /\ n % 2 = 1
  BY <1>1, <1>3 DEF WalkFlat
<1>5. Follows(tokens, before, stowCmd', index + 1)
  BY <1>3, <1>4, WalkPair DEF WalkFlat
<1>6. index' % 2 = 0 /\ index' <= n + 1 /\ index' - 1 = index + 1
  BY <1>1, <1>3, <1>4
<1> QED BY <1>1, <1>3, <1>4, <1>5, <1>6 DEF WalkFlat

\* At the end of the walk the commands are what the members mean.
LEMMA ReturnFlat ==
  ASSUME MessageIInv, FlatInv, Return
  PROVE  FlatInv'
<1>1. /\ pc = "walk" /\ index > Len(tokens) /\ pc' = "done"
      /\ UNCHANGED <<tokens, stowCmd, before, meant, ended, beyond>>
  BY DEF Return, textVars
<1>2. SUFFICES ASSUME Flat, ~beyond PROVE stowCmd = meant
  BY <1>1 DEF FlatInv, FlatIsObeyed, Flat, FlatUpTo
<1>3. WalkFlat /\ Len(tokens) \in Nat /\ index \in Nat
  BY <1>1, <1>2 DEF FlatInv, MessageIInv, MessageTypeOK
<1>4. index - 1 = Len(tokens)
  BY <1>1, <1>3 DEF WalkFlat
<1>5. /\ Follows(tokens, before, stowCmd, Len(tokens))
      /\ Follows(tokens, before, meant, Len(tokens))
  BY <1>3, <1>4 DEF WalkFlat
<1>6. stowCmd \in [Commands -> Values] /\ meant \in [Commands -> Values]
  BY DEF MessageIInv, MessageTypeOK
<1> QED BY <1>3, <1>5, <1>6, FollowsUnique

\* The next message begins with nothing.
LEMMA NextFlat ==
  ASSUME MessageIInv, FlatInv, NextMessage
  PROVE  FlatInv'
<1>1. /\ pc' = "parse" /\ tokens' = <<>> /\ open' = <<>> /\ meant' = before'
      /\ afterKey' = FALSE /\ ended' = FALSE /\ beyond' = FALSE
  BY DEF NextMessage
<1>2. Len(tokens') = 0
  BY <1>1
<1>3. Follows(tokens', before', meant', 0)
  BY <1>1, FollowsFirst, 0 \in 0..1
<1>4. ~afterKey' /\ ~ended' /\ ~beyond'
  BY <1>1, Zenon
<1>5. ScanFlat'
  BY <1>1, <1>2, <1>3, <1>4 DEF ScanFlat
<1> QED BY <1>1, <1>4, <1>5 DEF FlatInv, FlatIsObeyed

\* Scan and walk of a flat message, for any number of tokens there is room for.
THEOREM FlatInvariant == MessageSpec => [](MessageIInv /\ FlatInv)
<1>1. ASSUME MessageInit PROVE FlatInv
  <2>1. pc = "parse" /\ tokens = <<>> /\ open = <<>> /\ meant = before
    BY <1>1 DEF MessageInit
  <2>2. Len(tokens) = 0
    BY <2>1
  <2>3. Follows(tokens, before, meant, 0)
    BY <2>1, FollowsFirst, 0 \in 0..1
  <2>4. ~afterKey /\ ~ended /\ ~beyond
    BY <1>1, Zenon DEF MessageInit
  <2>5. ScanFlat
    BY <2>1, <2>2, <2>3, <2>4 DEF ScanFlat
  <2> QED BY <2>1, <2>4, <2>5 DEF FlatInv, FlatIsObeyed
<1>2. ASSUME MessageIInv, FlatInv, [MessageNext]_messageVars PROVE FlatInv'
  <2>1. CASE UNCHANGED messageVars
    BY <1>2, <2>1 DEF messageVars, textVars, FlatInv, FlatIsObeyed, Flat, FlatUpTo, ScanFlat, WalkFlat
  <2>2. CASE MessageNext
    BY <1>2, <2>2, OpenFlat, CloseFlat, StringFlat, PrimitiveFlat, StrayFlat, EndFlat,
       PairFlat, ReturnFlat, NextFlat DEF MessageNext, Scan
  <2> QED BY <1>2, <2>1, <2>2
<1> QED BY <1>1, <1>2, MessageInvariant, PTL DEF MessageSpec

\* A flat message is obeyed as a whole or, when it has too many members, not at
\* all, for any number of tokens there is room for.
THEOREM FlatAlwaysObeyed == MessageSpec => []FlatIsObeyed
<1>1. FlatInv => FlatIsObeyed
  BY DEF FlatInv
<1> QED BY <1>1, FlatInvariant, PTL

-----------------------------------------------------------------------------
\* The leftovers of the stack name command c.
Named(c) == \E i \in (own + 1)..Len(tokens) : tokens[i] = [type |-> "string", text |-> c]

\* The sender's own tokens, and what the walk makes of them and of the others.
ApartInv ==
  /\ own <= Len(tokens)
  /\ pc = "walk" => ended
  /\ ended => ~afterKey
  /\ ended /\ FlatUpTo(own) => own % 2 = 1 /\ Follows(tokens, before, meant, own)
  /\ pc = "walk" /\ FlatUpTo(own) =>
       /\ index % 2 = 0
       /\ index <= own + 1 => Follows(tokens, before, stowCmd, index - 1)
       /\ index > own + 1 => \A c \in Commands : stowCmd[c] = meant[c] \/ Named(c)
  /\ LeftoversStayApart

\* A token more, or none, and no member more once the object is complete.
LEMMA ApartScan ==
  ASSUME MessageIInv, ApartInv, pc = "parse", pc' \in {"parse", "done"},
         UNCHANGED <<stowCmd, before, index, own>>,
         tokens' \in Seq(Token), Len(tokens) <= Len(tokens'),
         \A i \in 1..Len(tokens) : tokens'[i] = tokens[i],
         ended' => ended /\ ~afterKey' /\ meant' = meant
  PROVE  ApartInv'
<1>1. index' = 0 /\ own \in Nat /\ Len(tokens) \in Nat /\ Len(tokens') \in Nat
  BY DEF MessageIInv, MessageTypeOK, WalkInv
<1>2. LeftoversStayApart' /\ own' <= Len(tokens')
  BY <1>1 DEF LeftoversStayApart, ApartInv
<1>3. ASSUME ended', FlatUpTo(own)'
      PROVE  own' % 2 = 1 /\ Follows(tokens', before', meant', own')
  <2>1. ended /\ meant' = meant
    BY <1>3, Zenon
  <2>2. FlatUpTo(own)
    BY <1>1, <1>3 DEF FlatUpTo, ApartInv
  <2>3. own % 2 = 1 /\ Follows(tokens, before, meant, own)
    BY <2>1, <2>2 DEF ApartInv
  <2>4. \A i \in 1..own : tokens'[i] = tokens[i]
    BY <1>1 DEF ApartInv
  <2> QED BY <1>1, <2>1, <2>3, <2>4, FollowsPrefix
<1>4. pc' # "walk"
  OBVIOUS
<1> QED BY <1>2, <1>3, <1>4 DEF ApartInv

\* A step of the scan that may make a token.
LEMMA ApartAllocate ==
  ASSUME MessageIInv, ApartInv, NEW token \in Token, Scanning, Allocate(token),
         UNCHANGED <<ended, own>>, ended => ~afterKey' /\ meant' = meant
  PROVE  ApartInv'
<1>1. pc = "parse" /\ UNCHANGED <<stowCmd, before, index, own>>
  BY DEF Scanning
<1>2. /\ pc' \in {"parse", "done"} /\ tokens' \in Seq(Token)
      /\ tokens' = tokens \/ tokens' = Append(tokens, token)
  BY Allocation DEF MessageIInv, MessageTypeOK
<1>3. tokens \in Seq(Token)
  BY DEF MessageIInv, MessageTypeOK
<1>4. Len(tokens) <= Len(tokens') /\ \A i \in 1..Len(tokens) : tokens'[i] = tokens[i]
  BY <1>2, <1>3
<1>5. ended' => ended /\ ~afterKey' /\ meant' = meant
  BY Zenon
<1> QED BY <1>1, <1>2, <1>4, <1>5, ApartScan

\* The steps that make a token, and the stray byte.
LEMMA ApartLexeme ==
  ASSUME MessageIInv, ApartInv,
         \/ \E type \in {"object", "array"} : OpenContainer(type)
         \/ \E s \in Strings : String(s)
         \/ \E v \in Values : Primitive(v)
         \/ StrayByte
  PROVE  ApartInv'
<1>1. ASSUME NEW type \in {"object", "array"}, OpenContainer(type) PROVE ApartInv'
  <2>1. [type |-> type, text |-> ""] \in Token
    BY DEF Token, Containers
  <2>2. /\ Scanning /\ Allocate([type |-> type, text |-> ""])
        /\ UNCHANGED <<ended, own>> /\ meant' = meant /\ afterKey' = FALSE
    BY <1>1 DEF OpenContainer
  <2> QED BY <2>1, <2>2, ApartAllocate
<1>2. ASSUME NEW s \in Strings, String(s) PROVE ApartInv'
  <2>1. [type |-> "string", text |-> s] \in Token
    BY DEF Token, StringTokens
  <2>2. /\ Scanning /\ Allocate([type |-> "string", text |-> s])
        /\ UNCHANGED <<ended, own>> /\ meant' = meant
    BY <1>2 DEF String
  <2>3. ended => ~afterKey'
    BY <1>2, Zenon DEF String
  <2> QED BY <2>1, <2>2, <2>3, ApartAllocate
<1>3. ASSUME NEW v \in Values, Primitive(v) PROVE ApartInv'
  <2>1. [type |-> "primitive", text |-> v] \in Token
    BY DEF Token, PrimitiveTokens
  <2>2. /\ Scanning /\ Allocate([type |-> "primitive", text |-> v])
        /\ UNCHANGED <<ended, own>> /\ afterKey' = FALSE
    BY <1>3 DEF Primitive
  <2>3. ended => meant' = meant
    <3>1. ended => ~afterKey
      BY DEF ApartInv
    <3> QED BY <1>3, <3>1 DEF Primitive
  <2> QED BY <2>1, <2>2, <2>3, ApartAllocate
<1>4. ASSUME StrayByte PROVE ApartInv'
  <2>1. /\ pc = "parse" /\ pc' = "done" /\ ended /\ ended' = ended
        /\ UNCHANGED <<stowCmd, before, index, own, tokens, meant, afterKey>>
    BY <1>4 DEF StrayByte, Scanning, Refuse
  <2>2. ended' => ended /\ ~afterKey' /\ meant' = meant
    BY <2>1, Zenon DEF ApartInv
  <2>3. tokens' \in Seq(Token) /\ Len(tokens) <= Len(tokens')
    BY <2>1 DEF MessageIInv, MessageTypeOK
  <2> QED BY <2>1, <2>2, <2>3, ApartScan
<1> QED BY <1>1, <1>2, <1>3, <1>4

\* The object is complete: what its members mean follows from its own tokens.
LEMMA ApartClose ==
  ASSUME MessageIInv, FlatInv, ApartInv, CloseContainer
  PROVE  ApartInv'
<1>1. /\ pc = "parse" /\ open # <<>> /\ ~afterKey
      /\ UNCHANGED <<stowCmd, before, index, pc, tokens, afterKey, meant>>
      /\ ended' = (ended \/ Len(open) = 1)
      /\ own' = IF ~ended /\ Len(open) = 1 THEN Len(tokens) ELSE own
  BY DEF CloseContainer, Scanning
<1>2. tokens' \in Seq(Token) /\ Len(tokens) <= Len(tokens')
  BY <1>1 DEF MessageIInv, MessageTypeOK
<1>3. CASE ended \/ Len(open) # 1
  <2>1. own' = own /\ (ended' => ended /\ ~afterKey' /\ meant' = meant)
    BY <1>1, <1>3, Zenon
  <2> QED BY <1>1, <1>2, <2>1, ApartScan
<1>4. CASE ~ended /\ Len(open) = 1
  <2>1. own' = Len(tokens) /\ Len(tokens) \in Nat /\ index' = 0
    BY <1>1, <1>4 DEF MessageIInv, MessageTypeOK, WalkInv
  <2>2. ASSUME FlatUpTo(own)' PROVE own' % 2 = 1 /\ Follows(tokens', before', meant', own')
    <3>1. Flat /\ ~beyond
      BY <1>1, <1>4, <2>1, <2>2 DEF Flat, FlatUpTo, FlatInv
    <3>2. ScanFlat
      BY <1>1, <3>1 DEF FlatInv
    <3>3. Len(tokens) % 2 = 1
      BY <1>1, <2>1, <3>2 DEF ScanFlat
    <3> QED BY <1>1, <2>1, <3>2, <3>3 DEF ScanFlat
  <2>3. LeftoversStayApart' /\ ~afterKey'
    BY <1>1, <2>1, Zenon DEF LeftoversStayApart
  <2> QED BY <1>1, <2>1, <2>2, <2>3 DEF ApartInv
<1> QED BY <1>3, <1>4

\* The walk begins with everything as it was before the message.
LEMMA ApartEnd ==
  ASSUME MessageIInv, ApartInv, EndOfText
  PROVE  ApartInv'
<1>1. /\ pc = "parse" /\ ended /\ UNCHANGED <<tokens, stowCmd, before, meant, ended, own, afterKey>>
      /\ \/ pc' = "walk" /\ index' = 2
         \/ pc' = "done" /\ index' = 0
  BY DEF EndOfText, Refuse, textVars, MessageIInv, WalkInv
<1>2. LeftoversStayApart'
  BY <1>1 DEF LeftoversStayApart
<1>3. ASSUME pc' = "walk", FlatUpTo(own)'
      PROVE  /\ index' % 2 = 0 /\ ~(index' > own' + 1)
             /\ Follows(tokens', before', stowCmd', index' - 1)
  <2>1. own % 2 = 1 /\ own \in Nat
    BY <1>1, <1>3 DEF ApartInv, FlatUpTo, MessageIInv, MessageTypeOK
  <2>2. Follows(tokens, before, stowCmd, 1)
    <3>1. stowCmd = before
      BY <1>1 DEF MessageIInv, WalkInv
    <3> QED BY <3>1, FollowsFirst, 1 \in 0..1
  <2> QED BY <1>1, <1>3, <2>1, <2>2
<1>4. /\ own' <= Len(tokens') /\ (pc' = "walk" => ended') /\ (ended' => ~afterKey')
      /\ ended' /\ FlatUpTo(own)' => own' % 2 = 1 /\ Follows(tokens', before', meant', own')
  BY <1>1 DEF ApartInv, FlatUpTo
<1> QED BY <1>2, <1>3, <1>4 DEF ApartInv

\* What a pair sets when its first token is a leftover is a command that the leftovers name.
LEMMA LeftoverPair ==
  ASSUME MessageIInv, Pair, index > own,
         \A c \in Commands : stowCmd[c] = meant[c] \/ Named(c)
  PROVE  \A c \in Commands : stowCmd'[c] = meant'[c] \/ Named(c)'
<1>1. /\ UNCHANGED <<tokens, own, meant>> /\ index \in (own + 1)..Len(tokens)
      /\ tokens[index] \in Token /\ stowCmd \in [Commands -> Values]
  BY DEF Pair, textVars, MessageIInv, MessageTypeOK, WalkInv
<1>2. PICK value : Store(tokens[index], value)
  BY DEF Pair
<1>3. SUFFICES ASSUME NEW c \in Commands, stowCmd'[c] # stowCmd[c] PROVE Named(c)
  BY <1>1 DEF Named
<1>4. tokens[index].type = "string" /\ tokens[index].text = c
  BY <1>1, <1>2, <1>3 DEF Store
<1>5. tokens[index] = [type |-> "string", text |-> c]
  BY <1>1, <1>4, TokenKinds DEF StringTokens
<1> QED BY <1>1, <1>5 DEF Named

\* A pair of the walk is the sender's or the stack's, and never half of each.
LEMMA ApartPair ==
  ASSUME MessageIInv, ApartInv, Pair
  PROVE  ApartInv'
<1>1. /\ pc = "walk" /\ ended /\ index <= Len(tokens) /\ index' = index + 2
      /\ UNCHANGED <<pc, tokens, before, meant, ended, own, afterKey>>
  BY DEF Pair, textVars, ApartInv
<1>2. /\ own \in Nat /\ index \in Nat /\ Len(tokens) \in Nat /\ index >= 2 /\ own <= Len(tokens)
      /\ stowCmd \in [Commands -> Values] /\ meant \in [Commands -> Values]
  BY <1>1 DEF MessageIInv, MessageTypeOK, WalkInv, ApartInv
<1>3. LeftoversStayApart'
  BY <1>1 DEF LeftoversStayApart
<1>4. ASSUME FlatUpTo(own)
      PROVE  /\ index' % 2 = 0
             /\ index' <= own' + 1 => Follows(tokens', before', stowCmd', index' - 1)
             /\ index' > own' + 1 => \A c \in Commands : stowCmd'[c] = meant'[c] \/ Named(c)'
  <2>1. own % 2 = 1 /\ Follows(tokens, before, meant, own) /\ index % 2 = 0
    BY <1>1, <1>4 DEF ApartInv
  <2>2. CASE index + 1 <= own
    <3>1. Follows(tokens, before, stowCmd, index - 1)
      BY <1>1, <1>2, <1>4, <2>2 DEF ApartInv
    <3>2. Follows(tokens, before, stowCmd', index + 1)
      BY <1>2, <2>1, <2>2, <3>1, WalkPair
    <3>3. index' - 1 = index + 1 /\ ~(index' > own' + 1) /\ index' % 2 = 0
      BY <1>1, <1>2, <2>1, <2>2
    <3> QED BY <1>1, <3>2, <3>3
  <2>3. CASE index > own
    <3>1. \A c \in Commands : stowCmd[c] = meant[c] \/ Named(c)
      <4>1. CASE index = own + 1
        <5>1. Follows(tokens, before, stowCmd, own)
          BY <1>1, <1>2, <1>4, <4>1 DEF ApartInv
        <5>2. stowCmd = meant
          BY <1>2, <2>1, <5>1, FollowsUnique
        <5> QED BY <5>2
      <4>2. CASE index > own + 1
        BY <1>1, <1>4, <4>2 DEF ApartInv
      <4> QED BY <1>2, <2>3, <4>1, <4>2
    <3>2. \A c \in Commands : stowCmd'[c] = meant'[c] \/ Named(c)'
      BY <2>3, <3>1, LeftoverPair
    <3>3. index' % 2 = 0 /\ ~(index' <= own' + 1)
      BY <1>1, <1>2, <2>1, <2>3
    <3> QED BY <3>2, <3>3
  <2>4. index + 1 <= own \/ index > own
    BY <1>2, <2>1
  <2> QED BY <2>2, <2>3, <2>4
<1>5. FlatUpTo(own)' <=> FlatUpTo(own)
  BY <1>1 DEF FlatUpTo
<1>6. /\ own' <= Len(tokens') /\ (pc' = "walk" => ended') /\ (ended' => ~afterKey')
      /\ ended' /\ FlatUpTo(own)' => own' % 2 = 1 /\ Follows(tokens', before', meant', own')
  BY <1>1, <1>5 DEF ApartInv
<1> QED BY <1>3, <1>4, <1>5, <1>6 DEF ApartInv

\* At the end of the walk all of the sender's pairs are passed.
LEMMA ApartReturn ==
  ASSUME MessageIInv, ApartInv, Return
  PROVE  ApartInv'
<1>1. /\ pc = "walk" /\ index > Len(tokens) /\ pc' = "done"
      /\ UNCHANGED <<tokens, index, stowCmd, before, meant, ended, own, afterKey>>
  BY DEF Return, textVars
<1>2. /\ own \in Nat /\ index \in Nat /\ Len(tokens) \in Nat /\ own <= Len(tokens) /\ ended
      /\ stowCmd \in [Commands -> Values] /\ meant \in [Commands -> Values]
  BY <1>1 DEF MessageIInv, MessageTypeOK, ApartInv
<1>3. ASSUME FlatUpTo(own) PROVE \A c \in Commands : stowCmd[c] = meant[c] \/ Named(c)
  <2>1. CASE index = own + 1
    <3>1. /\ Follows(tokens, before, stowCmd, own)
          /\ Follows(tokens, before, meant, own)
      BY <1>1, <1>2, <1>3, <2>1 DEF ApartInv
    <3> QED BY <1>2, <3>1, FollowsUnique
  <2>2. CASE index > own + 1
    BY <1>1, <1>3, <2>2 DEF ApartInv
  <2> QED BY <1>1, <1>2, <2>1, <2>2
<1>4. LeftoversStayApart'
  BY <1>1, <1>3 DEF LeftoversStayApart, Named, FlatUpTo
<1> QED BY <1>1, <1>4 DEF ApartInv, FlatUpTo

\* The next message has no tokens yet.
LEMMA ApartNext ==
  ASSUME MessageIInv, NextMessage
  PROVE  ApartInv'
<1>1. pc' = "parse" /\ tokens' = <<>> /\ own' = 0 /\ ended' = FALSE
  BY DEF NextMessage
<1>2. own' <= Len(tokens')
  BY <1>1
<1>3. ~ended'
  BY <1>1, Zenon
<1> QED BY <1>1, <1>2, <1>3 DEF ApartInv, LeftoversStayApart

\* For any keys, any room for tokens and anything on the stack: leftovers change no command
\* that they do not name, and unsay nothing that a flat message says.
THEOREM LeftoversAlwaysApart == MessageSpec => []LeftoversStayApart
<1>1. ASSUME MessageInit PROVE ApartInv
  <2>1. pc = "parse" /\ tokens = <<>> /\ own = 0 /\ ended = FALSE
    BY <1>1 DEF MessageInit
  <2>2. own <= Len(tokens)
    BY <2>1
  <2>3. ~ended
    BY <2>1, Zenon
  <2> QED BY <2>1, <2>2, <2>3 DEF ApartInv, LeftoversStayApart
<1>2. ASSUME MessageIInv, FlatInv, ApartInv, [MessageNext]_messageVars PROVE ApartInv'
  <2>1. CASE UNCHANGED messageVars
    BY <1>2, <2>1 DEF messageVars, textVars, ApartInv, LeftoversStayApart, FlatUpTo, Named
  <2>2. CASE MessageNext
    BY <1>2, <2>2, ApartLexeme, ApartClose, ApartEnd, ApartPair, ApartReturn, ApartNext
       DEF MessageNext, Scan
  <2> QED BY <1>2, <2>1, <2>2
<1>3. ApartInv => LeftoversStayApart
  BY DEF ApartInv
<1> QED BY <1>1, <1>2, <1>3, FlatInvariant, PTL DEF MessageSpec
=============================================================================
