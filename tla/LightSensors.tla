---------------------------- MODULE LightSensors ----------------------------
(***************************************************************************)
(* The array irradianceV of trackerDemo.c and its mutex lockIrradianceData.*)
(* The main loop reads the A/D inputs into the array and scales them in    *)
(* place; the report thread formats the array.  The locking is the only    *)
(* thing that keeps unscaled values, and values of two rounds, out of a    *)
(* message.  Every access to an element of the array is a step.            *)
(*                                                                         *)
(* Nothing keeps two corners from having the same A/D input (the shipped   *)
(* configurations give all four input 0): the element of that input is then*)
(* read, and scaled, once for each of them.                                *)
(*                                                                         *)
(* Voltages are whole numbers.  A read that fails leaves AnalogStr         *)
(* uninitialised: AtoD_read converts whatever the stack held.              *)
(***************************************************************************)
EXTENDS Integers, FiniteSets, Functions

CONSTANTS
  Elements,           \* of the array, one for each A/D input
  Corners,            \* left top, right top, left bottom, right bottom
  Left, Top,          \* the corners on the left, and the ones at the top
  Input,              \* LIGHT_SENSOR_LEFT_TOP etc.: the A/D input of a corner
  lightSensorScalar,
  lightSensorOffset,
  Voltages,           \* what the A/D inputs can be at
  Leftovers,          \* what a failed read can return; none if reads cannot fail
  MinDifference       \* LIGHT_SENSOR_MIN_DIFFERENCE_TO_MOVE_TRACKER

ASSUME SensorAssumption ==
  /\ IsFiniteSet(Corners)
  /\ Left \subseteq Corners /\ Top \subseteq Corners
  /\ Input \in [Corners -> Elements]
  /\ lightSensorScalar \in [Elements -> Int]
  /\ lightSensorOffset \in [Elements -> Int]
  /\ Voltages \subseteq Int
  /\ Leftovers \subseteq Int
  /\ MinDifference \in Nat

VARIABLES
  voltage,      \* the A/D inputs
  irradianceV,
  lock,         \* lockIrradianceData: "free", "main" or "report"
  todo,         \* the corners that main has not dealt with yet
  mainPc,       \* "sleep", "read", "scale", "decide"
  turn,         \* which way the round drives the two axes: -1, 0 or 1
  reportPc,     \* "wait", "copy", "publish"
  uncopied,     \* the elements that are not in the message yet
  message,      \* the irradiances of the message
  sample,       \* history: what AtoD_read returned last for an input
  measured      \* history: the result of the last complete round

mainVars   == <<mainPc, turn, sample, measured>>
reportVars == <<reportPc, uncopied, message>>
sensorVars == <<voltage, irradianceV, lock, todo, mainVars, reportVars>>

Zero == [i \in Elements |-> 0]
NoTurn == [azimuth |-> 0, altitude |-> 0]

SensorInit ==
  /\ voltage \in [Elements -> Voltages]
  /\ irradianceV = Zero
  /\ lock = "free"
  /\ todo = {}
  /\ mainPc = "sleep"
  /\ turn = NoTurn
  /\ reportPc = "wait"
  /\ uncopied = {}
  /\ message = Zero
  /\ sample = Zero
  /\ measured = Zero

-----------------------------------------------------------------------------
Scale(i, v) == lightSensorScalar[i] * v + lightSensorOffset[i]

\* A value scaled n times.
Scaled(i, v, n) ==
  LET pass[k \in 0 .. n] == IF k = 0 THEN v ELSE Scale(i, pass[k - 1])
  IN  pass[n]

\* Those of a set of corners that have input i.
At(i, corners) == {c \in corners : Input[c] = i}

\* One side of the panel minus the other.
Differential(v, side) ==
  LET at == [c \in Corners |-> v[Input[c]]]
  IN  SumFunctionOnSet(at, side) - SumFunctionOnSet(at, Corners \ side)

Direction(difference) ==
  IF difference > MinDifference THEN 1
  ELSE IF difference < -MinDifference THEN -1 ELSE 0

Turn(v) == [azimuth  |-> Direction(Differential(v, Left)),
            altitude |-> Direction(Differential(v, Top))]

\* Mutant: the main loop does not wait for the mutex.
MainBargesIn ==
  /\ mainPc = "sleep"
  /\ lock' = "main"
  /\ todo' = Corners
  /\ mainPc' = "read"
  /\ UNCHANGED <<voltage, irradianceV, turn, sample, measured, reportVars>>

MainLock ==
  /\ mainPc = "sleep"
  /\ lock = "free"
  /\ lock' = "main"
  /\ todo' = Corners
  /\ mainPc' = "read"
  /\ UNCHANGED <<voltage, irradianceV, turn, sample, measured, reportVars>>

\* One AtoD_read; after the last one the scaling begins.
Read(c, v) ==
  /\ mainPc = "read"
  /\ c \in todo
  /\ irradianceV' = [irradianceV EXCEPT ![Input[c]] = v]
  /\ sample' = [sample EXCEPT ![Input[c]] = v]
  /\ todo' = IF todo = {c} THEN Corners ELSE todo \ {c}
  /\ mainPc' = IF todo = {c} THEN "scale" ELSE "read"
  /\ UNCHANGED <<voltage, lock, turn, measured, reportVars>>

AtoD_read(c) == Read(c, voltage[Input[c]])

FailedRead(c) == \E v \in Leftovers : Read(c, v)

ScaleInput(c) ==
  /\ mainPc = "scale"
  /\ c \in todo
  /\ irradianceV' = [irradianceV EXCEPT ![Input[c]] = Scale(Input[c], @)]
  /\ todo' = todo \ {c}
  /\ UNCHANGED <<voltage, lock, mainVars, reportVars>>

MainUnlock ==
  /\ mainPc = "scale"
  /\ todo = {}
  /\ lock' = "free"
  /\ measured' = [i \in Elements |-> Scaled(i, sample[i], Cardinality(At(i, Corners)))]
  /\ mainPc' = "decide"
  /\ UNCHANGED <<voltage, irradianceV, todo, turn, sample, reportVars>>

\* Mutant: the decision is made on the values before the scaling.
DecideUnscaled ==
  /\ mainPc = "decide"
  /\ turn' \in {Turn(sample), NoTurn}
  /\ mainPc' = "sleep"
  /\ UNCHANGED <<voltage, irradianceV, lock, todo, sample, measured, reportVars>>

\* The axes are driven after the mutex is released; not at all when stowed.
Decide ==
  /\ mainPc = "decide"
  /\ turn' \in {Turn(irradianceV), NoTurn}
  /\ mainPc' = "sleep"
  /\ UNCHANGED <<voltage, irradianceV, lock, todo, sample, measured, reportVars>>

ReportLock ==
  /\ reportPc = "wait"
  /\ lock = "free"
  /\ lock' = "report"
  /\ uncopied' = Elements
  /\ reportPc' = "copy"
  /\ UNCHANGED <<voltage, irradianceV, todo, mainVars, message>>

CopyElement(i) ==
  /\ reportPc = "copy"
  /\ i \in uncopied
  /\ message' = [message EXCEPT ![i] = irradianceV[i]]
  /\ uncopied' = uncopied \ {i}
  /\ UNCHANGED <<voltage, irradianceV, lock, todo, mainVars, reportPc>>

\* Mutant: the report thread keeps the mutex.
ReportKeepsLock ==
  /\ reportPc = "copy"
  /\ uncopied = {}
  /\ reportPc' = "publish"
  /\ UNCHANGED <<voltage, irradianceV, lock, todo, mainVars, uncopied, message>>

ReportUnlock ==
  /\ reportPc = "copy"
  /\ uncopied = {}
  /\ lock' = "free"
  /\ reportPc' = "publish"
  /\ UNCHANGED <<voltage, irradianceV, todo, mainVars, uncopied, message>>

\* The message goes to MQTT_publish; the thread sleeps until the next report.
Publish ==
  /\ reportPc = "publish"
  /\ reportPc' = "wait"
  /\ UNCHANGED <<voltage, irradianceV, lock, todo, mainVars, uncopied, message>>

LightMoves ==
  /\ voltage' \in [Elements -> Voltages]
  /\ UNCHANGED <<irradianceV, lock, todo, mainVars, reportVars>>

MainRound ==
  \/ MainLock
  \/ \E c \in Corners : AtoD_read(c) \/ FailedRead(c) \/ ScaleInput(c)
  \/ MainUnlock
  \/ Decide

ReportRound ==
  \/ ReportLock
  \/ \E i \in Elements : CopyElement(i)
  \/ ReportUnlock
  \/ Publish

SensorNext == MainRound \/ ReportRound \/ LightMoves

\* Between two rounds a thread sleeps without the mutex for most of its period,
\* which lets the other one in: strong fairness.
SensorSpec ==
  /\ SensorInit
  /\ [][SensorNext]_sensorVars
  /\ SF_sensorVars(MainRound)
  /\ SF_sensorVars(ReportRound)

-----------------------------------------------------------------------------
SensorTypeOK ==
  /\ voltage \in [Elements -> Voltages]
  /\ irradianceV \in [Elements -> Int]
  /\ lock \in {"free", "main", "report"}
  /\ todo \subseteq Corners
  /\ mainPc \in {"sleep", "read", "scale", "decide"}
  /\ turn \in [azimuth : {-1, 0, 1}, altitude : {-1, 0, 1}]
  /\ reportPc \in {"wait", "copy", "publish"}
  /\ uncopied \subseteq Elements
  /\ message \in [Elements -> Int]
  /\ sample \in [Elements -> Int]
  /\ measured \in [Elements -> Int]

\* A message holds the scaled values of one round, all of them of the same one.
MessageIsOneRound ==
  reportPc = "copy" /\ uncopied = {} => message = measured

\* Whenever the mutex is free, each element has been scaled exactly once for
\* each corner that has its input.
FreeMeansScaled ==
  lock = "free" => irradianceV = measured

\* The panel is driven towards the brighter side of the values that a report
\* made before the next round shows, though it is driven without the mutex.
TurnIsReported ==
  mainPc = "sleep" => turn \in {NoTurn, Turn(measured)}

\* Neither thread is shut out: rounds and reports go on for ever.
RoundsGoOn == []<>(mainPc = "decide") /\ []<>(reportPc = "publish")
=============================================================================
