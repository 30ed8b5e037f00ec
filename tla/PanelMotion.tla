---------------------------- MODULE PanelMotion ----------------------------
(***************************************************************************)
(* TrackerDemo with the altitude servo itself, which is not part of the    *)
(* code: its shaft turns towards the duty cycle only while pulses come,    *)
(* and not in no time.  Wherever main sleeps (a second after the start     *)
(* positions, to "Let servo move to middle positions", and at the end of a *)
(* round) it gets where it is driven.                                      *)
(***************************************************************************)
EXTENDS TrackerDemo

VARIABLE shaft   \* where the altitude servo's shaft is

MotionInit == Init /\ shaft = StartPosition[Altitude]

ShaftTurns ==
  /\ enabled[Altitude] /\ shaft # duty[Altitude]
  /\ shaft' = IF shaft < duty[Altitude] THEN shaft + 1 ELSE shaft - 1
  /\ UNCHANGED vars

Arrived == enabled[Altitude] => shaft = duty[Altitude]

\* A step of the program; main's sleeps are long enough for the shaft.
Program(A) ==
  /\ A
  /\ at \in {"threads", "round"} /\ at' \in {"round", "stow", "azimuth"} /\ at' # at
       => Arrived
  /\ UNCHANGED shaft

MotionNext == Program(Next) \/ ShaftTurns

\* Pulses that go on turn the shaft.
MotionSpec ==
  /\ MotionInit
  /\ [][MotionNext]_<<vars, shaft>>
  /\ WF_<<vars, shaft>>(Program(Main))
  /\ WF_<<vars, shaft>>(Program(MonitorDecides))
  /\ WF_<<vars, shaft>>(ShaftTurns)

-----------------------------------------------------------------------------
\* What main prints in every round that stows, "Panel altitude stowed at %f
\* ms.": a panel that is stowed for good is at some time where it should be.
PanelArrives ==
  <>[]parked => <>(parked /\ shaft = StowTarget)
=============================================================================
