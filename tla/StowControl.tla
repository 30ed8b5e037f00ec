----------------------------- MODULE StowControl -----------------------------
(***************************************************************************)
(* How the panel comes to be stowed: the monitor thread of trackerDemo.c   *)
(* debounces the pushbutton and combines it with the commands of the web   *)
(* application and of the rules engine, which MQTT_callback_message stores *)
(* from the MQTT thread.  Nothing is locked: each read and each write of a *)
(* shared variable is a step.                                              *)
(*                                                                         *)
(* The two commands are read in either order: in the source the web        *)
(* application's comes first, but the plain reads may be exchanged by the  *)
(* compiler, and skipping the second one when the first is 1 makes no      *)
(* difference.                                                             *)
(***************************************************************************)
EXTENDS Integers, Sequences

CONSTANTS
  Sources,              \* the applications that send commands
  Button,               \* the pushbutton, as a source of its own
  Messages,             \* the key-value pairs of the messages, in order
  STOW_INPUT_DEBOUNCE,
  ReadMayFail           \* whether DiscreteIO_read can fail

ASSUME StowAssumption ==
  /\ Button \notin Sources
  /\ Messages \subseteq Seq([key : Sources, value : Int])
  /\ STOW_INPUT_DEBOUNCE \in Nat
  /\ ReadMayFail \in BOOLEAN

VARIABLES
  stowPin,              \* the input GPIO_STOW_PIN: TRUE is GPIO_HIGH
  mpc,                  \* the monitor thread: "start", "sample" or "read"
  previousStowInput,
  stowDebounceCount,
  debouceInProgress,
  stowButtonIsPressed,
  unread,               \* the commands it still has to read in this round
  verdict,              \* the value of the disjunction so far
  panelIsStowed,
  stowCmd,              \* StowCmd_WebApp and StowCmd_RulesEngine
  pending,              \* the pairs MQTT_callback_message has still to store
  run,                  \* history: equal samples in a row, up to the debounce
  changed,              \* history: two samples have differed
  beenOn, beenOff,      \* history: see StowDecision
  round                 \* history: alternates with every write of panelIsStowed

debounceVars == <<previousStowInput, stowDebounceCount, debouceInProgress,
                  stowButtonIsPressed, run, changed>>
roundVars    == <<mpc, unread, verdict, panelIsStowed>>
messageVars  == <<stowCmd, pending>>
historyVars  == <<beenOn, beenOff, round>>
stowVars     == <<stowPin, debounceVars, roundVars, messageVars, historyVars>>

AllSources == Sources \cup {Button}

\* Only the value 1 is a command to stow.
Commands(cmd, button) ==
  {s \in Sources : cmd[s] = 1} \cup (IF button THEN {Button} ELSE {})

On == Commands(stowCmd, stowButtonIsPressed)

StowInit ==
  /\ stowPin \in BOOLEAN
  /\ mpc = "start"
  /\ previousStowInput = FALSE
  /\ stowDebounceCount = 0
  /\ debouceInProgress = FALSE
  /\ stowButtonIsPressed = FALSE
  /\ unread = {}
  /\ verdict = FALSE
  /\ panelIsStowed = FALSE
  /\ stowCmd = [s \in Sources |-> 0]
  /\ pending = <<>>
  /\ run = 0
  /\ changed = FALSE
  /\ beenOn = {}
  /\ beenOff = AllSources
  /\ round = 0

-----------------------------------------------------------------------------
\* The sources as they are after the step have been on, or off, since then.
Remember ==
  /\ beenOn' = beenOn \cup On'
  /\ beenOff' = beenOff \cup (AllSources \ On')
  /\ UNCHANGED round

\* A failed DiscreteIO_read answers GPIO_LOW.
Read(input) == input = stowPin \/ (ReadMayFail /\ input = FALSE)

\* The read before the loop: whatever it finds counts as released.
FirstRead ==
  /\ mpc = "start"
  /\ Read(previousStowInput')
  /\ mpc' = "sample"
  /\ run' = 1
  /\ UNCHANGED <<stowDebounceCount, debouceInProgress, stowButtonIsPressed,
                 changed, stowPin, unread, verdict, panelIsStowed, messageVars,
                 historyVars>>

\* Mutants: a change does not restart the count; a release, or a press, is not taken over.
CountGoesOn(differs) == stowDebounceCount
OnlyPresses(input) == stowButtonIsPressed \/ input
OnlyReleases(input) == stowButtonIsPressed /\ input

StartCount(differs) == IF differs THEN 0 ELSE stowDebounceCount
AtLimit(count) == count >= STOW_INPUT_DEBOUNCE
Accepted(input) == input

\* The debounce: a new input restarts the count, and the input is taken over
\* when it comes once more after the count has reached its limit.
Debounce(input) ==
  LET differs  == input # previousStowInput
      counting == differs \/ debouceInProgress
      count    == StartCount(differs)
      done     == counting /\ AtLimit(count)
  IN  /\ stowDebounceCount' = IF counting /\ ~done THEN count + 1 ELSE count
      /\ debouceInProgress' = (counting /\ ~done)
      /\ stowButtonIsPressed' = IF done THEN Accepted(input) ELSE stowButtonIsPressed
      /\ previousStowInput' = input
      /\ run' = IF differs THEN 1
                ELSE IF run <= STOW_INPUT_DEBOUNCE THEN run + 1 ELSE run
      /\ changed' = (changed \/ differs)

\* Mutant: the verdict of the round before is not cleared.
SampleKeepsVerdict ==
  /\ mpc = "sample"
  /\ \E input \in BOOLEAN : Read(input) /\ Debounce(input)
  /\ verdict' = (verdict \/ stowButtonIsPressed')
  /\ unread' = Sources
  /\ mpc' = "read"
  /\ UNCHANGED <<stowPin, panelIsStowed, messageVars>>
  /\ Remember

\* One pass of the loop up to the first operand of the disjunction.
Sample ==
  /\ mpc = "sample"
  /\ \E input \in BOOLEAN : Read(input) /\ Debounce(input)
  /\ verdict' = stowButtonIsPressed'
  /\ unread' = Sources
  /\ mpc' = "read"
  /\ UNCHANGED <<stowPin, panelIsStowed, messageVars>>
  /\ Remember

\* Mutant: the last command read decides alone.
LastCommandDecides(s) ==
  /\ mpc = "read"
  /\ s \in unread
  /\ verdict' = (stowCmd[s] = 1)
  /\ unread' = unread \ {s}
  /\ UNCHANGED <<stowPin, debounceVars, mpc, panelIsStowed, messageVars, historyVars>>

ReadCommand(s) ==
  /\ mpc = "read"
  /\ s \in unread
  /\ verdict' = (verdict \/ stowCmd[s] = 1)
  /\ unread' = unread \ {s}
  /\ UNCHANGED <<stowPin, debounceVars, mpc, panelIsStowed, messageVars, historyVars>>

\* Mutant: the status is latched.
WriteLatched ==
  /\ mpc = "read"
  /\ unread = {}
  /\ panelIsStowed' = (panelIsStowed \/ verdict)
  /\ mpc' = "sample"
  /\ beenOn' = On
  /\ beenOff' = AllSources \ On
  /\ round' = 1 - round
  /\ UNCHANGED <<stowPin, debounceVars, unread, verdict, messageVars>>

\* The assignment of the result; then the thread sleeps.
WriteStatus ==
  /\ mpc = "read"
  /\ unread = {}
  /\ panelIsStowed' = verdict
  /\ mpc' = "sample"
  /\ beenOn' = On
  /\ beenOff' = AllSources \ On
  /\ round' = 1 - round
  /\ UNCHANGED <<stowPin, debounceVars, unread, verdict, messageVars>>

Monitor == FirstRead \/ Sample \/ (\E s \in Sources : ReadCommand(s)) \/ WriteStatus

\* MQTT_callback_message starts on a message, and stores its next pair.
Receive ==
  /\ pending = <<>>
  /\ pending' \in Messages
  /\ UNCHANGED <<stowPin, debounceVars, roundVars, stowCmd, historyVars>>

StorePair ==
  /\ pending # <<>>
  /\ stowCmd' = [stowCmd EXCEPT ![Head(pending).key] = Head(pending).value]
  /\ pending' = Tail(pending)
  /\ UNCHANGED <<stowPin, debounceVars, roundVars>>
  /\ Remember

\* The pushbutton is pressed, released, or bounces.
MovePin ==
  /\ stowPin' = ~stowPin
  /\ UNCHANGED <<debounceVars, roundVars, messageVars, historyVars>>

StowNext == Monitor \/ Receive \/ StorePair \/ MovePin

\* The monitor thread is scheduled; nobody has to send or to press.
StowSpec == StowInit /\ [][StowNext]_stowVars /\ WF_stowVars(Monitor)

-----------------------------------------------------------------------------
StowTypeOK ==
  /\ stowPin \in BOOLEAN
  /\ mpc \in {"start", "sample", "read"}
  /\ previousStowInput \in BOOLEAN
  /\ stowDebounceCount \in 0 .. STOW_INPUT_DEBOUNCE
  /\ debouceInProgress \in BOOLEAN
  /\ stowButtonIsPressed \in BOOLEAN
  /\ unread \subseteq Sources
  /\ verdict \in BOOLEAN
  /\ panelIsStowed \in BOOLEAN
  /\ stowCmd \in [Sources -> Int]
  /\ pending \in Seq([key : Sources, value : Int])
  /\ run \in 0 .. STOW_INPUT_DEBOUNCE + 1
  /\ changed \in BOOLEAN
  /\ beenOn \subseteq AllSources
  /\ beenOff \subseteq AllSources
  /\ round \in {0, 1}

\* Bouncing never gets through: the button changes only after the same input
\* was sampled once more often than STOW_INPUT_DEBOUNCE, without a break.
NoBounce ==
  [][stowButtonIsPressed' # stowButtonIsPressed => run' > STOW_INPUT_DEBOUNCE]_stowVars

\* Once the input has moved, a debounce that is over has left the button as
\* the input is: neither a press nor a release is lost between two bounces.
ButtonFollowsInput ==
  changed /\ ~debouceInProgress => stowButtonIsPressed = previousStowInput

\* A debounce that goes on has not seen enough equal samples: it never hangs.
DebounceEnds == debouceInProgress => run <= STOW_INPUT_DEBOUNCE

\* The unlocked reads of one round give a decision that StowDecision allows.
Decision == INSTANCE StowDecision WITH on <- On, stowed <- panelIsStowed
DecisionIsJustified == Decision!Spec

\* A command to stow that is not withdrawn is obeyed, for good.
CommandIsObeyed ==
  \A s \in Sources : <>[](stowCmd[s] = 1) => <>[]panelIsStowed

\* So is a button that is held down and can be read, unless it was down when
\* the program began (the disjunction follows the button's level; see
\* PressToggles for what a comment says instead).
ButtonIsObeyed ==
  <>[](previousStowInput /\ changed) => <>[]panelIsStowed

\* Without button and commands the panel is released, for good, even when the
\* input cannot be read: no stow outlives its cause (as the disjunction follows
\* the button's level, letting it go is enough; see PressToggles).
StowIsReleased ==
  <>[](~stowPin /\ \A s \in Sources : stowCmd[s] # 1) => <>[]~panelIsStowed

\* "If the pushbutton is pressed, we toggle the stow state" (trackerDemo.c 77):
\* a status that changes while no application has asked for anything changes by
\* a press, and letting the button go changes nothing.  It does not hold: the
\* status follows the button's level.
PressToggles ==
  [][panelIsStowed' # panelIsStowed /\ beenOn \cap Sources = {} => stowButtonIsPressed]_stowVars
=============================================================================
