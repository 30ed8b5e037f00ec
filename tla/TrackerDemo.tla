----------------------------- MODULE TrackerDemo -----------------------------
(***************************************************************************)
(* The program trackerDemo: main with its start-up and its loop, the stow  *)
(* monitor, the report thread and the MQTT callback in one process, which  *)
(* exit(1) ends for all of them and systemd starts again.  main is the     *)
(* only caller of the servo driver, ServoPwm.  What the monitor thread     *)
(* makes of the pushbutton and of the commands is StowDecision, which      *)
(* StowControl implements.                                                 *)
(*                                                                         *)
(* What the light sensors ask for (see LightSensors) is any combination of *)
(* turns; of the report thread only its start matters here (see            *)
(* StowReport).                                                            *)
(***************************************************************************)
EXTENDS ServoPwm

CONSTANTS
  Azimuth, Altitude,    \* EHRPWM1A and EHRPWM1B
  StartPosition,        \* SERVO_AZIMUTH_START_POSITION_PWM_mSecs and ALTITUDE's
  StowPosition,         \* SERVO_ALTITUDE_STOW_POSITION_PWM_mSecs
  ReversePolarity,      \* SERVO_PWM_AZIMUTH_REVERSE_POLARITY and ALTITUDE's
  ThreadsMayFail,       \* whether pthread_create can fail
  Sources, Button       \* the applications, and the pushbutton

ASSUME TrackerAssumption ==
  /\ Pins = {Azimuth, Altitude} /\ Azimuth # Altitude
  /\ StartPosition \in [Pins -> Positions]
  /\ StowPosition \in Positions
  /\ ReversePolarity \in [Pins -> BOOLEAN]
  /\ ThreadsMayFail \in BOOLEAN
  /\ Button \notin Sources

VARIABLES
  at,        \* where main is
  turn,      \* what the sensors ask of each axis: -1, 0 or 1
  threads,   \* which of the two threads main could create
  connected, \* the report thread has subscribed: callbacks can come
  parked,    \* history: the last round stowed the panel
  on, beenOn, beenOff, stowed, round  \* see StowDecision; stowed: panelIsStowed

loopVars     == <<at, turn, threads, connected, parked>>
decisionVars == <<on, beenOn, beenOff, stowed, round>>
vars         == <<servoVars, loopVars, decisionVars>>

Stow == INSTANCE StowDecision WITH AllSources <- Sources \cup {Button}

Init ==
  /\ ServoInit
  /\ Stow!Init
  /\ at = "init azimuth"
  /\ turn = [p \in Pins |-> 0]
  /\ threads = {}
  /\ connected = FALSE
  /\ parked = FALSE

-----------------------------------------------------------------------------
\* main before its loop: one call after the other.
InitServo(p, from, to) ==
  /\ at = from
  /\ PWM_init(p)
  /\ at' = to

StartServo(p, from, to) ==
  /\ at = from
  /\ PWM_setPosition(p, StartPosition[p])
  /\ at' = to

StartUp ==
  /\ \/ InitServo(Azimuth, "init azimuth", "init altitude")
     \/ InitServo(Altitude, "init altitude", "start azimuth")
     \/ StartServo(Azimuth, "start azimuth", "start altitude")
     \/ StartServo(Altitude, "start altitude", "threads")
  /\ UNCHANGED <<turn, threads, connected, parked>>

\* A thread that cannot be created is only reported on the console.
CreateThreads ==
  /\ at = "threads" /\ pc = "idle"
  /\ threads' \in IF ThreadsMayFail THEN SUBSET {"report", "monitor"}
                                    ELSE {{"report", "monitor"}}
  /\ at' = "round"
  /\ UNCHANGED <<servoVars, turn, connected, parked>>

\* Mutant: a stow is not released.
BeginRoundLatched ==
  /\ at = "round"
  /\ IF stowed \/ parked
     THEN at' = "stow" /\ UNCHANGED <<turn, parked>>
     ELSE at' = "azimuth" /\ turn' \in [Pins -> {-1, 0, 1}] /\ parked' = FALSE
  /\ UNCHANGED <<servoVars, threads, connected>>

\* The sensors are read, then panelIsStowed, once for the round.
BeginRound ==
  /\ at = "round"
  /\ IF stowed
     THEN at' = "stow" /\ UNCHANGED <<turn, parked>>
     ELSE at' = "azimuth" /\ turn' \in [Pins -> {-1, 0, 1}] /\ parked' = FALSE
  /\ UNCHANGED <<servoVars, threads, connected>>

\* Mutant: the panel is driven to the start position.
StowAtStart ==
  /\ at = "stow"
  /\ PWM_setPosition(Altitude, StartPosition[Altitude])
  /\ at' = "disable"
  /\ UNCHANGED <<turn, threads, connected, parked>>

StowPanel ==
  /\ at = "stow"
  /\ PWM_setPosition(Altitude, StowPosition)
  /\ at' = "disable"
  /\ UNCHANGED <<turn, threads, connected, parked>>

\* Mutant: the other servo is switched off.
DisableAzimuth ==
  /\ at = "disable"
  /\ PWM_disable(Azimuth)
  /\ at' = "stowed"
  /\ UNCHANGED <<turn, threads, connected, parked>>

DisableAltitude ==
  /\ at = "disable"
  /\ PWM_disable(Altitude)
  /\ at' = "stowed"
  /\ UNCHANGED <<turn, threads, connected, parked>>

\* One axis follows the light; no call when the difference is too small.
Track(p, from, to) ==
  /\ at = from
  /\ IF turn[p] = 0
     THEN pc = "idle" /\ UNCHANGED servoVars
     ELSE PWM_step(p, (turn[p] = 1) # ReversePolarity[p])
  /\ turn' = [turn EXCEPT ![p] = 0]
  /\ at' = to
  /\ UNCHANGED <<threads, connected, parked>>

\* The round is over when its last call has returned; then main sleeps.
EndRound ==
  /\ at \in {"stowed", "tracked"} /\ pc = "idle"
  /\ parked' = (parked \/ at = "stowed")
  /\ at' = "round"
  /\ UNCHANGED <<servoVars, turn, threads, connected>>

\* The calls main makes.
MainCalls ==
  \/ StartUp \/ CreateThreads \/ BeginRound \/ StowPanel \/ DisableAltitude
  \/ Track(Azimuth, "azimuth", "altitude")
  \/ Track(Altitude, "altitude", "tracked")
  \/ EndRound

\* The shell command of the call in progress, unless it makes main exit(1).
MainWaits ==
  /\ ShellCommand
  /\ initialised' = initialised
  /\ UNCHANGED loopVars

Main ==
  /\ MainCalls \/ MainWaits
  /\ UNCHANGED decisionVars

-----------------------------------------------------------------------------
\* The report thread: MQTT_init and both MQTT_subscribe calls.  When one of them
\* fails it calls exit(1): see TrackerRestarts.
Connect ==
  /\ "report" \in threads /\ ~connected
  /\ connected' = TRUE
  /\ UNCHANGED <<servoVars, at, turn, threads, parked, decisionVars>>

\* The monitor thread decides, or takes over the pushbutton's new state.
MonitorDecides ==
  /\ "monitor" \in threads
  /\ Stow!Decide
  /\ UNCHANGED <<servoVars, loopVars>>

ButtonChanges ==
  /\ "monitor" \in threads
  /\ Stow!Change(Button)
  /\ UNCHANGED <<servoVars, loopVars>>

\* MQTT_callback_message, in the thread that mosquitto_loop_start created.
CommandChanges ==
  /\ connected
  /\ \E s \in Sources : Stow!Change(s)
  /\ UNCHANGED <<servoVars, loopVars>>

\* The process ends at any moment (exit(1) in the report thread, a signal, a
\* reboot), or because an export failed; systemd starts it again.
TrackerRestarts ==
  /\ Restart \/ (Export /\ ProcessDies)
  /\ at' = "init azimuth"
  /\ turn' = [p \in Pins |-> 0]
  /\ threads' = {}
  /\ connected' = FALSE
  /\ parked' = FALSE
  /\ on' = {} /\ beenOn' = {} /\ beenOff' = Sources \cup {Button}
  /\ stowed' = FALSE
  /\ round' = 0

Next ==
  \/ Main
  \/ Connect
  \/ MonitorDecides \/ ButtonChanges
  \/ CommandChanges
  \/ TrackerRestarts

\* main and the monitor thread are scheduled; nobody has to send or to press,
\* and the broker need not be there.
Spec == Init /\ [][Next]_vars /\ WF_vars(Main) /\ WF_vars(MonitorDecides)

-----------------------------------------------------------------------------
StowTarget == Limit(PWMConfig[Altitude], StowPosition)

\* Once a round has stowed the panel, and until a round finds it released, the
\* altitude servo rests at the stow position and gets no pulse: the rounds in
\* between call PWM_setPosition again, and it must not switch the servo on.
ParkedStaysPut ==
  parked /\ at \in {"round", "stow", "disable", "stowed"} =>
    /\ current[Altitude] = StowTarget
    /\ ~enabled[Altitude]

\* No thread runs, and no round begins, before both servos have their start
\* positions and the driver is at rest: every thread finds main's set-up done.
ThreadsAfterStart ==
  /\ threads # {} \/ stowed => positioned = Pins
  /\ at = "round" => positioned = Pins /\ pc = "idle"

\* A source that asks for a stow and goes on asking ends with the panel parked
\* for good, whatever main was doing, although the process may have restarted
\* before, and although the report thread may not exist; only the monitor must.
StowIsCompleted ==
  \A s \in Sources \cup {Button} :
    <>[]("monitor" \in threads /\ s \in on) =>
      <>[](parked /\ ~enabled[Altitude] /\ current[Altitude] = StowTarget)

\* Once nothing asks for a stow, the panel is given back to the light for good.
TrackingResumes ==
  <>[]("monitor" \in threads /\ on = {}) => <>[]~parked
=============================================================================
