------------------------------ MODULE ServoPwm ------------------------------
(***************************************************************************)
(* The PWM driver of hw/BBGW/GPIO/GPIO.c: the table PWMConfig, the calls   *)
(* PWM_init, PWM_setPosition, PWM_step and PWM_disable, and the sysfs      *)
(* registers they write through system_desktopSafe.                        *)
(*                                                                         *)
(* Every shell command is a step of its own, so the process can be killed  *)
(* between the assignment of currentDutyCycle_mSecs and the write of the   *)
(* register.  The registers belong to the kernel and outlive the process;  *)
(* the configuration file can be edited before the process starts again.   *)
(* Durations are whole numbers: the float arithmetic is not modelled.      *)
(***************************************************************************)
EXTENDS Integers

CONSTANTS
  Pins,          \* the PWM outputs, EHRPWM1A and EHRPWM1B
  PwmSettings,   \* what the configuration may hand to PWM_init for a pin
  Positions,     \* the duty cycles PWM_setPosition is called with
  SysfsMayFail   \* whether a shell command can fail

ASSUME ServoAssumption ==
  /\ PwmSettings \subseteq [period : Nat, min : Nat, max : Nat, step : Nat]
  /\ Positions \subseteq Int
  /\ SysfsMayFail \in BOOLEAN

VARIABLES
  setting,       \* the configuration file's values for each pin
  PWMConfig,     \* the limits that PWM_init accepted
  current,       \* PWMConfig[pin].currentDutyCycle_mSecs
  period,        \* register pwmN/period
  duty,          \* register pwmN/duty_cycle
  enabled,       \* register pwmN/enable
  pc,            \* which shell command the driver runs next
  pin,           \* the pin of the call in progress
  drove,         \* what the last PWM_setPosition or PWM_step returned
  initialised,   \* the pins PWM_init has been called for
  positioned     \* the pins whose start position has been set

configVars   == <<setting, PWMConfig>>
registerVars == <<period, duty, enabled>>
callVars     == <<pc, pin, drove>>
bootVars     == <<initialised, positioned>>
servoVars    == <<configVars, current, registerVars, callVars, bootVars>>

\* A zeroed element of the static array.
NoSetting == [period |-> 0, min |-> 0, max |-> 0, step |-> 0]

ServoInit ==
  /\ setting \in [Pins -> PwmSettings]
  /\ PWMConfig = [p \in Pins |-> NoSetting]
  /\ current = [p \in Pins |-> 0]
  /\ period = [p \in Pins |-> 0]
  /\ duty = [p \in Pins |-> 0]
  /\ enabled = [p \in Pins |-> FALSE]
  /\ pc = "idle"
  /\ pin \in Pins
  /\ drove = FALSE
  /\ initialised = {}
  /\ positioned = {}

-----------------------------------------------------------------------------
\* The three error checks of PWM_init.
Accepts(s) == s.max <= s.period /\ s.min <= s.max /\ s.step <= s.max - s.min

\* Mutant: one side of the range limit is missing.
LimitNoMaximum(c, d) == IF d < c.min THEN c.min ELSE d

\* The range limit of PWM_setPosition: first the maximum, then the minimum.
Limit(c, d) ==
  LET top == IF d > c.max THEN c.max ELSE d
  IN  IF top < c.min THEN c.min ELSE top

\* A register keeps its value when the kernel refuses the new one, or when the
\* shell command fails for another reason: the caller never looks.
WriteRegister(register, value, legal) ==
  \/ legal /\ register' = [register EXCEPT ![pin] = value]
  \/ (~legal \/ SysfsMayFail) /\ UNCHANGED register

\* Mutant: the settings are stored before they are checked.
InitStoresFirst(p) ==
  /\ pc = "idle"
  /\ p \notin initialised
  /\ PWMConfig' = [PWMConfig EXCEPT ![p] = setting[p]]
  /\ initialised' = initialised \cup {p}
  /\ pin' = p
  /\ pc' = "export"
  /\ UNCHANGED <<setting, current, registerVars, drove, positioned>>

\* A rejected setting leaves PWMConfig[p] as it was; the call goes on.
PWM_init(p) ==
  /\ pc = "idle"
  /\ p \notin initialised
  /\ PWMConfig' = IF Accepts(setting[p])
                  THEN [PWMConfig EXCEPT ![p] = setting[p]]
                  ELSE PWMConfig
  /\ initialised' = initialised \cup {p}
  /\ pin' = p
  /\ pc' = "export"
  /\ UNCHANGED <<setting, current, registerVars, drove, positioned>>

\* The common body of PWM_setPosition and PWM_step.
Drive(p, d) ==
  LET target == Limit(PWMConfig[p], d) IN
  /\ pin' = p
  /\ current' = [current EXCEPT ![p] = target]
  /\ drove' = (target # current[p])
  /\ pc' = IF target # current[p] THEN "duty_cycle" ELSE "disable"
  /\ UNCHANGED <<configVars, registerVars, bootVars>>

PWM_setPosition(p, d) ==
  /\ pc = "idle"
  /\ initialised = Pins
  /\ Drive(p, d)

\* Mutant: the loop steps a servo whose start position is not set yet.
StepBeforeStart(p, increaseDutyCycle) ==
  /\ pc = "idle"
  /\ initialised = Pins
  /\ Drive(p, IF increaseDutyCycle THEN current[p] + PWMConfig[p].step
                                   ELSE current[p] - PWMConfig[p].step)

\* main sets the start positions before its loop takes the first step.
PWM_step(p, increaseDutyCycle) ==
  /\ pc = "idle"
  /\ positioned = Pins
  /\ Drive(p, IF increaseDutyCycle THEN current[p] + PWMConfig[p].step
                                   ELSE current[p] - PWMConfig[p].step)

\* The call main makes after stowing, outside PWM_setPosition.
PWM_disable(p) ==
  /\ pc = "idle"
  /\ positioned = Pins
  /\ pin' = p
  /\ pc' = "disable"
  /\ UNCHANGED <<configVars, current, registerVars, drove, bootVars>>

-----------------------------------------------------------------------------
\* All that exit(), a signal or a reboot clears: the static data of the process.
ProcessDies ==
  /\ PWMConfig' = [p \in Pins |-> NoSetting]
  /\ current' = [p \in Pins |-> 0]
  /\ drove' = FALSE
  /\ initialised' = {}
  /\ positioned' = {}
  /\ pc' = "idle"
  /\ UNCHANGED pin

\* echo > export: 0 exported, 1 already exported, anything else is exit(1).
Export ==
  /\ pc = "export"
  /\ \/ pc' = "period" /\ UNCHANGED <<PWMConfig, current, pin, drove, bootVars>>
     \/ SysfsMayFail /\ ProcessDies
  /\ UNCHANGED <<setting, registerVars>>

\* The kernel wants 0 < period and a duty cycle that fits in it.
WritePeriod ==
  /\ pc = "period"
  /\ WriteRegister(period, PWMConfig[pin].period,
                   0 < PWMConfig[pin].period /\ duty[pin] <= PWMConfig[pin].period)
  /\ pc' = "idle"
  /\ UNCHANGED <<configVars, current, duty, enabled, pin, drove, bootVars>>

WriteDuty ==
  /\ pc = "duty_cycle"
  /\ WriteRegister(duty, current[pin], current[pin] <= period[pin])
  /\ pc' = "enable"
  /\ UNCHANGED <<configVars, current, period, enabled, pin, drove, bootVars>>

\* PWM_enable, the last call of a PWM_setPosition that moves the servo.
WriteEnable ==
  /\ pc = "enable"
  /\ WriteRegister(enabled, TRUE, 0 < period[pin])
  /\ pc' = "idle"
  /\ positioned' = positioned \cup {pin}
  /\ UNCHANGED <<configVars, current, period, duty, pin, drove, initialised>>

\* PWM_disable, alone or at the end of a PWM_setPosition that does not move it.
WriteDisable ==
  /\ pc = "disable"
  /\ WriteRegister(enabled, FALSE, TRUE)
  /\ pc' = "idle"
  /\ positioned' = positioned \cup {pin}
  /\ UNCHANGED <<configVars, current, period, duty, pin, drove, initialised>>

\* systemd starts the program again, possibly with another configuration; the
\* registers keep their values unless the board was rebooted.
Restart ==
  /\ ProcessDies
  /\ setting' \in [Pins -> PwmSettings]
  /\ \/ UNCHANGED registerVars
     \/ /\ period' = [p \in Pins |-> 0]
        /\ duty' = [p \in Pins |-> 0]
        /\ enabled' = [p \in Pins |-> FALSE]

Call(p) ==
  \/ PWM_init(p)
  \/ \E d \in Positions : PWM_setPosition(p, d)
  \/ \E up \in BOOLEAN : PWM_step(p, up)
  \/ PWM_disable(p)

ShellCommand == Export \/ WritePeriod \/ WriteDuty \/ WriteEnable \/ WriteDisable

ServoNext == (\E p \in Pins : Call(p)) \/ ShellCommand \/ Restart

ServoSpec == ServoInit /\ [][ServoNext]_servoVars

-----------------------------------------------------------------------------
\* What the driver and the kernel hold at any time.
TypeOK ==
  /\ setting \in [Pins -> PwmSettings]
  /\ PWMConfig \in [Pins -> PwmSettings \cup {NoSetting}]
  /\ current \in [Pins -> Nat]
  /\ period \in [Pins -> Nat]
  /\ duty \in [Pins -> Nat]
  /\ enabled \in [Pins -> BOOLEAN]
  /\ pc \in {"idle", "export", "period", "duty_cycle", "enable", "disable"}
  /\ pin \in Pins
  /\ drove \in BOOLEAN
  /\ initialised \subseteq Pins
  /\ positioned \subseteq Pins

\* From the moment a pin's start position is set, every pulse the servo gets
\* is inside the limits of the configuration file, at each instant between two
\* shell commands and whatever duty cycle an earlier process left behind; and
\* a pin whose limits were rejected gets no pulse at all.
PulseInRange ==
  \A p \in positioned : enabled[p] =>
    /\ Accepts(setting[p])
    /\ setting[p].min <= duty[p]
    /\ duty[p] <= setting[p].max

\* Between two calls, a pulse has the width that PWM_getDutyCycle_mSecs
\* reports (the report thread publishes it as the servo's angle).
PulseIsReported ==
  pc = "idle" => \A p \in positioned : enabled[p] => duty[p] = current[p]

\* The kernel refuses none of the duty cycles and enables that the driver
\* writes, even when it refused the period because of an older duty cycle.
KernelTakesPulse ==
  /\ pc = "duty_cycle" => current[pin] <= period[pin]
  /\ pc = "enable" => 0 < period[pin] /\ duty[pin] = current[pin]

\* A step never throws the servo further than the configured step, not even
\* the first one after the start position or one that the range limit cuts.
StepIsBounded ==
  [][\A p \in Pins, up \in BOOLEAN : PWM_step(p, up) =>
       /\ current'[p] - current[p] <= setting[p].step
       /\ current[p] - current'[p] <= setting[p].step]_servoVars

\* Whatever shell commands fail: main's and the report thread's idea of the
\* position is inside the limits in force, which are the configured ones or none.
ReportedInRange ==
  \A p \in positioned :
    /\ PWMConfig[p] = IF Accepts(setting[p]) THEN setting[p] ELSE NoSetting
    /\ PWMConfig[p].min <= current[p]
    /\ current[p] <= PWMConfig[p].max

\* Whatever shell commands fail: a pin is switched on only with limits that
\* PWM_init accepted, for a position inside them.
EnablesWithLimits ==
  [][\A p \in Pins : ~enabled[p] /\ enabled'[p] =>
       /\ Accepts(setting[p])
       /\ setting[p].min <= current[p]
       /\ current[p] <= setting[p].max]_servoVars
=============================================================================
