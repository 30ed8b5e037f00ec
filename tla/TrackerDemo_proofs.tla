------------------------- MODULE TrackerDemo_proofs -------------------------
(***************************************************************************)
(* Proofs about the PWM driver, for every set of pins and of settings, and *)
(* about the whole program, for every set of configurations, every start   *)
(* and stow position, every set of applications, and restarts at any       *)
(* moment.  The driver's theorems are about ServoSpec, so about any        *)
(* program that calls it as that says; the program's are about Spec.       *)
(*                                                                         *)
(* Of the driver, TypeOK and the parts below that mention no register hold *)
(* whatever shell commands fail; RegistersInv needs that they succeed.     *)
(***************************************************************************)
EXTENDS TrackerDemo, TLAPS

\* The call in progress has assigned currentDutyCycle_mSecs.
Driving == pc \in {"duty_cycle", "enable", "disable"}

\* PWMConfig holds what PWM_init accepted in this process, and only that.
LimitsInForce ==
  \A p \in Pins :
    PWMConfig[p] = IF p \in initialised /\ Accepts(setting[p])
                   THEN setting[p] ELSE NoSetting

Located(p) == PWMConfig[p].min <= current[p] /\ current[p] <= PWMConfig[p].max

\* A position is 0 until the first call for the pin, then inside the limits.
PositionInv ==
  /\ positioned \subseteq initialised
  /\ \A p \in positioned : Located(p)
  /\ \A p \in Pins \ positioned : current[p] = 0 \/ (Driving /\ pin = p)
  /\ pc # "idle" => pin \in initialised
  /\ Driving => Located(pin)
  /\ pc \in {"duty_cycle", "enable"} => 0 < PWMConfig[pin].max

DriverInv == TypeOK /\ LimitsInForce /\ PositionInv

\* What the registers hold as long as no shell command fails.
PeriodCovers ==
  \A p \in initialised :
    PWMConfig[p].period <= period[p] \/ (pin = p /\ pc \in {"export", "period"})

RegistersInv ==
  /\ \A p \in Pins : duty[p] <= period[p]
  /\ PeriodCovers
  /\ pc = "enable" => duty[pin] = current[pin]
  /\ \A p \in positioned : enabled[p] =>
       /\ 0 < PWMConfig[p].max
       /\ PWMConfig[p].min <= duty[p]
       /\ duty[p] <= PWMConfig[p].max
       /\ duty[p] = current[p] \/ (pin = p /\ pc = "duty_cycle")

IInv == DriverInv /\ (~SysfsMayFail => RegistersInv)

-----------------------------------------------------------------------------
\* The range limit returns a position inside the limits, and cutting a move to
\* them makes it no longer (PWM_setPosition, the two assignments at its top).
LEMMA LimitInside ==
  ASSUME NEW c \in [period : Nat, min : Nat, max : Nat, step : Nat],
         c.min <= c.max, NEW d \in Int
  PROVE  /\ Limit(c, d) \in Nat
         /\ c.min <= Limit(c, d) /\ Limit(c, d) <= c.max
         /\ d \in c.min .. c.max => Limit(c, d) = d
  BY DEF Limit

\* Zeroed limits and accepted limits are ranges: never empty, and inside the
\* period (the error checks of PWM_init).
LEMMA LimitsAreRanges ==
  ASSUME TypeOK, LimitsInForce, NEW p \in Pins
  PROVE  /\ PWMConfig[p] \in [period : Nat, min : Nat, max : Nat, step : Nat]
         /\ PWMConfig[p].min <= PWMConfig[p].max
         /\ PWMConfig[p].max <= PWMConfig[p].period
         /\ PWMConfig[p].step <= PWMConfig[p].max - PWMConfig[p].min
<1>1. setting[p] \in [period : Nat, min : Nat, max : Nat, step : Nat]
  BY ServoAssumption DEF TypeOK
<1>2. CASE p \in initialised /\ Accepts(setting[p])
  BY <1>1, <1>2 DEF LimitsInForce, Accepts
<1>3. CASE ~(p \in initialised /\ Accepts(setting[p]))
  <2>1. PWMConfig[p] = NoSetting
    BY <1>3 DEF LimitsInForce
  <2> QED
    BY <2>1 DEF NoSetting
<1> QED
  BY <1>2, <1>3

\* What PWM_setPosition and PWM_step do to the driver's variables: the new
\* position is a number inside the limits (GPIO.c, PWM_setPosition).
LEMMA DriveInside ==
  ASSUME TypeOK, LimitsInForce, NEW p \in Pins, NEW d \in Int, Drive(p, d)
  PROVE  /\ Limit(PWMConfig[p], d) \in Nat
         /\ PWMConfig[p].min <= Limit(PWMConfig[p], d)
         /\ Limit(PWMConfig[p], d) <= PWMConfig[p].max
         /\ current'[p] = Limit(PWMConfig[p], d)
         /\ \A q \in Pins \ {p} : current'[q] = current[q]
         /\ current' \in [Pins -> Nat]
<1>1. /\ Limit(PWMConfig[p], d) \in Nat
      /\ PWMConfig[p].min <= Limit(PWMConfig[p], d)
      /\ Limit(PWMConfig[p], d) <= PWMConfig[p].max
  BY LimitsAreRanges, LimitInside
<1> QED
  BY <1>1 DEF Drive, TypeOK

\* The duty cycle a step asks for is an integer (PWM_step).
LEMMA StepTarget ==
  ASSUME TypeOK, LimitsInForce, NEW p \in Pins
  PROVE  /\ current[p] + PWMConfig[p].step \in Int
         /\ current[p] - PWMConfig[p].step \in Int
  BY LimitsAreRanges DEF TypeOK

-----------------------------------------------------------------------------
\* A move keeps the driver's invariant (PWM_setPosition and PWM_step).
LEMMA DriveKeepsDriverInv ==
  ASSUME DriverInv, NEW p \in Pins, NEW d \in Int,
         pc = "idle", initialised = Pins, Drive(p, d)
  PROVE  DriverInv'
<1> USE DEF DriverInv
<1> DEFINE target == Limit(PWMConfig[p], d)
<1>1. /\ target \in Nat
      /\ PWMConfig[p].min <= target /\ target <= PWMConfig[p].max
      /\ current'[p] = target
      /\ \A q \in Pins \ {p} : current'[q] = current[q]
      /\ current' \in [Pins -> Nat]
  BY DriveInside
<1>2. TypeOK'
  BY <1>1 DEF TypeOK, Drive, configVars, registerVars, bootVars
<1>3. LimitsInForce'
  BY DEF LimitsInForce, Drive, configVars, bootVars, Accepts
<1>4. PositionInv'
  <2>1. PWMConfig' = PWMConfig /\ initialised' = initialised /\ positioned' = positioned
    BY DEF Drive, configVars, bootVars
  <2>2. pin' = p /\ pc' = IF target # current[p] THEN "duty_cycle" ELSE "disable"
    BY DEF Drive
  <2>3. \A q \in positioned' : Located(q)'
    BY <1>1, <2>1 DEF PositionInv, Located, TypeOK
  <2>4. \A q \in Pins \ positioned' : current'[q] = 0 \/ (Driving' /\ pin' = q)
    BY <1>1, <2>1, <2>2 DEF PositionInv, Driving
  <2>5. Driving' /\ Located(pin)'
    BY <1>1, <2>1, <2>2 DEF Located, Driving
  <2>6. ASSUME pc' \in {"duty_cycle", "enable"}
        PROVE  0 < PWMConfig'[pin'].max
    <3>1. target # current[p]
      BY <2>2, <2>6
    <3>2. PWMConfig[p] \in [period : Nat, min : Nat, max : Nat, step : Nat]
      BY LimitsAreRanges
    <3>3. current[p] \in Nat /\ (current[p] = 0 \/ current[p] <= PWMConfig[p].max)
      BY DEF PositionInv, Located, Driving, TypeOK
    <3> QED
      BY <1>1, <2>1, <2>2, <3>1, <3>2, <3>3 DEF TypeOK
  <2> QED
    BY <2>1, <2>2, <2>3, <2>4, <2>5, <2>6 DEF PositionInv
<1> QED
  BY <1>2, <1>3, <1>4

\* Every call of main and every shell command keeps the driver's invariant.
LEMMA DriverInvStep ==
  ASSUME DriverInv, [ServoNext]_servoVars
  PROVE  DriverInv'
<1> USE DEF DriverInv, configVars, registerVars, bootVars
<1>1. ASSUME NEW p \in Pins, PWM_init(p)
      PROVE  DriverInv'
  <2>1. TypeOK'
    BY <1>1 DEF PWM_init, TypeOK
  <2>2. LimitsInForce'
    BY <1>1 DEF PWM_init, LimitsInForce, TypeOK, Accepts
  <2>3. PositionInv'
    BY <1>1 DEF PWM_init, PositionInv, Located, Driving, TypeOK
  <2> QED
    BY <2>1, <2>2, <2>3
<1>2. ASSUME NEW p \in Pins, NEW d \in Positions, PWM_setPosition(p, d)
      PROVE  DriverInv'
  BY <1>2, DriveKeepsDriverInv, ServoAssumption DEF PWM_setPosition
<1>3. ASSUME NEW p \in Pins, NEW up \in BOOLEAN, PWM_step(p, up)
      PROVE  DriverInv'
  <2>1. initialised = Pins
    BY <1>3 DEF PWM_step, PositionInv, TypeOK
  <2>2. \E d \in Int : Drive(p, d)
    BY <1>3, StepTarget DEF PWM_step
  <2> QED
    BY <1>3, <2>1, <2>2, DriveKeepsDriverInv DEF PWM_step
<1>4. ASSUME NEW p \in Pins, PWM_disable(p)
      PROVE  DriverInv'
  <2>1. TypeOK' /\ LimitsInForce'
    BY <1>4 DEF PWM_disable, TypeOK, LimitsInForce, Accepts
  <2>2. PositionInv'
    BY <1>4 DEF PWM_disable, PositionInv, Located, Driving, TypeOK
  <2> QED
    BY <2>1, <2>2
<1>5. CASE Export /\ ~ProcessDies
  <2>1. TypeOK' /\ LimitsInForce'
    BY <1>5 DEF Export, TypeOK, LimitsInForce, Accepts
  <2>2. PositionInv'
    BY <1>5 DEF Export, PositionInv, Located, Driving, TypeOK
  <2> QED
    BY <2>1, <2>2
<1>6. CASE WritePeriod
  <2>1. TypeOK' /\ LimitsInForce'
    <3>1. PWMConfig[pin].period \in Nat
      BY LimitsAreRanges DEF TypeOK
    <3> QED
      BY <1>6, <3>1 DEF WritePeriod, WriteRegister, TypeOK, LimitsInForce, Accepts
  <2>2. PositionInv'
    BY <1>6 DEF WritePeriod, PositionInv, Located, Driving, TypeOK
  <2> QED
    BY <2>1, <2>2
<1>7. CASE WriteDuty
  <2>1. TypeOK' /\ LimitsInForce'
    BY <1>7 DEF WriteDuty, WriteRegister, TypeOK, LimitsInForce, Accepts
  <2>2. PositionInv'
    BY <1>7 DEF WriteDuty, PositionInv, Located, Driving, TypeOK
  <2> QED
    BY <2>1, <2>2
<1>8. CASE WriteEnable
  <2>1. TypeOK' /\ LimitsInForce'
    BY <1>8 DEF WriteEnable, WriteRegister, TypeOK, LimitsInForce, Accepts
  <2>2. PositionInv'
    BY <1>8 DEF WriteEnable, PositionInv, Located, Driving, TypeOK
  <2> QED
    BY <2>1, <2>2
<1>9. CASE WriteDisable
  <2>1. TypeOK' /\ LimitsInForce'
    BY <1>9 DEF WriteDisable, WriteRegister, TypeOK, LimitsInForce, Accepts
  <2>2. PositionInv'
    BY <1>9 DEF WriteDisable, PositionInv, Located, Driving, TypeOK
  <2> QED
    BY <2>1, <2>2
<1>10. ASSUME ProcessDies, setting' \in [Pins -> PwmSettings],
              period' \in [Pins -> Nat], duty' \in [Pins -> Nat],
              enabled' \in [Pins -> BOOLEAN]
       PROVE  DriverInv'
  <2>1. TypeOK' /\ LimitsInForce'
    BY <1>10 DEF ProcessDies, TypeOK, LimitsInForce, NoSetting
  <2>2. PositionInv'
    BY <1>10 DEF ProcessDies, PositionInv, Driving
  <2> QED
    BY <2>1, <2>2
<1>11. CASE Export /\ ProcessDies
  BY <1>10, <1>11 DEF Export, TypeOK
<1>12. CASE Restart
  <2>1. CASE UNCHANGED registerVars
    BY <1>10, <1>12, <2>1 DEF Restart, TypeOK
  <2>2. CASE ~UNCHANGED registerVars
    <3>1. /\ period' = [p \in Pins |-> 0]
          /\ duty' = [p \in Pins |-> 0]
          /\ enabled' = [p \in Pins |-> FALSE]
      BY <1>12, <2>2 DEF Restart
    <3> QED
      BY <1>10, <1>12, <3>1 DEF Restart
  <2> QED
    BY <2>1, <2>2
<1>13. CASE UNCHANGED servoVars
  BY <1>13 DEF servoVars, callVars, TypeOK, LimitsInForce, PositionInv, Located,
              Driving, Accepts
<1> QED
  BY <1>1, <1>2, <1>3, <1>4, <1>5, <1>6, <1>7, <1>8, <1>9, <1>11, <1>12, <1>13
     DEF ServoNext, Call, ShellCommand

\* The zeroed table and registers satisfy the driver's invariant.
LEMMA DriverInitially ==
  ASSUME ServoInit
  PROVE  DriverInv
<1>1. TypeOK
  BY DEF ServoInit, TypeOK
<1>2. LimitsInForce /\ PositionInv
  BY DEF ServoInit, LimitsInForce, PositionInv, Driving
<1> QED
  BY <1>1, <1>2 DEF DriverInv

\* The driver's invariant holds always, whatever shell commands fail.
THEOREM DriverInvariant == ServoSpec => []DriverInv
  BY DriverInitially, DriverInvStep, PTL DEF ServoSpec

\* Type correctness of the driver: in particular a duty cycle is never negative,
\* whatever position main asks for.
THEOREM TypeCorrect == ServoSpec => []TypeOK
  BY DriverInvariant, PTL DEF DriverInv

\* The position that main steps from and the report thread publishes is inside
\* the limits in force, whatever shell commands fail.
THEOREM ReportedAlwaysInRange == ServoSpec => []ReportedInRange
<1>1. DriverInv => ReportedInRange
  BY DEF DriverInv, TypeOK, LimitsInForce, PositionInv, Located, ReportedInRange
<1> QED
  BY <1>1, DriverInvariant, PTL

-----------------------------------------------------------------------------
\* A step moves the servo by no more than the configured step (PWM_step).
THEOREM StepAlwaysBounded == ServoSpec => StepIsBounded
<1>1. ASSUME DriverInv, NEW p \in Pins, NEW up \in BOOLEAN, PWM_step(p, up)
      PROVE  /\ current'[p] - current[p] <= setting[p].step
             /\ current[p] - current'[p] <= setting[p].step
  <2> DEFINE asked == IF up THEN current[p] + PWMConfig[p].step
                            ELSE current[p] - PWMConfig[p].step
  <2>1. /\ PWMConfig[p] \in [period : Nat, min : Nat, max : Nat, step : Nat]
        /\ PWMConfig[p].min <= PWMConfig[p].max
    BY <1>1, LimitsAreRanges DEF DriverInv
  <2>2. Located(p) /\ current[p] \in Nat
    BY <1>1 DEF DriverInv, PositionInv, PWM_step, TypeOK
  <2>3. current'[p] = Limit(PWMConfig[p], asked)
    BY <1>1 DEF PWM_step, Drive, DriverInv, TypeOK
  <2>4. PWMConfig[p].step <= setting[p].step
    <3>1. setting[p].step \in Nat
      BY <1>1, ServoAssumption DEF DriverInv, TypeOK
    <3> QED
      BY <1>1, <2>1, <3>1 DEF DriverInv, LimitsInForce, NoSetting
  <2>5. setting[p].step \in Nat
    BY <1>1, ServoAssumption DEF DriverInv, TypeOK
  <2> QED
    BY <2>1, <2>2, <2>3, <2>4, <2>5 DEF Limit, Located
<1>2. DriverInv /\ [ServoNext]_servoVars =>
        [\A p \in Pins, up \in BOOLEAN : PWM_step(p, up) =>
           /\ current'[p] - current[p] <= setting[p].step
           /\ current[p] - current'[p] <= setting[p].step]_servoVars
  BY <1>1
<1> QED
  BY <1>2, DriverInvariant, PTL DEF ServoSpec, StepIsBounded

\* A pin is switched on only with accepted limits and a position inside them,
\* whatever shell commands fail (PWM_enable is called by PWM_setPosition only).
THEOREM AlwaysEnablesWithLimits == ServoSpec => EnablesWithLimits
<1>1. ASSUME DriverInv, [ServoNext]_servoVars,
             NEW p \in Pins, ~enabled[p], enabled'[p]
      PROVE  /\ Accepts(setting[p])
             /\ setting[p].min <= current[p]
             /\ current[p] <= setting[p].max
  <2>1. WriteEnable /\ p = pin
    BY <1>1 DEF DriverInv, TypeOK, ServoNext, Call, ShellCommand, servoVars,
         registerVars, PWM_init, PWM_setPosition, PWM_step, PWM_disable, Drive,
         Export, WritePeriod, WriteDuty, WriteEnable, WriteDisable, WriteRegister,
         Restart
  <2>2. /\ pc = "enable" /\ p \in initialised /\ Located(p)
        /\ 0 < PWMConfig[p].max
    BY <1>1, <2>1 DEF WriteEnable, DriverInv, PositionInv, Driving
  <2>3. PWMConfig[p] = setting[p] /\ Accepts(setting[p])
    BY <1>1, <2>2 DEF DriverInv, LimitsInForce, NoSetting
  <2> QED
    BY <2>2, <2>3 DEF Located
<1>2. DriverInv /\ [ServoNext]_servoVars =>
        [\A p \in Pins : ~enabled[p] /\ enabled'[p] =>
           /\ Accepts(setting[p])
           /\ setting[p].min <= current[p]
           /\ current[p] <= setting[p].max]_servoVars
  BY <1>1
<1> QED
  BY <1>2, DriverInvariant, PTL DEF ServoSpec, EnablesWithLimits

-----------------------------------------------------------------------------
\* While no shell command fails, every step keeps what the registers hold.
LEMMA RegistersInvStep ==
  ASSUME ~SysfsMayFail, DriverInv, DriverInv', RegistersInv, [ServoNext]_servoVars
  PROVE  RegistersInv'
<1> USE DEF configVars, registerVars, bootVars
<1> DEFINE Pulse(p) == /\ 0 < PWMConfig[p].max
                       /\ PWMConfig[p].min <= duty[p]
                       /\ duty[p] <= PWMConfig[p].max
                       /\ duty[p] = current[p] \/ (pin = p /\ pc = "duty_cycle")
<1>a. ASSUME NEW p \in Pins
      PROVE  /\ PWMConfig[p] \in [period : Nat, min : Nat, max : Nat, step : Nat]
             /\ PWMConfig[p].max <= PWMConfig[p].period
             /\ current[p] \in Nat /\ period[p] \in Nat /\ duty[p] \in Nat
             /\ enabled[p] \in BOOLEAN /\ duty[p] <= period[p]
  BY <1>a, LimitsAreRanges DEF DriverInv, TypeOK, RegistersInv
<1>b. positioned \subseteq initialised /\ initialised \subseteq Pins /\ pin \in Pins
  BY DEF DriverInv, PositionInv, TypeOK
<1>1. ASSUME NEW p \in Pins, PWM_init(p)
      PROVE  RegistersInv'
  <2>1. p \notin positioned
    BY <1>1, <1>b DEF PWM_init
  <2>2. \A q \in Pins \ {p} : PWMConfig'[q] = PWMConfig[q]
    BY <1>1 DEF PWM_init, DriverInv, TypeOK
  <2>3. PeriodCovers'
    BY <1>1, <1>b, <2>2 DEF PWM_init, RegistersInv, PeriodCovers
  <2> QED
    BY <1>1, <1>b, <2>1, <2>2, <2>3 DEF PWM_init, RegistersInv
<1>2. ASSUME NEW p \in Pins, NEW d \in Int, pc = "idle", Drive(p, d)
      PROVE  RegistersInv'
  <2>1. \A q \in Pins : q # p => current'[q] = current[q]
    BY <1>2 DEF Drive, DriverInv, TypeOK
  <2>2. pc' = "disable" => current'[p] = current[p]
    BY <1>2 DEF Drive, DriverInv, TypeOK
  <2>3. /\ pin' = p /\ pc' \in {"duty_cycle", "disable"}
        /\ UNCHANGED <<PWMConfig, period, duty, enabled, initialised, positioned>>
    BY <1>2 DEF Drive
  <2>4. PeriodCovers'
    BY <1>2, <2>3 DEF RegistersInv, PeriodCovers
  <2>5. ASSUME NEW q \in positioned, enabled[q]
        PROVE  Pulse(q)'
    BY <1>2, <1>b, <2>1, <2>2, <2>3, <2>5 DEF RegistersInv
  <2> QED
    BY <2>3, <2>4, <2>5 DEF RegistersInv
<1>3. ASSUME NEW p \in Pins, PWM_disable(p)
      PROVE  RegistersInv'
  BY <1>3 DEF PWM_disable, RegistersInv, PeriodCovers
<1>4. CASE Export
  BY <1>4 DEF Export, RegistersInv, PeriodCovers
<1>5. CASE WritePeriod
  <2>1. \A q \in Pins : q # pin => period'[q] = period[q]
    BY <1>5 DEF WritePeriod, WriteRegister, DriverInv, TypeOK
  <2>2. PWMConfig[pin].period <= period'[pin] /\ duty[pin] <= period'[pin]
    BY <1>5, <1>a, <1>b DEF WritePeriod, WriteRegister, DriverInv, TypeOK
  <2>3. PeriodCovers'
    BY <1>5, <1>b, <2>1, <2>2 DEF WritePeriod, RegistersInv, PeriodCovers
  <2>4. \A q \in Pins : duty'[q] <= period'[q]
    BY <1>5, <1>a, <2>1, <2>2 DEF WritePeriod
  <2> QED
    BY <1>5, <2>3, <2>4 DEF WritePeriod, RegistersInv
<1>6. CASE WriteDuty
  <2>1. /\ pin \in initialised /\ Located(pin) /\ 0 < PWMConfig[pin].max
        /\ PWMConfig[pin].period <= period[pin]
    BY <1>6 DEF WriteDuty, DriverInv, PositionInv, Driving, RegistersInv, PeriodCovers
  <2>2. duty' = [duty EXCEPT ![pin] = current[pin]]
    BY <1>6, <1>a, <1>b, <2>1 DEF WriteDuty, WriteRegister, Located
  <2>3. duty'[pin] = current[pin] /\ \A q \in Pins : q # pin => duty'[q] = duty[q]
    BY <1>b, <2>2 DEF DriverInv, TypeOK
  <2>4. \A q \in Pins : duty'[q] <= period'[q]
    BY <1>6, <1>a, <1>b, <2>1, <2>3 DEF WriteDuty, Located
  <2>5. PeriodCovers'
    BY <1>6 DEF WriteDuty, RegistersInv, PeriodCovers
  <2>6. ASSUME NEW q \in positioned, enabled[q]
        PROVE  Pulse(q)'
    BY <1>6, <1>b, <2>1, <2>3, <2>6 DEF WriteDuty, RegistersInv, Located
  <2> QED
    BY <1>6, <2>3, <2>4, <2>5, <2>6 DEF WriteDuty, RegistersInv
<1>7. CASE WriteEnable
  <2>1. Located(pin) /\ 0 < PWMConfig[pin].max /\ duty[pin] = current[pin]
    BY <1>7 DEF WriteEnable, DriverInv, PositionInv, Driving, RegistersInv
  <2>2. \A q \in Pins : q # pin => enabled'[q] = enabled[q]
    BY <1>7 DEF WriteEnable, WriteRegister, DriverInv, TypeOK
  <2>3. PeriodCovers'
    BY <1>7 DEF WriteEnable, RegistersInv, PeriodCovers
  <2>4. ASSUME NEW q \in positioned', enabled'[q]
        PROVE  Pulse(q)'
    BY <1>7, <1>b, <2>1, <2>2, <2>4 DEF WriteEnable, RegistersInv, Located
  <2> QED
    BY <1>7, <2>3, <2>4 DEF WriteEnable, RegistersInv
<1>8. CASE WriteDisable
  <2>1. enabled' = [enabled EXCEPT ![pin] = FALSE]
    BY <1>8 DEF WriteDisable, WriteRegister
  <2>2. /\ ~enabled'[pin]
        /\ \A q \in Pins : q # pin => enabled'[q] = enabled[q]
    BY <1>b, <2>1 DEF DriverInv, TypeOK
  <2>3. PeriodCovers'
    BY <1>8 DEF WriteDisable, RegistersInv, PeriodCovers
  <2>4. ASSUME NEW q \in positioned', enabled'[q]
        PROVE  Pulse(q)'
    BY <1>8, <1>b, <2>2, <2>4 DEF WriteDisable, RegistersInv
  <2> QED
    BY <1>8, <2>3, <2>4 DEF WriteDisable, RegistersInv
<1>9. CASE Restart
  <2>1. initialised' = {} /\ positioned' = {} /\ pc' = "idle"
    BY <1>9 DEF Restart, ProcessDies
  <2>2. \A q \in Pins : duty'[q] <= period'[q]
    BY <1>9, <1>a DEF Restart
  <2> QED
    BY <2>1, <2>2 DEF RegistersInv, PeriodCovers
<1>10. CASE UNCHANGED servoVars
  BY <1>10 DEF servoVars, callVars, RegistersInv, PeriodCovers
<1>11. ASSUME NEW p \in Pins, NEW d \in Positions, PWM_setPosition(p, d)
       PROVE  RegistersInv'
  BY <1>2, <1>11, ServoAssumption DEF PWM_setPosition
<1>12. ASSUME NEW p \in Pins, NEW up \in BOOLEAN, PWM_step(p, up)
       PROVE  RegistersInv'
  <2>1. \E d \in Int : Drive(p, d)
    BY <1>12, StepTarget DEF PWM_step, DriverInv
  <2> QED
    BY <1>2, <1>12, <2>1 DEF PWM_step
<1> QED
  BY <1>1, <1>3, <1>4, <1>5, <1>6, <1>7, <1>8, <1>9, <1>10, <1>11, <1>12
     DEF ServoNext, Call, ShellCommand

\* The driver and, while no shell command fails, the registers.
THEOREM Invariant == ServoSpec => []IInv
<1>1. ServoInit => RegistersInv
  BY DEF ServoInit, RegistersInv, PeriodCovers
<1>2. ServoInit => DriverInv
  BY DriverInitially
<1>3. IInv /\ [ServoNext]_servoVars => IInv'
  BY DriverInvStep, RegistersInvStep DEF IInv
<1> QED
  BY <1>1, <1>2, <1>3, PTL DEF ServoSpec, IInv

\* Pulses stay inside the configured limits after every restart (the sequence
\* PWM_init, PWM_setPosition, PWM_step of main), if no shell command fails.
THEOREM PulseAlwaysInRange ==
  ASSUME ~SysfsMayFail
  PROVE  ServoSpec => []PulseInRange
<1>1. ASSUME IInv
      PROVE  PulseInRange
  <2> SUFFICES ASSUME NEW p \in positioned, enabled[p]
               PROVE  /\ Accepts(setting[p])
                      /\ setting[p].min <= duty[p]
                      /\ duty[p] <= setting[p].max
    BY DEF PulseInRange
  <2>1. /\ 0 < PWMConfig[p].max
        /\ PWMConfig[p].min <= duty[p] /\ duty[p] <= PWMConfig[p].max
    BY <1>1 DEF IInv, RegistersInv
  <2>2. p \in initialised /\ p \in Pins
    BY <1>1 DEF IInv, DriverInv, PositionInv, TypeOK
  <2> QED
    BY <1>1, <2>1, <2>2 DEF IInv, DriverInv, LimitsInForce, NoSetting
<1> QED
  BY <1>1, Invariant, PTL

\* Between two calls the pulse is the one that PWM_getDutyCycle_mSecs reports.
THEOREM PulseAlwaysReported ==
  ASSUME ~SysfsMayFail
  PROVE  ServoSpec => []PulseIsReported
<1>1. ASSUME IInv
      PROVE  PulseIsReported
  BY <1>1 DEF IInv, RegistersInv, PulseIsReported
<1> QED
  BY <1>1, Invariant, PTL

\* The kernel takes every duty cycle and every enable, whatever duty cycle and
\* period an earlier process with another configuration left in the registers.
THEOREM KernelAlwaysTakesPulse ==
  ASSUME ~SysfsMayFail
  PROVE  ServoSpec => []KernelTakesPulse
<1>1. ASSUME IInv
      PROVE  KernelTakesPulse
  <2>1. ASSUME pc \in {"duty_cycle", "enable"}
        PROVE  /\ current[pin] \in Nat /\ period[pin] \in Nat
               /\ 0 < PWMConfig[pin].max
               /\ current[pin] <= PWMConfig[pin].max
               /\ PWMConfig[pin].max <= PWMConfig[pin].period
               /\ PWMConfig[pin].period <= period[pin]
               /\ PWMConfig[pin].max \in Nat /\ PWMConfig[pin].period \in Nat
    BY <1>1, <2>1, LimitsAreRanges
       DEF IInv, DriverInv, TypeOK, PositionInv, Driving, Located, RegistersInv,
           PeriodCovers
  <2> QED
    BY <1>1, <2>1 DEF KernelTakesPulse, IInv, RegistersInv
<1> QED
  BY <1>1, Invariant, PTL
-----------------------------------------------------------------------------

InitLabels == {"init azimuth", "init altitude"}
StartLabels == InitLabels \cup {"start azimuth", "start altitude", "threads"}

\* The call that sets a position of pin p is in progress.
Servicing(p) == pin = p /\ pc \in {"duty_cycle", "enable", "disable"}

\* How far the set-up has come, label by label.
SetUp ==
  /\ at = "init azimuth" => initialised = {} /\ pc = "idle"
  /\ at = "init altitude" => initialised = {Azimuth}
  /\ at \notin InitLabels => initialised = Pins
  /\ at \in InitLabels \cup {"start azimuth"} => pc \in {"idle", "export", "period"}
  /\ at = "start altitude" => Azimuth \in positioned \/ Servicing(Azimuth)
  /\ at = "threads" => /\ Azimuth \in positioned
                       /\ Altitude \in positioned \/ Servicing(Altitude)
  /\ at \notin StartLabels => positioned = Pins
  /\ at \in StartLabels => threads = {} /\ ~parked
  /\ at \in {"round", "stow"} => pc = "idle"
  /\ threads = {} => ~stowed

\* A stow in progress and a panel that is parked.
Parking ==
  /\ parked => /\ at \in {"round", "stow", "disable", "stowed"}
               /\ ~enabled[Altitude]
               /\ current[Altitude] = StowTarget
               /\ pc \in {"idle", "disable"}
  /\ at \in {"disable", "stowed"} => current[Altitude] = StowTarget
  /\ at = "disable" => pin = Altitude
  /\ at = "stowed" => /\ pin = Altitude
                      /\ pc \in {"idle", "disable"}
                      /\ pc = "idle" => ~enabled[Altitude]

\* The pins and positions that main passes to the driver are the driver's.
LEMMA CallArguments ==
  /\ Azimuth \in Pins /\ Altitude \in Pins /\ Azimuth # Altitude
  /\ Pins = {Azimuth, Altitude}
  /\ \A p \in Pins : StartPosition[p] \in Positions
  /\ StowPosition \in Positions
  BY TrackerAssumption

-----------------------------------------------------------------------------
\* A step of the program is a step of the driver, or leaves the driver alone.
LEMMA DriverStep ==
  ASSUME [Next]_vars
  PROVE  [ServoNext]_servoVars
<1>1. CASE StartUp
  <2>1. ASSUME NEW p \in Pins, NEW from, NEW to, InitServo(p, from, to)
        PROVE  ServoNext
    BY <2>1 DEF InitServo, ServoNext, Call
  <2>2. ASSUME NEW p \in Pins, NEW from, NEW to, StartServo(p, from, to)
        PROVE  ServoNext
    BY <2>2, CallArguments DEF StartServo, ServoNext, Call
  <2> QED
    BY <1>1, <2>1, <2>2, CallArguments DEF StartUp
<1>2. CASE CreateThreads \/ BeginRound \/ EndRound
  BY <1>2 DEF CreateThreads, BeginRound, EndRound
<1>3. CASE StowPanel
  BY <1>3, CallArguments DEF StowPanel, ServoNext, Call
<1>4. CASE DisableAltitude
  BY <1>4, CallArguments DEF DisableAltitude, ServoNext, Call
<1>5. ASSUME NEW p \in Pins, NEW from, NEW to, Track(p, from, to)
      PROVE  [ServoNext]_servoVars
  <2>1. CASE turn[p] = 0
    BY <1>5, <2>1 DEF Track
  <2>2. CASE turn[p] # 0
    BY <1>5, <2>2 DEF Track, ServoNext, Call
  <2> QED
    BY <2>1, <2>2
<1>6. CASE MainWaits
  BY <1>6 DEF MainWaits, ServoNext
<1>7. CASE Connect \/ MonitorDecides \/ ButtonChanges \/ CommandChanges \/ UNCHANGED vars
  BY <1>7 DEF Connect, MonitorDecides, ButtonChanges, CommandChanges, vars
<1>8. CASE TrackerRestarts
  BY <1>8 DEF TrackerRestarts, ServoNext, ShellCommand
<1> QED
  BY <1>1, <1>2, <1>3, <1>4, <1>5, <1>6, <1>7, <1>8, CallArguments
     DEF Next, Main, MainCalls

\* The program implements ServoPwm: main calls the driver with the positions and
\* in the order that ServoPwm describes, and never while a call is in progress.
LEMMA ProgramUsesDriver == Spec => ServoSpec
<1>1. Init => ServoInit
  BY DEF Init
<1>2. [Next]_vars => [ServoNext]_servoVars
  BY DriverStep
<1> QED
  BY <1>1, <1>2, PTL DEF Spec, ServoSpec

-----------------------------------------------------------------------------
\* What a shell command leaves as it was; positioned grows with the last one of a
\* call.
LEMMA CommandFrame ==
  ASSUME PositionInv, MainWaits
  PROVE  /\ UNCHANGED <<loopVars, initialised, PWMConfig, current, pin>>
         /\ pc # "idle"
         /\ positioned' = IF pc \in {"enable", "disable"} THEN positioned \cup {pin}
                          ELSE positioned
         /\ pc = "export" => pc' = "period"
         /\ pc = "period" => pc' = "idle"
         /\ pc = "duty_cycle" => pc' = "enable"
         /\ pc \in {"enable", "disable"} => pc' = "idle"
<1>1. CASE Export
  BY <1>1 DEF PositionInv, MainWaits, Export, ProcessDies, bootVars
<1>2. CASE WritePeriod
  BY <1>2 DEF MainWaits, WritePeriod, configVars, bootVars
<1>3. CASE WriteDuty
  BY <1>3 DEF MainWaits, WriteDuty, configVars, bootVars
<1>4. CASE WriteEnable
  BY <1>4 DEF MainWaits, WriteEnable, configVars
<1>5. CASE WriteDisable
  BY <1>5 DEF MainWaits, WriteDisable, configVars
<1> QED
  BY <1>1, <1>2, <1>3, <1>4, <1>5 DEF MainWaits, ShellCommand

\* The stow position the driver would drive to depends on the limits only.
LEMMA TargetFrame ==
  ASSUME UNCHANGED PWMConfig
  PROVE  StowTarget' = StowTarget
  BY DEF StowTarget, Limit

\* No pin is set up when the process starts.
LEMMA SetUpInitially ==
  ASSUME Init
  PROVE  SetUp /\ Parking
  BY DEF Init, ServoInit, Stow!Init, SetUp, Parking, InitLabels, StartLabels

\* The set-up, action by action.
LEMMA SetUpStep ==
  ASSUME TypeOK, PositionInv, SetUp, [Next]_vars
  PROVE  SetUp'
<1> USE DEF SetUp, InitLabels, StartLabels, Servicing
<1>1. ASSUME InitServo(Azimuth, "init azimuth", "init altitude")
             \/ InitServo(Altitude, "init altitude", "start azimuth"),
             UNCHANGED <<threads, parked, stowed>>
      PROVE  SetUp'
  BY <1>1, CallArguments DEF InitServo, PWM_init
<1>2. ASSUME StartServo(Azimuth, "start azimuth", "start altitude")
             \/ StartServo(Altitude, "start altitude", "threads"),
             UNCHANGED <<threads, parked, stowed>>
      PROVE  SetUp'
  BY <1>2, CallArguments DEF StartServo, PWM_setPosition, Drive, bootVars
<1>3. CASE CreateThreads /\ UNCHANGED decisionVars
  <2>1. positioned = Pins
    BY <1>3, CallArguments DEF CreateThreads, TypeOK
  <2> QED
    BY <1>3, <2>1 DEF CreateThreads, servoVars, callVars, bootVars, decisionVars
<1>4. CASE (BeginRound \/ EndRound) /\ UNCHANGED decisionVars
  BY <1>4 DEF BeginRound, EndRound, servoVars, callVars, bootVars, decisionVars
<1>5. CASE (StowPanel \/ DisableAltitude) /\ UNCHANGED decisionVars
  BY <1>5, CallArguments
     DEF StowPanel, DisableAltitude, PWM_setPosition, PWM_disable, Drive, bootVars,
         decisionVars
<1>6. ASSUME NEW p \in Pins, NEW from, NEW to, Track(p, from, to),
             <<from, to>> \in {<<"azimuth", "altitude">>, <<"altitude", "tracked">>},
             UNCHANGED decisionVars
      PROVE  SetUp'
  BY <1>6 DEF Track, PWM_step, Drive, servoVars, callVars, bootVars, decisionVars
<1>7. CASE MainWaits /\ UNCHANGED decisionVars
  <2>1. /\ UNCHANGED <<at, threads, parked, stowed, initialised, pin>> /\ pc # "idle"
        /\ positioned' = IF pc \in {"enable", "disable"} THEN positioned \cup {pin}
                         ELSE positioned
        /\ pc = "export" => pc' = "period"
        /\ pc = "period" => pc' = "idle"
        /\ pc = "duty_cycle" => pc' = "enable"
        /\ pc \in {"enable", "disable"} => pc' = "idle"
    BY <1>7, CommandFrame DEF loopVars, decisionVars
  <2>2. pc \in {"export", "period", "duty_cycle", "enable", "disable"}
    BY <2>1 DEF TypeOK
  <2>3. positioned \subseteq positioned' /\ positioned' \subseteq Pins
    BY <2>1 DEF TypeOK
  <2>4. \A p \in Pins : p \in positioned \/ Servicing(p) => p \in positioned' \/ Servicing(p)'
    BY <2>1, <2>2
  <2>5. pc \in {"export", "period"} => pc' \in {"idle", "period"}
    BY <2>1
  <2>6. /\ at' = "start altitude" => Azimuth \in positioned' \/ Servicing(Azimuth)'
        /\ at' = "threads" => /\ Azimuth \in positioned'
                              /\ Altitude \in positioned' \/ Servicing(Altitude)'
    <3> HIDE DEF Servicing
    <3> QED
      BY <2>1, <2>3, <2>4, CallArguments
  <2>7. at' \notin StartLabels => positioned' = Pins
    BY <2>1, <2>3
  <2>8. at' \in InitLabels \cup {"start azimuth"} => pc' \in {"idle", "export", "period"}
    BY <2>1, <2>5
  <2>9. /\ at' = "init azimuth" => initialised' = {} /\ pc' = "idle"
        /\ at' = "init altitude" => initialised' = {Azimuth}
        /\ at' \notin InitLabels => initialised' = Pins
        /\ at' \in {"round", "stow"} => pc' = "idle"
    BY <2>1
  <2>10. /\ at' \in StartLabels => threads' = {} /\ ~parked'
         /\ threads' = {} => ~stowed'
    BY <2>1
  <2> HIDE DEF Servicing
  <2> QED
    BY <2>6, <2>7, <2>8, <2>9, <2>10
<1>8. CASE Connect \/ MonitorDecides \/ ButtonChanges \/ CommandChanges \/ UNCHANGED vars
  <2>1. UNCHANGED <<at, threads, parked, pc, pin, initialised, positioned>>
    BY <1>8 DEF Connect, MonitorDecides, ButtonChanges, CommandChanges, vars, servoVars,
                callVars, bootVars, loopVars
  <2>2. threads # {} \/ stowed' = stowed
    BY <1>8 DEF Connect, MonitorDecides, ButtonChanges, CommandChanges, vars,
                decisionVars, Stow!Change
  <2>3. threads' = {} => ~stowed'
    BY <2>1, <2>2
  <2>4. \A p \in Pins : Servicing(p)' = Servicing(p)
    BY <2>1
  <2> HIDE DEF Servicing
  <2> QED
    BY <2>1, <2>3, <2>4, CallArguments
<1>9. CASE TrackerRestarts
  BY <1>9 DEF TrackerRestarts, Restart, ProcessDies
<1> QED
  BY <1>1, <1>2, <1>3, <1>4, <1>5, <1>6, <1>7, <1>8, <1>9, CallArguments
     DEF Next, Main, MainCalls, StartUp, decisionVars

\* Drive assigns the limited position (the two assignments at the top of
\* PWM_setPosition); a call that finds the servo there only disables it.
LEMMA StowCall ==
  ASSUME TypeOK, PWM_setPosition(Altitude, StowPosition)
  PROVE  /\ pin' = Altitude
         /\ current'[Altitude] = StowTarget
         /\ UNCHANGED <<PWMConfig, enabled>>
         /\ current[Altitude] = StowTarget => pc' = "disable"
  BY CallArguments DEF PWM_setPosition, Drive, TypeOK, StowTarget, configVars,
                       registerVars

\* Disabling works when shell commands do.
LEMMA DisableWorks ==
  ASSUME ~SysfsMayFail, TypeOK, WriteDisable
  PROVE  enabled'[pin] = FALSE /\ \A p \in Pins : ~enabled[p] => ~enabled'[p]
  BY DEF WriteDisable, WriteRegister, TypeOK

\* The stow and the parked panel, action by action.
LEMMA ParkingStep ==
  ASSUME ~SysfsMayFail, TypeOK, TypeOK', PositionInv, SetUp, Parking, [Next]_vars
  PROVE  Parking'
<1> USE DEF Parking
<1>1. CASE StartUp /\ UNCHANGED decisionVars
  <2>1. ~parked' /\ at' \notin {"disable", "stowed"}
    BY <1>1 DEF StartUp, InitServo, StartServo, SetUp, StartLabels, InitLabels
  <2> QED
    BY <2>1
<1>2. CASE CreateThreads \/ BeginRound
  <2>1. /\ UNCHANGED <<pc, pin, current, enabled, PWMConfig>> /\ pc = "idle"
        /\ at' \in {"round", "stow", "azimuth"}
        /\ parked' => parked /\ at' \in {"round", "stow"}
    BY <1>2 DEF CreateThreads, BeginRound, servoVars, callVars, registerVars, configVars,
                SetUp, StartLabels
  <2> QED
    BY <2>1, TargetFrame
<1>3. CASE StowPanel
  <2>1. /\ at' = "disable" /\ parked' = parked /\ PWM_setPosition(Altitude, StowPosition)
    BY <1>3 DEF StowPanel
  <2>2. /\ pin' = Altitude /\ current'[Altitude] = StowTarget
        /\ UNCHANGED <<PWMConfig, enabled>>
        /\ current[Altitude] = StowTarget => pc' = "disable"
    BY <2>1, StowCall
  <2> QED
    BY <2>1, <2>2, TargetFrame
<1>4. CASE DisableAltitude
  <2>1. /\ at = "disable" /\ at' = "stowed" /\ parked' = parked /\ pin' = Altitude
        /\ pc' = "disable" /\ UNCHANGED <<PWMConfig, current, enabled>>
    BY <1>4 DEF DisableAltitude, PWM_disable, configVars, registerVars
  <2> QED
    BY <2>1, TargetFrame
<1>5. CASE EndRound
  <2>1. /\ pc = "idle" /\ at' = "round" /\ parked' = (parked \/ at = "stowed")
        /\ UNCHANGED <<pc, pin, current, enabled, PWMConfig>>
    BY <1>5 DEF EndRound, servoVars, callVars, registerVars, configVars
  <2> QED
    BY <2>1, TargetFrame
<1>6. ASSUME NEW p \in Pins, NEW from, NEW to, Track(p, from, to),
             <<from, to>> \in {<<"azimuth", "altitude">>, <<"altitude", "tracked">>}
      PROVE  Parking'
  <2>1. ~parked' /\ at' \notin {"disable", "stowed"}
    BY <1>6 DEF Track
  <2> QED
    BY <2>1
<1>7. CASE MainWaits
  <2>1. /\ UNCHANGED <<at, parked, PWMConfig, current, pin>> /\ pc # "idle"
        /\ pc = "disable" => pc' = "idle"
    BY <1>7, CommandFrame DEF loopVars
  <2>2. CASE pc = "disable"
    <3>1. WriteDisable
      BY <1>7, <2>2 DEF MainWaits, ShellCommand, Export, WritePeriod, WriteDuty, WriteEnable
    <3>2. enabled'[pin] = FALSE /\ (~enabled[Altitude] => ~enabled'[Altitude])
      BY <3>1, DisableWorks, CallArguments
    <3> QED
      BY <2>1, <2>2, <3>2, TargetFrame
  <2>3. CASE pc # "disable"
    <3>1. ~parked /\ at # "stowed"
      BY <2>1, <2>3
    <3> QED
      BY <2>1, <3>1, TargetFrame
  <2> QED
    BY <2>2, <2>3
<1>8. CASE Connect \/ MonitorDecides \/ ButtonChanges \/ CommandChanges \/ UNCHANGED vars
  <2>1. UNCHANGED <<at, parked, pc, pin, current, enabled, PWMConfig>>
    BY <1>8 DEF Connect, MonitorDecides, ButtonChanges, CommandChanges, vars, servoVars,
                callVars, registerVars, configVars, loopVars
  <2> QED
    BY <2>1, TargetFrame
<1>9. CASE TrackerRestarts
  BY <1>9 DEF TrackerRestarts
<1> QED
  BY <1>1, <1>2, <1>3, <1>4, <1>5, <1>6, <1>7, <1>8, <1>9, CallArguments
     DEF Next, Main, MainCalls

-----------------------------------------------------------------------------
\* No thread runs and no round begins before the set-up is done: main's order of
\* calls, whatever commands fail and whichever thread cannot be created.
THEOREM ThreadsAlwaysAfterStart == Spec => []ThreadsAfterStart
<1>1. Spec => []IInv
  BY ProgramUsesDriver, Invariant, PTL
<1>2. Init => SetUp
  BY SetUpInitially
<1>3. IInv /\ SetUp /\ [Next]_vars => SetUp'
  BY SetUpStep DEF IInv, DriverInv
<1>4. SetUp => ThreadsAfterStart
  BY DEF SetUp, ThreadsAfterStart, StartLabels, InitLabels
<1> QED
  BY <1>1, <1>2, <1>3, <1>4, PTL DEF Spec

\* A parked panel gets no pulse until a round finds it released (the stow branch
\* of main's loop, round after round), if the shell commands work.
THEOREM ParkedAlwaysStaysPut ==
  ASSUME ~SysfsMayFail
  PROVE  Spec => []ParkedStaysPut
<1>1. Spec => []IInv
  BY ProgramUsesDriver, Invariant, PTL
<1>2. Init => SetUp /\ Parking
  BY SetUpInitially
<1>3. IInv /\ IInv' /\ SetUp /\ Parking /\ [Next]_vars => SetUp' /\ Parking'
  BY SetUpStep, ParkingStep DEF IInv, DriverInv
<1>4. Parking => ParkedStaysPut
  BY DEF Parking, ParkedStaysPut
<1> QED
  BY <1>1, <1>2, <1>3, <1>4, PTL DEF Spec

\* What the servos get from the whole program, restarts with other configurations
\* included, is what the driver promises: pulses inside the configured limits.
THEOREM ProgramKeepsPulseInRange ==
  ASSUME ~SysfsMayFail
  PROVE  Spec => []PulseInRange
  BY ProgramUsesDriver, PulseAlwaysInRange, PTL
=============================================================================
