\* One pin, shell commands that fail at any time.
CONSTANTS
  Pins = {EHRPWM1B}
  PwmSettings <- MCSettings
  Positions <- MCPositions
  SysfsMayFail = TRUE
SPECIFICATION ServoSpec
INVARIANT ReportedInRange
PROPERTY StepIsBounded
