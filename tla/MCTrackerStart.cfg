\* Files of up to three lines; a token array of four; periods of 0 to 3 and rounds of up to 4.
CONSTANTS
  Sensors <- MCSensors
  Inputs = {0, 1}
  Scalars = {0, 1, 2}
  Loops = {"PWM_UPDATE_RATE_SECONDS", "STOW_MONITOR_RATE_SECS"}
  Steady = {"STOW_MONITOR_RATE_SECS"}
  Periods = {0, 2, 3}
  HostNames <- MCHostNames
  Missing = Missing
  Lines <- MCLines
  MaxTokens = 4
  MaxLines = 3
  Durations = {0, 2, 4}
  Word = 8
SPECIFICATION Spec
INVARIANTS EachSettingIsItsLast TuningFollowsSensor
