\* One application and the pushbutton; threads that may not come up.
CONSTANTS
  Azimuth = Azimuth
  Altitude = Altitude
  Pins = {Azimuth, Altitude}
  PwmSettings <- MCSettings
  Positions <- MCPositions
  SysfsMayFail = FALSE
  StartPosition <- MCStart
  StowPosition = 4
  ReversePolarity <- MCReverse
  ThreadsMayFail = TRUE
  Sources = {WebApp}
  Button = Button
SPECIFICATION Spec
INVARIANTS PulseInRange ParkedStaysPut
PROPERTIES StowIsCompleted TrackingResumes
