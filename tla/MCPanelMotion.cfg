\* Whether a stowed panel gets where it is driven.
CONSTANTS
  Azimuth = Azimuth
  Altitude = Altitude
  Pins = {Azimuth, Altitude}
  PwmSettings <- MCSettings
  Positions <- MCPositions
  SysfsMayFail = FALSE
  StartPosition <- MCStart
  StowPosition = 4
  ReversePolarity <- MCReverse
  ThreadsMayFail = FALSE
  Sources = {WebApp}
  Button = Button
SPECIFICATION MotionSpec
PROPERTY PanelArrives
