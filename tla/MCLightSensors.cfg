\* Three corners on two inputs of three, two voltages, reads that fail.
CONSTANTS
  Elements = {0, 1, 2}
  Corners = {"leftTop", "leftBottom", "rightTop"}
  Left = {"leftTop", "leftBottom"}
  Top = {"leftTop", "rightTop"}
  Input <- MCInput
  lightSensorScalar <- MCScalar
  lightSensorOffset <- MCOffset
  Voltages = {0, 3}
  Leftovers = {1}
  MinDifference = 1
SPECIFICATION SensorSpec
INVARIANTS MessageIsOneRound TurnIsReported
PROPERTY RoundsGoOn
