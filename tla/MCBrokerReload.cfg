\* Reloads while the files are edited, two clients.
CONSTANTS
  Atoi <- MCAtoi
  Seconds <- MCSeconds
  PortOf <- MCPortOf
  ShortKeys = {}
  Unresolved = {}
  Wild = {}
  Missing = Missing
  Args <- MCArgs
  Versions <- MCVersions
  ConnectPackets <- MCConnectPackets
  NoId = NoId
  NoName = NoName
  NoPassword = NoPassword
  NoHash = {"no hash"}
  NoKey = {}
  Ids = {"named", "anonymous"}
  MaxPatterns = 1
  IdsWith <- MCIdsWith
SPECIFICATION Spec
PROPERTIES ReloadIsRestart ReloadIsReconnect
CHECK_DEADLOCK FALSE
