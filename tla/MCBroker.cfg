CONSTANTS
  Clients = {"p", "s"}
  Names = {"a"}
  Publishers = {"p"}
  Subscribers = {"s"}
  MaxInflight = 1
  MaxQueued = 1
  QueueQos0 = FALSE
  MaxMid = 4
  V31 = {"s"}
  Publications <- MCPublications
  ConnectPackets <- MCConnectPackets
  NoId = NoId
  NoName = NoName
  NoPassword = NoPassword
  Passwords <- MCPasswords
  AllowAnonymous = TRUE
  AllowZeroLengthId = TRUE
  PrefixedIds = {"p", "s"}
  UsernameAsClientid = FALSE
  MaxBody = 2
  MaxLost = 1
SPECIFICATION Spec
INVARIANTS CountsAreExact MidsAreDistinct SentInOrder
PROPERTIES KeptUntilAcknowledged RestartIsLastBackup
CHECK_DEADLOCK FALSE
