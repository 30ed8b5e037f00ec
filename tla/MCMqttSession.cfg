CONSTANTS
  Clients = {"t", "e"}
  Names = {"commands", "reports"}
  MaxInflight = 1
  MaxQueued = 0
  QueueQos0 = TRUE
  MaxMid = 7
  V31 = {}
  MaxClientInflight = 1
  MaxClientMid = 3
  Qos = {0, 1, 2}
  SubscribedQos = 2
  MaxMessages = 2
  MaxLosses = 1
  MaxFaults = 1
SPECIFICATION Spec
INVARIANTS NothingIsLost PassedOnOnce CommandsAreKept
PROPERTIES EventuallyAcknowledged EventuallyReceived
CHECK_DEADLOCK FALSE
