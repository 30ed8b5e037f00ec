\* Two addresses, the second of an older broker; every kind of failure, every start type.
CONSTANTS
  Addresses = 2
  StartTypes = {"automatic", "lazy", "once"}
  OldBrokers = {1}
  Faults = {"down", "silent", "unknown"}
  RestartTimeout = 1
  PrimaryRetry = 1
  KeepAlive = 1
  Threshold = 2
  CleanSession = FALSE
  MaxMessages = 3
  MaxKills = 1
SPECIFICATION Spec
INVARIANT NoticeIsTrue
PROPERTIES ComesBack PrimaryIsRegained LazyIsStarted
