CONSTANTS
  Last = 5
  Payments <- ResumePayments
  Address <- MCAddress
  Sender <- ResumeSender
  Receiver <- ResumeReceiver
  Platform <- MCPlatform
  UserWallet = {}
  RefreshAfter = 1
  Retained = 2
  Concurrency = 2
  MaxInFlight = 2
  MaxClock = 0
  MaxCrashes = 1
  MaxFailures = 0
SPECIFICATION Spec
CHECK_DEADLOCK FALSE
INVARIANTS
  NothingSkipped
