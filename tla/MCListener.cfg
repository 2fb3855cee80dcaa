CONSTANTS
  Last = 3
  Payments <- TrackingPayments
  Address <- MCAddress
  Sender <- TrackingSender
  Receiver <- TrackingReceiver
  Platform <- MCPlatform
  UserWallet <- MCUserWallet
  RefreshAfter = 1
  Retained = 1
  Concurrency = 2
  MaxInFlight = 2
  MaxClock = 2
  MaxCrashes = 1
  MaxFailures = 1
SPECIFICATION FairSpec
CHECK_DEADLOCK FALSE
INVARIANTS
  TypeOK
  OnlyNewWalletsAreMissed
  NotBehindStart
  SkippedOnlyByFault
  RequeuedOnlyIfForgotten
PROPERTIES
  EventuallyQueued
