CONSTANTS
  None = None
  Payment <- SerialPayment
  Data <- SerialData
  Order <- MCOrder
  Reference <- MCReference
  AssetAmount <- MCAssetAmount
  Worker = {"w1"}
  Request = {}
  Hash <- MCHash
  Address <- MCAddress
  Wallet <- MCWallet
  Platform = "platform"
  MaxStalled = 1
  MaxCrashes = 0
  MaxFailures = 1
SPECIFICATION FairSpec
CHECK_DEADLOCK FALSE
INVARIANTS
  NothingLost
  FullyPaid
PROPERTIES
  ImplementsLedger
