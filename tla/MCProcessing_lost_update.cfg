CONSTANTS
  None = None
  Payment <- HalvesPayment
  Data <- HalvesData
  Order = {"o1"}
  Reference <- OneReference
  AssetAmount <- OneAssetAmount
  Worker = {"w1", "w2"}
  Request = {}
  Hash <- MCHash
  Address <- MCAddress
  Wallet <- MCWallet
  Platform = "platform"
  MaxStalled = 1
  MaxCrashes = 0
  MaxFailures = 0
SPECIFICATION Spec
CHECK_DEADLOCK FALSE
INVARIANT
  ReceivedInFullIsPaid
