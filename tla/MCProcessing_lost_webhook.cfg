CONSTANTS
  None = None
  Payment <- WholePayment
  Data <- WholeData
  Order = {"o1"}
  Reference <- OneReference
  AssetAmount <- OneAssetAmount
  Worker = {"w1"}
  Request = {}
  Hash <- MCHash
  Address <- MCAddress
  Wallet <- MCWallet
  Platform = "platform"
  MaxStalled = 1
  MaxCrashes = 1
  MaxFailures = 0
SPECIFICATION Spec
CHECK_DEADLOCK FALSE
INVARIANT
  CompletedTriggersCheckout
