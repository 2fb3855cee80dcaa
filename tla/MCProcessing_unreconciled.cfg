CONSTANTS
  None = None
  Payment <- BridgePayment
  Data <- BridgeData
  Order = {"o1"}
  Reference <- OneReference
  AssetAmount <- OneAssetAmount
  Worker = {"w1"}
  Request = {}
  Hash <- MCHash
  Address <- BridgeAddress
  Wallet = {}
  Platform = "platform"
  MaxStalled = 1
  MaxCrashes = 0
  MaxFailures = 0
SPECIFICATION Spec
CHECK_DEADLOCK FALSE
INVARIANT
  DepositIsReconciled
