CONSTANTS
  None = None
  Payment <- CrashPayment
  Data <- CrashData
  Order <- MCOrder
  Reference <- CrashReference
  AssetAmount <- MCAssetAmount
  Worker = {"w1", "w2"}
  Request = {}
  Hash <- MCHash
  Address <- MCAddress
  Wallet <- MCWallet
  Platform = "platform"
  MaxStalled = 1
  MaxCrashes = 2
  MaxFailures = 0
SPECIFICATION FairSpec
CHECK_DEADLOCK FALSE
INVARIANTS
  CreditsBounded
  LonePaymentSettles
PROPERTIES
  AnnouncedIsVerifiable
  JobsSettle
