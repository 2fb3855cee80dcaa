CONSTANTS
  None = None
  Payment <- ConcurrentPayment
  Data <- ConcurrentData
  Order <- MCOrder
  Reference <- MCReference
  AssetAmount <- MCAssetAmount
  Worker = {"w1", "w2"}
  Request = {"s1"}
  Hash <- MCHash
  Address <- MCAddress
  Wallet <- MCWallet
  Platform = "platform"
  MaxStalled = 1
  MaxCrashes = 0
  MaxFailures = 1
SPECIFICATION Spec
CHECK_DEADLOCK FALSE
INVARIANTS
  TypeOK
  PaidIsBacked
  PaidIsAnnounced
  CompletedIsCredited
  CompletedIsRecorded
  CompletedIsVerifiable
  CompletedIsReflected
  AnnouncedStaysPaid
