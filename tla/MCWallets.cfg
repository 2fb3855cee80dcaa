CONSTANTS
  User = {u1}
  Account = {a1, a2}
  Platform = platform
  Reference = {r1}
  Amount = {1, 2}
  None = None
  CreateCall = {create1, create2}
  FundCall = {fund1}
  SyncCall = {sync1}
  PayCall = {pay1, pay2}
  FundAmount = 2
  Treasury = 2
  MaxFaults = 1
SPECIFICATION Spec
CHECK_DEADLOCK FALSE
INVARIANTS
  TypeOK
  SecondWalletOnlyByRace
  PaidTwiceOnlyAfterLanding
  LandedMoneyFindsItsOrder
  FailureMovesNothing
