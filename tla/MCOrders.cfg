CONSTANTS
  Client = {c1, c2}
  Reference = {"r1"}
  Currency = {"usd", "eur"}
  Memo = {m1, m2}
  None = None
  MaxDraws = 2
  MaxCalls = 3
  MaxFailures = 1
  MaxCrashes = 1
SPECIFICATION FairSpec
CHECK_DEADLOCK FALSE
INVARIANTS
  TypeOK
  AccountBelongsToOneOrder
  DepositCarriesOrderMemo
  AnswersAgree
PROPERTIES
  CallsEnd
