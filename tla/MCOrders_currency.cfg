CONSTANTS
  Client = {c1, c2}
  Reference = {"r1"}
  Currency = {"usd", "eur"}
  Memo = {m1, m2}
  None = None
  MaxDraws = 2
  MaxCalls = 3
  MaxFailures = 0
  MaxCrashes = 0
SPECIFICATION FairSpec
CHECK_DEADLOCK FALSE
PROPERTIES
  ImplementsOrderBook
