CONSTANTS
  Webhook = {"w1", "w2"}
  Attempts = 2
  MaxStalled = 1
  None = None
  MaxCrashes = 2
  MaxFailures = 3
SPECIFICATION FairSpec
CHECK_DEADLOCK FALSE
INVARIANTS
  TypeOK
  SentIsReceived
  CompletedIsSent
  TriesBounded
PROPERTIES
  WebhooksSettle
  EventuallyReceived
