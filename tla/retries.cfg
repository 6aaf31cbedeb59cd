CONSTANTS
  basic = basic
  risky = risky
  Plans = {risky}
  Content <- MCContent
  Requests = {r1}
  Deliveries = {d1, d2}
  CallerRoles = {1, 2}
  Kinds = {"approve", "reject", "select", "custom", "put", "callback", "callbackNo", "public", "publicNo"}
  PutBodies <- AllBodies
  MaxAttempts = 3
  MaxRetries = 1
  Faults = {"crash", "service", "persist", "stale"}
  AllowDelete = TRUE
SPECIFICATION FairSpec
CHECK_DEADLOCK FALSE
PROPERTIES
  ExecutionEnds
  DeletionIsPermanent
