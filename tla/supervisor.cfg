CONSTANTS
  MaxRecoveries = 2
  MaxJobs = 1
  Backlog = 1
  HttpRequests = {h1, h2}
  Workers = 1
SPECIFICATION ServersSpec
CHECK_DEADLOCK FALSE
INVARIANTS
  HandoverIsSafe
  ServerIsBounded
PROPERTIES
  NoRearm
  LossIsHandled
  RequestsEnd
