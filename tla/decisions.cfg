CONSTANTS
  basic = basic
  risky = risky
  Plans = {basic, risky}
  Content <- MCContent
  Requests = {r1, r2}
  Deliveries = {d1}
  CallerRoles = {1, 2}
  Kinds = {"approve", "reject", "select", "callback", "public", "put"}
  PutBodies <- PlanBodies
  MaxAttempts = 3
  MaxRetries = 1
  Faults = {"crash", "reply", "service"}
  AllowDelete = FALSE
SPECIFICATION DecisionsSpec
CHECK_DEADLOCK FALSE
SYMMETRY Symmetry
INVARIANTS
  GovernanceRespected
  ExecutionsBounded
  OneDecisionPerWait
  TicketAgrees
PROPERTIES
  EndedIsFinal
