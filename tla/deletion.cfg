CONSTANTS
  Documents = {d1}
  Copies = {m1}
  MaxReceives = 2
  MaxRetries = 0
  MaxFaults = 0
  Deletes = {r1, r2}
  MaxTroubles = 2
  MaxUsers = 3
  MaxTenants = 2
  Requests = {q1, q2}
  MaxTokens = 1
  Null = Null
SPECIFICATION TenantsSpec
CHECK_DEADLOCK FALSE
SYMMETRY Symmetry
INVARIANTS
  DeletionIsSound
  SidesNeverCross
PROPERTIES
  ChangesStayInside
