CONSTANTS
  none = none
  Users = {u1, u2}
  Operators = {u2}
  Tenants = {t1, t2}
  Home <- MCHome
  Turns = {r1, r2}
  Earlier = {e1}
  Deletes = {d1}
  Threads = {h1, h2}
  Settings <- MCSettings
  Asks <- MCAsks
  Budgets = {16}
  FirstCap = 14
  SecondCap = 9
  ToolCap = 5
  Reserve = 2
  Retries = 1
  Faults = {"late", "foreign", "remote", "lost", "commit"}
SPECIFICATION ChatSpec
CHECK_DEADLOCK FALSE
SYMMETRY Symmetry
INVARIANTS
  MessagesInPlace
  DeletedWithThread
  TicketIsOwned
  TurnWithinBudget
