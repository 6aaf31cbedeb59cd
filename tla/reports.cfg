CONSTANTS
  Documents = {d1}
  Copies = {m1, m2}
  MaxReceives = 3
  MaxRetries = 3
  MaxFaults = 4
  Calls = {w1, w2}
  Slots = 1
  Names <- MCNames
  Scans <- MCScans
  TicketTexts = {"ticket"}
  ReadLimit = 2
  SampleLimit = 1
  PreviousLimit = 1
  PendingLimit = 2
  CompactLimit = 1
  DomainBudget = 3
  SampleBudget = 1
  Invented = Invented
  Tainted = Tainted
  Nothing = Nothing
SPECIFICATION JobsSpec
CHECK_DEADLOCK FALSE
INVARIANTS
  NotifiedOnce
  ReadyIsTrue
  NotForgotten
  WorkersAreBounded
  ReportTellsEvidence
PROPERTIES
  RequestEnds
  CallsEnd
