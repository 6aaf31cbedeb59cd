CONSTANTS
  Documents = {d1}
  Copies = {m1, m2}
  MaxReceives = 3
  MaxRetries = 3
  MaxFaults = 0
SPECIFICATION ReportSpec
CHECK_DEADLOCK FALSE
PROPERTIES
  PollingEnds
