CONSTANTS
  Messages = {m1, m2, m3}
  Malformed = {m3}
  MaxReceives = 2
  Devices = {d1, d2}
  Apps = {}
  MaxDevices = 1
  MaxToken = 1
  Sessions = {}
  Faults = {"error"}
SPECIFICATION DeliveryFairSpec
CHECK_DEADLOCK FALSE
INVARIANTS
  NothingLost
PROPERTIES
  EventSettles
