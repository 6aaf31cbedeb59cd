CONSTANTS
  Messages = {m1}
  Malformed = {}
  MaxReceives = 2
  Devices = {d1, d2}
  Apps = {d1}
  MaxDevices = 2
  MaxToken = 1
  Sessions = {s1, s2}
  Faults = {"error", "failwrite", "crash", "stale", "early"}
SPECIFICATION DeliverySpec
CHECK_DEADLOCK FALSE
SYMMETRY Symmetry
INVARIANTS
  DeliveredInTurn
  CampaignsAreTrue
PROPERTIES
  NoteNeverGoesBack
