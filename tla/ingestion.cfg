CONSTANTS
  Uploads = {u1, u2}
  Copies = {m1, m2}
  MaxReceives = 3
  MaxFaults = 1
  ScanRows <- SampleRows
  Patches <- SamplePatches
  Savers = {s1, s2}
  MaxChanges = 4
  RecentLimit = 3
  Unset = Unset
SPECIFICATION BothSpec
CHECK_DEADLOCK FALSE
SYMMETRY Symmetry
INVARIANTS
  UploadsSettle
  ViewsAgree
  ViewsAreComplete
