SPECIFICATION FairSpec
CONSTANTS
  Call = {c1, c2}
  Upload = {d1, d2}
  NoCall = NoCall
  NoUpload = NoUpload
  MaxCount = 2
  MaxBytes = 2
  MaxSize = 2
  Tolerance = 1
  MaxFaults = 1
CHECK_DEADLOCK FALSE
INVARIANTS
  TypeOK
  OvershootBounded
PROPERTIES
  LimitedLapses
