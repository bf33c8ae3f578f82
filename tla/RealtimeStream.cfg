SPECIFICATION FairSpec
CONSTANTS
  u1 = u1
  u2 = u2
  c1 = c1
  c2 = c2
  c3 = c3
  User = {u1}
  Conn = {c1}
  Owner <- OwnerOf
  NoUser = NoUser
  MaxPerUser = 1
  MaxGlobal = 1
  SendBuffer = 2
  MaxVersion = 4
CHECK_DEADLOCK FALSE
INVARIANTS
  TypeOK
  GapFreeInOrder
  SnapshotPlusEvents
PROPERTIES
  DoomedIsClosed
