SPECIFICATION Spec
CONSTANTS
  Checker = {c1, c2}
  Admin = {a1, a2}
  RowId = {i1, i2}
  NoRow = NoRow
  Scopes = {{"user"}, {"ip"}, {"cidr"}}
  MaxVersion = 2
  MaxFaults = 1
SYMMETRY Symmetry
CHECK_DEADLOCK FALSE
INVARIANTS
  TypeOK
  BanHolds
  SettledIsRight
