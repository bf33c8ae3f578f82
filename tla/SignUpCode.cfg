SPECIFICATION Spec
CONSTANTS
  Google = {g1}
  Name = {n1}
  Ticket = {t1}
  Code = {c1}
  Session = {s1}
  Exchange = {x, y}
  Call = {k}
  None = None
  Orphan = Orphan
  MaxFaults = 0
SYMMETRY Symmetry
CHECK_DEADLOCK FALSE
INVARIANT
  CodeSingleUse
