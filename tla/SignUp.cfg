SPECIFICATION Spec
CONSTANTS
  Google = {g1, g2}
  Name = {n1, n2}
  Ticket = {t1, t2}
  Code = {c1, c2}
  Session = {s1, s2}
  Exchange = {x}
  Call = {j, k}
  None = None
  Orphan = Orphan
  MaxFaults = 1
SYMMETRY Symmetry
CHECK_DEADLOCK FALSE
INVARIANTS
  TypeOK
  OneSessionPerTicket
PROPERTIES
  AnsweredIsFinal
  ReleasedByHolder
