SPECIFICATION Spec
CONSTANTS
  Call = {c1, c2}
  Reader = {}
  Reporter = {u1, u2}
  Liker = {}
  MaxReports = 2
  Threshold = 2
  Resolution = {"resolved"}
  Meta = {m1}
  NoUser = NoUser
  NoReport = NoReport
SYMMETRY Symmetry
CHECK_DEADLOCK FALSE
INVARIANTS
  TypeOK
  SevereAreCounted
PROPERTIES
  DecisionsStay
