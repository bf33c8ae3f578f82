SPECIFICATION FairSpec
CONSTANTS
  Call = {c1, c2}
  Reader = {r1}
  Reporter = {}
  Liker = {l1}
  MaxReports = 0
  Threshold = 1
  Resolution = {"resolved"}
  Meta = {m1, m2}
  NoUser = NoUser
  NoReport = NoReport
INVARIANTS
  LikesCounted
PROPERTIES
  PagesCatchUp
