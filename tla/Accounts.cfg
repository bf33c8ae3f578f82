SPECIFICATION Spec
CONSTANTS
  Call = {c1, c2}
  Video = {v1}
  Name = {n1, n2}
  NoName = NoName
  Topics = {"sessions", "profile", "media"}
  MaxFaults = 1
SYMMETRY Symmetry
CHECK_DEADLOCK FALSE
INVARIANTS
  TypeOK
  DeletedIsSignedOut
  ProfileFollows
  PurgeIsRight
