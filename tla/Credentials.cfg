SPECIFICATION CredentialSpec
CONSTANTS
  Token = {t1, t2, t3}
  Request = {r1, r2}
  NoToken = NoToken
  NoRequest = NoRequest
  TicketId = {t1, t2, t3}
  SendCall = {r1, r2}
  Nonce = {n1}
  NoTicket = NoTicket
  NoNonce = NoNonce
  DailyCap = 1
  MaxOpenings = 2
SYMMETRY Symmetry
INVARIANTS
  TokenTypeOK
  OnlyOverlapSurvives
  SendTypeOK
  CreationLimits
PROPERTIES
  RefreshRevokesAccess
  SingleUse
