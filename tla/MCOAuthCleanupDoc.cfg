SPECIFICATION Spec
CONSTANTS
  Users = {u1}
  Clients = {web, game}
  FirstParty = web
  Codes = {c1}
  Pairs = {p1}
  Calls = {r1}
  CodeTTL = 1
  AccessTTL = 1
  RefreshTTL = 3
  MaxTime = 2
  None = None
PROPERTIES
  CleanupKeepsClaimableRefreshTokens
