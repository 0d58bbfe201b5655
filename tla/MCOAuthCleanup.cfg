SPECIFICATION FairSpec
CONSTANTS
  Users = {u1}
  Clients = {web, game}
  FirstParty = web
  Codes = {c1}
  Pairs = {p1, p2}
  Calls = {r1}
  CodeTTL = 1
  AccessTTL = 0
  RefreshTTL = 1
  MaxTime = 2
  None = None
PROPERTIES
  GarbageIsCollected
  CleanupKeepsClaimableCodes
