SPECIFICATION Spec
CONSTANTS
  Users = {u1, u2}
  Clients = {web, game}
  FirstParty = web
  Codes = {c1}
  Pairs = {p1, p2}
  Calls = {r1, r2}
  CodeTTL = 1
  AccessTTL = 0
  RefreshTTL = 1
  MaxTime = 1
  None = None
SYMMETRY Symmetric
INVARIANTS
  GrantYieldsOnePair
  ExchangedGrantIsSpent
  PairMatchesGrant
PROPERTIES
  ImplementsLedger
  DeadTokensStayDead
