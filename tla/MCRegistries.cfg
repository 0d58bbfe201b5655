SPECIFICATION Spec
CONSTANTS
  Services = {a, b}
  WithColon = {b}
  Checked = a
  Dests = {d1}
  Sources = {x1}
  RuleSets = {g1}
  Keys = {k1, k2}
  MaxPending = 1
  None = None
INVARIANTS
  RevokedKeyStaysRevoked
PROPERTIES
  RestartKeepsRegistrations
  RestartRevivesNoRule
CONSTRAINT
  RedisKept
SYMMETRY
  Symmetry
