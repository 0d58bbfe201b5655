SPECIFICATION Spec
CONSTANTS
  u1 = u1
  u2 = u2
  u3 = u3
  e1 = e1
  e2 = e2
  n1 = n1
  n2 = n2
  Uuids = {u1, u2, u3}
  Emails = {e1, e2}
  Names = {n1, n2}
  MaxUid = 3
  Calls = {r1, r2}
  LegacyTables <- Tables
  None = None
SYMMETRY Symmetric
INVARIANTS
  UniqueUnlessRaced
PROPERTIES
  DeletesOwnRow
CONSTRAINT
  OneExcuse
