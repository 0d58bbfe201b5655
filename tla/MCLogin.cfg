SPECIFICATION Spec
CONSTANTS
  Users = {u1}
  Tickets = {t1}
  Flows = {f1}
  Creds = {c1, c2}
  Verified = {u1}
  Calls = {r1, r2}
  MaxPairs = 2
  None = None
SYMMETRY Symmetric
INVARIANTS
  TicketGoneBeforeTokens
  OnePairPerTicket
  SwitchHasCredential
  PasswordAloneOnlyWithoutFactors
