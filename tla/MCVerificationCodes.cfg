SPECIFICATION Spec
CONSTANTS
  Emails = {e1, e2}
  Long = {l1}
  Short = {s1}
  Captchas = {k1}
  Calls = {r1, r2}
  None = None
SYMMETRY Symmetric
INVARIANTS
  LatestMailWorks
  BlockingCodeWasSent
  AcceptedOnce
  VerifiedMeansProven
