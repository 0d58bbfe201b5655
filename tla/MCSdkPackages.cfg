SPECIFICATION FairSpec
CONSTANTS
  n1 = n1
  n2 = n2
  Names = {n1, n2}
  Archives <- SomeArchives
  Tmps = {t1, t2}
  Calls = {c1, c2}
  MaxPackages = 2
  Base = Base
  Torn = Torn
  None = None
INVARIANTS
  StoredIsWhole
  
  LimitHolds
  NoResidue
  ListShowsStored
PROPERTIES
  EveryCallReturns
