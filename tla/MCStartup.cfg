SPECIFICATION FairSpec
CONSTANTS
  p1 = p1
  p2 = p2
  s1 = s1
  s2 = s2
  Procs = {p1, p2}
  MaxStarts = 2
  Torn = Torn
  None = None
  Services = {s1, s2}
  ServiceClients <- Listed
  CarriesSuper = {s2}
  PublicId = "hrpauth-webui"
  SuperId = "hrpauth-internal-super"
  Worlds <- SomeWorlds
  MaxRetries = 1
  NextRound = {p2}
INVARIANTS
  SettingsSurvive
  OriginalIsKept
  SecretsStay
  CredentialsWork
  SuperSecretStays
  RepairedUnlessRaced
PROPERTIES
  CallbackRuns
CHECK_DEADLOCK FALSE
