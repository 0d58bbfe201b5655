SPECIFICATION Spec
CONSTANTS
  Services = {"a", "b"}
  PreRules <- Routes
  HookRules <- Hooks
  Fields = {"password", "factor"}
  None = None
INVARIANTS
  OneAnswer
  StrictestLevelDecides
  RelayNeverFallsBack
  HooksInOrder
  DenialIsFinal
  PatchesAreAllowed
PROPERTIES
  EveryRequestIsAnswered
CHECK_DEADLOCK FALSE
