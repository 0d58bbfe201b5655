SPECIFICATION Spec
CONSTANTS
  Services = {"a", "b"}
  PreRules <- Routes
  HookRules <- Hooks
  Fields = {"password", "factor"}
  None = None
INVARIANTS
  FailOpenLeavesTheRequest
CHECK_DEADLOCK FALSE
