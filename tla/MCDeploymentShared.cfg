CONSTANTS
  Sanitized <- MCSanitized
  Scenarios <- MCSharedScenarios
  MaxLoads = 0
SPECIFICATION Spec
CHECK_DEADLOCK FALSE
INVARIANT EveryTableDecoded
