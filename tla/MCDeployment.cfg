CONSTANTS
  Sanitized <- MCSanitized
  Scenarios <- MCScenarios
  MaxLoads = 2
SPECIFICATION Spec
CHECK_DEADLOCK FALSE
INVARIANTS
  TypeOK
  NeedCovered
  LookupsWalked
  FiltersRestrict
  ModulesApart
  TablesDecoded
  LoadedAsWritten
  ServedAsConfigured
  AuthUsable
