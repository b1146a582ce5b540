CONSTANTS
  Inputs <- MCInputs
  Rows <- MCRows
  Mibs <- MCMibs
SPECIFICATION Spec
INVARIANT
  FilterSemantics
