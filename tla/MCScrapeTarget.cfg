CONSTANTS
  Inputs <- MCInputs
  Rows <- MCRows
  Mibs <- MCMibs
SPECIFICATION FairSpec
INVARIANTS
  TypeOK
  FilterSemanticsWhenSeparate
  NothingUnwalked
  EachAskedOnce
  NoLostInstance
PROPERTY
  Termination
