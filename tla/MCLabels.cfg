CONSTANT Inputs <- MCInputs
SPECIFICATION Spec
INVARIANTS
  TypeOK
  RowDecoded
  LookupsFollowed
  NoDuplicateLabelButSets
  SeriesDistinct
