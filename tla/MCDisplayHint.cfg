CONSTANTS
  Hints <- MCHints
  Values <- MCValues
  SpecLists <- MCSpecLists
  MaxInt = 15
  MaxOctets = 1
SPECIFICATION FairSpec
INVARIANTS
  NoPanic
  EachByteOnce
  AsSpecified
PROPERTY
  Termination
