CONSTANTS
  Hints <- OctetHints
  Values <- MCValues
  SpecLists <- OctetLists
  MaxInt = 15
  MaxOctets = 1
SPECIFICATION Spec
INVARIANT TrailingSeparatorsSuppressed
