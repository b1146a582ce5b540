CONSTANTS
  Readers = {r1}
  Posters = {p1}
  MaxEdits = 1
  MaxModules = 1
SPECIFICATION Spec
INVARIANT
  NeverIncomplete
