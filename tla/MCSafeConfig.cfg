CONSTANTS
  Readers = {r1}
  Posters = {p1, p2}
  MaxEdits = 1
  MaxModules = 1
SPECIFICATION FairSpec
INVARIANTS
  TypeOK
  SnapshotConsistent
  ReloadIsFresh
PROPERTIES
  HandlersReturn
  SighupHonoured
  ImplementsRegister
