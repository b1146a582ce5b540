CONSTANTS
  Workers = {w1, w2}
  NumModules = 3
  MaxRequests = 2
  Retries <- MCRetries
  NonIncreasing <- MCNonIncreasing
  Unconnected <- MCUnconnected
SPECIFICATION FairSpec
INVARIANTS
  TypeOK
  NoSilentPartial
  OneOutcomePerModule
  PacketsAttributed
  RetryBudget
  UnconnectedHonoured
  InflightExact
  CleanReturn
PROPERTIES
  Termination
  ImplementsScrapeRequest
