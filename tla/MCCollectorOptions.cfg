CONSTANTS
  Workers = {w1}
  NumModules = 3
  MaxRequests = 1
  Retries <- MCRetries
  NonIncreasing <- MCNonIncreasing
  Unconnected <- MCUnconnected
SPECIFICATION Spec
INVARIANT OwnWalkOptions
