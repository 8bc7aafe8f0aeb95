SPECIFICATION Spec
CONSTANTS
  Threads = {"batch", "single"}
  good = good
  other = other
  broken = broken
  odd = odd
  None = None
  Certs <- MCCerts
  Garbage = {broken}
  Report <- MCReport
  Catalog <- MCCatalog
  Calls <- MCCalls
  Noise = {1}
  PipeCap = 1
  MaxCalls = 1
CHECK_DEADLOCK FALSE
INVARIANTS ResultsAreExact ChildrenAreSupervised
PROPERTY BridgeCallsEnd
