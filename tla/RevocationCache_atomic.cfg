SPECIFICATION Spec
CONSTANTS
  u1 = u1
  u2 = u2
  Threads = {t1, t2}
  Uris = {u1}
  UrlLists <- MCOneUrl
  Backend = "in_memory"
  Unsigned <- MCUnsigned
  Scopes = {"match"}
  Lifetimes = {1, 2}
  Numbering = {TRUE}
  MaxLag = 1
  MaxClock = 2
  MaxCrls = 2
  MaxCalls = 2
SYMMETRY ThreadSymmetry
INVARIANTS OkIsBackedByTheCa DecisionsDoNotGoBack CacheHitsAreCurrent
PROPERTIES NoRollback
CHECK_DEADLOCK FALSE
