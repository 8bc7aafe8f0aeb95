SPECIFICATION FairSpec
CONSTANTS
  u1 = u1
  u2 = u2
  Threads = {t1}
  Uris = {u1, u2}
  UrlLists <- MCTwoUrls
  Backend = "dyn"
  Unsigned <- MCUnsigned
  Scopes = {"match", "issuer", "scope"}
  Lifetimes <- MCNoNextUpdate
  Numbering = {TRUE, FALSE}
  MaxLag = 0
  MaxClock = 1
  MaxCrls = 1
  MaxCalls = 2
INVARIANTS FailureTriedEveryUrl
PROPERTIES CallsReturn
CHECK_DEADLOCK FALSE
