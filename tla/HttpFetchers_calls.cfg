SPECIFICATION FetchersSpec
CONSTANTS
  Threads = {t1, t2}
  Certificates <- MCCerts
  Fetchers <- MCFetchers
  t1 = t1
  t2 = t2
  Revocations <- MCRevocations
  Replies <- MCReplies
  MixUps <- MCMixUps
  Life = 1
  MaxSkew = 1
  MaxClock = 3
  MaxCalls = 1
  BodyLimit = 1
INVARIANTS VerdictsHaveGrounds CacheServesTheCaller
PROPERTIES EveryCallEnds
CHECK_DEADLOCK FALSE
