SPECIFICATION Spec
CONSTANTS
  kl = kl
  ka = ka
  kt = kt
  kb = kb
  kr = kr
  kx = kx
  uA = uA
  uB = uB
  uR = uR
  Cert <- MCCert
  Uri <- MCUri
  Serves <- MCServes
  Calls <- MCCalls
  MaxDepth = 2
  Budget = 3
  AIA_MAX_DEPTH = 2
INVARIANTS AcceptedChainIsChecked ResponderSpeaksForIssuer UrisFetchedOnce NothingOverlooked
