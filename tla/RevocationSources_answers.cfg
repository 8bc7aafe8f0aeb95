SPECIFICATION Spec
CONSTANTS
  Subjects <- MCSubjects
  CrlProfiles <- MCCrlProfiles
  DeltaProfiles <- MCDeltaProfiles
  OcspProfiles <- MCOcspProfiles
  Certs <- MCCerts
  Issuers <- MCIssuers
  CrlIssuers <- MCCrlIssuers
  Bundles <- MCBundles
  Authority <- MCAuthority
  MaxLag = 1
  MaxTime = 3
INVARIANTS CrlAnswersTheLedger OcspAnswersTheLedger SignersAreRight
CHECK_DEADLOCK FALSE
