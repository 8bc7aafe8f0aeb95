SPECIFICATION Spec
CONSTANTS
  Logs <- MCLogs
  Keys <- MCKeys
  Starts <- MCStarts
  Damages <- MCDamages
  Submitted <- MCSubmitted
  Bodies <- MCBodies
  Leaves <- MCLeaves
  Issuers <- MCIssuers
  Dates <- MCDates
  MaxIssued = 1
  MaxFaults = 1
  MaxTime = 1
  MaxTree = 8
INVARIANTS SctVerdictsAreExact TreeProofsAreExact
CHECK_DEADLOCK FALSE
