SPECIFICATION Spec
CONSTANTS
  CaseFold <- MCCaseFold
  Accepts <- MCAccepts
  Registry <- MCRegistry
  Profiles <- MCProfiles
  Sources <- MCSources
  Offered <- MCOffered
  Risks <- MCRisks
  Chains <- MCChains
  Times = {0, 4, 8}
  Results = {"Pass", "Error", "Fatal"}
  Days <- MCDays
  MaxDeviations = 2
INVARIANTS
  DeviationsAreExact
  NothingVanishes
  ProfilesResolveExactly
  DocumentsAreExact
CHECK_DEADLOCK FALSE
