SPECIFICATION FairSpec
CONSTANTS
  L = L
  A = A
  B = B
  R = R
  S = S
  kl = kl
  ka = ka
  ka2 = ka2
  kb = kb
  kn = kn
  kr = kr
  ks = ks
  NoKeyId = NoKeyId
  MaxPool = 3
  Depth = 2
  Budget = 5
  Name <- MCName
  Key <- MCKey
  MaxDepths <- MCMaxDepths
  Budgets <- MCBudgets
  Targets <- MCTargets
  Pools <- MCPools
  AnchorSets <- MCAnchorSets
  ValidatePath <- MCValidatePath
INVARIANT YieldsAreGoodChains
INVARIANT BudgetCountsFrames
INVARIANT YieldsFollowTiers
INVARIANT FirstValidVerdict
PROPERTY EnumeratesTheChains
PROPERTY EveryCallReturns
