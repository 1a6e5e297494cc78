CONSTANTS
  N = 3
  MaxExternal = 1
SPECIFICATION PairOrUpgradeSpec
INVARIANTS
  PlanFitsEntry
  FailureIsTrue
  SuccessIsWhole
  PlanInvariant
  DependenciesFirst
  NeverStuck
PROPERTIES
  AttemptEnds
