CONSTANTS
  N = 3
  MaxExternal = 0
SPECIFICATION UpgradeSpec
INVARIANT WholeClosureFirst
