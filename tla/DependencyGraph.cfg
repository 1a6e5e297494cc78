CONSTANTS
  Artifact = {a1, a2, a3}
  Root = Root
  Lists <- ShortLists
SPECIFICATION FairSpec
INVARIANTS
  VerdictIsExact
  AcceptedIsRanked
  SearchInvariant
PROPERTY SearchEnds
