CONSTANTS
  Pid = {p1, p2, p3, p4}
  MaxAttempts = 3
SPECIFICATION FairSpec
INVARIANTS
  InactiveMeansStopped
  QuietIsDecided
  ScanInvariant
PROPERTY Decides
