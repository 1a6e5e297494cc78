CONSTANTS
  Invocation = {w1, w2, w3}
  None = None
SPECIFICATION RecordSpec
SYMMETRY Symmetry
INVARIANTS
  RecordOutlivesPower
  FinalNameIsWhole
  CleanupIsNotForgotten
