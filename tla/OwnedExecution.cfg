CONSTANTS
  Invocation = {w1, w2, w3}
  MaxCommands = 1
  None = None
  Torn = Torn
SPECIFICATION Spec
SYMMETRY Symmetry
INVARIANTS
  LaunchedIsRecorded
  PlansOnQuietPrefix
  WorkspaceRetained
  LiveWorkspaceKept
  SettledOutcome
  OwnershipInvariant
