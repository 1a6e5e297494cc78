CONSTANTS
  Invocation = {w1, w2}
  MaxCommands = 1
  None = None
  Torn = Torn
SPECIFICATION FairSpec
PROPERTY StaleWorkspaceRemoved
