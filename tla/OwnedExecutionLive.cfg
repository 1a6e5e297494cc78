CONSTANTS
  Invocation = {w1, w2}
  MaxCommands = 2
  None = None
  Torn = Torn
SPECIFICATION FairSpec
PROPERTIES
  ImplementsOwnership
  EveryInvocationEnds
  RunsCommandsInTurn
