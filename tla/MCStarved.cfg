SPECIFICATION MCSpec
CONSTANTS
  MaxProcesses = 4
  TickWord = 2
  Hz = 100
  MaxSleepMs = 5
  Milliseconds = {}
  Contexts = {0}
  MaxElapsed = 0
PROPERTY
  EveryTaskGetsItsTurn
