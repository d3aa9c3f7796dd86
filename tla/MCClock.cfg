SPECIFICATION MCSpec
CONSTANTS
  MaxProcesses = 4
  TickWord = 8
  Hz = 100
  MaxSleepMs = 5
  Milliseconds = {5}
  Contexts = {0}
  MaxElapsed = 0
PROPERTIES
  SleepersWake
  RoundRobin
