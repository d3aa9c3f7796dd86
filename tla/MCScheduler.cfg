SPECIFICATION MCSpec
VIEW WithoutPastDeadlines
CONSTANTS
  MaxProcesses = 3
  TickWord = 8
  Hz = 100
  MaxSleepMs = 5
  Milliseconds = {0, 5, 6}
  Contexts <- TwoContexts
  MaxElapsed = 3
INVARIANTS
  WellLinked
  RightAddressSpace
  KeyboardOwnerLives
  RegistersSurvive
PROPERTIES
  ImplementsTaskRing
  SleepsLongEnough
