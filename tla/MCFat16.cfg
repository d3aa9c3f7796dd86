SPECIFICATION Spec
CONSTANTS
  Files = {1, 2}
  InRoot = {1}
  MaxCluster = 4
  Cells = 1
  Values = {7}
  MaxSize = 3
  Descriptors = {1}
  MaxCrashes = 2
  MaxFailures = 1
INVARIANTS
  ChainsSound
  FatsAgree
  NothingLost
PROPERTIES
  CrashKeepsFiles
