SPECIFICATION MCSpec
CONSTANTS
  Files = {1}
  InRoot = {1}
  MaxCluster = 4
  Cells = 2
  Values = {7, 8}
  MaxSize = 3
  Descriptors = {1}
  MaxCrashes = 1
  MaxFailures = 1
INVARIANTS
  WritesAreDurable
  HandlesConsistent
PROPERTIES
  CrashKeepsFiles
