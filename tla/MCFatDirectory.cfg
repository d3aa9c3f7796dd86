SPECIFICATION MCSpec
CONSTANTS
  NameSize = 2
  ExtSize = 1
  MaxPath = 8
  Plain = {"a", "A", "b", "B"}
  Lower <- SmallLetters
  RootEntries = 4
  SlotsPerCluster = 2
  cluster_limit = 3
  Volumes <- SmallVolumes
  Paths <- Opened
  MaxOpens = 2
INVARIANTS
  
  
  NamesRoundTrip
PROPERTIES
  LongNamesStay
