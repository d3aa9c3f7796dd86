SPECIFICATION MCSpec
CONSTANTS
  Total = 4
  BlockSize = 2
  Saddr = 4
  Word = 16
  Modulus = 16
  PageSize = 2
  Start = 4
  Limit = 12
  HeaderSize = 2
  PhdrSize = 2
  Files <- MCFiles
  PAGING_PAGE_SIZE = 2
  UINT32_MAX = 7
  BufferSize = 5
  Layouts <- MCLayouts
CHECK_DEADLOCK FALSE
INVARIANTS
  WholeRuns
  LoadsInBounds
  LoadsApart
  CopiesExact
  StringsArePrefixes
PROPERTIES
  ImplementsHeapSpec
