SPECIFICATION Spec
CONSTANTS
  Slots = {1, 2}
  PageSize = 2
  StackSize = 4
  WindowPages = 3
  HeapPages = 21
  MaxAllocations = 2
  MaxArguments = 1
  Tables = 1
  SearchPaths = 2
  Programs <- AllPrograms
  Sizes = {3, 7}
  MaxLoads = 3
INVARIANTS
  
  OnlyOwnPages
  
