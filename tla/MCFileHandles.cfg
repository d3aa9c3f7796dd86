SPECIFICATION Spec
CONSTANTS
  Processes = {p1, p2}
  MaxOpen = 2
  MaxDescriptors = 2
  Programs = {{"file", "dir", "under"}, {"nested", "readonly"}, {"file", "nested"}}
  Directories = {"dir"}
  ReadOnly = {"readonly"}
  Nested = {"nested", "under"}
  UnderFile = {"under"}
SYMMETRY Symmetry
VIEW WithoutPastCalls
INVARIANTS
  NothingLeaks
  ListedWhenPublishing
PROPERTIES
  ImplementsFileTable
