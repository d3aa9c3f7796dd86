SPECIFICATION MCSpec
CONSTANTS
  VGA_WIDTH = 3
  VGA_HEIGHT = 3
  Characters = {"a", " "}
  RORTHOX_READLINE_ECHO_LIMIT = 6
  LineSizes = {4, 6, 8}
  Formats <- MCFormats
  Banner <- MCBanner
  LineSize = 6
  ArgumentSize = 4
  MaxArguments = 2
  MaxAllocations = 3
  NameSize = 2
  MaxCommands = 2
CHECK_DEADLOCK FALSE
INVARIANTS
  
  RunsWhatWasTyped
PROPERTIES
  ImplementsLineText
