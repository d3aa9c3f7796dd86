SPECIFICATION MCSpec
VIEW WithoutQueues
CONSTANTS
  Processes = {1, 2}
  BufferSize = 2
  CounterWord = 6
  Keyboard = {"a", "1", "keypad", "up", "enter2", "lshift", "rshift", "num", "prtsc", "pause", "caps"}
  MaxHeld = 3
INVARIANTS
  InStep
PROPERTIES
  ImplementsKeyQueues
