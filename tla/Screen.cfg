SPECIFICATION Spec
CONSTANTS
  MaxChunks = 3
  MaxKeys = 3
  MaxWindows = 2
INVARIANTS OutputInOrder OutputIsWhole TerminalGoes KeysInOrder
CHECK_DEADLOCK FALSE
