SPECIFICATION Spec
CONSTANTS
  MaxLogFiles = 2
  MaxLogSize = 2
  MaxLine = 2
  MaxMessages = 8
  MaxFaults = 2
INVARIANTS InOrder OldestGoFirst SizeBounded
CHECK_DEADLOCK FALSE
