SPECIFICATION Spec
CONSTANTS
  Images <- AnyImage
  Short <- AnyShort
  KernelImages = {"kernel"}
  Moving = {"app"}
  Labels <- AnyLabel
  Commands <- All
  TarNames = {"one", "two"}
  MaxBuilds = 2
  MaxMoves = 2
  MaxFaults = 1
INVARIANTS Faithful  InputWhole OutputsMade
CHECK_DEADLOCK FALSE
