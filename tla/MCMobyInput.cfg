SPECIFICATION Spec
CONSTANTS
  Images <- AnyImage
  Short <- AnyShort
  KernelImages = {"kernel"}
  Moving = {"app"}
  Labels <- AnyLabel
  Commands <- Again
  TarNames = {"one", "two"}
  MaxBuilds = 2
  MaxMoves = 0
  MaxFaults = 0
INVARIANTS InputTarSame
CHECK_DEADLOCK FALSE
