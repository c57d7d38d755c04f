SPECIFICATION FairSpec
CONSTANTS
  Arches <- TwoArches
  HostArch = "amd64"
  Contents <- Sources
  Invocations <- Used
  Chunks = 1
  MaxRuns = 2
  MaxEdits = 2
  MaxOthers = 1
  MaxFaults = 1
  
PROPERTIES  BuildEnds
CHECK_DEADLOCK FALSE
