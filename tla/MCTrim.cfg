SPECIFICATION FairSpec
CONSTANTS
  MaxEvents = 2
  MaxFaults = 1
PROPERTY RunsAfterCall
CHECK_DEADLOCK FALSE
