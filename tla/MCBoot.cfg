SPECIFICATION FairSpec
CONSTANTS
  Drives <- TwoDrives
  LastChar <- NineLast
  First = 1
  Backup = 1
  MaxFaults = 1
  Arguments <- ArgumentLists
  MaxLost = 1
  Machines <- AllMachines
  Onshutdown <- SaveOnShutdown
  Root <- RootTree
  MaxSize = 7
  MaxBoots = 2
  MaxCrashes = 1
  MaxWrites = 1
INVARIANTS PartitionKept Extended  RootReady MetadataApplied
PROPERTIES DataSafe 
CHECK_DEADLOCK FALSE
