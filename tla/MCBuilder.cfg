SPECIFICATION FairSpec
CONSTANTS
  Procs = {p1, p2}
  Images = {old, new}
  Target = new
  Configs = {toml}
  NoConfig = noconfig
  Platform = platform
  Default = default
  Restarters = {p1}
  MaxIds = 5
  Left <- MCLeft
  MaxDeaths = 1
  Retries = 3
INVARIANTS  SomebodyServed
PROPERTIES ClientFits InUseKept Ends
CHECK_DEADLOCK FALSE
