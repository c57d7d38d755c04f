SPECIFICATION Spec
CONSTANTS
  p1 = p1
  p2 = p2
  pkg = pkg
  rel = rel
  base = base
  nameA = nameA
  nameB = nameB
  amd = amd
  arm = arm
  bas = bas
  l0 = l0
  l1 = l1
  l2 = l2
  Names = {pkg, rel, base, nameA, nameB}
  Images = {amd, arm}
  Layers = {l0, l1, l2}
  LayersOf <- MCLayersOf
  PlatOf <- MCPlatOf
  ArchName <- MCArchName
  Remote <- MCRemote
  Package = pkg
  Release = rel
  NoImage = NoImage
  Procs = {p1, p2}
  Uses <- MCUses
  MaxDeaths = 1
INVARIANTS RootPresent IndexKeepsPlatforms
PROPERTY PullHealsLayers
CHECK_DEADLOCK FALSE
