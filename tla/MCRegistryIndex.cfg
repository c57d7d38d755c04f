SPECIFICATION Spec
CONSTANTS
  h1 = h1
  h2 = h2
  amd = amd
  amd2 = amd2
  arm = arm
  attAmd = attAmd
  attAmd2 = attAmd2
  attArm = attArm
  Unknown = Unknown
  Absent = Absent
  Digests = {amd, amd2, arm, attAmd, attAmd2, attArm}
  Hosts = {h1, h2}
  PlatOf <- MCPlatOf
  RefOf <- MCRefOf
  Searched <- MCSearched
  Builds <- MCBuilds
INVARIANT IndexSound
PROPERTY PushWins
