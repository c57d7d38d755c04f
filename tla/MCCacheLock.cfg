SPECIFICATION FairSpec
CONSTANTS
  p1 = p1
  p2 = p2
  n1 = n1
  n2 = n2
  d1 = d1
  d2 = d2
  Procs = {p1, p2}
  Names = {n1}
  Digests = {d1, d2}
CHECK_DEADLOCK FALSE
INVARIANT RootExclusive
PROPERTIES Refines LockGranted
