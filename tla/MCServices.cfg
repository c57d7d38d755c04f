SPECIFICATION Spec
CONSTANTS
  s1 = s1
  s2 = s2
  u1 = u1
  u2 = u2
  Services = {s1}
  Users = {u1, u2}
  SystemInit = si
  Nobody = nobody
INVARIANTS  PreparedBeforeRun
 
CHECK_DEADLOCK FALSE
