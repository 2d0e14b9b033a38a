SPECIFICATION Spec
CONSTANTS
  r1 = r1
  r2 = r2
  k1 = k1
  k2 = k2
  Requests = {r1, r2}
  Keys = {k1, k2}
  Nobody = Nobody
  MaxEnvs = 1
  MaxClock = 1
  MaxFaults = 0
SYMMETRY Interchangeable
CHECK_DEADLOCK FALSE
PROPERTY HandsOutComplete
