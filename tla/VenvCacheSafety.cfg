SPECIFICATION Spec
CONSTANTS
  r1 = r1
  r2 = r2
  r3 = r3
  r4 = r4
  k1 = k1
  k2 = k2
  k3 = k3
  Requests = {r1, r2, r3, r4}
  Keys = {k1, k2, k3}
  Nobody = Nobody
  MaxEnvs = 2
  MaxClock = 3
  MaxFaults = 1
SYMMETRY Interchangeable
CHECK_DEADLOCK FALSE
INVARIANTS
  TypeOK
  RecordedComplete
  InUseComplete
  Bounded
PROPERTY EvictsOldest
