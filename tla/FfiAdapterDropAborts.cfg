SPECIFICATION Spec
CONSTANTS
  c1 = c1
  c2 = c2
  Calls = {c1, c2}
  Nothing = Nothing
  ReplyCap = 1
  MaxValues = 1
  MaxFaults = 0
CHECK_DEADLOCK FALSE
INVARIANT DropAborts
