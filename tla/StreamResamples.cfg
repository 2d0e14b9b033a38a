SPECIFICATION Spec
CONSTANTS
  Target = 3
  Rates = {2, 5, 6, 9, 12}
  Channels = {1, 2}
  Sizes = {1, 4, 6}
  MaxFrames = 14
  Grain = 4
  Rounding = 1
INVARIANTS Resamples
CHECK_DEADLOCK FALSE
