SPECIFICATION FairSpec
CONSTANTS
  c1 = c1
  c2 = c2
  Calls = {c1, c2}
  None = None
  WaitForReady = WaitForReady
  Ready = Ready
  Progress = Progress
  QueueCap = 1
  BufCap = 3
  FrameCap = 1
  MaxFrames = 2
  MaxNotes = 0
  MaxFaults = 1
CHECK_DEADLOCK FALSE
PROPERTIES Answered ThreadEnds
