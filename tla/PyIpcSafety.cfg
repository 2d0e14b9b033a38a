SPECIFICATION Spec
CONSTANTS
  c1 = c1
  c2 = c2
  Calls = {c1, c2}
  None = None
  WaitForReady = WaitForReady
  Ready = Ready
  Progress = Progress
  QueueCap = 2
  BufCap = 2
  FrameCap = 1
  MaxFrames = 2
  MaxNotes = 1
  MaxFaults = 1
SYMMETRY CallSymmetry
CHECK_DEADLOCK FALSE
INVARIANTS
  TypeOK
  ReadyBeforeData
  OwnFrames
  Lossless
  NoLostCall
  BoundedSkew
  Handshake
  TurnsAligned
PROPERTIES
  StragglersForwarded
  ServiceSpec
