CONSTANTS
  Conns = {c1, c2}
  None = None
  Frames <- MCOneFrame
  MaxFrameLen = 1
  ScanTime = 3
  ConnectTime = 2
  WdtTimeout = 6
  IdleTimeout = 1
  ShortWrites = TRUE
  MaxBytes = 3
  MaxNotes = 1

SPECIFICATION Spec

INVARIANT ReturnFramesWhole

CHECK_DEADLOCK FALSE
