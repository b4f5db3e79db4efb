CONSTANTS
  Conns = {c1, c2}
  None = None
  Frames <- MCFrames
  MaxFrameLen = 2
  ScanTime = 3
  ConnectTime = 2
  WdtTimeout = 6
  IdleTimeout = 1
  ShortWrites = FALSE
  MaxBytes = 6
  MaxNotes = 0

SPECIFICATION Spec

SYMMETRY MCSymmetry

INVARIANTS
  TypeOK
  LosslessInOrder
  NothingLost
  OwnedLink

PROPERTIES
  WritesOnOwnLink
  ImplementsFramePipe

CHECK_DEADLOCK FALSE
