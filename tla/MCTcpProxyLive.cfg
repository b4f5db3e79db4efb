CONSTANTS
  Conns = {c1, c2}
  None = None
  Frames <- MCOneFrame
  MaxFrameLen = 1
  ScanTime = 3
  ConnectTime = 2
  WdtTimeout = 6
  IdleTimeout = 1
  ShortWrites = FALSE
  MaxBytes = 3
  MaxNotes = 2

SPECIFICATION FairSpec

INVARIANTS
  NotifyOrder
  AtMostOneStale

PROPERTIES
  SafetyStop
  DeadLinkDropsClient

CHECK_DEADLOCK FALSE
