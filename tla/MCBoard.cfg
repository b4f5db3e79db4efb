CONSTANTS
  MaxAttempts = 3
  Blocks = 6
  CommandBlocks = 1
  t1 = t1
  t2 = t2
  t3 = t3
  t4 = t4
  TxTasks <- MCTasks
  Tcpip = t1

SPECIFICATION BoardSpec

INVARIANTS
  UpMeansServing
  OnAirMeansUplink
  WithinThePool
  PauseEnds
  ToldTheTruth

PROPERTY FollowsTheLink

CHECK_DEADLOCK FALSE
