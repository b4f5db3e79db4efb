CONSTANTS
  s1 = s1
  s2 = s2
  Sockets <- MCSockets
  Probe = Probe
  Control <- MCControl
  Tasks <- MCTasks
  MaxFrames <- MCFewFrames
  MaxProbes = 1

SPECIFICATION FairSpec

PROPERTIES
  DeadMan
  ReleaseStops

CHECK_DEADLOCK FALSE
