CONSTANTS
  s1 = s1
  s2 = s2
  Sockets <- MCSockets
  Probe = Probe
  Control <- MCControl
  Tasks <- MCTasks
  MaxFrames <- MCFrames
  MaxProbes = 1

SPECIFICATION Spec

INVARIANTS
  GateTellsTruth
  OneStale
  StoppedMeansStopped
  StopIsLast

CHECK_DEADLOCK FALSE
