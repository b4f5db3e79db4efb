CONSTANTS
  Retry1 = Retry1
  Retry2 = Retry2
  Retriers = {Retry1, Retry2}
  Manual = Manual
  Command = Command
  Teardown = Teardown
  Callers <- MCCallers
  Survivors = {Old}
  MaxSockets = 2
  Attempts = 2
  MaxManual = 1
  MaxCommands = 1

SPECIFICATION MCSpec

INVARIANTS
  ConnectedHasWriter
  OneSequence

PROPERTIES
  DropIsReported
  CallersReturn

CHECK_DEADLOCK FALSE
