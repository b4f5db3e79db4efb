CONSTANTS
  Retry1 = Retry1
  Retry2 = Retry2
  Retriers = {Retry1, Retry2}
  Manual = Manual
  Command = Command
  Teardown = Teardown
  Callers <- MCCallers
  Survivors = {Old}
  MaxSockets = 2
  Attempts = 2
  MaxManual = 0
  MaxCommands = 0

SPECIFICATION MCSpec

INVARIANT TornDownStaysDown

CHECK_DEADLOCK FALSE
