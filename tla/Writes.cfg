\* Two servers and a command line on one row, with a write that finds the database locked.
SPECIFICATION Spec
CONSTANTS
  Servers = {server1, server2}
  Clis = {cli}
  Results = {"completed", "failed"}
  MaxBusy = 1
SYMMETRY Symmetry
CHECK_DEADLOCK FALSE
INVARIANTS
  LogIsSequence
  OneAgentHoldsRow
PROPERTIES
  OnlyQueuedIsDequeued
  SettledStays
