\* Two messages of one page, replies of three steps, one change of thread.
SPECIFICATION Spec
CONSTANTS
  Tools = {"tool"}
  MaxSends = 2
  MaxSteps <- MCMaxSteps
  MaxEvents = 1
  MaxSwitches = 1
CHECK_DEADLOCK FALSE
INVARIANTS
  LiveIsStored
PROPERTIES
  FinishedIsFinal
  SpinnersStop
