\* An execution with and one without attempts left.
SPECIFICATION Spec
CONSTANTS
  Execs = {first, last}
  LastAttempts = {last}
  Timeout = 3
  Interval = 2
  MaxTime = 9
  MaxFaults = 1
CHECK_DEADLOCK FALSE
INVARIANTS
  OverdueIsFound
PROPERTIES
  PunctualIsLeftAlone
