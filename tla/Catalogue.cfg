\* One task, two executions, Main and one more thread; ids are used once.
SPECIFICATION Spec
CONSTANTS
  Tasks = {t1}
  Executions = {e1, e2}
  MAIN_THREAD_ID = main
  Threads = {main, h1}
  Projects = {p1}
  None = None
  Free = Free
  Deleted = Deleted
  MIN_TIMEOUT_MS = 1
  MAX_TIMEOUT_MS = 3
  DefaultTimeout = 1
  TimeoutInputs = {0, 1, 4}
SYMMETRY Symmetry
CHECK_DEADLOCK FALSE
INVARIANTS
  ReferencesResolve
  LimitsKept
  
PROPERTIES
  SaveLeavesSwitchAlone
