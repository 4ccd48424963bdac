\* Three processes, one after the other or at once; any may be killed, or find the
\* database busy or unreadable.
SPECIFICATION MigrationsSpec
CONSTANTS
  Procs = {"server", "cli", "mcp"}
  TaskIds = {"t1", "t2"}
  ExecutionIds = {"e1"}
  NULL = NULL
CHECK_DEADLOCK FALSE
INVARIANTS OpenIsCurrent RecordedIsThere
PROPERTIES UpgradesKeepRows
