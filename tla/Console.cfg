\* One task, one row and its retry, the statuses the page's buttons tell apart, two requests
\* under way; one write is late.
SPECIFICATION ConsoleSpec
CONSTANTS
  Jobs = {t1}
  Statuses = {"queued", "assigned", "running", "completed", "failed", "cancelled"}
  MaxSubmits = 1
  MaxRows = 2
  MaxLate = 1
  ListLimit = 2
  Requests = {r1, r2}
CHECK_DEADLOCK FALSE
INVARIANTS
  CancelTellsTheTruth
PROPERTIES
  ListConverges
