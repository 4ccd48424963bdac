\* Two messages, two calls of one tool, a thread to switch to.
SPECIFICATION Spec
CONSTANTS
  Streams = {s1, s2}
  Threads = {thread1}
  Calls = {c1, c2}
  Tools = {tool}
  Tool <- MCTool
  None = None
SYMMETRY Symmetry
CHECK_DEADLOCK FALSE
INVARIANTS
  NothingRunsUnasked
  HistoryIsOfThread
PROPERTIES
  SettledOnce
