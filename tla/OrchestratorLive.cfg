\* The server alone, without requests for input: liveness.
SPECIFICATION FairSpec
CONSTANTS
  Execs = {e1, e2, e3, e4}
  NoExec = NoExec
  t1 = t1
  t2 = t2
  t3 = t3
  Tasks = {t1, t2, t3}
  NoTask = NoTask
  Polled <- MCPolled
  MaxRetries <- MCMaxRetries
  Rank <- MCRank
  LocalAgents = {agent1}
  RemoteAgents = {}
  Direct = {direct}
  MaxRoots = 2
  MaxAsks = 0
  MaxFaults = 0
CHECK_DEADLOCK FALSE
INVARIANTS
  ScheduledRetryHasTimer
PROPERTIES
  EveryExecutionEnds
