\* Every handler, every fault, all kinds of runner; the refinement of TaskRun.
SPECIFICATION Spec
CONSTANTS
  Execs = {e1, e2, e3, e4}
  NoExec = NoExec
  t1 = t1
  t2 = t2
  t3 = t3
  Tasks = {t1}
  NoTask = NoTask
  Polled <- MCPolled
  MaxRetries <- MCMaxRetries
  Rank <- MCRank
  LocalAgents = {agent1, agent2}
  RemoteAgents = {remote}
  Direct = {direct}
  MaxRoots = 2
  MaxAsks = 2
  MaxFaults = 1
SYMMETRY Symmetry
CHECK_DEADLOCK FALSE
INVARIANTS
  TypeOK
  OneRunnerPerExecution
  AttemptsFollowEachOther
  WaitingHasRequest
PROPERTIES
  SettledIsFinal
  ImplementsTaskRun
