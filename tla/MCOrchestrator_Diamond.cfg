SPECIFICATION FairSpec
CONSTANTS
  A = A  B = B  C = C  D = D  llm = llm  http = http  NoTask = NoTask
  Tasks <- DiamondTasks
  Edges <- DiamondEdges
  AgentOf <- DiamondAgents
  Critical = {B}
  MaxAttempts = 2  MaxStalls = 1
  MaxRestarts = 0  MaxFaults = 0  MaxEdits = 0
  MayCancel = FALSE  MayAge = FALSE
CHECK_DEADLOCK FALSE
INVARIANTS
  DependencyOrder
  NoDuplicateDispatch
  CompletedRunIsQuiescent
  FailedOnlyByLastAttempt
PROPERTIES
  TaskStatesFinal
  RunSettles
  CriticalFailureFailsRun
