SPECIFICATION FairSpec
CONSTANTS
  A = A  B = B  C = C  D = D  llm = llm  http = http  NoTask = NoTask
  Tasks <- ChainTasks
  Edges <- ChainEdges
  AgentOf <- ChainAgents
  Critical = {A}
  MaxAttempts = 2  MaxStalls = 1
  MaxRestarts = 1  MaxFaults = 1  MaxEdits = 1
  MayCancel = TRUE  MayAge = TRUE
CHECK_DEADLOCK FALSE
PROPERTIES
  LateCompletionDiscarded
  StaleRunsAreSwept
