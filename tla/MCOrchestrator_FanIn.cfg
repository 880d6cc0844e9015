SPECIFICATION CancelAfterTrigger
CONSTANTS
  A = A  B = B  C = C  D = D  llm = llm  http = http  NoTask = NoTask
  Tasks <- FanInTasks
  Edges <- FanInEdges
  AgentOf <- FanInAgents
  Critical = {B}
  MaxAttempts = 1  MaxStalls = 1
  MaxRestarts = 0  MaxFaults = 0  MaxEdits = 0
  MayCancel = TRUE  MayAge = FALSE
CHECK_DEADLOCK FALSE
INVARIANTS
  ExecutingTaskIsRunning
  RunningTaskHasJob
PROPERTIES
  TasksSettle
