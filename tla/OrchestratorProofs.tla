------------------------- MODULE OrchestratorProofs -------------------------
(***************************************************************************)
(* IndInv is an inductive invariant of the Orchestrator, for every         *)
(* definition, agent assignment and bound: type correctness, the order of  *)
(* dispatch and the one-job-at-a-time discipline of the agents follow.     *)
(*                                                                         *)
(* The second half is about runs that no crash, shutdown or rejected call  *)
(* has disturbed: nobody forgets a RUNNING task, and a definition with one *)
(* first node is dispatched once, completed only when it is quiescent, and *)
(* none of its finished rows is written again.                             *)
(***************************************************************************)
EXTENDS Orchestrator, TLAPS, FiniteSetTheorems

\* The dependencies a row is given are nodes of the definition.
LEMMA DepsInTasks == \A t \in Tasks : Deps(t) \subseteq Tasks
  BY DEF Deps

\* A first node is a node and has nothing to wait for.
LEMMA FirstTasksReady == \A t \in FirstTasks : t \in Tasks /\ Deps(t) = {}
  BY DEF FirstTasks, Deps

\* Every job belongs to a task.
LEMMA JobTask == \A j \in Jobs : j[1] \in Tasks
  BY DEF Jobs

\* A task has the two job ids the code may enqueue it under.
LEMMA TaskJobs == \A t \in Tasks : <<t, "auto">> \in Jobs /\ <<t, "task">> \in Jobs
  BY DEF Jobs

\* What the processor of an agent may do with its job.
WorkerAction(j) == WorkerStep(j) \/ ProcessorFails(j)

USE DEF dbVars, queueVars, handlerVars, requestVars, envVars

\* IndInv holds before the run is triggered.
LEMMA InitIndInv == Init => IndInv
<1> SUFFICES ASSUME Init PROVE IndInv
  OBVIOUS
<1> USE OrchestratorAssumption DEF Init
<1>1. TypeOK
  <2>1. attemptsMade \in [Jobs -> 0 .. MaxAttempts] /\ stalls \in [Jobs -> 0 .. MaxStalls]
    OBVIOUS
  <2>2. 0 \in 0 .. MaxRestarts /\ 0 \in 0 .. MaxFaults /\ 0 \in 0 .. MaxEdits
    OBVIOUS
  <2>3. handler \in [Jobs -> HandlerPC] /\ task \in [Tasks -> TaskStatus]
    BY DEF HandlerPC, TaskStatus
  <2> QED
    BY <2>1, <2>2, <2>3 DEF TypeOK, RunStatus
<1>2. TriggerInv /\ LinkInv
  BY DEF TriggerInv, LinkInv, HasJob
<1>3. JobInv
  BY DEF JobInv, HasJob
<1>4. AgentInv
  BY DEF AgentInv
<1>5. ReadyInv
  BY DEF ReadyInv, HasJob, Started
<1>6. CompletedInv /\ ExecutingTaskIsRunning /\ FailedOnlyByLastAttempt
  BY JobTask DEF CompletedInv, ExecutingTaskIsRunning, FailedOnlyByLastAttempt
<1> QED
  BY <1>1, <1>2, <1>3, <1>4, <1>5, <1>6 DEF IndInv

\* The catch of the processor writes a status and sets completedAt or keeps it.
LEMMA RecordFailureType ==
  ASSUME TypeOK, NEW j \in Jobs, RecordFailure(j)
  PROVE  task' \in [Tasks -> TaskStatus] /\ completedAt' \in [Tasks -> BOOLEAN]
<1>1. task' \in [Tasks -> TaskStatus]
  BY JobTask DEF TypeOK, RecordFailure, StatusAfterFailure, TaskStatus
<1>2. completedAt' \in [Tasks -> BOOLEAN]
  BY JobTask, Zenon DEF TypeOK, RecordFailure
<1> QED
  BY <1>1, <1>2

\* Every step of the server, its workers and its environment keeps the types.
LEMMA TypeStep == IndInv /\ [Next]_vars => TypeOK'
<1> SUFFICES ASSUME IndInv, [Next]_vars PROVE TypeOK'
  OBVIOUS
<1> USE OrchestratorAssumption DEF IndInv, TypeOK, Fault
<1>1. CASE TriggerRun
  BY <1>1 DEF TriggerRun, RunStatus
<1>2. ASSUME NEW t \in Tasks, CreateTask(t) \/ LinkTask(t) \/ DispatchFirst(t)
      PROVE  TypeOK'
  BY <1>2, DepsInTasks, TaskJobs, FirstTasksReady
     DEF CreateTask, LinkTask, DispatchFirst, NextNode, AddJob, TaskStatus
<1>3. ASSUME NEW j \in Jobs, StartJob(j) \/ MarkRunning(j) \/ ExecuteSucceeds(j) \/ ExecuteFails(j) \/ ProcessorFails(j)
      PROVE  TypeOK'
  <2>1. CASE StartJob(j)
    BY <2>1 DEF StartJob
  <2>5. CASE MarkRunning(j)
    BY <2>5, JobTask DEF MarkRunning, TaskStatus
  <2>2. CASE ExecuteSucceeds(j)
    BY <2>2, JobTask DEF ExecuteSucceeds, TaskStatus
  <2>3. CASE ExecuteFails(j)
    <3>1. task' \in [Tasks -> TaskStatus] /\ completedAt' \in [Tasks -> BOOLEAN]
      BY <2>3, RecordFailureType DEF ExecuteFails
    <3> QED
      BY <2>3, <3>1 DEF ExecuteFails
  <2>4. CASE ProcessorFails(j)
    <3>1. task' \in [Tasks -> TaskStatus] /\ completedAt' \in [Tasks -> BOOLEAN]
      BY <2>4, JobTask, RecordFailureType DEF ProcessorFails, TaskStatus
    <3> QED
      BY <2>4, <3>1 DEF ProcessorFails
  <2> QED
    BY <1>3, <2>1, <2>2, <2>3, <2>4, <2>5
<1>4. ASSUME NEW j \in Jobs, ReportResult(j) \/ BackoffElapses(j) \/ RecoverStalled(j)
      PROVE  TypeOK'
  BY <1>4 DEF ReportResult, BackoffElapses, RecoverStalled, JobInv
<1>5. ASSUME NEW j \in Jobs, OnTaskCompleted(j) \/ OnTaskFailed(j) \/ ReadRun(j)
      PROVE  TypeOK'
  BY <1>5 DEF OnTaskCompleted, OnTaskFailed, ReadRun, BeginDispatch, Goto, HandlerPC, Unblocked
<1>6. ASSUME NEW j \in Jobs, NEW t \in Tasks, ClaimTask(j, t)
      PROVE  TypeOK'
  BY <1>6 DEF ClaimTask, AfterTask, Goto, HandlerPC, TaskStatus
<1>7. ASSUME NEW j \in Jobs, EnqueueTask(j) \/ EnqueueFails(j) \/ JobNotFound(j)
      PROVE  TypeOK'
  <2>1. CASE EnqueueTask(j)
    BY <2>1, TaskJobs DEF EnqueueTask, AddJob, AfterTask, Goto, HandlerPC, JobInv
  <2>2. CASE EnqueueFails(j)
    <3>1. <<adding[j], "task">> \in Jobs
      BY <2>2, TaskJobs DEF EnqueueFails, JobInv
    <3>2. job' \in [Jobs -> {"none", "waiting", "active", "delayed", "completed", "failed"}]
      BY <2>2, <3>1 DEF EnqueueFails, AddJob
    <3>3. handler' \in [Jobs -> HandlerPC]
      BY <2>2 DEF EnqueueFails, Goto, HandlerPC
    <3> QED
      BY <2>2, <3>2, <3>3 DEF EnqueueFails
  <2>3. CASE JobNotFound(j)
    BY <2>3 DEF JobNotFound, Goto, HandlerPC
  <2> QED
    BY <1>7, <2>1, <2>2, <2>3
<1>8. ASSUME NEW j \in Jobs, RollbackClaim(j)
      PROVE  TypeOK'
  BY <1>8 DEF RollbackClaim, ProcessExits, HandlerPC, TaskStatus
<1>9. ASSUME NEW j \in Jobs, TallyTasks(j) \/ ReadVerdict(j) \/ EndRun(j) \/ FailRun(j) \/ CancelPending(j)
      PROVE  TypeOK'
  BY <1>9 DEF TallyTasks, ReadVerdict, EndRun, RunAfter, FailRun, CancelPending, PendingCancelled,
              Goto, HandlerPC, RunStatus, TaskStatus
<1>10. CASE TriggerFails \/ CheckCancel \/ CancelRun \/ SweepStep
  <2>1. CASE TriggerFails \/ CheckCancel
    BY <2>1 DEF TriggerFails, CheckCancel
  <2>2. CASE CancelRun
    BY <2>2 DEF CancelRun, PendingCancelled, RunStatus, TaskStatus
  <2>3. CASE SweepStep
    BY <2>3 DEF SweepStep, FindStaleRun, FailStaleRun, CancelStaleTasks, PendingCancelled,
                RunStatus, TaskStatus
  <2> QED
    BY <1>10, <2>1, <2>2, <2>3
<1>11. CASE EditDefinition \/ RunAges \/ Shutdown \/ Boot \/ Listen
  <2>1. CASE EditDefinition
    BY <2>1 DEF EditDefinition
  <2>2. CASE Shutdown
    BY <2>2 DEF Shutdown
  <2>3. CASE RunAges \/ Boot
    BY <2>3 DEF RunAges, Boot
  <2>4. CASE Listen
    BY <2>4 DEF Listen
  <2> QED
    BY <1>11, <2>1, <2>2, <2>3, <2>4
<1>12. CASE Crash \/ Exit
  BY <1>12 DEF Crash, Exit, ProcessExits, HandlerPC
<1>13. CASE UNCHANGED vars
  BY <1>13 DEF vars
<1> QED
  BY <1>1, <1>2, <1>3, <1>4, <1>5, <1>6, <1>7, <1>8, <1>9, <1>10, <1>11, <1>12, <1>13
     DEF Next, TriggerStep, WorkerAction, WorkerStep, ProcessorFails, HandlerStep, FaultStep, WorkerAction, ServerStep

(***************************************************************************)
(* The remaining parts of IndInv.  TypeOK' is available from TypeStep.     *)
(***************************************************************************)
\* Nothing clears completedAt: a task that finished once has finished once for
\* ever, even if a second job of it is executing.
LEMMA CompletedAtStays ==
  ASSUME IndInv, [Next]_vars, NEW t \in Tasks, completedAt[t]
  PROVE  completedAt'[t]
<1> USE DEF IndInv, TypeOK
<1>1. ASSUME NEW j \in Jobs, ExecuteSucceeds(j) \/ ExecuteFails(j) \/ ProcessorFails(j)
      PROVE  completedAt'[t]
  BY <1>1, Zenon DEF ExecuteSucceeds, ExecuteFails, ProcessorFails, RecordFailure
<1>2. ASSUME completedAt' = completedAt
      PROVE  completedAt'[t]
  BY <1>2
<1> QED
  BY <1>1, <1>2 DEF Next, vars, TriggerStep, WorkerStep, HandlerStep, FaultStep, ServerStep,
     TriggerRun, CreateTask, LinkTask, DispatchFirst, TriggerFails, StartJob, MarkRunning, ReportResult,
     BackoffElapses, RecoverStalled, OnTaskCompleted, OnTaskFailed, JobNotFound, ReadRun,
     ClaimTask, EnqueueTask, EnqueueFails, RollbackClaim, TallyTasks, ReadVerdict, EndRun,
     FailRun, CancelPending, CheckCancel, CancelRun, SweepStep, FindStaleRun, FailStaleRun,
     CancelStaleTasks, EditDefinition, RunAges, Crash, Shutdown, Exit, Boot, Listen

\* A task whose dependencies have finished stays ready.
LEMMA ReadyStays ==
  ASSUME IndInv, [Next]_vars, NEW t \in Tasks, Ready(t)
  PROVE  Ready(t)'
  BY CompletedAtStays, DepsInTasks DEF Ready, Deps, DependencyMap

\* A step of a worker or of a handler is about a job that exists.
LEMMA JobStepHasJob ==
  ASSUME IndInv, NEW j \in Jobs, WorkerAction(j) \/ HandlerStep(j) \/ JobNotFound(j) \/ EnqueueFails(j)
  PROVE  HasJob(j)
<1> USE DEF IndInv, JobInv, HasJob
<1>1. CASE WorkerAction(j)
  BY <1>1 DEF WorkerAction, WorkerStep, ProcessorFails, StartJob, MarkRunning, ExecuteSucceeds, ExecuteFails, RecordFailure, ReportResult, BackoffElapses,
              RecoverStalled
<1>2. CASE HandlerStep(j)
  BY <1>2 DEF HandlerStep, OnTaskCompleted, OnTaskFailed, ReadRun, ClaimTask, EnqueueTask,
              RollbackClaim, TallyTasks, ReadVerdict, EndRun, FailRun, CancelPending
<1>3. CASE JobNotFound(j) \/ EnqueueFails(j)
  BY <1>3 DEF JobNotFound, EnqueueFails
<1> QED
  BY <1>1, <1>2, <1>3

\* triggerRun creates every row, then links every row, then enqueues the first
\* nodes only.
LEMMA TriggerStepInv == IndInv /\ [Next]_vars => TriggerInv'
<1> SUFFICES ASSUME IndInv, [Next]_vars PROVE TriggerInv'
  OBVIOUS
<1> USE DEF IndInv, TypeOK, TriggerInv, HasJob
<1>1. CASE TriggerRun
  BY <1>1 DEF TriggerRun
<1>2. ASSUME NEW t \in Tasks, CreateTask(t)
      PROVE  TriggerInv'
  BY <1>2 DEF CreateTask, NextNode
<1>3. ASSUME NEW t \in Tasks, LinkTask(t)
      PROVE  TriggerInv'
  <2>1. trigger = "link" /\ trigger' \in {"link", "dispatch", "done"} /\ job' = job
    BY <1>3 DEF LinkTask, NextNode
  <2>2. trigger' = "link" => \A u \in Tasks \ remaining' : dependsOn'[u] = Deps(u)
    BY <1>3, DepsInTasks DEF LinkTask, NextNode
  <2>3. trigger' = "dispatch" => remaining' \subseteq FirstTasks
    BY <1>3 DEF LinkTask, NextNode
  <2> QED
    BY <2>1, <2>2, <2>3
<1>4. ASSUME NEW t \in Tasks, DispatchFirst(t)
      PROVE  TriggerInv'
  BY <1>4 DEF DispatchFirst, NextNode
<1>5. CASE TriggerFails
  BY <1>5 DEF TriggerFails
<1>6. ASSUME NEW j \in Jobs, WorkerAction(j) \/ HandlerStep(j) \/ JobNotFound(j) \/ EnqueueFails(j)
      PROVE  TriggerInv'
  <2>1. trigger \in {"dispatch", "done"}
    BY <1>6, JobStepHasJob
  <2>2. \/ trigger' = trigger /\ remaining' = remaining
        \/ trigger' = "done"
    BY <1>6, <2>1 DEF JobNotFound, EnqueueFails, WorkerAction, WorkerStep, ProcessorFails, StartJob, MarkRunning, ExecuteSucceeds, ExecuteFails, RecordFailure,
       ReportResult, BackoffElapses, RecoverStalled, HandlerStep, OnTaskCompleted, OnTaskFailed,
       ReadRun, ClaimTask, EnqueueTask, RollbackClaim, ProcessExits, TallyTasks, ReadVerdict,
       EndRun, FailRun, CancelPending
  <2> QED
    BY <2>1, <2>2
<1>7. CASE CheckCancel \/ CancelRun \/ SweepStep
  BY <1>7 DEF CheckCancel, CancelRun, SweepStep, FindStaleRun, RunIsStale, FailStaleRun,
              CancelStaleTasks
<1>8. CASE EditDefinition \/ RunAges \/ Shutdown \/ Boot \/ Listen
  BY <1>8 DEF EditDefinition, RunAges, Shutdown, Boot, Listen
<1>9. CASE Crash \/ Exit
  BY <1>9 DEF Crash, Exit, ProcessExits
<1>10. CASE UNCHANGED vars
  BY <1>10 DEF vars
<1> QED
  BY <1>1, <1>2, <1>3, <1>4, <1>5, <1>6, <1>7, <1>8, <1>9, <1>10
     DEF Next, TriggerStep, FaultStep, WorkerAction, ServerStep

\* How the queue grows: by triggerRun's last loop or by the dispatch of a
\* handler, and no job is forgotten.
LEMMA QueueGrowth ==
  ASSUME IndInv, [Next]_vars, NEW i \in Jobs
  PROVE  /\ HasJob(i) => HasJob(i)'
         /\ HasJob(i)' => \/ HasJob(i)
                          \/ trigger = "dispatch" /\ i[1] \in remaining
                          \/ \E j \in Jobs : handler[j] = "add" /\ adding[j] = i[1]
<1> DEFINE Goal == /\ HasJob(i) => HasJob(i)'
                   /\ HasJob(i)' => \/ HasJob(i)
                                    \/ trigger = "dispatch" /\ i[1] \in remaining
                                    \/ \E j \in Jobs : handler[j] = "add" /\ adding[j] = i[1]
<1> USE DEF IndInv, TypeOK, HasJob
<1>1. CASE job' = job
  BY <1>1
<1>2. ASSUME NEW t \in Tasks, DispatchFirst(t)
      PROVE  Goal
  BY <1>2, TaskJobs DEF DispatchFirst, AddJob
<1>3. ASSUME NEW j \in Jobs, WorkerAction(j)
      PROVE  Goal
  BY <1>3, JobStepHasJob DEF WorkerAction, WorkerStep, ProcessorFails, StartJob, MarkRunning, ExecuteSucceeds, ExecuteFails, RecordFailure, ReportResult,
     BackoffElapses, RecoverStalled
<1>4. ASSUME NEW j \in Jobs, EnqueueTask(j) \/ EnqueueFails(j)
      PROVE  Goal
  BY <1>4 DEF EnqueueTask, EnqueueFails, AddJob
<1>5. ASSUME NEW j \in Jobs, HandlerStep(j) \/ JobNotFound(j)
      PROVE  Goal
  BY <1>1, <1>4, <1>5 DEF HandlerStep, JobNotFound, OnTaskCompleted, OnTaskFailed, ReadRun, ClaimTask,
     RollbackClaim, TallyTasks, ReadVerdict, EndRun, FailRun, CancelPending
<1>6. ASSUME TriggerRun \/ (\E t \in Tasks : CreateTask(t) \/ LinkTask(t)) \/ TriggerFails
      PROVE  Goal
  BY <1>1, <1>6 DEF TriggerRun, CreateTask, LinkTask, TriggerFails
<1>7. ASSUME CheckCancel \/ CancelRun \/ SweepStep \/ EditDefinition \/ RunAges
      PROVE  Goal
  BY <1>1, <1>7 DEF CheckCancel, CancelRun, SweepStep, FindStaleRun, FailStaleRun, CancelStaleTasks,
     EditDefinition, RunAges
<1>8. ASSUME Crash \/ Shutdown \/ ServerStep
      PROVE  Goal
  BY <1>1, <1>8 DEF Crash, Shutdown, ServerStep, Exit, Boot, Listen
<1>9. CASE UNCHANGED vars
  BY <1>1, <1>9 DEF vars
<1> QED
  BY <1>2, <1>3, <1>4, <1>5, <1>6, <1>7, <1>8, <1>9 DEF Next, TriggerStep, FaultStep, WorkerAction

\* From the first job on, every row carries its dependencies.
LEMMA LinkStepInv == IndInv /\ [Next]_vars => LinkInv'
<1> SUFFICES ASSUME IndInv, [Next]_vars PROVE LinkInv'
  OBVIOUS
<1> USE DEF IndInv, TypeOK, LinkInv, TriggerInv, HasJob
<1>1. ASSUME NEW t \in Tasks, LinkTask(t)
      PROVE  LinkInv'
  <2>1. \A j \in Jobs : job'[j] = "none"
    BY <1>1 DEF LinkTask
  <2>2. trigger' = "dispatch" => \A u \in Tasks : dependsOn'[u] = Deps(u)
    BY <1>1, DepsInTasks DEF LinkTask, NextNode
  <2> QED
    BY <2>1, <2>2
<1>2. ASSUME dependsOn' = dependsOn, trigger' = "dispatch" => trigger = "dispatch"
      PROVE  LinkInv'
  <2> SUFFICES ASSUME trigger' = "dispatch" \/ \E j \in Jobs : HasJob(j)'
               PROVE  \A t \in Tasks : dependsOn[t] = Deps(t)
    BY <1>2
  <2>1. CASE trigger' = "dispatch"
    BY <1>2, <2>1
  <2>2. ASSUME NEW i \in Jobs, HasJob(i)'
        PROVE  \A t \in Tasks : dependsOn[t] = Deps(t)
    <3>1. CASE HasJob(i) \/ trigger = "dispatch"
      BY <3>1
    <3>2. ASSUME NEW j \in Jobs, handler[j] = "add"
          PROVE  \A t \in Tasks : dependsOn[t] = Deps(t)
      BY <3>2 DEF JobInv
    <3> QED
      BY <2>2, <3>1, <3>2, QueueGrowth
  <2> QED
    BY <2>1, <2>2
<1>3. ASSUME TriggerRun \/ (\E t \in Tasks : CreateTask(t) \/ DispatchFirst(t)) \/ TriggerFails
      PROVE  LinkInv'
  BY <1>2, <1>3 DEF TriggerRun, CreateTask, DispatchFirst, TriggerFails, NextNode
<1>4. ASSUME NEW j \in Jobs, WorkerAction(j)
      PROVE  LinkInv'
  BY <1>2, <1>4 DEF WorkerAction, WorkerStep, ProcessorFails, StartJob, MarkRunning, ExecuteSucceeds, ExecuteFails, RecordFailure, ReportResult,
     BackoffElapses, RecoverStalled
<1>5. ASSUME NEW j \in Jobs, HandlerStep(j) \/ JobNotFound(j) \/ EnqueueFails(j)
      PROVE  LinkInv'
  BY <1>2, <1>5 DEF HandlerStep, JobNotFound, EnqueueFails, OnTaskCompleted, OnTaskFailed, ReadRun,
     ClaimTask, EnqueueTask, RollbackClaim, ProcessExits, TallyTasks, ReadVerdict, EndRun, FailRun,
     CancelPending
<1>6. ASSUME CheckCancel \/ CancelRun \/ SweepStep \/ EditDefinition \/ RunAges
      PROVE  LinkInv'
  BY <1>2, <1>6 DEF CheckCancel, CancelRun, SweepStep, FindStaleRun, FailStaleRun, CancelStaleTasks,
     EditDefinition, RunAges
<1>7. ASSUME Crash \/ Shutdown \/ ServerStep
      PROVE  LinkInv'
  BY <1>2, <1>7 DEF Crash, Shutdown, ServerStep, Exit, Boot, Listen, ProcessExits
<1>8. CASE UNCHANGED vars
  BY <1>2, <1>8 DEF vars
<1> QED
  BY <1>1, <1>3, <1>4, <1>5, <1>6, <1>7, <1>8 DEF Next, TriggerStep, FaultStep, WorkerAction

\* The life of a job: events, handlers, workers and attempts agree with its state.
LEMMA JobStepInv == IndInv /\ [Next]_vars => JobInv'
<1> SUFFICES ASSUME IndInv, [Next]_vars PROVE JobInv'
  OBVIOUS
<1> USE OrchestratorAssumption DEF IndInv, TypeOK, JobInv, HasJob
<1>1. CASE UNCHANGED <<queueVars, worker, handlerVars>>
  BY <1>1
<1>2. ASSUME NEW t \in Tasks, DispatchFirst(t)
      PROVE  JobInv'
  BY <1>2, TaskJobs DEF DispatchFirst, AddJob
<1>3. ASSUME NEW j \in Jobs, StartJob(j) \/ MarkRunning(j) \/ ExecuteSucceeds(j) \/ ExecuteFails(j) \/ ProcessorFails(j)
      PROVE  JobInv'
  <2>1. CASE StartJob(j)
    BY <2>1 DEF StartJob, AgentFree
  <2>2. CASE MarkRunning(j)
    BY <2>2 DEF MarkRunning
  <2>3. CASE ExecuteSucceeds(j) \/ ExecuteFails(j) \/ ProcessorFails(j)
    <3>1. UNCHANGED <<queueVars, handlerVars>> /\ worker[j] # "idle"
      BY <2>3 DEF ExecuteSucceeds, ExecuteFails, ProcessorFails
    <3>2. \A i \in Jobs : worker'[i] # "idle" => worker[i] # "idle"
      BY <2>3 DEF ExecuteSucceeds, ExecuteFails, ProcessorFails
    <3> QED
      BY <3>1, <3>2
  <2> QED
    BY <1>3, <2>1, <2>2, <2>3
<1>4. ASSUME NEW j \in Jobs, ReportResult(j) \/ BackoffElapses(j) \/ RecoverStalled(j)
      PROVE  JobInv'
  <2>1. CASE ReportResult(j)
    <3>1. attemptsMade'[j] = attemptsMade[j] + 1 /\ worker'[j] = "idle" /\ job[j] = "active"
      BY <2>1 DEF ReportResult
    <3>2. job'[j] \in {"completed", "failed"} \/ (job'[j] = "delayed" /\ attemptsMade'[j] < MaxAttempts)
      BY <2>1, <3>1 DEF ReportResult, IsLastAttempt
    <3>3. \A i \in Jobs : i # j => /\ job'[i] = job[i] /\ worker'[i] = worker[i]
                                  /\ attemptsMade'[i] = attemptsMade[i]
      BY <2>1 DEF ReportResult
    <3>4. events' \subseteq events \cup {j} /\ handler[j] = "idle" /\ UNCHANGED handlerVars
      BY <2>1, <3>1 DEF ReportResult
    <3>5. j \in events' => job'[j] \in {"completed", "failed"}
      BY <2>1, <3>1 DEF ReportResult
    <3> QED
      BY <3>1, <3>2, <3>3, <3>4, <3>5
  <2>2. CASE BackoffElapses(j)
    BY <2>2 DEF BackoffElapses
  <2>3. CASE RecoverStalled(j)
    BY <2>3 DEF RecoverStalled
  <2> QED
    BY <1>4, <2>1, <2>2, <2>3
<1>5. ASSUME NEW j \in Jobs, OnTaskCompleted(j) \/ OnTaskFailed(j) \/ JobNotFound(j) \/ ReadRun(j)
      PROVE  JobInv'
  <2>1. /\ UNCHANGED <<job, attemptsMade, worker, adding>>
        /\ events' \subseteq events
        /\ handler[j] # "add" /\ handler[j] # "rollback" /\ j \notin events'
        /\ job[j] \in {"completed", "failed"}
    BY <1>5 DEF OnTaskCompleted, OnTaskFailed, JobNotFound, ReadRun
  <2>2. \E pc \in HandlerPC \ {"add", "rollback"} : Goto(j, pc)
    BY <1>5 DEF OnTaskCompleted, OnTaskFailed, JobNotFound, ReadRun, BeginDispatch, Goto, HandlerPC
  <2> QED
    BY <2>1, <2>2 DEF Goto
<1>6. ASSUME NEW j \in Jobs, NEW t \in Tasks, ClaimTask(j, t)
      PROVE  JobInv'
  BY <1>6 DEF ClaimTask, AfterTask, Goto
<1>7. ASSUME NEW j \in Jobs, EnqueueTask(j)
      PROVE  JobInv'
  BY <1>7, TaskJobs DEF EnqueueTask, AddJob, AfterTask, Goto
<1>8. ASSUME NEW j \in Jobs, EnqueueFails(j)
      PROVE  JobInv'
  <2>1. UNCHANGED <<attemptsMade, events, worker, adding>>
    BY <1>8 DEF EnqueueFails
  <2>2. \A i \in Jobs : job'[i] = job[i] \/ (job[i] = "none" /\ job'[i] = "waiting")
    BY <1>8, TaskJobs DEF EnqueueFails, AddJob
  <2>3. \A i \in Jobs : /\ handler'[i] = "idle" <=> handler[i] = "idle"
                        /\ handler'[i] \in {"add", "rollback"} <=> handler[i] \in {"add", "rollback"}
    BY <1>8 DEF EnqueueFails, Goto
  <2> QED
    BY <2>1, <2>2, <2>3
<1>9. ASSUME NEW j \in Jobs, TallyTasks(j) \/ ReadVerdict(j) \/ EndRun(j) \/ FailRun(j) \/ CancelPending(j)
      PROVE  JobInv'
  BY <1>9 DEF TallyTasks, ReadVerdict, EndRun, FailRun, CancelPending, Goto
<1>10. ASSUME ProcessExits, UNCHANGED queueVars
       PROVE  JobInv'
  BY <1>10 DEF ProcessExits
<1>11. ASSUME (\E j \in Jobs : RollbackClaim(j)) \/ Crash \/ Exit
       PROVE  JobInv'
  BY <1>10, <1>11 DEF RollbackClaim, Crash, Exit
<1>12. CASE Listen
  BY <1>12 DEF Listen
<1>13. ASSUME TriggerRun \/ (\E t \in Tasks : CreateTask(t) \/ LinkTask(t)) \/ TriggerFails
       PROVE  JobInv'
  BY <1>1, <1>13 DEF TriggerRun, CreateTask, LinkTask, TriggerFails
<1>14. ASSUME CheckCancel \/ CancelRun \/ SweepStep \/ EditDefinition \/ RunAges \/ Shutdown \/ Boot
       PROVE  JobInv'
  BY <1>1, <1>14 DEF CheckCancel, CancelRun, SweepStep, FindStaleRun, FailStaleRun, CancelStaleTasks,
     EditDefinition, RunAges, Shutdown, Boot
<1>15. CASE UNCHANGED vars
  BY <1>1, <1>15 DEF vars
<1> QED
  BY <1>2, <1>3, <1>4, <1>5, <1>6, <1>7, <1>8, <1>9, <1>11, <1>12, <1>13, <1>14, <1>15
     DEF Next, TriggerStep, WorkerAction, WorkerStep, ProcessorFails, HandlerStep, FaultStep, WorkerAction, ServerStep

\* A worker takes a job only when no job of its agent type is in its hands.
LEMMA AgentStepInv == IndInv /\ [Next]_vars => AgentInv'
<1> SUFFICES ASSUME IndInv, [Next]_vars PROVE AgentInv'
  OBVIOUS
<1> USE DEF IndInv, TypeOK, AgentInv
<1>1. ASSUME NEW j \in Jobs, StartJob(j)
      PROVE  AgentInv'
  BY <1>1 DEF StartJob, MarkRunning, AgentFree
<1>2. ASSUME \A i \in Jobs : worker'[i] # "idle" => worker[i] # "idle"
      PROVE  AgentInv'
  BY <1>2
<1>3. ASSUME NEW j \in Jobs, WorkerAction(j)
      PROVE  AgentInv'
  <2>1. StartJob(j) \/ \A i \in Jobs : worker'[i] # "idle" => worker[i] # "idle"
    BY <1>3 DEF WorkerAction, WorkerStep, ProcessorFails, MarkRunning, ExecuteSucceeds,
       ExecuteFails, ReportResult, BackoffElapses, RecoverStalled
  <2> QED
    BY <1>1, <1>2, <2>1
<1>4. ASSUME NEW j \in Jobs, HandlerStep(j) \/ JobNotFound(j) \/ EnqueueFails(j)
      PROVE  AgentInv'
  BY <1>2, <1>4 DEF HandlerStep, JobNotFound, EnqueueFails, OnTaskCompleted, OnTaskFailed, ReadRun,
     ClaimTask, EnqueueTask, RollbackClaim, ProcessExits, TallyTasks, ReadVerdict, EndRun, FailRun,
     CancelPending
<1>5. ASSUME TriggerRun \/ TriggerStep \/ TriggerFails
      PROVE  AgentInv'
  BY <1>2, <1>5 DEF TriggerRun, TriggerStep, CreateTask, LinkTask, DispatchFirst, TriggerFails
<1>6. ASSUME CheckCancel \/ CancelRun \/ SweepStep \/ EditDefinition \/ RunAges
      PROVE  AgentInv'
  BY <1>2, <1>6 DEF CheckCancel, CancelRun, SweepStep, FindStaleRun, FailStaleRun, CancelStaleTasks,
     EditDefinition, RunAges
<1>7. ASSUME Crash \/ Shutdown \/ ServerStep
      PROVE  AgentInv'
  BY <1>2, <1>7 DEF Crash, Shutdown, ServerStep, Exit, Boot, Listen, ProcessExits
<1>8. CASE UNCHANGED vars
  BY <1>2, <1>8 DEF vars
<1> QED
  BY <1>3, <1>4, <1>5, <1>6, <1>7, <1>8 DEF Next, FaultStep, WorkerAction

\* What dispatchUnblockedTasks selects has its dependencies completed.
LEMMA UnblockedReady ==
  ASSUME IndInv, NEW j \in Jobs, HasJob(j), NEW t \in Unblocked
  PROVE  t \in Tasks /\ Ready(t)
  BY DepsInTasks DEF IndInv, TypeOK, LinkInv, CompletedInv, Unblocked, Resolved, Ready

\* A handler collects and keeps only tasks that are ready.
LEMMA TodoStepInv ==
  ASSUME IndInv, [Next]_vars, NEW i \in Jobs, NEW t \in todo'[i]
  PROVE  t \in Tasks /\ Ready(t)
<1> DEFINE Goal == t \in Tasks /\ Ready(t)
<1> USE DEF IndInv, TypeOK, ReadyInv
<1>1. CASE t \in todo[i]
  BY <1>1
<1>2. ASSUME NEW j \in Jobs, OnTaskCompleted(j) \/ OnTaskFailed(j)
      PROVE  Goal
  <2>1. HasJob(j)
    BY <1>2, JobStepHasJob DEF HandlerStep
  <2>2. t \in todo[i] \/ t \in Unblocked
    BY <1>2 DEF OnTaskCompleted, OnTaskFailed, BeginDispatch
  <2> QED
    BY <1>1, <2>1, <2>2, UnblockedReady
<1>3. ASSUME NEW j \in Jobs, ReadRun(j) \/ EnqueueTask(j) \/ RollbackClaim(j)
      PROVE  Goal
  BY <1>1, <1>3 DEF ReadRun, EnqueueTask, AfterTask, RollbackClaim, ProcessExits
<1>4. ASSUME NEW j \in Jobs, NEW u \in Tasks, ClaimTask(j, u)
      PROVE  Goal
  BY <1>1, <1>4 DEF ClaimTask, AfterTask
<1>5. ASSUME NEW j \in Jobs, JobNotFound(j) \/ EnqueueFails(j) \/ TallyTasks(j) \/ ReadVerdict(j)
                               \/ EndRun(j) \/ FailRun(j) \/ CancelPending(j)
      PROVE  Goal
  BY <1>1, <1>5 DEF JobNotFound, EnqueueFails, TallyTasks, ReadVerdict, EndRun, FailRun, CancelPending
<1>6. ASSUME NEW j \in Jobs, WorkerAction(j)
      PROVE  Goal
  BY <1>1, <1>6 DEF WorkerAction, WorkerStep, ProcessorFails, StartJob, MarkRunning, ExecuteSucceeds, ExecuteFails, RecordFailure, ReportResult,
     BackoffElapses, RecoverStalled
<1>7. ASSUME TriggerRun \/ TriggerStep \/ TriggerFails
      PROVE  Goal
  BY <1>1, <1>7 DEF TriggerRun, TriggerStep, CreateTask, LinkTask, DispatchFirst, TriggerFails
<1>8. ASSUME CheckCancel \/ CancelRun \/ SweepStep \/ EditDefinition \/ RunAges
      PROVE  Goal
  BY <1>1, <1>8 DEF CheckCancel, CancelRun, SweepStep, FindStaleRun, FailStaleRun, CancelStaleTasks,
     EditDefinition, RunAges
<1>9. ASSUME Crash \/ Shutdown \/ ServerStep
      PROVE  Goal
  BY <1>1, <1>9 DEF Crash, Shutdown, ServerStep, Exit, Boot, Listen, ProcessExits
<1>10. CASE UNCHANGED vars
  BY <1>1, <1>10 DEF vars
<1> QED
  BY <1>2, <1>3, <1>4, <1>5, <1>6, <1>7, <1>8, <1>9, <1>10 DEF Next, HandlerStep, FaultStep, WorkerAction

\* A handler claims only what is on its list.
LEMMA AddingStepInv ==
  ASSUME IndInv, [Next]_vars, NEW i \in Jobs, adding'[i] # NoTask
  PROVE  adding'[i] \in Tasks /\ Ready(adding'[i])
<1> DEFINE Goal == adding'[i] \in Tasks /\ Ready(adding'[i])
<1> USE DEF IndInv, TypeOK, ReadyInv
<1>1. CASE adding'[i] = adding[i]
  BY <1>1
<1>2. ASSUME NEW j \in Jobs, NEW t \in Tasks, ClaimTask(j, t)
      PROVE  Goal
  BY <1>1, <1>2 DEF ClaimTask
<1>3. ASSUME NEW j \in Jobs, EnqueueTask(j) \/ RollbackClaim(j)
      PROVE  Goal
  BY <1>1, <1>3 DEF EnqueueTask, RollbackClaim, ProcessExits
<1>4. ASSUME NEW j \in Jobs, \/ OnTaskCompleted(j) \/ OnTaskFailed(j) \/ ReadRun(j) \/ JobNotFound(j)
                             \/ EnqueueFails(j) \/ TallyTasks(j) \/ ReadVerdict(j) \/ EndRun(j)
                             \/ FailRun(j) \/ CancelPending(j) \/ WorkerAction(j)
      PROVE  Goal
  BY <1>1, <1>4 DEF OnTaskCompleted, OnTaskFailed, ReadRun, JobNotFound, EnqueueFails, TallyTasks,
     ReadVerdict, EndRun, FailRun, CancelPending, WorkerAction, WorkerStep, ProcessorFails, StartJob, MarkRunning, ExecuteSucceeds,
     ExecuteFails, RecordFailure, ReportResult, BackoffElapses, RecoverStalled
<1>5. ASSUME TriggerRun \/ TriggerStep \/ TriggerFails
      PROVE  Goal
  BY <1>1, <1>5 DEF TriggerRun, TriggerStep, CreateTask, LinkTask, DispatchFirst, TriggerFails
<1>6. ASSUME CheckCancel \/ CancelRun \/ SweepStep \/ EditDefinition \/ RunAges
      PROVE  Goal
  BY <1>1, <1>6 DEF CheckCancel, CancelRun, SweepStep, FindStaleRun, FailStaleRun, CancelStaleTasks,
     EditDefinition, RunAges
<1>7. ASSUME Crash \/ Shutdown \/ ServerStep
      PROVE  Goal
  BY <1>1, <1>7 DEF Crash, Shutdown, ServerStep, Exit, Boot, Listen, ProcessExits
<1>8. CASE UNCHANGED vars
  BY <1>1, <1>8 DEF vars
<1> QED
  BY <1>2, <1>3, <1>4, <1>5, <1>6, <1>7, <1>8 DEF Next, HandlerStep, FaultStep, WorkerAction

\* Only the worker of a job and the handler that claimed the task make a row
\* RUNNING, and only the worker finishes it.
LEMMA StartedGrowth ==
  ASSUME IndInv, [Next]_vars, NEW t \in Tasks, Started(t)'
  PROVE  \/ Started(t)
         \/ \E j \in Jobs : HasJob(j) /\ j[1] = t
         \/ \E j \in Jobs : t \in todo[j]
<1> DEFINE Goal == \/ Started(t)
                   \/ \E j \in Jobs : HasJob(j) /\ j[1] = t
                   \/ \E j \in Jobs : t \in todo[j]
<1> USE DEF IndInv, TypeOK, Started
<1>1. CASE task'[t] \in {task[t], "PENDING", "CANCELLED"}
  BY <1>1
<1>2. ASSUME NEW j \in Jobs, WorkerAction(j)
      PROVE  Goal
  <2>1. HasJob(j)
    BY <1>2, JobStepHasJob
  <2>2. j[1] = t \/ task'[t] = task[t]
    BY <1>2 DEF WorkerAction, WorkerStep, ProcessorFails, StartJob, MarkRunning, ExecuteSucceeds, ExecuteFails, RecordFailure, ReportResult, BackoffElapses,
       RecoverStalled
  <2> QED
    BY <1>1, <2>1, <2>2
<1>3. ASSUME NEW j \in Jobs, NEW u \in Tasks, ClaimTask(j, u)
      PROVE  Goal
  BY <1>1, <1>3 DEF ClaimTask
<1>4. ASSUME NEW j \in Jobs, \/ OnTaskCompleted(j) \/ OnTaskFailed(j) \/ ReadRun(j) \/ JobNotFound(j)
                             \/ EnqueueTask(j) \/ EnqueueFails(j) \/ RollbackClaim(j) \/ TallyTasks(j)
                             \/ ReadVerdict(j) \/ EndRun(j) \/ FailRun(j) \/ CancelPending(j)
      PROVE  Goal
  BY <1>1, <1>4 DEF OnTaskCompleted, OnTaskFailed, ReadRun, JobNotFound, EnqueueTask, EnqueueFails,
     RollbackClaim, TallyTasks, ReadVerdict, EndRun, FailRun, CancelPending, PendingCancelled
<1>5. ASSUME TriggerRun \/ TriggerStep \/ TriggerFails
      PROVE  Goal
  BY <1>1, <1>5 DEF TriggerRun, TriggerStep, CreateTask, LinkTask, DispatchFirst, TriggerFails
<1>6. ASSUME CheckCancel \/ CancelRun \/ SweepStep \/ EditDefinition \/ RunAges
      PROVE  Goal
  BY <1>1, <1>6 DEF CheckCancel, CancelRun, SweepStep, FindStaleRun, FailStaleRun, CancelStaleTasks,
     PendingCancelled, EditDefinition, RunAges
<1>7. ASSUME Crash \/ Shutdown \/ ServerStep
      PROVE  Goal
  BY <1>1, <1>7 DEF Crash, Shutdown, ServerStep, Exit, Boot, Listen
<1>8. CASE UNCHANGED vars
  BY <1>1, <1>8 DEF vars
<1> QED
  BY <1>2, <1>3, <1>4, <1>5, <1>6, <1>7, <1>8 DEF Next, HandlerStep, FaultStep, WorkerAction

\* Whatever is put into todo, claimed, enqueued or started is ready.
LEMMA ReadyStepInv == IndInv /\ [Next]_vars => ReadyInv'
<1> SUFFICES ASSUME IndInv, [Next]_vars PROVE ReadyInv'
  OBVIOUS
<1>1. \A j \in Jobs : \A t \in todo'[j] : Ready(t)'
  BY TodoStepInv, ReadyStays
<1>2. \A j \in Jobs : adding'[j] # NoTask => adding'[j] \in Tasks /\ Ready(adding'[j])
  BY AddingStepInv
<1>3. ASSUME NEW t \in Tasks, Ready(t)
      PROVE  Ready(t)'
  BY <1>3, ReadyStays
<1>4. ASSUME NEW i \in Jobs, HasJob(i)'
      PROVE  Ready(i[1])
  <2>1. CASE HasJob(i)
    BY <2>1 DEF IndInv, ReadyInv
  <2>2. CASE trigger = "dispatch" /\ i[1] \in remaining
    BY <2>2, FirstTasksReady DEF IndInv, TriggerInv, Ready
  <2>3. ASSUME NEW j \in Jobs, handler[j] = "add", adding[j] = i[1]
        PROVE  Ready(i[1])
    BY <2>3 DEF IndInv, JobInv, ReadyInv
  <2> QED
    BY <1>4, <2>1, <2>2, <2>3, QueueGrowth
<1>5. ASSUME NEW t \in Tasks, Started(t)'
      PROVE  Ready(t)
  BY <1>5, StartedGrowth DEF IndInv, ReadyInv
<1>6. \A i \in Jobs : HasJob(i)' => Ready(i[1])'
  BY <1>3, <1>4, JobTask
<1>7. \A t \in Tasks : Started(t)' => Ready(t)'
  BY <1>3, <1>5
<1>8. \A j \in Jobs : (adding[j] # NoTask => Ready(adding[j]))'
  BY <1>2, <1>3 DEF Ready
<1> QED
  BY <1>1, <1>6, <1>7, <1>8 DEF ReadyInv

\* A step that is not a worker's leaves each row, claims it while PENDING, or
\* moves it to PENDING or CANCELLED.
LEMMA OtherTaskStep ==
  ASSUME IndInv, [Next]_vars, \A j \in Jobs : ~WorkerAction(j), NEW t \in Tasks
  PROVE  \/ task'[t] = task[t]
         \/ task[t] = "PENDING" /\ task'[t] \in {"RUNNING", "CANCELLED"}
         \/ trigger = "create" /\ task'[t] = "PENDING"
         \/ task'[t] = "PENDING" /\ ProcessExits
<1> DEFINE Goal == \/ task'[t] = task[t]
                   \/ task[t] = "PENDING" /\ task'[t] \in {"RUNNING", "CANCELLED"}
                   \/ trigger = "create" /\ task'[t] = "PENDING"
                   \/ task'[t] = "PENDING" /\ ProcessExits
<1> USE DEF IndInv, TypeOK
<1>1. CASE task' = task
  BY <1>1
<1>2. ASSUME NEW u \in Tasks, CreateTask(u)
      PROVE  Goal
  BY <1>2 DEF CreateTask
<1>3. ASSUME NEW j \in Jobs, NEW u \in Tasks, ClaimTask(j, u)
      PROVE  Goal
  BY <1>3 DEF ClaimTask
<1>4. ASSUME NEW j \in Jobs, RollbackClaim(j)
      PROVE  Goal
  BY <1>4 DEF RollbackClaim
<1>5. ASSUME task' = PendingCancelled
      PROVE  Goal
  BY <1>5 DEF PendingCancelled
<1>6. ASSUME NEW j \in Jobs, \/ OnTaskCompleted(j) \/ OnTaskFailed(j) \/ ReadRun(j) \/ JobNotFound(j)
                             \/ EnqueueTask(j) \/ EnqueueFails(j) \/ TallyTasks(j)
                             \/ ReadVerdict(j) \/ EndRun(j) \/ FailRun(j) \/ CancelPending(j)
      PROVE  Goal
  BY <1>1, <1>5, <1>6 DEF OnTaskCompleted, OnTaskFailed, ReadRun, JobNotFound, EnqueueTask,
     EnqueueFails, TallyTasks, ReadVerdict, EndRun, FailRun, CancelPending
<1>7. ASSUME TriggerRun \/ TriggerStep \/ TriggerFails
      PROVE  Goal
  BY <1>1, <1>2, <1>7 DEF TriggerRun, TriggerStep, LinkTask, DispatchFirst, TriggerFails
<1>8. ASSUME CheckCancel \/ CancelRun \/ SweepStep \/ EditDefinition \/ RunAges
      PROVE  Goal
  BY <1>1, <1>5, <1>8 DEF CheckCancel, CancelRun, SweepStep, FindStaleRun, FailStaleRun,
     CancelStaleTasks, EditDefinition, RunAges
<1>9. ASSUME Crash \/ Shutdown \/ ServerStep
      PROVE  Goal
  BY <1>1, <1>9 DEF Crash, Shutdown, ServerStep, Exit, Boot, Listen
<1>10. CASE UNCHANGED vars
  BY <1>1, <1>10 DEF vars
<1> QED
  BY <1>3, <1>4, <1>6, <1>7, <1>8, <1>9, <1>10 DEF Next, HandlerStep, FaultStep, WorkerAction

\* A row becomes COMPLETED or FAILED only together with its completedAt.
LEMMA CompletedStepInv == IndInv /\ [Next]_vars => CompletedInv'
<1> SUFFICES ASSUME IndInv, [Next]_vars, NEW t \in Tasks, task'[t] \in {"COMPLETED", "FAILED"}
             PROVE  completedAt'[t]
  BY DEF CompletedInv
<1>1. CASE task[t] \in {"COMPLETED", "FAILED"}
  BY <1>1, CompletedAtStays DEF IndInv, CompletedInv
<1>2. CASE task[t] \notin {"COMPLETED", "FAILED"}
  <2>1. PICK j \in Jobs : WorkerAction(j)
    BY <1>2, OtherTaskStep
  <2>2. (ExecuteSucceeds(j) \/ (RecordFailure(j) /\ IsLastAttempt(j))) /\ j[1] = t
    BY <2>1, <1>2 DEF WorkerAction, WorkerStep, ProcessorFails, StartJob, MarkRunning, ExecuteSucceeds, ExecuteFails, RecordFailure, StatusAfterFailure,
       ReportResult, BackoffElapses, RecoverStalled, IndInv, TypeOK
  <2> QED
    BY <2>2, Zenon DEF ExecuteSucceeds, ExecuteFails, RecordFailure, IndInv, TypeOK
<1> QED
  BY <1>1, <1>2

\* Nobody moves the row of a task away from RUNNING while an agent executes it.
LEMMA ExecutingStepInv == IndInv /\ [Next]_vars => ExecutingTaskIsRunning'
<1> SUFFICES ASSUME IndInv, [Next]_vars, NEW i \in Jobs, worker'[i] = "executing"
             PROVE  task'[i[1]] = "RUNNING"
  BY DEF ExecutingTaskIsRunning
<1> USE DEF IndInv, TypeOK, ExecutingTaskIsRunning, JobInv
<1>1. i[1] \in Tasks
  BY JobTask
<1>2. ASSUME NEW j \in Jobs, WorkerAction(j)
      PROVE  task'[i[1]] = "RUNNING"
  <2>1. CASE i = j
    BY <1>1, <1>2, <2>1 DEF WorkerAction, WorkerStep, ProcessorFails, StartJob, MarkRunning, ExecuteSucceeds, ExecuteFails, RecordFailure, ReportResult,
       BackoffElapses, RecoverStalled
  <2>2. CASE i # j
    <3>1. worker[i] = "executing" /\ task[i[1]] = "RUNNING"
      BY <1>2, <2>2 DEF WorkerAction, WorkerStep, ProcessorFails, StartJob, MarkRunning, ExecuteSucceeds, ExecuteFails, RecordFailure, ReportResult,
         BackoffElapses, RecoverStalled
    <3>2. j[1] = i[1] => worker[j] = "idle"
      BY <3>1, <2>2 DEF AgentInv
    <3> QED
      BY <1>1, <1>2, <3>1, <3>2 DEF WorkerAction, WorkerStep, ProcessorFails, StartJob, MarkRunning, ExecuteSucceeds, ExecuteFails, RecordFailure, ReportResult,
         BackoffElapses, RecoverStalled
  <2> QED
    BY <2>1, <2>2
<1>3. ASSUME \A j \in Jobs : ~WorkerAction(j)
      PROVE  task'[i[1]] = "RUNNING"
  <2>1. worker[i] = "executing" /\ ~ProcessExits
    BY <1>3 DEF ProcessExits, Next, vars, TriggerRun, TriggerStep, CreateTask, LinkTask, DispatchFirst,
       HandlerStep, OnTaskCompleted, OnTaskFailed, ReadRun, ClaimTask, EnqueueTask, RollbackClaim,
       TallyTasks, ReadVerdict, EndRun, FailRun, CancelPending, CheckCancel, CancelRun, SweepStep,
       FindStaleRun, FailStaleRun, CancelStaleTasks, EditDefinition, RunAges, FaultStep, WorkerAction, TriggerFails,
       JobNotFound, EnqueueFails, Crash, Shutdown, ServerStep, Exit, Boot, Listen
  <2>2. trigger # "create" /\ task[i[1]] = "RUNNING"
    BY <2>1 DEF TriggerInv, HasJob
  <2> QED
    BY <1>1, <1>3, <2>1, <2>2, OtherTaskStep
<1> QED
  BY <1>2, <1>3

\* attemptsMade never decreases.
LEMMA AttemptsGrow ==
  ASSUME IndInv, [Next]_vars, NEW i \in Jobs
  PROVE  attemptsMade'[i] >= attemptsMade[i] /\ attemptsMade[i] \in Nat /\ attemptsMade'[i] \in Nat
<1> USE OrchestratorAssumption DEF IndInv, TypeOK
<1>1. attemptsMade'[i] \in {attemptsMade[i], attemptsMade[i] + 1}
  <2>1. CASE attemptsMade' = attemptsMade
    BY <2>1
  <2>2. ASSUME NEW j \in Jobs, ReportResult(j) \/ RecoverStalled(j)
        PROVE  attemptsMade'[i] \in {attemptsMade[i], attemptsMade[i] + 1}
    BY <2>2 DEF ReportResult, RecoverStalled
  <2> QED
    BY <2>1, <2>2 DEF Next, vars, TriggerRun, TriggerStep, CreateTask, LinkTask, DispatchFirst,
       WorkerAction, WorkerStep, ProcessorFails, StartJob, MarkRunning, ExecuteSucceeds, ExecuteFails, RecordFailure, BackoffElapses,
       HandlerStep, OnTaskCompleted, OnTaskFailed, ReadRun, ClaimTask, EnqueueTask, RollbackClaim,
       TallyTasks, ReadVerdict, EndRun, FailRun, CancelPending, CheckCancel, CancelRun, SweepStep,
       FindStaleRun, FailStaleRun, CancelStaleTasks, EditDefinition, RunAges, FaultStep, WorkerAction, TriggerFails,
       JobNotFound, EnqueueFails, Crash, Shutdown, ServerStep, Exit, Boot, Listen
<1> QED
  BY <1>1

\* A row becomes FAILED only by a job that is out of attempts.
LEMMA FailedStepInv == IndInv /\ [Next]_vars => FailedOnlyByLastAttempt'
<1> SUFFICES ASSUME IndInv, [Next]_vars, NEW t \in Tasks, task'[t] = "FAILED"
             PROVE  \E j \in JobsOf(t) : IsLastAttempt(j)'
  BY DEF FailedOnlyByLastAttempt, JobsOf
<1>1. \E j \in JobsOf(t) : IsLastAttempt(j)
  <2>1. CASE task[t] = "FAILED"
    BY <2>1 DEF IndInv, FailedOnlyByLastAttempt
  <2>2. CASE task[t] # "FAILED"
    <3>1. PICK j \in Jobs : WorkerAction(j)
      BY <2>2, OtherTaskStep
    <3>2. j[1] = t /\ IsLastAttempt(j)
      BY <3>1, <2>2 DEF WorkerAction, WorkerStep, ProcessorFails, StartJob, MarkRunning, ExecuteSucceeds, ExecuteFails, RecordFailure, StatusAfterFailure,
         ReportResult, BackoffElapses, RecoverStalled, IndInv, TypeOK
    <3> QED
      BY <3>2 DEF JobsOf
  <2> QED
    BY <2>1, <2>2
<1>2. \A j \in JobsOf(t) : IsLastAttempt(j) => IsLastAttempt(j)'
  BY AttemptsGrow, OrchestratorAssumption DEF IsLastAttempt, JobsOf
<1> QED
  BY <1>1, <1>2
-----------------------------------------------------------------------------
\* IndInv holds in every reachable state, for all values of the constants.
THEOREM Invariance == Spec => []IndInv
<1>1. IndInv /\ [Next]_vars => IndInv'
  BY TypeStep, TriggerStepInv, LinkStepInv, JobStepInv, AgentStepInv, ReadyStepInv,
     CompletedStepInv, ExecutingStepInv, FailedStepInv DEF IndInv
<1> QED
  BY InitIndInv, <1>1, PTL DEF Spec

\* Type correctness.
THEOREM TypeCorrect == Spec => []TypeOK
<1>1. IndInv => TypeOK
  BY DEF IndInv
<1> QED
  BY Invariance, <1>1, PTL

\* Whatever crashes, faults, edits, cancels and duplicate jobs occur, no task
\* is started before all the tasks it depends on have finished once.
THEOREM DispatchRespectsDependencies == Spec => []DependencyOrder
<1>1. IndInv => DependencyOrder
  BY DEF IndInv, ReadyInv, Ready, DependencyOrder
<1> QED
  BY Invariance, <1>1, PTL

\* The row of a task shows RUNNING as long as an agent executes it.
THEOREM AgentWorkIsVisible == Spec => []ExecutingTaskIsRunning
<1>1. IndInv => ExecutingTaskIsRunning
  BY DEF IndInv
<1> QED
  BY Invariance, <1>1, PTL

\* A row is FAILED only when a job of the task was out of attempts.
THEOREM RetriesPrecedeFailure == Spec => []FailedOnlyByLastAttempt
<1>1. IndInv => FailedOnlyByLastAttempt
  BY DEF IndInv
<1> QED
  BY Invariance, <1>1, PTL

\* A late completion is discarded: COMPLETED is only ever written over RUNNING,
\* and a run that has ended is never RUNNING again.
THEOREM NoLateCompletion == Spec => LateCompletionDiscarded
<1>1. IndInv /\ [Next]_vars => [/\ run' = "COMPLETED" => run \in {"RUNNING", "COMPLETED"}
                                /\ run' = "RUNNING" => run \in {"none", "RUNNING"}]_vars
  <2> SUFFICES ASSUME IndInv, [Next]_vars
               PROVE  /\ run' = "COMPLETED" => run \in {"RUNNING", "COMPLETED"}
                      /\ run' = "RUNNING" => run \in {"none", "RUNNING"}
    OBVIOUS
  <2>1. CASE TriggerRun
    BY <2>1 DEF TriggerRun, IndInv, TriggerInv
  <2>2. ASSUME NEW j \in Jobs, EndRun(j)
        PROVE  run' \in {run, "FAILED"} \/ (run = "RUNNING" /\ run' = "COMPLETED")
    BY <2>2 DEF EndRun, RunAfter
  <2>3. run' \in {run, "FAILED", "CANCELLED"} \/ TriggerRun \/ \E j \in Jobs : EndRun(j)
    BY DEF Next, vars, TriggerStep, CreateTask, LinkTask, DispatchFirst, WorkerAction, WorkerStep, ProcessorFails, StartJob, MarkRunning,
       ExecuteSucceeds, ExecuteFails, RecordFailure, ReportResult, BackoffElapses, RecoverStalled,
       HandlerStep, OnTaskCompleted, OnTaskFailed, ReadRun, ClaimTask, EnqueueTask, RollbackClaim,
       TallyTasks, ReadVerdict, FailRun, CancelPending, CheckCancel, CancelRun, SweepStep,
       FindStaleRun, FailStaleRun, CancelStaleTasks, EditDefinition, RunAges, FaultStep, WorkerAction, TriggerFails,
       JobNotFound, EnqueueFails, Crash, Shutdown, ServerStep, Exit, Boot, Listen
  <2> QED
    BY <2>1, <2>2, <2>3
<1> QED
  BY Invariance, <1>1, PTL DEF Spec, LateCompletionDiscarded

-----------------------------------------------------------------------------
(***************************************************************************)
(* Runs that nothing has disturbed.  CalmSteps sorts their steps by what   *)
(* they do to the rows, the jobs and the hands they are in.                *)
(***************************************************************************)
\* Neither a row nor a job is concerned.
Rest == UNCHANGED <<task, completedAt, job, worker, adding, attemptsMade>>
\* A handler, the user or the sweeper cancels what is PENDING.
CancelsPending ==
  task' = PendingCancelled /\ UNCHANGED <<completedAt, job, worker, adding, attemptsMade>>
\* The handler of job j claims task t.
Claims(j, t) == ClaimTask(j, t) /\ task[t] = "PENDING"
\* An agent takes, executes or gives back its job.
AgentStep(j) ==
  StartJob(j) \/ MarkRunning(j) \/ ExecuteSucceeds(j) \/ ExecuteFails(j) \/ ReportResult(j)
\* A job comes to wait in the queue.
QueueStep(j) == BackoffElapses(j) \/ EnqueueTask(j)

\* A run that is undisturbed now was so before.
LEMMA UndisturbedBefore ==
  ASSUME IndInv, [Next]_vars, Undisturbed'
  PROVE  Undisturbed /\ ~FaultStep
<1> USE OrchestratorAssumption DEF IndInv, TypeOK, Undisturbed
<1>1. restarts \in Nat /\ faults \in Nat
  OBVIOUS
<1>2. ~FaultStep
  <2>1. ~Fault
    BY <1>1 DEF Fault
  <2>2. ~Crash /\ ~Shutdown
    BY <1>1 DEF Crash, Shutdown
  <2> QED
    BY <2>1, <2>2 DEF FaultStep, TriggerFails, ProcessorFails, JobNotFound, EnqueueFails
<1>3. restarts' = restarts /\ faults' = faults
  BY <1>2 DEF Next, vars, TriggerRun, TriggerStep, CreateTask, LinkTask, DispatchFirst,
     WorkerStep, StartJob, MarkRunning, ExecuteSucceeds, ExecuteFails, ReportResult, BackoffElapses,
     RecoverStalled, HandlerStep, OnTaskCompleted, OnTaskFailed, ReadRun, ClaimTask, EnqueueTask,
     RollbackClaim, ProcessExits, TallyTasks, ReadVerdict, EndRun, FailRun, CancelPending,
     CheckCancel, CancelRun, SweepStep, FindStaleRun, FailStaleRun, CancelStaleTasks,
     EditDefinition, RunAges, ServerStep, Exit, Boot, Listen
<1> QED
  BY <1>2, <1>3

\* What a step of an undisturbed run does to the rows and the jobs.
LEMMA CalmSteps ==
  ASSUME IndInv, SmoothInv, [Next]_vars, Undisturbed'
  PROVE  \/ Rest
         \/ CancelsPending
         \/ \E t \in Tasks : CreateTask(t) \/ DispatchFirst(t)
         \/ \E j \in Jobs : AgentStep(j) \/ QueueStep(j) \/ \E t \in Tasks : Claims(j, t)
<1> DEFINE Goal == \/ Rest
                   \/ CancelsPending
                   \/ \E t \in Tasks : CreateTask(t) \/ DispatchFirst(t)
                   \/ \E j \in Jobs : AgentStep(j) \/ QueueStep(j) \/ \E t \in Tasks : Claims(j, t)
<1>1. ~FaultStep /\ ~ServerStep
  BY UndisturbedBefore DEF SmoothInv, ServerStep, Exit, Boot, Listen
<1>2. ASSUME NEW j \in Jobs, WorkerStep(j)
      PROVE  Goal
  BY <1>2 DEF WorkerStep, AgentStep, QueueStep, RecoverStalled, SmoothInv
<1>3. ASSUME NEW j \in Jobs, NEW t \in Tasks, ClaimTask(j, t)
      PROVE  Goal
  BY <1>3 DEF ClaimTask, Claims, Rest
<1>4. ASSUME NEW j \in Jobs, HandlerStep(j), \A t \in Tasks : ~ClaimTask(j, t)
      PROVE  Goal
  BY <1>4 DEF HandlerStep, QueueStep, OnTaskCompleted, OnTaskFailed, ReadRun, RollbackClaim, TallyTasks,
     ReadVerdict, EndRun, FailRun, CancelPending, CancelsPending, Rest, SmoothInv
<1>5. ASSUME TriggerRun \/ TriggerStep
      PROVE  Goal
  BY <1>5 DEF TriggerRun, TriggerStep, LinkTask, Rest
<1>6. ASSUME CheckCancel \/ CancelRun \/ SweepStep \/ EditDefinition \/ RunAges
      PROVE  Goal
  BY <1>6 DEF CheckCancel, CancelRun, SweepStep, FindStaleRun, FailStaleRun, CancelStaleTasks,
     EditDefinition, RunAges, CancelsPending, Rest
<1>7. CASE UNCHANGED vars
  BY <1>7 DEF vars, Rest
<1> QED
  BY <1>1, <1>2, <1>3, <1>4, <1>5, <1>6, <1>7 DEF Next

\* Who is enqueueing a task, or has it in hand, holds a job that exists.
LEMMA AddingHolds ==
  ASSUME IndInv, NEW j \in Jobs, adding[j] # NoTask
  PROVE  adding[j] \in Tasks /\ HasJob(j) /\ handler[j] \in {"add", "rollback"}
BY DEF IndInv, TypeOK, JobInv, HasJob

\* triggerRun creates rows while there is no job, no claim and no work.
LEMMA NoJobsYet ==
  ASSUME IndInv, trigger = "create"
  PROVE  \A j \in Jobs : ~HasJob(j) /\ adding[j] = NoTask /\ worker[j] = "idle" /\ handler[j] = "idle"
BY AddingHolds DEF IndInv, TypeOK, TriggerInv, JobInv, HasJob

\* Only triggerRun moves triggerRun on; a fault or the end of the process ends it.
LEMMA TriggerMoves ==
  ASSUME [Next]_vars, ~TriggerRun, \A t \in Tasks : ~CreateTask(t) /\ ~LinkTask(t) /\ ~DispatchFirst(t)
  PROVE  \/ trigger' = trigger /\ remaining' = remaining
         \/ trigger' = "done"
         \/ trigger' = "idle" /\ trigger = "idle"
<1> DEFINE Goal == \/ trigger' = trigger /\ remaining' = remaining
                   \/ trigger' = "done"
                   \/ trigger' = "idle" /\ trigger = "idle"
<1>1. ASSUME NEW j \in Jobs, WorkerAction(j) PROVE Goal
  BY <1>1 DEF WorkerAction, WorkerStep, ProcessorFails, StartJob, MarkRunning, ExecuteSucceeds, ExecuteFails,
     ReportResult, BackoffElapses, RecoverStalled
<1>2. ASSUME NEW j \in Jobs, HandlerStep(j) \/ JobNotFound(j) \/ EnqueueFails(j) PROVE Goal
  BY <1>2 DEF JobNotFound, EnqueueFails, HandlerStep, OnTaskCompleted, OnTaskFailed,
     ReadRun, ClaimTask, EnqueueTask, RollbackClaim, ProcessExits, TallyTasks, ReadVerdict,
     EndRun, FailRun, CancelPending
<1>3. ASSUME CheckCancel \/ CancelRun \/ SweepStep \/ EditDefinition \/ RunAges \/ TriggerFails PROVE Goal
  BY <1>3 DEF CheckCancel, CancelRun, SweepStep, FindStaleRun, FailStaleRun, CancelStaleTasks,
     EditDefinition, RunAges, TriggerFails
<1>4. ASSUME Crash \/ Shutdown \/ ServerStep PROVE Goal
  BY <1>4 DEF Crash, Shutdown, ServerStep, Exit, Boot, Listen, ProcessExits
<1>5. CASE UNCHANGED vars
  BY <1>5 DEF vars
<1> QED
  BY <1>1, <1>2, <1>3, <1>4, <1>5 DEF Next, TriggerStep, FaultStep, WorkerAction

\* A row that triggerRun has not created yet, nobody else creates.
LEMMA NoneStays ==
  ASSUME IndInv, [Next]_vars, NEW t \in Tasks, task[t] = "none", \A u \in Tasks : ~CreateTask(u),
         \A j \in Jobs : ~WorkerAction(j) /\ ~RollbackClaim(j)
  PROVE  task'[t] = "none"
<1> DEFINE Goal == task'[t] = "none"
<1> USE DEF IndInv, TypeOK
<1>1. CASE task' = task
  BY <1>1
<1>2. CASE task' = PendingCancelled
  BY <1>2 DEF PendingCancelled
<1>3. ASSUME NEW j \in Jobs, HandlerStep(j) \/ JobNotFound(j) \/ EnqueueFails(j) PROVE Goal
  BY <1>1, <1>2, <1>3 DEF HandlerStep, OnTaskCompleted, OnTaskFailed, ReadRun, JobNotFound, ClaimTask,
     EnqueueTask, EnqueueFails, TallyTasks, ReadVerdict, EndRun, FailRun, CancelPending
<1>4. ASSUME TriggerRun \/ TriggerStep \/ TriggerFails PROVE Goal
  BY <1>1, <1>4 DEF TriggerRun, TriggerStep, LinkTask, DispatchFirst, TriggerFails
<1>5. ASSUME CheckCancel \/ CancelRun \/ SweepStep \/ EditDefinition \/ RunAges PROVE Goal
  BY <1>1, <1>2, <1>5 DEF CheckCancel, CancelRun, SweepStep, FindStaleRun, FailStaleRun,
     CancelStaleTasks, EditDefinition, RunAges
<1>6. ASSUME Crash \/ Shutdown \/ ServerStep PROVE Goal
  BY <1>1, <1>6 DEF Crash, Shutdown, ServerStep, Exit, Boot, Listen
<1>7. CASE UNCHANGED vars
  BY <1>1, <1>7 DEF vars
<1> QED
  BY <1>3, <1>4, <1>5, <1>6, <1>7 DEF Next, FaultStep, WorkerAction

\* Every row is created once, before it is linked and before a job is added.
LEMMA RowsStepInv == IndInv /\ RowsInv /\ [Next]_vars => RowsInv'
<1> SUFFICES ASSUME IndInv, RowsInv, [Next]_vars PROVE RowsInv'
  OBVIOUS
<1> USE DEF IndInv, TypeOK
<1>1. ASSUME NEW t \in Tasks, task[t] # "none" PROVE task'[t] # "none"
  <2>1. ASSUME NEW j \in Jobs, WorkerAction(j) PROVE task'[t] # "none"
    BY <1>1, <2>1 DEF WorkerAction, WorkerStep, ProcessorFails, StartJob, MarkRunning, ExecuteSucceeds,
       ExecuteFails, RecordFailure, StatusAfterFailure, ReportResult, BackoffElapses, RecoverStalled
  <2> QED
    BY <1>1, <2>1, OtherTaskStep
<1>2. CASE TriggerRun
  BY <1>2 DEF TriggerRun, RowsInv, TriggerInv, HasJob
<1>3. ASSUME NEW t \in Tasks, CreateTask(t) PROVE RowsInv'
  <2>1. \A j \in Jobs : ~HasJob(j)'
    BY <1>3, NoJobsYet DEF CreateTask, HasJob
  <2> QED
    BY <1>3, <2>1 DEF CreateTask, NextNode, RowsInv
<1>4. ASSUME NEW t \in Tasks, LinkTask(t) PROVE RowsInv'
  BY <1>4 DEF LinkTask, NextNode, RowsInv
<1>5. ASSUME NEW t \in Tasks, DispatchFirst(t) PROVE RowsInv'
  BY <1>1, <1>5 DEF DispatchFirst, NextNode, RowsInv
<1>6. ASSUME ~TriggerRun, \A t \in Tasks : ~CreateTask(t) /\ ~LinkTask(t) /\ ~DispatchFirst(t)
      PROVE  RowsInv'
  <2>1. \/ trigger' = trigger /\ remaining' = remaining
        \/ trigger' = "done"
        \/ trigger' = "idle" /\ trigger = "idle"
    BY <1>6, TriggerMoves
  <2>2. ASSUME NEW i \in Jobs, HasJob(i)' PROVE \A t \in Tasks : task[t] # "none"
    <3>1. HasJob(i) \/ trigger = "dispatch" \/ \E j \in Jobs : handler[j] = "add"
      BY <2>2, QueueGrowth
    <3>2. ASSUME NEW j \in Jobs, handler[j] = "add" PROVE HasJob(j)
      BY <3>2 DEF JobInv, HasJob
    <3> QED
      BY <3>1, <3>2 DEF RowsInv
  <2>3. ASSUME NEW t \in Tasks, task[t] = "none" PROVE task'[t] = "none"
    <3>1. \A j \in Jobs : ~HasJob(j) /\ handler[j] = "idle"
      BY <2>3 DEF RowsInv, JobInv, HasJob
    <3>2. \A j \in Jobs : ~WorkerAction(j) /\ ~RollbackClaim(j)
      BY <3>1, JobStepHasJob DEF RollbackClaim
    <3> QED
      BY <1>6, <2>3, <3>1, <3>2, NoneStays
  <2> QED
    BY <1>1, <2>1, <2>2, <2>3 DEF RowsInv
<1> QED
  BY <1>2, <1>3, <1>4, <1>5, <1>6

\* Without a fault the process stays up and no claim is rolled back.
LEMMA CalmServer ==
  ASSUME IndInv, SmoothInv, [Next]_vars, Undisturbed'
  PROVE  phase' = "up" /\ \A i \in Jobs : handler'[i] # "rollback"
<1> DEFINE Goal == phase' = "up" /\ \A i \in Jobs : handler'[i] # "rollback"
<1> USE DEF IndInv, TypeOK
<1>1. phase = "up" /\ \A i \in Jobs : handler[i] # "rollback"
  BY DEF SmoothInv
<1>2. CASE phase' = phase /\ handler' = handler
  BY <1>1, <1>2
<1>3. ASSUME NEW j \in Jobs, WorkerStep(j)
      PROVE  Goal
  BY <1>1, <1>2, <1>3 DEF WorkerStep, StartJob, MarkRunning, ExecuteSucceeds, ExecuteFails,
     ReportResult, BackoffElapses, RecoverStalled
<1>4. ASSUME NEW j \in Jobs, HandlerStep(j)
      PROVE  Goal
  <2>1. ~RollbackClaim(j)
    BY <1>1 DEF RollbackClaim
  <2>2. phase' = phase /\ \E pc \in HandlerPC \ {"rollback"} : Goto(j, pc)
    BY <1>4, <2>1 DEF HandlerStep, OnTaskCompleted, OnTaskFailed, BeginDispatch, ReadRun, ClaimTask,
       EnqueueTask, AfterTask, TallyTasks, ReadVerdict, EndRun, FailRun, CancelPending, Goto, HandlerPC
  <2> QED
    BY <1>1, <2>2 DEF Goto
<1>5. ASSUME TriggerRun \/ TriggerStep \/ CheckCancel \/ CancelRun \/ SweepStep
      PROVE  Goal
  BY <1>1, <1>2, <1>5 DEF TriggerRun, TriggerStep, CreateTask, LinkTask, DispatchFirst, CheckCancel,
     CancelRun, SweepStep, FindStaleRun, FailStaleRun, CancelStaleTasks
<1>6. ASSUME EditDefinition \/ RunAges
      PROVE  Goal
  BY <1>1, <1>2, <1>6 DEF EditDefinition, RunAges
<1>7. CASE UNCHANGED vars
  BY <1>1, <1>2, <1>7 DEF vars
<1>8. ~FaultStep /\ ~ServerStep
  BY <1>1, UndisturbedBefore DEF ServerStep, Exit, Boot, Listen
<1> QED
  BY <1>3, <1>4, <1>5, <1>6, <1>7, <1>8 DEF Next

\* What came of an active job stays in its agent's hands and in its row.
LEMMA SmoothStepInv ==
  ASSUME IndInv, SmoothInv, [Next]_vars, Undisturbed'
  PROVE  SmoothInv'
<1> DEFINE Hands(i) == /\ job[i] = "active" => worker[i] # "idle"
                       /\ worker[i] = "succeeded" => task[i[1]] = "COMPLETED"
                       /\ worker[i] = "erred" => task[i[1]] = StatusAfterFailure(i)
<1> SUFFICES ASSUME NEW i \in Jobs PROVE Hands(i)'
  BY CalmServer DEF SmoothInv
<1> USE DEF IndInv, TypeOK
<1>1. Hands(i) /\ i[1] \in Tasks
  BY JobTask DEF SmoothInv
<1>2. CASE Rest
  BY <1>1, <1>2 DEF Rest, StatusAfterFailure, IsLastAttempt
<1>3. CASE CancelsPending
  BY <1>1, <1>3 DEF CancelsPending, PendingCancelled, StatusAfterFailure, IsLastAttempt
<1>4. ASSUME NEW t \in Tasks, CreateTask(t)
      PROVE  Hands(i)'
  BY <1>1, <1>4, NoJobsYet DEF CreateTask, HasJob
<1>5. ASSUME NEW t \in Tasks, DispatchFirst(t)
      PROVE  Hands(i)'
  BY <1>1, <1>5, TaskJobs DEF DispatchFirst, AddJob, StatusAfterFailure, IsLastAttempt
<1>6. ASSUME NEW j \in Jobs, QueueStep(j)
      PROVE  Hands(i)'
  BY <1>1, <1>6, TaskJobs DEF QueueStep, BackoffElapses, EnqueueTask, AddJob, StatusAfterFailure, IsLastAttempt
<1>7. ASSUME NEW j \in Jobs, NEW t \in Tasks, Claims(j, t)
      PROVE  Hands(i)'
  BY <1>1, <1>7 DEF Claims, ClaimTask, StatusAfterFailure, IsLastAttempt
<1>8. ASSUME NEW j \in Jobs, AgentStep(j)
      PROVE  Hands(i)'
  <2>1. CASE i = j
    <3>1. CASE StartJob(j) \/ MarkRunning(j) \/ ReportResult(j)
      BY <1>1, <2>1, <3>1 DEF StartJob, MarkRunning, ReportResult, JobInv
    <3>2. CASE ExecuteSucceeds(j)
      BY <1>1, <2>1, <3>2 DEF ExecuteSucceeds
    <3>3. CASE ExecuteFails(j)
      BY <1>1, <2>1, <3>3 DEF ExecuteFails, RecordFailure, StatusAfterFailure, IsLastAttempt
    <3> QED
      BY <1>8, <2>1, <3>1, <3>2, <3>3 DEF AgentStep
  <2>2. CASE i # j
    <3>1. worker'[i] = worker[i] /\ job'[i] = job[i] /\ attemptsMade'[i] = attemptsMade[i]
      BY <1>8, <2>2 DEF AgentStep, StartJob, MarkRunning, ExecuteSucceeds, ExecuteFails, ReportResult
    <3>2. task'[i[1]] = task[i[1]] \/ worker[i] = "idle"
      <4>1. CASE worker[j] = "idle"
        BY <1>8, <4>1 DEF AgentStep, StartJob, MarkRunning, ExecuteSucceeds, ExecuteFails, ReportResult
      <4>2. CASE worker[j] # "idle" /\ i[1] = j[1]
        BY <2>2, <4>2 DEF AgentInv
      <4>3. CASE i[1] # j[1]
        <5>1. task' = task \/ \E s \in TaskStatus : task' = [task EXCEPT ![j[1]] = s]
          BY <1>8 DEF AgentStep, StartJob, MarkRunning, ExecuteSucceeds, ExecuteFails, RecordFailure,
             StatusAfterFailure, ReportResult, TaskStatus
        <5> QED
          BY <1>1, <4>3, <5>1
      <4> QED
        BY <4>1, <4>2, <4>3
    <3> QED
      BY <1>1, <3>1, <3>2 DEF StatusAfterFailure, IsLastAttempt
  <2> QED
    BY <2>1, <2>2
<1> QED
  BY <1>2, <1>3, <1>4, <1>5, <1>6, <1>7, <1>8, CalmSteps

\* Nobody claims or enqueues what has been claimed or enqueued.
LEMMA ClaimStepInv ==
  ASSUME IndInv, SmoothInv, ClaimInv, [Next]_vars, Undisturbed'
  PROVE  ClaimInv'
<1> USE DEF IndInv, TypeOK
<1> USE OrchestratorAssumption
<1>1. CASE Rest
  BY <1>1 DEF Rest, ClaimInv, HasJob
<1>2. CASE CancelsPending
  BY <1>2 DEF CancelsPending, PendingCancelled, ClaimInv, HasJob
<1>3. ASSUME NEW t \in Tasks, CreateTask(t)
      PROVE  ClaimInv'
  <2>1. job' = job /\ adding' = adding /\ trigger = "create"
    BY <1>3 DEF CreateTask
  <2>2. \A i \in Jobs : job'[i] = "none" /\ adding'[i] = NoTask
    BY <2>1, NoJobsYet DEF HasJob
  <2>3. \A u \in Tasks : u # NoTask
    OBVIOUS
  <2> HIDE DEF IndInv, TypeOK
  <2> QED
    BY <2>2, <2>3, TaskJobs DEF ClaimInv, HasJob
<1>4. ASSUME NEW u \in Tasks, DispatchFirst(u)
      PROVE  ClaimInv'
  <2>1. \A t \in Tasks : HasJob(<<t, "task">>)' <=> HasJob(<<t, "task">>)
    BY <1>4, TaskJobs DEF DispatchFirst, AddJob, HasJob
  <2>2. task' = task /\ adding' = adding
    BY <1>4 DEF DispatchFirst
  <2> QED
    BY <2>1, <2>2, AddingHolds DEF ClaimInv
<1>5. ASSUME NEW j \in Jobs, EnqueueTask(j)
      PROVE  ClaimInv'
  <2>1. adding[j] \in Tasks
    BY <1>5 DEF EnqueueTask, JobInv
  <2>2. \A t \in Tasks : HasJob(<<t, "task">>)' <=> HasJob(<<t, "task">>) \/ t = adding[j]
    BY <1>5, <2>1, TaskJobs DEF EnqueueTask, AddJob, HasJob
  <2>3. task' = task /\ adding'[j] = NoTask /\ \A i \in Jobs : i # j => adding'[i] = adding[i]
    BY <1>5 DEF EnqueueTask
  <2> QED
    BY <2>1, <2>2, <2>3, AddingHolds DEF ClaimInv
<1>6. ASSUME NEW j \in Jobs, NEW t \in Tasks, Claims(j, t)
      PROVE  ClaimInv'
  <2>1. job' = job /\ task[t] = "PENDING"
    BY <1>6 DEF Claims, ClaimTask
  <2>2. adding'[j] = t /\ \A i \in Jobs : i # j => adding'[i] = adding[i]
    BY <1>6 DEF Claims, ClaimTask
  <2>3. task'[t] = "RUNNING" /\ \A u \in Tasks : u # t => task'[u] = task[u]
    BY <1>6 DEF Claims, ClaimTask
  <2>4. ~HasJob(<<t, "task">>) /\ \A i \in Jobs : adding[i] # t
    BY <2>1 DEF ClaimInv
  <2>5. \A u \in Tasks : task'[u] \in {"none", "PENDING"} =>
          ~HasJob(<<u, "task">>) /\ \A i \in Jobs : adding'[i] # u
    BY <2>2, <2>3 DEF ClaimInv
  <2>6. \A i \in Jobs : adding'[i] # NoTask => ~HasJob(<<adding'[i], "task">>)
    BY <2>2, <2>4 DEF ClaimInv
  <2>7. \A h, i \in Jobs : adding'[h] # NoTask /\ adding'[h] = adding'[i] => h = i
    BY <2>2, <2>4 DEF ClaimInv
  <2> QED
    BY <2>1, <2>5, <2>6, <2>7 DEF ClaimInv, HasJob
<1>7. ASSUME NEW j \in Jobs, AgentStep(j) \/ BackoffElapses(j)
      PROVE  ClaimInv'
  <2>1. adding' = adding /\ \A i \in Jobs : HasJob(i)' <=> HasJob(i)
    BY <1>7 DEF AgentStep, StartJob, MarkRunning, ExecuteSucceeds, ExecuteFails, ReportResult,
       BackoffElapses, HasJob, JobInv
  <2>2. \A t \in Tasks : task'[t] \in {"none", "PENDING"} => task[t] \in {"none", "PENDING"}
    BY <1>7 DEF AgentStep, StartJob, MarkRunning, ExecuteSucceeds, ExecuteFails, RecordFailure,
       StatusAfterFailure, ReportResult, BackoffElapses
  <2>3. \A i \in Jobs : adding[i] # NoTask => <<adding[i], "task">> \in Jobs
    BY AddingHolds, TaskJobs
  <2> HIDE DEF IndInv, TypeOK
  <2>4. \A t \in Tasks : task'[t] \in {"none", "PENDING"} =>
          ~HasJob(<<t, "task">>)' /\ \A i \in Jobs : adding'[i] # t
    BY <2>1, <2>2, TaskJobs DEF ClaimInv
  <2>5. \A i \in Jobs : adding'[i] # NoTask => ~HasJob(<<adding[i], "task">>)
    BY <2>1 DEF ClaimInv
  <2>6. \A i \in Jobs : adding'[i] # NoTask => job'[<<adding'[i], "task">>] = "none"
    BY <2>1, <2>3, <2>5 DEF HasJob
  <2> QED
    BY <2>1, <2>4, <2>6 DEF ClaimInv, HasJob
<1>8. ASSUME NEW j \in Jobs, QueueStep(j)
      PROVE  ClaimInv'
  BY <1>5, <1>7, <1>8 DEF QueueStep
<1> QED
  BY <1>1, <1>2, <1>3, <1>4, <1>6, <1>7, <1>8, CalmSteps

\* A RUNNING row changes hands: from its claimant to the queue, to the agent,
\* back to the queue, until it is final.
LEMMA RunningStepInv ==
  ASSUME IndInv, SmoothIndInv, [Next]_vars, Undisturbed'
  PROVE  RunningTaskHasJob'
<1> DEFINE Live(i) == job[i] \in {"waiting", "active", "delayed"}
           Held(t) == (\E i \in JobsOf(t) : Live(i)) \/ \E i \in Jobs : adding[i] = t
<1> SUFFICES ASSUME NEW t \in Tasks, task'[t] = "RUNNING" PROVE Held(t)'
  BY DEF RunningTaskHasJob, JobsOf
<1> USE OrchestratorAssumption DEF IndInv, TypeOK
<1>1. task[t] = "RUNNING" => Held(t)
  BY DEF SmoothIndInv, RunningTaskHasJob
<1>2. CASE Rest
  BY <1>1, <1>2 DEF Rest, JobsOf
<1>3. CASE CancelsPending
  BY <1>1, <1>3 DEF CancelsPending, PendingCancelled, JobsOf
<1>4. ASSUME NEW u \in Tasks, CreateTask(u)
      PROVE  Held(t)'
  BY <1>1, <1>4 DEF CreateTask, JobsOf
<1>5. ASSUME NEW u \in Tasks, DispatchFirst(u)
      PROVE  Held(t)'
  <2>1. adding' = adding /\ task' = task /\ \A i \in Jobs : Live(i) => Live(i)'
    BY <1>5, TaskJobs DEF DispatchFirst, AddJob
  <2> QED
    BY <1>1, <2>1 DEF JobsOf
<1>6. ASSUME NEW j \in Jobs, EnqueueTask(j)
      PROVE  Held(t)'
  <2>1. adding[j] \in Tasks /\ adding[j] # NoTask
    BY <1>6 DEF EnqueueTask, JobInv
  <2>2. \A i \in Jobs : Live(i) => Live(i)'
    BY <1>6, <2>1, TaskJobs DEF EnqueueTask, AddJob
  <2>3. job'[<<adding[j], "task">>] = "waiting"
    <3>1. job[<<adding[j], "task">>] = "none"
      BY <2>1 DEF SmoothIndInv, ClaimInv, HasJob
    <3> QED
      BY <1>6, <2>1, <3>1, TaskJobs DEF EnqueueTask, AddJob
  <2>4. task' = task /\ \A i \in Jobs : i # j => adding'[i] = adding[i]
    BY <1>6 DEF EnqueueTask
  <2> QED
    <3>1. CASE adding[j] = t
      BY <2>3, <3>1, TaskJobs DEF JobsOf
    <3>2. CASE adding[j] # t
      BY <1>1, <2>2, <2>4, <3>2 DEF JobsOf
    <3> QED
      BY <3>1, <3>2
<1>7. ASSUME NEW j \in Jobs, NEW u \in Tasks, Claims(j, u)
      PROVE  Held(t)'
  <2>1. job' = job /\ adding[j] = NoTask
    BY <1>7 DEF Claims, ClaimTask, JobInv
  <2>2. adding' = [adding EXCEPT ![j] = u] /\ task' = [task EXCEPT ![u] = "RUNNING"]
    BY <1>7 DEF Claims, ClaimTask
  <2> QED
    BY <1>1, <2>1, <2>2 DEF JobsOf
<1>8. ASSUME NEW j \in Jobs, StartJob(j) \/ MarkRunning(j) \/ ExecuteSucceeds(j) \/ ExecuteFails(j)
                             \/ BackoffElapses(j)
      PROVE  Held(t)'
  <2>1. adding' = adding /\ Live(j)' /\ \A i \in Jobs : Live(i) => Live(i)'
    BY <1>8 DEF StartJob, MarkRunning, ExecuteSucceeds, ExecuteFails, BackoffElapses, JobInv
  <2>2. task[t] = "RUNNING" \/ j[1] = t
    BY <1>8 DEF StartJob, MarkRunning, ExecuteSucceeds, ExecuteFails, RecordFailure, BackoffElapses
  <2> QED
    BY <1>1, <2>1, <2>2 DEF JobsOf
<1>9. ASSUME NEW j \in Jobs, ReportResult(j)
      PROVE  Held(t)'
  <2>1. task' = task /\ adding' = adding /\ \A i \in Jobs : i # j => job'[i] = job[i]
    BY <1>9 DEF ReportResult
  <2>2. j[1] = t => job'[j] = "delayed"
    BY <1>9, <2>1 DEF ReportResult, SmoothIndInv, SmoothInv, StatusAfterFailure
  <2> QED
    BY <1>1, <2>1, <2>2 DEF JobsOf
<1>10. ASSUME NEW j \in Jobs, AgentStep(j) \/ QueueStep(j)
       PROVE  Held(t)'
  BY <1>6, <1>8, <1>9, <1>10 DEF QueueStep, AgentStep
<1> QED
  BY <1>2, <1>3, <1>4, <1>5, <1>7, <1>10, CalmSteps DEF SmoothIndInv

\* A job is the one its task is dispatched by, or the other one.
LEMMA TwoJobs ==
  ASSUME NEW r, NEW i \in Jobs
  PROVE  /\ i = JobOf(r, i[1]) \/ i = OtherJobOf(r, i[1])
         /\ JobOf(r, i[1]) # OtherJobOf(r, i[1])
BY DEF Jobs, JobOf, OtherJobOf

\* Both are jobs of the task.
LEMMA JobOfTask ==
  ASSUME NEW r, NEW t \in Tasks
  PROVE  /\ JobOf(r, t) \in Jobs /\ JobOf(r, t)[1] = t
         /\ OtherJobOf(r, t) \in Jobs /\ OtherJobOf(r, t)[1] = t
BY DEF Jobs, JobOf, OtherJobOf

\* With one first node, a job that exists is the one of its task.
LEMMA OnlyJob ==
  ASSUME NEW r, RowFollowsJob(r), NEW i \in Jobs, HasJob(i)
  PROVE  i = JobOf(r, i[1])
BY TwoJobs, JobTask DEF RowFollowsJob

\* No second job is enqueued: triggerRun enqueues the first node only, and it
\* is never claimed.
LEMMA OtherJobStep ==
  ASSUME NEW r, OneFirstNode(r), IndInv, SmoothInv, RowFollowsJob(r), [Next]_vars, Undisturbed',
         NEW t \in Tasks
  PROVE  ~HasJob(OtherJobOf(r, t))'
<1> DEFINE o == OtherJobOf(r, t)
<1>1. o \in Jobs /\ o[1] = t /\ ~HasJob(o)
  BY JobOfTask DEF RowFollowsJob
<1>2. OtherJobOf(r, t)' = o
  BY DEF OtherJobOf
<1>3. job[o] = "none"
  BY <1>1 DEF HasJob
<1> SUFFICES job'[o] = "none"
  BY <1>2 DEF HasJob
<1> USE DEF IndInv, TypeOK
<1>4. CASE job' = job
  BY <1>3, <1>4
<1>5. ASSUME NEW u \in Tasks, DispatchFirst(u) PROVE job'[o] = "none"
  <2>1. u = r
    BY <1>5, FirstTasksReady DEF DispatchFirst, TriggerInv, OneFirstNode
  <2>2. o # <<u, "auto">>
    BY <2>1 DEF OtherJobOf
  <2> QED
    BY <1>1, <1>3, <1>5, <2>2 DEF DispatchFirst, AddJob
<1>6. ASSUME NEW j \in Jobs, EnqueueTask(j) PROVE job'[o] = "none"
  <2>1. adding[j] \in Tasks /\ adding[j] # r
    BY <1>6 DEF EnqueueTask, JobInv, RowFollowsJob
  <2>2. o # <<adding[j], "task">>
    BY <2>1 DEF OtherJobOf
  <2> QED
    BY <1>1, <1>3, <1>6, <2>2 DEF EnqueueTask, AddJob
<1>7. ASSUME NEW j \in Jobs, AgentStep(j) \/ BackoffElapses(j) PROVE job'[o] = "none"
  <2>1. job[j] # "none"
    BY <1>7 DEF AgentStep, StartJob, MarkRunning, ExecuteSucceeds, ExecuteFails, ReportResult,
       BackoffElapses, JobInv
  <2> QED
    BY <1>1, <1>3, <1>7, <2>1 DEF AgentStep, StartJob, MarkRunning, ExecuteSucceeds, ExecuteFails, ReportResult,
       BackoffElapses
<1>8. ASSUME NEW j \in Jobs, QueueStep(j) PROVE job'[o] = "none"
  BY <1>6, <1>7, <1>8 DEF QueueStep
<1>9. ASSUME NEW j \in Jobs, NEW u \in Tasks, Claims(j, u) PROVE job'[o] = "none"
  BY <1>4, <1>9 DEF Claims, ClaimTask
<1>10. ASSUME NEW u \in Tasks, CreateTask(u) PROVE job'[o] = "none"
  BY <1>4, <1>10 DEF CreateTask
<1>11. CASE Rest \/ CancelsPending
  BY <1>4, <1>11 DEF Rest, CancelsPending
<1> QED
  BY <1>5, <1>7, <1>8, <1>9, <1>10, <1>11, CalmSteps

\* Who has seen a job end has seen the first node end: it is not claimed again.
LEMMA EndedRoot ==
  ASSUME NEW r, OneFirstNode(r), IndInv, RowFollowsJob(r),
         NEW i \in Jobs, job[i] \in {"completed", "failed"}
  PROVE  completedAt[r] /\ task[r] \in {"COMPLETED", "FAILED"} /\ HasJob(JobOf(r, r))
<1>1. i[1] \in Tasks /\ i = JobOf(r, i[1])
  BY JobTask, OnlyJob DEF HasJob
<1>2. task[i[1]] \in {"COMPLETED", "FAILED"}
  BY <1>1 DEF RowFollowsJob, RowFollows
<1>3. completedAt[i[1]]
  BY <1>1, <1>2 DEF IndInv, CompletedInv
<1>4. completedAt[r] /\ r \in Tasks
  BY <1>1, <1>3 DEF RowFollowsJob, OneFirstNode
<1> QED
  BY <1>4 DEF RowFollowsJob, RowFollows

\* A task is claimed once the first node is behind it, and before it has a job.
LEMMA ClaimAfterRoot ==
  ASSUME NEW r, OneFirstNode(r), IndInv, ClaimInv, RowFollowsJob(r),
         NEW j \in Jobs, NEW t \in Tasks, Claims(j, t)
  PROVE  t # r /\ task[t] = "PENDING" /\ ~completedAt[t] /\ ~HasJob(JobOf(r, t))
<1>1. handler[j] = "claim" /\ task[t] = "PENDING"
  BY DEF Claims, ClaimTask
<1>2. job[j] \in {"completed", "failed"}
  BY <1>1 DEF IndInv, JobInv
<1>3. t # r
  BY <1>1, <1>2, EndedRoot
<1>4. ~completedAt[t]
  BY <1>1 DEF RowFollowsJob, RowFollows
<1>5. ~HasJob(JobOf(r, t))
  BY <1>1, <1>3 DEF ClaimInv, JobOf
<1> QED
  BY <1>1, <1>3, <1>4, <1>5

\* An agent has one job of a task in hand, the one the task was dispatched by.
LEMMA AgentHasJob ==
  ASSUME NEW r, IndInv, RowFollowsJob(r), NEW j \in Jobs, AgentStep(j) \/ BackoffElapses(j)
  PROVE  HasJob(j) /\ j = JobOf(r, j[1]) /\ j[1] \in Tasks
<1>1. HasJob(j)
  BY DEF AgentStep, StartJob, MarkRunning, ExecuteSucceeds, ExecuteFails, ReportResult,
     BackoffElapses, IndInv, JobInv, HasJob
<1> QED
  BY <1>1, OnlyJob, JobTask

\* The row of a task follows the job the task is dispatched by.
LEMMA RowFollowsStep ==
  ASSUME NEW r, OneFirstNode(r), IndInv, RowsInv, SmoothIndInv, RowFollowsJob(r), [Next]_vars,
         Undisturbed', NEW t \in Tasks
  PROVE  RowFollows(r, t)'
<1> DEFINE j == JobOf(r, t)
<1>1. j \in Jobs /\ j[1] = t /\ JobOf(r, t)' = j
  BY JobOfTask DEF JobOf
<1>2. RowFollows(r, t) /\ SmoothInv /\ ClaimInv
  BY DEF RowFollowsJob, SmoothIndInv
<1> HIDE DEF j
<1> SUFFICES /\ job'[j] = "waiting" \/ worker'[j] = "starting" => WaitingRow(r, t)'
             /\ job'[j] = "delayed" => task'[t] = "RUNNING"
             /\ job'[j] = "completed" => task'[t] = "COMPLETED"
             /\ job'[j] = "failed" => task'[t] = "FAILED"
             /\ completedAt'[t] => task'[t] \in {"COMPLETED", "FAILED"} /\ job'[j] # "none"
  BY <1>1 DEF RowFollows, HasJob, j
<1>3. /\ job[j] = "waiting" \/ worker[j] = "starting" => WaitingRow(r, t)
      /\ job[j] = "delayed" => task[t] = "RUNNING"
      /\ job[j] = "completed" => task[t] = "COMPLETED"
      /\ job[j] = "failed" => task[t] = "FAILED"
      /\ completedAt[t] => task[t] \in {"COMPLETED", "FAILED"} /\ job[j] # "none"
  BY <1>2 DEF RowFollows, HasJob, j
<1> USE DEF IndInv, TypeOK, WaitingRow
<1>4. CASE /\ job'[j] = job[j] /\ worker'[j] = worker[j]
           /\ task'[t] = task[t] /\ completedAt'[t] = completedAt[t]
  BY <1>3, <1>4
<1>5. CASE Rest
  BY <1>4, <1>5 DEF Rest
<1>6. CASE CancelsPending
  BY <1>3, <1>6 DEF CancelsPending, PendingCancelled
<1>7. ASSUME NEW u \in Tasks, CreateTask(u)
      PROVE  UNCHANGED <<job, worker, completedAt>> /\ job[j] = "none" /\ worker[j] = "idle" /\ ~completedAt[t]
  BY <1>1, <1>3, <1>7, NoJobsYet DEF CreateTask, HasJob
<1>8. ASSUME NEW u \in Tasks, DispatchFirst(u)
      PROVE  /\ UNCHANGED <<task, worker, completedAt>>
             /\ job'[j] = job[j] \/ (job[j] = "none" /\ job'[j] = "waiting" /\ t = r)
  <2>1. UNCHANGED <<task, worker, completedAt>>
    BY <1>8 DEF DispatchFirst
  <2>2. u = r
    BY <1>8, FirstTasksReady DEF DispatchFirst, TriggerInv, OneFirstNode
  <2>3. t # r => j # <<u, "auto">>
    BY <1>1, <2>2
  <2>4. job'[j] = job[j] \/ (job[j] = "none" /\ job'[j] = "waiting")
    BY <1>1, <1>8, TaskJobs DEF DispatchFirst, AddJob
  <2>5. t # r => job'[j] = job[j]
    BY <1>1, <1>8, <2>3, TaskJobs DEF DispatchFirst, AddJob
  <2> QED
    BY <2>1, <2>4, <2>5
<1>9. ASSUME NEW u \in Tasks, DispatchFirst(u), t = r
      PROVE  job[j] # "none" \/ WaitingRow(r, t)
  <2>1. task[t] # "none"
    BY <1>9 DEF DispatchFirst, RowsInv
  <2>2. task[t] \in {"COMPLETED", "FAILED"} => job[j] # "none"
    BY <1>3 DEF CompletedInv
  <2> QED
    BY <1>9, <2>1, <2>2 DEF TaskStatus
<1>10. ASSUME NEW i \in Jobs, EnqueueTask(i)
       PROVE  /\ UNCHANGED <<task, worker, completedAt>>
              /\ job'[j] = job[j] \/ (job[j] = "none" /\ job'[j] = "waiting" /\ task[t] = "RUNNING")
  <2>1. UNCHANGED <<task, worker, completedAt>>
    BY <1>10 DEF EnqueueTask
  <2>2. adding[i] \in Tasks
    BY <1>10 DEF EnqueueTask, JobInv
  <2>3. task[adding[i]] = "RUNNING"
    BY <2>2 DEF RowFollowsJob
  <2>4. job'[j] = job[j] \/ (job[j] = "none" /\ job'[j] = "waiting" /\ j = <<adding[i], "task">>)
    BY <1>1, <1>10, <2>2, TaskJobs DEF EnqueueTask, AddJob
  <2> QED
    BY <1>1, <2>1, <2>3, <2>4
<1>11. ASSUME NEW i \in Jobs, NEW u \in Tasks, Claims(i, u)
       PROVE  /\ UNCHANGED <<job, worker, completedAt>>
              /\ task'[t] = task[t] \/ (task'[t] = "RUNNING" /\ ~completedAt[t] /\ job[j] = "none")
  <2>1. UNCHANGED <<job, worker, completedAt>>
    BY <1>11 DEF Claims, ClaimTask
  <2>2. t = u => ~completedAt[t] /\ job[j] = "none"
    BY <1>2, <1>11, ClaimAfterRoot DEF HasJob, j
  <2>3. IF t = u THEN task'[t] = "RUNNING" ELSE task'[t] = task[t]
    BY <1>11 DEF Claims, ClaimTask
  <2> QED
    BY <2>1, <2>2, <2>3
<1>12. ASSUME NEW i \in Jobs, AgentStep(i) \/ BackoffElapses(i), i # j
       PROVE  /\ job'[j] = job[j] /\ worker'[j] = worker[j]
              /\ task'[t] = task[t] /\ completedAt'[t] = completedAt[t]
  <2>1. i[1] # t /\ i[1] \in Tasks
    BY <1>12, AgentHasJob DEF j
  <2>2. job'[j] = job[j] /\ worker'[j] = worker[j]
    BY <1>1, <1>12 DEF AgentStep, StartJob, MarkRunning, ExecuteSucceeds, ExecuteFails, ReportResult,
       BackoffElapses
  <2>3. task'[t] = task[t]
    BY <1>12, <2>1 DEF AgentStep, StartJob, MarkRunning, ExecuteSucceeds, ExecuteFails, RecordFailure,
       ReportResult, BackoffElapses
  <2>4. completedAt'[t] = completedAt[t]
    BY <1>12, <2>1 DEF AgentStep, StartJob, MarkRunning, ExecuteSucceeds, ExecuteFails, RecordFailure,
       ReportResult, BackoffElapses
  <2> QED
    BY <2>2, <2>3, <2>4
<1>13. CASE StartJob(j) \/ BackoffElapses(j)
  BY <1>1, <1>3, <1>13 DEF StartJob, BackoffElapses
<1>14. CASE MarkRunning(j)
  <2>1. ~completedAt[t] /\ job[j] = "active"
    BY <1>1, <1>3, <1>14 DEF MarkRunning, JobInv
  <2> QED
    BY <1>1, <1>14, <2>1 DEF MarkRunning
<1>15. CASE ExecuteSucceeds(j)
  <2>1. job'[j] = "active"
    BY <1>1, <1>15 DEF ExecuteSucceeds, JobInv
  <2>2. task'[t] = "COMPLETED" /\ worker'[j] # "starting"
    BY <1>1, <1>15 DEF ExecuteSucceeds
  <2> QED
    BY <2>1, <2>2
<1>16. CASE ExecuteFails(j)
  <2>1. job'[j] = "active" /\ worker'[j] # "starting"
    BY <1>1, <1>16 DEF ExecuteFails, JobInv
  <2>2. ~completedAt[t]
    BY <1>1, <1>3, <1>16 DEF ExecuteFails, ExecutingTaskIsRunning
  <2>3. IsLastAttempt(j) => task'[t] = "FAILED"
    BY <1>1, <1>16 DEF ExecuteFails, RecordFailure, StatusAfterFailure
  <2>4. completedAt'[t] => IsLastAttempt(j)
    BY <1>1, <1>16, <2>2, Zenon DEF ExecuteFails, RecordFailure
  <2> QED
    BY <2>1, <2>3, <2>4
<1>17. CASE ReportResult(j)
  <2>1. UNCHANGED <<task, completedAt>> /\ worker'[j] = "idle" /\ job'[j] \in {"completed", "failed", "delayed"}
    BY <1>1, <1>17 DEF ReportResult
  <2>2. /\ job'[j] = "completed" => task[t] = "COMPLETED"
        /\ job'[j] = "failed" => task[t] = "FAILED"
        /\ job'[j] = "delayed" => task[t] = "RUNNING"
    BY <1>1, <1>2, <1>17 DEF ReportResult, SmoothInv, StatusAfterFailure
  <2> QED
    BY <1>3, <2>1, <2>2
<1>18. ASSUME NEW u \in Tasks, CreateTask(u)
       PROVE  RowFollows(r, t)'
  BY <1>1, <1>7, <1>18 DEF RowFollows, HasJob
<1>19. ASSUME NEW i \in Jobs, AgentStep(i) \/ QueueStep(i)
       PROVE  RowFollows(r, t)'
  <2>1. CASE EnqueueTask(i)
    BY <1>1, <1>3, <1>10, <2>1 DEF RowFollows, HasJob
  <2>2. CASE (AgentStep(i) \/ BackoffElapses(i)) /\ i # j
    BY <1>1, <1>4, <1>12, <2>2 DEF RowFollows, HasJob
  <2>3. CASE (AgentStep(i) \/ BackoffElapses(i)) /\ i = j
    BY <1>1, <1>13, <1>14, <1>15, <1>16, <1>17, <2>3 DEF AgentStep, RowFollows, HasJob
  <2> QED
    BY <1>19, <2>1, <2>2, <2>3 DEF QueueStep
<1>20. ASSUME NEW u \in Tasks, DispatchFirst(u)
       PROVE  RowFollows(r, t)'
  BY <1>1, <1>3, <1>8, <1>9, <1>20 DEF RowFollows, HasJob
<1>21. ASSUME NEW i \in Jobs, NEW u \in Tasks, Claims(i, u)
       PROVE  RowFollows(r, t)'
  BY <1>1, <1>3, <1>11, <1>21 DEF RowFollows, HasJob, JobInv
<1>22. CASE Rest \/ CancelsPending
  BY <1>1, <1>5, <1>6, <1>22 DEF RowFollows, HasJob
<1> QED
  BY <1>1, <1>2, <1>18, <1>19, <1>20, <1>21, <1>22, CalmSteps DEF RowFollows, HasJob

\* No task finishes before the first node has.
LEMMA RootFirstStep ==
  ASSUME NEW r, OneFirstNode(r), IndInv, SmoothIndInv, RowFollowsJob(r), [Next]_vars,
         Undisturbed', NEW t \in Tasks, completedAt'[t]
  PROVE  completedAt'[r]
<1> USE DEF IndInv, TypeOK
<1>1. r \in Tasks /\ (completedAt[r] => completedAt'[r])
  BY CompletedAtStays DEF OneFirstNode
<1>2. CASE completedAt[t]
  BY <1>1, <1>2 DEF RowFollowsJob
<1>3. CASE ~completedAt[t]
  <2>1. PICK i \in Jobs : ExecuteSucceeds(i) \/ ExecuteFails(i)
    BY <1>3, CalmSteps DEF SmoothIndInv, Rest, CancelsPending, CreateTask, DispatchFirst, QueueStep,
       BackoffElapses, EnqueueTask, Claims, ClaimTask, AgentStep, StartJob, MarkRunning, ReportResult
  <2>2. i[1] = t /\ HasJob(i)
    BY <1>3, <2>1 DEF ExecuteSucceeds, ExecuteFails, RecordFailure, JobInv, HasJob
  <2>3. CASE t = r
    BY <2>3
  <2>4. CASE t # r
    <3>1. PICK d \in Deps(t) : completedAt[d]
      BY <2>2, <2>4 DEF OneFirstNode, ReadyInv, Ready
    <3>2. d \in Tasks
      BY DepsInTasks
    <3> QED
      BY <1>1, <3>1, <3>2 DEF RowFollowsJob
  <2> QED
    BY <2>3, <2>4
<1> QED
  BY <1>2, <1>3

\* The row of a claimed task stays RUNNING until the task is enqueued.
LEMMA ClaimedRowStep ==
  ASSUME NEW r, OneFirstNode(r), IndInv, RowsInv, SmoothIndInv, RowFollowsJob(r), [Next]_vars,
         Undisturbed', NEW h \in Jobs, NEW t \in Tasks, adding'[h] = t
  PROVE  t # r /\ task'[t] = "RUNNING"
<1> DEFINE Goal == t # r /\ task'[t] = "RUNNING"
<1> USE OrchestratorAssumption DEF IndInv, TypeOK
<1>1. SmoothInv /\ ClaimInv
  BY DEF SmoothIndInv
<1>2. ASSUME NEW i \in Jobs, NEW u \in Tasks, Claims(i, u) PROVE Goal
  <2>1. u # r /\ task' = [task EXCEPT ![u] = "RUNNING"] /\ adding' = [adding EXCEPT ![i] = u]
    BY <1>1, <1>2, ClaimAfterRoot DEF Claims, ClaimTask
  <2> QED
    BY <2>1 DEF RowFollowsJob
<1>3. ASSUME adding[h] = t PROVE t # r /\ task[t] = "RUNNING" /\ ~HasJob(JobOf(r, t))
  <2>1. t # r /\ task[t] = "RUNNING"
    BY <1>3 DEF RowFollowsJob
  <2> QED
    BY <1>1, <1>3, <2>1 DEF ClaimInv, JobOf
<1>4. CASE Rest \/ CancelsPending
  BY <1>3, <1>4 DEF Rest, CancelsPending, PendingCancelled
<1>5. ASSUME NEW u \in Tasks, CreateTask(u) PROVE Goal
  BY <1>3, <1>5, NoJobsYet DEF CreateTask
<1>6. ASSUME NEW u \in Tasks, DispatchFirst(u) PROVE Goal
  BY <1>3, <1>6 DEF DispatchFirst
<1>7. ASSUME NEW i \in Jobs, EnqueueTask(i) PROVE Goal
  BY <1>3, <1>7 DEF EnqueueTask
<1>8. ASSUME NEW i \in Jobs, AgentStep(i) \/ BackoffElapses(i) PROVE Goal
  <2>1. adding[h] = t
    BY <1>8 DEF AgentStep, StartJob, MarkRunning, ExecuteSucceeds, ExecuteFails, ReportResult, BackoffElapses
  <2>2. HasJob(i) /\ i = JobOf(r, i[1]) /\ i[1] \in Tasks
    BY <1>8, AgentHasJob
  <2>3. i[1] # t
    BY <1>3, <2>1, <2>2
  <2>4. task'[t] = task[t]
    BY <1>8, <2>2, <2>3 DEF AgentStep, StartJob, MarkRunning, ExecuteSucceeds, ExecuteFails, RecordFailure,
       ReportResult, BackoffElapses
  <2> QED
    BY <1>3, <2>1, <2>4
<1>9. ASSUME NEW i \in Jobs, QueueStep(i) PROVE Goal
  BY <1>7, <1>8, <1>9 DEF QueueStep
<1> QED
  BY <1>1, <1>2, <1>4, <1>5, <1>6, <1>8, <1>9, CalmSteps

\* The rows keep following the jobs.
LEMMA RowFollowsJobStep ==
  ASSUME NEW r, OneFirstNode(r), IndInv, RowsInv, SmoothIndInv, RowFollowsJob(r), [Next]_vars,
         Undisturbed'
  PROVE  RowFollowsJob(r)'
<1>1. \A t \in Tasks : ~HasJob(OtherJobOf(r, t))'
  BY OtherJobStep DEF SmoothIndInv
<1>2. \A t \in Tasks : RowFollows(r, t)'
  BY RowFollowsStep
<1>3. \A t \in Tasks : completedAt'[t] => completedAt'[r]
  BY RootFirstStep
<1>4. \A t \in Tasks : \A h \in Jobs : adding'[h] = t => t # r /\ task'[t] = "RUNNING"
  BY ClaimedRowStep
<1> QED
  BY <1>1, <1>2, <1>3, <1>4 DEF RowFollowsJob

\* A handler that finds every task finished and none failed critically finds
\* nothing queued and nothing executing.
LEMMA TallySettles ==
  ASSUME NEW r, OneFirstNode(r), IndInv, RowsInv, SmoothIndInv, RowFollowsJob(r),
         NEW j \in Jobs, handler[j] = "tally", AllFinished, ~HasFailedCritical
  PROVE  Settled(r)
<1> USE DEF IndInv, TypeOK
<1>1. job[j] \in {"completed", "failed"}
  BY DEF JobInv
<1>2. HasJob(JobOf(r, r)) /\ task[r] \in {"COMPLETED", "FAILED"}
  BY <1>1, EndedRoot
<1>3. \A t \in Tasks : task[t] \in Finished
  BY <1>1 DEF AllFinished, RowsInv, HasJob
<1>4. ASSUME NEW i \in Jobs
      PROVE  job[i] \notin {"waiting", "delayed"} /\ worker[i] \notin {"starting", "executing"}
  <2>1. i[1] \in Tasks /\ task[i[1]] \in Finished
    BY <1>3, JobTask
  <2>2. task[i[1]] # "RUNNING" /\ ~WaitingRow(r, i[1])
    BY <1>2, <2>1 DEF Finished, WaitingRow
  <2>3. HasJob(i) => i = JobOf(r, i[1])
    BY OnlyJob
  <2>4. worker[i] # "idle" => HasJob(i)
    BY DEF JobInv, HasJob
  <2>5. worker[i] # "executing"
    BY <2>2 DEF ExecutingTaskIsRunning
  <2>6. RowFollows(r, i[1])
    BY <2>1 DEF RowFollowsJob
  <2>7. HasJob(i) => job[i] \notin {"waiting", "delayed"} /\ worker[i] # "starting"
    BY <2>2, <2>3, <2>6 DEF RowFollows
  <2> QED
    BY <2>4, <2>5, <2>7 DEF HasJob
<1> QED
  BY <1>2, <1>3, <1>4 DEF Settled

\* What is settled stays settled.
LEMMA SettledStays ==
  ASSUME NEW r, OneFirstNode(r), IndInv, SmoothIndInv, RowFollowsJob(r), [Next]_vars,
         Undisturbed', Settled(r)
  PROVE  Settled(r)'
<1> USE DEF IndInv, TypeOK
<1>1. JobOf(r, r)' = JobOf(r, r) /\ JobOf(r, r) = <<r, "auto">> /\ r \in Tasks
  BY DEF JobOf, OneFirstNode
<1>2. task[r] # "none" /\ \A t \in Tasks : task[t] \notin {"PENDING", "RUNNING"}
  BY <1>1 DEF Settled, Finished
<1>3. CASE Rest
  BY <1>1, <1>3 DEF Rest, Settled, HasFailedCritical, HasJob
<1>4. CASE CancelsPending
  <2>1. task' = task
    BY <1>2, <1>4 DEF CancelsPending, PendingCancelled
  <2> QED
    BY <1>1, <1>4, <2>1 DEF CancelsPending, Settled, HasFailedCritical, HasJob
<1>5. ASSUME NEW u \in Tasks, CreateTask(u) PROVE FALSE
  BY <1>1, <1>5, NoJobsYet, TaskJobs DEF CreateTask, Settled
<1>6. ASSUME NEW u \in Tasks, DispatchFirst(u) PROVE Settled(r)'
  <2>1. u = r
    BY <1>6, FirstTasksReady DEF DispatchFirst, TriggerInv, OneFirstNode
  <2>2. job' = job
    BY <1>1, <1>6, <2>1, TaskJobs DEF DispatchFirst, AddJob, Settled, HasJob
  <2> QED
    BY <1>1, <1>6, <2>2 DEF DispatchFirst, Settled, HasFailedCritical, HasJob
<1>7. ASSUME NEW i \in Jobs, NEW u \in Tasks, Claims(i, u) PROVE FALSE
  BY <1>2, <1>7 DEF Claims
<1>8. ASSUME NEW i \in Jobs, EnqueueTask(i) PROVE FALSE
  BY <1>2, <1>8 DEF EnqueueTask, JobInv, RowFollowsJob
<1>9. ASSUME NEW i \in Jobs, AgentStep(i) \/ BackoffElapses(i) PROVE Settled(r)'
  <2>1. ReportResult(i)
    BY <1>9 DEF AgentStep, StartJob, MarkRunning, ExecuteSucceeds, ExecuteFails, BackoffElapses, Settled
  <2>2. IsLastAttempt(i) \/ worker[i] = "succeeded"
    BY <1>2, <2>1, JobTask DEF ReportResult, SmoothIndInv, SmoothInv, StatusAfterFailure
  <2>3. job'[i] \in {"completed", "failed"} /\ worker'[i] = "idle"
    BY <2>1, <2>2 DEF ReportResult
  <2>4. task' = task /\ \A h \in Jobs : h # i => job'[h] = job[h] /\ worker'[h] = worker[h]
    BY <2>1 DEF ReportResult
  <2>5. job'[<<r, "auto">>] # "none"
    BY <1>1, <2>3, <2>4, TaskJobs DEF Settled, HasJob
  <2> QED
    BY <1>1, <2>3, <2>4, <2>5 DEF Settled, HasFailedCritical, HasJob
<1>10. ASSUME NEW i \in Jobs, AgentStep(i) \/ QueueStep(i) PROVE Settled(r)'
  BY <1>8, <1>9, <1>10 DEF QueueStep
<1> QED
  BY <1>3, <1>4, <1>5, <1>6, <1>7, <1>10, CalmSteps DEF SmoothIndInv

\* A run is only completed by a handler that has found it settled.
LEMMA VerdictStep ==
  ASSUME NEW r, OneFirstNode(r), IndInv, RowsInv, SmoothIndInv, RowFollowsJob(r), VerdictInv(r),
         [Next]_vars, Undisturbed'
  PROVE  VerdictInv(r)'
<1> DEFINE Decided == run = "COMPLETED" \/ \E j \in Jobs : handler[j] \in {"verdict", "complete"}
<1> SUFFICES ASSUME Decided' PROVE Settled(r)'
  BY DEF VerdictInv
<1> USE DEF IndInv, TypeOK
<1>1. CASE Decided
  BY <1>1, SettledStays DEF VerdictInv
<1>2. CASE ~Decided
  <2>1. PICK j \in Jobs : TallyTasks(j) /\ AllFinished /\ ~HasFailedCritical
    <3>1. ASSUME NEW j \in Jobs, WorkerStep(j) PROVE FALSE
      BY <1>2, <3>1 DEF WorkerStep, StartJob, MarkRunning, ExecuteSucceeds, ExecuteFails, ReportResult,
         BackoffElapses, RecoverStalled
    <3>2. ASSUME NEW j \in Jobs, HandlerStep(j) PROVE TallyTasks(j) /\ AllFinished /\ ~HasFailedCritical
      <4>1. CASE TallyTasks(j)
        BY <1>2, <4>1 DEF TallyTasks, Goto
      <4>2. ASSUME ~TallyTasks(j) PROVE FALSE
        <5>1. ~RollbackClaim(j)
          BY DEF RollbackClaim, SmoothIndInv, SmoothInv
        <5>2. run' \in {run, "FAILED"}
          BY <1>2, <3>2, <5>1 DEF HandlerStep, OnTaskCompleted, OnTaskFailed, ReadRun, ClaimTask,
             EnqueueTask, TallyTasks, ReadVerdict, EndRun, RunAfter, FailRun, CancelPending
        <5>3. \E pc \in HandlerPC \ {"verdict", "complete"} : Goto(j, pc)
          BY <1>2, <3>2, <4>2, <5>1 DEF HandlerStep, OnTaskCompleted, OnTaskFailed, BeginDispatch, ReadRun,
             ClaimTask, EnqueueTask, AfterTask, ReadVerdict, EndRun, FailRun, CancelPending, Goto, HandlerPC
        <5> QED
          BY <1>2, <5>2, <5>3 DEF Goto
      <4> QED
        BY <4>1, <4>2
    <3>3. ~TriggerRun /\ ~TriggerStep
      BY <1>2 DEF TriggerRun, TriggerStep, CreateTask, LinkTask, DispatchFirst
    <3>4. ~CheckCancel /\ ~CancelRun /\ ~SweepStep /\ ~EditDefinition /\ ~RunAges
      BY <1>2 DEF CheckCancel, CancelRun, SweepStep, FindStaleRun, FailStaleRun, CancelStaleTasks,
         EditDefinition, RunAges
    <3>5. ~FaultStep /\ ~ServerStep
      BY UndisturbedBefore DEF SmoothIndInv, SmoothInv, ServerStep, Exit, Boot, Listen
    <3>6. ~UNCHANGED vars
      BY <1>2 DEF vars
    <3> QED
      BY <3>1, <3>2, <3>3, <3>4, <3>5, <3>6 DEF Next
  <2> QED
    BY <2>1, TallySettles, SettledStays DEF TallyTasks
<1> QED
  BY <1>1, <1>2

\* Only the user cancels, and a run does not get younger.
LEMMA CancelMoves ==
  ASSUME [Next]_vars
  PROVE  /\ cancel' = cancel \/ CheckCancel \/ (cancel # "idle" /\ cancel' = "done")
         /\ old' = old \/ RunAges
<1> DEFINE Goal == /\ cancel' = cancel \/ CheckCancel \/ (cancel # "idle" /\ cancel' = "done")
                   /\ old' = old \/ RunAges
<1>1. ASSUME NEW j \in Jobs, WorkerAction(j) PROVE Goal
  BY <1>1 DEF WorkerAction, WorkerStep, ProcessorFails, Fault, StartJob, MarkRunning, ExecuteSucceeds,
     ExecuteFails, ReportResult, BackoffElapses, RecoverStalled
<1>2. ASSUME NEW j \in Jobs, HandlerStep(j) \/ JobNotFound(j) \/ EnqueueFails(j) PROVE Goal
  BY <1>2 DEF JobNotFound, EnqueueFails, Fault, HandlerStep, OnTaskCompleted, OnTaskFailed,
     ReadRun, ClaimTask, EnqueueTask, RollbackClaim, ProcessExits, TallyTasks, ReadVerdict,
     EndRun, FailRun, CancelPending
<1>3. ASSUME CheckCancel \/ CancelRun \/ SweepStep \/ EditDefinition \/ RunAges PROVE Goal
  BY <1>3 DEF CheckCancel, CancelRun, SweepStep, FindStaleRun, FailStaleRun, CancelStaleTasks,
     EditDefinition, RunAges
<1>4. ASSUME TriggerRun \/ TriggerStep \/ TriggerFails PROVE Goal
  BY <1>4 DEF TriggerRun, TriggerStep, CreateTask, LinkTask, DispatchFirst, TriggerFails, Fault
<1>5. ASSUME Crash \/ Shutdown \/ ServerStep PROVE Goal
  BY <1>5 DEF Crash, Shutdown, ServerStep, Exit, Boot, Listen, ProcessExits
<1>6. CASE UNCHANGED vars
  BY <1>6 DEF vars
<1> QED
  BY <1>1, <1>2, <1>3, <1>4, <1>5, <1>6 DEF Next, FaultStep, WorkerAction

\* The first node's row is not cancelled under its job unless the user cancels
\* or the sweeper does: the handlers cancel after the first node has ended.
LEMMA CancelledStep ==
  ASSUME NEW r, OneFirstNode(r), IndInv, RowsInv, SmoothIndInv, RowFollowsJob(r), CancelledInv(r),
         [Next]_vars, Undisturbed'
  PROVE  CancelledInv(r)'
<1> DEFINE Goal == sweep' = "idle" /\ task'[r] # "CANCELLED"
<1> SUFFICES ASSUME cancel' = "idle", ~old' PROVE Goal
  BY DEF CancelledInv
<1> USE DEF IndInv, TypeOK
<1>1. ~FaultStep /\ ~ServerStep /\ \A j \in Jobs : ~RollbackClaim(j)
  BY UndisturbedBefore DEF SmoothIndInv, SmoothInv, RollbackClaim, ServerStep, Exit, Boot, Listen
<1>2. r \in Tasks
  BY DEF OneFirstNode
<1>3. cancel = "idle" /\ ~old
  BY CancelMoves DEF CheckCancel, RunAges
<1>4. sweep = "idle" /\ task[r] # "CANCELLED" /\ phase = "up"
  BY <1>3 DEF CancelledInv, SmoothIndInv, SmoothInv
<1>5. CASE task' = task /\ sweep' = sweep
  BY <1>4, <1>5
<1>6. ASSUME NEW j \in Jobs, WorkerStep(j) PROVE Goal
  BY <1>2, <1>4, <1>5, <1>6, JobTask DEF WorkerStep, StartJob, MarkRunning, ExecuteSucceeds, ExecuteFails,
     RecordFailure, StatusAfterFailure, ReportResult, BackoffElapses, RecoverStalled
<1>7. ASSUME NEW j \in Jobs, CancelPending(j) PROVE Goal
  <2>1. job[j] \in {"completed", "failed"}
    BY <1>7 DEF CancelPending, JobInv
  <2>2. task[r] \in {"COMPLETED", "FAILED"}
    BY <2>1, EndedRoot
  <2> QED
    BY <1>2, <1>4, <1>7, <2>2 DEF CancelPending, PendingCancelled
<1>8. ASSUME NEW j \in Jobs, NEW t \in Tasks, ClaimTask(j, t) PROVE Goal
  BY <1>2, <1>4, <1>8 DEF ClaimTask
<1>9. ASSUME NEW j \in Jobs, HandlerStep(j) PROVE Goal
  BY <1>1, <1>5, <1>7, <1>8, <1>9 DEF HandlerStep, OnTaskCompleted, OnTaskFailed, ReadRun, EnqueueTask,
     TallyTasks, ReadVerdict, EndRun, FailRun
<1>10. ASSUME NEW t \in Tasks, CreateTask(t) PROVE Goal
  BY <1>2, <1>4, <1>10 DEF CreateTask
<1>11. CASE TriggerRun \/ TriggerStep
  BY <1>5, <1>10, <1>11 DEF TriggerRun, TriggerStep, LinkTask, DispatchFirst
<1>12. CASE CheckCancel \/ CancelRun \/ SweepStep \/ EditDefinition \/ RunAges
  BY <1>3, <1>4, <1>5, <1>12 DEF CheckCancel, CancelRun, SweepStep, FindStaleRun, RunIsStale, FailStaleRun,
     CancelStaleTasks, EditDefinition, RunAges
<1>13. CASE UNCHANGED vars
  BY <1>5, <1>13 DEF vars
<1> QED
  BY <1>1, <1>6, <1>9, <1>11, <1>12, <1>13 DEF Next

\* Before the run is triggered there is no row, no job and no claim.
LEMMA InitSmooth ==
  ASSUME Init
  PROVE  RowsInv /\ SmoothIndInv
<1>1. RowsInv
  BY DEF Init, RowsInv, HasJob
<1>2. SmoothInv
  BY DEF Init, SmoothInv
<1>3. ClaimInv
  BY TaskJobs, OrchestratorAssumption DEF Init, ClaimInv, HasJob
<1>4. RunningTaskHasJob
  BY DEF Init, RunningTaskHasJob
<1> QED
  BY <1>1, <1>2, <1>3, <1>4 DEF SmoothIndInv

\* No row follows a job yet.
LEMMA InitOneRoot ==
  ASSUME NEW r, OneFirstNode(r), Init
  PROVE  OneRootInv(r) /\ CancelledInv(r)
<1> USE OrchestratorAssumption DEF Init, OneFirstNode
<1>1. \A t \in Tasks : ~HasJob(OtherJobOf(r, t))
  BY JobOfTask DEF HasJob
<1>2. \A t \in Tasks : RowFollows(r, t)
  BY JobOfTask DEF HasJob, RowFollows
<1>3. RowFollowsJob(r)
  BY <1>1, <1>2 DEF RowFollowsJob
<1>4. VerdictInv(r) /\ CancelledInv(r)
  BY DEF VerdictInv, CancelledInv
<1> QED
  BY <1>3, <1>4 DEF OneRootInv

-----------------------------------------------------------------------------
\* Rows are created once and before the first job, whatever happens; as long as
\* no crash, shutdown or rejected call has happened, a task is claimed once,
\* enqueued by its claimant and held by somebody while it is RUNNING.
THEOREM UndisturbedRuns == Spec => []RowsInv /\ [](Undisturbed => SmoothIndInv)
<1> DEFINE Smooth == Undisturbed => SmoothIndInv
<1>1. Init => RowsInv /\ Smooth
  BY InitSmooth
<1>2. IndInv /\ RowsInv /\ [Next]_vars => RowsInv'
  BY RowsStepInv
<1>3. IndInv /\ Smooth /\ [Next]_vars => Smooth'
  BY UndisturbedBefore, SmoothStepInv, ClaimStepInv, RunningStepInv DEF SmoothIndInv
<1>4. Spec => []RowsInv
  BY <1>1, <1>2, Invariance, PTL DEF Spec
<1>5. Spec => []Smooth
  BY <1>1, <1>3, Invariance, PTL DEF Spec
<1> QED
  BY <1>4, <1>5

\* A RUNNING task is never forgotten: it has a live job or is being enqueued,
\* as long as no crash, shutdown or rejected call has come in between, whatever
\* the definition, its edits, the cancel requests and the sweeps.
THEOREM RunningTasksAreInHand == Spec => [](Undisturbed => RunningTaskHasJob)
<1> DEFINE Smooth == Undisturbed => SmoothIndInv
<1>1. Smooth => (Undisturbed => RunningTaskHasJob)
  BY DEF SmoothIndInv
<1>2. Spec => []Smooth
  BY UndisturbedRuns
<1> QED
  BY <1>1, <1>2, PTL

\* With one first node, each row follows the one job of its task, and a run is
\* COMPLETED only when nothing of it is queued or executing.
THEOREM OneRootRuns ==
  ASSUME NEW r, OneFirstNode(r)
  PROVE  Spec => [](Undisturbed => OneRootInv(r) /\ CancelledInv(r))
<1> DEFINE Rooted == Undisturbed => OneRootInv(r) /\ CancelledInv(r)
           Smooth == Undisturbed => SmoothIndInv
<1>1. Init => Rooted
  BY InitOneRoot
<1>2. IndInv /\ RowsInv /\ Smooth /\ Rooted /\ [Next]_vars => Rooted'
  <2> SUFFICES ASSUME IndInv, RowsInv, Smooth, Rooted, [Next]_vars, Undisturbed'
               PROVE  (OneRootInv(r) /\ CancelledInv(r))'
    OBVIOUS
  <2>1. SmoothIndInv /\ RowFollowsJob(r) /\ VerdictInv(r) /\ CancelledInv(r)
    BY UndisturbedBefore DEF OneRootInv
  <2> QED
    BY <2>1, RowFollowsJobStep, VerdictStep, CancelledStep DEF OneRootInv
<1> QED
  BY <1>1, <1>2, Invariance, UndisturbedRuns, PTL DEF Spec

\* triggerRun, which enqueues without claiming, and dispatchUnblockedTasks never
\* both enqueue a task of a definition with one first node.
THEOREM DispatchedOnce ==
  ASSUME NEW r, OneFirstNode(r)
  PROVE  Spec => [](Undisturbed => NoDuplicateDispatch)
<1>1. OneRootInv(r) => NoDuplicateDispatch
  <2> SUFFICES ASSUME RowFollowsJob(r), NEW t \in Tasks
               PROVE  Cardinality({j \in JobsOf(t) : job[j] # "none"}) <= 1
    BY DEF OneRootInv, NoDuplicateDispatch
  <2> DEFINE J == {j \in JobsOf(t) : job[j] # "none"}
  <2>1. J \subseteq {JobOf(r, t)}
    BY OnlyJob DEF JobsOf, HasJob
  <2>2. IsFiniteSet({JobOf(r, t)}) /\ Cardinality({JobOf(r, t)}) = 1
    BY FS_Singleton
  <2>3. Cardinality(J) <= Cardinality({JobOf(r, t)})
    BY <2>1, <2>2, FS_Subset
  <2> HIDE DEF J
  <2>4. Cardinality(J) <= 1
    BY <2>2, <2>3
  <2> QED
    BY <2>4 DEF J
<1> QED
  BY <1>1, OneRootRuns, PTL

\* A COMPLETED run of such a definition has no unfinished or critically failed
\* task, no job in the queue and none in an agent's hands.
THEOREM CompletedRunsAreQuiescent ==
  ASSUME NEW r, OneFirstNode(r)
  PROVE  Spec => [](Undisturbed => CompletedRunIsQuiescent)
<1>1. OneRootInv(r) => CompletedRunIsQuiescent
  BY DEF OneRootInv, VerdictInv, Settled, CompletedRunIsQuiescent
<1> QED
  BY <1>1, OneRootRuns, PTL

\* One step of a run that is neither disturbed nor cancelled nor old.
LEMMA FinalStep ==
  ASSUME NEW r, OneFirstNode(r), IndInv, RowsInv, SmoothIndInv, RowFollowsJob(r), CancelledInv(r),
         [Next]_vars, Undisturbed', cancel = "idle", ~old, NEW t \in Tasks, task[t] \in Finished
  PROVE  task'[t] = task[t]
<1> USE DEF IndInv, TypeOK
<1>1. CASE Rest
  BY <1>1 DEF Rest
<1>2. CASE CancelsPending
  BY <1>2 DEF CancelsPending, PendingCancelled, Finished
<1>3. ASSUME NEW u \in Tasks, CreateTask(u) PROVE task'[t] = task[t]
  BY <1>3 DEF CreateTask, RowsInv, Finished
<1>4. ASSUME NEW u \in Tasks, DispatchFirst(u) PROVE task'[t] = task[t]
  BY <1>4 DEF DispatchFirst
<1>5. ASSUME NEW j \in Jobs, QueueStep(j) PROVE task'[t] = task[t]
  BY <1>5 DEF QueueStep, BackoffElapses, EnqueueTask
<1>6. ASSUME NEW j \in Jobs, NEW u \in Tasks, Claims(j, u) PROVE task'[t] = task[t]
  BY <1>6 DEF Claims, ClaimTask, Finished
<1>7. ASSUME NEW j \in Jobs, AgentStep(j) PROVE task'[t] = task[t]
  <2>1. CASE j[1] # t
    BY <1>7, <2>1 DEF AgentStep, StartJob, MarkRunning, ExecuteSucceeds, ExecuteFails, RecordFailure, ReportResult
  <2>2. CASE j[1] = t
    <3>1. j = JobOf(r, t)
      BY <1>7, <2>2, AgentHasJob
    <3>2. ~WaitingRow(r, t)
      BY DEF WaitingRow, CancelledInv, Finished
    <3>3. worker[j] # "starting"
      BY <3>1, <3>2 DEF RowFollowsJob, RowFollows
    <3>4. worker[j] # "executing"
      BY <2>2 DEF ExecutingTaskIsRunning, Finished
    <3> QED
      BY <1>7, <3>3, <3>4 DEF AgentStep, StartJob, MarkRunning, ExecuteSucceeds, ExecuteFails, ReportResult
  <2> QED
    BY <2>1, <2>2
<1> QED
  BY <1>1, <1>2, <1>3, <1>4, <1>5, <1>6, <1>7, CalmSteps DEF SmoothIndInv

\* COMPLETED, FAILED and CANCELLED are never overwritten in such a run, edits of
\* its definition included; a cancel request or the sweeper can cancel the row
\* of the first node under its job, which then runs.
THEOREM RowsFinalUnlessCancelled ==
  ASSUME NEW r, OneFirstNode(r)
  PROVE  Spec => [][Undisturbed' /\ cancel = "idle" /\ ~old =>
                      \A t \in Tasks : task[t] \in Finished => task'[t] = task[t]]_vars
<1> DEFINE Final == Undisturbed' /\ cancel = "idle" /\ ~old =>
                      \A t \in Tasks : task[t] \in Finished => task'[t] = task[t]
           Smooth == Undisturbed => SmoothIndInv
           Rooted == Undisturbed => OneRootInv(r) /\ CancelledInv(r)
<1>1. IndInv /\ RowsInv /\ Smooth /\ Rooted /\ [Next]_vars => [Final]_vars
  BY UndisturbedBefore, FinalStep DEF OneRootInv
<1> QED
  BY <1>1, Invariance, UndisturbedRuns, OneRootRuns, PTL DEF Spec

\* An environment without faults, users who cancel and old runs.
LEMMA QuietWorld ==
  ASSUME MaxRestarts = 0, MaxFaults = 0, ~MayCancel, ~MayAge
  PROVE  Spec => [](Undisturbed /\ cancel = "idle" /\ ~old)
<1> DEFINE Quiet == cancel = "idle" /\ ~old
<1>1. Init => Quiet
  BY DEF Init
<1>2. IndInv => Undisturbed
  BY DEF IndInv, TypeOK, Undisturbed
<1>3. Quiet /\ [Next]_vars => Quiet'
  BY CancelMoves DEF CheckCancel, RunAges
<1> QED
  BY <1>1, <1>2, <1>3, Invariance, PTL DEF Spec

\* In such an environment the final states of a task are final.
THEOREM FinishedTasksStay ==
  ASSUME NEW r, OneFirstNode(r), MaxRestarts = 0, MaxFaults = 0, ~MayCancel, ~MayAge
  PROVE  Spec => TaskStatesFinal
<1> DEFINE Kept == \A t \in Tasks : task[t] \in Finished => task'[t] = task[t]
           Final == Undisturbed' /\ cancel = "idle" /\ ~old => Kept
           Quiet == Undisturbed /\ cancel = "idle" /\ ~old
<1>1. Quiet /\ Quiet' /\ [Final]_vars => [Kept]_vars
  OBVIOUS
<1>2. Spec => [][Final]_vars
  BY RowsFinalUnlessCancelled
<1>3. Spec => []Quiet
  BY QuietWorld
<1> HIDE DEF Kept, Final, Quiet
<1>4. Spec => [][Kept]_vars
  BY <1>1, <1>2, <1>3, PTL
<1> QED
  BY <1>4 DEF TaskStatesFinal, Kept
=============================================================================
