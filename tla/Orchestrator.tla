---------------------------- MODULE Orchestrator ----------------------------
(***************************************************************************)
(* One workflow run, from the trigger to its terminal status: the          *)
(* orchestrator (server/orchestrator/index.ts), the agent workers          *)
(* (server/agents/base.agent.ts), the BullMQ queues between them           *)
(* (server/queues/index.ts), the cancel request (server/api/run) and the   *)
(* life of the one Node process that hosts them (server/index.ts).         *)
(*                                                                         *)
(* Every database or queue call is an await, so every one of them is a     *)
(* step of its own and the steps of all handlers, workers and requests     *)
(* interleave.  A read whose result cannot change before the next write    *)
(* (immutable columns, job data) is folded into the step that uses it.     *)
(*                                                                         *)
(* A task row is named by its node: a run has one row per node.            *)
(***************************************************************************)
EXTENDS Naturals, FiniteSets

CONSTANTS
  Tasks,        \* node ids of the definition the run is triggered with
  Edges,        \* <<source, target>> pairs; a source need not be a node
  Critical,     \* nodes whose failure fails the run
  AgentOf,      \* the agent type (queue) of each node
  MaxAttempts,  \* BullMQ's "attempts"
  MaxStalls,    \* BullMQ's maxStalledCount
  NoTask,       \* no task is being enqueued by a handler
  (* bounds of the environment *)
  MaxRestarts,  \* crashes and shutdowns of the server process
  MaxFaults,    \* failed calls to the queue or database
  MaxEdits,     \* saves of the workflow definition during the run
  MayCancel,    \* the user may cancel the run
  MayAge        \* the run may be older than STALE_RUN_TIMEOUT_MS

ASSUME OrchestratorAssumption ==
  /\ \A e \in Edges : e[2] \in Tasks
  /\ Critical \subseteq Tasks
  /\ MaxAttempts \in Nat \ {0}
  /\ MaxStalls \in Nat
  /\ NoTask \notin Tasks
  /\ MaxRestarts \in Nat /\ MaxFaults \in Nat /\ MaxEdits \in Nat
  /\ MayCancel \in BOOLEAN /\ MayAge \in BOOLEAN

(***************************************************************************)
(* A job id is generated by BullMQ ("auto", the jobs of triggerRun) or is  *)
(* the task id ("task", the jobs of dispatchUnblockedTasks).               *)
(***************************************************************************)
Jobs == Tasks \X {"auto", "task"}
JobsOf(t) == {j \in Jobs : j[1] = t}

RunStatus  == {"none", "RUNNING", "COMPLETED", "FAILED", "CANCELLED"}
TaskStatus == {"none", "PENDING", "RUNNING", "COMPLETED", "FAILED", "CANCELLED"}
Finished   == {"COMPLETED", "FAILED", "CANCELLED"}

VARIABLES
  phase,        \* the server process: "up", "draining", "down", "booting"
  run,          \* WorkflowRun.status
  old,          \* startedAt is more than STALE_RUN_TIMEOUT_MS ago
  task,         \* Task.status of each node
  completedAt,  \* Task.completedAt is set
  dependsOn,    \* Task.dependsOn, as node ids
  definition,   \* nodes of the workflow's current definition
  job,          \* state of each BullMQ job
  attemptsMade, \* BullMQ's attemptsMade of each job
  stalls,       \* how often each job was recovered as stalled
  events,       \* jobs whose completed or failed event is undelivered
  worker,       \* what the agent's processor has done with the job
  handler,      \* pc of onTaskCompleted / onTaskFailed for the job
  todo,         \* unblockedTasks not yet visited by the handler
  adding,       \* the task the handler has claimed and is enqueueing
  trigger,      \* pc of triggerRun
  remaining,    \* nodes left in triggerRun's current loop
  cancel,       \* pc of cancelRun
  sweep,        \* pc of cleanupStaleRuns
  restarts, faults, edits  \* how much of each bound is used

dbVars      == <<run, task, completedAt, dependsOn, definition>>
queueVars   == <<job, attemptsMade, stalls, events>>
handlerVars == <<handler, todo, adding>>
requestVars == <<trigger, remaining, cancel>>
envVars     == <<phase, old, restarts, faults, edits>>
vars == <<dbVars, queueVars, worker, handlerVars, requestVars, sweep, envVars>>

HandlerPC == {"idle", "readRun", "claim", "add", "rollback", "tally", "verdict",
              "verdictCritical", "complete", "fail", "failRun", "cancelTasks", "done"}

TypeOK ==
  /\ phase \in {"up", "draining", "down", "booting"}
  /\ run \in RunStatus
  /\ old \in BOOLEAN
  /\ task \in [Tasks -> TaskStatus]
  /\ completedAt \in [Tasks -> BOOLEAN]
  /\ dependsOn \in [Tasks -> SUBSET Tasks]
  /\ definition \in SUBSET Tasks
  /\ job \in [Jobs -> {"none", "waiting", "active", "delayed", "completed", "failed"}]
  /\ attemptsMade \in [Jobs -> 0 .. MaxAttempts]
  /\ stalls \in [Jobs -> 0 .. MaxStalls]
  /\ events \in SUBSET Jobs
  /\ worker \in [Jobs -> {"idle", "starting", "executing", "succeeded", "erred"}]
  /\ handler \in [Jobs -> HandlerPC]
  /\ todo \in [Jobs -> SUBSET Tasks]
  /\ adding \in [Jobs -> Tasks \cup {NoTask}]
  /\ trigger \in {"idle", "create", "link", "dispatch", "done"}
  /\ remaining \in SUBSET Tasks
  /\ cancel \in {"idle", "checked", "done"}
  /\ sweep \in {"idle", "boot", "fail", "cancelTasks"}
  /\ restarts \in 0 .. MaxRestarts
  /\ faults \in 0 .. MaxFaults
  /\ edits \in 0 .. MaxEdits

Init ==
  /\ phase = "up"
  /\ run = "none"
  /\ old = FALSE
  /\ task = [t \in Tasks |-> "none"]
  /\ completedAt = [t \in Tasks |-> FALSE]
  /\ dependsOn = [t \in Tasks |-> {}]
  /\ definition = Tasks
  /\ job = [j \in Jobs |-> "none"]
  /\ attemptsMade = [j \in Jobs |-> 0]
  /\ stalls = [j \in Jobs |-> 0]
  /\ events = {}
  /\ worker = [j \in Jobs |-> "idle"]
  /\ handler = [j \in Jobs |-> "idle"]
  /\ todo = [j \in Jobs |-> {}]
  /\ adding = [j \in Jobs |-> NoTask]
  /\ trigger = "idle"
  /\ remaining = {}
  /\ cancel = "idle"
  /\ sweep = "idle"
  /\ restarts = 0
  /\ faults = 0
  /\ edits = 0

Alive == phase # "down"
\* The Express server accepts requests; shutdown never closes it.
ApiUp == phase \in {"up", "draining"}
Fault == faults < MaxFaults /\ faults' = faults + 1 /\ UNCHANGED <<phase, old, restarts, edits>>

-----------------------------------------------------------------------------
(* triggerRun.                                                             *)

\* buildDependencyMap keeps every edge into the node; the rows keep only the
\* sources that are nodes of the definition.
DependencyMap(t) == {e[1] : e \in {e \in Edges : e[2] = t}}
Deps(t) == DependencyMap(t) \cap Tasks
FirstTasksOneParent == {t \in Tasks : Cardinality(DependencyMap(t)) <= 1} \* mutant
FirstTasks == {t \in Tasks : DependencyMap(t) = {}}

TriggerRun ==
  /\ ApiUp /\ trigger = "idle"
  /\ run' = "RUNNING"
  /\ trigger' = "create"
  /\ remaining' = Tasks
  /\ UNCHANGED <<task, completedAt, dependsOn, definition, queueVars, worker,
                 handlerVars, cancel, sweep, envVars>>

\* The loop moves on to the next node, or to the next loop after the last one.
NextNode(t, nextLoop, nextNodes) ==
  IF remaining = {t}
    THEN trigger' = nextLoop /\ remaining' = nextNodes
    ELSE trigger' = trigger /\ remaining' = remaining \ {t}

CreateTask(t) ==
  /\ Alive /\ trigger = "create" /\ t \in remaining
  /\ task' = [task EXCEPT ![t] = "PENDING"]
  /\ NextNode(t, "link", Tasks)
  /\ UNCHANGED <<run, completedAt, dependsOn, definition, queueVars, worker,
                 handlerVars, cancel, sweep, envVars>>

LinkTask(t) ==
  /\ Alive /\ trigger = "link" /\ t \in remaining
  /\ dependsOn' = [dependsOn EXCEPT ![t] = Deps(t)]
  /\ NextNode(t, IF FirstTasks = {} THEN "done" ELSE "dispatch", FirstTasks)
  /\ UNCHANGED <<run, task, completedAt, definition, queueVars, worker,
                 handlerVars, cancel, sweep, envVars>>

\* queue.add: a job id that exists is not added again.
AddJob(j) == job' = [job EXCEPT ![j] = IF @ = "none" THEN "waiting" ELSE @]

\* A first task is enqueued without being claimed and without a job id.
DispatchFirst(t) ==
  /\ Alive /\ trigger = "dispatch" /\ t \in remaining
  /\ AddJob(<<t, "auto">>)
  /\ NextNode(t, "done", {})
  /\ UNCHANGED <<dbVars, attemptsMade, stalls, events, worker, handlerVars,
                 cancel, sweep, envVars>>

\* A call of triggerRun is rejected: its caller answers 500 or swallows the
\* error, and what was written so far stays.
TriggerFails ==
  /\ Alive /\ trigger \in {"create", "link", "dispatch"}
  /\ Fault
  /\ trigger' = "done" /\ remaining' = {}
  /\ UNCHANGED <<dbVars, queueVars, worker, handlerVars, cancel, sweep>>

-----------------------------------------------------------------------------
(* The agent's BullMQ worker: one job at a time for each agent type.       *)

AgentFreeAlways(j) == j \in Jobs \* mutant: no concurrency limit
AgentFree(j) == \A i \in Jobs : AgentOf[i[1]] = AgentOf[j[1]] => worker[i] = "idle"

StartJob(j) ==
  /\ Alive /\ job[j] = "waiting" /\ AgentFree(j)
  /\ job' = [job EXCEPT ![j] = "active"]
  /\ worker' = [worker EXCEPT ![j] = "starting"]
  /\ UNCHANGED <<dbVars, attemptsMade, stalls, events, handlerVars, requestVars, sweep, envVars>>

\* The row's update has no condition on its status.
MarkRunning(j) ==
  /\ Alive /\ worker[j] = "starting"
  /\ worker' = [worker EXCEPT ![j] = "executing"]
  /\ task' = [task EXCEPT ![j[1]] = "RUNNING"]
  /\ UNCHANGED <<run, completedAt, dependsOn, definition, queueVars, handlerVars,
                 requestVars, sweep, envVars>>

ExecuteSucceeds(j) ==
  /\ Alive /\ worker[j] = "executing"
  /\ worker' = [worker EXCEPT ![j] = "succeeded"]
  /\ task' = [task EXCEPT ![j[1]] = "COMPLETED"]
  /\ completedAt' = [completedAt EXCEPT ![j[1]] = TRUE]
  /\ UNCHANGED <<run, dependsOn, definition, queueVars, handlerVars, requestVars,
                 sweep, envVars>>

IsLastAttempt(j) == attemptsMade[j] + 1 >= MaxAttempts

StatusAfterFailureTooLate(j) == \* mutant: attemptsMade is not yet incremented
  IF attemptsMade[j] >= MaxAttempts THEN "FAILED" ELSE "RUNNING"
StatusAfterFailureAlways(j) == IF j \in Jobs THEN "FAILED" ELSE "RUNNING" \* mutant
StatusAfterFailure(j) == IF IsLastAttempt(j) THEN "FAILED" ELSE "RUNNING"

RecordFailure(j) ==
  /\ task' = [task EXCEPT ![j[1]] = StatusAfterFailure(j)]
  /\ completedAt' = [completedAt EXCEPT ![j[1]] = @ \/ IsLastAttempt(j)]

ExecuteFails(j) ==
  /\ Alive /\ worker[j] = "executing"
  /\ worker' = [worker EXCEPT ![j] = "erred"]
  /\ RecordFailure(j)
  /\ UNCHANGED <<run, dependsOn, definition, queueVars, handlerVars, requestVars,
                 sweep, envVars>>

\* A database or cache call of the processor itself throws: the ones before the
\* try are not caught, the ones after the COMPLETED update end in the catch,
\* and the catch's own update leaves the row as it was.
ProcessorFails(j) ==
  /\ Alive /\ worker[j] \in {"starting", "succeeded", "executing"}
  /\ Fault
  /\ worker' = [worker EXCEPT ![j] = "erred"]
  /\ \/ worker[j] \in {"starting", "executing"} /\ UNCHANGED <<task, completedAt>>
     \/ /\ worker[j] = "starting"
        /\ task' = [task EXCEPT ![j[1]] = "RUNNING"]
        /\ UNCHANGED completedAt
     \/ worker[j] = "succeeded" /\ RecordFailure(j)
  /\ UNCHANGED <<run, dependsOn, definition, queueVars, handlerVars, requestVars, sweep>>

\* BullMQ records the processor's outcome: a final one emits an event, a
\* failure with attempts left is delayed by the backoff.
ReportResult(j) ==
  /\ Alive /\ worker[j] \in {"succeeded", "erred"}
  /\ worker' = [worker EXCEPT ![j] = "idle"]
  /\ attemptsMade' = [attemptsMade EXCEPT ![j] = @ + 1]
  /\ IF worker[j] = "succeeded" \/ IsLastAttempt(j)
       THEN /\ job' = [job EXCEPT ![j] = IF worker[j] = "succeeded" THEN "completed" ELSE "failed"]
            /\ events' = events \cup {j}
       ELSE /\ job' = [job EXCEPT ![j] = "delayed"]
            /\ UNCHANGED events
  /\ UNCHANGED <<dbVars, stalls, handlerVars, requestVars, sweep, envVars>>

BackoffElapses(j) ==
  /\ Alive /\ job[j] = "delayed"
  /\ job' = [job EXCEPT ![j] = "waiting"]
  /\ UNCHANGED <<dbVars, attemptsMade, stalls, events, worker, handlerVars,
                 requestVars, sweep, envVars>>

\* The lock of a job whose process died expires: the job waits again, or fails
\* for good beyond maxStalledCount, whatever attempts it has left.
RecoverStalled(j) ==
  /\ Alive /\ job[j] = "active" /\ worker[j] = "idle"
  /\ IF stalls[j] < MaxStalls
       THEN /\ job' = [job EXCEPT ![j] = "waiting"]
            /\ stalls' = [stalls EXCEPT ![j] = @ + 1]
            /\ UNCHANGED <<attemptsMade, events>>
       ELSE /\ job' = [job EXCEPT ![j] = "failed"]
            /\ attemptsMade' = [attemptsMade EXCEPT ![j] = @ + 1]
            /\ events' = events \cup {j}
            /\ UNCHANGED stalls
  /\ UNCHANGED <<dbVars, worker, handlerVars, requestVars, sweep, envVars>>

-----------------------------------------------------------------------------
(* onTaskCompleted and onTaskFailed, one handler per final job event.      *)

Goto(j, pc) == handler' = [handler EXCEPT ![j] = pc]

IsFinalAttemptTooLate(j) == attemptsMade[j] > MaxAttempts \* mutant
IsFinalAttempt(j) == attemptsMade[j] >= MaxAttempts

ResolvedCompleted(t) == task[t] = "COMPLETED" \* mutant: no failure resolves
Resolved(t) == task[t] = "COMPLETED" \/ (task[t] = "FAILED" /\ t \notin Critical)
UnblockedByAny == \* mutant: one resolved parent is enough
  {t \in Tasks : task[t] = "PENDING" /\ (dependsOn[t] = {} \/ \E d \in dependsOn[t] : Resolved(d))}
Unblocked == {t \in Tasks : task[t] = "PENDING" /\ \A d \in dependsOn[t] : Resolved(d)}

\* The first read of dispatchUnblockedTasks.
BeginDispatch(j) ==
  /\ todo' = [todo EXCEPT ![j] = Unblocked]
  /\ Goto(j, IF Unblocked = {} THEN "tally" ELSE "readRun")

\* getJob and the task row are read: BullMQ may have pruned the job.
OnTaskCompleted(j) ==
  /\ phase = "up" /\ j \in events /\ job[j] = "completed"
  /\ events' = events \ {j}
  /\ BeginDispatch(j)
  /\ UNCHANGED <<dbVars, job, attemptsMade, stalls, worker, adding, requestVars,
                 sweep, envVars>>

OnTaskFailed(j) ==
  /\ phase = "up" /\ j \in events /\ job[j] = "failed"
  /\ events' = events \ {j}
  /\ \/ /\ ~IsFinalAttempt(j)
        /\ Goto(j, "done") /\ UNCHANGED todo
     \/ /\ IsFinalAttempt(j) /\ j[1] \in Critical
        /\ Goto(j, "failRun") /\ UNCHANGED todo
     \/ /\ IsFinalAttempt(j) /\ j[1] \notin Critical
        /\ BeginDispatch(j)
  /\ UNCHANGED <<dbVars, job, attemptsMade, stalls, worker, adding, requestVars,
                 sweep, envVars>>

JobNotFound(j) ==
  /\ phase = "up" /\ j \in events
  /\ Fault
  /\ events' = events \ {j}
  /\ Goto(j, "done")
  /\ UNCHANGED <<dbVars, job, attemptsMade, stalls, worker, todo, adding,
                 requestVars, sweep>>

\* The run and the workflow's current definition are read together; a task
\* whose node is gone from the definition is skipped.
ReadRun(j) ==
  /\ Alive /\ handler[j] = "readRun"
  /\ LET left == IF run \in {"CANCELLED", "FAILED"} THEN {} ELSE todo[j] \cap definition
     IN  /\ todo' = [todo EXCEPT ![j] = left]
         /\ Goto(j, IF left = {} THEN "tally" ELSE "claim")
  /\ UNCHANGED <<dbVars, queueVars, worker, adding, requestVars, sweep, envVars>>

\* Where the dispatch loop continues once t has been visited.
AfterTask(j, t) ==
  /\ todo' = [todo EXCEPT ![j] = @ \ {t}]
  /\ Goto(j, IF todo[j] \subseteq {t} THEN "tally" ELSE "claim")

ClaimTask(j, t) ==
  /\ Alive /\ handler[j] = "claim" /\ t \in todo[j]
  /\ IF task[t] = "PENDING"
       THEN /\ task' = [task EXCEPT ![t] = "RUNNING"]
            /\ adding' = [adding EXCEPT ![j] = t]
            /\ Goto(j, "add")
            /\ UNCHANGED todo
       ELSE /\ AfterTask(j, t)
            /\ UNCHANGED <<task, adding>>
  /\ UNCHANGED <<run, completedAt, dependsOn, definition, queueVars, worker,
                 requestVars, sweep, envVars>>

EnqueueTask(j) ==
  /\ Alive /\ handler[j] = "add"
  /\ AddJob(<<adding[j], "task">>)
  /\ AfterTask(j, adding[j])
  /\ adding' = [adding EXCEPT ![j] = NoTask]
  /\ UNCHANGED <<dbVars, attemptsMade, stalls, events, worker, requestVars, sweep, envVars>>

\* queue.add is rejected, before or after Redis has taken the job.
EnqueueFails(j) ==
  /\ Alive /\ handler[j] = "add"
  /\ Fault
  /\ \/ AddJob(<<adding[j], "task">>)
     \/ UNCHANGED job
  /\ Goto(j, "rollback")
  /\ UNCHANGED <<dbVars, attemptsMade, stalls, events, worker, todo, adding,
                 requestVars, sweep>>

\* The process ends: everything in memory is gone, the database and Redis stay.
ProcessExits ==
  /\ phase' = "down"
  /\ worker' = [j \in Jobs |-> "idle"]
  /\ handler' = [j \in Jobs |-> IF handler[j] = "idle" THEN "idle" ELSE "done"]
  /\ todo' = [j \in Jobs |-> {}]
  /\ adding' = [j \in Jobs |-> NoTask]
  /\ trigger' = IF trigger = "idle" THEN "idle" ELSE "done"
  /\ remaining' = {}
  /\ cancel' = IF cancel = "idle" THEN "idle" ELSE "done"
  /\ sweep' = "idle"

\* The claim is reverted and the error rethrown.  Nothing awaits or catches the
\* handler's promise, so the rejection ends the Node process.
RollbackClaim(j) ==
  /\ Alive /\ handler[j] = "rollback"
  /\ task' = [task EXCEPT ![adding[j]] = IF @ = "RUNNING" THEN "PENDING" ELSE @]
  /\ ProcessExits
  /\ UNCHANGED <<run, completedAt, dependsOn, definition, queueVars, old, restarts, faults, edits>>

AllFinishedNonePending == \A t \in Tasks : task[t] # "PENDING" \* mutant
AllFinished == \A t \in Tasks : task[t] \in Finished \cup {"none"}
HasFailedCritical == \E t \in Critical : task[t] = "FAILED"

\* updatedTasks is read; hasFailedCritical is computed from this read.
TallyTasks(j) ==
  /\ Alive /\ handler[j] = "tally"
  /\ Goto(j, IF ~AllFinished THEN "done"
             ELSE IF HasFailedCritical THEN "verdictCritical" ELSE "verdict")
  /\ UNCHANGED <<dbVars, queueVars, worker, todo, adding, requestVars, sweep, envVars>>

\* The run's status is read; only onTaskCompleted fails the run for a critical task.
ReadVerdict(j) ==
  /\ Alive /\ handler[j] \in {"verdict", "verdictCritical"}
  /\ Goto(j, IF run \in {"CANCELLED", "FAILED"} THEN "done"
             ELSE IF handler[j] = "verdict" THEN "complete"
             ELSE IF job[j] = "completed" THEN "fail" ELSE "done")
  /\ UNCHANGED <<dbVars, queueVars, worker, todo, adding, requestVars, sweep, envVars>>

\* Both updates are conditional on the status still being RUNNING.
RunAfterUnconditional(j) == IF handler[j] = "complete" THEN "COMPLETED" ELSE "FAILED" \* mutant
RunAfter(j) ==
  IF run # "RUNNING" THEN run
  ELSE IF handler[j] = "complete" THEN "COMPLETED" ELSE "FAILED"

EndRun(j) ==
  /\ Alive /\ handler[j] \in {"complete", "fail"}
  /\ run' = RunAfter(j)
  /\ Goto(j, "done")
  /\ UNCHANGED <<task, completedAt, dependsOn, definition, queueVars, worker, todo,
                 adding, requestVars, sweep, envVars>>

\* A critical task failed: the run's update has no condition on its status.
FailRun(j) ==
  /\ Alive /\ handler[j] = "failRun"
  /\ run' = "FAILED"
  /\ Goto(j, "cancelTasks")
  /\ UNCHANGED <<task, completedAt, dependsOn, definition, queueVars, worker, todo,
                 adding, requestVars, sweep, envVars>>

PendingKept == task \* mutant: the second update is missing
PendingOrRunningCancelled == \* mutant: no condition on PENDING
  [t \in Tasks |-> IF task[t] \in {"PENDING", "RUNNING"} THEN "CANCELLED" ELSE task[t]]
PendingCancelled == [t \in Tasks |-> IF task[t] = "PENDING" THEN "CANCELLED" ELSE task[t]]

CancelPending(j) ==
  /\ Alive /\ handler[j] = "cancelTasks"
  /\ task' = PendingCancelled
  /\ Goto(j, "done")
  /\ UNCHANGED <<run, completedAt, dependsOn, definition, queueVars, worker, todo,
                 adding, requestVars, sweep, envVars>>

-----------------------------------------------------------------------------
(* cancelRun: the status is checked, then one transaction writes.          *)

CheckCancel ==
  /\ MayCancel /\ ApiUp /\ cancel = "idle" /\ run = "RUNNING"
  /\ cancel' = "checked"
  /\ UNCHANGED <<dbVars, queueVars, worker, handlerVars, trigger, remaining, sweep, envVars>>

CancelRun ==
  /\ Alive /\ cancel = "checked"
  /\ cancel' = "done"
  /\ run' = "CANCELLED"
  /\ task' = PendingCancelled
  /\ UNCHANGED <<completedAt, dependsOn, definition, queueVars, worker, handlerVars,
                 trigger, remaining, sweep, envVars>>

-----------------------------------------------------------------------------
(* cleanupStaleRuns: at boot, before the orchestrator listens, then every  *)
(* five minutes.                                                           *)

RunIsStaleUnlessPending == \* mutant: the filter system-design.md describes
  /\ run = "RUNNING" /\ old
  /\ \A t \in Tasks : task[t] \notin {"RUNNING", "PENDING"}
RunIsStale ==
  /\ run = "RUNNING" /\ old
  /\ \A t \in Tasks : task[t] \notin {"RUNNING", "COMPLETED"}

FindStaleRun ==
  /\ \/ phase = "up" /\ sweep = "idle" /\ RunIsStale
     \/ phase = "booting" /\ sweep = "boot"
  /\ sweep' = IF RunIsStale THEN "fail" ELSE "idle"
  /\ UNCHANGED <<dbVars, queueVars, worker, handlerVars, requestVars, envVars>>

FailStaleRun ==
  /\ Alive /\ sweep = "fail"
  /\ run' = "FAILED"
  /\ sweep' = "cancelTasks"
  /\ UNCHANGED <<task, completedAt, dependsOn, definition, queueVars, worker,
                 handlerVars, requestVars, envVars>>

CancelStaleTasks ==
  /\ Alive /\ sweep = "cancelTasks"
  /\ task' = PendingCancelled
  /\ sweep' = "idle"
  /\ UNCHANGED <<run, completedAt, dependsOn, definition, queueVars, worker,
                 handlerVars, requestVars, envVars>>

-----------------------------------------------------------------------------
(* The server process and the world around it.                             *)

\* updateWorkflow replaces the definition the running run is dispatched from.
EditDefinition ==
  /\ ApiUp /\ run # "none" /\ edits < MaxEdits
  /\ \E nodes \in SUBSET Tasks \ {definition} :
       nodes # {} /\ definition' = nodes
  /\ edits' = edits + 1
  /\ UNCHANGED <<run, task, completedAt, dependsOn, queueVars, worker, handlerVars,
                 requestVars, sweep, phase, old, restarts, faults>>

RunAges ==
  /\ MayAge /\ run = "RUNNING" /\ ~old
  /\ old' = TRUE
  /\ UNCHANGED <<dbVars, queueVars, worker, handlerVars, requestVars, sweep,
                 phase, restarts, faults, edits>>

Crash ==
  /\ Alive /\ restarts < MaxRestarts
  /\ restarts' = restarts + 1
  /\ ProcessExits
  /\ UNCHANGED <<dbVars, queueVars, old, faults, edits>>

\* shutdown closes the queue events before the workers.
Shutdown ==
  /\ phase = "up" /\ restarts < MaxRestarts
  /\ phase' = "draining"
  /\ restarts' = restarts + 1
  /\ UNCHANGED <<dbVars, queueVars, worker, handlerVars, requestVars, sweep, old, faults, edits>>

\* worker.close waits for the jobs in progress; nothing waits for the handlers.
Exit ==
  /\ phase = "draining"
  /\ \A j \in Jobs : worker[j] = "idle"
  /\ ProcessExits
  /\ UNCHANGED <<dbVars, queueVars, old, restarts, faults, edits>>

\* startAgents: the workers run before the orchestrator listens.
Boot ==
  /\ phase = "down"
  /\ phase' = "booting"
  /\ sweep' = "boot"
  /\ UNCHANGED <<dbVars, queueVars, worker, handlerVars, requestVars, old, restarts, faults, edits>>

\* QueueEvents reads from the end of the stream: what was emitted before is lost.
Listen ==
  /\ phase = "booting" /\ sweep = "idle"
  /\ phase' = "up"
  /\ events' = {}
  /\ UNCHANGED <<dbVars, job, attemptsMade, stalls, worker, handlerVars, requestVars,
                 sweep, old, restarts, faults, edits>>

-----------------------------------------------------------------------------
TriggerStep ==
  \E t \in Tasks : CreateTask(t) \/ LinkTask(t) \/ DispatchFirst(t)

WorkerStep(j) ==
  \/ StartJob(j) \/ MarkRunning(j) \/ ExecuteSucceeds(j) \/ ExecuteFails(j)
  \/ ReportResult(j) \/ BackoffElapses(j) \/ RecoverStalled(j)

HandlerStep(j) ==
  \/ OnTaskCompleted(j) \/ OnTaskFailed(j) \/ ReadRun(j)
  \/ \E t \in Tasks : ClaimTask(j, t)
  \/ EnqueueTask(j) \/ RollbackClaim(j)
  \/ TallyTasks(j) \/ ReadVerdict(j) \/ EndRun(j)
  \/ FailRun(j) \/ CancelPending(j)

SweepStep == FindStaleRun \/ FailStaleRun \/ CancelStaleTasks

FaultStep ==
  \/ TriggerFails
  \/ \E j \in Jobs : ProcessorFails(j) \/ JobNotFound(j) \/ EnqueueFails(j)
  \/ Crash \/ Shutdown

ServerStep == Exit \/ Boot \/ Listen

Next ==
  \/ TriggerRun \/ TriggerStep
  \/ \E j \in Jobs : WorkerStep(j) \/ HandlerStep(j)
  \/ CheckCancel \/ CancelRun
  \/ SweepStep
  \/ EditDefinition \/ RunAges
  \/ FaultStep \/ ServerStep

(***************************************************************************)
(* The event loop, BullMQ, the five-minute timer and the supervisor that   *)
(* restarts the process make progress as long as one of them can; users    *)
(* and faults need not act.  Every bound is finite, so no actor can starve *)
(* another and one weak fairness condition for all of them is enough.      *)
(***************************************************************************)
Progress ==
  \/ TriggerStep
  \/ \E j \in Jobs : WorkerStep(j) \/ HandlerStep(j)
  \/ CancelRun
  \/ SweepStep
  \/ RunAges
  \/ ServerStep

Spec == Init /\ [][Next]_vars
FairSpec == Spec /\ WF_vars(Progress)

-----------------------------------------------------------------------------
(* Safety.                                                                 *)

Started(t) == task[t] \in {"RUNNING", "COMPLETED", "FAILED"}

\* No task reaches an agent before every task it depends on has finished at
\* least once (its completedAt is set), whatever crashes, faults, edits,
\* cancels or duplicate jobs happen on the way.
DependencyOrder ==
  \A t \in Tasks : Started(t) => \A d \in Deps(t) : completedAt[d]

\* A late completion never turns a FAILED or CANCELLED run into COMPLETED, and
\* no run is RUNNING again once it has ended.
LateCompletionDiscarded ==
  [][/\ run' = "COMPLETED" => run \in {"RUNNING", "COMPLETED"}
     /\ run' = "RUNNING" => run \in {"none", "RUNNING"}]_vars

\* A task is dispatched once: it never has two jobs.
NoDuplicateDispatch ==
  \A t \in Tasks : Cardinality({j \in JobsOf(t) : job[j] # "none"}) <= 1

\* A COMPLETED run has nothing left to do: every task is finished, none failed
\* critically, and no job of it is still queued or executing.
CompletedRunIsQuiescent ==
  run = "COMPLETED" =>
    /\ \A t \in Tasks : task[t] \in Finished
    /\ ~HasFailedCritical
    /\ \A j \in Jobs : job[j] \notin {"waiting", "delayed"} /\ worker[j] \notin {"starting", "executing"}

\* COMPLETED, FAILED and CANCELLED are final states of a task.
TaskStatesFinal ==
  [][\A t \in Tasks : task[t] \in Finished => task'[t] = task[t]]_vars

\* COMPLETED, FAILED and CANCELLED are final states of a run.
RunStatesFinal == [][(run \in Finished) => run' = run]_vars

\* A run is swept as stale only when nothing of it is running or pending.
SweepSparesPending ==
  sweep = "fail" => \A t \in Tasks : task[t] \notin {"RUNNING", "PENDING"}

\* A task that is RUNNING is in the hands of somebody: a live job of it is in
\* the queue, or the handler that claimed it is about to enqueue or revert it.
RunningTaskHasJob ==
  \A t \in Tasks : task[t] = "RUNNING" =>
    \/ \E j \in JobsOf(t) : job[j] \in {"waiting", "active", "delayed"}
    \/ \E j \in Jobs : adding[j] = t

\* A task is FAILED only by its last attempt.
FailedOnlyByLastAttempt ==
  \A t \in Tasks : task[t] = "FAILED" => \E j \in JobsOf(t) : IsLastAttempt(j)

\* The task an agent works on is shown as RUNNING.
ExecutingTaskIsRunning ==
  \A j \in Jobs : worker[j] = "executing" => task[j[1]] = "RUNNING"

\* Cancelling freezes what was not yet handed to an agent: a CANCELLED run has
\* no PENDING task left for a late completion to claim.
CancelFreezesPending ==
  run = "CANCELLED" => \A t \in Tasks : task[t] # "PENDING"

-----------------------------------------------------------------------------
(* Liveness.                                                               *)

\* A triggered run reaches a terminal status.
RunSettles == run = "RUNNING" ~> run # "RUNNING"

\* A critical task that is out of attempts fails the run.
CriticalFailureFailsRun == HasFailedCritical ~> run = "FAILED"

\* Once the run has ended, every task row reaches a terminal status.
TasksSettle == run \in Finished ~> AllFinished

\* A run none of whose tasks is running or completed does not stay stale.
StaleRunsAreSwept ==
  []<>~(run = "RUNNING" /\ old /\ \A t \in Tasks : task[t] \in {"none", "PENDING", "FAILED", "CANCELLED"})

-----------------------------------------------------------------------------
(* The inductive invariant behind the safety properties, in named parts.   *)

Ready(t) == \A d \in Deps(t) : completedAt[d]
HasJob(j) == job[j] # "none"

\* triggerRun enqueues nothing before all rows exist and are linked.
TriggerInv ==
  /\ trigger = "idle" => run = "none" /\ cancel = "idle" /\ sweep \in {"idle", "boot"}
  /\ trigger \in {"idle", "create", "link"} => \A j \in Jobs : ~HasJob(j)
  /\ trigger = "link" => \A t \in Tasks \ remaining : dependsOn[t] = Deps(t)
  /\ trigger = "dispatch" => remaining \subseteq FirstTasks

LinkInv ==
  (trigger = "dispatch" \/ \E j \in Jobs : HasJob(j)) =>
    \A t \in Tasks : dependsOn[t] = Deps(t)

\* A job that has ended has at most one event, handled once; a live job has
\* attempts left; only an active job is in an agent's hands.
JobInv ==
  \A j \in Jobs :
    /\ j \in events \/ handler[j] # "idle" => job[j] \in {"completed", "failed"}
    /\ j \in events => handler[j] = "idle"
    /\ worker[j] # "idle" => job[j] = "active"
    /\ job[j] \in {"none", "waiting", "active", "delayed"} => attemptsMade[j] < MaxAttempts
    /\ adding[j] # NoTask <=> handler[j] \in {"add", "rollback"}

\* One job at a time for each agent type.
AgentInv ==
  \A i, j \in Jobs :
    worker[i] # "idle" /\ worker[j] # "idle" /\ AgentOf[i[1]] = AgentOf[j[1]] => i = j

\* Whatever is claimed, queued or started has its dependencies behind it.
ReadyInv ==
  /\ \A j \in Jobs : \A t \in todo[j] : Ready(t)
  /\ \A j \in Jobs : adding[j] # NoTask => Ready(adding[j])
  /\ \A j \in Jobs : HasJob(j) => Ready(j[1])
  /\ \A t \in Tasks : Started(t) => Ready(t)

CompletedInv ==
  \A t \in Tasks : task[t] \in {"COMPLETED", "FAILED"} => completedAt[t]

IndInv ==
  /\ TypeOK
  /\ TriggerInv
  /\ LinkInv
  /\ JobInv
  /\ AgentInv
  /\ ReadyInv
  /\ CompletedInv
  /\ ExecutingTaskIsRunning
  /\ FailedOnlyByLastAttempt

-----------------------------------------------------------------------------
(* What holds besides as long as nothing has failed: no crash, no shutdown *)
(* and no rejected call.                                                   *)

Undisturbed == restarts = 0 /\ faults = 0

\* triggerRun creates each row once, and all of them before the first job.
RowsInv ==
  /\ trigger = "idle" => \A t \in Tasks : task[t] = "none"
  /\ trigger = "create" => \A t \in Tasks : task[t] = "none" <=> t \in remaining
  /\ (trigger \in {"link", "dispatch"} \/ \E j \in Jobs : HasJob(j)) =>
       \A t \in Tasks : task[t] # "none"

\* The process goes on, an active job is in its agent's hands, and what came of
\* it is in the row.
SmoothInv ==
  /\ phase = "up"
  /\ \A j \in Jobs :
       /\ handler[j] # "rollback"
       /\ job[j] = "active" => worker[j] # "idle"
       /\ worker[j] = "succeeded" => task[j[1]] = "COMPLETED"
       /\ worker[j] = "erred" => task[j[1]] = StatusAfterFailure(j)

\* A task is claimed once, and enqueued under its id by who claimed it.
ClaimInv ==
  /\ \A t \in Tasks : task[t] \in {"none", "PENDING"} =>
       ~HasJob(<<t, "task">>) /\ \A j \in Jobs : adding[j] # t
  /\ \A j \in Jobs : adding[j] # NoTask => ~HasJob(<<adding[j], "task">>)
  /\ \A i, j \in Jobs : adding[i] # NoTask /\ adding[i] = adding[j] => i = j

SmoothIndInv == SmoothInv /\ ClaimInv /\ RunningTaskHasJob

(***************************************************************************)
(* With one first node every task has one job, and its row follows it.     *)
(***************************************************************************)
OneFirstNode(r) == r \in Tasks /\ \A t \in Tasks \ {r} : Deps(t) # {}

\* The job a task is dispatched by, and the one it never has.
JobOf(r, t) == <<t, IF t = r THEN "auto" ELSE "task">>
OtherJobOf(r, t) == <<t, IF t = r THEN "task" ELSE "auto">>

\* triggerRun does not claim: the first node's row waits as it was created, or
\* is cancelled under its job.
WaitingRow(r, t) ==
  task[t] = "RUNNING" \/ (t = r /\ task[t] \in {"PENDING", "CANCELLED"})

RowFollows(r, t) == LET j == JobOf(r, t) IN
  /\ job[j] = "waiting" \/ worker[j] = "starting" => WaitingRow(r, t)
  /\ job[j] = "delayed" => task[t] = "RUNNING"
  /\ job[j] = "completed" => task[t] = "COMPLETED"
  /\ job[j] = "failed" => task[t] = "FAILED"
  /\ completedAt[t] => task[t] \in {"COMPLETED", "FAILED"} /\ HasJob(j)

RowFollowsJob(r) ==
  \A t \in Tasks :
    /\ ~HasJob(OtherJobOf(r, t))
    /\ RowFollows(r, t)
    /\ completedAt[t] => completedAt[r]
    /\ \A i \in Jobs : adding[i] = t => t # r /\ task[t] = "RUNNING"

\* Once a handler has found every task finished, none is started again.
Settled(r) ==
  /\ \A t \in Tasks : task[t] \in Finished
  /\ ~HasFailedCritical
  /\ HasJob(JobOf(r, r))
  /\ \A j \in Jobs : /\ job[j] \notin {"waiting", "delayed"}
                     /\ worker[j] \notin {"starting", "executing"}

VerdictInv(r) ==
  (run = "COMPLETED" \/ \E j \in Jobs : handler[j] \in {"verdict", "complete"}) => Settled(r)

OneRootInv(r) == RowFollowsJob(r) /\ VerdictInv(r)

\* Unless the run is cancelled or grows old, its first row is not CANCELLED.
CancelledInv(r) ==
  cancel = "idle" /\ ~old => sweep = "idle" /\ task[r] # "CANCELLED"
=============================================================================
