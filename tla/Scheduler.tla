----------------------------- MODULE Scheduler -----------------------------
(***************************************************************************)
(* The schedule of one workflow: its row in PostgreSQL, its repeatable     *)
(* jobs in BullMQ, the requests that change both one call after the other  *)
(* (server/api/scheduler, deleteWorkflow in server/api/workflow), the      *)
(* worker that turns a tick into a run, and the sync at startup.           *)
(*                                                                         *)
(* BullMQ keys a repeatable job by name, pattern and time zone, so one     *)
(* workflow may have several; a "cron" here is a pattern with its zone.    *)
(* A repeatable job carries its own copy of the schedule's input.          *)
(***************************************************************************)
EXTENDS Naturals

CONSTANTS
  Requests,    \* concurrent requests, each reused when done
  Boot,        \* syncAllSchedules, run before the server listens
  Crons, Inputs,
  None,        \* no row, no registration, nothing found
  (* bounds *)
  MaxRequests, \* requests in total
  MaxTicks,    \* ticks in total
  MaxRestarts, MaxFaults

Procs == Requests \cup {Boot}
Schedules == [cron : Crons, input : Inputs, enabled : BOOLEAN]

ASSUME SchedulerAssumption ==
  /\ Boot \notin Requests
  /\ None \notin Schedules \cup Crons \cup Inputs
  /\ MaxRequests \in Nat /\ MaxTicks \in Nat /\ MaxRestarts \in Nat /\ MaxFaults \in Nat

VARIABLES
  up,         \* the server listens
  archived,   \* WorkflowDefinition.isArchived
  schedule,   \* the WorkflowSchedule row
  repeatable, \* the input registered under each cron
  op,         \* what each process is doing
  pc,         \* its next call
  data,       \* the schedule it is going to write and register
  found,      \* target: the repeatable job it is going to remove
  tick,       \* the tick in the scheduler's queue or worker
  runs,       \* runs started by ticks
  requests, ticks, restarts, faults  \* how much of each bound is used

rowVars  == <<archived, schedule>>
procVars == <<op, data, found>>
tickVars == <<tick, runs>>
bounds   == <<requests, ticks, restarts, faults>>
vars == <<up, rowVars, repeatable, pc, procVars, tickVars, bounds>>

Ops == {"none", "create", "update", "delete", "deleteWorkflow", "sync"}
PCs == {"idle", "createRow", "updateRow", "find", "remove", "add", "deleteRow",
        "deleteRows", "archive", "findAllEnabled"}

TypeOK ==
  /\ up \in BOOLEAN /\ archived \in BOOLEAN
  /\ schedule \in Schedules \cup {None}
  /\ repeatable \in [Crons -> Inputs \cup {None}]
  /\ op \in [Procs -> Ops]
  /\ pc \in [Procs -> PCs]
  /\ data \in [Procs -> Schedules \cup {None}]
  /\ found \in [Procs -> Crons \cup {None}]
  /\ tick \in {"none", "fired", "checked", "started"}
  /\ runs \in Nat
  /\ requests \in 0 .. MaxRequests /\ ticks \in 0 .. MaxTicks
  /\ restarts \in 0 .. MaxRestarts /\ faults \in 0 .. MaxFaults

Init ==
  /\ up = TRUE /\ archived = FALSE
  /\ schedule = None
  /\ repeatable = [c \in Crons |-> None]
  /\ op = [p \in Procs |-> "none"]
  /\ pc = [p \in Procs |-> "idle"]
  /\ data = [p \in Procs |-> None]
  /\ found = [p \in Procs |-> None]
  /\ tick = "none" /\ runs = 0
  /\ requests = 0 /\ ticks = 0 /\ restarts = 0 /\ faults = 0

Registered == {c \in Crons : repeatable[c] # None}

\* The process p goes on with the call pc, or is done and forgets its locals.
Goto(p, label) == pc' = [pc EXCEPT ![p] = label] /\ UNCHANGED procVars
Done(p) ==
  /\ pc' = [pc EXCEPT ![p] = "idle"] /\ op' = [op EXCEPT ![p] = "none"]
  /\ data' = [data EXCEPT ![p] = None] /\ found' = [found EXCEPT ![p] = None]

\* A request is accepted: what it is, the call it goes on with, its input.
Accept(p, kind, label, d) ==
  /\ p \in Requests /\ up /\ pc[p] = "idle" /\ requests < MaxRequests
  /\ requests' = requests + 1
  /\ op' = [op EXCEPT ![p] = kind]
  /\ pc' = [pc EXCEPT ![p] = label]
  /\ data' = [data EXCEPT ![p] = d]
  /\ UNCHANGED <<up, rowVars, repeatable, found, tickVars, ticks, restarts, faults>>

-----------------------------------------------------------------------------
(* The handlers up to their first write.  The workflow row of an archived  *)
(* workflow is still there, and only deleteWorkflow looks at isArchived.   *)

CreateSchedule(p) ==
  /\ schedule = None
  /\ \E d \in Schedules : Accept(p, "create", "createRow", d)

\* updateSchedule and toggleSchedule: the fields of d that the request does
\* not name are those of the row.
UpdateSchedule(p) ==
  /\ schedule # None
  /\ \E d \in Schedules : Accept(p, "update", "updateRow", d)

DeleteSchedule(p) ==
  schedule # None /\ Accept(p, "delete", "find", None)

DeleteWorkflow(p) ==
  ~archived /\ Accept(p, "deleteWorkflow", "find", None)

-----------------------------------------------------------------------------
(* The calls.                                                              *)

\* workflowId is unique: a second row is rejected.
CreateRow(p) ==
  /\ pc[p] = "createRow"
  /\ IF schedule # None
     THEN Done(p) /\ UNCHANGED schedule
     ELSE /\ schedule' = data[p]
          /\ IF data[p].enabled THEN Goto(p, "find") ELSE Done(p)
  /\ UNCHANGED <<up, archived, repeatable, tickVars, bounds>>

UpdateRowKeepingJob(p) == \* mutant: a disabled schedule keeps its job
  /\ pc[p] = "updateRow"
  /\ IF schedule = None
     THEN Done(p) /\ UNCHANGED schedule
     ELSE /\ schedule' = data[p]
          /\ IF data[p].enabled THEN Goto(p, "find") ELSE Done(p)
  /\ UNCHANGED <<up, archived, repeatable, tickVars, bounds>>
\* The row may be gone by now (P2025).
UpdateRow(p) ==
  /\ pc[p] = "updateRow"
  /\ IF schedule = None
     THEN Done(p) /\ UNCHANGED schedule
     ELSE schedule' = data[p] /\ Goto(p, "find")
  /\ UNCHANGED <<up, archived, repeatable, tickVars, bounds>>

\* What follows removeRepeatableJob in each of its callers.
AfterRemove(p) ==
  CASE op[p] \in {"create", "sync"} -> Goto(p, "add")
    [] op[p] = "update" -> IF data[p].enabled THEN Goto(p, "add") ELSE Done(p)
    [] op[p] = "delete" -> Goto(p, "deleteRow")
    [] op[p] = "deleteWorkflow" -> Goto(p, "deleteRows")

FindOfSameCron(p) == \* mutant: looks for the job of the new pattern
  /\ pc[p] = "find"
  /\ LET mine == IF data[p] = None THEN Registered ELSE Registered \cap {data[p].cron} IN
     IF mine = {}
     THEN AfterRemove(p)
     ELSE \E c \in mine : /\ found' = [found EXCEPT ![p] = c]
                          /\ pc' = [pc EXCEPT ![p] = "remove"]
                          /\ UNCHANGED <<op, data>>
  /\ UNCHANGED <<up, rowVars, repeatable, tickVars, bounds>>
\* removeRepeatableJob: the first job of the workflow's name, in BullMQ's
\* order of next execution.
Find(p) ==
  /\ pc[p] = "find"
  /\ IF Registered = {}
     THEN AfterRemove(p)
     ELSE \E c \in Registered : /\ found' = [found EXCEPT ![p] = c]
                                /\ pc' = [pc EXCEPT ![p] = "remove"]
                                /\ UNCHANGED <<op, data>>
  /\ UNCHANGED <<up, rowVars, repeatable, tickVars, bounds>>

Remove(p) ==
  /\ pc[p] = "remove"
  /\ repeatable' = [repeatable EXCEPT ![found[p]] = None]
  /\ AfterRemove(p)
  /\ UNCHANGED <<up, rowVars, tickVars, bounds>>

\* removeRepeatableJob swallows every error of the queue.
RemoveFails(p) ==
  /\ pc[p] \in {"find", "remove"} /\ faults < MaxFaults
  /\ faults' = faults + 1
  /\ AfterRemove(p)
  /\ UNCHANGED <<up, rowVars, repeatable, tickVars, requests, ticks, restarts>>

\* registerRepeatableJob: a job of the same key is replaced.
Add(p) ==
  /\ pc[p] = "add"
  /\ repeatable' = [repeatable EXCEPT ![data[p].cron] = data[p].input]
  /\ Done(p)
  /\ up' = (up \/ p = Boot)
  /\ UNCHANGED <<rowVars, tickVars, bounds>>

\* deleteSchedule: the row may be gone by now (P2025).
DeleteRow(p) ==
  /\ pc[p] = "deleteRow"
  /\ schedule' = None
  /\ Done(p)
  /\ UNCHANGED <<up, archived, repeatable, tickVars, bounds>>

\* WorkflowRepository.delete: the schedules, then (the webhooks and) the flag.
DeleteRows(p) ==
  /\ pc[p] = "deleteRows"
  /\ schedule' = None
  /\ Goto(p, "archive")
  /\ UNCHANGED <<up, archived, repeatable, tickVars, bounds>>

Archive(p) ==
  /\ pc[p] = "archive"
  /\ archived' = TRUE
  /\ Done(p)
  /\ UNCHANGED <<up, schedule, repeatable, tickVars, bounds>>

\* A call whose error is not swallowed ends the request, or the sync.
CallFails(p) ==
  /\ pc[p] \notin {"idle", "find", "remove"} /\ faults < MaxFaults
  /\ faults' = faults + 1
  /\ Done(p)
  /\ up' = (up \/ p = Boot)
  /\ UNCHANGED <<rowVars, repeatable, tickVars, requests, ticks, restarts>>

-----------------------------------------------------------------------------
(* The tick: SchedulerWorker's processor, one job at a time.               *)

FireTick ==
  /\ Registered # {} /\ tick = "none" /\ ticks < MaxTicks
  /\ tick' = "fired" /\ ticks' = ticks + 1
  /\ UNCHANGED <<up, rowVars, repeatable, pc, procVars, runs, requests, restarts, faults>>

\* Is the schedule still there and still enabled?
CheckTick ==
  /\ tick = "fired"
  /\ tick' = IF schedule # None /\ schedule.enabled THEN "checked" ELSE "none"
  /\ UNCHANGED <<up, rowVars, repeatable, pc, procVars, runs, bounds>>

\* Orchestrator.triggerRun: the workflow row exists, archived or not.
StartRun ==
  /\ tick = "checked"
  /\ tick' = "started" /\ runs' = runs + 1
  /\ UNCHANGED <<up, rowVars, repeatable, pc, procVars, bounds>>

\* updateLastRun, whose failure is only logged.
EndTick ==
  /\ tick = "started"
  /\ tick' = "none"
  /\ UNCHANGED <<up, rowVars, repeatable, pc, procVars, runs, bounds>>

\* The processor catches and logs every error: the tick counts as done.
TickFails ==
  /\ tick # "none" /\ faults < MaxFaults
  /\ faults' = faults + 1
  /\ tick' = "none"
  /\ UNCHANGED <<up, rowVars, repeatable, pc, procVars, runs, requests, ticks, restarts>>

-----------------------------------------------------------------------------
(* The process.                                                            *)

\* An active tick is recovered as stalled, or given up for lost.
Crash ==
  /\ restarts < MaxRestarts
  /\ restarts' = restarts + 1
  /\ up' = FALSE
  /\ op' = [p \in Procs |-> IF p = Boot THEN "sync" ELSE "none"]
  /\ pc' = [p \in Procs |-> IF p = Boot THEN "findAllEnabled" ELSE "idle"]
  /\ data' = [p \in Procs |-> None] /\ found' = [p \in Procs |-> None]
  /\ tick' \in IF tick = "none" THEN {"none"} ELSE {"none", "fired"}
  /\ UNCHANGED <<rowVars, repeatable, runs, requests, ticks, faults>>

FindAllEnabledUnregistered == \* mutant: syncs only what has no job at all
  /\ pc[Boot] = "findAllEnabled"
  /\ IF schedule # None /\ schedule.enabled /\ Registered = {}
     THEN /\ data' = [data EXCEPT ![Boot] = schedule]
          /\ pc' = [pc EXCEPT ![Boot] = "find"]
          /\ UNCHANGED <<up, op, found>>
     ELSE Done(Boot) /\ up' = TRUE
  /\ UNCHANGED <<rowVars, repeatable, tickVars, bounds>>
\* syncAllSchedules: register what is enabled, then listen.
FindAllEnabled ==
  /\ pc[Boot] = "findAllEnabled"
  /\ IF schedule # None /\ schedule.enabled
     THEN /\ data' = [data EXCEPT ![Boot] = schedule]
          /\ pc' = [pc EXCEPT ![Boot] = "find"]
          /\ UNCHANGED <<up, op, found>>
     ELSE Done(Boot) /\ up' = TRUE
  /\ UNCHANGED <<rowVars, repeatable, tickVars, bounds>>

Call(p) ==
  \/ CreateRow(p) \/ UpdateRow(p) \/ Find(p) \/ Remove(p) \/ Add(p)
  \/ DeleteRow(p) \/ DeleteRows(p) \/ Archive(p)

TickStep == CheckTick \/ StartRun \/ EndTick

Next ==
  \/ \E p \in Requests :
       CreateSchedule(p) \/ UpdateSchedule(p) \/ DeleteSchedule(p) \/ DeleteWorkflow(p)
  \/ \E p \in Procs : Call(p) \/ RemoveFails(p) \/ CallFails(p)
  \/ FindAllEnabled
  \/ FireTick \/ TickStep \/ TickFails
  \/ Crash

Spec == Init /\ [][Next]_vars

\* Accepted requests, the sync and a tick in the worker go on; users, faults
\* and cron need not act.
Progress == (\E p \in Procs : Call(p)) \/ FindAllEnabled \/ TickStep
FairSpec == Spec /\ WF_vars(Progress)

-----------------------------------------------------------------------------
(* Properties.                                                             *)

Quiet == up /\ \A p \in Procs : pc[p] = "idle"
Enabled == schedule # None /\ schedule.enabled
JobOfRow == repeatable[schedule.cron] = schedule.input

\* When nothing is under way and nothing went wrong before, BullMQ holds exactly
\* the job of the enabled row, with its cron and its input, and none for a
\* disabled or deleted schedule.
RegisteredIffEnabled ==
  Quiet /\ faults = 0 /\ restarts = 0 =>
    IF Enabled THEN JobOfRow /\ Registered = {schedule.cron} ELSE Registered = {}

\* Unless a call fails, the workflow never has two repeatable jobs: no cron
\* expression it had before keeps firing beside the one it has.
AtMostOneJob == faults = 0 => \A c, d \in Registered : c = d

\* Unless a call fails, an enabled schedule is registered as it stands whenever
\* the server listens and no request is under way, however often it crashed in
\* between.
EnabledIsRegistered == Quiet /\ Enabled /\ faults = 0 => JobOfRow

\* A sync that meets no error leaves an enabled schedule registered as it
\* stands, whatever races and failures came before.
SyncRepairs == [][~up /\ up' /\ faults' = faults /\ Enabled => JobOfRow']_vars

\* No tick starts a run of an archived workflow.
NoPhantomRun == [][runs' # runs => ~archived]_vars

-----------------------------------------------------------------------------
(* The inductive invariants.                                               *)

\* The sync runs before the server listens, so it never overlaps a request: what
\* it has read is what it registers.
SyncInv ==
  /\ up <=> pc[Boot] = "idle"
  /\ ~up => \A p \in Requests : pc[p] = "idle"
  /\ pc[Boot] \in {"find", "remove", "add"} => schedule = data[Boot]

\* What each process knows at each call.
LocalsInv ==
  \A p \in Procs :
    /\ pc[p] \in {"createRow", "updateRow", "add"} => data[p] \in Schedules
    /\ pc[p] = "add" => data[p].enabled
    /\ pc[p] \in {"find", "remove"} =>
         /\ op[p] \in {"create", "update", "delete", "deleteWorkflow", "sync"}
         /\ op[p] \in {"create", "update", "sync"} => data[p] \in Schedules
         /\ op[p] \in {"create", "sync"} => data[p].enabled
    /\ op[p] = "none" <=> pc[p] = "idle"
    /\ op[p] = "sync" <=> p = Boot /\ pc[p] # "idle"
    /\ pc[p] = "findAllEnabled" => p = Boot
    /\ pc[p] = "createRow" => op[p] = "create"
    /\ pc[p] = "updateRow" => op[p] = "update"
    /\ pc[p] = "add" => op[p] \in {"create", "update", "sync"}
    /\ pc[p] \in {"deleteRow", "deleteRows", "archive"} => op[p] \in {"delete", "deleteWorkflow"}

\* Whatever fails and however many requests overlap.
BaseInv == TypeOK /\ SyncInv /\ LocalsInv

(***************************************************************************)
(* For one request at a time.                                              *)
(***************************************************************************)
OneAtATime == \A p, q \in Requests : p = q

\* Unless a call fails, the job that was found is the only one, and it is gone
\* before the add.
JobInv ==
  faults = 0 =>
    /\ \A c, d \in Registered : c = d
    /\ \A p \in Procs :
         /\ pc[p] = "remove" => found[p] \in Registered
         /\ pc[p] = "add" => Registered = {}

\* No request has written the row and not yet seen to its job.
Resting == \A p \in Procs : pc[p] \in {"idle", "createRow", "updateRow"}

\* Who registers, registers the row; elsewhere the row's job is in place.
RowInv ==
  /\ \A p \in Procs :
       op[p] \in {"create", "update", "sync"} /\ pc[p] \in {"find", "remove", "add"} => schedule = data[p]
  /\ \A p \in Procs : pc[p] = "archive" => schedule = None
  /\ faults = 0 /\ Resting /\ Enabled => JobOfRow

\* Until the first failure or crash, who deletes, has removed the job; elsewhere
\* there is none without an enabled row.
CleanInv ==
  faults = 0 /\ restarts = 0 =>
    /\ up
    /\ Resting /\ ~Enabled => Registered = {}
    /\ \A p \in Procs : pc[p] \in {"deleteRow", "deleteRows", "archive"} => Registered = {}

IndInv == BaseInv /\ JobInv /\ RowInv /\ CleanInv
=============================================================================
