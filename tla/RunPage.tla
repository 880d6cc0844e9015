------------------------------ MODULE RunPage ------------------------------
(***************************************************************************)
(* What a user sees of one run: the run page with its event stream         *)
(* (client/app/(builder)/runs/[runId]/page.tsx, hooks/use-run-stream.ts),  *)
(* the two lists of runs (app/(dashboard)/runs/page.tsx and the workflow's *)
(* ExecutionHistoryTab), the query cache between them (hooks/use-run.ts)   *)
(* and the server's stream and run endpoints (server/api/run).             *)
(*                                                                         *)
(* The run itself is reduced to the rows the page reads and the events     *)
(* that announce them; how they come about is the module Orchestrator.  An *)
(* event is emitted some time after its row is written, to whoever listens *)
(* at that moment: there is no replay.                                     *)
(*                                                                         *)
(* missed is a history variable: the events that were sent while the page  *)
(* was not listening, or came in the same render as a later one, or that   *)
(* nobody had handled when the page was left, or whose fetch failed.  All  *)
(* of it happens; the properties say that nothing else keeps the page from *)
(* showing how the run ended.                                              *)
(***************************************************************************)
EXTENDS Naturals, Sequences, FiniteSets, QueryCache

CONSTANTS
  Tasks,       \* of the run
  Lists,       \* of runs, the pages beside the run's: "runs", "history"
  MaxFaults,   \* bound: connections missed, tokens expired, fetches failed
  MaxTurns,    \* bound: these and pages opened
  MaxCancels   \* bound: clicks on Cancel Run

Pages == Lists \cup {"run"}

Live == {"PENDING", "RUNNING"}
Final == {"COMPLETED", "FAILED", "CANCELLED"}
Status == Live \cup Final
Rows == [run: Status, task: [Tasks -> Status]]

ASSUME RunPageAssumption == Lists \subseteq {"runs", "history"} /\ None \notin Rows

\* Events about the run, and about a task.
RunEvents == [type: {"RUN_COMPLETED", "RUN_FAILED", "RUN_CANCELLED"}]
TaskEvents == [taskId: Tasks, status: {"RUNNING", "COMPLETED", "FAILED"}]
NoEvent == [type |-> "none"]

VARIABLES
  run, task,   \* the rows' statuses
  toEmit,      \* events whose row is written and whose emit is to come
  conn,        \* the EventSource
  authorized,  \* the token in the stream's URL is still accepted
  wire,        \* events sent and not yet received
  latest,      \* events[events.length - 1]
  unseen,      \* the effect has not yet run for it
  cache,       \* of each query
  changed,     \* the run's data changed since the canvas was built
  nodes,       \* the canvas: the status of each node
  view,        \* the page shown
  cancel,      \* the cancel request: "idle", "sent", "checked", "done", "refused"
  missed,
  visits, faults, cancels

serverVars == <<run, task, toEmit>>
streamVars == <<conn, authorized, wire>>
eventVars == <<latest, unseen>>
counters == <<visits, faults, cancels>>
runPageVars == <<serverVars, streamVars, eventVars, cache, changed, nodes, view, cancel,
          missed, counters>>

NodeStatus == {"idle", "running", "success", "error"}

RunPageTypeOK ==
  /\ run \in Status /\ task \in [Tasks -> Status]
  /\ toEmit \subseteq RunEvents \cup TaskEvents
  /\ conn \in {"off", "connecting", "open", "reconnecting", "closed"}
  /\ authorized \in BOOLEAN
  /\ wire \in Seq(RunEvents \cup TaskEvents)
  /\ latest \in RunEvents \cup TaskEvents \cup {NoEvent} /\ unseen \in BOOLEAN
  /\ unseen => latest # NoEvent
  /\ cache \in [Pages -> Entry(Rows \cup [run: Status])]
  /\ cache.run \in Entry(Rows) /\ \A l \in Lists : cache[l] \in Entry([run: Status])
  /\ changed \in BOOLEAN /\ nodes \in [Tasks -> NodeStatus]
  /\ view \in Pages \cup {"away"}
  /\ cancel \in {"idle", "sent", "checked", "done", "refused"} /\ missed \subseteq RunEvents \cup TaskEvents

RunPageInit ==
  /\ run = "RUNNING" /\ task = [t \in Tasks |-> "PENDING"] /\ toEmit = {}
  /\ conn = "off" /\ authorized = TRUE /\ wire = <<>>
  /\ latest = NoEvent /\ unseen = FALSE
  /\ cache = [p \in Pages |-> EmptyEntry] /\ changed = FALSE
  /\ nodes = [t \in Tasks |-> "idle"]
  /\ view = "away" /\ cancel = "idle" /\ missed = {}
  /\ visits = 0 /\ faults = 0 /\ cancels = 0

-----------------------------------------------------------------------------
(* The run, as the orchestrator moves it. *)

pageVars == <<streamVars, eventVars, cache, changed, nodes, view, missed, counters>>

\* A first task is not announced, a task that dispatchUnblockedTasks claims is.
\* Its event follows queue.add's answer, so the task cannot end before it.
StartTask(t) ==
  /\ run = "RUNNING" /\ task[t] = "PENDING"
  /\ task' = [task EXCEPT ![t] = "RUNNING"]
  /\ \E announced \in SUBSET {[taskId |-> t, status |-> "RUNNING"]} :
       toEmit' = toEmit \cup announced
  /\ UNCHANGED <<run, cancel, pageVars>>

\* The row is final; the handler of the job's event announces it.
EndTask(t, status) ==
  /\ task[t] = "RUNNING"
  /\ [taskId |-> t, status |-> "RUNNING"] \notin toEmit
  /\ task' = [task EXCEPT ![t] = status]
  /\ toEmit' = toEmit \cup {[taskId |-> t, status |-> status]}
  /\ UNCHANGED <<run, cancel, pageVars>>

StopPending(rows) == [t \in Tasks |-> IF rows[t] = "PENDING" THEN "CANCELLED" ELSE rows[t]]

\* A critical task fails: whatever the run was, it is FAILED now.
FailRun(t) ==
  /\ task[t] = "RUNNING"
  /\ [taskId |-> t, status |-> "RUNNING"] \notin toEmit
  /\ run' = "FAILED"
  /\ task' = StopPending([task EXCEPT ![t] = "FAILED"])
  /\ toEmit' = toEmit \cup {[type |-> "RUN_FAILED"]}
  /\ UNCHANGED <<cancel, pageVars>>

\* The handler that finds every row final has announced its own task before.
CompleteRun ==
  /\ run = "RUNNING"
  /\ \A t \in Tasks : task[t] \in Final
  /\ \E t \in Tasks : [taskId |-> t, status |-> task[t]] \notin toEmit
  /\ run' = "COMPLETED"
  /\ toEmit' = toEmit \cup {[type |-> "RUN_COMPLETED"]}
  /\ UNCHANGED <<task, cancel, pageVars>>

\* cancelRun: check the status, then write it with no condition, then emit.
CheckCancel ==
  /\ cancel = "sent"
  /\ cancel' = IF run \in Live THEN "checked" ELSE "refused"
  /\ UNCHANGED <<serverVars, pageVars>>

CancelRun ==
  /\ cancel = "checked"
  /\ cancel' = "done"
  /\ run' = "CANCELLED" /\ task' = StopPending(task)
  /\ toEmit' = toEmit \cup {[type |-> "RUN_CANCELLED"]}
  /\ UNCHANGED pageVars

-----------------------------------------------------------------------------
(* The event stream. *)

Blame == faults < MaxFaults /\ visits + faults < MaxTurns /\ faults' = faults + 1

\* What the indicator says: a reconnect is not shown.
Connected == conn \in {"open", "reconnecting"}

\* The handler has verified token, run and membership; only now it listens.
Subscribe ==
  /\ conn \in {"connecting", "reconnecting"} /\ authorized
  /\ conn' = "open"
  /\ UNCHANGED <<serverVars, authorized, wire, eventVars, cache, changed, nodes, view,
                 cancel, missed, counters>>

\* A reconnect carries the token of the page's mount: 401, and no retry.
RefuseStream ==
  /\ conn \in {"connecting", "reconnecting"} /\ ~authorized
  /\ conn' = "closed"
  /\ UNCHANGED <<serverVars, authorized, wire, eventVars, cache, changed, nodes, view,
                 cancel, missed, counters>>

ExpireToken ==
  /\ authorized /\ conn # "off" /\ Blame
  /\ authorized' = FALSE
  /\ UNCHANGED <<serverVars, conn, wire, eventVars, cache, changed, nodes, view,
                 cancel, missed, visits, cancels>>

\* Sent and not received, received and not handled.
OnWire == {wire[i] : i \in DOMAIN wire}
Unhandled == IF unseen THEN {latest} ELSE {}

\* What may still reach the page that is open.
Coming == toEmit \cup OnWire \cup Unhandled

\* The browser reconnects by itself.
Drop ==
  /\ conn = "open" /\ Blame
  /\ conn' = "reconnecting" /\ wire' = <<>>
  /\ missed' = missed \cup OnWire
  /\ UNCHANGED <<serverVars, authorized, eventVars, cache, changed, nodes, view,
                 cancel, visits, cancels>>

\* The page has, or is about to receive, rows read before now.
HasRows == HasData(cache.run) \/ Answered(cache.run)

Emit(e) ==
  /\ e \in toEmit
  /\ toEmit' = toEmit \ {e}
  /\ wire' = IF conn = "open" THEN Append(wire, e) ELSE wire
  /\ missed' = IF conn # "open" /\ (HasRows \/ latest # NoEvent) THEN missed \cup {e} ELSE missed
  /\ UNCHANGED <<run, task, conn, authorized, eventVars, cache, changed, nodes,
                 view, cancel, counters>>

\* setEvents appends; the next render sees the newest event only.
Receive ==
  /\ wire # <<>>
  /\ latest' = Head(wire) /\ unseen' = TRUE /\ wire' = Tail(wire)
  /\ missed' = missed \cup Unhandled
  /\ UNCHANGED <<serverVars, conn, authorized, cache, changed, nodes, view,
                 cancel, counters>>

-----------------------------------------------------------------------------
(* The query cache and its fetches. *)

RowsOf(p) == IF p = "run" THEN [run |-> run, task |-> task] ELSE [run |-> run]

ReadRows(p) ==
  /\ Asked(cache[p])
  /\ cache' = [cache EXCEPT ![p] = Answer(cache[p], RowsOf(p))]
  /\ UNCHANGED <<serverVars, streamVars, eventVars, changed, nodes, view, cancel, missed, counters>>

\* Equal data keeps its reference, and the effects do not run again.
SettleFetch(p) ==
  /\ Answered(cache[p])
  /\ cache' = [cache EXCEPT ![p] = Settle(cache[p])]
  /\ changed' = (changed \/ (p = "run" /\ view = "run" /\ cache.run.answer # cache.run.data))
  /\ UNCHANGED <<serverVars, streamVars, eventVars, nodes, view, cancel, missed, counters>>

FailFetch(p) ==
  /\ cache[p].fetch # "none" /\ Blame
  /\ cache' = [cache EXCEPT ![p] = Fail(cache[p])]
  /\ missed' = IF p = "run" THEN missed \cup RunEvents ELSE missed
  /\ UNCHANGED <<serverVars, streamVars, eventVars, changed, nodes, view, cancel,
                 visits, cancels>>

\* staleTime passes.  It matters to the next mount only.
AgeData(p) ==
  /\ view # p /\ HasData(cache[p]) /\ ~cache[p].stale
  /\ cache' = [cache EXCEPT ![p].stale = TRUE]
  /\ UNCHANGED <<serverVars, streamVars, eventVars, changed, nodes, view, cancel, missed, counters>>

-----------------------------------------------------------------------------
(* The pages. *)

\* What a list shows: the skeleton, an error with its Retry, or the runs.
Loading(e) == ~HasData(e) /\ e.fetch # "none"

RunsScreen ==
  CASE cache["runs"].error -> "error"
    [] Loading(cache["runs"]) -> "loading"
    [] ~HasData(cache["runs"]) -> "empty"
    [] OTHER -> "rows"

HistoryScreen ==
  CASE Loading(cache["history"]) -> "loading"
    [] ~HasData(cache["history"]) -> "empty"
    [] OTHER -> "rows"

ListScreen(l) == IF l = "runs" THEN RunsScreen ELSE HistoryScreen

Visit == visits + faults < MaxTurns /\ visits' = visits + 1

\* Leaving the run page closes its stream and drops its events.
OpenList(l) ==
  /\ view # l /\ Visit
  /\ view' = l
  /\ cache' = [cache EXCEPT ![l] = Mount(cache[l])]
  /\ conn' = "off" /\ wire' = <<>>
  /\ changed' = FALSE /\ latest' = NoEvent /\ unseen' = FALSE
  /\ missed' = missed \cup OnWire \cup Unhandled
  /\ UNCHANGED <<serverVars, authorized, nodes, cancel, faults, cancels>>

\* Retry on an error, Refresh in the history.
RefreshList(l) ==
  /\ view = l /\ cache[l].fetch = "none"
  /\ l = "history" \/ ListScreen(l) = "error"
  /\ cache' = [cache EXCEPT ![l] = Refetch(cache[l])]
  /\ UNCHANGED <<serverVars, streamVars, eventVars, changed, nodes, view, cancel, missed, counters>>

\* Monitor, Live Monitor or the address: the page mounts, with an empty list of
\* events, a canvas to build from what the cache has, and a new connection.
OpenRun ==
  /\ view = "away" \/ (view \in Lists /\ ListScreen(view) = "rows")
  /\ Visit
  /\ view' = "run"
  /\ cache' = [cache EXCEPT !.run = Mount(cache.run)]
  /\ conn' = "connecting" /\ authorized' = TRUE /\ wire' = <<>>
  /\ latest' = NoEvent /\ unseen' = FALSE
  /\ changed' = HasData(cache.run) /\ nodes' = [t \in Tasks |-> "idle"]
  /\ UNCHANGED <<serverVars, cancel, missed, faults, cancels>>

StatusToNode(status) ==
  CASE status = "RUNNING" -> "running"
    [] status = "COMPLETED" -> "success"
    [] status = "FAILED" -> "error"
    [] OTHER -> "idle"

\* The canvas as the rows of the last fetch have it.
BuildCanvas == [t \in Tasks |-> StatusToNode(cache.run.data.task[t])]

\* mutant: without run among the effect's dependencies, an event that comes
\* before the rows is not looked at again.
RenderOnEvents ==
  /\ view = "run" /\ (changed \/ unseen)
  /\ changed' = FALSE /\ unseen' = FALSE
  /\ LET canvas == IF changed THEN BuildCanvas ELSE nodes
     IN nodes' = IF unseen /\ HasData(cache.run) /\ latest \in TaskEvents
                 THEN [canvas EXCEPT ![latest.taskId] = StatusToNode(latest.status)]
                 ELSE canvas
  /\ cache' = IF unseen /\ HasData(cache.run) /\ latest \in RunEvents
              THEN [cache EXCEPT !.run = Refetch(cache.run)] ELSE cache
  /\ UNCHANGED <<serverVars, streamVars, latest, view, cancel, missed, counters>>

\* mutant: an event of a task also marks the cached run as running.
RenderPatchingRun ==
  /\ view = "run" /\ HasData(cache.run) /\ (changed \/ unseen)
  /\ changed' = FALSE /\ unseen' = FALSE
  /\ nodes' = IF changed THEN BuildCanvas ELSE nodes
  /\ cache' = IF latest \in RunEvents
              THEN [cache EXCEPT !.run = Refetch(cache.run)]
              ELSE IF latest \in TaskEvents THEN [cache EXCEPT !.run.data.run = "RUNNING"]
              ELSE cache
  /\ UNCHANGED <<serverVars, streamVars, latest, view, cancel, missed, counters>>

\* One render: the canvas is built anew if the data changed; then, if the data
\* or the events changed, the newest event is applied over it, or makes the
\* page fetch if it is about the run.
Render ==
  /\ view = "run" /\ HasData(cache.run) /\ (changed \/ unseen)
  /\ changed' = FALSE /\ unseen' = FALSE
  /\ LET canvas == IF changed THEN BuildCanvas ELSE nodes
     IN nodes' = IF latest \in TaskEvents
                 THEN [canvas EXCEPT ![latest.taskId] = StatusToNode(latest.status)]
                 ELSE canvas
  /\ cache' = IF latest \in RunEvents
              THEN [cache EXCEPT !.run = Refetch(cache.run)] ELSE cache
  /\ UNCHANGED <<serverVars, streamVars, latest, view, cancel, missed, counters>>

Shown == IF HasData(cache.run) THEN cache.run.data.run ELSE "Loading"

\* The badge, the statistics and the output panel follow the last rows.
CancelOffered == view = "run" /\ Shown \in Live /\ cancel \in {"idle", "refused"}
Statistics ==
  LET rows == cache.run.data.task
      Count(status) == Cardinality({t \in Tasks : rows[t] = status})
  IN [done |-> Count("COMPLETED"), failed |-> Count("FAILED"), total |-> Cardinality(Tasks)]
OutputPanel ==
  CASE Shown = "COMPLETED" -> "output"
    [] Shown = "FAILED" -> "error"
    [] Shown = "CANCELLED" -> "cancellation"
    [] OTHER -> "nothing"
OutputShown == view = "run" /\ OutputPanel # "nothing"

ClickCancel ==
  /\ CancelOffered /\ cancels < MaxCancels
  /\ cancels' = cancels + 1
  /\ cancel' = "sent"
  /\ UNCHANGED <<serverVars, streamVars, eventVars, cache, changed, nodes, view, missed,
                 visits, faults>>


\* onSuccess invalidates every query under "runs", then the page refetches.
CancelSucceeds ==
  /\ cancel = "done"
  /\ cancel' = "idle"
  /\ LET invalidated == [p \in Pages |-> Invalidate(cache[p], view = p)]
     IN cache' = [invalidated EXCEPT !.run = Refetch(invalidated.run)]
  /\ UNCHANGED <<serverVars, streamVars, eventVars, changed, nodes, view, missed, counters>>

-----------------------------------------------------------------------------

Run ==
  \/ \E t \in Tasks : StartTask(t) \/ FailRun(t) \/ \E s \in {"COMPLETED", "FAILED"} : EndTask(t, s)
  \/ CompleteRun

User ==
  \/ \E l \in Lists : OpenList(l) \/ RefreshList(l)
  \/ OpenRun \/ ClickCancel

Mishap == Drop \/ ExpireToken \/ \E p \in Pages : FailFetch(p) \/ AgeData(p)

Page == Receive \/ Render \/ CancelSucceeds \/ \E p \in Pages : SettleFetch(p)

Server ==
  \/ CheckCancel \/ CancelRun \/ Subscribe \/ RefuseStream
  \/ \E e \in RunEvents \cup TaskEvents : Emit(e)
  \/ \E p \in Pages : ReadRows(p)

RunPageNext == Run \/ User \/ Mishap \/ Page \/ Server

RunPageSpec == RunPageInit /\ [][RunPageNext]_runPageVars

\* The page's event loop and the server's go on; users, faults and the agents
\* need not.
RunPageFairSpec == RunPageSpec /\ WF_runPageVars(Page) /\ WF_runPageVars(Server)

-----------------------------------------------------------------------------
(* Properties. *)

\* Unless its event is missed, the end of a run is on its way to an open page until
\* the page shows it: in an emit to come, on the wire, in an event the next
\* render handles, or in a fetch that reads the rows after the end.
EndOnItsWay ==
  (run \in Final /\ view = "run" /\ HasRows /\ missed \cap RunEvents = {}) =>
    \/ Coming \cap RunEvents # {}
    \/ Asked(cache.run)
    \/ Answered(cache.run) /\ cache.run.answer.run \in Final
    \/ Shown \in Final

\* A page that shows the output of the ended run never takes it away for a live
\* run again, however late the answer to an earlier fetch arrives.
EndStaysShown == [][OutputShown => (OutputShown' \/ view' # "run")]_runPageVars


\* When the run is COMPLETED and no event is missed, the canvas, which follows the
\* events, agrees in the end with the rows and with the counts in the header.
CanvasSettles ==
  (run = "COMPLETED" /\ view = "run") ~>
    \/ view # "run" \/ missed # {} \/ run # "COMPLETED"
    \/ /\ \A t \in Tasks : nodes[t] = StatusToNode(task[t])
       /\ Statistics.done = Cardinality({t \in Tasks : nodes[t] = "success"})

\* docs/user-flows.md:370 says of a page opened again that "it will fetch the
\* current state from the database and re-establish the SSE stream".  Rows younger
\* than staleTime are not fetched again, and what is emitted between the fetch
\* and the subscription is not replayed.
OpenPageShowsEnd == (view = "run" /\ run \in Final) ~> (Shown \in Final \/ view # "run")

\* docs/system-design.md:653 asks for instant visual feedback: while the indicator
\* says Live and nothing is under way, the end of the run is shown.
LiveMeansCurrent ==
  (/\ Connected /\ HasData(cache.run) /\ run \in Final /\ toEmit = {} /\ wire = <<>>
   /\ ~unseen /\ cache.run.fetch = "none") => Shown \in Final

-----------------------------------------------------------------------------
(* The inductive invariants. *)

\* Final rows are of a run that has ended, and of its answers none is of before.
FinalInv ==
  /\ Answered(cache.run) => cache.run.answer \in Rows
  /\ Answered(cache.run) /\ cache.run.answer.run \in Final => run \in Final
  /\ Shown \in Final =>
       run \in Final /\ (Answered(cache.run) => cache.run.answer.run \in Final)

\* A page that has been left has neither stream nor events.
AwayInv == view # "run" => conn = "off" /\ wire = <<>> /\ ~unseen

\* The end is on its way also while the page is not shown.
EndInv ==
  (run \in Final /\ HasRows /\ missed \cap RunEvents = {}) =>
    \/ Coming \cap RunEvents # {}
    \/ Asked(cache.run)
    \/ Answered(cache.run) /\ cache.run.answer.run \in Final
    \/ Shown \in Final

RunPageInv == RunPageTypeOK /\ FinalInv /\ AwayInv /\ EndInv
=============================================================================
