---------------------------- MODULE WorkflowPage ----------------------------
(***************************************************************************)
(* The page of one workflow with its tabs, and the list of workflows       *)
(* (client/app/(dashboard)/workflows), over the query cache: the webhook,  *)
(* its schedule, its versions, its copies and its deletion, against        *)
(* another member who changes the same rows and the calls of Webhook.      *)
(*                                                                         *)
(* A request's handler reads its row and writes it in two steps.  Every    *)
(* write is numbered; an answer carries the number of the last write it    *)
(* has seen.  The tab of runs is in RunPage.                               *)
(***************************************************************************)
EXTENDS Webhook

INSTANCE QueryCache
Redis == INSTANCE ServerCache

CONSTANTS
  Crons,      \* cron expressions
  Default,    \* the one a new form has
  MaxFaults,  \* bound: requests that fail and changes another member makes
  MaxVisits,  \* bound: pages and tabs opened
  MaxOps      \* bound: requests the page makes

ASSUME PageAssumption ==
  /\ Default \in Crons /\ MaxFaults \in Nat /\ MaxVisits \in Nat /\ MaxOps \in Nat

VARIABLES
  schedule,  \* the schedule's row, or None
  version,   \* the workflow's version: it has the snapshots before it
  copies,    \* workflows duplicated from it
  writes,    \* ghost: how many writes there have been
  page,      \* what is open
  cached,    \* the server's cache of the workflow and of the list
  entry,     \* the query cache
  form,      \* the schedule tab's fields, and whether the user changed them
  op,        \* the page's requests, one of a kind at a time
  own,       \* ghost: by query, this page's last write that changed its answer
  excused,   \* ghost: by query, that write may stay unseen (see Joins, Overtaken)
  faults, visits, ops

rows == <<exists, webhook, tokens, call, schedule, version, copies, writes>>
serverVars == <<rows, cached>>
ghosts == <<own, excused>>
bounds == <<faults, visits, ops>>
vars == <<serverVars, page, entry, form, op, ghosts, bounds>>

Queries == {"list", "workflow", "webhook", "schedule", "versions"}
Cached == {"list", "workflow"}
TabQuery == [graph |-> "workflow", schedules |-> "schedule", webhooks |-> "webhook",
             versions |-> "versions"]
TabKeys == DOMAIN TabQuery

WebhookOps == {"createWebhook", "toggleWebhook", "regenerate", "deleteWebhook"}
ScheduleOps == {"createSchedule", "updateSchedule", "toggleSchedule", "deleteSchedule"}
WorkflowOps == {"restore", "duplicate", "deleteWorkflow", "trigger"}
Kinds == WebhookOps \cup ScheduleOps \cup WorkflowOps

Schedule(cron, enabled) == [cron |-> cron, enabled |-> enabled]
NewForm == [cron |-> Default, json |-> TRUE, typed |-> FALSE]
Idle == [at |-> "idle", arg |-> None, seen |-> None, write |-> 0]

Init ==
  /\ WebhookInit
  /\ schedule \in {None, Schedule(Default, TRUE)} /\ version = 2 /\ copies = 0 /\ writes = 0
  /\ page = "away" /\ entry = [q \in Queries |-> EmptyEntry] /\ form = NewForm
  /\ op = [k \in Kinds |-> Idle] /\ cached = [q \in Cached |-> Redis!EmptyKey]
  /\ own = [q \in Queries |-> 0] /\ excused = [q \in Queries |-> FALSE]
  /\ faults = 0 /\ visits = 0 /\ ops = 0

Fault == faults < MaxFaults /\ faults' = faults + 1

-----------------------------------------------------------------------------
(* What is on the screen. *)

\* An error replaces the whole page.
Visible(e) == HasData(e["workflow"]) /\ ~e["workflow"].error

Observed(e, p) ==
  CASE p = "away" -> {}
    [] p = "list" -> {"list"}
    [] OTHER -> {"workflow"} \cup (IF Visible(e) THEN {TabQuery[p]} ELSE {})

\* The list is fetched whenever it is opened (refetchOnMount: "always").
MountQuery(q, e) == IF q = "list" THEN Fetch(e) ELSE Mount(e)

Shown(q) == IF HasData(entry[q]) THEN entry[q].data.row ELSE None
Loading(q) == ~HasData(entry[q]) /\ entry[q].fetch # "none"

\* The effect on the schedule: the row's fields replace what is in the form,
\* whenever the row that arrives is not the one that was there.
Filled(e, old) ==
  IF HasData(e) /\ e.data.row # None
  THEN [cron |-> e.data.row.cron, json |-> TRUE, typed |-> FALSE] ELSE old

FormAfter(e, opened) ==
  CASE "schedule" \in opened -> Filled(e["schedule"], NewForm)
    [] "schedule" \notin opened /\ HasData(e["schedule"])
         /\ e["schedule"].data.row # Shown("schedule") -> Filled(e["schedule"], form)
    [] OTHER -> form

\* The page and the cache change: queries that come into view are mounted.
Render(e, p) ==
  LET opened == Observed(e, p) \ Observed(entry, page) IN
  /\ page' = p
  /\ entry' = [q \in Queries |-> IF q \in opened THEN MountQuery(q, e[q]) ELSE e[q]]
  /\ form' = IF "schedule" \in Observed(e, p) THEN FormAfter(e, opened) ELSE NewForm

OnTab(tab) == page = tab /\ Visible(entry)

Open(p) ==
  /\ visits < MaxVisits /\ visits' = visits + 1
  /\ \/ page \in {"away", "list"} /\ p \in {"away", "list", "graph"} \ {page}
     \/ page \in TabKeys /\ p \in {"away", "list"}
     \/ page \in TabKeys /\ p \in TabKeys \ {page} /\ Visible(entry)
  /\ Render(entry, p)
  /\ UNCHANGED <<serverVars, op, ghosts, faults, ops>>

-----------------------------------------------------------------------------
(* The queries. *)

CacheOnly == UNCHANGED <<serverVars, op, ghosts, visits, ops>>
Change(q, e) == Render([entry EXCEPT ![q] = e], page)

RowOf(q) ==
  CASE q = "list" -> [there |-> exists, copies |-> copies]
    [] q \in {"workflow", "versions"} -> version
    [] q = "webhook" -> webhook
    [] q = "schedule" -> schedule

Seen(q) == [row |-> RowOf(q), write |-> writes]
InStore(q) == q \in Cached /\ Redis!Hit(cached[q])
NotFound(q) == q \in {"workflow", "versions"} /\ ~exists

\* A hit is answered as it is; a read that misses has stored its row before it
\* answers.  A webhook or schedule that is not found is an answer, a workflow is
\* an error.
AnswerQuery(q) ==
  /\ Asked(entry[q])
  /\ \/ InStore(q) /\ Change(q, Answer(entry[q], cached[q].value))
     \/ ~InStore(q) /\ NotFound(q) /\ Change(q, Fail(entry[q]))
     \/ q \notin Cached /\ ~NotFound(q) /\ Change(q, Answer(entry[q], Seen(q)))
  /\ CacheOnly /\ UNCHANGED faults

InCache(q, k) ==
  /\ cached' = [cached EXCEPT ![q] = k]
  /\ UNCHANGED <<rows, page, entry, form, op, ghosts, bounds>>

\* A read that misses goes on when the page has given up its request.
ReadMissing(q) ==
  /\ Asked(entry[q]) /\ Redis!Misses(cached[q]) /\ ~NotFound(q)
  /\ InCache(q, Redis!ReadRow(cached[q], Seen(q)))

StoreMissing(q) ==
  cached[q].inHand # None /\ InCache(q, Redis!Store(cached[q]))

ExpireKey(q) ==
  Redis!Hit(cached[q]) /\ InCache(q, Redis!Delete(cached[q]))

SettleQuery(q) ==
  /\ entry[q].fetch = "answered"
  /\ Change(q, Settle(entry[q]))
  /\ CacheOnly /\ UNCHANGED faults

FailQuery(q) ==
  /\ Asked(entry[q]) /\ Fault
  /\ Change(q, Fail(entry[q])) /\ CacheOnly

\* Age matters when a query is mounted that is not being fetched; the list is
\* fetched at any age.
AgeQuery(q) ==
  /\ q # "list" /\ q \notin Observed(entry, page)
  /\ HasData(entry[q]) /\ ~entry[q].stale /\ entry[q].fetch = "none"
  /\ Change(q, [entry[q] EXCEPT !.stale = TRUE])
  /\ CacheOnly /\ UNCHANGED faults

\* The list's Retry; the page's own only refreshes the route.
RetryList ==
  /\ page = "list" /\ entry["list"].error
  /\ Change("list", Refetch(entry["list"]))
  /\ CacheOnly /\ UNCHANGED faults

-----------------------------------------------------------------------------
(* What the user may ask for. *)

TypeForm(cron, json) ==
  /\ ops < MaxOps /\ OnTab("schedules") /\ ~Loading("schedule")
  /\ <<cron, json>> # <<form.cron, form.json>>
  /\ form' = [cron |-> cron, json |-> json, typed |-> TRUE]
  /\ CacheOnly /\ UNCHANGED <<page, entry, faults>>

WebhookOffered(kind, arg) ==
  /\ OnTab("webhooks") /\ ~Loading("webhook")
  /\ IF Shown("webhook") = None
     THEN kind = "createWebhook" /\ arg = None
     ELSE \/ kind = "toggleWebhook" /\ arg = ~Shown("webhook").enabled
          \/ kind \in {"regenerate", "deleteWebhook"} /\ arg = None

ScheduleOffered(kind, arg) ==
  /\ OnTab("schedules") /\ ~Loading("schedule")
  /\ \/ /\ kind = (IF Shown("schedule") = None THEN "createSchedule" ELSE "updateSchedule")
        /\ form.json /\ arg = form.cron
        /\ op["createSchedule"].at = "idle" /\ op["updateSchedule"].at = "idle"
     \/ kind = "toggleSchedule" /\ Shown("schedule") # None /\ arg = ~Shown("schedule").enabled
     \/ kind = "deleteSchedule" /\ Shown("schedule") # None /\ arg = None

\* Every snapshot listed but the one taken for the current version.
VersionOffered(kind, arg) ==
  /\ OnTab("versions") /\ HasData(entry["versions"]) /\ kind = "restore"
  /\ arg \in (1..(Shown("versions") - 1)) \ {Shown("workflow")}

\* On the page, or on the workflow's card in the list.
WorkflowOffered(kind, arg) ==
  \/ /\ kind \in {"duplicate", "deleteWorkflow", "trigger"} /\ arg = "page"
     /\ page \in TabKeys /\ Visible(entry)
  \/ /\ kind \in {"duplicate", "trigger"} /\ arg = "card"
     /\ page = "list" /\ HasData(entry["list"]) /\ ~entry["list"].error
     /\ Shown("list").there

Request(kind, arg) ==
  /\ ops' = ops + 1
  /\ op[kind].at = "idle"
  /\ op' = [op EXCEPT ![kind] = [Idle EXCEPT !.at = "sent", !.arg = arg]]
  /\ UNCHANGED <<serverVars, page, entry, form, ghosts, faults, visits>>

Click ==
  /\ ops < MaxOps
  /\ \/ \E kind \in WebhookOps, arg \in BOOLEAN \cup {None} :
          WebhookOffered(kind, arg) /\ Request(kind, arg)
     \/ \E kind \in ScheduleOps, arg \in BOOLEAN \cup Crons \cup {None} :
          ScheduleOffered(kind, arg) /\ Request(kind, arg)
     \/ \E arg \in 1..version : VersionOffered("restore", arg) /\ Request("restore", arg)
     \/ \E kind \in WorkflowOps, arg \in {"page", "card"} :
          WorkflowOffered(kind, arg) /\ Request(kind, arg)

-----------------------------------------------------------------------------
(* The server's handlers. *)

RowFor(kind) == IF kind \in WebhookOps THEN webhook ELSE schedule
Creates(kind) == kind \in {"createWebhook", "createSchedule"}

\* A create finds no row, every other operation on the two rows finds one.
Accepts(kind) ==
  exists /\ (kind \in WebhookOps \cup ScheduleOps => (RowFor(kind) = None) = Creates(kind))

\* A plausible mistake: the webhook's row is written back as it was read.
ToggleWhole(arg, seen) == SetWebhook([seen EXCEPT !.enabled = arg]) /\ UNCHANGED tokens

Toggle(arg, seen) == SetWebhook([webhook EXCEPT !.enabled = arg]) /\ UNCHANGED tokens

GenerateToken(enabled) ==
  /\ tokens' = tokens + 1 /\ SetWebhook(Row(tokens + 1, enabled))

WriteWebhook(kind, arg, seen) ==
  /\ CASE kind = "createWebhook" -> GenerateToken(TRUE)
       [] kind = "regenerate" -> GenerateToken(webhook.enabled)
       [] kind = "toggleWebhook" -> Toggle(arg, seen)
       [] kind = "deleteWebhook" -> SetWebhook(None) /\ UNCHANGED tokens
  /\ UNCHANGED <<exists, schedule, version, copies>>

\* updateSchedule writes every field, those it was not given as it read them.
WriteSchedule(kind, arg, seen) ==
  /\ schedule' = CASE kind = "createSchedule" -> Schedule(arg, TRUE)
                    [] kind = "updateSchedule" -> Schedule(arg, seen.enabled)
                    [] kind = "toggleSchedule" -> Schedule(seen.cron, arg)
                    [] kind = "deleteSchedule" -> None
  /\ UNCHANGED <<exists, webhook, tokens, call, version, copies>>

WriteWorkflow(kind) ==
  CASE kind = "restore" ->
         version' = version + 1 /\ UNCHANGED <<exists, webhook, tokens, call, schedule, copies>>
    [] kind = "duplicate" ->
         copies' = copies + 1 /\ UNCHANGED <<exists, webhook, tokens, call, schedule, version>>
    [] kind = "deleteWorkflow" ->
         /\ exists' = FALSE /\ SetWebhook(None) /\ schedule' = None
         /\ UNCHANGED <<tokens, version, copies>>
    [] kind = "trigger" -> UNCHANGED <<exists, webhook, tokens, call, schedule, version, copies>>

Write(kind, arg, seen) ==
  /\ CASE kind \in WebhookOps -> WriteWebhook(kind, arg, seen)
       [] kind \in ScheduleOps -> WriteSchedule(kind, arg, seen)
       [] kind \in WorkflowOps -> WriteWorkflow(kind)
  /\ writes' = writes + 1

PageOnly == UNCHANGED <<page, entry, form, ghosts, visits, ops>>

\* The keys a handler deletes once its write is done.
Deletes(kind) ==
  CASE kind \in {"restore", "deleteWorkflow"} -> {"list", "workflow"}
    [] kind = "duplicate" -> {"list"}
    [] OTHER -> {}

DeleteKeys(kind) ==
  cached' = [q \in Cached |->
    IF q \in Deletes(kind) THEN Redis!Delete(cached[q]) ELSE cached[q]]

ReadRow(kind) ==
  /\ op[kind].at = "sent"
  /\ op' = [op EXCEPT ![kind].at = IF Accepts(kind) THEN "read" ELSE "failed",
                      ![kind].seen = IF Accepts(kind) /\ kind \notin WorkflowOps
                                     THEN RowFor(kind) ELSE None]
  /\ PageOnly /\ UNCHANGED <<serverVars, faults>>

\* A plausible mistake: the row is put where it was, found or not.
WriteRowAnyway(kind) ==
  /\ op[kind].at = "read"
  /\ Write(kind, op[kind].arg, op[kind].seen)
  /\ op' = [op EXCEPT ![kind].at = "written", ![kind].write = writes + 1]
  /\ PageOnly /\ UNCHANGED <<cached, faults>>

\* The database refuses a second row, a row of a workflow that is gone, and an
\* update of a row that is gone.
WriteRow(kind) ==
  /\ op[kind].at = "read"
  /\ IF Accepts(kind)
     THEN /\ Write(kind, op[kind].arg, op[kind].seen)
          /\ op' = [op EXCEPT ![kind].at = "written", ![kind].write = writes + 1]
     ELSE op' = [op EXCEPT ![kind].at = "failed"] /\ UNCHANGED rows
  /\ PageOnly /\ UNCHANGED <<cached, faults>>

InvalidateKeys(kind) ==
  /\ op[kind].at = "written"
  /\ DeleteKeys(kind)
  /\ op' = [op EXCEPT ![kind].at = "done"]
  /\ PageOnly /\ UNCHANGED <<rows, faults>>

\* The request or its answer is lost.
LoseRequest(kind) ==
  /\ op[kind].at \in {"sent", "done"} /\ Fault
  /\ op' = [op EXCEPT ![kind].at = "failed"]
  /\ PageOnly /\ UNCHANGED serverVars

OtherMember ==
  /\ Fault
  /\ \E kind \in Kinds \ {"trigger", "duplicate"}, arg \in {TRUE, FALSE} \cup Crons :
       /\ Accepts(kind)
       /\ kind \in {"createSchedule", "updateSchedule"} <=> arg \in Crons
       /\ kind \notin {"toggleWebhook", "toggleSchedule"} => arg # FALSE
       /\ Write(kind, arg, RowFor(kind)) /\ DeleteKeys(kind)
  /\ PageOnly /\ UNCHANGED op

-----------------------------------------------------------------------------
(* The answers. *)

\* A plausible mistake: a restore asks for its own query only.
InvalidatesVersions(kind) ==
  CASE kind \in WebhookOps -> {"webhook"}
    [] kind \in ScheduleOps -> {"schedule"}
    [] kind = "restore" -> {"versions"}
    [] kind = "trigger" -> {}
    [] OTHER -> {"list", "workflow", "versions"}

\* invalidateQueries(["workflows"]) reaches every query whose key starts so.
Invalidates(kind) ==
  CASE kind \in WebhookOps -> {"webhook"}
    [] kind \in ScheduleOps -> {"schedule"}
    [] kind = "trigger" -> {}
    [] OTHER -> {"list", "workflow", "versions"}

Affects(kind) ==
  CASE kind \in WebhookOps -> {"webhook"}
    [] kind \in ScheduleOps -> {"schedule"}
    [] kind = "restore" -> {"workflow", "versions"}
    [] kind = "trigger" -> {}
    [] OTHER -> {"list"}

\* Where the page goes: router.push comes also to a user who has left.
PageAfter(kind, arg) ==
  CASE kind = "deleteWorkflow" \/ (kind = "duplicate" /\ arg = "page") -> "list"
    [] kind = "trigger" -> "away"
    [] kind = "restore" /\ page \in TabKeys -> "graph"
    [] OTHER -> page

\* A first fetch, or one that nobody waits for any more, goes on as it was asked.
Joins(q) ==
  entry[q].fetch # "none" /\ (~HasData(entry[q]) \/ q \notin Observed(entry, page))

\* The server's cache has, or is about to have, a row read before the write.
Overtaken(q, write) ==
  q \in Cached /\ \E seen \in {cached[q].value, cached[q].inHand} \ {None} : seen.write < write

Succeed(kind) ==
  /\ op[kind].at = "done"
  /\ op' = [op EXCEPT ![kind] = Idle]
  /\ own' = [q \in Queries |-> IF q \in Affects(kind) THEN op[kind].write ELSE own[q]]
  /\ excused' = [q \in Queries |->
       IF q \in Affects(kind) THEN Joins(q) \/ Overtaken(q, op[kind].write) ELSE excused[q]]
  /\ Render([q \in Queries |->
               IF q \in Invalidates(kind)
               THEN Invalidate(entry[q], q \in Observed(entry, page)) ELSE entry[q]],
             PageAfter(kind, op[kind].arg))
  /\ UNCHANGED <<serverVars, bounds>>

ToastError(kind) ==
  /\ op[kind].at = "failed"
  /\ op' = [op EXCEPT ![kind] = Idle]
  /\ PageOnly /\ UNCHANGED <<serverVars, faults>>

\* A call to the endpoint leaves the page alone.
PageKept == UNCHANGED <<schedule, version, copies, writes, cached, page, entry, form, op, ghosts, bounds>>

Next ==
  \/ Inbound /\ PageKept
  \/ \E p \in {"away", "list"} \cup TabKeys : Open(p)
  \/ \E q \in Queries : AnswerQuery(q) \/ SettleQuery(q) \/ FailQuery(q) \/ AgeQuery(q)
  \/ \E q \in Cached : ReadMissing(q) \/ StoreMissing(q) \/ ExpireKey(q)
  \/ RetryList
  \/ \E cron \in Crons, json \in BOOLEAN : TypeForm(cron, json)
  \/ Click
  \/ \E kind \in Kinds : ReadRow(kind) \/ WriteRow(kind) \/ InvalidateKeys(kind) \/ LoseRequest(kind)
  \/ OtherMember
  \/ \E kind \in Kinds : Succeed(kind) \/ ToastError(kind)

Spec == Init /\ [][Next]_vars

\* What the database or the server's cache answers to a query.
Schedules == [cron : Crons, enabled : BOOLEAN]
RowsOf(q) ==
  CASE q = "list" -> [there : BOOLEAN, copies : Nat]
    [] q \in {"workflow", "versions"} -> Nat
    [] q = "webhook" -> [token : Nat, enabled : BOOLEAN] \cup {None}
    [] q = "schedule" -> Schedules \cup {None}
Answers(q) == [row : RowsOf(q), write : Nat]

\* What a request carries, and what its handler has read.
ArgsOf(k) ==
  CASE k \in {"toggleWebhook", "toggleSchedule"} -> BOOLEAN
    [] k \in {"createSchedule", "updateSchedule"} -> Crons
    [] k = "restore" -> Nat
    [] k \in {"duplicate", "deleteWorkflow", "trigger"} -> {"page", "card"}
    [] OTHER -> {None}
SeenBy(k) == IF k \in WebhookOps THEN RowsOf("webhook") ELSE RowsOf("schedule")
Stages == {"idle", "sent", "read", "written", "done", "failed"}
OpOK(k, o) ==
  /\ o \in [at : Stages, arg : ArgsOf(k) \cup {None}, seen : SeenBy(k), write : Nat]
  /\ o.at \in {"sent", "read"} => o.arg \in ArgsOf(k)
  /\ o.at = "read" /\ k \in {"updateSchedule", "toggleSchedule"} => o.seen # None

RowsTypeOK ==
  /\ WebhookTypeOK
  /\ schedule \in Schedules \cup {None}
  /\ version \in Nat /\ copies \in Nat /\ writes \in Nat
CacheTypeOK ==
  /\ DOMAIN entry = Queries /\ \A q \in Queries : entry[q] \in Entry(Answers(q))
  /\ DOMAIN cached = Cached
  /\ \A q \in Cached : cached[q] \in [value : Answers(q) \cup {None}, inHand : Answers(q) \cup {None}]
PageTypeOK ==
  /\ RowsTypeOK /\ CacheTypeOK
  /\ page \in {"away", "list"} \cup TabKeys
  /\ form \in [cron : Crons, json : BOOLEAN, typed : BOOLEAN]
  /\ DOMAIN op = Kinds /\ \A k \in Kinds : OpOK(k, op[k])
  /\ own \in [Queries -> Nat] /\ excused \in [Queries -> BOOLEAN]
  /\ faults \in 0..MaxFaults /\ visits \in 0..MaxVisits /\ ops \in 0..MaxOps

-----------------------------------------------------------------------------
(* What the page and the server promise. *)

\* A token that was replaced or deleted is never a webhook's again, whatever
\* toggles, regenerations and deletions overlap.
TokensNeverReturn ==
  [][(webhook' # None /\ (webhook = None \/ webhook.token # webhook'.token))
       => webhook'.token > tokens]_vars

\* No handler that was under way gives a deleted workflow a webhook or schedule.
NothingOutlivesWorkflow == ~exists => webhook = None /\ schedule = None

\* What the page shows when nothing is loading has seen the page's own changes,
\* except those that are excused.
ShowsOwn(q) ==
  HasData(entry[q]) /\ entry[q].fetch = "none" /\ ~entry[q].error
    => entry[q].data.write >= own[q]
OwnChangeShown == \A q \in Observed(entry, page) : ~excused[q] => ShowsOwn(q)

(* What they do not (see the README). *)

\* The page shows its own changes whatever was under way.
OwnChangeAlwaysShown == \A q \in Observed(entry, page) : ShowsOwn(q)

\* What the user typed into the schedule's form stays until it is saved.
FormKept ==
  [][form.typed /\ page' = page /\ op' = op /\ Visible(entry') => form' = form \/ form'.typed]_vars

\* A schedule that was paused stays paused until it is resumed or made anew.
PauseHolds ==
  [][schedule # None /\ schedule' # None /\ ~schedule.enabled /\ schedule'.enabled
       => \E kind \in {"toggleSchedule"} : op[kind].at = "read" /\ op[kind].arg = TRUE]_vars

\* "Restore as v{currentVersion + 1}" makes the version it says.
RestoresAsSaid ==
  [][\A n \in 1..version : VersionOffered("restore", n) => Shown("workflow") = version]_vars

-----------------------------------------------------------------------------
(* The inductive invariants. *)

\* The handlers and the endpoint.
ServerInv == NothingOutlivesWorkflow /\ CallsInv

\* What the entry e has received, and will show without asking again, has seen
\* the write w.
Newer(e, w) ==
  /\ e.fetch = "answered" => e.answer.write >= w
  /\ HasData(e) /\ e.fetch = "none" /\ ~e.error /\ ~e.stale => e.data.write >= w

\* So has what the server's cache holds, or is about to hold.
KeyNewer(k, w) == \A seen \in {k.value, k.inHand} \ {None} : seen.write >= w

\* What a page is shown from now on has seen its own changes, unless excused.
FreshInv ==
  /\ \A k \in Kinds : op[k].write <= writes
  /\ \A q \in Queries :
       /\ own[q] <= writes
       /\ ~excused[q] => Newer(entry[q], own[q]) /\ (q \in Cached => KeyNewer(cached[q], own[q]))
  /\ OwnChangeShown

IndInv == PageTypeOK /\ ServerInv /\ FreshInv
=============================================================================
