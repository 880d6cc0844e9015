------------------------- MODULE WorkflowPageProofs -------------------------
(***************************************************************************)
(* Proofs about WorkflowPage and the Webhook it extends, for any calls,    *)
(* cron expressions, number of failures, visits and requests.              *)
(*                                                                         *)
(* On the server every write is made by a handler that has looked again at *)
(* the rows it is about, tokens only count upwards, and a call that has    *)
(* found its webhook remembers that it did.  In the browser every write of *)
(* the page asks again for what it changed, and an answer is at least as   *)
(* new as the request, or as the key of the server's cache it comes from.  *)
(***************************************************************************)
EXTENDS WorkflowPage, TLAPS

-----------------------------------------------------------------------------
(* The rows and the endpoint. *)

\* A row and a token: what the database may hold with n tokens given out.
RowsWith(n) == [token : 1..n, enabled : BOOLEAN] \cup {None}

\* A call, with n tokens given out.
CallSet(n) == [at : {"idle", "arrived", "found", "started", "done"}, token : 0..n, run : BOOLEAN,
               live : BOOLEAN, answer : {"ok", "not_found", "disabled", "error", None}]

\* A write of the webhook's row keeps the calls typed, and those that have been
\* live stay so.
LEMMA SetWebhookStep ==
  ASSUME WebhookTypeOK, CallsInv, NEW row, SetWebhook(row),
         tokens' \in Nat, tokens' >= tokens, row \in RowsWith(tokens'), exists' \in BOOLEAN
  PROVE  WebhookTypeOK' /\ CallsInv'
<1> USE DEF CallSet
<1>1. /\ webhook' = row
      /\ call' = [c \in Calls |->
           [call[c] EXCEPT !.live = @ \/ (call[c].at \in {"arrived", "found"} /\ Enabled(row, call[c].token))]]
  BY DEF SetWebhook
<1>2. call \in [Calls -> CallSet(tokens)] /\ tokens \in Nat
  BY DEF WebhookTypeOK
<1>3. ASSUME NEW c \in Calls
      PROVE  /\ call'[c] \in CallSet(tokens')
             /\ call'[c].at = call[c].at /\ call'[c].token = call[c].token /\ call'[c].run = call[c].run
             /\ call'[c].live <=> call[c].live \/ (call[c].at \in {"arrived", "found"} /\ Enabled(row, call[c].token))
  <2> DEFINE live == call[c].live \/ (call[c].at \in {"arrived", "found"} /\ Enabled(row, call[c].token))
  <2>1. call[c] \in CallSet(tokens) /\ live \in BOOLEAN
    BY <1>2
  <2>2. call'[c] = [call[c] EXCEPT !.live = live]
    BY <1>1
  <2>3. call[c].token \in 0 .. tokens'
    BY <1>2, <2>1
  <2> HIDE DEF live
  <2>4. call'[c].live = live
    BY <2>1, <2>2
  <2> QED
    BY <2>1, <2>2, <2>3, <2>4 DEF live
<1>4. call' \in [Calls -> CallSet(tokens')]
  BY <1>1, <1>3
<1>5. WebhookTypeOK'
  BY <1>1, <1>4 DEF WebhookTypeOK, RowsWith
<1>6. CallsInv'
  BY <1>1, <1>3 DEF CallsInv
<1> QED
  BY <1>5, <1>6

\* The endpoint's steps: only a live token gets past the look-up.
LEMMA InboundStep ==
  ASSUME WebhookTypeOK, CallsInv, Inbound
  PROVE  WebhookTypeOK' /\ CallsInv'
<1> USE DEF WebhookTypeOK
<1>1. UNCHANGED <<exists, webhook, tokens>>
  BY DEF Inbound
<1>2. ASSUME NEW c \in Calls, NEW token \in 1..tokens, Arrive(c, token) PROVE WebhookTypeOK' /\ CallsInv'
  <2>1. WebhookTypeOK'
    <3>1. Enabled(webhook, token) \in BOOLEAN
      BY DEF Enabled
    <3> DEFINE new == [call[c] EXCEPT !.at = "arrived", !.token = token, !.live = Enabled(webhook, token)]
    <3>2. call' = [call EXCEPT ![c] = new]
      BY <1>2 DEF Arrive
    <3>3. call[c] \in CallSet(tokens) /\ token \in 0 .. tokens
      BY DEF CallSet
    <3>4. new \in CallSet(tokens)
      BY <3>1, <3>3 DEF CallSet
    <3> HIDE DEF new
    <3>5. call' \in [Calls -> CallSet(tokens)]
      BY <3>2, <3>4 DEF CallSet
    <3> QED
      BY <1>1, <3>5 DEF CallSet
  <2>2. CallsInv'
    BY <1>1, <1>2 DEF Arrive, Enabled, CallsInv
  <2> QED
    BY <2>1, <2>2
<1>3. ASSUME NEW c \in Calls, NEW answer \in {"ok", "not_found", "disabled", "error"}, Reply(c, answer)
      PROVE  WebhookTypeOK' /\ CallsInv'
  <2>1. WebhookTypeOK'
    <3>1. call[c] \in CallSet(tokens)
      BY DEF CallSet
    <3>2. (call[c].live /\ call[c].run) \in BOOLEAN
      OBVIOUS
    <3> DEFINE live == call[c].live /\ call[c].run
               new == [call[c] EXCEPT !.at = "done", !.token = 0, !.answer = answer, !.live = live]
    <3>3. call' = [call EXCEPT ![c] = new]
      BY <1>3 DEF Reply
    <3> HIDE DEF live
    <3>4. live \in BOOLEAN
      BY <3>2 DEF live
    <3>5. new \in CallSet(tokens)
      <4>1. 0 \in 0 .. tokens
        OBVIOUS
      <4> QED
        BY <3>1, <3>4, <4>1 DEF CallSet
    <3> HIDE DEF new
    <3>6. call' \in [Calls -> CallSet(tokens)]
      BY <3>3, <3>5 DEF CallSet
    <3> QED
      BY <1>1, <3>6 DEF CallSet
  <2>2. CallsInv'
    BY <1>1, <1>3 DEF Reply, CallsInv
  <2> QED
    BY <2>1, <2>2
<1>4. ASSUME NEW c \in Calls, FindByToken(c) PROVE WebhookTypeOK' /\ CallsInv'
  <2>1. CASE Goes(c, "found") /\ call[c].at = "arrived" /\ Enabled(webhook, call[c].token)
    <3>1. WebhookTypeOK'
      BY <1>1, <2>1 DEF Goes
    <3>2. CallsInv'
      BY <1>1, <2>1 DEF Goes, CallsInv
    <3> QED
      BY <3>1, <3>2
  <2>2. CASE Reply(c, "disabled") \/ Reply(c, "not_found")
    BY <1>3, <2>2
  <2> QED
    BY <1>4, <2>1, <2>2 DEF FindByToken
<1>5. ASSUME NEW c \in Calls, TriggerRun(c) PROVE WebhookTypeOK' /\ CallsInv'
  <2>1. CASE exists
    <3>1. WebhookTypeOK'
      BY <1>1, <1>5, <2>1 DEF TriggerRun
    <3>2. CallsInv'
      BY <1>1, <1>5, <2>1 DEF TriggerRun, CallsInv
    <3> QED
      BY <3>1, <3>2
  <2>2. CASE ~exists
    BY <1>3, <1>5, <2>2 DEF TriggerRun
  <2> QED
    BY <2>1, <2>2
<1>6. ASSUME NEW c \in Calls, UpdateLastCalled(c) PROVE WebhookTypeOK' /\ CallsInv'
  BY <1>3, <1>6 DEF UpdateLastCalled
<1> QED
  BY <1>2, <1>4, <1>5, <1>6 DEF Inbound

\* What a write is given: the switch or the cron it carries, and the schedule its
\* handler has read.
GivenOK(kind, arg, seen) ==
  /\ kind \in {"toggleWebhook", "toggleSchedule"} => arg \in BOOLEAN
  /\ kind \in {"createSchedule", "updateSchedule"} => arg \in Crons
  /\ kind \in {"updateSchedule", "toggleSchedule"} => seen \in Schedules

\* A replaced or deleted token never is the webhook's again.
FreshToken ==
  webhook' # None /\ (webhook = None \/ webhook.token # webhook'.token) => webhook'.token > tokens

\* An accepted write keeps the rows typed, gives nothing to a deleted workflow,
\* and takes a new token for a new URL.
LEMMA WriteStep ==
  ASSUME RowsTypeOK, ServerInv, NEW kind \in Kinds, NEW arg, NEW seen,
         GivenOK(kind, arg, seen), Accepts(kind), Write(kind, arg, seen)
  PROVE  RowsTypeOK' /\ ServerInv' /\ FreshToken /\ writes' = writes + 1
<1> USE DEF RowsTypeOK, ServerInv
<1>0. exists /\ writes' = writes + 1 /\ writes' \in Nat /\ tokens \in Nat
  BY DEF Accepts, Write, WebhookTypeOK
<1>1. CASE kind \in WebhookOps
  <2>1. /\ WriteWebhook(kind, arg, seen)
        /\ UNCHANGED <<exists, schedule, version, copies>>
        /\ webhook = None <=> Creates(kind)
    BY <1>1, PageAssumption DEF Write, WriteWebhook, Accepts, RowFor, Creates, WebhookOps, ScheduleOps, WorkflowOps, WebhookTypeOK
  <2>2. CASE GenerateToken(TRUE) \/ (webhook # None /\ GenerateToken(webhook.enabled))
    <3>1. PICK enabled \in BOOLEAN : GenerateToken(enabled)
      BY <2>2 DEF WebhookTypeOK
    <3>2. Row(tokens + 1, enabled) \in RowsWith(tokens') /\ tokens' = tokens + 1 /\ tokens' \in Nat /\ tokens' >= tokens
      BY <1>0, <3>1 DEF GenerateToken, Row, RowsWith
    <3>3. WebhookTypeOK' /\ CallsInv'
      BY <1>0, <2>1, <3>1, <3>2, SetWebhookStep DEF GenerateToken
    <3>4. webhook' = Row(tokens + 1, enabled)
      BY <3>1 DEF GenerateToken, SetWebhook
    <3>5. FreshToken
      BY <1>0, <3>4 DEF FreshToken, Row
    <3> QED
      BY <1>0, <2>1, <3>3, <3>5 DEF NothingOutlivesWorkflow
  <2>3. CASE kind = "toggleWebhook"
    <3>1. webhook # None /\ arg \in BOOLEAN /\ Toggle(arg, seen) /\ UNCHANGED tokens
      BY <2>1, <2>3 DEF WriteWebhook, Creates, GivenOK, Toggle
    <3>2. webhook \in [token : 1..tokens, enabled : BOOLEAN]
      BY <3>1 DEF WebhookTypeOK
    <3>3. [webhook EXCEPT !.enabled = arg] \in RowsWith(tokens')
      BY <3>1, <3>2 DEF RowsWith
    <3>4. WebhookTypeOK' /\ CallsInv'
      BY <1>0, <2>1, <3>1, <3>3, SetWebhookStep DEF Toggle
    <3>5. webhook'.token = webhook.token
      BY <3>1, <3>2 DEF Toggle, SetWebhook
    <3> QED
      BY <1>0, <2>1, <3>1, <3>4, <3>5 DEF NothingOutlivesWorkflow, FreshToken
  <2>4. CASE kind = "deleteWebhook"
    <3>1. SetWebhook(None) /\ UNCHANGED tokens
      BY <2>1, <2>4 DEF WriteWebhook
    <3>2. WebhookTypeOK' /\ CallsInv'
      BY <1>0, <2>1, <3>1, SetWebhookStep DEF RowsWith
    <3> QED
      BY <1>0, <2>1, <3>1, <3>2 DEF NothingOutlivesWorkflow, FreshToken, SetWebhook
  <2>5. kind \in {"createWebhook", "regenerate"} => GenerateToken(TRUE) \/ (webhook # None /\ GenerateToken(webhook.enabled))
    BY <2>1 DEF WriteWebhook, Creates
  <2> QED
    BY <1>1, <2>2, <2>3, <2>4, <2>5 DEF WebhookOps
<1>2. CASE kind \in ScheduleOps
  <2>1. WriteSchedule(kind, arg, seen)
    BY <1>2 DEF Write, WebhookOps, ScheduleOps, WorkflowOps
  <2>2. UNCHANGED <<exists, webhook, tokens, call, version, copies>>
    BY <2>1 DEF WriteSchedule
  <2>3. schedule' \in Schedules \cup {None}
    BY <1>2, <2>1 DEF WriteSchedule, Schedule, Schedules, ScheduleOps, GivenOK
  <2> QED
    BY <1>0, <2>2, <2>3 DEF WebhookTypeOK, CallsInv, NothingOutlivesWorkflow, FreshToken
<1>3. CASE kind \in WorkflowOps
  <2>1. WriteWorkflow(kind)
    BY <1>3 DEF Write, WebhookOps, ScheduleOps, WorkflowOps
  <2>2. CASE kind = "deleteWorkflow"
    <3>1. SetWebhook(None) /\ exists' = FALSE /\ schedule' = None /\ UNCHANGED <<tokens, version, copies>>
      BY <2>1, <2>2 DEF WriteWorkflow
    <3>2. None \in RowsWith(tokens') /\ exists' \in BOOLEAN
      BY <3>1 DEF RowsWith
    <3>4. tokens' \in Nat /\ tokens' >= tokens
      BY <1>0, <3>1
    <3>3. WebhookTypeOK' /\ CallsInv'
      BY <3>1, <3>2, <3>4, SetWebhookStep
    <3> QED
      BY <1>0, <3>1, <3>3 DEF NothingOutlivesWorkflow, FreshToken, SetWebhook
  <2>3. CASE kind # "deleteWorkflow"
    <3>1. /\ UNCHANGED <<exists, webhook, tokens, call, schedule>>
          /\ version' \in {version, version + 1} /\ copies' \in {copies, copies + 1}
      <4>1. CASE kind = "restore"
        BY <2>1, <4>1 DEF WriteWorkflow
      <4>2. CASE kind = "duplicate"
        BY <2>1, <4>2 DEF WriteWorkflow
      <4>3. CASE kind = "trigger"
        BY <2>1, <4>3 DEF WriteWorkflow
      <4> QED
        BY <1>3, <2>3, <4>1, <4>2, <4>3 DEF WorkflowOps
    <3> QED
      BY <1>0, <3>1 DEF WebhookTypeOK, CallsInv, NothingOutlivesWorkflow, FreshToken
  <2> QED
    BY <2>2, <2>3
<1> QED
  BY <1>1, <1>2, <1>3 DEF Kinds

-----------------------------------------------------------------------------
(* The requests. *)

OpsOK == DOMAIN op = Kinds /\ \A k \in Kinds : OpOK(k, op[k])

\* A handler has read nothing, or the row it is about.
LEMMA NoneSeen == ASSUME NEW kind PROVE None \in SeenBy(kind)
BY DEF SeenBy, RowsOf
LEMMA RowSeen == ASSUME RowsTypeOK, NEW kind PROVE RowFor(kind) \in SeenBy(kind)
<1>1. webhook \in [token : Nat, enabled : BOOLEAN] \cup {None}
  BY DEF RowsTypeOK, WebhookTypeOK
<1>2. schedule \in Schedules \cup {None}
  BY DEF RowsTypeOK
<1>3. RowsOf("webhook") = [token : Nat, enabled : BOOLEAN] \cup {None}
  BY DEF RowsOf
<1>4. RowsOf("schedule") = Schedules \cup {None}
  BY DEF RowsOf
<1> QED
  BY <1>1, <1>2, <1>3, <1>4 DEF RowFor, SeenBy

\* One request moves on.
LEMMA OpUpdate ==
  ASSUME OpsOK, NEW kind \in Kinds, NEW o, OpOK(kind, o), op' = [op EXCEPT ![kind] = o]
  PROVE  OpsOK' /\ op'[kind] = o /\ \A k \in Kinds \ {kind} : op'[k] = op[k]
BY DEF OpsOK

\* A request is sent with what was offered.
LEMMA ClickOps ==
  ASSUME OpsOK, Click, form.cron \in Crons
  PROVE  OpsOK' /\ \A k \in Kinds : op'[k].write \in {op[k].write, 0}
<1>1. ASSUME NEW kind \in Kinds, NEW arg \in ArgsOf(kind), Request(kind, arg)
      PROVE  OpsOK' /\ \A k \in Kinds : op'[k].write \in {op[k].write, 0}
  <2> DEFINE o == [Idle EXCEPT !.at = "sent", !.arg = arg]
  <2>1. op' = [op EXCEPT ![kind] = o]
    BY <1>1 DEF Request
  <2>2. OpOK(kind, o) /\ o.write = 0
    BY <1>1, NoneSeen DEF OpOK, Idle, Stages
  <2> HIDE DEF o
  <2>3. OpsOK'
    BY <2>1, <2>2, OpUpdate
  <2> QED
    BY <2>1, <2>2, <2>3 DEF OpsOK
<1>2. ASSUME NEW kind \in WebhookOps, NEW arg \in BOOLEAN \cup {None}, WebhookOffered(kind, arg)
      PROVE  kind \in Kinds /\ arg \in ArgsOf(kind)
  BY <1>2 DEF WebhookOffered, WebhookOps, Kinds, ArgsOf
<1>3. ASSUME NEW kind \in ScheduleOps, NEW arg \in BOOLEAN \cup Crons \cup {None}, ScheduleOffered(kind, arg)
      PROVE  kind \in Kinds /\ arg \in ArgsOf(kind)
  BY <1>3 DEF ScheduleOffered, ScheduleOps, Kinds, ArgsOf
<1>4. ASSUME NEW arg \in 1..version PROVE "restore" \in Kinds /\ arg \in ArgsOf("restore")
  BY DEF WorkflowOps, Kinds, ArgsOf
<1>5. ASSUME NEW kind \in WorkflowOps, NEW arg \in {"page", "card"}, WorkflowOffered(kind, arg)
      PROVE  kind \in Kinds /\ arg \in ArgsOf(kind)
  BY <1>5 DEF WorkflowOffered, WorkflowOps, Kinds, ArgsOf
<1> HIDE DEF ArgsOf
<1> QED
  BY <1>1, <1>2, <1>3, <1>4, <1>5, Zenon DEF Click

\* Its handler reads a schedule where it found one.
LEMMA ReadOps ==
  ASSUME OpsOK, RowsTypeOK, NEW kind \in Kinds, ReadRow(kind)
  PROVE  OpsOK' /\ op'[kind].write = op[kind].write /\ \A k \in Kinds \ {kind} : op'[k] = op[k]
<1> DEFINE at == IF Accepts(kind) THEN "read" ELSE "failed"
           seen == IF Accepts(kind) /\ kind \notin WorkflowOps THEN RowFor(kind) ELSE None
           o == [op[kind] EXCEPT !.at = at, !.seen = seen]
<1>1. op' = [op EXCEPT ![kind] = o] /\ op[kind].at = "sent"
  BY DEF ReadRow
<1>2. OpOK(kind, op[kind]) /\ kind \in DOMAIN op
  BY DEF OpsOK
<1>3. at \in {"read", "failed"}
  OBVIOUS
<1>4. at = "read" /\ kind \in {"updateSchedule", "toggleSchedule"} => seen # None
  BY DEF Accepts, RowFor, Creates, ScheduleOps, WebhookOps, WorkflowOps
<1>5. seen \in SeenBy(kind)
  BY RowSeen, NoneSeen
<1> HIDE DEF at, seen
<1>6. OpOK(kind, o) /\ o.write = op[kind].write
  BY <1>1, <1>2, <1>3, <1>4, <1>5 DEF OpOK, Stages
<1> HIDE DEF o
<1> QED
  BY <1>1, <1>2, <1>6, OpUpdate

\* A request that is only marked.
LEMMA MarkOps ==
  ASSUME OpsOK, NEW kind \in Kinds, NEW at \in {"written", "done", "failed"}, NEW write \in Nat,
         op' = [op EXCEPT ![kind] = [op[kind] EXCEPT !.at = at, !.write = write]]
  PROVE  OpsOK' /\ op'[kind].write = write /\ \A k \in Kinds \ {kind} : op'[k] = op[k]
<1> DEFINE o == [op[kind] EXCEPT !.at = at, !.write = write]
<1>1. OpOK(kind, op[kind]) /\ kind \in DOMAIN op
  BY DEF OpsOK
<1>2. OpOK(kind, o) /\ o.write = write
  BY <1>1 DEF OpOK, Stages
<1>3. op' = [op EXCEPT ![kind] = o]
  OBVIOUS
<1> HIDE DEF o
<1> QED
  BY <1>1, <1>2, <1>3, OpUpdate

\* The same without a write.
LEMMA StageOps ==
  ASSUME OpsOK, NEW kind \in Kinds, NEW at \in {"written", "done", "failed"},
         op' = [op EXCEPT ![kind] = [op[kind] EXCEPT !.at = at]]
  PROVE  OpsOK' /\ op'[kind].write = op[kind].write /\ \A k \in Kinds \ {kind} : op'[k] = op[k]
<1> DEFINE o == [op[kind] EXCEPT !.at = at]
<1>1. OpOK(kind, op[kind]) /\ kind \in DOMAIN op
  BY DEF OpsOK
<1>2. OpOK(kind, o) /\ o.write = op[kind].write
  BY <1>1 DEF OpOK, Stages
<1>3. op' = [op EXCEPT ![kind] = o]
  OBVIOUS
<1> HIDE DEF o
<1> QED
  BY <1>1, <1>2, <1>3, OpUpdate

\* A request that is over.
LEMMA IdleOps ==
  ASSUME OpsOK, NEW kind \in Kinds, op' = [op EXCEPT ![kind] = Idle]
  PROVE  OpsOK' /\ op'[kind].write = 0 /\ \A k \in Kinds \ {kind} : op'[k] = op[k]
<1>1. OpOK(kind, Idle) /\ Idle.write = 0
  BY NoneSeen DEF OpOK, Idle, Stages
<1> HIDE DEF Idle
<1> QED
  BY <1>1, OpUpdate

\* A step is a call of the endpoint, a handler's or another member's write, or
\* leaves the rows alone.
LEMMA ServerStep ==
  ASSUME OpsOK, RowsTypeOK, ServerInv, [Next]_vars
  PROVE  RowsTypeOK' /\ ServerInv' /\ FreshToken /\ writes' >= writes
<1>1. CASE UNCHANGED rows
  BY <1>1 DEF rows, RowsTypeOK, WebhookTypeOK, ServerInv, NothingOutlivesWorkflow, CallsInv, FreshToken
<1>2. CASE Inbound /\ PageKept
  <2>1. WebhookTypeOK' /\ CallsInv'
    BY <1>2, InboundStep DEF RowsTypeOK, ServerInv
  <2>2. UNCHANGED <<exists, webhook, tokens, schedule, version, copies, writes>>
    BY <1>2 DEF Inbound, PageKept
  <2> QED
    BY <2>1, <2>2 DEF RowsTypeOK, ServerInv, NothingOutlivesWorkflow, FreshToken
<1>3. ASSUME NEW kind \in Kinds, WriteRow(kind), Accepts(kind)
      PROVE  RowsTypeOK' /\ ServerInv' /\ FreshToken /\ writes' >= writes
  <2>1. Write(kind, op[kind].arg, op[kind].seen) /\ op[kind].at = "read"
    BY <1>3 DEF WriteRow
  <2>2. GivenOK(kind, op[kind].arg, op[kind].seen)
    BY <2>1 DEF OpsOK, OpOK, GivenOK, ArgsOf, SeenBy, RowsOf, WebhookOps
  <2>3. RowsTypeOK' /\ ServerInv' /\ FreshToken /\ writes' = writes + 1
    BY <1>3, <2>1, <2>2, WriteStep
  <2> QED
    BY <2>3 DEF RowsTypeOK
<1>4. CASE OtherMember
  <2>1. PICK kind \in Kinds \ {"trigger", "duplicate"}, arg \in {TRUE, FALSE} \cup Crons :
          /\ Accepts(kind)
          /\ kind \in {"createSchedule", "updateSchedule"} <=> arg \in Crons
          /\ kind \notin {"toggleWebhook", "toggleSchedule"} => arg # FALSE
          /\ Write(kind, arg, RowFor(kind))
    BY <1>4 DEF OtherMember
  <2>2. GivenOK(kind, arg, RowFor(kind))
    BY <2>1 DEF GivenOK, Accepts, RowFor, Creates, ScheduleOps, WebhookOps, RowsTypeOK
  <2>3. RowsTypeOK' /\ ServerInv' /\ FreshToken /\ writes' = writes + 1
    BY <2>1, <2>2, WriteStep
  <2> QED
    BY <2>3 DEF RowsTypeOK
<1>5. ASSUME NEW kind \in Kinds, WriteRow(kind), ~Accepts(kind) PROVE UNCHANGED rows
  BY <1>5 DEF WriteRow
<1>6. ASSUME NEW kind \in Kinds,
             ReadRow(kind) \/ InvalidateKeys(kind) \/ LoseRequest(kind) \/ Succeed(kind) \/ ToastError(kind)
      PROVE  UNCHANGED rows
  BY <1>6 DEF ReadRow, InvalidateKeys, LoseRequest, Succeed, ToastError, serverVars
<1>7. ASSUME NEW p, Open(p) PROVE UNCHANGED rows
  BY <1>7 DEF Open, serverVars
<1>8. ASSUME NEW q, AnswerQuery(q) \/ SettleQuery(q) \/ FailQuery(q) \/ AgeQuery(q) PROVE UNCHANGED rows
  BY <1>8 DEF AnswerQuery, SettleQuery, FailQuery, AgeQuery, CacheOnly, serverVars
<1>9. ASSUME NEW q, ReadMissing(q) \/ StoreMissing(q) \/ ExpireKey(q) PROVE UNCHANGED rows
  BY <1>9 DEF ReadMissing, StoreMissing, ExpireKey, InCache
<1>10. RetryList \/ Click \/ (\E cron \in Crons, json \in BOOLEAN : TypeForm(cron, json)) \/ UNCHANGED vars
         => UNCHANGED rows
  BY DEF RetryList, Click, Request, TypeForm, vars, CacheOnly, serverVars
<1> QED
  BY <1>1, <1>2, <1>3, <1>4, <1>5, <1>6, <1>7, <1>8, <1>9, <1>10 DEF Next

\* The requests keep their types, and none has a write that is yet to be made.
OpsInv == OpsOK /\ \A k \in Kinds : op[k].write <= writes

\* One request's record is replaced.
LEMMA OpsFrom ==
  ASSUME OpsInv, OpsOK', NEW kind \in Kinds, \A k \in Kinds \ {kind} : op'[k] = op[k],
         op'[kind].write <= writes', writes \in Nat, writes' \in Nat, writes' >= writes
  PROVE  OpsInv'
<1>1. ASSUME NEW k \in Kinds PROVE op[k].write \in Nat /\ op'[k].write <= writes'
  <2>1. op[k].write \in Nat /\ op[k].write <= writes
    BY DEF OpsInv, OpsOK, OpOK
  <2>2. k # kind => op'[k] = op[k]
    BY DEF OpsInv, OpsOK
  <2> QED
    BY <2>1, <2>2
<1> QED
  BY <1>1 DEF OpsInv

\* Every step keeps the requests so.
LEMMA OpsStep ==
  ASSUME OpsInv, RowsTypeOK, form.cron \in Crons, writes' \in Nat, writes' >= writes, [Next]_vars
  PROVE  OpsInv'
<1>0. writes \in Nat /\ OpsOK /\ \A k \in Kinds : op[k].write \in Nat /\ op[k].write <= writes
  BY DEF RowsTypeOK, OpsInv, OpsOK, OpOK
<1>1. CASE UNCHANGED op
  BY <1>0, <1>1 DEF OpsInv, OpsOK
<1>2. CASE Click
  <2>1. OpsOK' /\ \A k \in Kinds : op'[k].write \in {op[k].write, 0}
    BY <1>0, <1>2, ClickOps
  <2> QED
    BY <1>0, <2>1 DEF OpsInv
<1>3. ASSUME NEW kind \in Kinds, ReadRow(kind) PROVE OpsInv'
  <2>1. OpsOK' /\ op'[kind].write = op[kind].write /\ \A k \in Kinds \ {kind} : op'[k] = op[k]
    BY <1>0, <1>3, ReadOps
  <2> QED
    BY <1>0, <2>1, OpsFrom
<1>4. ASSUME NEW kind \in Kinds, WriteRow(kind), Accepts(kind) PROVE OpsInv'
  <2>1. writes' = writes + 1 /\ op' = [op EXCEPT ![kind] = [op[kind] EXCEPT !.at = "written", !.write = writes + 1]]
    BY <1>4 DEF WriteRow, Write
  <2>2. OpsOK' /\ op'[kind].write = writes + 1 /\ \A k \in Kinds \ {kind} : op'[k] = op[k]
    BY <1>0, <2>1, MarkOps
  <2> QED
    BY <1>0, <2>1, <2>2, OpsFrom
<1>5. ASSUME NEW kind \in Kinds, NEW at \in {"written", "done", "failed"},
             op' = [op EXCEPT ![kind] = [op[kind] EXCEPT !.at = at]]
      PROVE  OpsInv'
  <2>1. OpsOK' /\ op'[kind].write = op[kind].write /\ \A k \in Kinds \ {kind} : op'[k] = op[k]
    BY <1>0, <1>5, StageOps
  <2> QED
    BY <1>0, <2>1, OpsFrom
<1>6. ASSUME NEW kind \in Kinds, op' = [op EXCEPT ![kind] = Idle] PROVE OpsInv'
  <2>1. OpsOK' /\ op'[kind].write = 0 /\ \A k \in Kinds \ {kind} : op'[k] = op[k]
    BY <1>0, <1>6, IdleOps
  <2> QED
    BY <1>0, <2>1, OpsFrom
<1>7. ASSUME NEW kind \in Kinds, InvalidateKeys(kind) \/ LoseRequest(kind) \/ (WriteRow(kind) /\ ~Accepts(kind))
      PROVE  OpsInv'
  <2>1. PICK at \in {"written", "done", "failed"} : op' = [op EXCEPT ![kind].at = at]
    BY <1>7 DEF InvalidateKeys, LoseRequest, WriteRow
  <2>2. op' = [op EXCEPT ![kind] = [op[kind] EXCEPT !.at = at]]
    BY <2>1
  <2> QED
    BY <1>5, <2>2
<1>8. ASSUME NEW kind \in Kinds, Succeed(kind) \/ ToastError(kind) PROVE OpsInv'
  BY <1>6, <1>8 DEF Succeed, ToastError
<1>9. \/ Inbound /\ PageKept
      \/ \E p \in {"away", "list"} \cup TabKeys : Open(p)
      \/ \E q \in Queries : AnswerQuery(q) \/ SettleQuery(q) \/ FailQuery(q) \/ AgeQuery(q)
      \/ \E q \in Cached : ReadMissing(q) \/ StoreMissing(q) \/ ExpireKey(q)
      \/ RetryList \/ (\E cron \in Crons, json \in BOOLEAN : TypeForm(cron, json)) \/ OtherMember
      \/ UNCHANGED vars
      => UNCHANGED op
  BY DEF PageKept, Open, AnswerQuery, SettleQuery, FailQuery, AgeQuery, CacheOnly, ReadMissing, StoreMissing, ExpireKey,
     InCache, RetryList, TypeForm, OtherMember, vars
<1> QED
  BY <1>1, <1>2, <1>3, <1>4, <1>7, <1>8, <1>9 DEF Next

-----------------------------------------------------------------------------
(* The query cache and the screen. *)

\* What the entry e shows has seen the write w.
Shows(e, w) == HasData(e) /\ e.fetch = "none" /\ ~e.error => e.data.write >= w

\* Every operation of the query cache keeps an entry typed.
LEMMA EntryOps ==
  ASSUME NEW S, NEW e \in Entry(S)
  PROVE  /\ Fetch(e) \in Entry(S) /\ Refetch(e) \in Entry(S) /\ Mount(e) \in Entry(S)
         /\ Fail(e) \in Entry(S) /\ Settle(e) \in Entry(S) /\ [e EXCEPT !.stale = TRUE] \in Entry(S)
         /\ \A active \in BOOLEAN : Invalidate(e, active) \in Entry(S)
         /\ \A value \in S : Answer(e, value) \in Entry(S)
<1>1. ASSUME NEW d \in Entry(S) PROVE Ask(d) \in Entry(S)
  BY DEF Entry, Ask, HasData
<1>2. [e EXCEPT !.stale = TRUE] \in Entry(S)
  BY DEF Entry
<1>3. ASSUME NEW d \in Entry(S) PROVE Fetch(d) \in Entry(S) /\ Refetch(d) \in Entry(S)
  BY <1>1 DEF Fetch, Refetch
<1>4. Mount(e) \in Entry(S) /\ \A active \in BOOLEAN : Invalidate(e, active) \in Entry(S)
  BY <1>2, <1>3 DEF Mount, Invalidate
<1>5. Fail(e) \in Entry(S) /\ Settle(e) \in Entry(S) /\ \A value \in S : Answer(e, value) \in Entry(S)
  BY DEF Entry, Fail, Answer, Settle, EmptyEntry
<1> QED
  BY <1>2, <1>3, <1>4, <1>5

\* An entry that asks is as new as it was, whatever it shows.
LEMMA AskNewer ==
  ASSUME NEW S, NEW e \in Entry(S), NEW w
  PROVE  /\ Newer(Ask(e), w) /\ Ask(e).fetch = "asked"
         /\ HasData(Ask(e)) = HasData(e) /\ Ask(e).error = (e.error /\ HasData(e))
BY DEF Entry, Ask, Newer, HasData

\* So is one that joins a fetch that was asked for before.
LEMMA FetchNewer ==
  ASSUME NEW S, NEW e \in Entry(S), NEW w
  PROVE  /\ Newer(e, w) => Newer(Fetch(e), w) /\ Newer(Refetch(e), w)
         /\ Fetch(e).fetch # "none" /\ Refetch(e).fetch # "none"
         /\ HasData(e) \/ e.fetch = "none" => Refetch(e).fetch = "asked"
         /\ HasData(Fetch(e)) = HasData(e) /\ (HasData(e) => Fetch(e).error = e.error)
BY AskNewer DEF Entry, Fetch, Refetch

\* A query that comes into view shows what is new, or is being asked for.
LEMMA MountNewer ==
  ASSUME NEW S, NEW e \in Entry(S), NEW w, Newer(e, w), NEW q
  PROVE  /\ Newer(MountQuery(q, e), w) /\ Shows(MountQuery(q, e), w)
         /\ HasData(MountQuery(q, e)) = HasData(e)
         /\ HasData(e) => MountQuery(q, e).error = e.error
BY FetchNewer DEF MountQuery, Mount, Shows, Newer

\* An invalidated entry is asked for, or is marked stale; it joins only a first
\* fetch, or one that nobody waits for.
LEMMA InvalidateNewer ==
  ASSUME NEW S, NEW e \in Entry(S), NEW w, NEW active \in BOOLEAN
  PROVE  /\ Newer(e, w) => Newer(Invalidate(e, active), w)
         /\ active => Shows(Invalidate(e, active), w)
         /\ e.fetch = "none" \/ (HasData(e) /\ active) => Newer(Invalidate(e, active), w)
<1> DEFINE marked == [e EXCEPT !.stale = TRUE]
<1>1. /\ marked \in Entry(S) /\ marked.stale = TRUE /\ marked.fetch = e.fetch
      /\ marked.answer = e.answer /\ HasData(marked) = HasData(e)
  BY DEF Entry, HasData
<1>2. Newer(e, w) \/ e.fetch = "none" => Newer(marked, w)
  BY <1>1 DEF Newer
<1>3. Invalidate(e, active) = IF active THEN Refetch(marked) ELSE marked
  BY DEF Invalidate
<1> HIDE DEF marked
<1>4. Refetch(marked).fetch = "asked" => Newer(Refetch(marked), w)
  BY <1>1 DEF Newer
<1> QED
  BY <1>1, <1>2, <1>3, <1>4, FetchNewer DEF Shows

Pages == {"away", "list"} \cup TabKeys
Forms == [cron : Crons, json : BOOLEAN, typed : BOOLEAN]

\* The browser: its entries and its form are typed, what an entry has received
\* and will show is new, and so is what is on the screen.
ClientInv ==
  /\ DOMAIN entry = Queries /\ \A q \in Queries : entry[q] \in Entry(Answers(q))
  /\ page \in Pages /\ form \in Forms
  /\ \A q \in Queries : ~excused[q] => Newer(entry[q], own[q])
  /\ \A q \in Observed(entry, page) : ~excused[q] => Shows(entry[q], own[q])

\* What a step may render: typed entries that are new, and that show what is new
\* where they are in view already.
Renders(e) ==
  \A q \in Queries :
    /\ e[q] \in Entry(Answers(q))
    /\ ~excused'[q] => Newer(e[q], own'[q])
    /\ q \in Observed(entry, page) /\ ~excused'[q] => Shows(e[q], own'[q])

\* Only queries are in view.
LEMMA ObservedQueries == ASSUME NEW e, NEW p \in Pages PROVE Observed(e, p) \subseteq Queries
BY DEF Observed, Pages, TabKeys, TabQuery, Queries

\* What is in view depends on the pages and on the workflow being there.
LEMMA SameView ==
  ASSUME NEW e, NEW d, NEW p, Visible(e) = Visible(d)
  PROVE  Observed(e, p) = Observed(d, p)
BY DEF Observed

\* The form is filled from the row that arrived, or as it was.
LEMMA FormTyped ==
  ASSUME NEW e, NEW opened, e["schedule"] \in Entry(Answers("schedule")), form \in Forms
  PROVE  FormAfter(e, opened) \in Forms /\ NewForm \in Forms
<1>1. Answers("schedule") = [row : Schedules \cup {None}, write : Nat]
  BY DEF Answers, RowsOf
<1>2. NewForm \in Forms
  BY PageAssumption DEF NewForm, Forms
<1>3. ASSUME NEW old \in Forms PROVE Filled(e["schedule"], old) \in Forms
  <2> DEFINE d == e["schedule"]
  <2>1. d.data \in Answers("schedule") \cup {None}
    BY DEF Entry
  <2> HIDE DEF d
  <2>2. HasData(d) => d.data.row \in Schedules \cup {None}
    <3> DEFINE R == Schedules \cup {None}
    <3>1. Answers("schedule") = [row : R, write : Nat]
      BY <1>1
    <3> HIDE DEF R
    <3>2. \A x \in [row : R, write : Nat] : x.row \in R
      OBVIOUS
    <3> QED
      BY <2>1, <3>1, <3>2 DEF HasData, R
  <2>3. HasData(d) /\ d.data.row # None => d.data.row.cron \in Crons
    BY <2>2 DEF Schedules
  <2>4. Filled(d, old) \in Forms
    BY <2>3 DEF Filled, Forms
  <2> QED
    BY <2>4 DEF d
<1> QED
  BY <1>2, <1>3 DEF FormAfter

\* A render keeps the browser so.
LEMMA RenderStep ==
  ASSUME ClientInv, NEW e, Renders(e), NEW p \in Pages, Render(e, p)
  PROVE  ClientInv'
<1> DEFINE opened == Observed(e, p) \ Observed(entry, page)
<1>1. /\ page' = p
      /\ entry' = [q \in Queries |-> IF q \in opened THEN MountQuery(q, e[q]) ELSE e[q]]
      /\ form' = IF "schedule" \in Observed(e, p) THEN FormAfter(e, opened) ELSE NewForm
  BY DEF Render
<1>2. ASSUME NEW q \in Queries
      PROVE  /\ entry'[q] = IF q \in opened THEN MountQuery(q, e[q]) ELSE e[q]
             /\ e[q] \in Entry(Answers(q))
  BY <1>1 DEF Renders
<1> HIDE DEF opened
<1>3. \A q \in Queries : entry'[q] \in Entry(Answers(q))
  BY <1>2, EntryOps DEF MountQuery
<1>4. \A q \in Queries : ~excused'[q] => Newer(entry'[q], own'[q])
  BY <1>2, MountNewer DEF Renders
<1>5. Visible(entry') = Visible(e)
  <2>1. "workflow" \in Queries /\ e["workflow"] \in Entry(Answers("workflow"))
    BY DEF Queries, Renders
  <2>2. /\ HasData(entry'["workflow"]) = HasData(e["workflow"])
        /\ HasData(e["workflow"]) => entry'["workflow"].error = e["workflow"].error
    BY <1>2, <2>1, FetchNewer DEF MountQuery, Mount
  <2>3. entry'["workflow"].error \in BOOLEAN /\ e["workflow"].error \in BOOLEAN
    BY <1>3, <2>1 DEF Entry
  <2> QED
    BY <2>2, <2>3 DEF Visible
<1>6. Observed(entry', page') = Observed(e, p)
  BY <1>1, <1>5, SameView
<1>7. \A q \in Observed(e, p) : ~excused'[q] => Shows(entry'[q], own'[q])
  BY <1>2, MountNewer, ObservedQueries DEF Renders, opened
<1>8. form' \in Forms
  BY <1>1, <1>2, FormTyped DEF ClientInv, Queries
<1>9. DOMAIN entry' = Queries
  BY <1>1
<1> QED
  BY <1>1, <1>3, <1>4, <1>6, <1>7, <1>8, <1>9 DEF ClientInv

\* One entry changes.
LEMMA ChangeStep ==
  ASSUME ClientInv, UNCHANGED ghosts, NEW q \in Queries, NEW d \in Entry(Answers(q)),
         ~excused[q] => Newer(d, own[q]),
         q \in Observed(entry, page) /\ ~excused[q] => Shows(d, own[q]),
         Change(q, d)
  PROVE  ClientInv'
<1> DEFINE e == [entry EXCEPT ![q] = d]
<1>1. Render(e, page) /\ page \in Pages
  BY DEF Change, ClientInv
<1>2. own' = own /\ excused' = excused
  BY DEF ghosts
<1>3. Renders(e)
  <2> SUFFICES ASSUME NEW r \in Queries
               PROVE  /\ e[r] \in Entry(Answers(r))
                      /\ ~excused[r] => Newer(e[r], own[r])
                      /\ r \in Observed(entry, page) /\ ~excused[r] => Shows(e[r], own[r])
    BY <1>2 DEF Renders
  <2>1. CASE r = q
    BY <2>1 DEF ClientInv
  <2>2. CASE r # q
    BY <2>2 DEF ClientInv
  <2> QED
    BY <2>1, <2>2
<1> HIDE DEF e
<1> QED
  BY <1>1, <1>3, RenderStep

\* A fetch that failed shows its error.
LEMMA FailStep ==
  ASSUME ClientInv, UNCHANGED ghosts, NEW q \in Queries, Change(q, Fail(entry[q]))
  PROVE  ClientInv'
<1>1. entry[q] \in Entry(Answers(q))
  BY DEF ClientInv
<1>2. Fail(entry[q]) \in Entry(Answers(q)) /\ Fail(entry[q]).error /\ Fail(entry[q]).fetch = "none"
  BY <1>1, EntryOps DEF Fail, Entry
<1>3. Newer(Fail(entry[q]), own[q]) /\ Shows(Fail(entry[q]), own[q])
  BY <1>2 DEF Newer, Shows
<1> QED
  BY <1>2, <1>3, ChangeStep

\* What is read now has seen every write.
LEMMA SeenIsNew ==
  ASSUME RowsTypeOK, NEW q \in Queries
  PROVE  Seen(q) \in Answers(q) /\ Seen(q).write = writes
<1>1. writes \in Nat /\ Seen(q) = [row |-> RowOf(q), write |-> writes]
  BY DEF Seen, RowsTypeOK
<1>2. RowOf(q) \in RowsOf(q)
  <2>1. CASE q = "list"
    BY <2>1 DEF RowOf, RowsOf, RowsTypeOK, WebhookTypeOK
  <2>2. CASE q \in {"workflow", "versions"}
    BY <2>2 DEF RowOf, RowsOf, RowsTypeOK
  <2>3. CASE q = "webhook"
    <3>1. webhook \in [token : Nat, enabled : BOOLEAN] \cup {None}
      BY DEF RowsTypeOK, WebhookTypeOK
    <3> QED
      BY <2>3, <3>1 DEF RowOf, RowsOf
  <2>4. CASE q = "schedule"
    BY <2>4 DEF RowOf, RowsOf, RowsTypeOK
  <2> QED
    BY <2>1, <2>2, <2>3, <2>4 DEF Queries
<1> QED
  BY <1>1, <1>2 DEF Answers

\* The keys of the server's cache are typed, and as new as the page's own writes.
KeyOK(q, k) == k \in [value : Answers(q) \cup {None}, inHand : Answers(q) \cup {None}]
KeysInv ==
  /\ DOMAIN cached = Cached /\ \A q \in Cached : KeyOK(q, cached[q])
  /\ own \in [Queries -> Nat] /\ excused \in [Queries -> BOOLEAN]
  /\ \A q \in Queries : own[q] <= writes
  /\ \A q \in Cached : ~excused[q] => KeyNewer(cached[q], own[q])

\* A key's operations: what is stored has been read, what is read is new.
LEMMA KeyOps ==
  ASSUME NEW q \in Cached, NEW k, KeyOK(q, k), NEW w, KeyNewer(k, w)
  PROVE  /\ KeyOK(q, Redis!Delete(k)) /\ KeyNewer(Redis!Delete(k), w)
         /\ KeyOK(q, Redis!Store(k)) /\ KeyNewer(Redis!Store(k), w)
         /\ \A value \in Answers(q) : value.write >= w =>
              KeyOK(q, Redis!ReadRow(k, value)) /\ KeyNewer(Redis!ReadRow(k, value), w)
BY DEF KeyOK, KeyNewer, Redis!Delete, Redis!Store, Redis!ReadRow

\* The operations keep the type of an excused key, too.
LEMMA KeyTypes ==
  ASSUME NEW q \in Cached, NEW k, KeyOK(q, k)
  PROVE  /\ KeyOK(q, Redis!Delete(k)) /\ KeyOK(q, Redis!Store(k))
         /\ \A value \in Answers(q) : KeyOK(q, Redis!ReadRow(k, value))
BY DEF KeyOK, Redis!Delete, Redis!Store, Redis!ReadRow

\* Every step keeps the keys so.
LEMMA KeysStep ==
  ASSUME KeysInv, OpsInv, RowsTypeOK, writes' \in Nat, writes' >= writes, [Next]_vars
  PROVE  KeysInv'
<1>0. writes \in Nat /\ Cached \subseteq Queries
  BY DEF RowsTypeOK, Cached, Queries
<1>1. ASSUME UNCHANGED ghosts,
             DOMAIN cached' = Cached,
             \A q \in Cached : KeyOK(q, cached'[q]) /\ (KeyNewer(cached[q], own[q]) => KeyNewer(cached'[q], own[q]))
      PROVE  KeysInv'
  <2>1. own' = own /\ excused' = excused
    BY <1>1 DEF ghosts
  <2>2. \A q \in Queries : own'[q] <= writes'
    BY <1>0, <2>1 DEF KeysInv
  <2> QED
    BY <1>0, <1>1, <2>1, <2>2 DEF KeysInv
<1>2. ASSUME UNCHANGED ghosts, UNCHANGED cached PROVE KeysInv'
  BY <1>1, <1>2 DEF KeysInv
<1>3. ASSUME UNCHANGED ghosts, NEW kind, DeleteKeys(kind) PROVE KeysInv'
  <2>1. /\ DOMAIN cached' = Cached
        /\ \A q \in Cached : cached'[q] \in {Redis!Delete(cached[q]), cached[q]}
    BY <1>3 DEF DeleteKeys
  <2>2. ASSUME NEW q \in Cached
        PROVE  KeyOK(q, cached'[q]) /\ (KeyNewer(cached[q], own[q]) => KeyNewer(cached'[q], own[q]))
    <3>1. KeyOK(q, cached[q])
      BY DEF KeysInv
    <3> QED
      BY <2>1, <3>1, KeyOps, KeyTypes
  <2> QED
    BY <1>1, <1>3, <2>1, <2>2
<1>4. ASSUME NEW q \in Cached, NEW k, InCache(q, k), KeyOK(q, k), KeyNewer(cached[q], own[q]) => KeyNewer(k, own[q])
      PROVE  KeysInv'
  <2>1. cached' = [cached EXCEPT ![q] = k] /\ UNCHANGED ghosts
    BY <1>4 DEF InCache
  <2>2. \A r \in Cached : cached'[r] = IF r = q THEN k ELSE cached[r]
    BY <2>1 DEF KeysInv
  <2>3. DOMAIN cached' = Cached
    BY <2>1 DEF KeysInv
  <2> QED
    BY <1>1, <1>4, <2>1, <2>2, <2>3 DEF KeysInv
<1>5. ASSUME NEW q \in Cached, ReadMissing(q) \/ StoreMissing(q) \/ ExpireKey(q) PROVE KeysInv'
  <2>1. KeyOK(q, cached[q]) /\ own[q] <= writes /\ q \in Queries /\ own[q] \in Nat
    BY <1>0 DEF KeysInv
  <2>2. Seen(q) \in Answers(q) /\ Seen(q).write >= own[q]
    BY <1>0, <2>1, SeenIsNew
  <2>3. PICK k \in {Redis!ReadRow(cached[q], Seen(q)), Redis!Store(cached[q]), Redis!Delete(cached[q])} : InCache(q, k)
    BY <1>5 DEF ReadMissing, StoreMissing, ExpireKey
  <2>4. KeyOK(q, k)
    BY <2>1, <2>2, <2>3, KeyTypes
  <2>5. KeyNewer(cached[q], own[q]) => KeyNewer(k, own[q])
    BY <2>1, <2>2, <2>3, KeyOps
  <2> QED
    BY <1>4, <2>3, <2>4, <2>5
<1>6. ASSUME NEW kind \in Kinds, Succeed(kind) PROVE KeysInv'
  <2> DEFINE write == op[kind].write
  <2>1. /\ own' = [q \in Queries |-> IF q \in Affects(kind) THEN write ELSE own[q]]
        /\ excused' = [q \in Queries |->
             IF q \in Affects(kind) THEN Joins(q) \/ Overtaken(q, write) ELSE excused[q]]
        /\ UNCHANGED cached
    BY <1>6 DEF Succeed, serverVars
  <2>2. write \in Nat /\ write <= writes
    BY DEF OpsInv, OpsOK, OpOK
  <2>3. own' \in [Queries -> Nat] /\ \A q \in Queries : own'[q] <= writes'
    BY <1>0, <2>1, <2>2 DEF KeysInv
  <2>4. excused' \in [Queries -> BOOLEAN]
    BY <2>1 DEF KeysInv, Joins, Overtaken
  <2>5. ASSUME NEW q \in Cached, q \in Affects(kind), ~excused'[q] PROVE KeyNewer(cached[q], write)
    <3>1. ~Overtaken(q, write)
      BY <1>0, <2>1, <2>5
    <3>2. KeyOK(q, cached[q])
      BY DEF KeysInv
    <3>3. \A seen \in {cached[q].value, cached[q].inHand} \ {None} : seen.write \in Nat
      BY <3>2 DEF KeyOK, Answers
    <3> QED
      BY <2>2, <3>1, <3>3 DEF Overtaken, KeyNewer
  <2>6. ASSUME NEW q \in Cached, ~excused'[q] PROVE KeyNewer(cached'[q], own'[q])
    BY <1>0, <2>1, <2>5, <2>6 DEF KeysInv
  <2> QED
    BY <2>1, <2>3, <2>4, <2>6 DEF KeysInv
<1>7. CASE OtherMember
  BY <1>3, <1>7 DEF OtherMember, PageOnly
<1>8. ASSUME NEW kind \in Kinds, InvalidateKeys(kind) PROVE KeysInv'
  BY <1>3, <1>8 DEF InvalidateKeys, PageOnly
<1>9. ASSUME NEW kind \in Kinds, ReadRow(kind) \/ WriteRow(kind) \/ LoseRequest(kind) \/ ToastError(kind) PROVE KeysInv'
  BY <1>2, <1>9 DEF ReadRow, WriteRow, LoseRequest, ToastError, PageOnly, serverVars
<1>10. \/ Inbound /\ PageKept
       \/ \E p \in {"away", "list"} \cup TabKeys : Open(p)
       \/ \E q \in Queries : AnswerQuery(q) \/ SettleQuery(q) \/ FailQuery(q) \/ AgeQuery(q)
       \/ RetryList \/ (\E cron \in Crons, json \in BOOLEAN : TypeForm(cron, json)) \/ Click
       \/ UNCHANGED vars
       => UNCHANGED cached /\ UNCHANGED ghosts
  BY DEF PageKept, Open, AnswerQuery, SettleQuery, FailQuery, AgeQuery, CacheOnly, RetryList, TypeForm, Click, Request,
     serverVars, vars
<1> QED
  BY <1>2, <1>5, <1>6, <1>7, <1>8, <1>9, <1>10 DEF Next

\* A successful request asks again for what it changed, unless that is excused.
LEMMA SucceedStep ==
  ASSUME ClientInv, KeysInv, OpsInv, NEW kind \in Kinds, Succeed(kind)
  PROVE  ClientInv'
<1> DEFINE e == [q \in Queries |->
                   IF q \in Invalidates(kind)
                   THEN Invalidate(entry[q], q \in Observed(entry, page)) ELSE entry[q]]
           p == PageAfter(kind, op[kind].arg)
<1>1. Render(e, p)
  BY DEF Succeed
<1>2. p \in Pages
  <2>1. {"list", "away", "graph"} \subseteq Pages
    BY DEF Pages, TabKeys, TabQuery
  <2>2. page \in Pages
    BY DEF ClientInv
  <2> HIDE DEF p, Pages
  <2>3. p \in {"list", "away", "graph", page}
    BY DEF p, PageAfter
  <2> QED
    BY <2>1, <2>2, <2>3
<1>3. Affects(kind) \subseteq Invalidates(kind)
  BY DEF Affects, Invalidates, Kinds, WebhookOps, ScheduleOps, WorkflowOps
<1>4. Renders(e)
  <2> SUFFICES ASSUME NEW q \in Queries
               PROVE  /\ e[q] \in Entry(Answers(q))
                      /\ ~excused'[q] => Newer(e[q], own'[q])
                      /\ q \in Observed(entry, page) /\ ~excused'[q] => Shows(e[q], own'[q])
    BY Zenon DEF Renders
  <2> DEFINE w == op[kind].write
             active == q \in Observed(entry, page)
  <2>1. /\ own'[q] = IF q \in Affects(kind) THEN w ELSE own[q]
        /\ excused'[q] = IF q \in Affects(kind) THEN Joins(q) \/ Overtaken(q, w) ELSE excused[q]
    BY DEF Succeed
  <2>2. entry[q] \in Entry(Answers(q)) /\ (~excused[q] => Newer(entry[q], own[q]))
    BY DEF ClientInv
  <2>3. active \in BOOLEAN
    OBVIOUS
  <2>4. e[q] = IF q \in Invalidates(kind) THEN Invalidate(entry[q], active) ELSE entry[q]
    OBVIOUS
  <2>5. active /\ ~excused[q] => Shows(entry[q], own[q])
    BY DEF ClientInv
  <2>6. ~Joins(q) => entry[q].fetch = "none" \/ (HasData(entry[q]) /\ active)
    BY DEF Joins
  <2> HIDE DEF e, active, w
  <2>7. e[q] \in Entry(Answers(q))
    BY <2>2, <2>3, <2>4, EntryOps
  <2>8. CASE q \in Affects(kind)
    <3>1. e[q] = Invalidate(entry[q], active)
      BY <1>3, <2>4, <2>8
    <3>4. own'[q] = w /\ (~excused'[q] => ~Joins(q))
      BY <2>1, <2>8
    <3>2. ~excused'[q] => Newer(e[q], w)
      <4>1. ~Joins(q) => Newer(Invalidate(entry[q], active), w)
        BY <2>2, <2>3, <2>6, InvalidateNewer
      <4> QED
        BY <3>1, <3>4, <4>1
    <3>3. active => Shows(e[q], w)
      <4>1. active => Shows(Invalidate(entry[q], active), w)
        BY <2>2, <2>3, InvalidateNewer
      <4> QED
        BY <3>1, <4>1
    <3> QED
      BY <2>7, <3>4, <3>2, <3>3 DEF active
  <2>9. CASE q \notin Affects(kind) /\ q \in Invalidates(kind)
    <3>1. e[q] = Invalidate(entry[q], active) /\ own'[q] = own[q] /\ excused'[q] = excused[q]
      BY <2>1, <2>4, <2>9
    <3>2. ~excused[q] => Newer(e[q], own[q])
      BY <2>2, <2>3, <3>1, InvalidateNewer
    <3>3. active => Shows(e[q], own[q])
      BY <2>2, <2>3, <3>1, InvalidateNewer
    <3> QED
      BY <2>7, <3>1, <3>2, <3>3 DEF active
  <2>10. CASE q \notin Affects(kind) /\ q \notin Invalidates(kind)
    BY <2>1, <2>2, <2>4, <2>5, <2>7, <2>10 DEF active
  <2> QED
    BY <2>8, <2>9, <2>10
<1> HIDE DEF e, p
<1> QED
  BY <1>1, <1>2, <1>4, RenderStep

\* Every step keeps the browser so.
LEMMA ClientStep ==
  ASSUME ClientInv, KeysInv, OpsInv, RowsTypeOK, [Next]_vars
  PROVE  ClientInv'
<1>0. ASSUME NEW q \in Queries
      PROVE  entry[q] \in Entry(Answers(q)) /\ (~excused[q] => Newer(entry[q], own[q])) /\ own[q] <= writes
             /\ own[q] \in Nat /\ writes \in Nat
  BY DEF ClientInv, KeysInv, RowsTypeOK
<1>1. ASSUME UNCHANGED <<page, entry, form, ghosts>> PROVE ClientInv'
  BY <1>1 DEF ghosts, ClientInv
<1>2. ASSUME NEW p \in Pages, Open(p) PROVE ClientInv'
  <2>1. Render(entry, p) /\ UNCHANGED ghosts
    BY <1>2 DEF Open
  <2>2. Renders(entry)
    BY <2>1 DEF Renders, ClientInv, ghosts
  <2> QED
    BY <2>1, <2>2, RenderStep
<1>3. ASSUME NEW q \in Queries, AnswerQuery(q) PROVE ClientInv'
  <2>1. UNCHANGED ghosts
    BY <1>3 DEF AnswerQuery, CacheOnly
  <2>2. ASSUME NEW value \in Answers(q), ~excused[q] => value.write >= own[q], Change(q, Answer(entry[q], value))
        PROVE  ClientInv'
    <3>1. /\ Answer(entry[q], value) \in Entry(Answers(q))
          /\ Answer(entry[q], value).fetch = "answered" /\ Answer(entry[q], value).answer = value
      <4>1. entry[q] \in Entry(Answers(q))
        BY <1>0
      <4> QED
        BY <4>1, EntryOps DEF Answer, Entry
    <3>2. ~excused[q] => Newer(Answer(entry[q], value), own[q])
      BY <2>2, <3>1 DEF Newer
    <3>3. Shows(Answer(entry[q], value), own[q])
      BY <3>1 DEF Shows
    <3> QED
      BY <2>1, <2>2, <3>1, <3>2, <3>3, ChangeStep
  <2>3. ASSUME Change(q, Fail(entry[q])) PROVE ClientInv'
    BY <2>1, <2>3, FailStep
  <2>4. CASE InStore(q) /\ Change(q, Answer(entry[q], cached[q].value))
    <3>1. cached[q].value \in Answers(q) /\ cached[q].value # None
      BY <2>4 DEF KeysInv, KeyOK, InStore, Redis!Hit
    <3>2. ~excused[q] => cached[q].value.write >= own[q]
      BY <2>4, <3>1 DEF KeysInv, KeyNewer, InStore
    <3> QED
      BY <2>2, <2>4, <3>1, <3>2
  <2>5. CASE Change(q, Answer(entry[q], Seen(q)))
    <3>1. Seen(q) \in Answers(q) /\ Seen(q).write >= own[q]
      BY <1>0, SeenIsNew
    <3> QED
      BY <2>2, <2>5, <3>1
  <2> QED
    BY <1>3, <2>3, <2>4, <2>5 DEF AnswerQuery
<1>4. ASSUME NEW q \in Queries, SettleQuery(q) PROVE ClientInv'
  <2>1. UNCHANGED ghosts /\ Change(q, Settle(entry[q])) /\ entry[q].fetch = "answered"
    BY <1>4 DEF SettleQuery, CacheOnly
  <2>2. Settle(entry[q]) \in Entry(Answers(q)) /\ Settle(entry[q]).data = entry[q].answer
        /\ Settle(entry[q]).fetch = "none"
    BY <1>0, EntryOps DEF Settle, EmptyEntry
  <2>3. ~excused[q] => Settle(entry[q]).data.write >= own[q]
    BY <1>0, <2>1, <2>2 DEF Newer
  <2>4. ~excused[q] => Newer(Settle(entry[q]), own[q]) /\ Shows(Settle(entry[q]), own[q])
    BY <2>2, <2>3 DEF Newer, Shows
  <2> QED
    BY <2>1, <2>2, <2>4, ChangeStep
<1>5. ASSUME NEW q \in Queries, FailQuery(q) PROVE ClientInv'
  <2>1. UNCHANGED ghosts /\ Change(q, Fail(entry[q]))
    BY <1>5 DEF FailQuery, CacheOnly
  <2> QED
    BY <2>1, FailStep
<1>6. ASSUME NEW q \in Queries, AgeQuery(q) PROVE ClientInv'
  <2> DEFINE d == [entry[q] EXCEPT !.stale = TRUE]
  <2>1. UNCHANGED ghosts /\ Change(q, d) /\ q \notin Observed(entry, page)
    BY <1>6 DEF AgeQuery, CacheOnly
  <2>2. d \in Entry(Answers(q)) /\ d.stale /\ d.fetch = entry[q].fetch /\ d.answer = entry[q].answer
    BY <1>0 DEF Entry
  <2> HIDE DEF d
  <2>3. ~excused[q] => Newer(d, own[q])
    BY <1>0, <2>2 DEF Newer
  <2> QED
    BY <2>1, <2>2, <2>3, ChangeStep
<1>7. CASE RetryList
  <2>1. UNCHANGED ghosts /\ Change("list", Refetch(entry["list"])) /\ "list" \in Queries
    BY <1>7 DEF RetryList, CacheOnly, Queries
  <2>2. entry["list"] \in Entry(Answers("list")) /\ (~excused["list"] => Newer(entry["list"], own["list"]))
    BY <1>0, <2>1
  <2>3. Refetch(entry["list"]) \in Entry(Answers("list"))
    BY <2>2, EntryOps
  <2>4. /\ ~excused["list"] => Newer(Refetch(entry["list"]), own["list"])
        /\ Shows(Refetch(entry["list"]), own["list"])
    BY <2>2, FetchNewer DEF Shows
  <2> QED
    BY <2>1, <2>3, <2>4, ChangeStep
<1>8. ASSUME NEW cron \in Crons, NEW json \in BOOLEAN, TypeForm(cron, json) PROVE ClientInv'
  <2>1. UNCHANGED <<page, entry, ghosts>> /\ form' \in Forms
    BY <1>8 DEF TypeForm, CacheOnly, Forms
  <2> QED
    BY <2>1 DEF ghosts, ClientInv
<1>9. ASSUME NEW kind \in Kinds, Succeed(kind) PROVE ClientInv'
  BY <1>9, SucceedStep
<1>10. ASSUME NEW kind \in Kinds,
              ReadRow(kind) \/ WriteRow(kind) \/ InvalidateKeys(kind) \/ LoseRequest(kind) \/ ToastError(kind)
       PROVE  UNCHANGED <<page, entry, form, ghosts>>
  BY <1>10 DEF ReadRow, WriteRow, InvalidateKeys, LoseRequest, ToastError, PageOnly
<1>11. Click \/ OtherMember \/ (Inbound /\ PageKept) \/ UNCHANGED vars => UNCHANGED <<page, entry, form, ghosts>>
  BY DEF Click, Request, OtherMember, PageOnly, PageKept, vars
<1>12. ASSUME NEW q \in Cached, ReadMissing(q) \/ StoreMissing(q) \/ ExpireKey(q)
       PROVE  UNCHANGED <<page, entry, form, ghosts>>
  BY <1>12 DEF ReadMissing, StoreMissing, ExpireKey, InCache
<1> QED
  BY <1>1, <1>2, <1>3, <1>4, <1>5, <1>6, <1>7, <1>8, <1>9, <1>10, <1>11, <1>12 DEF Next, Pages

-----------------------------------------------------------------------------
(* The theorems. *)

\* The bounds, by themselves.
BoundsOK == faults \in 0..MaxFaults /\ visits \in 0..MaxVisits /\ ops \in 0..MaxOps

\* The inductive invariant in the parts its proof is about.
Parts == RowsTypeOK /\ ServerInv /\ OpsInv /\ KeysInv /\ ClientInv /\ BoundsOK

\* The parts are the whole.
LEMMA PartsAreAll == Parts <=> IndInv
<1>1. OwnChangeShown <=> \A q \in Observed(entry, page) : ~excused[q] => Shows(entry[q], own[q])
  BY DEF OwnChangeShown, ShowsOwn, Shows
<1>2. Cached \subseteq Queries
  BY DEF Cached, Queries
<1>3. FreshInv <=>
        /\ \A k \in Kinds : op[k].write <= writes
        /\ \A q \in Queries : own[q] <= writes
        /\ \A q \in Queries : ~excused[q] => Newer(entry[q], own[q])
        /\ \A q \in Cached : ~excused[q] => KeyNewer(cached[q], own[q])
        /\ OwnChangeShown
  BY <1>2 DEF FreshInv
<1>4. PageTypeOK <=>
        /\ RowsTypeOK /\ OpsOK /\ BoundsOK
        /\ DOMAIN entry = Queries /\ \A q \in Queries : entry[q] \in Entry(Answers(q))
        /\ page \in Pages /\ form \in Forms
        /\ DOMAIN cached = Cached /\ \A q \in Cached : KeyOK(q, cached[q])
        /\ own \in [Queries -> Nat] /\ excused \in [Queries -> BOOLEAN]
  BY DEF PageTypeOK, CacheTypeOK, OpsOK, BoundsOK, Pages, Forms, KeyOK
<1> QED
  BY <1>1, <1>3, <1>4 DEF Parts, IndInv, OpsInv, KeysInv, ClientInv

\* The bounds hold.
LEMMA BoundsStep == ASSUME BoundsOK, [Next]_vars PROVE BoundsOK'
<1> USE PageAssumption DEF BoundsOK
<1>1. /\ faults' = faults \/ (faults < MaxFaults /\ faults' = faults + 1)
      /\ visits' = visits \/ (visits < MaxVisits /\ visits' = visits + 1)
      /\ ops' = ops \/ (ops < MaxOps /\ ops' = ops + 1)
  <2>1. ASSUME UNCHANGED bounds PROVE <1>1
    BY <2>1 DEF bounds
  <2>2. CASE Click
    BY <2>2 DEF Click, Request
  <2>3. ASSUME NEW kind, ReadRow(kind) \/ WriteRow(kind) \/ InvalidateKeys(kind) \/ LoseRequest(kind) \/ ToastError(kind)
        PROVE  <1>1
    BY <2>3 DEF ReadRow, WriteRow, InvalidateKeys, LoseRequest, ToastError, PageOnly, Fault
  <2>4. CASE OtherMember
    BY <2>4 DEF OtherMember, PageOnly, Fault
  <2>5. ASSUME NEW q, AnswerQuery(q) \/ SettleQuery(q) \/ FailQuery(q) \/ AgeQuery(q) PROVE <1>1
    BY <2>5 DEF AnswerQuery, SettleQuery, FailQuery, AgeQuery, CacheOnly, Fault
  <2>6. RetryList \/ (\E cron \in Crons, json \in BOOLEAN : TypeForm(cron, json)) => UNCHANGED bounds
    BY DEF RetryList, TypeForm, CacheOnly, bounds
  <2>7. ASSUME NEW p, Open(p) PROVE <1>1
    BY <2>7 DEF Open
  <2>8. ASSUME NEW q, ReadMissing(q) \/ StoreMissing(q) \/ ExpireKey(q) PROVE UNCHANGED bounds
    BY <2>8 DEF ReadMissing, StoreMissing, ExpireKey, InCache
  <2>9. ASSUME NEW kind, Succeed(kind) PROVE UNCHANGED bounds
    BY <2>9 DEF Succeed
  <2>10. (Inbound /\ PageKept) \/ UNCHANGED vars => UNCHANGED bounds
    BY DEF PageKept, vars
  <2> QED
    BY <2>1, <2>2, <2>3, <2>4, <2>5, <2>6, <2>7, <2>8, <2>9, <2>10 DEF Next
<1> QED
  BY <1>1

\* The initial state has no call, request, answer or key.
LEMMA InitParts == Init => Parts
<1> SUFFICES ASSUME Init PROVE Parts
  OBVIOUS
<1>1. RowsTypeOK
  <2>0. Row(1, TRUE) \in RowsWith(1) /\ None \in RowsWith(1)
    BY DEF Row, RowsWith
  <2>1. webhook \in RowsWith(1) /\ tokens = 1
    BY <2>0 DEF Init, WebhookInit
  <2>2. NewCall \in CallSet(1)
    BY DEF NewCall, CallSet
  <2> HIDE DEF NewCall
  <2>3. call \in [Calls -> CallSet(1)]
    BY <2>2 DEF Init, WebhookInit
  <2>4. schedule \in Schedules \cup {None}
    <3>1. Schedule(Default, TRUE) \in Schedules
      BY PageAssumption DEF Schedule, Schedules
    <3> QED
      BY <3>1 DEF Init
  <2> QED
    BY <2>1, <2>3, <2>4 DEF Init, WebhookInit, RowsTypeOK, WebhookTypeOK, RowsWith, CallSet
<1>2. ServerInv
  BY DEF Init, WebhookInit, NewCall, ServerInv, NothingOutlivesWorkflow, CallsInv
<1>3. OpsInv
  <2>1. \A k \in Kinds : OpOK(k, Idle) /\ Idle.write = 0
    BY NoneSeen DEF OpOK, Idle, Stages
  <2> HIDE DEF Idle
  <2> QED
    BY <2>1 DEF Init, OpsInv, OpsOK
<1>4. KeysInv
  <2>1. \A q \in Cached : KeyOK(q, Redis!EmptyKey) /\ KeyNewer(Redis!EmptyKey, 0)
    BY DEF KeyOK, KeyNewer, Redis!EmptyKey
  <2>2. Cached \subseteq Queries
    BY DEF Cached, Queries
  <2> QED
    BY <2>1, <2>2 DEF Init, KeysInv
<1>5. ClientInv
  <2>1. \A q \in Queries : EmptyEntry \in Entry(Answers(q)) /\ Newer(EmptyEntry, 0)
    BY DEF Entry, EmptyEntry, Newer, HasData
  <2>2. NewForm \in Forms
    BY PageAssumption DEF NewForm, Forms
  <2>3. Observed(entry, page) = {} /\ page \in Pages
    BY DEF Init, Observed, Pages
  <2> HIDE DEF EmptyEntry, NewForm
  <2> QED
    BY <2>1, <2>2, <2>3 DEF Init, ClientInv
<1>6. BoundsOK
  BY PageAssumption DEF Init, BoundsOK
<1> QED
  BY <1>1, <1>2, <1>3, <1>4, <1>5, <1>6 DEF Parts

\* Every step keeps every part; a token that appears is new.
LEMMA PartsStep == ASSUME Parts, [Next]_vars PROVE Parts' /\ FreshToken
<1> USE DEF Parts
<1>1. OpsOK
  BY DEF OpsInv
<1>2. RowsTypeOK' /\ ServerInv' /\ FreshToken /\ writes' >= writes
  BY <1>1, ServerStep
<1>3. writes' \in Nat
  BY <1>2 DEF RowsTypeOK
<1>4. form.cron \in Crons
  BY DEF ClientInv, Forms
<1>5. OpsInv'
  BY <1>2, <1>3, <1>4, OpsStep
<1>6. KeysInv'
  BY <1>2, <1>3, KeysStep
<1>7. ClientInv'
  BY ClientStep
<1>8. BoundsOK'
  BY BoundsStep
<1> QED
  BY <1>2, <1>5, <1>6, <1>7, <1>8

\* The parts hold in every behaviour.
THEOREM PartsInvariance == Spec => []Parts
<1>1. Init => Parts
  BY InitParts
<1>2. Parts /\ [Next]_vars => Parts'
  BY PartsStep
<1> QED
  BY <1>1, <1>2, PTL DEF Spec

\* The rows, the endpoint's calls, the requests, the server's keys and the
\* browser's entries keep their types, and IndInv its other parts, whatever the
\* owners, another member, the callers and the failures do, and in any number.
THEOREM Invariance == Spec => []IndInv
<1>1. Parts => IndInv
  BY PartsAreAll
<1> QED
  BY <1>1, PartsInvariance, PTL

\* A call to the webhook's URL starts a run only if its token was an enabled
\* webhook's at some time since the call arrived: a URL that was disabled,
\* deleted or replaced before that starts none.
THEOREM RunsNeedLiveWebhook == Spec => []RunFromLiveWebhook
<1>1. IndInv => RunFromLiveWebhook
  BY DEF IndInv, ServerInv, CallsInv, RunFromLiveWebhook
<1> QED
  BY <1>1, Invariance, PTL

\* No handler that was under way gives a deleted workflow a webhook or a
\* schedule again.
THEOREM NothingOutlives == Spec => []NothingOutlivesWorkflow
<1>1. IndInv => NothingOutlivesWorkflow
  BY DEF IndInv, ServerInv
<1> QED
  BY <1>1, Invariance, PTL

\* A token that was replaced or deleted is never a webhook's again, however
\* toggles, regenerations, deletions and creations overlap.
THEOREM TokensAreNew == Spec => TokensNeverReturn
<1>1. Parts /\ [Next]_vars => [FreshToken]_vars
  BY PartsStep
<1>2. TokensNeverReturn <=> [][FreshToken]_vars
  BY PTL DEF TokensNeverReturn, FreshToken
<1> QED
  BY <1>1, <1>2, PartsInvariance, PTL DEF Spec

\* What the page shows when nothing is loading has seen the page's own changes,
\* unless a fetch it could not cancel, or a row the server had read before, came
\* between.
THEOREM OwnChangesAreShown == Spec => []OwnChangeShown
<1>1. IndInv => OwnChangeShown
  BY DEF IndInv, FreshInv
<1> QED
  BY <1>1, Invariance, PTL

=============================================================================
