------------------------------ MODULE Webhook ------------------------------
(***************************************************************************)
(* The inbound webhook of one workflow: its row, and the public endpoint   *)
(* that triggers a run by the row's token                                  *)
(* (server/api/webhook/webhook.service.ts).  The owners' requests are in   *)
(* WorkflowPage, the limiter in front of the endpoint in RateLimiter, the  *)
(* run in Orchestrator.  Tokens are numbered as they are generated.        *)
(***************************************************************************)
EXTENDS Naturals

CONSTANTS
  Calls,  \* external POSTs to /api/webhooks/trigger/:token
  None

VARIABLES
  exists,   \* the workflow's row is there
  webhook,  \* its webhook's row, or None
  tokens,   \* how many tokens have been generated
  call      \* where each call has got to

webhookVars == <<exists, webhook, tokens, call>>

Row(token, enabled) == [token |-> token, enabled |-> enabled]
Enabled(row, token) == row # None /\ row.token = token /\ row.enabled

\* A ghost, "live", says the call's token was an enabled webhook's at some time
\* between its arrival and its run.
NewCall == [at |-> "idle", token |-> 0, run |-> FALSE, answer |-> None, live |-> FALSE]

WebhookTypeOK ==
  /\ exists \in BOOLEAN /\ tokens \in Nat
  /\ webhook \in [token : 1..tokens, enabled : BOOLEAN] \cup {None}
  /\ call \in [Calls -> [at : {"idle", "arrived", "found", "started", "done"},
                         token : 0..tokens, run : BOOLEAN, live : BOOLEAN,
                         answer : {"ok", "not_found", "disabled", "error", None}]]

WebhookInit ==
  /\ exists = TRUE /\ webhook \in {None, Row(1, TRUE)} /\ tokens = 1
  /\ call = [c \in Calls |-> NewCall]

\* The row is written; the calls under way learn of it by the ghost alone.
SetWebhook(row) ==
  /\ webhook' = row
  /\ call' = [c \in Calls |->
       [call[c] EXCEPT !.live = @ \/ (call[c].at \in {"arrived", "found"}
                                     /\ Enabled(row, call[c].token))]]

Goes(c, stage) == call' = [call EXCEPT ![c].at = stage]

\* A call that is answered has no use for its token, nor for the ghost if it has
\* started no run.
Reply(c, answer) ==
  call' = [call EXCEPT ![c].at = "done", ![c].token = 0, ![c].answer = answer,
                       ![c].live = @ /\ call[c].run]

\* The limiter lets the call through.
Arrive(c, token) ==
  /\ call[c].at = "idle"
  /\ call' = [call EXCEPT ![c].at = "arrived", ![c].token = token,
                          ![c].live = Enabled(webhook, token)]

\* A plausible mistake: the switch is not looked at.
FindWithoutSwitch(c) ==
  /\ call[c].at = "arrived"
  /\ IF webhook # None /\ webhook.token = call[c].token
     THEN Goes(c, "found") ELSE Reply(c, "not_found")

FindByToken(c) ==
  /\ call[c].at = "arrived"
  /\ CASE Enabled(webhook, call[c].token) -> Goes(c, "found")
       [] webhook = Row(call[c].token, FALSE) -> Reply(c, "disabled")
       [] OTHER -> Reply(c, "not_found")

\* The orchestrator looks the workflow up by the id that was read.
TriggerRun(c) ==
  /\ call[c].at = "found"
  /\ IF exists THEN call' = [call EXCEPT ![c].at = "started", ![c].run = TRUE]
               ELSE Reply(c, "not_found")

\* updateLastCalled finds its row by the token: there may be none by now, and
\* the call is answered with an error although its run has started.
UpdateLastCalled(c) ==
  /\ call[c].at = "started"
  /\ Reply(c, IF webhook # None /\ webhook.token = call[c].token THEN "ok" ELSE "error")

Inbound ==
  /\ \E c \in Calls :
       \/ \E token \in 1..tokens : Arrive(c, token)
       \/ FindByToken(c) \/ TriggerRun(c) \/ UpdateLastCalled(c)
  /\ UNCHANGED <<exists, webhook, tokens>>

-----------------------------------------------------------------------------

\* A run is only started for a call whose token was an enabled webhook's after
\* the call arrived: a URL that was disabled, deleted or replaced starts none.
RunFromLiveWebhook == \A c \in Calls : call[c].run => call[c].live

(* What the endpoint does not keep (see the README). *)

\* A replaced, deleted or disabled URL starts no run any more.
StartsWhileLive ==
  [][\A c \in Calls : (~call[c].run /\ call'[c].run)
       => Enabled(webhook, call[c].token)]_webhookVars

\* The caller whose run has started is told so.
StartedIsOk == \A c \in Calls : call[c].run /\ call[c].at = "done" => call[c].answer = "ok"

-----------------------------------------------------------------------------
(* The inductive invariant. *)

\* A call that has found its webhook, or may yet, holds a token that was live.
CallsInv ==
  \A c \in Calls :
    /\ call[c].at = "arrived" /\ Enabled(webhook, call[c].token) => call[c].live
    /\ call[c].at = "found" => call[c].live
    /\ call[c].run => call[c].live
=============================================================================
