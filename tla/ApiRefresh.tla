----------------------------- MODULE ApiRefresh -----------------------------
(***************************************************************************)
(* The client's API access (client/lib/api.ts): every request carries the  *)
(* access token; the first 401 starts one refresh, further 401s wait for   *)
(* it, and all are replayed with the new token or rejected with the old    *)
(* error.  Responses come in any order, tokens expire at any time, the     *)
(* session may end at the server, and the user may log out meanwhile       *)
(* (client/providers/auth-provider.tsx).                                   *)
(*                                                                         *)
(* JavaScript runs one callback at a time: each response is one step.      *)
(*                                                                         *)
(* One tab, from a login on.  The start of the page, whose fetchMe also    *)
(* drops the token when it fails, and other tabs are left out.             *)
(***************************************************************************)
EXTENDS Naturals

CONSTANTS
  Requests,   \* API calls of the page, each sent once (and replayed)
  None,       \* no access token
  MaxTokens   \* bound: access tokens ever issued

Tokens == 1 .. MaxTokens

ASSUME ApiRefreshAssumption ==
  /\ MaxTokens \in Nat \ {0}
  /\ None \notin Tokens

VARIABLES
  state,        \* of each request
  carries,      \* its Authorization header
  retry,        \* originalRequest._retry
  isRefreshing,
  refreshQueue, \* requests whose promise waits for the refresh
  stored,       \* localStorage accessToken
  header,       \* api.defaults.headers.common.Authorization
  valid,        \* tokens the server still accepts
  issued,       \* the token issued last
  session,      \* the refresh token is in the database
  logout        \* of the user: "none", "revoked" at the server, "done"

vars == <<state, carries, retry, isRefreshing, refreshQueue, stored, header,
          valid, issued, session, logout>>
serverVars == <<valid, issued, session>>

\* "granted" and "refused": the answer to its refresh is on the way back.
Refreshing == {"refreshing", "granted", "refused"}

TypeOK ==
  /\ state \in [Requests -> {"idle", "sent", "queued", "ok", "failed"} \cup Refreshing]
  /\ carries \in [Requests -> Tokens \cup {None}]
  /\ retry \in [Requests -> BOOLEAN]
  /\ isRefreshing \in BOOLEAN
  /\ refreshQueue \subseteq Requests
  /\ stored \in Tokens \cup {None}
  /\ header \in Tokens \cup {None}
  /\ valid \subseteq Tokens
  /\ issued \in Tokens
  /\ session \in BOOLEAN
  /\ logout \in {"none", "revoked", "done"}

\* Logged in: setToken has put the first token into both places.
Init ==
  /\ state = [r \in Requests |-> "idle"]
  /\ carries = [r \in Requests |-> None]
  /\ retry = [r \in Requests |-> FALSE]
  /\ isRefreshing = FALSE
  /\ refreshQueue = {}
  /\ stored = 1 /\ header = 1
  /\ valid = {1} /\ issued = 1 /\ session = TRUE
  /\ logout = "none"

-----------------------------------------------------------------------------
(* Requests and their responses.                                           *)

\* The default header wins over the request interceptor's stored token.
Send(r) ==
  /\ state[r] = "idle"
  /\ state' = [state EXCEPT ![r] = "sent"]
  /\ carries' = [carries EXCEPT ![r] = IF header # None THEN header ELSE stored]
  /\ UNCHANGED <<retry, isRefreshing, refreshQueue, stored, header, serverVars, logout>>

Unauthorized(r) == state[r] = "sent" /\ carries[r] \notin valid

Succeed(r) ==
  /\ state[r] = "sent" /\ carries[r] \in valid
  /\ state' = [state EXCEPT ![r] = "ok"]
  /\ UNCHANGED <<carries, retry, isRefreshing, refreshQueue, stored, header, serverVars, logout>>

\* 401 while another request refreshes.
WaitForRefresh(r) ==
  /\ Unauthorized(r) /\ ~retry[r] /\ isRefreshing
  /\ state' = [state EXCEPT ![r] = "queued"]
  /\ refreshQueue' = refreshQueue \cup {r}
  /\ UNCHANGED <<carries, retry, isRefreshing, stored, header, serverVars, logout>>

StartRefreshLate(r) == \* mutant: the flag is set after the first await
  /\ Unauthorized(r) /\ ~retry[r] /\ ~isRefreshing
  /\ state' = [state EXCEPT ![r] = "refreshing"]
  /\ retry' = [retry EXCEPT ![r] = TRUE]
  /\ UNCHANGED <<carries, isRefreshing, refreshQueue, stored, header, serverVars, logout>>
StartRefresh(r) ==
  /\ Unauthorized(r) /\ ~retry[r] /\ ~isRefreshing
  /\ state' = [state EXCEPT ![r] = "refreshing"]
  /\ retry' = [retry EXCEPT ![r] = TRUE]
  /\ isRefreshing' = TRUE
  /\ UNCHANGED <<carries, refreshQueue, stored, header, serverVars, logout>>

\* 401 of a replay, any other error status, or no response at all.
Reject(r) ==
  /\ state[r] = "sent"
  /\ state' = [state EXCEPT ![r] = "failed"]
  /\ UNCHANGED <<carries, retry, isRefreshing, refreshQueue, stored, header, serverVars, logout>>

RefreshSucceedsKeepingQueue(r) == \* mutant: the queue is emptied before it is drained
  /\ state[r] = "granted"
  /\ stored' = issued /\ header' = issued
  /\ carries' = [carries EXCEPT ![r] = issued]
  /\ state' = [state EXCEPT ![r] = "sent"]
  /\ refreshQueue' = {} /\ isRefreshing' = FALSE
  /\ UNCHANGED <<retry, serverVars, logout>>
\* The new token is stored; the refresher and everyone waiting are replayed.
RefreshSucceeds(r) ==
  /\ state[r] = "granted"
  /\ stored' = issued /\ header' = issued
  /\ carries' = [q \in Requests |-> IF q \in refreshQueue \cup {r} THEN issued ELSE carries[q]]
  /\ state' = [q \in Requests |-> IF q \in refreshQueue \cup {r} THEN "sent" ELSE state[q]]
  /\ refreshQueue' = {} /\ isRefreshing' = FALSE
  /\ UNCHANGED <<retry, serverVars, logout>>

\* The tokens are dropped; the refresher and everyone waiting are rejected.
RefreshFails(r) ==
  /\ state[r] = "refused"
  /\ stored' = None /\ header' = None
  /\ state' = [q \in Requests |-> IF q \in refreshQueue \cup {r} THEN "failed" ELSE state[q]]
  /\ refreshQueue' = {} /\ isRefreshing' = FALSE
  /\ UNCHANGED <<carries, retry, serverVars, logout>>

-----------------------------------------------------------------------------
(* The server and the user.                                                *)

\* AuthService.refresh: a new access token for a refresh token it still has.
\* The refresh may also fail on the way.
AnswerRefresh(r) ==
  /\ state[r] = "refreshing"
  /\ \/ /\ session /\ issued < MaxTokens
        /\ issued' = issued + 1 /\ valid' = valid \cup {issued + 1}
        /\ state' = [state EXCEPT ![r] = "granted"]
     \/ /\ state' = [state EXCEPT ![r] = "refused"]
        /\ UNCHANGED <<issued, valid>>
  /\ UNCHANGED <<carries, retry, isRefreshing, refreshQueue, stored, header, session, logout>>

Expire(t) ==
  /\ t \in valid
  /\ valid' = valid \ {t}
  /\ UNCHANGED <<state, carries, retry, isRefreshing, refreshQueue, stored, header, issued, session, logout>>

\* The refresh token expires or is revoked.
EndSession ==
  /\ session
  /\ session' = FALSE
  /\ UNCHANGED <<state, carries, retry, isRefreshing, refreshQueue, stored, header, valid, issued, logout>>

\* logout: the server forgets the refresh token, then the client its tokens.
LogoutAtServer ==
  /\ logout = "none"
  /\ logout' = "revoked" /\ session' = FALSE
  /\ UNCHANGED <<state, carries, retry, isRefreshing, refreshQueue, stored, header, valid, issued>>

LogoutAtClient ==
  /\ logout = "revoked"
  /\ logout' = "done"
  /\ stored' = None /\ header' = None
  /\ UNCHANGED <<state, carries, retry, isRefreshing, refreshQueue, serverVars>>

Answer(r) ==
  \/ Succeed(r) \/ WaitForRefresh(r) \/ StartRefresh(r) \/ Reject(r)
  \/ AnswerRefresh(r) \/ RefreshSucceeds(r) \/ RefreshFails(r)

Next ==
  \/ \E r \in Requests : Send(r) \/ Answer(r)
  \/ \E t \in Tokens : Expire(t)
  \/ EndSession \/ LogoutAtServer \/ LogoutAtClient

Spec == Init /\ [][Next]_vars

\* Every request that was sent gets an answer (or a network error), and so
\* does every refresh; the page need not send, tokens need not expire.
FairSpec == Spec /\ \A r \in Requests : WF_vars(Answer(r))

-----------------------------------------------------------------------------
(* Properties.                                                             *)

\* At most one refresh is under way, and isRefreshing says whether.
SingleRefresh ==
  /\ isRefreshing <=> \E r \in Requests : state[r] \in Refreshing
  /\ \A q, r \in Requests : state[q] \in Refreshing /\ state[r] \in Refreshing => q = r

\* Nobody waits for a refresh that is over, and nobody waits outside the queue.
NoLostWaiter ==
  /\ \A r \in Requests : state[r] = "queued" <=> r \in refreshQueue
  /\ refreshQueue # {} => isRefreshing

\* The default header and the stored token change together: no request goes
\* out with a token the page has dropped.
TokensAgree == header = stored

\* Every request that was sent is answered.
EveryRequestSettles ==
  \A r \in Requests : state[r] = "sent" ~> state[r] \in {"ok", "failed"}

\* While the page holds a token, only a request that carried this token starts
\* a refresh: of the calls that fail with one token, one refreshes it.
OneRefreshPerToken ==
  [][\A r \in Requests :
       state[r] = "sent" /\ state'[r] = "refreshing" /\ stored # None => carries[r] = stored]_vars

\* What the proofs show to be inductive.
IndInv == TypeOK /\ SingleRefresh /\ NoLostWaiter /\ TokensAgree

=============================================================================
