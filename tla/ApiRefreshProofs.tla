-------------------------- MODULE ApiRefreshProofs --------------------------
(***************************************************************************)
(* For any number of requests and tokens: one refresh at a time, nobody    *)
(* waits for a refresh that is over, and the page's two copies of the      *)
(* token agree.                                                            *)
(***************************************************************************)
EXTENDS ApiRefresh, TLAPS

\* Logging in establishes the invariant.
LEMMA InitInv == Init => IndInv
<1> SUFFICES ASSUME Init PROVE IndInv OBVIOUS
<1>1. 1 \in Tokens
  BY ApiRefreshAssumption DEF Tokens
<1>2. TypeOK
  BY <1>1 DEF Init, TypeOK
<1>3. SingleRefresh /\ NoLostWaiter /\ TokensAgree
  BY DEF Init, SingleRefresh, NoLostWaiter, TokensAgree, Refreshing
<1> QED BY <1>2, <1>3 DEF IndInv

\* A response that only ends its own request.
LEMMA AnswerInv ==
  ASSUME IndInv, NEW r \in Requests, Succeed(r) \/ Reject(r)
  PROVE  IndInv'
BY DEF IndInv, TypeOK, SingleRefresh, NoLostWaiter, TokensAgree, Refreshing,
       Succeed, Reject, serverVars

\* A 401: it waits, or it refreshes; the flag decides which.
LEMMA UnauthorizedInv ==
  ASSUME IndInv, NEW r \in Requests, WaitForRefresh(r) \/ StartRefresh(r)
  PROVE  IndInv'
<1>1. CASE WaitForRefresh(r)
  BY <1>1 DEF IndInv, TypeOK, SingleRefresh, NoLostWaiter, TokensAgree, Refreshing,
              WaitForRefresh, Unauthorized, serverVars
<1>2. CASE StartRefresh(r)
  <2>1. \A q \in Requests : state[q] \notin Refreshing
    BY <1>2 DEF IndInv, SingleRefresh, StartRefresh
  <2>2. state' = [state EXCEPT ![r] = "refreshing"] /\ state[r] = "sent"
    BY <1>2 DEF StartRefresh, Unauthorized
  <2>3. SingleRefresh'
    BY <1>2, <2>1, <2>2 DEF IndInv, TypeOK, SingleRefresh, Refreshing, StartRefresh
  <2> QED
    BY <1>2, <2>2, <2>3 DEF IndInv, TypeOK, NoLostWaiter, TokensAgree, Refreshing,
                            StartRefresh, serverVars
<1> QED BY <1>1, <1>2

\* The end of the refresh is the end of every wait.
LEMMA RefreshEndsInv ==
  ASSUME IndInv, NEW r \in Requests, RefreshSucceeds(r) \/ RefreshFails(r)
  PROVE  IndInv'
<1>1. /\ \A q \in Requests : state[q] \in Refreshing => q = r
      /\ \A q \in Requests : state[q] = "queued" => q \in refreshQueue
  BY DEF IndInv, SingleRefresh, NoLostWaiter, Refreshing, RefreshSucceeds, RefreshFails
<1>2. \A q \in Requests : state'[q] \notin Refreshing \cup {"queued"}
  BY <1>1 DEF IndInv, TypeOK, Refreshing, RefreshSucceeds, RefreshFails
<1>3. TypeOK' /\ TokensAgree'
  BY DEF IndInv, TypeOK, TokensAgree, Refreshing, RefreshSucceeds, RefreshFails, serverVars
<1>4. refreshQueue' = {} /\ isRefreshing' = FALSE
  BY DEF RefreshSucceeds, RefreshFails
<1> QED BY <1>2, <1>3, <1>4 DEF IndInv, SingleRefresh, NoLostWaiter

\* The server's answer to the refresh is on its way; the page does not know.
LEMMA AnswerRefreshInv ==
  ASSUME IndInv, NEW r \in Requests, AnswerRefresh(r)
  PROVE  IndInv'
<1>1. state[r] = "refreshing" /\ \A q \in Requests : q # r => state'[q] = state[q]
  BY DEF AnswerRefresh, IndInv, TypeOK
<1>2. state'[r] \in {"granted", "refused"}
  BY DEF AnswerRefresh, IndInv, TypeOK
<1>3. \A q \in Requests : state'[q] \in Refreshing <=> state[q] \in Refreshing
  BY <1>1, <1>2 DEF Refreshing
<1>4. \A q \in Requests : state'[q] = "queued" <=> state[q] = "queued"
  BY <1>1, <1>2
<1>5. state' \in [Requests -> {"idle", "sent", "queued", "ok", "failed"} \cup Refreshing]
  BY DEF AnswerRefresh, IndInv, TypeOK, Refreshing
<1>6. issued' \in Tokens /\ valid' \subseteq Tokens
  <2>1. \/ issued < MaxTokens /\ issued' = issued + 1 /\ valid' = valid \cup {issued + 1}
        \/ issued' = issued /\ valid' = valid
    BY DEF AnswerRefresh
  <2>2. issued \in Tokens /\ valid \subseteq Tokens
    BY DEF IndInv, TypeOK
  <2>3. issued < MaxTokens => issued + 1 \in Tokens
    <3>1. MaxTokens \in Nat BY ApiRefreshAssumption
    <3> QED BY <2>2, <3>1 DEF Tokens
  <2> QED
    BY <2>1, <2>2, <2>3
<1>7. TypeOK'
  BY <1>5, <1>6 DEF AnswerRefresh, IndInv, TypeOK
<1> QED
  BY <1>3, <1>4, <1>7 DEF AnswerRefresh, IndInv, SingleRefresh, NoLostWaiter, TokensAgree

\* What the page, the server and the user do beside the responses.
LEMMA EnvironmentInv ==
  ASSUME IndInv,
         (\E r \in Requests : Send(r)) \/ (\E t \in Tokens : Expire(t))
           \/ EndSession \/ LogoutAtServer \/ LogoutAtClient
  PROVE  IndInv'
<1>1. CASE \E r \in Requests : Send(r)
  <2> PICK r \in Requests : Send(r) BY <1>1
  <2>1. TypeOK'
    BY DEF IndInv, TypeOK, Send, serverVars
  <2>2. \A q \in Requests : /\ state'[q] \in Refreshing <=> state[q] \in Refreshing
                            /\ state'[q] = "queued" <=> state[q] = "queued"
    BY DEF IndInv, TypeOK, Send, Refreshing
  <2> QED
    BY <2>1, <2>2 DEF IndInv, SingleRefresh, NoLostWaiter, TokensAgree, Send
<1>2. CASE \E t \in Tokens : Expire(t)
  BY <1>2 DEF IndInv, TypeOK, SingleRefresh, NoLostWaiter, TokensAgree, Expire
<1>3. CASE EndSession \/ LogoutAtServer \/ LogoutAtClient
  <2>1. UNCHANGED <<state, isRefreshing, refreshQueue>>
    BY <1>3 DEF EndSession, LogoutAtServer, LogoutAtClient
  <2>2. TypeOK' /\ TokensAgree'
    BY <1>3, Zenon DEF IndInv, TypeOK, TokensAgree,
                       EndSession, LogoutAtServer, LogoutAtClient, serverVars
  <2> QED BY <2>1, <2>2 DEF IndInv, SingleRefresh, NoLostWaiter
<1> QED BY <1>1, <1>2, <1>3

\* IndInv holds in every reachable state.
THEOREM Invariance == Spec => []IndInv
<1>1. Init => IndInv BY InitInv
<1>2. IndInv /\ [Next]_vars => IndInv'
  <2> SUFFICES ASSUME IndInv, [Next]_vars PROVE IndInv' OBVIOUS
  <2>1. CASE \E r \in Requests : Answer(r)
    BY <2>1, AnswerInv, UnauthorizedInv, RefreshEndsInv, AnswerRefreshInv DEF Answer
  <2>2. CASE \/ \E r \in Requests : Send(r)
             \/ \E t \in Tokens : Expire(t)
             \/ EndSession \/ LogoutAtServer \/ LogoutAtClient
    BY <2>2, EnvironmentInv
  <2>3. CASE UNCHANGED vars
    BY <2>3 DEF IndInv, TypeOK, SingleRefresh, NoLostWaiter, TokensAgree, vars, serverVars
  <2> QED BY <2>1, <2>2, <2>3 DEF Next
<1> QED BY <1>1, <1>2, PTL DEF Spec

\* At most one refresh is under way, and isRefreshing tells whether.
THEOREM OneRefresh == Spec => []SingleRefresh
<1>1. IndInv => SingleRefresh BY DEF IndInv
<1> QED BY Invariance, <1>1, PTL

\* A request waits exactly while it is in the queue of a refresh under way.
THEOREM WaitersKept == Spec => []NoLostWaiter
<1>1. IndInv => NoLostWaiter BY DEF IndInv
<1> QED BY Invariance, <1>1, PTL

=============================================================================
