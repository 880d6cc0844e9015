----------------------------- MODULE RateLimiter -----------------------------
(***************************************************************************)
(* The rate limiter in Redis (server/middleware/                           *)
(* rate-limiter.middleware.ts), for one key: INCR, then EXPIRE by the      *)
(* first request of the window, then the request goes on or is refused.    *)
(* A request lets through whatever Redis fails to answer.                  *)
(***************************************************************************)
EXTENDS Naturals, FiniteSets

CONSTANTS
  Requests,
  MaxRequests,  \* maxRequests
  Window,       \* windowSec, in ticks
  MaxFaults,    \* bound: failures of Redis or of the process
  None

VARIABLES
  key,      \* [count, ttl] in Redis, or None: there is no such key
  request,  \* where each request has got to
  age,      \* ghost: ticks since a request was let through, up to Window
  faults

vars == <<key, request, age, faults>>

NewRequest == [at |-> "idle", count |-> 0]

TypeOK ==
  /\ key \in [count : 1..Cardinality(Requests), ttl : (1..Window) \cup {None}] \cup {None}
  /\ request \in [Requests -> [at : {"idle", "counted", "passed", "refused", "dropped"},
                               count : 0..Cardinality(Requests)]]
  /\ age \in [Requests -> 0..Window] /\ faults \in 0..MaxFaults

Init ==
  /\ key = None /\ request = [r \in Requests |-> NewRequest]
  /\ age = [r \in Requests |-> Window] /\ faults = 0

Fault == faults < MaxFaults /\ faults' = faults + 1

\* INCR; a new key has no time to live yet.
Incr(r) ==
  /\ request[r].at = "idle"
  /\ LET count == IF key = None THEN 1 ELSE key.count + 1 IN
     /\ key' = IF key = None THEN [count |-> 1, ttl |-> None] ELSE [key EXCEPT !.count = count]
     /\ request' = [request EXCEPT ![r] = [at |-> "counted", count |-> count]]
  /\ UNCHANGED <<age, faults>>

PassOrRefuse(r) ==
  IF request[r].count > MaxRequests
  THEN request' = [request EXCEPT ![r].at = "refused"] /\ UNCHANGED age
  ELSE request' = [request EXCEPT ![r].at = "passed"] /\ age' = [age EXCEPT ![r] = 0]

Expire(r) ==
  /\ request[r].at = "counted"
  /\ key' = IF request[r].count = 1 THEN [key EXCEPT !.ttl = Window] ELSE key
  /\ PassOrRefuse(r)
  /\ UNCHANGED faults

RedisFails(r) ==
  /\ request[r].at \in {"idle", "counted"} /\ Fault
  /\ request' = [request EXCEPT ![r].at = "passed"] /\ age' = [age EXCEPT ![r] = 0]
  /\ UNCHANGED key

ProcessEnds ==
  /\ Fault
  /\ request' = [r \in Requests |-> IF request[r].at = "counted"
                                    THEN [request[r] EXCEPT !.at = "dropped"] ELSE request[r]]
  /\ UNCHANGED <<key, age>>

HasTtl == key # None /\ key.ttl # None

Tick ==
  /\ HasTtl \/ \E r \in Requests : age[r] < Window
  /\ key' = IF ~HasTtl THEN key
            ELSE IF key.ttl = 1 THEN None ELSE [key EXCEPT !.ttl = @ - 1]
  /\ age' = [r \in Requests |-> IF age[r] < Window THEN age[r] + 1 ELSE Window]
  /\ UNCHANGED <<request, faults>>

Next ==
  \/ \E r \in Requests : Incr(r) \/ Expire(r) \/ RedisFails(r)
  \/ ProcessEnds
  \/ Tick

Spec == Init /\ [][Next]_vars

-----------------------------------------------------------------------------
(* What the documents say of it (see the README). *)

\* A key without a time to live is about to get one.
WindowEnds ==
  key # None /\ key.ttl = None
    => \E r \in Requests : request[r].at = "counted" /\ request[r].count = 1

\* No more than maxRequests are let through in any time of a window's length.
SlidingWindow == Cardinality({r \in Requests : age[r] < Window}) <= MaxRequests
=============================================================================
