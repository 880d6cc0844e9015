----------------------------- MODULE QueryCache -----------------------------
(***************************************************************************)
(* One entry of the client's query cache (react-query, configured by       *)
(* client/providers/query-provider.tsx) as the pages use it: the data last *)
(* received, whether it is stale, and the one fetch under way, which is    *)
(* "asked" until the server has read the answer and "answered" until the   *)
(* page receives it.                                                       *)
(***************************************************************************)

CONSTANT None  \* undefined: nothing has been received

\* What an entry may hold when the answers are in Values.
Entry(Values) ==
  [data: Values \cup {None}, stale: BOOLEAN, error: BOOLEAN,
   fetch: {"none", "asked", "answered"}, answer: Values \cup {None}]

EmptyEntry ==
  [data |-> None, stale |-> FALSE, error |-> FALSE, fetch |-> "none", answer |-> None]

HasData(e) == e.data # None
Asked(e) == e.fetch = "asked"
Answered(e) == e.fetch = "answered"

\* An error stays until an answer when there is data beside it.
Ask(e) == [e EXCEPT !.fetch = "asked", !.answer = None, !.error = @ /\ HasData(e)]

\* A fetch that finds one under way joins it.
Fetch(e) == IF e.fetch = "none" THEN Ask(e) ELSE e

\* refetch and invalidateQueries cancel the fetch under way and ask again
\* (cancelRefetch), unless there is no data to fall back on.
Refetch(e) == IF HasData(e) THEN Ask(e) ELSE Fetch(e)

\* invalidateQueries refetches only what a mounted page observes.
Invalidate(e, active) ==
  LET marked == [e EXCEPT !.stale = TRUE] IN IF active THEN Refetch(marked) ELSE marked

\* A page mounts: data younger than staleTime is shown as it is.
Mount(e) == IF HasData(e) /\ ~e.stale THEN e ELSE Fetch(e)

Answer(e, value) == [e EXCEPT !.fetch = "answered", !.answer = value]
Settle(e) == [EmptyEntry EXCEPT !.data = e.answer]

\* The fetch and its one retry failed; the data stays.
Fail(e) == [e EXCEPT !.fetch = "none", !.answer = None, !.error = TRUE]
=============================================================================
