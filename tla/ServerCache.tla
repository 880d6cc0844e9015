---------------------------- MODULE ServerCache ----------------------------
(***************************************************************************)
(* One key of the server's read cache in Redis (server/cache/index.ts) as  *)
(* the services use it: a read that misses takes its row from the          *)
(* database, then stores it; a write deletes the key after it has changed  *)
(* the row.  Nothing orders the one against the other.                     *)
(***************************************************************************)

CONSTANT None

\* What is stored under the key, and what a read that missed has in hand.
EmptyKey == [value |-> None, inHand |-> None]

Hit(k) == k.value # None
Misses(k) == k.value = None /\ k.inHand = None

ReadRow(k, value) == [k EXCEPT !.inHand = value]
Store(k) == [value |-> k.inHand, inHand |-> None]

\* A deletion, and the end of the time to live.
Delete(k) == [k EXCEPT !.value = None]
=============================================================================
