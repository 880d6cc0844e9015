---------------------------- MODULE MCScheduler ----------------------------
(***************************************************************************)
(* Small instances of Scheduler.                                           *)
(***************************************************************************)
EXTENDS Scheduler

\* A schedule is only created for a workflow that is not archived.
CreateBeforeDelete ==
  Init /\ [][Next /\ \A p \in Requests : op[p] = "none" /\ op'[p] = "create" => ~archived]_vars
=============================================================================
