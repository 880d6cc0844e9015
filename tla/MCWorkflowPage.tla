--------------------------- MODULE MCWorkflowPage ---------------------------
(* Values for model checking WorkflowPage. *)
EXTENDS WorkflowPage

CONSTANTS c1, hourly, daily
=============================================================================
