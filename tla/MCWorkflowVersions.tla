------------------------- MODULE MCWorkflowVersions -------------------------
(***************************************************************************)
(* Small instances of WorkflowVersions.  Requests are interchangeable.     *)
(***************************************************************************)
EXTENDS WorkflowVersions, TLC

RequestSymmetry == Permutations(Requests)
=============================================================================
