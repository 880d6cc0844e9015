---------------------------- MODULE MCWorkspace ----------------------------
(* Values for model checking Workspace. *)
EXTENDS Workspace

CONSTANTS a, b
=============================================================================
