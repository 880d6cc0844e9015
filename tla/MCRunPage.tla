----------------------------- MODULE MCRunPage -----------------------------
(***************************************************************************)
(* Small instances of RunPage.                                             *)
(***************************************************************************)
EXTENDS RunPage
=============================================================================
