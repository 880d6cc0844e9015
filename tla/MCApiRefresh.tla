---------------------------- MODULE MCApiRefresh ----------------------------
(***************************************************************************)
(* Small instances of ApiRefresh.                                          *)
(***************************************************************************)
EXTENDS ApiRefresh

\* The session lasts and nobody logs out.
LoggedIn == Init /\ [][Next /\ session']_vars
=============================================================================
