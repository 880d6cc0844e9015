--------------------------- MODULE MCOrganization ---------------------------
(***************************************************************************)
(* Small instances of Organization.                                        *)
(***************************************************************************)
EXTENDS Organization, TLC

Symmetry == Permutations(Users \ {Creator}) \cup Permutations(Requests)
=============================================================================
