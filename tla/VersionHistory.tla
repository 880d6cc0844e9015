--------------------------- MODULE VersionHistory ---------------------------
(***************************************************************************)
(* What the version history of a workflow promises: an edit or a restore   *)
(* is one step that appends the content it replaces to the history and     *)
(* moves the row to the next version (docs/system-design.md, section 6.5,  *)
(* "In Transaction").  WorkflowVersions implements it.                     *)
(***************************************************************************)
EXTENDS Naturals

CONSTANTS Fields, Values, NoSnapshot, MaxVersion

VARIABLES version, content, history

Init ==
  /\ version = 1
  /\ content \in [Fields -> Values]
  /\ history = [v \in 1 .. MaxVersion |-> NoSnapshot]

Edit(c) ==
  /\ version < MaxVersion
  /\ history' = [history EXCEPT ![version] = content]
  /\ version' = version + 1
  /\ content' = c

Next == \E c \in [Fields -> Values] : Edit(c)

Spec == Init /\ [][Next]_<<version, content, history>>
=============================================================================
