--------------------------- MODULE MCOrchestrator ---------------------------
(***************************************************************************)
(* Small workflow definitions for model checking the Orchestrator.         *)
(***************************************************************************)
EXTENDS Orchestrator, TLC

CONSTANTS A, B, C, D, llm, http

\* Two branches that join: A -> B, A -> C, B -> D, C -> D.
DiamondTasks   == {A, B, C, D}
DiamondEdges   == {<<A, B>>, <<A, C>>, <<B, D>>, <<C, D>>}
DiamondAgents  == (A :> llm) @@ (B :> llm) @@ (C :> http) @@ (D :> http)

\* Two first nodes and one that waits for both: A -> C, B -> C.
FanInTasks   == {A, B, C}
FanInEdges   == {<<A, C>>, <<B, C>>}
FanInAgents  == (A :> llm) @@ (B :> http) @@ (C :> llm)

\* A -> B.
ChainTasks   == {A, B}
ChainEdges   == {<<A, B>>}
ChainAgents  == (A :> llm) @@ (B :> llm)

\* The user cancels from the page of a run whose trigger call has returned.
CancelAfterTrigger ==
  Init /\ [][Next /\ (cancel = "idle" /\ cancel' = "checked" => trigger = "done")]_vars
       /\ WF_vars(Progress)
=============================================================================
