----------------------------- MODULE MCBuilder -----------------------------
(***************************************************************************)
(* Two nodes of different types, one configuration besides the blank one,  *)
(* and a file with both nodes and an edge whose id is its own.             *)
(***************************************************************************)
EXTENDS Builder, TLC

CONSTANTS n1, n2, blank, text

TwoTypes == (n1 :> "HTTP_AGENT") @@ (n2 :> "LLM_AGENT")
ChainFile ==
  [nodes |-> (n1 :> text) @@ (n2 :> blank),
   edges |-> {[id |-> <<n1>>, source |-> n1, target |-> n2]}]

ChainFiles == {ChainFile}
=============================================================================
