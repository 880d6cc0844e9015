--------------------------- MODULE MCDagValidator ---------------------------
(***************************************************************************)
(* Every definition of up to MaxNodes nodes, ids repeated or not, the      *)
(* first's type supported or not, and of up to MaxEdges edges between the  *)
(* ids and 0, which names no node; two edges may be parallel.              *)
(***************************************************************************)
EXTENDS DagValidator

CONSTANTS EdgeIds, MaxNodes, MaxEdges

\* The ids are numbered in the order they first occur: their names do not matter.
IdLists ==
  {l \in UNION {[1..k -> 1..MaxNodes] : k \in 0..MaxNodes} :
     \A i \in DOMAIN l : l[i] = 1 \/ \E j \in 1..(i - 1) : l[j] >= l[i] - 1}

Links == [id : EdgeIds, source : 0..MaxNodes, target : 1..MaxNodes]

EdgeSets == {{}} \cup {{f[i] : i \in 1..MaxEdges} : f \in [1..MaxEdges -> Links]}

SmallDefinitions ==
  { [nodes |-> [i \in DOMAIN l |->
                  [id |-> l[i], type |-> IF i = odd THEN "UNKNOWN" ELSE "LLM_AGENT"]],
     edges |-> s] :
    l \in IdLists, odd \in 0..1, s \in EdgeSets }
=============================================================================
