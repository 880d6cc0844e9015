---------------------------- MODULE DagValidator ----------------------------
(***************************************************************************)
(* The two validators of a workflow definition, both Kahn's algorithm: the *)
(* builder's (client/lib/utils/workflow-validator.ts), which collects its  *)
(* blocking errors, and the server's (server/utils/dag-validator.ts),      *)
(* which throws the first.  A definition saved from the builder meets      *)
(* both, a definition sent to the API only the server's.                   *)
(*                                                                         *)
(* The queue is the set of its members: the verdict does not depend on the *)
(* order they are taken in, and a degree reaches zero once.                *)
(***************************************************************************)
EXTENDS Integers, Sequences, FiniteSets

\* A definition has a sequence of nodes [id, type] and a set of edges
\* [id, source, target]; nothing says that an edge's ends are nodes.
CONSTANTS Definitions, Supported

Ids(d) == {d.nodes[i].id : i \in DOMAIN d.nodes}

ASSUME DefinitionsType ==
  \A d \in Definitions :
    d.nodes \in Seq([id : Ids(d), type : {d.nodes[i].type : i \in DOMAIN d.nodes}])
    /\ IsFiniteSet(d.edges)

ValidEdges(d) == {e \in d.edges : e.source \in Ids(d) /\ e.target \in Ids(d)}
HasDuplicates(d) == Cardinality(Ids(d)) # Len(d.nodes)
HasUnsupported(d) == \E i \in DOMAIN d.nodes : d.nodes[i].type \notin Supported
HasSelfLoop(d) == \E e \in ValidEdges(d) : e.source = e.target

-----------------------------------------------------------------------------

VARIABLES
  definition,
  side,      \* whose validator runs: "client", then "server"
  inDegree,  \* of each node, over the edges whose source is not yet visited
  queue,     \* the nodes of degree zero that wait to be visited
  visited,
  errors,    \* the client has found an error and goes on
  verdict    \* of both sides: "none", "accepted" or "rejected"

vars == <<definition, side, inDegree, queue, visited, errors, verdict>>

TypeOK ==
  /\ definition \in Definitions /\ side \in {"client", "server", "done"}
  /\ inDegree \in [Ids(definition) -> Nat]
  /\ queue \subseteq Ids(definition) /\ visited \subseteq Ids(definition)
  /\ errors \in BOOLEAN
  /\ verdict \in [{"client", "server"} -> {"none", "running", "accepted", "rejected"}]

NoDegrees(d) == [n \in Ids(d) |-> 0]

Init ==
  /\ definition \in Definitions
  /\ side \in {"client", "server"}
  /\ inDegree = NoDegrees(definition) /\ queue = {} /\ visited = {} /\ errors = FALSE
  /\ verdict = [s \in {"client", "server"} |-> "none"]

-----------------------------------------------------------------------------

Edges(from, to) == {e \in ValidEdges(definition) : e.source \in from /\ e.target = to}

\* The loop over the valid edges; a self-loop, an error on both sides, is left
\* out of the client's degrees and never reaches the server's.
Degrees == [n \in Ids(definition) |-> Cardinality(Edges(Ids(definition) \ {n}, n))]

Roots(degrees) == {n \in Ids(definition) : degrees[n] = 0}

StartGraph ==
  /\ inDegree' = Degrees /\ visited' = {} /\ queue' = Roots(Degrees)

\* A verdict: an accepted definition goes on to the server.
Decide(accepted) ==
  /\ verdict' = [verdict EXCEPT ![side] = IF accepted THEN "accepted" ELSE "rejected"]
  /\ side' = IF side = "client" /\ accepted THEN "server" ELSE "done"

Reject ==
  /\ Decide(FALSE)
  /\ UNCHANGED <<definition, inDegree, queue, visited, errors>>

EnterGraph ==
  /\ StartGraph
  /\ verdict' = [verdict EXCEPT ![side] = "running"]
  /\ UNCHANGED <<definition, side>>

\* The client stops only at an empty definition or one without a root.
CheckClient ==
  /\ side = "client" /\ verdict.client = "none"
  /\ IF Len(definition.nodes) = 0 \/ Roots(Degrees) = {}
     THEN Reject
     ELSE /\ EnterGraph
          /\ errors' = \/ HasDuplicates(definition) \/ HasUnsupported(definition)
                       \/ HasSelfLoop(definition)

\* The server throws at the first check that fails.
CheckServer ==
  /\ side = "server" /\ verdict.server = "none"
  /\ IF \/ Len(definition.nodes) = 0 \/ HasUnsupported(definition)
        \/ HasDuplicates(definition) \/ HasSelfLoop(definition) \/ Roots(Degrees) = {}
     THEN Reject
     ELSE EnterGraph /\ errors' = FALSE

(* Plausible mistakes in the loop. *)

\* The queue's loop lowers a degree once per neighbour, not once per edge.
VisitOncePerNeighbour(current) ==
  /\ side # "done" /\ verdict[side] = "running" /\ current \in queue
  /\ visited' = visited \cup {current}
  /\ inDegree' = [n \in Ids(definition) |->
                    IF n # current /\ Edges({current}, n) # {} THEN inDegree[n] - 1
                    ELSE inDegree[n]]
  /\ queue' = (queue \ {current})
               \cup {n \in Ids(definition) : inDegree[n] > 0 /\ inDegree'[n] = 0}
  /\ UNCHANGED <<definition, side, errors, verdict>>

\* Every neighbour of a visited node is pushed.
VisitNeighbours(current) ==
  /\ side # "done" /\ verdict[side] = "running" /\ current \in queue
  /\ visited' = visited \cup {current}
  /\ inDegree' = inDegree
  /\ queue' = (queue \cup {n \in Ids(definition) : Edges({current}, n) # {}}) \ visited'
  /\ UNCHANGED <<definition, side, errors, verdict>>

(* As the code has it. *)

\* One turn of the while loop: every edge of the node that is taken lowers the
\* degree of its target.
Visit(current) ==
  /\ side # "done" /\ verdict[side] = "running" /\ current \in queue
  /\ visited' = visited \cup {current}
  /\ inDegree' = [n \in Ids(definition) |->
                    IF n = current THEN inDegree[n]
                    ELSE inDegree[n] - Cardinality(Edges({current}, n))]
  /\ queue' = (queue \ {current})
               \cup {n \in Ids(definition) : inDegree[n] > 0 /\ inDegree'[n] = 0}
  /\ UNCHANGED <<definition, side, errors, verdict>>

\* The queue is empty: were all nodes visited?
Count ==
  /\ side # "done" /\ verdict[side] = "running" /\ queue = {}
  /\ Decide(Cardinality(visited) = Len(definition.nodes) /\ ~errors)
  /\ UNCHANGED <<definition, inDegree, queue, visited, errors>>

Next == CheckClient \/ CheckServer \/ (\E n \in Ids(definition) : Visit(n)) \/ Count

Spec == Init /\ [][Next]_vars

-----------------------------------------------------------------------------

\* Every set of nodes has a member that no member of it comes before.
Acyclic(d) ==
  \A S \in SUBSET Ids(d) :
    S # {} => \E n \in S : \A e \in d.edges : e.target = n => e.source \notin S

WellFormed(d) ==
  Len(d.nodes) > 0 /\ ~HasDuplicates(d) /\ ~HasUnsupported(d) /\ Acyclic(d)

\* What a validator accepts has at least one node, no two of the same id, only
\* supported types, and no cycle: the run the orchestrator starts from it can
\* reach every task.
AcceptedIsWellFormed ==
  \A s \in {"client", "server"} : verdict[s] = "accepted" => WellFormed(definition)

\* What a validator rejects really has one of these defects: no definition that
\* could run is refused.
RejectedIsDefective ==
  \A s \in {"client", "server"} : verdict[s] = "rejected" => ~WellFormed(definition)

\* A definition the builder lets through is never refused by the server: the
\* user is told of the error on the canvas, not after the request.
ServerAgrees == verdict.client = "accepted" => verdict.server # "rejected"

\* An accepted definition has a first task: triggerRun looks for a node that is
\* the target of no edge, whatever its source.
AcceptedStarts ==
  verdict.server = "accepted" =>
    \E n \in Ids(definition) : \A e \in definition.edges : e.target # n
=============================================================================
