------------------------- MODULE DagValidatorProofs -------------------------
(***************************************************************************)
(* Proofs about both validators, for every set of definitions: what they   *)
(* accept is well formed, what they reject is not, so they agree.          *)
(*                                                                         *)
(* The argument: a node's degree counts the edges into it whose source is  *)
(* not yet visited.  So a node is visited after all that come before it,   *)
(* and the visited nodes hold no cycle; and when the queue is empty, each  *)
(* node that was not visited has one before it that was not visited        *)
(* either, so these nodes hold a cycle.                                    *)
(***************************************************************************)
EXTENDS DagValidator, FiniteSetTheorems, TLAPS

Running == side # "done" /\ verdict[side] = "running"

\* The edges into n that its degree still counts.
Before(n, seen) ==
  {e \in ValidEdges(definition) : e.target = n /\ e.source # n /\ e.source \notin seen}

DegreesCount ==
  \A n \in Ids(definition) : inDegree[n] = Cardinality(Before(n, visited))

QueueIsReady == queue = {n \in Ids(definition) \ visited : inDegree[n] = 0}

VisitedIsClosed == \A n \in visited : Before(n, visited) = {}

\* In every set of visited nodes, one has no other member before it.
VisitedIsOrdered ==
  \A S \in SUBSET visited :
    S # {} => \E n \in S : \A e \in ValidEdges(definition) :
                e.target = n /\ e.source # n => e.source \notin S

ErrorsSeen ==
  errors <=> \/ HasDuplicates(definition) \/ HasUnsupported(definition)
             \/ HasSelfLoop(definition)

LoopInv ==
  Running =>
    /\ DegreesCount /\ QueueIsReady /\ VisitedIsClosed /\ VisitedIsOrdered
    /\ ErrorsSeen /\ Len(definition.nodes) > 0

\* The server's validator runs after the client's, if that ran.
InTurn == side = "client" => verdict.server = "none"

IndInv == TypeOK /\ InTurn /\ LoopInv /\ AcceptedIsWellFormed /\ RejectedIsDefective

-----------------------------------------------------------------------------
(* The sets of a definition are finite. *)

LEMMA FiniteDefinition ==
  ASSUME NEW d \in Definitions
  PROVE  /\ Len(d.nodes) \in Nat /\ DOMAIN d.nodes = 1..Len(d.nodes)
         /\ IsFiniteSet(Ids(d)) /\ Cardinality(Ids(d)) \in Nat
         /\ IsFiniteSet(d.edges) /\ IsFiniteSet(ValidEdges(d))
         /\ Len(d.nodes) > 0 => Ids(d) # {}
<1>1. Len(d.nodes) \in Nat /\ DOMAIN d.nodes = 1..Len(d.nodes) /\ IsFiniteSet(d.edges)
  <2> DEFINE T == [id : Ids(d), type : {d.nodes[i].type : i \in DOMAIN d.nodes}]
  <2>1. d.nodes \in Seq(T) /\ IsFiniteSet(d.edges)
    BY DefinitionsType
  <2> HIDE DEF T
  <2> QED
    BY <2>1
<1>2. IsFiniteSet(1..Len(d.nodes))
  BY <1>1, FS_Interval
<1> DEFINE f == [i \in 1..Len(d.nodes) |-> d.nodes[i].id]
<1>3. f \in Surjection(1..Len(d.nodes), Ids(d))
  BY <1>1 DEF Ids, Surjection
<1>4. IsFiniteSet(Ids(d))
  BY <1>2, <1>3, FS_Surjection
<1>5. Cardinality(Ids(d)) \in Nat
  BY <1>4, FS_CardinalityType
<1>6. ValidEdges(d) \in SUBSET d.edges
  BY DEF ValidEdges
<1>7. IsFiniteSet(ValidEdges(d))
  BY <1>1, <1>6, FS_Subset
<1>8. Len(d.nodes) > 0 => d.nodes[1].id \in Ids(d)
  BY <1>1 DEF Ids
<1> QED
  BY <1>1, <1>4, <1>5, <1>7, <1>8

LEMMA FiniteBefore ==
  ASSUME definition \in Definitions, NEW n, NEW seen
  PROVE  /\ IsFiniteSet(Before(n, seen)) /\ Cardinality(Before(n, seen)) \in Nat
         /\ Cardinality(Before(n, seen)) = 0 <=> Before(n, seen) = {}
<1>1. Before(n, seen) \in SUBSET ValidEdges(definition)
  BY DEF Before
<1>2. IsFiniteSet(Before(n, seen))
  BY <1>1, FiniteDefinition, FS_Subset
<1> QED
  BY <1>2, FS_CardinalityType, FS_EmptySet

\* A set of nodes each of which has one of the set before it is a cycle.
LEMMA Cyclic ==
  ASSUME NEW d, NEW S \in SUBSET Ids(d), S # {},
         \A n \in S : \E e \in ValidEdges(d) : e.target = n /\ e.source \in S
  PROVE  ~Acyclic(d)
BY DEF Acyclic, ValidEdges

LEMMA SelfLoopIsCyclic ==
  ASSUME NEW d, HasSelfLoop(d)
  PROVE  ~Acyclic(d)
<1>1. PICK e \in ValidEdges(d) : e.source = e.target
  BY DEF HasSelfLoop
<1>2. {e.source} \in SUBSET Ids(d)
  BY DEF ValidEdges
<1> QED
  BY <1>1, <1>2, Cyclic

-----------------------------------------------------------------------------
(* The start of the loop. *)

LEMMA DegreesAreCounts ==
  ASSUME NEW n \in Ids(definition)
  PROVE  Degrees[n] = Cardinality(Before(n, {}))
<1>1. Edges(Ids(definition) \ {n}, n) = Before(n, {})
  BY DEF Edges, Before, ValidEdges
<1> QED
  BY <1>1 DEF Degrees

LEMMA NoRootIsCyclic ==
  ASSUME definition \in Definitions, Len(definition.nodes) > 0, Roots(Degrees) = {}
  PROVE  ~Acyclic(definition)
<1>1. ASSUME NEW n \in Ids(definition)
      PROVE  \E e \in ValidEdges(definition) : e.target = n /\ e.source \in Ids(definition)
  <2>1. Before(n, {}) # {}
    BY DegreesAreCounts, FiniteBefore DEF Roots
  <2> QED
    BY <2>1 DEF Before, ValidEdges
<1> QED
  BY <1>1, FiniteDefinition, Cyclic

LEMMA Start ==
  ASSUME TypeOK, EnterGraph, side # "done", verdict[side] = "none",
         Len(definition.nodes) > 0,
         errors' = \/ HasDuplicates(definition) \/ HasUnsupported(definition)
                   \/ HasSelfLoop(definition)
  PROVE  TypeOK' /\ LoopInv'
<1> USE DEF TypeOK, EnterGraph, StartGraph
<1>1. definition' = definition /\ side' = side /\ visited' = {} /\ inDegree' = Degrees
  OBVIOUS
<1>2. \A n \in Ids(definition) :
        Degrees[n] = Cardinality(Before(n, {})) /\ Degrees[n] \in Nat
  BY DegreesAreCounts, FiniteBefore
<1>3. inDegree' \in [Ids(definition) -> Nat]
  BY <1>1, <1>2 DEF Degrees
<1>4. TypeOK'
  BY <1>1, <1>3 DEF Roots, HasDuplicates, HasUnsupported, HasSelfLoop
<1>5. DegreesCount'
  <2> HIDE DEF TypeOK, EnterGraph, StartGraph
  <2>1. \A n : Before(n, visited)' = Before(n, {})
    BY <1>1 DEF Before
  <2> QED
    BY <1>1, <1>2, <2>1 DEF DegreesCount
<1>6. QueueIsReady'
  BY <1>1 DEF QueueIsReady, Roots
<1>7. VisitedIsClosed' /\ VisitedIsOrdered'
  BY <1>1 DEF VisitedIsClosed, VisitedIsOrdered
<1>8. ErrorsSeen'
  BY <1>1 DEF ErrorsSeen
<1> QED
  BY <1>1, <1>4, <1>5, <1>6, <1>7, <1>8 DEF LoopInv

-----------------------------------------------------------------------------
(* One turn of the loop. *)

LEMMA VisitDegrees ==
  ASSUME TypeOK, LoopInv, NEW c \in Ids(definition), Visit(c)
  PROVE  /\ DegreesCount'
         /\ inDegree' \in [Ids(definition) -> Nat]
         /\ inDegree[c] = 0 /\ c \notin visited /\ Before(c, visited) = {}
         /\ \A n \in Ids(definition) : inDegree'[n] <= inDegree[n]
<1> USE DEF TypeOK
<1>1. Running /\ c \in queue /\ visited' = visited \cup {c} /\ definition' = definition
  BY DEF Visit, Running
<1>2. DegreesCount /\ QueueIsReady
  BY <1>1 DEF LoopInv
<1>3. inDegree[c] = 0 /\ c \notin visited
  BY <1>1, <1>2 DEF QueueIsReady
<1>4. Before(c, visited) = {}
  BY <1>2, <1>3, FiniteBefore DEF DegreesCount
<1>5. ASSUME NEW n \in Ids(definition)
      PROVE  /\ inDegree'[n] = Cardinality(Before(n, visited'))
             /\ inDegree'[n] \in Nat /\ inDegree'[n] <= inDegree[n]
  <2>1. CASE n = c
    <3>1. Before(n, visited') = Before(n, visited)
      BY <1>1, <2>1 DEF Before
    <3>2. inDegree'[n] = inDegree[n]
      BY <2>1 DEF Visit
    <3> QED
      BY <1>2, <3>1, <3>2, FiniteBefore DEF DegreesCount
  <2>2. CASE n # c
    <3>1. inDegree'[n] = inDegree[n] - Cardinality(Edges({c}, n))
      BY <2>2 DEF Visit
    <3>2. Before(n, visited') = Before(n, visited) \ Edges({c}, n)
      BY <1>1 DEF Before, Edges
    <3>3. Before(n, visited) \cap Edges({c}, n) = Edges({c}, n)
      BY <1>3, <2>2 DEF Before, Edges
    <3>4. Cardinality(Before(n, visited'))
            = Cardinality(Before(n, visited)) - Cardinality(Edges({c}, n))
      <4>1. IsFiniteSet(Before(n, visited))
        BY FiniteBefore
      <4>2. Cardinality(Before(n, visited) \ Edges({c}, n))
              = Cardinality(Before(n, visited))
                - Cardinality(Before(n, visited) \cap Edges({c}, n))
        BY <4>1, FS_Difference
      <4> QED
        BY <3>2, <3>3, <4>2
    <3>5. Edges({c}, n) \in SUBSET Before(n, visited)
      BY <3>3
    <3>6. Cardinality(Edges({c}, n)) \in Nat
      BY <3>5, FiniteBefore, FS_Subset, FS_CardinalityType
    <3>7. inDegree[n] = Cardinality(Before(n, visited))
      BY <1>2 DEF DegreesCount
    <3>8. /\ Cardinality(Before(n, visited')) \in Nat
          /\ Cardinality(Before(n, visited)) \in Nat
      BY FiniteBefore
    <3> HIDE DEF TypeOK
    <3> QED
      BY <3>1, <3>4, <3>6, <3>7, <3>8
  <2> QED
    BY <2>1, <2>2
<1>6. DegreesCount'
  BY <1>1, <1>5 DEF DegreesCount, Before
<1>7. inDegree' \in [Ids(definition) -> Nat]
  BY <1>5 DEF Visit
<1> QED
  BY <1>3, <1>4, <1>5, <1>6, <1>7

LEMMA VisitKeepsOrder ==
  ASSUME NEW c, c \notin visited, visited' = visited \cup {c}, definition' = definition,
         Before(c, visited) = {}, VisitedIsClosed, VisitedIsOrdered
  PROVE  VisitedIsClosed' /\ VisitedIsOrdered'
<1>1. VisitedIsClosed'
  BY DEF VisitedIsClosed, Before
<1>2. ASSUME NEW S \in SUBSET visited', S # {}
      PROVE  \E n \in S : \A e \in ValidEdges(definition) :
               e.target = n /\ e.source # n => e.source \notin S
  <2> DEFINE First(n, T) == \A e \in ValidEdges(definition) :
                              e.target = n /\ e.source # n => e.source \notin T
  <2>1. CASE c \notin S
    <3>1. S \in SUBSET visited
      BY <2>1
    <3> QED
      BY <1>2, <3>1 DEF VisitedIsOrdered
  <2>2. CASE S = {c}
    BY <2>2
  <2>3. CASE c \in S /\ S # {c}
    <3>1. S \ {c} \in SUBSET visited /\ S \ {c} # {}
      BY <1>2, <2>3
    <3>2. PICK n \in S \ {c} : First(n, S \ {c})
      BY <3>1 DEF VisitedIsOrdered
    <3>3. n \in visited /\ Before(n, visited) = {}
      BY <3>1, <3>2 DEF VisitedIsClosed
    <3>4. \A e \in ValidEdges(definition) : e.target = n /\ e.source # n => e.source # c
      BY <3>3 DEF Before
    <3> QED
      BY <3>2, <3>4
  <2> QED
    BY <2>1, <2>2, <2>3
<1>3. VisitedIsOrdered'
  BY <1>2 DEF VisitedIsOrdered
<1> QED
  BY <1>1, <1>3

LEMMA VisitStep ==
  ASSUME IndInv, NEW c \in Ids(definition), Visit(c)
  PROVE  TypeOK' /\ LoopInv'
<1>1. TypeOK /\ LoopInv
  BY DEF IndInv
<1>2. /\ visited' = visited \cup {c} /\ Running
      /\ UNCHANGED <<definition, side, errors, verdict>>
      /\ queue' = (queue \ {c})
                   \cup {n \in Ids(definition) : inDegree[n] > 0 /\ inDegree'[n] = 0}
  BY DEF Visit, Running
<1>3. /\ DegreesCount /\ QueueIsReady /\ VisitedIsClosed /\ VisitedIsOrdered
      /\ ErrorsSeen /\ Len(definition.nodes) > 0
  BY <1>1, <1>2 DEF LoopInv
<1>4. /\ DegreesCount' /\ inDegree' \in [Ids(definition) -> Nat]
      /\ inDegree[c] = 0 /\ c \notin visited /\ Before(c, visited) = {}
      /\ \A n \in Ids(definition) : inDegree'[n] <= inDegree[n]
  BY <1>1, VisitDegrees
<1>5. VisitedIsClosed' /\ VisitedIsOrdered'
  BY <1>2, <1>3, <1>4, VisitKeepsOrder
<1>6. \A n \in visited : inDegree[n] = 0
  BY <1>1, <1>3, FiniteBefore DEF TypeOK, DegreesCount, VisitedIsClosed
<1>7. \A n \in Ids(definition) : inDegree[n] \in Nat /\ inDegree'[n] \in Nat
  BY <1>1, <1>4 DEF TypeOK
<1>8. ASSUME NEW n \in Ids(definition)
      PROVE  n \in queue' <=> n \notin visited' /\ inDegree'[n] = 0
  BY <1>2, <1>3, <1>4, <1>6, <1>7 DEF QueueIsReady
<1>9. QueueIsReady'
  BY <1>1, <1>2, <1>8 DEF TypeOK, QueueIsReady
<1>10. ErrorsSeen' /\ Len(definition'.nodes) > 0
  BY <1>2, <1>3 DEF ErrorsSeen
<1>11. TypeOK'
  BY <1>1, <1>2, <1>4 DEF TypeOK
<1> QED
  BY <1>4, <1>5, <1>9, <1>10, <1>11 DEF LoopInv

-----------------------------------------------------------------------------
(* The end of the loop. *)

LEMMA CountIsRight ==
  ASSUME IndInv, Running, queue = {}
  PROVE  (Cardinality(visited) = Len(definition.nodes) /\ ~errors) <=> WellFormed(definition)
<1>1. /\ TypeOK /\ DegreesCount /\ QueueIsReady /\ VisitedIsOrdered
      /\ ErrorsSeen /\ Len(definition.nodes) > 0
  BY DEF IndInv, LoopInv
<1>2. definition \in Definitions /\ visited \in SUBSET Ids(definition)
  BY <1>1 DEF TypeOK
<1>3. IsFiniteSet(Ids(definition))
  BY <1>2, FiniteDefinition
<1>4. ASSUME Cardinality(visited) = Len(definition.nodes), ~errors
      PROVE  WellFormed(definition)
  <2>1. ~HasDuplicates(definition) /\ ~HasUnsupported(definition) /\ ~HasSelfLoop(definition)
    BY <1>1, <1>4 DEF ErrorsSeen
  <2>2. visited = Ids(definition)
    BY <1>2, <1>3, <1>4, <2>1, FS_Subset DEF HasDuplicates
  <2>3. Acyclic(definition)
    BY <1>1, <2>1, <2>2 DEF VisitedIsOrdered, Acyclic, HasSelfLoop, ValidEdges
  <2> QED
    BY <1>1, <2>1, <2>3 DEF WellFormed
<1>5. ASSUME WellFormed(definition)
      PROVE  Cardinality(visited) = Len(definition.nodes) /\ ~errors
  <2>1. ~errors
    BY <1>1, <1>5, SelfLoopIsCyclic DEF WellFormed, ErrorsSeen
  <2>2. ASSUME visited # Ids(definition)
        PROVE  FALSE
    <3> DEFINE Rest == Ids(definition) \ visited
    <3>1. ASSUME NEW n \in Rest
          PROVE  \E e \in ValidEdges(definition) : e.target = n /\ e.source \in Rest
      <4>1. Before(n, visited) # {}
        BY <1>1, <1>2, FiniteBefore DEF QueueIsReady, DegreesCount
      <4> QED
        BY <4>1 DEF Before, ValidEdges
    <3>2. Rest # {} /\ Rest \in SUBSET Ids(definition)
      BY <1>2, <2>2
    <3>3. ~Acyclic(definition)
      BY <3>1, <3>2, Cyclic
    <3> QED
      BY <1>5, <3>3 DEF WellFormed
  <2>3. Cardinality(Ids(definition)) = Len(definition.nodes)
    BY <1>5 DEF WellFormed, HasDuplicates
  <2> QED
    BY <2>1, <2>2, <2>3
<1> QED
  BY <1>4, <1>5

\* A verdict that is right keeps the invariant.
LEMMA DecideStep ==
  ASSUME IndInv, NEW accepted \in BOOLEAN, accepted <=> WellFormed(definition),
         side # "done", verdict[side] \in {"none", "running"}, Decide(accepted),
         UNCHANGED <<definition, inDegree, queue, visited, errors>>
  PROVE  IndInv'
<1> USE DEF IndInv, TypeOK
<1>1. TypeOK'
  BY DEF Decide
<1>2. ~Running' /\ InTurn'
  BY DEF Decide, Running, InTurn
<1>3. AcceptedIsWellFormed' /\ RejectedIsDefective'
  BY DEF Decide, AcceptedIsWellFormed, RejectedIsDefective, WellFormed, Acyclic,
         HasDuplicates, HasUnsupported
<1> QED
  BY <1>1, <1>2, <1>3 DEF LoopInv

-----------------------------------------------------------------------------
(* The actions. *)

LEMMA EnterKeepsVerdicts ==
  ASSUME IndInv, EnterGraph, side # "done", verdict[side] = "none"
  PROVE  InTurn' /\ AcceptedIsWellFormed' /\ RejectedIsDefective'
BY DEF IndInv, TypeOK, EnterGraph, InTurn, AcceptedIsWellFormed, RejectedIsDefective,
       WellFormed, Acyclic, HasDuplicates, HasUnsupported

LEMMA CheckClientStep ==
  ASSUME IndInv, CheckClient
  PROVE  IndInv'
<1>1. TypeOK /\ side = "client" /\ verdict[side] = "none" /\ definition \in Definitions
  BY DEF IndInv, CheckClient, TypeOK
<1>2. CASE Len(definition.nodes) = 0 \/ Roots(Degrees) = {}
  <2>1. Decide(FALSE) /\ UNCHANGED <<definition, inDegree, queue, visited, errors>>
    BY <1>2 DEF CheckClient, Reject
  <2>2. ~WellFormed(definition)
    BY <1>1, <1>2, NoRootIsCyclic, FiniteDefinition DEF WellFormed
  <2> QED
    BY <1>1, <2>1, <2>2, DecideStep
<1>3. CASE ~(Len(definition.nodes) = 0 \/ Roots(Degrees) = {})
  <2>1. /\ EnterGraph
        /\ errors' = (\/ HasDuplicates(definition) \/ HasUnsupported(definition)
                      \/ HasSelfLoop(definition))
    BY <1>3 DEF CheckClient
  <2>2. Len(definition.nodes) > 0
    BY <1>1, <1>3, FiniteDefinition
  <2>3. TypeOK' /\ LoopInv'
    BY <1>1, <2>1, <2>2, Start
  <2> QED
    BY <1>1, <2>1, <2>3, EnterKeepsVerdicts DEF IndInv
<1> QED
  BY <1>2, <1>3

LEMMA CheckServerStep ==
  ASSUME IndInv, CheckServer
  PROVE  IndInv'
<1>1. TypeOK /\ side = "server" /\ verdict[side] = "none" /\ definition \in Definitions
  BY DEF IndInv, CheckServer, TypeOK
<1> DEFINE Throws == \/ Len(definition.nodes) = 0 \/ HasUnsupported(definition)
                     \/ HasDuplicates(definition) \/ HasSelfLoop(definition)
                     \/ Roots(Degrees) = {}
<1>2. CASE Throws
  <2>1. Decide(FALSE) /\ UNCHANGED <<definition, inDegree, queue, visited, errors>>
    BY <1>2 DEF CheckServer, Reject
  <2>2. ~WellFormed(definition)
    BY <1>1, <1>2, NoRootIsCyclic, SelfLoopIsCyclic, FiniteDefinition DEF WellFormed
  <2> QED
    BY <1>1, <2>1, <2>2, DecideStep
<1>3. CASE ~Throws
  <2>1. EnterGraph /\ errors' = FALSE
    BY <1>3 DEF CheckServer
  <2>2. Len(definition.nodes) > 0
    BY <1>1, <1>3, FiniteDefinition
  <2>3. TypeOK' /\ LoopInv'
    BY <1>1, <1>3, <2>1, <2>2, Start
  <2> QED
    BY <1>1, <2>1, <2>3, EnterKeepsVerdicts DEF IndInv
<1> QED
  BY <1>2, <1>3

LEMMA CountStep ==
  ASSUME IndInv, Count
  PROVE  IndInv'
<1> DEFINE accepted == Cardinality(visited) = Len(definition.nodes) /\ ~errors
<1>1. /\ Running /\ queue = {} /\ side # "done" /\ verdict[side] = "running"
      /\ Decide(accepted) /\ UNCHANGED <<definition, inDegree, queue, visited, errors>>
  BY DEF Count, Running
<1>2. accepted <=> WellFormed(definition)
  BY <1>1, CountIsRight
<1>3. accepted \in BOOLEAN
  OBVIOUS
<1> HIDE DEF accepted
<1> QED
  BY <1>1, <1>2, <1>3, DecideStep

LEMMA Inductive ==
  ASSUME IndInv, [Next]_vars
  PROVE  IndInv'
<1>1. CASE CheckClient
  BY <1>1, CheckClientStep
<1>2. CASE CheckServer
  BY <1>2, CheckServerStep
<1>3. ASSUME NEW n \in Ids(definition), Visit(n)
      PROVE  IndInv'
  <2>1. TypeOK' /\ LoopInv'
    BY <1>3, VisitStep
  <2>2. InTurn' /\ AcceptedIsWellFormed' /\ RejectedIsDefective'
    BY <1>3 DEF IndInv, Visit, InTurn, AcceptedIsWellFormed, RejectedIsDefective
  <2> QED
    BY <2>1, <2>2 DEF IndInv
<1>4. CASE Count
  BY <1>4, CountStep
<1>5. CASE UNCHANGED vars
  BY <1>5 DEF IndInv, vars, TypeOK, InTurn, LoopInv, Running, DegreesCount, QueueIsReady,
     VisitedIsClosed, VisitedIsOrdered, ErrorsSeen, Before, AcceptedIsWellFormed,
     RejectedIsDefective
<1> QED
  BY <1>1, <1>2, <1>3, <1>4, <1>5 DEF Next

LEMMA Initially == Init => IndInv
<1> SUFFICES ASSUME Init PROVE IndInv
  OBVIOUS
<1>1. TypeOK
  BY DEF Init, TypeOK, NoDegrees
<1>2. ~Running
  BY DEF Init, Running
<1> QED
  BY <1>1, <1>2
  DEF Init, IndInv, InTurn, LoopInv, AcceptedIsWellFormed, RejectedIsDefective

\* The invariant holds for every set of definitions and of supported types.
THEOREM Invariant == Spec => []IndInv
<1>1. Init => IndInv
  BY Initially
<1>2. IndInv /\ [Next]_vars => IndInv'
  BY Inductive
<1> QED
  BY <1>1, <1>2, PTL DEF Spec

\* Every value stays within its type; no degree goes below zero.
THEOREM TypeCorrect == Spec => []TypeOK
BY Invariant, PTL DEF IndInv

\* Whatever validateWorkflowGraph accepts, on either side, is not empty, repeats
\* no id, has supported types only and no cycle.
THEOREM Soundness == Spec => []AcceptedIsWellFormed
BY Invariant, PTL DEF IndInv

\* Whatever it rejects has one of these defects.
THEOREM Completeness == Spec => []RejectedIsDefective
BY Invariant, PTL DEF IndInv

\* The server never refuses what the builder let through.
THEOREM Agreement == Spec => []ServerAgrees
<1>1. IndInv => ServerAgrees
  BY DEF IndInv, AcceptedIsWellFormed, RejectedIsDefective, ServerAgrees
<1> QED
  BY <1>1, Invariant, PTL
=============================================================================
