------------------------------- MODULE Canvas -------------------------------
(***************************************************************************)
(* The canvas that both builder pages hold (client/app/(builder)/workflows *)
(* new/page.tsx and [id]/edit/page.tsx, the same handlers in both), its    *)
(* undo history (client/hooks/use-canvas-history.ts) and the panel that    *)
(* configures one node (NodeConfigPanel.tsx).  Positions, names and looks  *)
(* are left out; a node's configuration is one text.                       *)
(*                                                                         *)
(* The operations of React Flow (addEdge, reconnectEdge, the delete key)   *)
(* are external and modelled as the handlers rely on them.                 *)
(***************************************************************************)
EXTENDS Naturals, Sequences, FiniteSets

CONSTANTS
  NodeIds,     \* ids getId can still give
  TypeOf,      \* the agent type dropped under each id
  Texts,       \* what a configuration may say
  Blank,       \* the configuration of a new node, one of Texts
  Files,       \* canvases a JSON file may hold
  None,
  MaxHistory,  \* maxHistory
  MaxEdits     \* bound: operations on one canvas

Types == {TypeOf[n] : n \in NodeIds}
Pairs == NodeIds \X NodeIds

\* An edge is known by the pair it was drawn for, or as its file says.
EdgeIds == Pairs \cup {e.id : e \in UNION {f.edges : f \in Files}}
Canvases ==
  [nodes : UNION {[ns -> Texts] : ns \in SUBSET NodeIds},
   edges : SUBSET [id : EdgeIds, source : NodeIds, target : NodeIds]]

ASSUME CanvasAssumption ==
  /\ Blank \in Texts /\ MaxHistory \in Nat \ {0} /\ MaxEdits \in Nat
  /\ Files \subseteq Canvases /\ None \notin Canvases

Edge(link) == [id |-> link, source |-> link[1], target |-> link[2]]

EmptyCanvas == [nodes |-> [n \in {} |-> Blank], edges |-> {}]
Nodes(c) == DOMAIN c.nodes
Without(c, ns) ==
  [nodes |-> [n \in Nodes(c) \ ns |-> c.nodes[n]],
   edges |-> {e \in c.edges : e.source \notin ns /\ e.target \notin ns}]

\* Every edge connects two nodes of the canvas.
Closed(c) == \A e \in c.edges : e.source \in Nodes(c) /\ e.target \in Nodes(c)

VARIABLES
  canvas,
  past, future,
  skip,    \* isUndoOrRedo.current
  panel,   \* the open panel: its node, its fields by type, its test, or None
  used,    \* ids that were given: getId gives none twice
  edits

canvasVars == <<canvas, past, future, skip, panel, used, edits>>

\* What a test was asked with, or its result is of.
Tests == [node : NodeIds, config : Texts]
Panels == [node : NodeIds, fields : [Types -> Texts], json : BOOLEAN,
           asked : Tests \cup {None}, result : Tests \cup {None}]

CanvasTypeOK ==
  /\ canvas \in Canvases /\ past \in Seq(Canvases) /\ future \in Seq(Canvases)
  /\ skip \in BOOLEAN /\ panel \in Panels \cup {None}
  /\ used \subseteq NodeIds /\ edits \in 0..MaxEdits

\* useState: a page starts with an empty canvas, no history and no panel.
FreshCanvas(c) ==
  /\ canvas' = c /\ past' = <<>> /\ future' = <<>> /\ skip' = FALSE
  /\ panel' = None /\ used' = Nodes(c) /\ edits' = 0

CanvasInit ==
  /\ canvas = EmptyCanvas /\ past = <<>> /\ future = <<>> /\ skip = FALSE
  /\ panel = None /\ used = {} /\ edits = 0

-----------------------------------------------------------------------------
(* The history. *)

LastOf(s, k) == IF Len(s) > k THEN SubSeq(s, Len(s) - k + 1, Len(s)) ELSE s

\* takeSnapshot: the canvas as it is goes to the past, unless an undo or redo
\* came since the last one.
TakeSnapshot ==
  /\ skip' = FALSE
  /\ IF skip
     THEN UNCHANGED <<past, future>>
     ELSE past' = LastOf(Append(past, canvas), MaxHistory) /\ future' = <<>>

\* Two calls in the same event: the first may find the flag, the second never.
TakeTwoSnapshots ==
  /\ skip' = FALSE /\ future' = <<>>
  /\ past' = LastOf(past \o (IF skip THEN <<canvas>> ELSE <<canvas, canvas>>), MaxHistory)

NoSnapshot == UNCHANGED <<past, future, skip>>

Edited == edits < MaxEdits /\ edits' = edits + 1

Undo ==
  /\ Edited /\ past # <<>>
  /\ skip' = TRUE
  /\ future' = <<canvas>> \o future
  /\ past' = SubSeq(past, 1, Len(past) - 1)
  /\ canvas' = past[Len(past)]
  /\ UNCHANGED panel

Redo ==
  /\ Edited /\ future # <<>>
  /\ skip' = TRUE
  /\ past' = Append(past, canvas)
  /\ future' = Tail(future)
  /\ canvas' = Head(future)
  /\ UNCHANGED panel

-----------------------------------------------------------------------------
(* Edges. *)

\* addEdge leaves the edges as they are when the connection exists.
Connect(link) ==
  /\ Edited
  /\ link[1] \in Nodes(canvas) /\ link[2] \in Nodes(canvas)
  /\ TakeSnapshot
  /\ canvas' =
       IF \E e \in canvas.edges : e.source = link[1] /\ e.target = link[2]
       THEN canvas ELSE [canvas EXCEPT !.edges = @ \cup {Edge(link)}]
  /\ UNCHANGED panel

DropEdges(edges, id) == {e \in edges : e.id # id}

\* onReconnect, and onReconnectEnd after it, which takes off the edge of the old
\* id: the reconnected one too, when it was put back where it was.
Reconnect(old, link) ==
  /\ Edited /\ old \in canvas.edges
  /\ link[1] \in Nodes(canvas) /\ link[2] \in Nodes(canvas)
  /\ TakeTwoSnapshots
  /\ canvas' = [canvas EXCEPT
                  !.edges = DropEdges(DropEdges(@, old.id) \cup {Edge(link)}, old.id)]
  /\ UNCHANGED panel

\* onReconnectEnd alone: the end was dropped beside every node.
DropReconnect(old) ==
  /\ Edited /\ old \in canvas.edges
  /\ TakeSnapshot
  /\ canvas' = [canvas EXCEPT !.edges = DropEdges(@, old.id)]
  /\ UNCHANGED panel

\* The button on the edge takes no snapshot.
Disconnect(old) ==
  /\ Edited /\ old \in canvas.edges
  /\ NoSnapshot
  /\ canvas' = [canvas EXCEPT !.edges = DropEdges(@, old.id)]
  /\ UNCHANGED panel

-----------------------------------------------------------------------------
(* Nodes. *)

\* A node of a type of the palette is dropped under a new id.
DropNode(n) ==
  /\ Edited /\ n \notin used \cup Nodes(canvas)
  /\ used' = used \cup {n}
  /\ TakeSnapshot
  /\ canvas' = [canvas EXCEPT !.nodes =
                  [m \in Nodes(canvas) \cup {n} |-> IF m = n THEN Blank ELSE @[m]]]
  /\ UNCHANGED panel

CloseIf(closes) == panel' = IF closes THEN None ELSE panel

\* A plausible mistake: the panel's delete leaves the node's edges.
DeleteFromPanelOnly ==
  /\ Edited /\ panel # None
  /\ TakeSnapshot
  /\ canvas' = [canvas EXCEPT !.nodes = Without(canvas, {panel.node}).nodes]
  /\ panel' = None

\* The panel's Delete Node, which leaves the canvas alone if an undo has taken
\* the node away.
DeleteFromPanel ==
  /\ Edited /\ panel # None
  /\ TakeSnapshot
  /\ canvas' = Without(canvas, {panel.node})
  /\ panel' = None

\* The delete key: React Flow removes the selected nodes, the edges at them and
\* the selected edges; onNodesDelete is called if there is a node among them.
DeleteKey(ns, es) ==
  /\ Edited /\ ns \subseteq Nodes(canvas) /\ es \subseteq canvas.edges
  /\ ns # {} \/ es # {}
  /\ IF ns # {} THEN TakeSnapshot ELSE NoSnapshot
  /\ canvas' = Without([canvas EXCEPT !.edges = @ \ es], ns)
  /\ CloseIf(panel # None /\ panel.node \in ns)

\* The button on the node takes no snapshot and leaves the panel.
DeleteFromNode(n) ==
  /\ Edited /\ n \in Nodes(canvas)
  /\ NoSnapshot
  /\ canvas' = Without(canvas, {n})
  /\ UNCHANGED panel

\* getLayoutedElements moves the nodes and keeps the edges.
AutoLayout ==
  /\ Edited /\ canvas # EmptyCanvas
  /\ TakeSnapshot
  /\ UNCHANGED <<canvas, panel>>

ImportJson(file) ==
  /\ Edited
  /\ TakeSnapshot
  /\ canvas' = file
  /\ UNCHANGED panel

-----------------------------------------------------------------------------
(* The panel. *)

FieldsOf(n) == [t \in Types |-> IF t = TypeOf[n] THEN canvas.nodes[n] ELSE Blank]

\* The fields are read from the node when the panel appears; a click on another
\* node changes the node of the panel that is open, not its fields.
ClickNode(n) ==
  /\ n \in Nodes(canvas) /\ (panel # None => panel.node # n)
  /\ panel' = IF panel = None
              THEN [node |-> n, fields |-> FieldsOf(n), json |-> TRUE,
                    asked |-> None, result |-> None]
              ELSE [panel EXCEPT !.node = n]
  /\ Edited /\ NoSnapshot /\ UNCHANGED canvas

ClosePanel ==
  /\ panel # None /\ panel' = None
  /\ NoSnapshot /\ UNCHANGED <<canvas, edits>>

HasJson == TypeOf[panel.node] = "HTTP_AGENT"

\* The form shows the fields of the node's type; headers and body are JSON text.
TypeField(text, json) ==
  /\ Edited /\ panel # None
  /\ HasJson \/ json = panel.json
  /\ panel' = [panel EXCEPT !.fields[TypeOf[panel.node]] = text, !.json = json]
  /\ panel' # panel
  /\ NoSnapshot /\ UNCHANGED canvas

\* getComputedConfig, which throws when the JSON does not parse.
Parses == HasJson => panel.json
ComputedConfig == panel.fields[TypeOf[panel.node]]

\* onConfigSave; a node an undo has taken away is not there to be changed.
SaveConfig ==
  /\ Edited /\ panel # None /\ Parses
  /\ TakeSnapshot
  /\ canvas' = IF panel.node \in Nodes(canvas)
               THEN [canvas EXCEPT !.nodes[panel.node] = ComputedConfig] ELSE canvas
  /\ panel' = None

\* Run Test Step; the button waits for the answer.
TestStep ==
  /\ panel # None /\ Parses /\ panel.asked = None
  /\ panel' = [panel EXCEPT !.asked = [node |-> panel.node, config |-> ComputedConfig]]
  /\ Edited /\ NoSnapshot /\ UNCHANGED canvas

\* The answer is shown, whatever the panel is about by now, or is an error.
TestAnswer ==
  /\ panel # None /\ panel.asked # None
  /\ \E result \in {panel.asked, panel.result} :
       panel' = [panel EXCEPT !.asked = None, !.result = result]
  /\ NoSnapshot /\ UNCHANGED <<canvas, edits>>

-----------------------------------------------------------------------------

EditHistory == Undo \/ Redo

EditEdges ==
  \/ \E link \in Pairs : Connect(link)
  \/ \E old \in canvas.edges, link \in Pairs : Reconnect(old, link)
  \/ \E old \in canvas.edges : DropReconnect(old) \/ Disconnect(old)

EditNodes ==
  \/ \E n \in NodeIds : DeleteFromNode(n)
  \/ DeleteFromPanel
  \/ \E ns \in SUBSET Nodes(canvas), es \in SUBSET canvas.edges : DeleteKey(ns, es)
  \/ AutoLayout
  \/ \E file \in Files : ImportJson(file)

UsePanel ==
  \/ \E n \in NodeIds : ClickNode(n)
  \/ ClosePanel
  \/ \E text \in Texts, json \in BOOLEAN : TypeField(text, json)
  \/ SaveConfig
  \/ TestStep
  \/ TestAnswer

EditCanvas ==
  \/ (EditHistory \/ EditEdges \/ EditNodes \/ UsePanel) /\ UNCHANGED used
  \/ \E n \in NodeIds : DropNode(n)
=============================================================================
