--------------------------- MODULE BuilderProofs ---------------------------
(***************************************************************************)
(* Proofs about Builder and the canvas it extends, for any nodes, types,   *)
(* files and lengths of the history, and any number of visits, failures    *)
(* and saves.                                                              *)
(*                                                                         *)
(* Good is what a canvas may be: well formed and, if the files are, with   *)
(* both ends of each edge.  Each handler makes a good canvas of the one it *)
(* has or takes one from where only good ones were put, so the pages, the  *)
(* draft, the requests and the database hold nothing else.                 *)
(***************************************************************************)
EXTENDS Builder, TLAPS, SequenceTheorems

-----------------------------------------------------------------------------
(* Canvases. *)

\* The parts of a canvas.
LEMMA CanvasParts ==
  ASSUME NEW c \in Canvases
  PROVE  /\ c = [nodes |-> c.nodes, edges |-> c.edges]
         /\ Nodes(c) \subseteq NodeIds /\ c.nodes \in [Nodes(c) -> Texts]
         /\ c.edges \subseteq [id : EdgeIds, source : NodeIds, target : NodeIds]
<1>1. c.nodes \in UNION {[ns -> Texts] : ns \in SUBSET NodeIds}
  BY DEF Canvases
<1>2. PICK ns \in SUBSET NodeIds : c.nodes \in [ns -> Texts]
  BY <1>1
<1> QED
  BY <1>2 DEF Canvases, Nodes

\* A canvas is made of any nodes with configurations and any edges.
LEMMA MakeCanvas ==
  ASSUME NEW ns \in SUBSET NodeIds, NEW f \in [ns -> Texts],
         NEW es \in SUBSET [id : EdgeIds, source : NodeIds, target : NodeIds]
  PROVE  /\ [nodes |-> f, edges |-> es] \in Canvases
         /\ Nodes([nodes |-> f, edges |-> es]) = ns
BY DEF Canvases, Nodes

\* It is good if its edges have their ends.
LEMMA MakeGood ==
  ASSUME NEW ns \in SUBSET NodeIds, NEW f \in [ns -> Texts],
         NEW es \in SUBSET [id : EdgeIds, source : NodeIds, target : NodeIds],
         FilesClosed => \A e \in es : e.source \in ns /\ e.target \in ns
  PROVE  [nodes |-> f, edges |-> es] \in Good
BY MakeCanvas DEF Good, Closed

\* The empty canvas is good.
LEMMA EmptyGood == EmptyCanvas \in Good
<1>1. [n \in {} |-> Blank] \in [{} -> Texts]
  OBVIOUS
<1> QED
  BY <1>1, MakeGood DEF EmptyCanvas

\* So is a file.
LEMMA FilesGood == Files \subseteq Good
BY CanvasAssumption DEF Good, FilesClosed

\* Taking nodes away with their edges.
LEMMA WithoutGood ==
  ASSUME NEW c \in Good, NEW ns
  PROVE  Without(c, ns) \in Good
<1> DEFINE kept == Nodes(c) \ ns
           f == [n \in kept |-> c.nodes[n]]
           es == {e \in c.edges : e.source \notin ns /\ e.target \notin ns}
<1>1. c \in Canvases /\ (FilesClosed => Closed(c))
  BY DEF Good
<1>2. /\ Nodes(c) \subseteq NodeIds /\ c.nodes \in [Nodes(c) -> Texts]
      /\ c.edges \subseteq [id : EdgeIds, source : NodeIds, target : NodeIds]
  BY <1>1, CanvasParts
<1>3. kept \in SUBSET NodeIds /\ f \in [kept -> Texts]
  BY <1>2
<1>4. es \in SUBSET [id : EdgeIds, source : NodeIds, target : NodeIds]
  BY <1>2
<1>5. FilesClosed => \A e \in es : e.source \in kept /\ e.target \in kept
  BY <1>1 DEF Closed
<1> HIDE DEF kept, f, es
<1>6. [nodes |-> f, edges |-> es] \in Good
  BY <1>3, <1>4, <1>5, MakeGood
<1> QED
  BY <1>6 DEF Without, kept, f, es

\* Taking edges away.
LEMMA EdgesGood ==
  ASSUME NEW c \in Good, NEW es \in SUBSET c.edges
  PROVE  [c EXCEPT !.edges = es] \in Good
<1>1. c \in Canvases /\ (FilesClosed => Closed(c))
  BY DEF Good
<1>2. /\ c = [nodes |-> c.nodes, edges |-> c.edges]
      /\ Nodes(c) \subseteq NodeIds /\ c.nodes \in [Nodes(c) -> Texts]
      /\ c.edges \subseteq [id : EdgeIds, source : NodeIds, target : NodeIds]
  BY <1>1, CanvasParts
<1>3. [c EXCEPT !.edges = es] = [nodes |-> c.nodes, edges |-> es]
  BY <1>2
<1>4. FilesClosed => \A e \in es : e.source \in Nodes(c) /\ e.target \in Nodes(c)
  BY <1>1 DEF Closed
<1>5. es \in SUBSET [id : EdgeIds, source : NodeIds, target : NodeIds]
  BY <1>2
<1>6. [nodes |-> c.nodes, edges |-> es] \in Good
  BY <1>2, <1>4, <1>5, MakeGood
<1> QED
  BY <1>3, <1>6

\* Drawing an edge between two nodes that are there.
LEMMA LinkGood ==
  ASSUME NEW c \in Good, NEW es \in SUBSET c.edges, NEW link \in Nodes(c) \X Nodes(c)
  PROVE  [c EXCEPT !.edges = es \cup {Edge(link)}] \in Good
<1>1. c \in Canvases /\ (FilesClosed => Closed(c))
  BY DEF Good
<1>2. /\ c = [nodes |-> c.nodes, edges |-> c.edges]
      /\ Nodes(c) \subseteq NodeIds /\ c.nodes \in [Nodes(c) -> Texts]
      /\ c.edges \subseteq [id : EdgeIds, source : NodeIds, target : NodeIds]
  BY <1>1, CanvasParts
<1>3. [c EXCEPT !.edges = es \cup {Edge(link)}] = [nodes |-> c.nodes, edges |-> es \cup {Edge(link)}]
  BY <1>2
<1>4. /\ Edge(link).source \in Nodes(c) /\ Edge(link).target \in Nodes(c)
      /\ Edge(link) \in [id : EdgeIds, source : NodeIds, target : NodeIds]
  BY <1>2 DEF Edge, EdgeIds, Pairs
<1>5. FilesClosed => \A e \in es \cup {Edge(link)} : e.source \in Nodes(c) /\ e.target \in Nodes(c)
  BY <1>1, <1>4 DEF Closed
<1>6. es \cup {Edge(link)} \in SUBSET [id : EdgeIds, source : NodeIds, target : NodeIds]
  BY <1>2, <1>4
<1>7. [nodes |-> c.nodes, edges |-> es \cup {Edge(link)}] \in Good
  BY <1>2, <1>5, <1>6, MakeGood
<1> QED
  BY <1>3, <1>7

\* Adding nodes, and configuring them.
LEMMA NodesGood ==
  ASSUME NEW c \in Good, NEW ns \in SUBSET NodeIds, Nodes(c) \subseteq ns, NEW f \in [ns -> Texts]
  PROVE  [c EXCEPT !.nodes = f] \in Good
<1>1. c \in Canvases /\ (FilesClosed => Closed(c))
  BY DEF Good
<1>2. /\ c = [nodes |-> c.nodes, edges |-> c.edges]
      /\ c.edges \subseteq [id : EdgeIds, source : NodeIds, target : NodeIds]
  BY <1>1, CanvasParts
<1>3. [c EXCEPT !.nodes = f] = [nodes |-> f, edges |-> c.edges]
  BY <1>2
<1>4. FilesClosed => \A e \in c.edges : e.source \in ns /\ e.target \in ns
  BY <1>1 DEF Closed
<1>5. [nodes |-> f, edges |-> c.edges] \in Good
  BY <1>2, <1>4, MakeGood
<1> QED
  BY <1>3, <1>5

-----------------------------------------------------------------------------
(* The history. *)

\* What is cut from a history was in it.
LEMMA LastOfSeq ==
  ASSUME NEW S, NEW s \in Seq(S), NEW k \in Nat \ {0}
  PROVE  LastOf(s, k) \in Seq(S)
<1>1. CASE Len(s) > k
  <2>1. /\ Len(s) - k + 1 \in 1 .. Len(s) + 1 /\ Len(s) \in Len(s) - k .. Len(s)
        /\ Len(s) \in Nat
    BY <1>1
  <2> QED
    BY <1>1, <2>1, SubSeqProperties DEF LastOf
<1>2. CASE ~(Len(s) > k)
  BY <1>2 DEF LastOf
<1> QED
  BY <1>1, <1>2

\* The canvas and its history hold good canvases.
CanvasGood == canvas \in Good /\ past \in Seq(Good) /\ future \in Seq(Good)

\* A snapshot is of a good canvas, so the history stays good.
LEMMA SnapshotGood ==
  ASSUME CanvasGood, TakeSnapshot \/ TakeTwoSnapshots \/ NoSnapshot
  PROVE  past' \in Seq(Good) /\ future' \in Seq(Good)
<1> USE DEF CanvasGood
<1>0. MaxHistory \in Nat \ {0} /\ <<>> \in Seq(Good)
  BY CanvasAssumption, EmptySeq
<1>1. CASE TakeSnapshot
  <2>1. Append(past, canvas) \in Seq(Good)
    OBVIOUS
  <2>2. LastOf(Append(past, canvas), MaxHistory) \in Seq(Good)
    BY <1>0, <2>1, LastOfSeq
  <2> QED
    BY <1>0, <1>1, <2>2 DEF TakeSnapshot
<1>2. CASE TakeTwoSnapshots
  <2>1. past \o (IF skip THEN <<canvas>> ELSE <<canvas, canvas>>) \in Seq(Good)
    <3>1. <<canvas>> \in Seq(Good) /\ <<canvas, canvas>> \in Seq(Good)
      OBVIOUS
    <3> QED
      BY <3>1
  <2>2. LastOf(past \o (IF skip THEN <<canvas>> ELSE <<canvas, canvas>>), MaxHistory) \in Seq(Good)
    BY <1>0, <2>1, LastOfSeq
  <2> QED
    BY <1>0, <1>2, <2>2 DEF TakeTwoSnapshots
<1>3. CASE NoSnapshot
  BY <1>3 DEF NoSnapshot
<1> QED
  BY <1>1, <1>2, <1>3

\* Undo and redo exchange good canvases.
LEMMA HistoryGood == ASSUME CanvasGood, EditHistory PROVE CanvasGood'
<1> USE DEF CanvasGood
<1>1. CASE Undo
  <2>1. past \in Seq(Good) /\ past # <<>> /\ Len(past) \in Nat \ {0}
    BY <1>1, EmptySeq DEF Undo
  <2>2. past[Len(past)] \in Good
    BY <2>1
  <2>3. SubSeq(past, 1, Len(past) - 1) \in Seq(Good)
    BY <2>1, SubSeqProperties
  <2>4. <<canvas>> \o future \in Seq(Good)
    <3>1. <<canvas>> \in Seq(Good)
      OBVIOUS
    <3> QED
      BY <3>1
  <2> QED
    BY <1>1, <2>2, <2>3, <2>4 DEF Undo
<1>2. CASE Redo
  <2>1. Head(future) \in Good /\ Tail(future) \in Seq(Good)
    BY <1>2, HeadTailProperties DEF Redo
  <2>2. Append(past, canvas) \in Seq(Good)
    OBVIOUS
  <2> QED
    BY <1>2, <2>1, <2>2 DEF Redo
<1> QED
  BY <1>1, <1>2 DEF EditHistory

-----------------------------------------------------------------------------
(* The handlers of the canvas. *)

\* An edge is drawn between nodes of the canvas, or taken away.
LEMMA EdgesStep == ASSUME CanvasGood, EditEdges PROVE canvas' \in Good
<1> USE DEF CanvasGood
<1>1. ASSUME NEW link \in Pairs, Connect(link) PROVE canvas' \in Good
  <2>1. link \in Nodes(canvas) \X Nodes(canvas)
    BY <1>1 DEF Connect, Pairs
  <2>2. canvas.edges \in SUBSET canvas.edges
    OBVIOUS
  <2>3. [canvas EXCEPT !.edges = canvas.edges \cup {Edge(link)}] \in Good
    BY <2>1, <2>2, LinkGood
  <2> QED
    BY <1>1, <2>3 DEF Connect
<1>2. ASSUME NEW old \in canvas.edges, NEW link \in Pairs, Reconnect(old, link) PROVE canvas' \in Good
  <2> DEFINE es == DropEdges(canvas.edges, old.id)
             with == DropEdges(es \cup {Edge(link)}, old.id)
  <2>1. link \in Nodes(canvas) \X Nodes(canvas)
    BY <1>2 DEF Reconnect, Pairs
  <2>2. es \in SUBSET canvas.edges
    BY DEF DropEdges
  <2>3. with \in SUBSET canvas.edges \/ with = es \cup {Edge(link)}
    BY <2>2 DEF DropEdges
  <2>4. canvas' = [canvas EXCEPT !.edges = with]
    BY <1>2 DEF Reconnect
  <2> HIDE DEF es, with
  <2> QED
    BY <2>1, <2>2, <2>3, <2>4, LinkGood, EdgesGood
<1>3. ASSUME NEW old \in canvas.edges, DropReconnect(old) \/ Disconnect(old) PROVE canvas' \in Good
  <2>1. DropEdges(canvas.edges, old.id) \in SUBSET canvas.edges
    BY DEF DropEdges
  <2>2. canvas' = [canvas EXCEPT !.edges = DropEdges(canvas.edges, old.id)]
    BY <1>3 DEF DropReconnect, Disconnect
  <2> QED
    BY <2>1, <2>2, EdgesGood
<1> QED
  BY <1>1, <1>2, <1>3 DEF EditEdges

\* Nodes go with their edges; a file or nothing takes the canvas's place.
LEMMA NodesStep == ASSUME CanvasGood, EditNodes PROVE canvas' \in Good
<1> USE DEF CanvasGood
<1>1. ASSUME NEW n \in NodeIds, DeleteFromNode(n) PROVE canvas' \in Good
  BY <1>1, WithoutGood DEF DeleteFromNode
<1>2. CASE DeleteFromPanel
  BY <1>2, WithoutGood DEF DeleteFromPanel
<1>3. ASSUME NEW ns \in SUBSET Nodes(canvas), NEW es \in SUBSET canvas.edges, DeleteKey(ns, es)
      PROVE  canvas' \in Good
  <2>1. canvas.edges \ es \in SUBSET canvas.edges
    OBVIOUS
  <2>2. [canvas EXCEPT !.edges = canvas.edges \ es] \in Good
    BY <2>1, EdgesGood
  <2>3. Without([canvas EXCEPT !.edges = canvas.edges \ es], ns) \in Good
    BY <2>2, WithoutGood
  <2> QED
    BY <1>3, <2>3 DEF DeleteKey
<1>4. CASE AutoLayout
  BY <1>4 DEF AutoLayout
<1>5. ASSUME NEW file \in Files, ImportJson(file) PROVE canvas' \in Good
  BY <1>5, FilesGood DEF ImportJson
<1> QED
  BY <1>1, <1>2, <1>3, <1>4, <1>5 DEF EditNodes

\* A new node has no edges.
LEMMA DropStep ==
  ASSUME CanvasGood, NEW n \in NodeIds, DropNode(n)
  PROVE  canvas' \in Good
<1> DEFINE ns == Nodes(canvas) \cup {n}
           f == [m \in ns |-> IF m = n THEN Blank ELSE canvas.nodes[m]]
<1>1. Nodes(canvas) \subseteq NodeIds /\ canvas.nodes \in [Nodes(canvas) -> Texts]
  BY CanvasParts DEF CanvasGood, Good
<1>2. ns \in SUBSET NodeIds /\ Nodes(canvas) \subseteq ns /\ f \in [ns -> Texts]
  BY <1>1, CanvasAssumption
<1>3. canvas' = [canvas EXCEPT !.nodes = f]
  BY DEF DropNode
<1> HIDE DEF ns, f
<1> QED
  BY <1>2, <1>3, NodesGood DEF CanvasGood

\* The panel shows texts, whichever node it is about.
PanelOK == panel \in Panels \cup {None}

\* What the panel saves is a text, for its node if it is still there.
LEMMA PanelStep ==
  ASSUME CanvasGood, PanelOK, UsePanel
  PROVE  canvas' \in Good /\ PanelOK'
<1> USE DEF CanvasGood, PanelOK
<1>0. Nodes(canvas) \subseteq NodeIds /\ canvas.nodes \in [Nodes(canvas) -> Texts]
  BY CanvasParts DEF Good
<1>1. ASSUME NEW n \in NodeIds, ClickNode(n) PROVE canvas' \in Good /\ PanelOK'
  <2>1. n \in Nodes(canvas) /\ FieldsOf(n) \in [Types -> Texts]
    BY <1>0, <1>1, CanvasAssumption DEF ClickNode, FieldsOf
  <2>2. CASE panel = None
    BY <1>1, <2>1, <2>2 DEF ClickNode, Panels
  <2>3. CASE panel # None
    BY <1>1, <2>3 DEF ClickNode, Panels
  <2>4. canvas' \in Good
    BY <1>1 DEF ClickNode
  <2> QED
    BY <2>2, <2>3, <2>4
<1>2. CASE ClosePanel
  BY <1>2 DEF ClosePanel
<1>3. ASSUME NEW text \in Texts, NEW json \in BOOLEAN, TypeField(text, json)
      PROVE  canvas' \in Good /\ PanelOK'
  <2>1. panel \in Panels /\ panel.node \in NodeIds /\ canvas' = canvas
        /\ panel' = [panel EXCEPT !.fields[TypeOf[panel.node]] = text, !.json = json]
    BY <1>3 DEF TypeField, Panels
  <2>2. panel.fields \in [Types -> Texts]
    BY <2>1 DEF Panels
  <2>3. [panel.fields EXCEPT ![TypeOf[panel.node]] = text] \in [Types -> Texts]
    BY <2>2
  <2>4. panel' \in Panels
    BY <2>1, <2>3 DEF Panels
  <2> QED
    BY <2>1, <2>4
<1>4. CASE SaveConfig
  <2>1. panel \in Panels /\ panel.node \in NodeIds /\ panel' = None
    BY <1>4 DEF SaveConfig, Panels
  <2>2. ComputedConfig \in Texts
    BY <2>1 DEF ComputedConfig, Panels, Types
  <2>3. CASE panel.node \in Nodes(canvas)
    <3> DEFINE f == [canvas.nodes EXCEPT ![panel.node] = ComputedConfig]
    <3>1. f \in [Nodes(canvas) -> Texts]
      BY <1>0, <2>2
    <3>2. canvas' = [canvas EXCEPT !.nodes = f]
      BY <1>4, <2>3 DEF SaveConfig
    <3> HIDE DEF f
    <3>3. canvas' \in Good
      BY <1>0, <3>1, <3>2, NodesGood
    <3> QED
      BY <2>1, <3>3
  <2>4. CASE panel.node \notin Nodes(canvas)
    BY <1>4, <2>1, <2>4 DEF SaveConfig
  <2> QED
    BY <2>3, <2>4
<1>5. CASE TestStep
  <2>1. panel \in Panels /\ panel.node \in NodeIds /\ canvas' = canvas
        /\ panel' = [panel EXCEPT !.asked = [node |-> panel.node, config |-> ComputedConfig]]
    BY <1>5 DEF TestStep, Panels
  <2>2. ComputedConfig \in Texts
    BY <2>1 DEF ComputedConfig, Panels, Types
  <2>3. panel' \in Panels
    BY <2>1, <2>2 DEF Panels, Tests
  <2> QED
    BY <2>1, <2>3
<1>6. CASE TestAnswer
  <2>1. panel \in Panels /\ panel.asked # None /\ canvas' = canvas
    BY <1>6 DEF TestAnswer
  <2>2. PICK result \in {panel.asked, panel.result} :
          panel' = [panel EXCEPT !.asked = None, !.result = result]
    BY <1>6 DEF TestAnswer
  <2>3. panel' \in Panels
    BY <2>1, <2>2 DEF Panels
  <2> QED
    BY <2>1, <2>3
<1> QED
  BY <1>1, <1>2, <1>3, <1>4, <1>5, <1>6 DEF UsePanel

\* A handler of the canvas leaves its history, panel and bookkeeping well typed,
\* and counts every change of the canvas.
LEMMA EditStep ==
  ASSUME CanvasTypeOK, CanvasGood, EditCanvas
  PROVE  /\ CanvasGood' /\ PanelOK'
         /\ skip' \in BOOLEAN /\ used' \subseteq NodeIds /\ edits' \in 0 .. MaxEdits
         /\ canvas' # canvas => edits' > edits
<1> USE DEF PanelOK
<1>0. PanelOK /\ skip \in BOOLEAN /\ used \subseteq NodeIds /\ edits \in 0 .. MaxEdits /\ MaxEdits \in Nat
  BY CanvasAssumption DEF CanvasTypeOK
<1>9. Edited => edits' \in 0 .. MaxEdits /\ edits' > edits
  BY <1>0 DEF Edited
<1>8. TakeSnapshot \/ TakeTwoSnapshots \/ NoSnapshot => skip' \in BOOLEAN
  BY <1>0 DEF TakeSnapshot, TakeTwoSnapshots, NoSnapshot
<1>7. ASSUME EditHistory PROVE PanelOK' /\ skip' \in BOOLEAN /\ Edited
  BY <1>0, <1>7 DEF EditHistory, Undo, Redo
<1>6. ASSUME EditEdges
      PROVE  PanelOK' /\ Edited /\ (TakeSnapshot \/ TakeTwoSnapshots \/ NoSnapshot)
  BY <1>0, <1>6 DEF EditEdges, Connect, Reconnect, DropReconnect, Disconnect
<1>5. ASSUME EditNodes
      PROVE  PanelOK' /\ Edited /\ (TakeSnapshot \/ NoSnapshot)
  BY <1>0, <1>5 DEF EditNodes, DeleteFromNode, DeleteFromPanel, DeleteKey, CloseIf, AutoLayout, ImportJson
<1>4. ASSUME UsePanel
      PROVE  (TakeSnapshot \/ NoSnapshot) /\ (Edited \/ UNCHANGED <<canvas, edits>>)
  BY <1>4 DEF UsePanel, ClickNode, ClosePanel, TypeField, SaveConfig, TestStep, TestAnswer
<1>3. ASSUME NEW n \in NodeIds, DropNode(n)
      PROVE  PanelOK' /\ Edited /\ TakeSnapshot /\ used' \subseteq NodeIds
  BY <1>0, <1>3 DEF DropNode
<1>10. CASE EditHistory /\ UNCHANGED used
  BY <1>0, <1>7, <1>9, <1>10, HistoryGood
<1>11. CASE EditEdges /\ UNCHANGED used
  BY <1>0, <1>6, <1>8, <1>9, <1>11, EdgesStep, SnapshotGood DEF CanvasGood
<1>12. CASE EditNodes /\ UNCHANGED used
  BY <1>0, <1>5, <1>8, <1>9, <1>12, NodesStep, SnapshotGood DEF CanvasGood
<1>13. CASE UsePanel /\ UNCHANGED used
  BY <1>0, <1>4, <1>8, <1>9, <1>13, PanelStep, SnapshotGood DEF CanvasGood
<1>14. ASSUME NEW n \in NodeIds, DropNode(n)
       PROVE  /\ CanvasGood' /\ PanelOK'
              /\ skip' \in BOOLEAN /\ used' \subseteq NodeIds /\ edits' \in 0 .. MaxEdits
              /\ canvas' # canvas => edits' > edits
  BY <1>0, <1>3, <1>8, <1>9, <1>14, DropStep, SnapshotGood DEF CanvasGood
<1> QED
  BY <1>10, <1>11, <1>12, <1>13, <1>14 DEF EditCanvas

-----------------------------------------------------------------------------
(* The pages. *)

\* Each operation of the query cache takes entries to entries.
LEMMA EntryOps ==
  ASSUME NEW S, NEW e \in Entry(S), NEW value \in S
  PROVE  /\ Mount(e) \in Entry(S) /\ Refetch(e) \in Entry(S) /\ Invalidate(e, TRUE) \in Entry(S)
         /\ Fail(e) \in Entry(S) /\ Answer(e, value) \in Entry(S) /\ Settle(e) \in Entry(S)
         /\ [e EXCEPT !.stale = TRUE] \in Entry(S)
<1>1. ASSUME NEW d \in Entry(S) PROVE Ask(d) \in Entry(S)
  BY DEF Entry, Ask, HasData
<1>2. [e EXCEPT !.stale = TRUE] \in Entry(S)
  BY DEF Entry
<1>3. ASSUME NEW d \in Entry(S) PROVE Fetch(d) \in Entry(S) /\ Refetch(d) \in Entry(S)
  BY <1>1 DEF Fetch, Refetch
<1>4. Mount(e) \in Entry(S) /\ Invalidate(e, TRUE) \in Entry(S)
  BY <1>2, <1>3 DEF Mount, Invalidate
<1>5. Fail(e) \in Entry(S) /\ Answer(e, value) \in Entry(S) /\ Settle(e) \in Entry(S)
  BY DEF Entry, Fail, Answer, Settle, EmptyEntry
<1> QED
  BY <1>2, <1>3, <1>4, <1>5

\* So an empty entry is one.
LEMMA EmptyEntryOK == ASSUME NEW S PROVE EmptyEntry \in Entry(S)
BY DEF Entry, EmptyEntry

\* A page that opens, loads or closes has a canvas without history or panel.
LEMMA FreshGood ==
  ASSUME NEW c \in Good, FreshCanvas(c)
  PROVE  CanvasGood' /\ CanvasTypeOK'
<1>1. c \in Canvases /\ Nodes(c) \subseteq NodeIds
  BY CanvasParts DEF Good
<1>2. <<>> \in Seq(Good) /\ <<>> \in Seq(Canvases)
  BY EmptySeq
<1>3. 0 \in 0 .. MaxEdits
  BY CanvasAssumption
<1> QED
  BY <1>1, <1>2, <1>3 DEF FreshCanvas, CanvasGood, CanvasTypeOK

\* A step edits the canvas, gives the page another one, or leaves it.
LEMMA CanvasCases ==
  ASSUME GoodInv, [Next]_vars
  PROVE  \/ UNCHANGED canvasVars
         \/ \E c \in Good : FreshCanvas(c)
         \/ Edit
<1> USE EmptyGood
<1>1. LeavePage => \E c \in Good : FreshCanvas(c)
  BY DEF LeavePage
<1>2. OpenNew => \E c \in Good : FreshCanvas(c)
  BY DEF OpenNew, GoodInv
<1>3. OpenEdit => \E c \in Good : FreshCanvas(c)
  BY DEF OpenEdit
<1>4. Load => \E c \in Good : FreshCanvas(c)
  BY DEF Load, GoodInv, HasData, Entry
<1>5. Leave \/ CreateSucceeds \/ UpdateSucceeds => LeavePage
  BY DEF Leave, CreateSucceeds, UpdateSucceeds
<1>6. QueryRefused \/ SaveFails => LeavePage \/ UNCHANGED canvasVars
  BY DEF QueryRefused, SaveFails
<1>7. \/ AnswerQuery \/ SettleQuery \/ FailQuery \/ Retry \/ Age
      \/ SaveSignedOut \/ Save \/ SignInOverCanvas \/ CloseModal
      \/ StoreDefinition \/ RefuseSave \/ LoseSave
      \/ SignIn \/ EndSession \/ LogOut \/ RestoreVersion \/ UNCHANGED vars
      => UNCHANGED canvasVars
  BY DEF AnswerQuery, SettleQuery, FailQuery, Retry, Age, SaveSignedOut, Save, SignInOverCanvas, CloseModal,
     StoreDefinition, RefuseSave, LoseSave, SignIn, EndSession, LogOut, RestoreVersion, vars,
     CacheOnly, SaveOnly, Elsewhere
<1> QED
  BY <1>1, <1>2, <1>3, <1>4, <1>5, <1>6, <1>7 DEF Next

\* A sequence of good canvases is one of canvases.
LEMMA GoodTypes ==
  ASSUME CanvasGood
  PROVE  canvas \in Canvases /\ past \in Seq(Canvases) /\ future \in Seq(Canvases)
<1>1. Good \subseteq Canvases
  BY DEF Good
<1> QED
  BY <1>1, SeqMonotonic DEF CanvasGood

\* The canvas and its history stay good and well typed.
LEMMA CanvasStep ==
  ASSUME CanvasTypeOK, GoodInv, [Next]_vars
  PROVE  CanvasGood' /\ CanvasTypeOK'
<1>0. CanvasGood
  BY DEF CanvasGood, GoodInv
<1>1. CASE UNCHANGED canvasVars
  BY <1>0, <1>1 DEF canvasVars, CanvasGood, CanvasTypeOK
<1>2. CASE \E c \in Good : FreshCanvas(c)
  BY <1>2, FreshGood
<1>3. CASE Edit
  <2>1. /\ CanvasGood' /\ PanelOK'
        /\ skip' \in BOOLEAN /\ used' \subseteq NodeIds /\ edits' \in 0 .. MaxEdits
    BY <1>0, <1>3, EditStep DEF Edit
  <2>2. Good \subseteq Canvases
    BY DEF Good
  <2>3. canvas' \in Canvases /\ past' \in Seq(Canvases) /\ future' \in Seq(Canvases)
    BY <2>1, <2>2, SeqMonotonic DEF CanvasGood
  <2> QED
    BY <2>1, <2>3 DEF CanvasTypeOK, PanelOK
<1> QED
  BY <1>1, <1>2, <1>3, CanvasCases

\* The draft, the request, the database and the query hold good canvases.
LEMMA StoreStep ==
  ASSUME GoodInv, [Next]_vars
  PROVE  /\ {draft, saving}' \subseteq Good \cup {None}
         /\ stored' \in Good /\ created' \subseteq Good
<1> USE DEF GoodInv
<1>1. CASE SaveSignedOut
  BY <1>1 DEF SaveSignedOut
<1>2. CASE Save \/ SignInOverCanvas
  BY <1>2 DEF Save, SignInOverCanvas, Send, storeVars
<1>3. CASE StoreDefinition
  BY <1>3 DEF StoreDefinition, SaveOnly
<1>4. CASE CreateSucceeds \/ UpdateSucceeds \/ SaveFails \/ QueryRefused
  BY <1>4 DEF CreateSucceeds, UpdateSucceeds, SaveFails, QueryRefused, storeVars
<1>5. CASE LogOut
  BY <1>5 DEF LogOut, Elsewhere
<1>6. CASE RestoreVersion
  BY <1>6, FilesGood DEF RestoreVersion, Elsewhere
<1>7. \/ OpenNew \/ OpenEdit \/ Load \/ Edit \/ Leave
      \/ AnswerQuery \/ SettleQuery \/ FailQuery \/ Retry \/ Age
      \/ CloseModal \/ RefuseSave \/ LoseSave \/ SignIn \/ EndSession \/ UNCHANGED vars
      => UNCHANGED <<draft, saving, stored, created>>
  BY DEF OpenNew, OpenEdit, Load, Edit, Leave, AnswerQuery, SettleQuery, FailQuery, Retry, Age,
     CloseModal, RefuseSave, LoseSave, SignIn, EndSession, vars, CacheOnly, SaveOnly, Elsewhere, storeVars
<1> QED
  BY <1>1, <1>2, <1>3, <1>4, <1>5, <1>6, <1>7 DEF Next

\* An answer is what the database held.
LEMMA EntryStep ==
  ASSUME GoodInv, [Next]_vars
  PROVE  entry' \in Entry(Good)
<1> USE EmptyEntryOK DEF GoodInv
<1>0. /\ Mount(entry) \in Entry(Good) /\ Refetch(entry) \in Entry(Good) /\ Invalidate(entry, TRUE) \in Entry(Good)
      /\ Fail(entry) \in Entry(Good) /\ Answer(entry, stored) \in Entry(Good) /\ Settle(entry) \in Entry(Good)
      /\ [entry EXCEPT !.stale = TRUE] \in Entry(Good)
  BY EntryOps
<1>1. Reload => entry' \in Entry(Good)
  BY DEF Reload
<1>2. CASE OpenEdit \/ AnswerQuery \/ SettleQuery \/ FailQuery \/ Retry \/ Age
  BY <1>0, <1>2 DEF OpenEdit, AnswerQuery, SettleQuery, FailQuery, Retry, Age
<1>3. CASE Leave \/ QueryRefused \/ SaveFails
  BY <1>0, <1>1, <1>3 DEF Leave, QueryRefused, SaveFails
<1>4. CASE UpdateSucceeds \/ RestoreVersion
  BY <1>0, <1>4 DEF UpdateSucceeds, RestoreVersion
<1>5. \/ OpenNew \/ Load \/ Edit \/ SaveSignedOut \/ Save \/ SignInOverCanvas \/ CloseModal
      \/ StoreDefinition \/ RefuseSave \/ LoseSave \/ CreateSucceeds
      \/ SignIn \/ EndSession \/ LogOut \/ UNCHANGED vars
      => UNCHANGED entry
  BY DEF OpenNew, Load, Edit, SaveSignedOut, Save, SignInOverCanvas, CloseModal, StoreDefinition, RefuseSave,
     LoseSave, CreateSucceeds, SignIn, EndSession, LogOut, vars, SaveOnly, Elsewhere
<1> QED
  BY <1>2, <1>3, <1>4, <1>5 DEF Next

\* The pages, the session, the outcome and the bounds keep their types.
LEMMA RestStep ==
  ASSUME BuilderTypeOK, GoodInv, [Next]_vars
  PROVE  /\ page' \in {"away", "new", "edit"} /\ {user, session, modal, loaded}' \subseteq BOOLEAN
         /\ outcome' \in {"none", "stored", "refused", "error"}
         /\ asked' \subseteq NodeIds
         /\ visits' \in 0..MaxVisits /\ faults' \in 0..MaxFaults /\ saves' \in 0..MaxSaves
<1> USE BuilderAssumption DEF BuilderTypeOK
<1>0. Nodes(canvas) \subseteq NodeIds
  BY CanvasParts DEF GoodInv, Good
<1>1. visits' \in 0..MaxVisits
  <2>1. visits' = visits \/ (visits < MaxVisits /\ visits' = visits + 1)
    BY DEF Next, vars, bounds, OpenNew, OpenEdit, Visit, Load, Edit, Leave, AnswerQuery, SettleQuery, FailQuery,
       QueryRefused, Retry, Age, SaveSignedOut, Save, SignInOverCanvas, CloseModal, StoreDefinition, RefuseSave,
       LoseSave, CreateSucceeds, UpdateSucceeds, SaveFails, SignIn, EndSession, LogOut, RestoreVersion,
       CacheOnly, SaveOnly, Elsewhere
  <2> QED
    BY <2>1
<1>2. faults' \in 0..MaxFaults
  <2>1. faults' = faults \/ (faults < MaxFaults /\ faults' = faults + 1)
    BY DEF Next, vars, bounds, Fault, OpenNew, OpenEdit, Load, Edit, Leave, AnswerQuery, SettleQuery, FailQuery,
       QueryRefused, Retry, Age, SaveSignedOut, Save, SignInOverCanvas, CloseModal, StoreDefinition, RefuseSave,
       LoseSave, CreateSucceeds, UpdateSucceeds, SaveFails, SignIn, EndSession, LogOut, RestoreVersion,
       CacheOnly, SaveOnly, Elsewhere
  <2> QED
    BY <2>1
<1>3. saves' \in 0..MaxSaves
  <2>1. saves' = saves \/ (saves < MaxSaves /\ saves' = saves + 1)
    BY DEF Next, vars, bounds, CanSave, OpenNew, OpenEdit, Load, Edit, Leave, AnswerQuery, SettleQuery, FailQuery,
       QueryRefused, Retry, Age, SaveSignedOut, Save, SignInOverCanvas, CloseModal, StoreDefinition, RefuseSave,
       LoseSave, CreateSucceeds, UpdateSucceeds, SaveFails, SignIn, EndSession, LogOut, RestoreVersion,
       CacheOnly, SaveOnly, Elsewhere
  <2> QED
    BY <2>1
<1>4. asked' \subseteq NodeIds
  BY <1>0 DEF Next, vars, OpenNew, OpenEdit, Load, Edit, Leave, AnswerQuery, SettleQuery, FailQuery,
     QueryRefused, Retry, Age, SaveSignedOut, Save, SignInOverCanvas, CloseModal, StoreDefinition, RefuseSave,
     LoseSave, CreateSucceeds, UpdateSucceeds, SaveFails, SignIn, EndSession, LogOut, RestoreVersion,
     CacheOnly, SaveOnly, Elsewhere
<1>5. outcome' \in {"none", "stored", "refused", "error"}
  BY DEF Next, vars, Send, OpenNew, OpenEdit, Load, Edit, Leave, AnswerQuery, SettleQuery, FailQuery,
     QueryRefused, Retry, Age, SaveSignedOut, Save, SignInOverCanvas, CloseModal, StoreDefinition, RefuseSave,
     LoseSave, CreateSucceeds, UpdateSucceeds, SaveFails, SignIn, EndSession, LogOut, RestoreVersion,
     CacheOnly, SaveOnly, Elsewhere
<1>6. page' \in {"away", "new", "edit"} /\ {modal, loaded}' \subseteq BOOLEAN
  BY DEF Next, vars, pageVars, LeavePage, OpenNew, OpenEdit, Load, Edit, Leave, AnswerQuery, SettleQuery,
     FailQuery, QueryRefused, Retry, Age, SaveSignedOut, Save, SignInOverCanvas, CloseModal, StoreDefinition,
     RefuseSave, LoseSave, CreateSucceeds, UpdateSucceeds, SaveFails, SignIn, EndSession, LogOut, RestoreVersion,
     CacheOnly, SaveOnly, Elsewhere
<1>7. {user, session}' \subseteq BOOLEAN
  BY DEF Next, vars, authVars, Reload, OpenNew, OpenEdit, Load, Edit, Leave, AnswerQuery, SettleQuery,
     FailQuery, QueryRefused, Retry, Age, SaveSignedOut, Save, SignInOverCanvas, CloseModal, StoreDefinition,
     RefuseSave, LoseSave, CreateSucceeds, UpdateSucceeds, SaveFails, SignIn, EndSession, LogOut, RestoreVersion,
     CacheOnly, SaveOnly, Elsewhere
<1> QED
  BY <1>1, <1>2, <1>3, <1>4, <1>5, <1>6, <1>7

\* What was asked stays where it is, or where the step puts it.
LEMMA AskedStep == ASSUME GoodInv, AskedInv, [Next]_vars PROVE AskedInv'
<1> USE DEF AskedInv, NodesIn
<1>1. ASSUME UNCHANGED <<page, asked, draft, created, saving, outcome, canvas>> PROVE AskedInv'
  BY <1>1
<1>2. CASE \/ AnswerQuery \/ SettleQuery \/ FailQuery \/ Retry \/ Age \/ CloseModal
           \/ SignIn \/ EndSession \/ RestoreVersion \/ UNCHANGED vars
  <2>1. UNCHANGED <<page, asked, draft, created, saving, outcome, canvas>>
    BY <1>2 DEF AnswerQuery, SettleQuery, FailQuery, Retry, Age, CloseModal, SignIn, EndSession, RestoreVersion,
       vars, CacheOnly, Elsewhere, storeVars, pageVars, canvasVars
  <2> QED
    BY <1>1, <2>1
<1>3. CASE OpenNew
  BY <1>3 DEF OpenNew, Visit, FreshCanvas, storeVars
<1>4. CASE OpenEdit \/ Load
  BY <1>4 DEF OpenEdit, Load, Visit, storeVars
<1>5. CASE Edit
  BY <1>5 DEF Edit, storeVars, pageVars
<1>6. CASE Leave
  BY <1>6 DEF Leave, LeavePage, storeVars
<1>7. CASE QueryRefused
  BY <1>7 DEF QueryRefused, LeavePage, storeVars, canvasVars, pageVars
<1>8. CASE SaveSignedOut
  <2>1. canvas # None
    BY CanvasAssumption DEF GoodInv, Good
  <2> QED
    BY <1>8, <2>1 DEF SaveSignedOut, CanSave, canvasVars
<1>9. CASE Save \/ SignInOverCanvas
  <2>1. /\ UNCHANGED <<page, canvas, asked, draft, created>> /\ page # "away"
        /\ saving' \in {canvas, None} /\ outcome' = "none"
    BY <1>9 DEF Save, SignInOverCanvas, Editing, Send, storeVars, canvasVars, pageVars
  <2> QED
    BY <2>1
<1>10. CASE StoreDefinition
  <2>1. /\ UNCHANGED <<page, asked, draft, saving, canvas>> /\ saving # None
        /\ created \subseteq created' /\ (page = "new" => saving \in created')
    BY <1>10 DEF StoreDefinition, SaveOnly, canvasVars, pageVars
  <2>2. UNION {Nodes(c) : c \in created} \subseteq UNION {Nodes(c) : c \in created'}
    BY <2>1
  <2> QED
    BY <2>1, <2>2
<1>11. CASE RefuseSave \/ LoseSave
  BY <1>11 DEF RefuseSave, LoseSave, SaveOnly, canvasVars, pageVars
<1>12. CASE CreateSucceeds
  <2>1. asked \subseteq UNION {Nodes(c) : c \in created}
    BY <1>12 DEF CreateSucceeds
  <2> QED
    BY <1>12, <2>1 DEF CreateSucceeds, LeavePage
<1>13. CASE UpdateSucceeds \/ SaveFails
  <2>1. UNCHANGED <<asked, draft, created>> /\ saving' = None /\ outcome' = "none"
    BY <1>13 DEF UpdateSucceeds, SaveFails, storeVars
  <2>2. page' = "away" \/ UNCHANGED <<page, canvas>>
    BY <1>13 DEF UpdateSucceeds, SaveFails, LeavePage, canvasVars, pageVars
  <2> QED
    BY <2>1, <2>2
<1>14. CASE LogOut
  BY <1>14 DEF LogOut, Elsewhere, canvasVars, pageVars
<1> QED
  BY <1>2, <1>3, <1>4, <1>5, <1>6, <1>7, <1>8, <1>9, <1>10, <1>11, <1>12, <1>13, <1>14 DEF Next

\* At first every page is closed and nothing is saved or asked.
LEMMA InitInv == Init => IndInv
<1> SUFFICES ASSUME Init PROVE IndInv
  OBVIOUS
<1>1. stored \in Good
  BY FilesGood DEF Init
<1>2. EmptyCanvas \in Good /\ <<>> \in Seq(Good) /\ EmptyEntry \in Entry(Good) /\ EmptyEntry \in Entry(Canvases)
  BY EmptyGood, EmptySeq, EmptyEntryOK
<1>3. GoodInv
  BY <1>1, <1>2 DEF Init, CanvasInit, GoodInv
<1>4. CanvasTypeOK
  <2>1. canvas \in Canvases /\ past \in Seq(Canvases) /\ future \in Seq(Canvases)
    BY <1>3, GoodTypes DEF GoodInv, CanvasGood
  <2>2. 0 \in 0 .. MaxEdits
    BY CanvasAssumption
  <2> QED
    BY <2>1, <2>2 DEF Init, CanvasInit, CanvasTypeOK
<1>5. BuilderTypeOK
  <2>1. 0 \in 0 .. MaxVisits /\ 0 \in 0 .. MaxFaults /\ 0 \in 0 .. MaxSaves
    BY BuilderAssumption
  <2>2. /\ page \in {"away", "new", "edit"} /\ {user, session, modal, loaded} \subseteq BOOLEAN
        /\ outcome = "none" /\ asked = {} /\ entry = EmptyEntry
        /\ {draft, saving} \subseteq Canvases \cup {None} /\ created = {}
    BY DEF Init
  <2>3. stored \in Canvases
    BY <1>1 DEF Good
  <2>4. visits = 0 /\ faults = 0 /\ saves = 0
    BY DEF Init
  <2> QED
    BY <1>2, <1>4, <2>1, <2>2, <2>3, <2>4 DEF BuilderTypeOK
<1>6. AskedInv
  BY DEF Init, AskedInv
<1> QED
  BY <1>3, <1>5, <1>6 DEF IndInv

\* Types are part of what is good.
LEMMA EntryMonotone == Entry(Good) \subseteq Entry(Canvases)
BY DEF Entry, Good

\* Every step keeps the invariant.
LEMMA NextInv == ASSUME IndInv, [Next]_vars PROVE IndInv'
<1> USE DEF IndInv
<1>1. CanvasGood' /\ CanvasTypeOK'
  BY CanvasStep DEF BuilderTypeOK
<1>2. /\ {draft, saving}' \subseteq Good \cup {None}
      /\ stored' \in Good /\ created' \subseteq Good
  BY StoreStep
<1>3. entry' \in Entry(Good)
  BY EntryStep
<1>4. GoodInv'
  BY <1>1, <1>2, <1>3 DEF CanvasGood, GoodInv
<1>5. BuilderTypeOK'
  <2>1. Good \subseteq Canvases /\ entry' \in Entry(Canvases)
    BY <1>3, EntryMonotone DEF Good
  <2> QED
    BY <1>1, <1>2, <2>1, RestStep DEF BuilderTypeOK
<1>6. AskedInv'
  BY AskedStep
<1> QED
  BY <1>4, <1>5, <1>6

-----------------------------------------------------------------------------
(* Theorems. *)

\* The invariant of the two pages holds in every reachable state.
THEOREM Invariance == Spec => []IndInv
<1>1. IndInv /\ [Next]_vars => IndInv'
  BY NextInv
<1> QED
  BY <1>1, InitInv, PTL DEF Spec

\* No edge is ever left without its ends, on the canvas, in the undo history,
\* the draft or what is stored, if the files the user imports had none.
THEOREM EdgesKeepEnds == ASSUME FilesClosed PROVE Spec => []EdgesHaveEnds
<1>1. ASSUME IndInv PROVE EdgesHaveEnds
  <2>1. \A c \in Good : Closed(c)
    BY DEF Good
  <2>2. /\ \A i \in DOMAIN past : past[i] \in Good
        /\ \A i \in DOMAIN future : future[i] \in Good
    BY <1>1, LenProperties, ElementOfSeq DEF IndInv, GoodInv
  <2> QED
    BY <1>1, <2>1, <2>2 DEF IndInv, GoodInv, EdgesHaveEnds
<1> QED
  BY <1>1, Invariance, PTL

\* What a signed-out user asked to save is not lost until the user removes it or
\* logs out.
THEOREM AskedIsKept == Spec => []DraftKept
<1>1. IndInv => DraftKept
  BY DEF IndInv, AskedInv, NodesIn, DraftKept
<1> QED
  BY <1>1, Invariance, PTL

\* Only the user's edits change the canvas of an edit page that has loaded.
LEMMA OnlyEdits ==
  ASSUME IndInv, [Next]_vars
  PROVE  page = "edit" /\ loaded /\ page' = "edit" /\ canvas' # canvas => edits' > edits
<1> SUFFICES ASSUME page = "edit", loaded, page' = "edit", canvas' # canvas PROVE edits' > edits
  OBVIOUS
<1>1. ~LeavePage
  BY DEF LeavePage
<1>2. CASE Edit
  BY <1>2, EditStep DEF Edit, IndInv, BuilderTypeOK, GoodInv, CanvasGood
<1>3. CASE ~Edit
  <2>1. UNCHANGED canvasVars
    BY <1>1, <1>3 DEF Next, vars, Visit, OpenNew, OpenEdit, Load, Leave, AnswerQuery, SettleQuery,
       FailQuery, QueryRefused, Retry, Age, SaveSignedOut, Save, SignInOverCanvas, CloseModal, StoreDefinition,
       RefuseSave, LoseSave, CreateSucceeds, UpdateSucceeds, SaveFails, SignIn, EndSession, LogOut, RestoreVersion,
       CacheOnly, SaveOnly, Elsewhere
  <2> QED
    BY <2>1 DEF canvasVars
<1> QED
  BY <1>2, <1>3

\* An answer that arrives later never replaces what the user is editing.
THEOREM EditsAreKept == Spec => EditsSurvive
<1>1. IndInv /\ [Next]_vars =>
        [(page = "edit" /\ loaded /\ page' = "edit" /\ canvas' # canvas) => edits' > edits]_vars
  BY OnlyEdits
<1> QED
  BY <1>1, Invariance, PTL DEF Spec, EditsSurvive
=============================================================================
