------------------------------ MODULE Builder ------------------------------
(***************************************************************************)
(* The two builder pages around the canvas: the new-workflow page with its *)
(* draft in localStorage and the sign-in over the canvas                   *)
(* (client/app/(builder)/workflows/new/page.tsx), and the edit page, which *)
(* loads the workflow once from the client's query cache                   *)
(* ([id]/edit/page.tsx), both checked by the client's validator before     *)
(* they save.                                                              *)
(*                                                                         *)
(* One tab, one workflow to edit.  The session may end at the server at    *)
(* any time; another tab may log out or save the workflow.                 *)
(***************************************************************************)
EXTENDS Canvas

INSTANCE QueryCache

CONSTANTS
  MaxVisits,  \* bound: pages opened
  MaxFaults,  \* bound: failed requests, ended sessions, full storage, other tabs
  MaxSaves    \* bound: clicks on Save

ASSUME BuilderAssumption == MaxVisits \in Nat /\ MaxFaults \in Nat /\ MaxSaves \in Nat

VARIABLES
  page,
  user,     \* AuthProvider's user is set
  session,  \* the server accepts the tokens in localStorage, or a refresh
  draft,    \* localStorage orqestr_draft_workflow
  modal,    \* the AuthModal is open
  loaded,   \* isLoaded of the edit page
  entry,    \* the query ["workflows", id]
  stored,   \* the workflow's definition in the database
  created,  \* the definitions of the workflows created from the new page
  saving,   \* what a request under way saves, or None
  outcome,  \* of that request: "none" yet, "stored", "refused" for the session, "error"
  asked,    \* ghost: nodes the user asked to save while signed out and did not remove
  visits, faults, saves

pageVars == <<page, loaded, modal>>
authVars == <<user, session>>
storeVars == <<draft, stored, created>>
bounds == <<visits, faults, saves>>
vars == <<canvasVars, pageVars, authVars, storeVars, entry, saving, outcome, asked, bounds>>

Fault == faults < MaxFaults /\ faults' = faults + 1

BuilderTypeOK ==
  /\ CanvasTypeOK
  /\ page \in {"away", "new", "edit"} /\ {user, session, modal, loaded} \subseteq BOOLEAN
  /\ {draft, saving} \subseteq Canvases \cup {None}
  /\ stored \in Canvases /\ created \subseteq Canvases
  /\ entry \in Entry(Canvases) /\ outcome \in {"none", "stored", "refused", "error"}
  /\ asked \subseteq NodeIds
  /\ visits \in 0..MaxVisits /\ faults \in 0..MaxFaults /\ saves \in 0..MaxSaves

Init ==
  /\ CanvasInit
  /\ page = "away" /\ loaded = FALSE /\ modal = FALSE
  /\ user \in BOOLEAN /\ session = user
  /\ draft = None /\ stored \in {f \in Files : Closed(f)} /\ created = {}
  /\ entry = EmptyEntry /\ saving = None /\ outcome = "none" /\ asked = {}
  /\ visits = 0 /\ faults = 0 /\ saves = 0

-----------------------------------------------------------------------------
(* Opening and leaving the pages. *)

Visit == page = "away" /\ visits < MaxVisits /\ visits' = visits + 1

\* The draft is restored when it has nodes, and stays in localStorage.
OpenNew ==
  /\ Visit /\ page' = "new"
  /\ FreshCanvas(IF draft # None /\ Nodes(draft) # {} THEN draft ELSE EmptyCanvas)
  /\ UNCHANGED <<loaded, modal, authVars, storeVars, entry, saving, outcome, asked,
                 faults, saves>>

OpenEdit ==
  /\ Visit /\ page' = "edit" /\ user
  /\ FreshCanvas(EmptyCanvas)
  /\ loaded' = FALSE
  /\ entry' = Mount(entry)
  /\ UNCHANGED <<modal, authVars, storeVars, saving, outcome, asked, faults, saves>>

\* A plausible mistake: the effect follows the query's data.
LoadEachAnswer ==
  /\ page = "edit" /\ HasData(entry) /\ canvas # entry.data
  /\ FreshCanvas(entry.data)
  /\ loaded' = TRUE
  /\ UNCHANGED <<page, modal, authVars, storeVars, entry, saving, outcome, asked, bounds>>

\* The effect that fills the canvas runs once, with whatever data there is.
Load ==
  /\ page = "edit" /\ ~loaded /\ HasData(entry)
  /\ FreshCanvas(entry.data)
  /\ loaded' = TRUE
  /\ UNCHANGED <<page, modal, authVars, storeVars, entry, saving, outcome, asked, bounds>>

\* The loading and error screens stand in for the canvas.
Editing ==
  \/ page = "new" /\ ~modal
  \/ page = "edit" /\ loaded /\ ~entry.error

Edit ==
  /\ Editing /\ EditCanvas
  /\ asked' = IF page = "new" THEN asked \cap Nodes(canvas') ELSE asked
  /\ UNCHANGED <<pageVars, authVars, storeVars, entry, saving, outcome, bounds>>

LeavePage ==
  /\ page' = "away" /\ modal' = FALSE /\ loaded' = FALSE /\ FreshCanvas(EmptyCanvas)

\* Another document is loaded: the query cache is empty and fetchMe asks who the
\* tokens belong to.
Reload == entry' = EmptyEntry /\ user' = (user /\ session)

\* Back, a reload, or leaving for a provider's sign-in page: the canvas goes.
Leave ==
  /\ page # "away" /\ saving = None
  /\ LeavePage
  /\ Reload \/ UNCHANGED <<entry, user>>
  /\ UNCHANGED <<session, storeVars, saving, outcome, asked, bounds>>

-----------------------------------------------------------------------------
(* The query of the edit page. *)

CacheOnly == UNCHANGED <<canvasVars, pageVars, authVars, storeVars, saving, outcome, asked,
                         visits, saves>>

AnswerQuery ==
  /\ Asked(entry) /\ session
  /\ entry' = Answer(entry, stored)
  /\ CacheOnly /\ UNCHANGED faults

SettleQuery ==
  /\ Answered(entry) /\ entry' = Settle(entry)
  /\ CacheOnly /\ UNCHANGED faults

\* An error shows the error screen, over a canvas that stays.
FailQuery ==
  /\ Asked(entry) /\ Fault
  /\ entry' = Fail(entry) /\ CacheOnly

\* A 401 whose refresh fails clears the tokens and loads the sign-in page,
\* except on the new-workflow page; with the page goes the save it waits for.
QueryRefused ==
  /\ Asked(entry) /\ ~session
  /\ IF page = "new"
     THEN entry' = Fail(entry) /\ UNCHANGED <<canvasVars, pageVars, user, saving, outcome>>
     ELSE LeavePage /\ Reload /\ saving' = None /\ outcome' = "none"
  /\ UNCHANGED <<session, storeVars, asked, bounds>>

Retry ==
  /\ page = "edit" /\ entry.error
  /\ entry' = Refetch(entry)
  /\ CacheOnly /\ UNCHANGED faults

Age ==
  /\ HasData(entry) /\ ~entry.stale
  /\ entry' = [entry EXCEPT !.stale = TRUE]
  /\ CacheOnly /\ UNCHANGED faults

-----------------------------------------------------------------------------
(* Saving. *)

\* validateWorkflowGraph's blocking errors for a canvas whose ids are unique and
\* whose types are the palette's; DagValidator has the algorithm.
Valid(c) ==
  /\ Nodes(c) # {}
  /\ \A S \in SUBSET Nodes(c) :
       S # {} => \E n \in S : \A e \in c.edges : e.target = n => e.source \notin S

CanSave == Nodes(canvas) # {} /\ saving = None /\ saves < MaxSaves /\ saves' = saves + 1

\* A signed-out user's canvas goes into the draft, if the storage takes it, and
\* the modal opens.
SaveSignedOut ==
  /\ page = "new" /\ ~modal /\ ~user /\ CanSave
  /\ modal' = TRUE
  /\ \/ draft' = canvas /\ asked' = Nodes(canvas) /\ UNCHANGED faults
     \/ Fault /\ UNCHANGED <<draft, asked>>
  /\ UNCHANGED <<canvasVars, page, loaded, authVars, stored, created, entry, saving,
                 outcome, visits>>

\* performSave and handleSave send what passes the client's validator.
Send == saving' = (IF Valid(canvas) THEN canvas ELSE None) /\ outcome' = "none"

Save ==
  /\ Editing /\ user /\ CanSave
  /\ Send
  /\ UNCHANGED <<canvasVars, pageVars, authVars, storeVars, entry, asked, visits,
                 faults>>

\* The modal closes, and onSuccess saves the canvas as it is.
SignInOverCanvas ==
  /\ page = "new" /\ modal /\ saving = None
  /\ user' = TRUE /\ session' = TRUE /\ modal' = FALSE
  /\ Send
  /\ UNCHANGED <<canvasVars, page, loaded, storeVars, entry, asked, bounds>>

CloseModal ==
  /\ modal /\ modal' = FALSE
  /\ UNCHANGED <<canvasVars, page, loaded, authVars, storeVars, entry, saving, outcome,
                 asked, bounds>>

SaveOnly == UNCHANGED <<canvasVars, pageVars, authVars, draft, entry, saving, asked, visits,
                        saves>>

\* The server stores what it is sent: it validates as the client did.
StoreDefinition ==
  /\ saving # None /\ outcome = "none" /\ session
  /\ outcome' = "stored"
  /\ IF page = "new"
     THEN created' = created \cup {saving} /\ UNCHANGED stored
     ELSE stored' = saving /\ UNCHANGED created
  /\ SaveOnly /\ UNCHANGED faults

RefuseSave ==
  /\ saving # None /\ outcome = "none" /\ ~session
  /\ outcome' = "refused"
  /\ SaveOnly /\ UNCHANGED <<stored, created, faults>>

\* The request or its answer is lost.
LoseSave ==
  /\ saving # None /\ outcome \in {"none", "stored"} /\ Fault
  /\ outcome' = "error"
  /\ SaveOnly /\ UNCHANGED <<stored, created>>

\* A plausible mistake: the draft goes whatever the answer was.
DropDraftAnyway ==
  /\ saving # None /\ page = "new" /\ outcome # "none"
  /\ saving' = None /\ outcome' = "none" /\ draft' = None
  /\ UNCHANGED <<canvasVars, pageVars, authVars, stored, created, entry, asked, bounds>>

\* The draft is taken away, and the page goes to the list.
CreateSucceeds ==
  /\ saving # None /\ page = "new" /\ outcome = "stored"
  /\ saving' = None /\ outcome' = "none"
  /\ draft' = None /\ LeavePage
  /\ UNCHANGED <<authVars, stored, created, entry, asked, bounds>>

\* The workflow's query is asked again, and the page goes to the workflow's.
UpdateSucceeds ==
  /\ saving # None /\ page = "edit" /\ outcome = "stored"
  /\ saving' = None /\ outcome' = "none"
  /\ entry' = Invalidate(entry, TRUE)
  /\ LeavePage
  /\ UNCHANGED <<authVars, storeVars, asked, bounds>>

\* An error is told and the page stays as it is.  A session that has ended sends
\* the edit page to the sign-in page; the new-workflow page stays, and so does
\* its user.
SaveFails ==
  /\ saving # None /\ outcome \in {"refused", "error"}
  /\ saving' = None /\ outcome' = "none"
  /\ IF page = "edit" /\ outcome = "refused"
     THEN LeavePage /\ Reload
     ELSE UNCHANGED <<canvasVars, pageVars, entry, user>>
  /\ UNCHANGED <<session, storeVars, asked, bounds>>

-----------------------------------------------------------------------------
(* What happens elsewhere. *)

Elsewhere == UNCHANGED <<canvasVars, pageVars, created, saving, outcome, visits, saves>>

\* On the sign-in page, or in another tab, whose token this one takes over.
SignIn ==
  /\ ~user /\ user' = TRUE /\ session' = TRUE
  /\ Elsewhere /\ UNCHANGED <<draft, stored, entry, asked, faults>>

EndSession ==
  /\ session /\ session' = FALSE
  /\ Fault /\ Elsewhere /\ UNCHANGED <<user, draft, stored, entry, asked>>

\* A logout in another tab takes the draft away here too.
LogOut ==
  /\ user /\ user' = FALSE /\ session' = FALSE
  /\ draft' = None /\ asked' = {}
  /\ Fault /\ Elsewhere /\ UNCHANGED <<stored, entry>>

\* Another tab's refresh fails: to this one its token's removal is a logout.
ExpireElsewhere ==
  /\ user /\ ~session
  /\ user' = FALSE /\ draft' = None
  /\ Fault /\ Elsewhere /\ UNCHANGED <<session, stored, entry, asked>>

\* The user restores a version on the workflow's page.
RestoreVersion ==
  /\ page = "away" /\ user /\ session
  /\ stored' \in Files
  /\ entry' = Invalidate(entry, TRUE)
  /\ Fault /\ Elsewhere /\ UNCHANGED <<authVars, draft, asked>>

Next ==
  \/ OpenNew \/ OpenEdit \/ Load \/ Edit \/ Leave
  \/ AnswerQuery \/ SettleQuery \/ FailQuery \/ QueryRefused \/ Retry \/ Age
  \/ SaveSignedOut \/ Save \/ SignInOverCanvas \/ CloseModal
  \/ StoreDefinition \/ RefuseSave \/ LoseSave
  \/ CreateSucceeds \/ UpdateSucceeds \/ SaveFails
  \/ SignIn \/ EndSession \/ LogOut \/ RestoreVersion

Spec == Init /\ [][Next]_vars

\* Another tab may find the session ended before this one (see DraftKept).
SpecOtherTab == Init /\ [][Next \/ ExpireElsewhere]_vars

-----------------------------------------------------------------------------
(* What the pages promise. *)

\* No edge is left without its ends, through deletions on either side of an
\* undo, reconnections, drafts and saves, if the files had none: a run would
\* wait for a node that is not there.
EdgesHaveEnds ==
  /\ Closed(canvas) /\ Closed(stored)
  /\ \A i \in DOMAIN past : Closed(past[i])
  /\ \A i \in DOMAIN future : Closed(future[i])
  /\ draft # None => Closed(draft)
  /\ \A c \in created : Closed(c)

\* What a signed-out user asked to save is on the canvas, in the draft or stored,
\* through failed saves, the sign-in over the canvas, reloads and sign-ins
\* elsewhere, until the user removes it or logs out.
DraftKept ==
  asked \subseteq (IF page = "new" THEN Nodes(canvas) ELSE {})
                  \cup (IF draft # None THEN Nodes(draft) ELSE {})
                  \cup UNION {Nodes(c) : c \in created}

\* An answer that arrives after the edit page has loaded never replaces what the
\* user is editing.
EditsSurvive ==
  [][(page = "edit" /\ loaded /\ page' = "edit" /\ canvas' # canvas) => edits' > edits]_vars

-----------------------------------------------------------------------------
(* What they do not keep (see the README). *)

\* Undo takes back the last change of the canvas.
EveryChangeCanBeUndone ==
  [][(Edit /\ canvas' # canvas /\ ~EditHistory) =>
       past' # <<>> /\ past'[Len(past')] = canvas]_vars

\* The panel shows the configuration of the node it is about.
PanelShowsItsNode ==
  [][\A n \in NodeIds : Edit /\ ClickNode(n) => panel'.fields = FieldsOf(n)]_vars

\* The edit page starts from what the user has restored.
LoadsRestored == [][Load => canvas' = stored]_vars

\* A canvas the user has asked to save is not lost to a session that ended.
EditsOutliveSession ==
  [][saving # None /\ outcome = "refused" /\ saving' = None => canvas' = canvas]_vars

-----------------------------------------------------------------------------
(* The inductive invariants. *)

\* Files whose edges have their ends, as the builder exports them.
FilesClosed == \A f \in Files : Closed(f)

\* What may be on the canvas, in the history, the draft, a request or the database.
Good == {c \in Canvases : FilesClosed => Closed(c)}

GoodInv ==
  /\ canvas \in Good /\ past \in Seq(Good) /\ future \in Seq(Good)
  /\ {draft, saving} \subseteq Good \cup {None}
  /\ stored \in Good /\ created \subseteq Good
  /\ entry \in Entry(Good)

NodesIn(cs) == UNION {Nodes(c) : c \in cs}

\* What was asked is in the draft or stored; where the draft may go, because a
\* save of the canvas succeeds, it is on the canvas and in the request too.
AskedInv ==
  /\ asked \subseteq (IF draft # None THEN Nodes(draft) ELSE {}) \cup NodesIn(created)
  /\ page = "new" => asked \subseteq Nodes(canvas) \cup NodesIn(created)
  /\ page = "new" /\ saving # None => asked \subseteq Nodes(saving) \cup NodesIn(created)
  /\ page = "new" /\ outcome = "stored" => saving \in created
  /\ page = "away" => saving = None
  /\ saving = None => outcome = "none"

IndInv == BuilderTypeOK /\ GoodInv /\ AskedInv
=============================================================================
