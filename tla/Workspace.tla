----------------------------- MODULE Workspace -----------------------------
(***************************************************************************)
(* The workspace a user is in (client/providers/organization-provider.tsx) *)
(* and the page of workflows that shows it, over the query cache: every    *)
(* request carries the workspace that is in the browser's storage when it  *)
(* is sent, and a refusal, or a list without the workspace, puts the user  *)
(* back into the personal one.  Meanwhile others add and remove the user,  *)
(* who switches, creates, leaves and opens invitations.                    *)
(*                                                                         *)
(* Handlers on the server are one step here; Organization has their calls. *)
(***************************************************************************)
EXTENDS Naturals, QueryCache

CONSTANTS
  Orgs,
  Personal,    \* the workspace of no organization
  MaxChoices,  \* bound: switches, creations, departures and invitations opened
  MaxEvents    \* bound: requests that fail and changes of memberships by others

ASSUME WorkspaceAssumption ==
  /\ Personal \notin Orgs /\ {None, "refused"} \cap (Orgs \cup {Personal}) = {}
  /\ None # "refused"
  /\ MaxChoices \in Nat /\ MaxEvents \in Nat

VARIABLES
  born,     \* organizations that have been created
  member,   \* those the user is a member of
  invites,  \* those a notification in the bell is about
  stored,   \* localStorage: currentOrganizationId
  current,  \* the provider's currentOrgId
  list,     \* the query of the user's organizations
  detail,   \* the query of each organization
  page,     \* the query of the workflows; its data is whose workflows they are
  header,   \* the workspace the page's last request was sent in
  late,     \* cancelled requests that are still answered, by organization
  op,       \* the request to create or to leave an organization
  chosen,   \* ghost: the workspace the user last asked for
  invited,  \* ghost: by a notification
  lost,     \* ghost: organizations the user has ceased to be a member of
  excused,  \* ghost: the page may show another workspace (see Joins, Strays)
  choices, changes, failures

server == <<born, member, invites>>
tab == <<stored, current, list, detail>>
shown == <<page, header, late, excused>>
asked == <<chosen, invited>>
bounds == <<choices, changes, failures>>
workspaceVars == <<server, tab, shown, op, asked, lost, bounds>>

Workspaces == Orgs \cup {Personal}
NoOp == [kind |-> "none", org |-> Personal]

\* The tab opens where the browser was left.
WorkspaceInit ==
  /\ member \in SUBSET Orgs /\ born \in {s \in SUBSET Orgs : member \subseteq s}
  /\ invites = {} /\ lost = {}
  /\ stored \in member \cup {Personal} /\ current = stored
  /\ list = Fetch(EmptyEntry)
  /\ detail = [o \in Orgs |-> IF o = stored THEN Mount(EmptyEntry) ELSE EmptyEntry]
  /\ page = Mount(EmptyEntry) /\ header = stored /\ late = {}
  /\ op = NoOp /\ chosen = stored /\ invited = FALSE /\ excused = FALSE
  /\ choices = 0 /\ changes = 0 /\ failures = 0

Act == choices < MaxChoices /\ choices' = choices + 1
Choose(w, byInvitation) == chosen' = w /\ invited' = byInvitation

Fault == failures + changes < MaxEvents /\ failures' = failures + 1

-----------------------------------------------------------------------------
(* What every render and every change of workspace does. *)

\* A list that is not being fetched, and is not empty, lacks the workspace, and
\* its own query has brought nothing.
Strays(w, l, d) ==
  /\ w \in Orgs /\ l.fetch = "none"
  /\ HasData(l) /\ l.data # {} /\ w \notin l.data
  /\ ~HasData(d[w])

\* The effect that validates the workspace ends every step of the tab.  It does
\* not invalidate what was fetched for it.
Validate(w, s, l, d) ==
  /\ list' = l /\ detail' = d
  /\ current' = IF Strays(w, l, d) THEN Personal ELSE w
  /\ stored' = IF Strays(w, l, d) THEN Personal ELSE s

\* A first fetch is joined: its request was sent in the workspace left.
Joins == ~HasData(page) /\ page.fetch # "none"

InvalidateLater(w, lands) == page' = page /\ header' = header /\ excused' = FALSE \* mutant
InvalidatePage(w, lands) ==
  /\ page' = Invalidate(page, TRUE)
  /\ IF Joins THEN header' = header ELSE header' \in {w, lands}
  /\ excused' = (lands # w \/ (Joins /\ header # w))

\* Cancelling a fetch does not keep the refusal of its request from being handled.
Pending(e) == HasData(e) /\ (Asked(e) \/ e.answer = "refused")
DetailCancelled == {o \in Orgs : o = current /\ Pending(detail[o])}
PageCancelled == {o \in Orgs : o = header /\ Pending(page)}

\* The queries of organizations are invalidated while the workspace left is still
\* observed: the render comes later.
Marked == [o \in Orgs |-> Invalidate(detail[o], o = current)]

\* switchOrganization and the handler of a refusal: storage, state, then the queries.
Enter(w, l, d, answering) ==
  /\ Validate(w, w, l, IF w \in Orgs \ {current} THEN [d EXCEPT ![w] = Mount(@)] ELSE d)
  /\ InvalidatePage(w, current')
  /\ late' = answering \cup PageCancelled

\* A step that changes queries and no workspace.
Refresh(l, d) ==
  /\ Validate(current, stored, l, d)
  /\ excused' = (excused \/ Strays(current, l, d))
  /\ UNCHANGED <<page, header, late>>

-----------------------------------------------------------------------------
(* The user. *)

Free == UNCHANGED <<server, op, lost, changes, failures>>

\* WorkspaceSwitcher lists what the query of organizations has brought.
Switch(w) ==
  /\ w # current /\ (w = Personal \/ (HasData(list) /\ w \in list.data))
  /\ Act /\ Choose(w, FALSE) /\ Enter(w, list, Marked, late \cup DetailCancelled)
  /\ Free

\* handleNotificationClick, whatever the list has.
OpenInvitation(o) ==
  /\ o \in invites
  /\ Act /\ Choose(o, TRUE) /\ Enter(o, list, Marked, late \cup DetailCancelled)
  /\ Free

\* The page is opened again once its data is stale.
Revisit ==
  /\ page.fetch = "none" /\ Act
  /\ page' = Ask(page) /\ header' = stored /\ excused' = FALSE
  /\ UNCHANGED <<server, tab, late, op, asked, lost, changes, failures>>

Create(o) ==
  /\ Act /\ op = NoOp /\ o \notin born
  /\ born' = born \cup {o} /\ member' = member \cup {o}
  /\ op' = [kind |-> "create", org |-> o]
  /\ UNCHANGED <<tab, shown, asked, lost, invites, changes, failures>>

\* handleLeaveOrg, handleDeleteOrg.
Quit ==
  /\ Act /\ op = NoOp /\ current \in member
  /\ member' = member \ {current} /\ lost' = lost \cup {current}
  /\ op' = [kind |-> "quit", org |-> current]
  /\ UNCHANGED <<tab, shown, asked, born, invites, changes, failures>>

\* The new organization joins the list before the list is asked for again.
ListedUnseen(o) == Refetch([list EXCEPT !.stale = TRUE]) \* mutant: no setQueryData
Listed(o) ==
  Ask([list EXCEPT !.data = (IF HasData(list) THEN @ ELSE {}) \cup {o}, !.stale = TRUE])

Created ==
  /\ op.kind = "create" /\ op' = NoOp
  /\ Choose(op.org, FALSE)
  /\ Enter(op.org, Listed(op.org), Marked, late \cup DetailCancelled)
  /\ UNCHANGED <<server, lost, bounds>>

HasQuit ==
  /\ op.kind = "quit" /\ op' = NoOp
  /\ Choose(Personal, FALSE)
  /\ Enter(Personal, Invalidate(list, TRUE), Marked, late \cup DetailCancelled)
  /\ UNCHANGED <<server, lost, bounds>>

OpFails ==
  /\ op # NoOp /\ op' = NoOp /\ Fault
  /\ UNCHANGED <<server, tab, shown, asked, lost, choices, changes>>

-----------------------------------------------------------------------------
(* Others. *)

Change == failures + changes < MaxEvents /\ changes' = changes + 1

\* addMember, with its notification.
Add(o) ==
  /\ o \in born \ member /\ Change
  /\ member' = member \cup {o} /\ invites' = invites \cup {o}
  /\ UNCHANGED <<born, tab, shown, op, asked, lost, choices, failures>>

Remove(o) ==
  /\ o \in member /\ Change
  /\ member' = member \ {o} /\ lost' = lost \cup {o}
  /\ UNCHANGED <<born, invites, tab, shown, op, asked, choices, failures>>

-----------------------------------------------------------------------------
(* The requests. *)

Quiet == UNCHANGED <<server, op, asked, lost, choices, changes>>

\* createOrgMiddleware for the page, getOrganization for the organization.
Verdict(w) == IF w = Personal \/ w \in member THEN w ELSE "refused"

AnswerList ==
  /\ Asked(list) /\ list' = Answer(list, member)
  /\ Quiet /\ UNCHANGED <<stored, current, detail, shown, failures>>
AnswerDetail(o) ==
  /\ Asked(detail[o]) /\ detail' = [detail EXCEPT ![o] = Answer(@, Verdict(o))]
  /\ Quiet /\ UNCHANGED <<stored, current, list, shown, failures>>
AnswerPage ==
  /\ Asked(page) /\ page' = Answer(page, Verdict(header))
  /\ Quiet /\ UNCHANGED <<tab, header, late, excused, failures>>

ReceiveList ==
  Answered(list) /\ Refresh(Settle(list), detail) /\ Quiet /\ UNCHANGED failures

ReceiveDetail(o) ==
  /\ Answered(detail[o]) /\ detail[o].answer # "refused"
  /\ Refresh(list, [detail EXCEPT ![o] = Settle(@)])
  /\ Quiet /\ UNCHANGED failures

\* What it had brought before is asked for again, since it is still observed.
DetailRefused(o) ==
  /\ Answered(detail[o]) /\ detail[o].answer = "refused"
  /\ Enter(Personal, list,
           [Marked EXCEPT ![o] = IF o = current /\ HasData(@) THEN @ ELSE Fail(@)],
           late \cup (DetailCancelled \ {o}))
  /\ Quiet /\ UNCHANGED failures

ReceivePage ==
  /\ Answered(page) /\ page.answer # "refused"
  /\ page' = Settle(page)
  /\ Quiet /\ UNCHANGED <<tab, header, late, excused, failures>>

PageRefusedUnheard == \* mutant: nobody listens to the event
  /\ Answered(page) /\ page.answer = "refused"
  /\ page' = Fail(page) /\ stored' = Personal
  /\ Quiet /\ UNCHANGED <<current, list, detail, header, late, excused, failures>>
\* The refused request itself is retried, without an organization.
PageRefused ==
  /\ Answered(page) /\ page.answer = "refused"
  /\ Validate(Personal, Personal, list, Marked)
  /\ page' = Ask(page) /\ header' = Personal /\ excused' = FALSE
  /\ late' = late \cup DetailCancelled
  /\ Quiet /\ UNCHANGED failures

LateServed(o) ==
  /\ o \in late \cap member /\ late' = late \ {o}
  /\ Quiet /\ UNCHANGED <<tab, page, header, excused, failures>>
LateRefused(o) ==
  /\ o \in late \ member
  /\ Enter(Personal, list, Marked, (late \ {o}) \cup DetailCancelled)
  /\ Quiet /\ UNCHANGED failures

ListFails ==
  list.fetch # "none" /\ Fault /\ Refresh(Fail(list), detail) /\ Quiet
DetailFails(o) ==
  /\ detail[o].fetch # "none" /\ Fault
  /\ Refresh(list, [detail EXCEPT ![o] = Fail(@)]) /\ Quiet
PageFails ==
  /\ page.fetch # "none" /\ Fault /\ page' = Fail(page)
  /\ Quiet /\ UNCHANGED <<tab, header, late, excused>>

-----------------------------------------------------------------------------
WorkspaceNext ==
  \/ \E w \in Workspaces : Switch(w)
  \/ \E o \in Orgs : \/ OpenInvitation(o) \/ Create(o) \/ Add(o) \/ Remove(o)
                    \/ AnswerDetail(o) \/ ReceiveDetail(o) \/ DetailRefused(o) \/ DetailFails(o)
                    \/ LateServed(o) \/ LateRefused(o)
  \/ Revisit \/ Quit \/ Created \/ HasQuit \/ OpFails
  \/ AnswerList \/ ReceiveList \/ ListFails
  \/ AnswerPage \/ ReceivePage \/ PageRefused \/ PageFails

\* Requests are answered, one way or another, and answers are handled.
Fairness == WF_workspaceVars(AnswerPage) /\ WF_workspaceVars(ReceivePage) /\ WF_workspaceVars(PageRefused)

WorkspaceSpec == WorkspaceInit /\ [][WorkspaceNext]_workspaceVars /\ Fairness

\* Another tab of the same browser switches: it writes the storage they share.
OtherTab(w) ==
  /\ Act /\ stored' = w
  /\ UNCHANGED <<server, current, list, detail, shown, op, asked, lost, changes, failures>>
SpecOtherTab ==
  /\ WorkspaceInit /\ Fairness
  /\ [][WorkspaceNext \/ \E w \in member \cup {Personal} : OtherTab(w)]_workspaceVars

-----------------------------------------------------------------------------
(* Properties.                                                             *)

WorkspaceTypeOK ==
  /\ born \subseteq Orgs /\ member \subseteq born /\ invites \subseteq Orgs
  /\ lost \subseteq Orgs /\ late \subseteq Orgs
  /\ {stored, current, header, chosen} \subseteq Workspaces
  /\ {invited, excused} \subseteq BOOLEAN
  /\ op \in [kind : {"none", "create", "quit"}, org : Workspaces]
  /\ list \in Entry(SUBSET Orgs)
  /\ detail \in [Orgs -> Entry(Orgs \cup {"refused"})]
  /\ page \in Entry(Workspaces \cup {"refused"})

\* A user whom nobody has removed from anything is in the workspace they picked
\* or created, whatever is fetched, late, refused or failing: the validation
\* never takes a workspace for a lost one because the list is older than it.
\* Only an invitation may fail to open (see InvitationOpens).
ChosenIsKept == lost = {} /\ ~invited => current = chosen

\* A page that is not loading shows the workflows of the workspace it names,
\* unless the first fetch was joined by a change of workspace or the validation
\* left a workspace.
ShowsCurrent == HasData(page) /\ ~page.error /\ page.fetch = "none" => page.data = current
ShownIsCurrent == ~excused => ShowsCurrent

\* A page that asks for workflows of an organization the user has lost brings the
\* user out of it, if no request fails.
RefusedIsLeft ==
  \A o \in Orgs :
    (current = o /\ header = o /\ Asked(page) /\ o \notin member)
      ~> (current # o \/ o \in member \/ failures > 0)

\* Not kept: the invitation of a member opens its workspace
\* (docs/user-flows.md:613-620), unless the user has lost something.
InvitationOpens == lost = {} => current = chosen

\* Not kept: "stale data is never shown across tenants" (the comment in
\* switchOrganization), here not even when nothing is being loaded.
NeverAcrossTenants == ShowsCurrent

\* Not kept: a refusal resets a stale workspace (the comments in api.ts and the
\* provider), not the one the user is in now.
OnlyLostIsLeft == ~invited /\ current # chosen => chosen \in lost

-----------------------------------------------------------------------------
(* The inductive invariants. *)

\* The page's answer, and what it shows, is of the workspace of its last request,
\* which is the current one and the one in the storage.
PageInv ==
  /\ stored = current
  /\ Answered(page) => page.answer \in {header, "refused"}
  /\ ~excused /\ page.fetch # "none" => header = current
  /\ ShownIsCurrent

\* The organizations the user is or has been a member of: nothing else is asked
\* for, entered or answered.
Joined == member \cup lost
JoinedInv ==
  /\ {stored, current, header, chosen} \subseteq Joined \cup {Personal}
  /\ invites \subseteq Joined /\ late \subseteq Joined
  /\ op.kind = "create" => op.org \in Joined
  /\ op.kind = "quit" => lost # {}
  /\ HasData(list) => list.data \subseteq Joined
  /\ Answered(list) => list.answer \subseteq Joined
  /\ \A o \in Orgs : detail[o].fetch # "none" => o \in Joined

\* Only a user who has lost an organization is refused.
RefusalInv ==
  /\ page.answer = "refused" => lost # {}
  /\ \A o \in Orgs : detail[o].answer = "refused" => lost # {}

\* The list the page has, and the one on its way, have the workspace the user has
\* entered from it.
ListInv ==
  lost = {} =>
    /\ Answered(list) /\ HasData(list) => list.data \subseteq list.answer
    /\ ~invited /\ current \in Orgs =>
         /\ HasData(list) => current \in list.data
         /\ Answered(list) => current \in list.answer

WorkspaceInv ==
  WorkspaceTypeOK /\ PageInv /\ JoinedInv /\ RefusalInv /\ ListInv /\ ChosenIsKept
=============================================================================
