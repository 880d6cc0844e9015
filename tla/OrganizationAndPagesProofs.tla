--------------------- MODULE OrganizationAndPagesProofs ---------------------
(***************************************************************************)
(* Organizations on the server, and two pages of the client that share the *)
(* query cache.                                                            *)
(*                                                                         *)
(* Organization: while removals do not overlap and nobody is demoted, an   *)
(* organization keeps an owner, for any users, any requests and any reads  *)
(* in between.                                                             *)
(*                                                                         *)
(* Workspace: for any organizations and any number of choices, failures    *)
(* and changes by others, the user stays where they went, unless they were *)
(* invited or have lost something, and a page at rest shows its workspace. *)
(*                                                                         *)
(* RunPage: for any tasks and any number of visits, cancels, faults and    *)
(* fetches, a run's end is on its way to an open page unless its event is  *)
(* missed, and a page that shows it never shows a live run again.          *)
(***************************************************************************)
EXTENDS Organization, Workspace, RunPage, FiniteSetTheorems, TLAPS

\* No request leaves the types.
LEMMA TypeStep == ASSUME TypeOK, [Next]_vars PROVE TypeOK'
<1> USE OrganizationAssumption DEF TypeOK, PCs, Removing, OrgRole, rowVars, args
<1>1. ASSUME NEW q \in Requests, NEW u \in Users, NEW r \in OrgRole, NEW next \in PCs,
             Accept(q, u, r, next)
      PROVE  TypeOK'
  BY <1>1 DEF Accept
<1>2. ASSUME NEW q \in Requests, NEW from, NEW next \in PCs, Read(q, from, next)
      PROVE  TypeOK'
  BY <1>2 DEF Read
<1>3. ASSUME NEW q \in Requests, NEW from, NEW r \in OrgRole \cup {"NONE"}, Write(q, from, r)
      PROVE  TypeOK'
  BY <1>3 DEF Write
<1>4. ASSUME NEW q \in Requests, DeleteRows(q) PROVE TypeOK'
  BY <1>4 DEF DeleteRows
<1>5. CASE UNCHANGED vars
  BY <1>5 DEF vars
<1>6. ASSUME NEW q \in Requests, NEW by \in Users, NEW u \in Users,
             \/ RemoveMember(q, by, u) \/ DeleteOrganization(q, by)
             \/ \E r \in OrgRole : UpdateMemberRole(q, by, u, r) \/ AddMember(q, by, u, r)
      PROVE  TypeOK'
  <2>1. newRole[q] \in OrgRole /\ target[q] \in Users
    BY DEF TypeOK
  <2> QED
    BY <1>1, <1>6, <2>1 DEF RemoveMember, DeleteOrganization, UpdateMemberRole, AddMember
<1>7. ASSUME NEW q \in Requests,
             FindTarget(q) \/ CountOwners(q) \/ FindMember(q) \/ FindExisting(q) \/ WriteRejected(q)
      PROVE  TypeOK'
  BY <1>2, <1>7 DEF FindTarget, CountOwners, FindMember, FindExisting, WriteRejected
<1>8. ASSUME NEW q \in Requests, DeleteMember(q) \/ ChangeRole(q) \/ CreateMember(q)
      PROVE  TypeOK'
  <2>1. newRole[q] \in OrgRole
    BY DEF TypeOK
  <2> QED BY <1>3, <1>8, <2>1 DEF DeleteMember, ChangeRole, CreateMember
<1> QED BY <1>4, <1>5, <1>6, <1>7, <1>8 DEF Next

\* Two owners are not both the target.
LEMMA AnotherOwner ==
  ASSUME Cardinality(Owners) > 1, NEW t
  PROVE  \E u \in Owners : u # t
<1> SUFFICES ASSUME Owners \subseteq {t} PROVE FALSE
  OBVIOUS
<1>1. IsFiniteSet({t}) /\ Cardinality({t}) = 1
  BY FS_Singleton
<1>2. Cardinality(Owners) <= 1
  BY <1>1, FS_Subset
<1>3. Cardinality(Owners) \in Nat
  BY <1>1, FS_Subset, FS_CardinalityType
<1> QED BY <1>2, <1>3

\* The bound keeps a second removal out.
LEMMA NobodyRemoving ==
  ASSUME OneRemoval, Cardinality({p \in Requests : pc[p] \in Removing}) < MaxRemovals
  PROVE  \A p \in Requests : pc[p] \notin Removing
<1> DEFINE R == {p \in Requests : pc[p] \in Removing}
<1>1. IsFiniteSet(R)
  BY OrganizationAssumption, FS_Subset
<1>2. Cardinality(R) \in Nat
  BY <1>1, FS_CardinalityType
<1>3. Cardinality(R) = 0
  BY <1>2 DEF OneRemoval
<1>4. R = {}
  BY <1>1, <1>3, FS_EmptySet
<1> QED BY <1>4

\* Accepting a request changes no row.
LEMMA AcceptInv ==
  ASSUME OneRemoval, IndInv, NEW q \in Requests, NEW by \in Users, NEW u \in Users,
         \/ RemoveMember(q, by, u) \/ DeleteOrganization(q, by)
         \/ \E r \in OrgRole : UpdateMemberRole(q, by, u, r) \/ AddMember(q, by, u, r)
  PROVE  HasOwner' /\ OtherOwner' /\ AloneInv' /\ PromotionInv'
<1> USE DEF IndInv, TypeOK, PCs, Accept, rowVars
<1>1. Owners' = Owners /\ exists' = exists
  BY DEF RemoveMember, DeleteOrganization, UpdateMemberRole, AddMember, Owners
<1>2. /\ \A p \in Requests : p # q => /\ pc'[p] = pc[p]
                                      /\ target'[p] = target[p]
                                      /\ newRole'[p] = newRole[p]
      /\ pc'[q] \in {"findTarget", "delete", "findMember", "findExisting"}
      /\ pc'[q] = "findMember" => newRole'[q] = "OWNER"
  BY DEF RemoveMember, DeleteOrganization, UpdateMemberRole, AddMember, OneRemoval
<1>3. HasOwner' /\ OtherOwner' /\ PromotionInv'
  BY <1>1, <1>2 DEF HasOwner, OtherOwner, PromotionInv
<1>4. pc'[q] \in Removing => \A p \in Requests : pc[p] \notin Removing
  BY NobodyRemoving
     DEF RemoveMember, DeleteOrganization, UpdateMemberRole, AddMember, Removing
<1>5. AloneInv'
  BY <1>2, <1>4 DEF AloneInv
<1> QED BY <1>3, <1>5

\* Reading leads to the removal only past somebody else's ownership.
LEMMA ReadInv ==
  ASSUME IndInv, NEW q \in Requests,
         FindTarget(q) \/ CountOwners(q) \/ FindMember(q) \/ FindExisting(q) \/ WriteRejected(q)
  PROVE  HasOwner' /\ OtherOwner' /\ AloneInv' /\ PromotionInv'
<1> USE DEF IndInv, TypeOK, PCs, Read, rowVars, args
<1>1. Owners' = Owners /\ UNCHANGED <<exists, target, newRole>>
  BY DEF FindTarget, CountOwners, FindMember, FindExisting, WriteRejected, Owners
<1>2. /\ \A p \in Requests : p # q => pc'[p] = pc[p]
      /\ pc'[q] \in Removing => pc[q] \in Removing
      /\ pc'[q] \in {"findMember", "updateMemberRole"} => pc[q] = "findMember"
  BY DEF FindTarget, CountOwners, FindMember, FindExisting, WriteRejected, Removing
<1>3. exists' /\ pc'[q] = "removeMember" => \E u \in Owners : u # target[q]
  <2>1. CASE FindTarget(q)
    <3>1. pc'[q] = "removeMember" => role[target[q]] # "OWNER"
      BY <2>1 DEF FindTarget
    <3>2. exists' = exists
      BY <1>1
    <3> QED BY <3>1, <3>2 DEF HasOwner, Owners
  <2>2. CASE CountOwners(q)
    <3>1. CASE Cardinality(Owners) <= 1
      BY <2>2, <3>1 DEF CountOwners
    <3>2. CASE Cardinality(Owners) > 1
      BY <3>2, AnotherOwner
    <3>3. pc'[q] = "removeMember" => ~(Cardinality(Owners) <= 1)
      BY <2>2 DEF CountOwners
    <3>4. Cardinality(Owners) \in Nat
      <4>1. Owners \in SUBSET Users BY DEF Owners
      <4> QED BY <4>1, OrganizationAssumption, FS_Subset, FS_CardinalityType
    <3> QED BY <3>1, <3>2, <3>3, <3>4
  <2>3. CASE FindMember(q) \/ FindExisting(q) \/ WriteRejected(q)
    BY <2>3 DEF FindMember, FindExisting, WriteRejected
  <2> QED BY <2>1, <2>2, <2>3
<1>4. HasOwner' /\ AloneInv' /\ PromotionInv'
  BY <1>1, <1>2 DEF HasOwner, AloneInv, PromotionInv
<1>5. OtherOwner'
  BY <1>1, <1>2, <1>3 DEF OtherOwner
<1> QED BY <1>4, <1>5

\* The writes: a removal leaves the other owner, the rest only adds owners.
LEMMA WriteInv ==
  ASSUME IndInv, NEW q \in Requests,
         DeleteMember(q) \/ ChangeRole(q) \/ CreateMember(q) \/ DeleteRows(q)
  PROVE  HasOwner' /\ OtherOwner' /\ AloneInv' /\ PromotionInv'
<1> USE DEF IndInv, TypeOK, PCs, Write, args
<1>1. /\ \A p \in Requests : p # q => pc'[p] = pc[p]
      /\ pc'[q] = "idle"
      /\ UNCHANGED args
  BY DEF DeleteMember, ChangeRole, CreateMember, DeleteRows
<1>2. AloneInv' /\ PromotionInv'
  BY <1>1 DEF AloneInv, PromotionInv, Removing
<1>3. CASE DeleteMember(q)
  <2>1. /\ exists' = exists
        /\ \A u \in Users : u # target[q] => role'[u] = role[u]
        /\ pc[q] = "removeMember"
    BY <1>3 DEF DeleteMember
  <2>2. exists' => \E u \in Owners' : TRUE
    BY <2>1 DEF OtherOwner, Owners
  <2>3. \A p \in Requests : pc'[p] # "removeMember"
    BY <1>1, <2>1 DEF AloneInv, Removing
  <2> QED BY <1>2, <2>2, <2>3 DEF HasOwner, OtherOwner
<1>4. CASE ChangeRole(q) \/ CreateMember(q)
  <2>1. exists' = exists /\ Owners \subseteq Owners'
    <3>1. CASE ChangeRole(q)
      BY <3>1 DEF ChangeRole, PromotionInv, Owners
    <3>2. CASE CreateMember(q)
      BY <3>2 DEF CreateMember, IsMember, Owners
    <3> QED BY <1>4, <3>1, <3>2
  <2> QED BY <1>1, <1>2, <2>1 DEF HasOwner, OtherOwner
<1>5. CASE DeleteRows(q)
  BY <1>2, <1>5 DEF DeleteRows, HasOwner, OtherOwner
<1> QED BY <1>3, <1>4, <1>5

\* IndInv holds in every reachable state.
THEOREM Invariance == ASSUME OneRemoval PROVE Spec => []IndInv
<1>1. Init => IndInv
  <2> SUFFICES ASSUME Init PROVE IndInv OBVIOUS
  <2>1. TypeOK /\ Creator \in Owners
    BY OrganizationAssumption DEF Init, TypeOK, PCs, OrgRole, Owners
  <2> QED
    BY <2>1 DEF Init, IndInv, HasOwner, OtherOwner, AloneInv, PromotionInv, Removing
<1>2. IndInv /\ [Next]_vars => IndInv'
  <2> SUFFICES ASSUME IndInv, [Next]_vars PROVE IndInv' OBVIOUS
  <2>1. TypeOK'
    BY TypeStep DEF IndInv
  <2>2. CASE Next
    <3>1. PICK q \in Requests :
            \/ \E by, u \in Users :
                 \/ RemoveMember(q, by, u)
                 \/ \E r \in OrgRole : UpdateMemberRole(q, by, u, r) \/ AddMember(q, by, u, r)
                 \/ DeleteOrganization(q, by)
            \/ FindTarget(q) \/ CountOwners(q) \/ DeleteMember(q)
            \/ FindMember(q) \/ ChangeRole(q)
            \/ FindExisting(q) \/ CreateMember(q)
            \/ DeleteRows(q) \/ WriteRejected(q)
      BY <2>2 DEF Next
    <3> QED BY <2>1, <3>1, AcceptInv, ReadInv, WriteInv DEF IndInv
  <2>3. CASE UNCHANGED vars
    BY <2>1, <2>3 DEF vars, IndInv, HasOwner, OtherOwner, AloneInv, PromotionInv, Owners
  <2> QED BY <2>2, <2>3
<1> QED BY <1>1, <1>2, PTL DEF Spec

\* While removals do not overlap and nobody is demoted, the organization has
\* an owner.
THEOREM OwnerStays == ASSUME OneRemoval PROVE Spec => []HasOwner
<1>1. IndInv => HasOwner BY DEF IndInv
<1> QED BY Invariance, <1>1, PTL


-----------------------------------------------------------------------------
(***************************************************************************)
(* The workspace in the browser.                                           *)
(***************************************************************************)
(* The query cache.                                                        *)

\* What its operations make of an entry.
LEMMA AskIs ==
  ASSUME NEW S, NEW e \in Entry(S)
  PROVE  /\ Ask(e) \in Entry(S) /\ Ask(e).fetch = "asked"
         /\ Ask(e).data = e.data /\ Ask(e).answer = None
BY DEF Ask, Entry, HasData

\* A fetch is asked for, or joined.
LEMMA FetchIs ==
  ASSUME NEW S, NEW e \in Entry(S)
  PROVE  /\ Fetch(e) \in Entry(S) /\ Fetch(e).fetch # "none" /\ Fetch(e).data = e.data
         /\ Fetch(e) = e \/ (e.fetch = "none" /\ Fetch(e) = Ask(e))
BY AskIs DEF Fetch

\* Where there is data it is asked for anew.
LEMMA RefetchIs ==
  ASSUME NEW S, NEW e \in Entry(S)
  PROVE  /\ Refetch(e) \in Entry(S) /\ Refetch(e).fetch # "none" /\ Refetch(e).data = e.data
         /\ \/ Refetch(e) = Ask(e)
            \/ ~HasData(e) /\ e.fetch # "none" /\ Refetch(e) = e
BY AskIs, FetchIs DEF Refetch, Fetch

\* Invalidation asks again, or joins the first fetch, where a page observes the
\* query; elsewhere it only marks it.
LEMMA InvalidateIs ==
  ASSUME NEW S, NEW e \in Entry(S), NEW active \in BOOLEAN
  PROVE  /\ Invalidate(e, active) \in Entry(S)
         /\ Invalidate(e, active).data = e.data
         /\ Invalidate(e, active).answer \in {e.answer, None}
         /\ Invalidate(e, active).fetch \in {e.fetch, "asked"}
         /\ ~active => Invalidate(e, active).fetch = e.fetch
         /\ active =>
              \/ Invalidate(e, active).fetch = "asked" /\ Invalidate(e, active).answer = None
              \/ /\ ~HasData(e) /\ e.fetch # "none"
                 /\ Invalidate(e, active).fetch = e.fetch /\ Invalidate(e, active).answer = e.answer
<1> DEFINE m == [e EXCEPT !.stale = TRUE]
<1>1. /\ m \in Entry(S) /\ m.data = e.data /\ m.answer = e.answer /\ m.fetch = e.fetch
  BY DEF Entry
<1>2. HasData(m) <=> HasData(e)
  BY <1>1 DEF HasData
<1>3. Invalidate(e, active) = IF active THEN Refetch(m) ELSE m
  BY DEF Invalidate
<1>4. /\ Refetch(m) \in Entry(S) /\ Refetch(m).fetch # "none" /\ Refetch(m).data = m.data
      /\ Refetch(m) = Ask(m) \/ (~HasData(m) /\ m.fetch # "none" /\ Refetch(m) = m)
  BY <1>1, RefetchIs
<1>5. Ask(m).fetch = "asked" /\ Ask(m).answer = None
  BY <1>1, AskIs
<1> HIDE DEF m
<1>6. CASE active
  BY <1>1, <1>2, <1>3, <1>4, <1>5, <1>6
<1>7. CASE ~active
  BY <1>1, <1>3, <1>7
<1> QED
  BY <1>6, <1>7

\* Opening a page may ask.
LEMMA MountIs ==
  ASSUME NEW S, NEW e \in Entry(S)
  PROVE  Mount(e) \in Entry(S) /\ Mount(e).answer \in {e.answer, None} /\ Mount(e).data = e.data
BY AskIs, FetchIs DEF Mount

\* A fetch ends with data or an error.
LEMMA EndsAre ==
  ASSUME NEW S, NEW e \in Entry(S)
  PROVE  /\ Fail(e) \in Entry(S) /\ Fail(e).fetch = "none" /\ Fail(e).data = e.data
         /\ Fail(e).answer = None /\ Fail(e).error
         /\ Settle(e) \in Entry(S) /\ Settle(e).fetch = "none" /\ Settle(e).data = e.answer
         /\ Settle(e).answer = None
BY DEF Fail, Settle, Entry, EmptyEntry

\* The server answers it.
LEMMA AnswerIs ==
  ASSUME NEW S, NEW e \in Entry(S), NEW v \in S
  PROVE  /\ Answer(e, v) \in Entry(S) /\ Answer(e, v).fetch = "answered"
         /\ Answer(e, v).data = e.data /\ Answer(e, v).answer = v
BY DEF Answer, Entry

\* Before the first there is nothing.
LEMMA EmptyIs ==
  ASSUME NEW S
  PROVE  /\ EmptyEntry \in Entry(S) /\ EmptyEntry.fetch = "none"
         /\ EmptyEntry.data = None /\ EmptyEntry.answer = None
BY DEF EmptyEntry, Entry

-----------------------------------------------------------------------------
(* Steps of the tab that change queries and, maybe, the workspace.          *)

ListEntries == Entry(SUBSET Orgs)
DetailEntries == [Orgs -> Entry(Orgs \cup {"refused"})]

\* Queries of organizations in which no answer is new and no fetch is, but for
\* the current workspace.
Kept(d) ==
  /\ d \in DetailEntries
  /\ \A o \in Orgs :
       /\ d[o].answer \in {detail[o].answer, None}
       /\ d[o].fetch # "none" => detail[o].fetch # "none" \/ o = current

\* A list that suits the workspace w, entered by an invitation or not.
ListSuits(w, byInvitation, l) ==
  /\ l \in ListEntries
  /\ HasData(l) => l.data \subseteq Joined
  /\ Answered(l) => l.answer \subseteq Joined
  /\ lost = {} =>
       /\ Answered(l) /\ HasData(l) => l.data \subseteq l.answer
       /\ ~byInvitation /\ w \in Orgs => /\ HasData(l) => w \in l.data
                                         /\ Answered(l) => w \in l.answer

\* The invalidated queries are such.
LEMMA MarkedIs ==
  ASSUME WorkspaceInv
  PROVE  Kept(Marked) /\ \A o \in Orgs : Marked[o].fetch # "none" => o \in Joined
<1>1. \A o \in Orgs : detail[o] \in Entry(Orgs \cup {"refused"})
  BY DEF WorkspaceInv, WorkspaceTypeOK
<1>2. \A o \in Orgs : /\ Marked[o] \in Entry(Orgs \cup {"refused"})
                      /\ Marked[o].answer \in {detail[o].answer, None}
                      /\ Marked[o].fetch # "none" => detail[o].fetch # "none" \/ o = current
  BY <1>1, InvalidateIs DEF Marked
<1>3. \A o \in Orgs : Marked[o].fetch # "none" => o \in Joined
  BY <1>2, WorkspaceAssumption DEF WorkspaceInv, JoinedInv
<1> QED
  BY <1>2, <1>3 DEF Kept, DetailEntries, Marked

\* A strayed workspace is left at once, and only when something was lost.
LEMMA NoStray ==
  ASSUME NEW w, NEW l, NEW d, NEW v \in BOOLEAN, ListSuits(w, v, l), lost = {}, ~v
  PROVE  ~Strays(w, l, d)
BY DEF ListSuits, Strays

\* What Enter does.
LEMMA EnterIs ==
  ASSUME WorkspaceTypeOK, NEW w \in Workspaces, NEW l, NEW d \in DetailEntries,
         NEW answering \in SUBSET Orgs, Enter(w, l, d, answering)
  PROVE  /\ list' = l /\ detail' \in DetailEntries
         /\ \A o \in Orgs : /\ detail'[o].answer \in {d[o].answer, None}
                            /\ o # w => detail'[o] = d[o]
         /\ current' = (IF Strays(w, l, detail') THEN Personal ELSE w) /\ stored' = current'
         /\ header' \in {header, w, current'} /\ header' \in Workspaces
         /\ page' \in Entry(Workspaces \cup {"refused"})
         /\ page'.answer \in {page.answer, None}
         /\ page'.fetch = "answered" =>
              page'.answer = page.answer /\ page.fetch = "answered" /\ header' = header
         /\ page'.fetch # "none"
         /\ excused' \in BOOLEAN /\ (~excused' => header' = current')
         /\ late' \subseteq answering \cup ({header} \cap Orgs)
<1> DEFINE D == IF w \in Orgs \ {current} THEN [d EXCEPT ![w] = Mount(@)] ELSE d
           P == Workspaces \cup {"refused"}
<1> USE DEF DetailEntries
<1>1. D \in DetailEntries /\ \A o \in Orgs : D[o].answer \in {d[o].answer, None} /\ (o # w => D[o] = d[o])
  <2>1. CASE w \in Orgs
    <3>1. d[w] \in Entry(Orgs \cup {"refused"})
      BY <2>1
    <3>2. Mount(d[w]) \in Entry(Orgs \cup {"refused"}) /\ Mount(d[w]).answer \in {d[w].answer, None}
      BY <3>1, MountIs
    <3> QED
      BY <2>1, <3>2
  <2>2. CASE w \notin Orgs
    BY <2>2
  <2> QED
    BY <2>1, <2>2
<1>2. /\ list' = l /\ detail' = D
      /\ current' = IF Strays(w, l, D) THEN Personal ELSE w
      /\ stored' = IF Strays(w, l, D) THEN Personal ELSE w
  BY DEF Enter, Validate
<1>3. /\ page' = Invalidate(page, TRUE)
      /\ IF Joins THEN header' = header ELSE header' \in {w, current'}
      /\ excused' = (current' # w \/ (Joins /\ header # w))
      /\ late' = answering \cup PageCancelled
  BY DEF Enter, InvalidatePage
<1>4. page \in Entry(P) /\ header \in Workspaces /\ Personal \in Workspaces
  BY DEF WorkspaceTypeOK, Workspaces
<1>5. /\ page' \in Entry(P) /\ page'.answer \in {page.answer, None}
      /\ \/ page'.fetch = "asked"
         \/ Joins /\ page'.fetch = page.fetch /\ page'.answer = page.answer
  BY <1>3, <1>4, InvalidateIs DEF Joins
<1>6. current' \in Workspaces /\ header' \in Workspaces /\ header' \in {header, w, current'}
  BY <1>2, <1>3, <1>4
<1>7. excused' \in BOOLEAN /\ (~excused' => header' = current')
  BY <1>3
<1>8. page'.fetch = "answered" => page'.answer = page.answer /\ page.fetch = "answered" /\ header' = header
  BY <1>3, <1>5
<1>9. page'.fetch # "none"
  BY <1>5 DEF Joins
<1>10. late' \subseteq answering \cup ({header} \cap Orgs)
  BY <1>3 DEF PageCancelled
<1> HIDE DEF D, P
<1> QED
  BY <1>1, <1>2, <1>5, <1>6, <1>7, <1>8, <1>9, <1>10 DEF P

\* A change of workspace keeps the invariant.
LEMMA EnterInv ==
  ASSUME WorkspaceInv, NEW w \in Joined \cup {Personal}, NEW l, NEW d, NEW answering \in SUBSET Joined,
         Enter(w, l, d, answering), UNCHANGED <<server, lost>>,
         Kept(d), \A o \in Orgs : d[o].fetch # "none" => o \in Joined,
         op' \in {op, NoOp}, invited' \in BOOLEAN, ListSuits(w, invited', l),
         chosen' \in Joined \cup {Personal}, lost = {} /\ ~invited' => chosen' = w
  PROVE  WorkspaceInv'
<1>1. WorkspaceTypeOK /\ Joined \subseteq Orgs /\ w \in Workspaces /\ d \in DetailEntries /\ answering \in SUBSET Orgs
  BY DEF WorkspaceInv, WorkspaceTypeOK, Joined, Workspaces, Kept
<1>2. /\ list' = l /\ detail' \in DetailEntries
      /\ \A o \in Orgs : /\ detail'[o].answer \in {d[o].answer, None}
                         /\ o # w => detail'[o] = d[o]
      /\ current' = (IF Strays(w, l, detail') THEN Personal ELSE w) /\ stored' = current'
      /\ header' \in {header, w, current'} /\ header' \in Workspaces
      /\ page' \in Entry(Workspaces \cup {"refused"})
      /\ page'.answer \in {page.answer, None}
      /\ page'.fetch = "answered" =>
           page'.answer = page.answer /\ page.fetch = "answered" /\ header' = header
      /\ page'.fetch # "none"
      /\ excused' \in BOOLEAN /\ (~excused' => header' = current')
      /\ late' \subseteq answering \cup ({header} \cap Orgs)
  BY <1>1, EnterIs
<1>3. born' = born /\ member' = member /\ invites' = invites /\ lost' = lost /\ Joined' = Joined
  BY DEF server, Joined
<1>4. current' \in Joined \cup {Personal}
  BY <1>2
<1>5. WorkspaceTypeOK'
  <2>1. op' \in [kind : {"none", "create", "quit"}, org : Workspaces]
    BY <1>1 DEF WorkspaceTypeOK, NoOp, Workspaces
  <2>2. {stored, current, header, chosen}' \subseteq Workspaces /\ {invited, excused}' \subseteq BOOLEAN
    BY <1>1, <1>2, <1>4 DEF Workspaces
  <2>3. list' \in Entry(SUBSET Orgs) /\ detail' \in [Orgs -> Entry(Orgs \cup {"refused"})]
    BY <1>2 DEF ListSuits, ListEntries, DetailEntries
  <2>4. late' \subseteq Orgs
    BY <1>1, <1>2
  <2>5. born' \subseteq Orgs /\ member' \subseteq born' /\ invites' \subseteq Orgs /\ lost' \subseteq Orgs
    BY <1>1, <1>3 DEF WorkspaceTypeOK
  <2> QED
    BY <1>2, <2>1, <2>2, <2>3, <2>4, <2>5 DEF WorkspaceTypeOK, Workspaces
<1>6. PageInv'
  BY <1>2 DEF WorkspaceInv, PageInv, ShownIsCurrent, ShowsCurrent, Answered
<1>7. JoinedInv'
  <2>1. header \in Joined \cup {Personal} /\ Personal \notin Orgs
    BY WorkspaceAssumption DEF WorkspaceInv, JoinedInv
  <2>2. {stored, current, header, chosen}' \subseteq Joined \cup {Personal} /\ late' \subseteq Joined
    BY <1>2, <1>4, <2>1
  <2>3. \A o \in Orgs : detail'[o].fetch # "none" => o \in Joined
    BY <1>2, <2>1
  <2>4. (op'.kind = "create" => op'.org \in Joined) /\ (op'.kind = "quit" => lost # {})
    BY DEF WorkspaceInv, JoinedInv, NoOp
  <2> QED
    BY <1>2, <1>3, <2>2, <2>3, <2>4 DEF WorkspaceInv, JoinedInv, ListSuits, HasData
<1>8. RefusalInv'
  BY <1>2, <1>3, WorkspaceAssumption DEF WorkspaceInv, RefusalInv, Kept
<1>9. ListInv'
  BY <1>2, <1>3, WorkspaceAssumption DEF ListInv, ListSuits, Answered, HasData
<1>10. ChosenIsKept'
  BY <1>2, <1>3, NoStray DEF ChosenIsKept
<1> QED
  BY <1>5, <1>6, <1>7, <1>8, <1>9, <1>10 DEF WorkspaceInv

\* So does a step that only changes queries, with its validation.
LEMMA RefreshInv ==
  ASSUME WorkspaceInv, NEW l, NEW d, Refresh(l, d), Quiet, Kept(d), ListSuits(current, invited, l)
  PROVE  WorkspaceInv'
<1>1. /\ list' = l /\ detail' = d /\ d \in DetailEntries
      /\ current' = (IF Strays(current, l, d) THEN Personal ELSE current) /\ stored' = current'
      /\ excused' = (excused \/ Strays(current, l, d))
      /\ page' = page /\ header' = header /\ late' = late
  BY DEF Refresh, Validate, WorkspaceInv, PageInv, Kept
<1>2. /\ born' = born /\ member' = member /\ invites' = invites /\ lost' = lost /\ Joined' = Joined
      /\ op' = op /\ chosen' = chosen /\ invited' = invited
  BY DEF Quiet, server, asked, Joined
<1>3. WorkspaceTypeOK'
  BY <1>1, <1>2 DEF WorkspaceInv, WorkspaceTypeOK, Workspaces, ListSuits, ListEntries, DetailEntries
<1>4. PageInv'
  BY <1>1 DEF WorkspaceInv, PageInv, ShownIsCurrent, ShowsCurrent, Answered, HasData
<1>5. JoinedInv'
  <2>1. \A o \in Orgs : d[o].fetch # "none" => o \in Joined
    BY WorkspaceAssumption DEF WorkspaceInv, JoinedInv, Kept
  <2> QED
    BY <1>1, <1>2, <2>1 DEF WorkspaceInv, JoinedInv, ListSuits, HasData
<1>6. RefusalInv'
  BY <1>1, <1>2, WorkspaceAssumption DEF WorkspaceInv, RefusalInv, Kept
<1>7. ListInv'
  BY <1>1, <1>2, WorkspaceAssumption DEF ListInv, ListSuits, Answered, HasData
<1>8. ChosenIsKept'
  <2>1. invited \in BOOLEAN
    BY DEF WorkspaceInv, WorkspaceTypeOK
  <2> QED
    BY <1>1, <1>2, <2>1, NoStray DEF WorkspaceInv, ChosenIsKept
<1> QED
  BY <1>3, <1>4, <1>5, <1>6, <1>7, <1>8 DEF WorkspaceInv

-----------------------------------------------------------------------------
(* The steps. *)

\* The list the page has suits the workspace it is in.
LEMMA ListAsItIs ==
  ASSUME WorkspaceInv
  PROVE  ListSuits(current, invited, list)
BY WorkspaceAssumption DEF WorkspaceInv, WorkspaceTypeOK, JoinedInv, ListInv, ListSuits, ListEntries

\* Cancelled queries were the current workspace's.
LEMMA CancelledJoined == ASSUME WorkspaceInv PROVE late \cup DetailCancelled \in SUBSET Joined
BY WorkspaceAssumption DEF WorkspaceInv, JoinedInv, DetailCancelled

\* The user moves.
LEMMA MoveStep ==
  ASSUME WorkspaceInv,
         \/ \E w \in Workspaces : Switch(w)
         \/ \E o \in Orgs : OpenInvitation(o)
         \/ Created \/ HasQuit
  PROVE  WorkspaceInv'
<1> USE WorkspaceAssumption
<1>1. Kept(Marked) /\ (\A o \in Orgs : Marked[o].fetch # "none" => o \in Joined)
      /\ late \cup DetailCancelled \in SUBSET Joined
  BY MarkedIs, CancelledJoined
<1>2. ASSUME NEW w \in Workspaces, Switch(w) PROVE WorkspaceInv'
  <2>1. w \in Joined \cup {Personal} /\ ListSuits(w, FALSE, list)
    BY <1>2 DEF Switch, WorkspaceInv, WorkspaceTypeOK, JoinedInv, ListInv, ListSuits, ListEntries
  <2>2. /\ Enter(w, list, Marked, late \cup DetailCancelled) /\ UNCHANGED <<server, lost>>
        /\ op' = op /\ chosen' = w /\ invited' = FALSE
    BY <1>2 DEF Switch, Free, Choose
  <2> QED
    BY <1>1, <2>1, <2>2, EnterInv
<1>3. ASSUME NEW w \in Orgs, OpenInvitation(w) PROVE WorkspaceInv'
  <2>1. w \in Joined \cup {Personal} /\ ListSuits(w, TRUE, list)
    BY <1>3 DEF OpenInvitation, WorkspaceInv, WorkspaceTypeOK, JoinedInv, ListInv, ListSuits, ListEntries
  <2>2. /\ Enter(w, list, Marked, late \cup DetailCancelled) /\ UNCHANGED <<server, lost>>
        /\ op' = op /\ chosen' = w /\ invited' = TRUE
    BY <1>3 DEF OpenInvitation, Free, Choose
  <2> QED
    BY <1>1, <2>1, <2>2, EnterInv
<1>4. CASE Created
  <2> DEFINE l == Listed(op.org)
             m == [list EXCEPT !.data = (IF HasData(list) THEN @ ELSE {}) \cup {op.org}, !.stale = TRUE]
  <2>1. op.org \in Joined /\ op.org \in Orgs
    BY <1>4 DEF Created, WorkspaceInv, WorkspaceTypeOK, JoinedInv, Joined
  <2>2. list \in ListEntries /\ (HasData(list) => list.data \subseteq Joined)
    BY DEF WorkspaceInv, WorkspaceTypeOK, JoinedInv, ListEntries
  <2>3. (IF HasData(list) THEN list.data ELSE {}) \cup {op.org} \in SUBSET Joined /\ Joined \subseteq Orgs
    BY <2>1, <2>2 DEF WorkspaceInv, WorkspaceTypeOK, Joined
  <2>4. m \in ListEntries /\ m.data = (IF HasData(list) THEN list.data ELSE {}) \cup {op.org}
    BY <2>2, <2>3 DEF ListEntries, Entry
  <2>5. l = Ask(m)
    BY DEF Listed
  <2> HIDE DEF m
  <2>6. l \in ListEntries /\ l.fetch = "asked" /\ l.data = (IF HasData(list) THEN list.data ELSE {}) \cup {op.org}
    BY <2>4, <2>5, AskIs DEF ListEntries
  <2> HIDE DEF l
  <2>7. ListSuits(op.org, FALSE, l)
    BY <2>3, <2>6 DEF ListSuits, Answered
  <2>8. /\ Enter(op.org, l, Marked, late \cup DetailCancelled) /\ UNCHANGED <<server, lost>>
        /\ op' = NoOp /\ chosen' = op.org /\ invited' = FALSE
    BY <1>4 DEF Created, Choose, l
  <2> QED
    BY <1>1, <2>1, <2>7, <2>8, EnterInv
<1>5. CASE HasQuit
  <2> DEFINE l == Invalidate(list, TRUE)
  <2>1. lost # {}
    BY <1>5 DEF HasQuit, WorkspaceInv, JoinedInv
  <2>2. list \in ListEntries /\ (HasData(list) => list.data \subseteq Joined)
    BY DEF WorkspaceInv, WorkspaceTypeOK, JoinedInv, ListEntries
  <2>3. /\ l \in ListEntries /\ l.data = list.data
        /\ l.fetch = "answered" => list.fetch = "answered" /\ l.answer = list.answer
    BY <2>2, InvalidateIs DEF ListEntries
  <2> HIDE DEF l
  <2>4. ListSuits(Personal, FALSE, l)
    BY <2>1, <2>2, <2>3 DEF ListSuits, HasData, Answered, WorkspaceInv, JoinedInv
  <2>5. /\ Enter(Personal, l, Marked, late \cup DetailCancelled) /\ UNCHANGED <<server, lost>>
        /\ op' = NoOp /\ chosen' = Personal /\ invited' = FALSE
    BY <1>5 DEF HasQuit, Choose, l
  <2> QED
    BY <1>1, <2>1, <2>4, <2>5, EnterInv
<1> QED
  BY <1>2, <1>3, <1>4, <1>5

\* The user is refused, which only happens once something is lost.
LEMMA RefusedStep ==
  ASSUME WorkspaceInv, NEW o \in Orgs, DetailRefused(o) \/ LateRefused(o)
  PROVE  WorkspaceInv'
<1> USE WorkspaceAssumption
<1> DEFINE d == [Marked EXCEPT ![o] = IF o = current /\ HasData(@) THEN @ ELSE Fail(@)]
<1>1. Kept(Marked) /\ (\A p \in Orgs : Marked[p].fetch # "none" => p \in Joined)
      /\ late \cup DetailCancelled \in SUBSET Joined
  BY MarkedIs, CancelledJoined
<1>2. Marked[o] \in Entry(Orgs \cup {"refused"}) /\ DOMAIN Marked = Orgs
  BY <1>1 DEF Kept, DetailEntries
<1>3. Fail(Marked[o]) \in Entry(Orgs \cup {"refused"}) /\ Fail(Marked[o]).fetch = "none" /\ Fail(Marked[o]).answer = None
  BY <1>2, EndsAre
<1>4. Kept(d) /\ (\A p \in Orgs : d[p].fetch # "none" => p \in Joined)
  BY <1>1, <1>2, <1>3 DEF Kept, DetailEntries
<1> HIDE DEF d
<1>5. lost # {}
  BY DEF DetailRefused, LateRefused, WorkspaceInv, RefusalInv, JoinedInv, Joined
<1>6. ListSuits(Personal, invited, list)
  BY <1>5 DEF WorkspaceInv, WorkspaceTypeOK, JoinedInv, ListSuits, ListEntries
<1>7. /\ UNCHANGED <<server, lost>> /\ op' = op /\ chosen' = chosen /\ invited' = invited
      /\ chosen \in Joined \cup {Personal} /\ invited \in BOOLEAN
  BY DEF DetailRefused, LateRefused, Quiet, asked, WorkspaceInv, WorkspaceTypeOK, JoinedInv
<1>8. CASE DetailRefused(o)
  <2>1. Enter(Personal, list, d, late \cup (DetailCancelled \ {o}))
    BY <1>8 DEF DetailRefused, d
  <2> QED
    BY <1>1, <1>4, <1>5, <1>6, <1>7, <2>1, EnterInv
<1>9. CASE LateRefused(o)
  <2>1. Enter(Personal, list, Marked, (late \ {o}) \cup DetailCancelled)
    BY <1>9 DEF LateRefused
  <2> QED
    BY <1>1, <1>5, <1>6, <1>7, <2>1, EnterInv
<1> QED
  BY <1>8, <1>9

\* An answer about organizations arrives, or fails to.
LEMMA ReceiveStep ==
  ASSUME WorkspaceInv,
         ReceiveList \/ ListFails \/ \E o \in Orgs : ReceiveDetail(o) \/ DetailFails(o)
  PROVE  WorkspaceInv'
<1> USE WorkspaceAssumption
<1>1. list \in ListEntries /\ detail \in DetailEntries /\ invited \in BOOLEAN /\ (HasData(list) => list.data \subseteq Joined)
  BY DEF WorkspaceInv, WorkspaceTypeOK, JoinedInv, ListEntries, DetailEntries
<1>2. Kept(detail) /\ ListSuits(current, invited, list)
  BY <1>1, ListAsItIs DEF Kept
<1>3. CASE ReceiveList
  <2>1. Settle(list) \in ListEntries /\ Settle(list).fetch = "none" /\ Settle(list).data = list.answer
    BY <1>1, EndsAre DEF ListEntries
  <2>2. list.answer # None => list.answer \subseteq Joined
    BY <1>3 DEF WorkspaceInv, JoinedInv, ReceiveList
  <2>3. ListSuits(current, invited, Settle(list))
    BY <1>2, <1>3, <2>1, <2>2 DEF ListSuits, ReceiveList, HasData, Answered
  <2> QED
    BY <1>2, <1>3, <2>3, RefreshInv DEF ReceiveList
<1>4. CASE ListFails
  <2>1. Fail(list) \in ListEntries /\ Fail(list).fetch = "none" /\ Fail(list).data = list.data
    BY <1>1, EndsAre DEF ListEntries
  <2>2. ListSuits(current, invited, Fail(list))
    BY <1>2, <2>1 DEF ListSuits, HasData, Answered
  <2> QED
    BY <1>2, <1>4, <2>2, RefreshInv DEF ListFails
<1>5. ASSUME NEW o \in Orgs, ReceiveDetail(o) \/ DetailFails(o) PROVE WorkspaceInv'
  <2>1. detail[o] \in Entry(Orgs \cup {"refused"})
    BY <1>1 DEF DetailEntries
  <2>2. ASSUME NEW e \in Entry(Orgs \cup {"refused"}), e.fetch = "none", e.answer = None
        PROVE  Kept([detail EXCEPT ![o] = e])
    BY <1>1, <2>2 DEF Kept, DetailEntries
  <2>3. Kept([detail EXCEPT ![o] = Settle(detail[o])]) /\ Kept([detail EXCEPT ![o] = Fail(detail[o])])
    BY <2>1, <2>2, EndsAre
  <2> QED
    BY <1>2, <1>5, <2>3, RefreshInv DEF ReceiveDetail, DetailFails
<1> QED
  BY <1>3, <1>4, <1>5

\* Members come and go, requests of the user's are accepted or fail.
LEMMA ServerStep ==
  ASSUME WorkspaceInv, (\E o \in Orgs : Create(o) \/ Add(o) \/ Remove(o)) \/ Quit \/ OpFails
  PROVE  WorkspaceInv'
<1>1. /\ UNCHANGED <<tab, shown, asked>> /\ Joined \subseteq Joined' /\ invites' \subseteq Joined'
      /\ lost \subseteq lost'
  BY DEF Create, Add, Remove, Quit, OpFails, Joined, server, WorkspaceInv, JoinedInv
<1>2. WorkspaceTypeOK'
  <2>1. born' \subseteq Orgs /\ member' \subseteq born' /\ invites' \subseteq Orgs /\ lost' \subseteq Orgs
    BY DEF Create, Add, Remove, Quit, OpFails, server, WorkspaceInv, WorkspaceTypeOK
  <2>2. op' \in [kind : {"none", "create", "quit"}, org : Workspaces]
    BY DEF Create, Add, Remove, Quit, OpFails, NoOp, Workspaces, WorkspaceInv, WorkspaceTypeOK
  <2> QED
    BY <1>1, <2>1, <2>2 DEF tab, shown, asked, WorkspaceInv, WorkspaceTypeOK
<1>3. PageInv'
  BY <1>1 DEF tab, shown, asked, WorkspaceInv, PageInv, ShownIsCurrent, ShowsCurrent, Answered, HasData
<1>4. JoinedInv'
  <2>1. (op'.kind = "create" => op'.org \in Joined') /\ (op'.kind = "quit" => lost' # {})
    BY <1>1 DEF Create, Add, Remove, Quit, OpFails, NoOp, WorkspaceInv, JoinedInv, Joined
  <2> QED
    BY <1>1, <2>1 DEF tab, shown, asked, WorkspaceInv, JoinedInv, HasData
<1>5. RefusalInv' /\ ListInv' /\ ChosenIsKept'
  BY <1>1 DEF tab, shown, asked, WorkspaceInv, RefusalInv, ListInv, ChosenIsKept, Answered, HasData
<1> QED
  BY <1>2, <1>3, <1>4, <1>5 DEF WorkspaceInv

\* The server answers.
LEMMA AnswerStep ==
  ASSUME WorkspaceInv, AnswerList \/ (\E o \in Orgs : AnswerDetail(o)) \/ AnswerPage
  PROVE  WorkspaceInv'
<1> USE WorkspaceAssumption
<1>1. /\ UNCHANGED <<server, stored, current, header, late, excused, op, chosen, invited, lost>> /\ Joined' = Joined
  BY DEF AnswerList, AnswerDetail, AnswerPage, Quiet, shown, tab, asked, server, Joined
<1>2. /\ list \in ListEntries /\ detail \in DetailEntries /\ page \in Entry(Workspaces \cup {"refused"})
      /\ member \in SUBSET Orgs /\ header \in Workspaces
  BY DEF WorkspaceInv, WorkspaceTypeOK, ListEntries, DetailEntries
<1>3. CASE AnswerList
  <2>1. list' = Answer(list, member) /\ UNCHANGED <<detail, page>>
    BY <1>3 DEF AnswerList, shown
  <2>2. /\ list' \in ListEntries /\ list'.data = list.data /\ list'.answer = member /\ list'.fetch = "answered"
    BY <1>2, <2>1, AnswerIs DEF ListEntries
  <2>3. WorkspaceTypeOK' /\ PageInv' /\ RefusalInv' /\ ChosenIsKept'
    BY <1>1, <2>1, <2>2 DEF server, WorkspaceInv, WorkspaceTypeOK, PageInv, RefusalInv, ChosenIsKept,
                            ShownIsCurrent, ShowsCurrent, Answered, HasData, ListEntries
  <2>4. JoinedInv' /\ ListInv'
    BY <1>1, <2>1, <2>2 DEF server, WorkspaceInv, JoinedInv, ListInv, Joined, Answered, HasData
  <2> QED
    BY <2>3, <2>4 DEF WorkspaceInv
<1>4. ASSUME NEW o \in Orgs, AnswerDetail(o) PROVE WorkspaceInv'
  <2>1. /\ detail' = [detail EXCEPT ![o] = Answer(detail[o], Verdict(o))] /\ UNCHANGED <<list, page>>
        /\ detail[o].fetch = "asked"
    BY <1>4 DEF AnswerDetail, shown, Asked
  <2>2. Verdict(o) \in Orgs \cup {"refused"} /\ (Verdict(o) = "refused" => o \notin member)
    BY DEF Verdict
  <2>3. o \in Joined
    BY <2>1 DEF WorkspaceInv, JoinedInv
  <2>4. detail[o] \in Entry(Orgs \cup {"refused"})
    BY <1>2 DEF DetailEntries
  <2>5. /\ Answer(detail[o], Verdict(o)) \in Entry(Orgs \cup {"refused"})
        /\ Answer(detail[o], Verdict(o)).answer = Verdict(o)
    BY <2>2, <2>4, AnswerIs
  <2>6. /\ detail' \in DetailEntries /\ detail'[o].answer = Verdict(o)
        /\ \A p \in Orgs : p # o => detail'[p] = detail[p]
    BY <1>2, <2>1, <2>5 DEF DetailEntries
  <2>7. WorkspaceTypeOK' /\ PageInv' /\ ListInv' /\ ChosenIsKept'
    BY <1>1, <2>1, <2>6 DEF server, WorkspaceInv, WorkspaceTypeOK, PageInv, ListInv, ChosenIsKept,
                            ShownIsCurrent, ShowsCurrent, Answered, HasData, DetailEntries
  <2>8. JoinedInv'
    BY <1>1, <2>1, <2>3, <2>6 DEF server, WorkspaceInv, JoinedInv, HasData
  <2>9. RefusalInv'
    BY <1>1, <2>1, <2>2, <2>3, <2>6 DEF WorkspaceInv, RefusalInv, Joined
  <2> QED
    BY <2>7, <2>8, <2>9 DEF WorkspaceInv
<1>5. CASE AnswerPage
  <2>1. page' = Answer(page, Verdict(header)) /\ UNCHANGED <<list, detail>> /\ page.fetch = "asked"
    BY <1>5 DEF AnswerPage, tab, Asked
  <2>2. Verdict(header) \in {header, "refused"} /\ (Verdict(header) = "refused" => header \in Orgs \ member)
    BY <1>2 DEF Verdict, Workspaces
  <2>3. /\ page' \in Entry(Workspaces \cup {"refused"}) /\ page'.fetch = "answered"
        /\ page'.answer = Verdict(header)
    BY <1>2, <2>1, <2>2, AnswerIs
  <2>4. WorkspaceTypeOK' /\ JoinedInv' /\ ListInv' /\ ChosenIsKept'
    BY <1>1, <2>1, <2>3 DEF server, WorkspaceInv, WorkspaceTypeOK, JoinedInv, ListInv, ChosenIsKept, Answered, HasData
  <2>5. PageInv'
    BY <1>1, <2>1, <2>2, <2>3 DEF WorkspaceInv, PageInv, ShownIsCurrent, ShowsCurrent, Answered
  <2>6. RefusalInv'
    BY <1>1, <2>1, <2>2, <2>3 DEF WorkspaceInv, RefusalInv, JoinedInv, Joined
  <2> QED
    BY <2>4, <2>5, <2>6 DEF WorkspaceInv
<1> QED
  BY <1>3, <1>4, <1>5

\* What only the page and its request take part in.
LEMMA PageStep ==
  ASSUME WorkspaceInv, Revisit \/ ReceivePage \/ PageFails \/ (\E o \in Orgs : LateServed(o))
  PROVE  WorkspaceInv'
<1> USE WorkspaceAssumption
<1>1. /\ UNCHANGED <<server, tab, op, chosen, invited, lost>> /\ Joined' = Joined /\ late' \subseteq late
  BY DEF Revisit, ReceivePage, PageFails, LateServed, Quiet, tab, asked, server, Joined
<1>2. page \in Entry(Workspaces \cup {"refused"}) /\ stored = current /\ current \in Workspaces
      /\ excused \in BOOLEAN
  BY DEF WorkspaceInv, WorkspaceTypeOK, PageInv
<1>3. /\ page' \in Entry(Workspaces \cup {"refused"}) /\ page'.answer \in {page.answer, None}
      /\ header' \in {header, stored} /\ excused' \in BOOLEAN
      /\ \/ page'.fetch = "asked" /\ header' = current
         \/ page'.fetch = "none" /\ page'.error /\ header' = header
         \/ /\ page'.fetch = "none" /\ page'.data \in {header, None} /\ header' = header
            /\ page.fetch # "none" /\ excused' = excused
         \/ page' = page /\ header' = header /\ excused' = excused
  <2>1. CASE Revisit
    BY <1>2, <2>1, AskIs DEF Revisit
  <2>2. CASE ReceivePage
    BY <1>2, <2>2, EndsAre DEF ReceivePage, WorkspaceInv, PageInv, Answered
  <2>3. CASE PageFails
    BY <1>2, <2>3, EndsAre DEF PageFails
  <2>4. CASE \E o \in Orgs : LateServed(o)
    BY <1>2, <2>4 DEF LateServed
  <2> QED
    BY <2>1, <2>2, <2>3, <2>4
<1>4. WorkspaceTypeOK'
  BY <1>1, <1>3 DEF server, tab, WorkspaceInv, WorkspaceTypeOK
<1>5. PageInv'
  BY <1>1, <1>3 DEF tab, WorkspaceInv, PageInv, ShownIsCurrent, ShowsCurrent, Answered, HasData
<1>6. JoinedInv'
  BY <1>1, <1>3 DEF server, tab, WorkspaceInv, JoinedInv, HasData
<1>7. RefusalInv' /\ ListInv' /\ ChosenIsKept'
  BY <1>1, <1>3 DEF tab, WorkspaceInv, RefusalInv, ListInv, ChosenIsKept, Answered, HasData
<1> QED
  BY <1>4, <1>5, <1>6, <1>7 DEF WorkspaceInv

\* The page is refused, and the user out.
LEMMA PageRefusedStep == ASSUME WorkspaceInv, PageRefused PROVE WorkspaceInv'
<1> USE WorkspaceAssumption
<1>1. Kept(Marked) /\ (\A o \in Orgs : Marked[o].fetch # "none" => o \in Joined)
      /\ late \cup DetailCancelled \in SUBSET Joined /\ Joined \subseteq Orgs
  BY MarkedIs, CancelledJoined DEF WorkspaceInv, WorkspaceTypeOK, Joined
<1>2. lost # {}
  BY DEF PageRefused, WorkspaceInv, RefusalInv
<1>3. /\ UNCHANGED <<server, op, chosen, invited, lost, list>> /\ Joined' = Joined
      /\ current' = Personal /\ stored' = Personal /\ header' = Personal /\ excused' = FALSE
      /\ detail' = Marked /\ late' = late \cup DetailCancelled /\ page' = Ask(page)
  BY DEF PageRefused, Quiet, Validate, Strays, server, asked, Joined
<1>4. page' \in Entry(Workspaces \cup {"refused"}) /\ page'.fetch = "asked" /\ page'.answer = None
  BY <1>3, AskIs DEF WorkspaceInv, WorkspaceTypeOK
<1>5. WorkspaceTypeOK'
  BY <1>1, <1>3, <1>4 DEF server, Kept, DetailEntries, Workspaces, WorkspaceInv, WorkspaceTypeOK
<1>6. PageInv'
  BY <1>3, <1>4 DEF PageInv, ShownIsCurrent, ShowsCurrent, Answered
<1>7. JoinedInv'
  BY <1>1, <1>3 DEF server, WorkspaceInv, JoinedInv, HasData
<1>8. RefusalInv' /\ ListInv' /\ ChosenIsKept'
  BY <1>2, <1>3, <1>4 DEF RefusalInv, ListInv, ChosenIsKept
<1> QED
  BY <1>5, <1>6, <1>7, <1>8 DEF WorkspaceInv

\* The tab opens in a workspace of the user's.
LEMMA WorkspaceInitInv == WorkspaceInit => WorkspaceInv
<1> SUFFICES ASSUME WorkspaceInit PROVE WorkspaceInv
  OBVIOUS
<1> USE WorkspaceAssumption
<1>1. /\ member \subseteq Orgs /\ born \in SUBSET Orgs /\ member \subseteq born
      /\ invites = {} /\ lost = {} /\ late = {} /\ invited = FALSE /\ excused = FALSE /\ op = NoOp
      /\ stored \in member \cup {Personal} /\ current = stored /\ header = stored /\ chosen = stored
      /\ Joined = member
  BY DEF WorkspaceInit, Joined
<1>2. list \in ListEntries /\ list.data = None /\ list.fetch = "asked"
  <2>1. list = Ask(EmptyEntry)
    BY EmptyIs DEF WorkspaceInit, Fetch
  <2> QED
    BY <2>1, EmptyIs, AskIs DEF ListEntries
<1>3. page \in Entry(Workspaces \cup {"refused"}) /\ page.fetch = "asked" /\ page.answer = None
  <2>1. page = Ask(EmptyEntry)
    BY EmptyIs DEF WorkspaceInit, Mount, Fetch, HasData
  <2> QED
    BY <2>1, EmptyIs, AskIs
<1>4. /\ detail \in DetailEntries /\ \A o \in Orgs : detail[o].answer = None /\ (o # stored => detail[o].fetch = "none")
  <2>1. Mount(EmptyEntry) = Ask(EmptyEntry)
    BY EmptyIs DEF Mount, Fetch, HasData
  <2>2. /\ EmptyEntry \in Entry(Orgs \cup {"refused"}) /\ EmptyEntry.answer = None /\ EmptyEntry.fetch = "none"
        /\ Mount(EmptyEntry) \in Entry(Orgs \cup {"refused"}) /\ Mount(EmptyEntry).answer = None
    BY <2>1, EmptyIs, AskIs
  <2> QED
    BY <2>2 DEF WorkspaceInit, DetailEntries
<1>5. WorkspaceTypeOK
  BY <1>1, <1>2, <1>3, <1>4 DEF WorkspaceTypeOK, Workspaces, NoOp, ListEntries, DetailEntries
<1>6. PageInv /\ RefusalInv /\ ListInv /\ ChosenIsKept
  BY <1>1, <1>2, <1>3, <1>4 DEF PageInv, RefusalInv, ListInv, ChosenIsKept, ShownIsCurrent, ShowsCurrent, Answered, HasData
<1>7. JoinedInv
  BY <1>1, <1>2, <1>4 DEF JoinedInv, NoOp, HasData, Answered
<1> QED
  BY <1>5, <1>6, <1>7 DEF WorkspaceInv

\* Every step keeps the invariant.
LEMMA WorkspaceNextInv == WorkspaceInv /\ [WorkspaceNext]_workspaceVars => WorkspaceInv'
<1> SUFFICES ASSUME WorkspaceInv, [WorkspaceNext]_workspaceVars PROVE WorkspaceInv'
  OBVIOUS
<1>1. CASE UNCHANGED workspaceVars
  <2> USE <1>1 DEF workspaceVars, server, tab, shown, asked, WorkspaceInv
  <2>1. WorkspaceTypeOK' /\ RefusalInv' /\ ChosenIsKept'
    BY DEF WorkspaceTypeOK, RefusalInv, ChosenIsKept
  <2>2. PageInv' /\ ListInv'
    BY DEF PageInv, ListInv, ShownIsCurrent, ShowsCurrent, Answered, HasData
  <2>3. JoinedInv'
    BY DEF JoinedInv, Joined, Answered, HasData
  <2> QED
    BY <2>1, <2>2, <2>3
<1>2. CASE \E w \in Workspaces : Switch(w)
  BY <1>2, MoveStep
<1>3. ASSUME NEW o \in Orgs,
             \/ OpenInvitation(o) \/ Create(o) \/ Add(o) \/ Remove(o)
             \/ AnswerDetail(o) \/ ReceiveDetail(o) \/ DetailRefused(o) \/ DetailFails(o)
             \/ LateServed(o) \/ LateRefused(o)
      PROVE  WorkspaceInv'
  BY <1>3, MoveStep, RefusedStep, ReceiveStep, ServerStep, AnswerStep, PageStep
<1>4. CASE Created \/ HasQuit
  BY <1>4, MoveStep
<1>5. CASE Revisit \/ ReceivePage \/ PageFails
  BY <1>5, PageStep
<1>6. CASE PageRefused
  BY <1>6, PageRefusedStep
<1>7. CASE Quit \/ OpFails \/ AnswerList \/ ReceiveList \/ ListFails \/ AnswerPage
  BY <1>7, ServerStep, AnswerStep, ReceiveStep
<1> QED
  BY <1>1, <1>2, <1>3, <1>4, <1>5, <1>6, <1>7 DEF WorkspaceNext

-----------------------------------------------------------------------------
\* For any organizations and choices, failures and changes by others.
THEOREM WorkspaceInvariance == WorkspaceSpec => []WorkspaceInv
BY WorkspaceInitInv, WorkspaceNextInv, PTL DEF WorkspaceSpec

\* The validation and the refusals never take a workspace from a user who has lost
\* none and was not invited.
THEOREM ChoicesAreKept == WorkspaceSpec => []ChosenIsKept
BY WorkspaceInvariance, PTL DEF WorkspaceInv

\* A page at rest shows the workflows of its workspace, unless it is excused.
THEOREM PagesShowTheirWorkspace == WorkspaceSpec => []ShownIsCurrent
BY WorkspaceInvariance, PTL DEF WorkspaceInv, PageInv

-----------------------------------------------------------------------------
(***************************************************************************)
(* The run page.                                                           *)
(***************************************************************************)


\* What a query of the page p holds.
QueryOf(p) == Entry(IF p = "run" THEN Rows ELSE [run: Status])

QueriesTypeOK ==
  /\ cache \in [Pages -> Entry(Rows \cup [run: Status])]
  /\ cache.run \in Entry(Rows) /\ \A l \in Lists : cache[l] \in Entry([run: Status])

\* The run's query keeps its data, and its answer unless it is asked anew.
KeptQuery(e, f) ==
  f.data = e.data /\ (Asked(f) \/ (f.fetch = e.fetch /\ f.answer = e.answer))

\* Each page has its own rows.
LEMMA QueryIs ==
  ASSUME QueriesTypeOK, NEW p \in Pages
  PROVE  cache[p] \in QueryOf(p)
BY RunPageAssumption DEF QueriesTypeOK, QueryOf, Pages

\* A change of one query.
LEMMA QueryUpdate ==
  ASSUME QueriesTypeOK, NEW p \in Pages, NEW e \in QueryOf(p),
         cache' = [cache EXCEPT ![p] = e]
  PROVE  /\ QueriesTypeOK' /\ cache'[p] = e
         /\ \A q \in Pages : q # p => cache'[q] = cache[q]
<1>1. "run" \in Pages /\ "run" \notin Lists /\ Lists \subseteq Pages
  BY RunPageAssumption DEF Pages
<1>2. e \in Entry(Rows \cup [run: Status])
  BY DEF QueryOf, Entry
<1>3. /\ cache' \in [Pages -> Entry(Rows \cup [run: Status])]
      /\ cache'[p] = e /\ \A q \in Pages : q # p => cache'[q] = cache[q]
  BY <1>2 DEF QueriesTypeOK
<1>4. \A q \in Pages : cache'[q] \in QueryOf(q)
  BY <1>3, QueryIs
<1>5. cache'["run"] \in Entry(Rows) /\ \A l \in Lists : cache'[l] \in Entry([run: Status])
  BY <1>1, <1>4 DEF QueryOf
<1> QED
  BY <1>3, <1>5 DEF QueriesTypeOK

\* Opening a page, refetching and invalidating keep a query so.
LEMMA AskedAnew ==
  ASSUME NEW S, NEW e \in Entry(S), NEW active \in BOOLEAN
  PROVE  /\ KeptQuery(e, Mount(e)) /\ KeptQuery(e, Refetch(e))
         /\ KeptQuery(e, Invalidate(e, active))
<1>1. KeptQuery(e, Mount(e))
  BY AskIs DEF KeptQuery, Mount, Fetch, Asked
<1>2. KeptQuery(e, Refetch(e))
  BY RefetchIs, AskIs DEF KeptQuery, Asked
<1>3. KeptQuery(e, Invalidate(e, active))
  <2> DEFINE m == [e EXCEPT !.stale = TRUE]
  <2>1. m \in Entry(S) /\ m.data = e.data /\ m.answer = e.answer /\ m.fetch = e.fetch
    BY DEF Entry
  <2>2. Invalidate(e, active) = IF active THEN Refetch(m) ELSE m
    BY DEF Invalidate
  <2> HIDE DEF m
  <2>3. Refetch(m).data = m.data /\ (Refetch(m) = Ask(m) \/ Refetch(m) = m) /\ Ask(m).fetch = "asked"
    BY <2>1, RefetchIs, AskIs
  <2> QED
    BY <2>1, <2>2, <2>3 DEF KeptQuery, Asked
<1> QED
  BY <1>1, <1>2, <1>3

\* Where the run's query is kept so and no event of the run is lost unnoticed,
\* the end stays on its way.
LEMMA KeptStep ==
  ASSUME RunPageInv, QueriesTypeOK', KeptQuery(cache.run, cache'.run),
         run \in Final => run' \in Final, missed \subseteq missed',
         run \notin Final /\ run' \in Final => Coming' \cap RunEvents # {},
         HasRows' /\ ~Asked(cache'.run) => Coming \cap RunEvents \subseteq Coming' \cup missed'
  PROVE  FinalInv' /\ EndInv'
<1>1. Shown' = Shown
  BY DEF KeptQuery, Shown, HasData
<1>2. Answered(cache'.run) => Answered(cache.run) /\ cache'.run.answer = cache.run.answer
  BY DEF KeptQuery, Answered, Asked
<1>3. FinalInv'
  BY <1>1, <1>2 DEF RunPageInv, FinalInv
<1>4. ASSUME run' \in Final, HasRows', missed' \cap RunEvents = {}, ~Asked(cache'.run)
      PROVE  \/ Coming' \cap RunEvents # {}
             \/ Answered(cache'.run) /\ cache'.run.answer.run \in Final
             \/ Shown' \in Final
  <2>1. /\ HasRows /\ ~Asked(cache.run) /\ missed \cap RunEvents = {}
        /\ Answered(cache.run) <=> Answered(cache'.run)
        /\ Answered(cache.run) => cache'.run.answer = cache.run.answer
    BY <1>4 DEF KeptQuery, Answered, Asked, HasRows, HasData
  <2>2. Coming \cap RunEvents \subseteq Coming'
    BY <1>4
  <2> QED
    BY <1>1, <1>4, <2>1, <2>2 DEF RunPageInv, EndInv
<1> QED
  BY <1>3, <1>4 DEF EndInv

\* The run ends with an event; nothing else of the page moves.
LEMMA RunInv ==
  ASSUME RunPageInv, Run \/ CheckCancel \/ CancelRun
  PROVE  RunPageTypeOK' /\ AwayInv' /\ FinalInv' /\ EndInv' /\ cache' = cache
<1>1. UNCHANGED pageVars
  BY DEF Run, StartTask, EndTask, FailRun, CompleteRun, CheckCancel, CancelRun
<1> DEFINE end(type) == [type |-> type]
<1>0. /\ end("RUN_COMPLETED") \in RunEvents /\ end("RUN_FAILED") \in RunEvents
      /\ end("RUN_CANCELLED") \in RunEvents
  BY DEF RunEvents
<1>2. /\ run \in Final => run' \in Final
      /\ toEmit \subseteq toEmit'
      /\ run \notin Final /\ run' \in Final => toEmit' \cap RunEvents # {}
  <2>1. CASE Run
    <3>1. CASE \E t \in Tasks : StartTask(t) \/ \E s \in {"COMPLETED", "FAILED"} : EndTask(t, s)
      BY <3>1 DEF StartTask, EndTask
    <3>2. CASE \E t \in Tasks : FailRun(t)
      BY <1>0, <3>2 DEF FailRun, Final
    <3>3. CASE CompleteRun
      BY <1>0, <3>3 DEF CompleteRun, Final
    <3> QED
      BY <2>1, <3>1, <3>2, <3>3 DEF Run
  <2>2. CASE CheckCancel
    BY <2>2 DEF CheckCancel, serverVars
  <2>3. CASE CancelRun
    BY <1>0, <2>3 DEF CancelRun, Final
  <2> QED
    BY <2>1, <2>2, <2>3
<1>3. run \in Status /\ task \in [Tasks -> Status] /\ toEmit \subseteq RunEvents \cup TaskEvents
  BY DEF RunPageInv, RunPageTypeOK
<1>4. \A rows \in [Tasks -> Status] : StopPending(rows) \in [Tasks -> Status]
  BY DEF StopPending, Status, Live, Final
<1>5. /\ run' \in Status /\ task' \in [Tasks -> Status]
      /\ toEmit' \subseteq RunEvents \cup TaskEvents
      /\ cancel' \in {"idle", "sent", "checked", "done", "refused"}
  <2>1. cancel \in {"idle", "sent", "checked", "done", "refused"}
    BY DEF RunPageInv, RunPageTypeOK
  <2>2. CASE \E t \in Tasks : StartTask(t)
    <3>1. PICK t \in Tasks : StartTask(t) BY <2>2
    <3>2. task' \in [Tasks -> Status]
      BY <1>3, <3>1 DEF StartTask, Status, Live
    <3>3. [taskId |-> t, status |-> "RUNNING"] \in TaskEvents
      BY DEF TaskEvents
    <3> QED
      BY <1>3, <2>1, <3>1, <3>2, <3>3 DEF StartTask
  <2>3. CASE \E t \in Tasks, s \in {"COMPLETED", "FAILED"} : EndTask(t, s)
    <3>1. PICK t \in Tasks, s \in {"COMPLETED", "FAILED"} : EndTask(t, s) BY <2>3
    <3>2. task' \in [Tasks -> Status]
      BY <1>3, <3>1 DEF EndTask, Status, Final
    <3>3. [taskId |-> t, status |-> s] \in TaskEvents
      BY DEF TaskEvents
    <3> QED
      BY <1>3, <2>1, <3>1, <3>2, <3>3 DEF EndTask
  <2>4. CASE \E t \in Tasks : FailRun(t)
    <3>1. PICK t \in Tasks : FailRun(t) BY <2>4
    <3>2. [task EXCEPT ![t] = "FAILED"] \in [Tasks -> Status]
      BY <1>3 DEF Status, Final
    <3>3. task' \in [Tasks -> Status]
      BY <1>4, <3>1, <3>2 DEF FailRun
    <3> QED
      BY <1>0, <1>3, <2>1, <3>1, <3>3 DEF FailRun, Status, Final
  <2>5. CASE CompleteRun
    BY <1>0, <1>3, <2>1, <2>5 DEF CompleteRun, Status, Final
  <2>6. CASE CheckCancel
    BY <1>3, <2>6 DEF CheckCancel, serverVars
  <2>7. CASE CancelRun
    BY <1>0, <1>3, <1>4, <2>7 DEF CancelRun, Status, Final
  <2> QED
    BY <2>2, <2>3, <2>4, <2>5, <2>6, <2>7 DEF Run
<1>6. RunPageTypeOK' /\ AwayInv' /\ cache' = cache
  BY <1>1, <1>5 DEF RunPageInv, RunPageTypeOK, AwayInv, pageVars, streamVars, eventVars
<1>7. /\ KeptQuery(cache.run, cache'.run) /\ QueriesTypeOK'
      /\ Coming \subseteq Coming' /\ missed' = missed
      /\ run \notin Final /\ run' \in Final => Coming' \cap RunEvents # {}
  BY <1>1, <1>2, <1>6
     DEF KeptQuery, QueriesTypeOK, RunPageTypeOK, Coming, OnWire, Unhandled, pageVars,
         streamVars, eventVars
<1> QED
  BY <1>2, <1>6, <1>7, KeptStep

\* What is put on the wire and taken from it.
LEMMA AppendIs ==
  ASSUME NEW S, NEW s \in Seq(S), NEW e \in S
  PROVE  /\ Append(s, e) \in Seq(S)
         /\ \A i \in DOMAIN s : \E j \in DOMAIN Append(s, e) : Append(s, e)[j] = s[i]
         /\ \E j \in DOMAIN Append(s, e) : Append(s, e)[j] = e
<1>1. Append(s, e) \in Seq(S) /\ Len(Append(s, e)) = Len(s) + 1 /\ Len(s) \in Nat
  OBVIOUS
<1>2. DOMAIN s = 1 .. Len(s) /\ DOMAIN Append(s, e) = 1 .. (Len(s) + 1)
  OBVIOUS
<1>3. \A i \in DOMAIN s : i \in DOMAIN Append(s, e) /\ Append(s, e)[i] = s[i]
  BY <1>1, <1>2
<1>4. Len(s) + 1 \in DOMAIN Append(s, e) /\ Append(s, e)[Len(s) + 1] = e
  BY <1>1, <1>2
<1> QED
  BY <1>1, <1>3, <1>4

LEMMA TailIs ==
  ASSUME NEW S, NEW s \in Seq(S), s # <<>>
  PROVE  /\ Head(s) \in S /\ Tail(s) \in Seq(S)
         /\ \A i \in DOMAIN s : s[i] = Head(s) \/ \E j \in DOMAIN Tail(s) : Tail(s)[j] = s[i]
<1>1. Head(s) \in S /\ Tail(s) \in Seq(S) /\ Len(Tail(s)) = Len(s) - 1 /\ Len(s) \in Nat
  OBVIOUS
<1>2. DOMAIN s = 1 .. Len(s) /\ DOMAIN Tail(s) = 1 .. (Len(s) - 1)
  BY <1>1
<1>3. \A i \in DOMAIN s : i # 1 => i - 1 \in DOMAIN Tail(s) /\ Tail(s)[i - 1] = s[i]
  BY <1>1, <1>2
<1>4. s[1] = Head(s)
  OBVIOUS
<1> QED
  BY <1>1, <1>3, <1>4

\* The stream delivers an event, or it is missed.
LEMMA StreamInv ==
  ASSUME RunPageInv,
         \/ Subscribe \/ RefuseStream \/ ExpireToken \/ Drop \/ Receive
         \/ \E e \in RunEvents \cup TaskEvents : Emit(e)
  PROVE  RunPageTypeOK' /\ AwayInv' /\ FinalInv' /\ EndInv' /\ cache' = cache
<1> DEFINE Events == RunEvents \cup TaskEvents
<1>1. /\ wire \in Seq(Events) /\ toEmit \subseteq Events /\ missed \subseteq Events
      /\ latest \in Events \cup {NoEvent} /\ unseen \in BOOLEAN
      /\ unseen => latest \in Events
  BY DEF RunPageInv, RunPageTypeOK
<1>2. OnWire \subseteq Events /\ Unhandled \subseteq Events
  <2>1. \A i \in DOMAIN wire : wire[i] \in Events
    BY <1>1
  <2> QED BY <1>1, <2>1 DEF OnWire, Unhandled
<1>3. \A e \in Events : e # NoEvent
  BY DEF RunEvents, TaskEvents, NoEvent
<1>4. UNCHANGED <<run, task, cache, changed, nodes, view, cancel>>
  BY DEF Subscribe, RefuseStream, ExpireToken, Drop, Receive, Emit, serverVars, streamVars, eventVars
<1>5. /\ conn' \in {"off", "connecting", "open", "reconnecting", "closed"}
      /\ authorized' \in BOOLEAN
      /\ conn = "off" => conn' = "off"
  <2>1. conn \in {"off", "connecting", "open", "reconnecting", "closed"} /\ authorized \in BOOLEAN
    BY DEF RunPageInv, RunPageTypeOK
  <2> QED
    BY <2>1 DEF Subscribe, RefuseStream, ExpireToken, Drop, Receive, Emit, streamVars
<1>6. /\ wire' \in Seq(Events) /\ toEmit' \subseteq Events /\ missed' \subseteq Events
      /\ latest' \in Events \cup {NoEvent} /\ unseen' \in BOOLEAN
      /\ unseen' => latest' # NoEvent
      /\ wire = <<>> /\ conn = "off" => wire' = <<>> /\ unseen' = unseen
      /\ missed \subseteq missed' /\ (HasRows => Coming \subseteq Coming' \cup missed')
  <2>1. CASE Subscribe \/ RefuseStream \/ ExpireToken
    <3>1. UNCHANGED <<toEmit, wire, latest, unseen, missed>>
      BY <2>1 DEF Subscribe, RefuseStream, ExpireToken, serverVars, eventVars
    <3> QED
      BY <1>1, <1>3, <3>1 DEF Coming, OnWire, Unhandled
  <2>2. CASE Drop
    <3>1. /\ UNCHANGED <<toEmit, latest, unseen>> /\ conn = "open"
          /\ wire' = <<>> /\ missed' = missed \cup OnWire
      BY <2>2 DEF Drop, serverVars, eventVars
    <3>2. wire' \in Seq(Events)
      BY <3>1
    <3> QED
      BY <1>1, <1>2, <1>3, <3>1, <3>2 DEF Coming, Unhandled
  <2>3. CASE Receive
    <3>1. /\ UNCHANGED toEmit /\ wire # <<>>
          /\ latest' = Head(wire) /\ unseen' = TRUE /\ wire' = Tail(wire)
          /\ missed' = missed \cup Unhandled
      BY <2>3 DEF Receive, serverVars
    <3>2. /\ Head(wire) \in Events /\ Tail(wire) \in Seq(Events)
          /\ \A i \in DOMAIN wire :
               wire[i] = Head(wire) \/ \E j \in DOMAIN Tail(wire) : Tail(wire)[j] = wire[i]
      BY <1>1, <3>1, TailIs
    <3>3. OnWire \subseteq OnWire' \cup Unhandled'
      BY <3>1, <3>2 DEF OnWire, Unhandled
    <3> QED
      BY <1>1, <1>2, <1>3, <3>1, <3>2, <3>3 DEF Coming
  <2>4. ASSUME NEW e \in Events, Emit(e) PROVE <1>6
    <3>1. /\ UNCHANGED <<latest, unseen>> /\ e \in toEmit /\ toEmit' = toEmit \ {e}
          /\ wire' = IF conn = "open" THEN Append(wire, e) ELSE wire
          /\ missed' = IF conn # "open" /\ (HasRows \/ latest # NoEvent)
                       THEN missed \cup {e} ELSE missed
      BY <2>4 DEF Emit, eventVars
    <3> HIDE DEF Events
    <3>2. /\ Append(wire, e) \in Seq(Events)
          /\ \A i \in DOMAIN wire : \E j \in DOMAIN Append(wire, e) : Append(wire, e)[j] = wire[i]
          /\ \E j \in DOMAIN Append(wire, e) : Append(wire, e)[j] = e
      BY <1>1, AppendIs
    <3>3. CASE conn = "open"
      <4>1. OnWire \cup {e} \subseteq OnWire'
        BY <3>1, <3>2, <3>3 DEF OnWire
      <4> QED
        BY <1>1, <1>3, <3>1, <3>2, <3>3, <4>1 DEF Coming, Unhandled
    <3>4. CASE conn # "open"
      BY <1>1, <1>3, <3>1, <3>4 DEF Coming, OnWire, Unhandled
    <3> QED BY <3>3, <3>4
  <2> QED BY <2>1, <2>2, <2>3, <2>4
<1>7. RunPageTypeOK' /\ AwayInv' /\ cache' = cache
  <2>1. RunPageTypeOK'
    BY <1>4, <1>5, <1>6 DEF RunPageInv, RunPageTypeOK
  <2>2. AwayInv'
    BY <1>4, <1>5, <1>6 DEF RunPageInv, AwayInv
  <2> QED BY <1>4, <2>1, <2>2
<1>8. KeptQuery(cache.run, cache'.run) /\ QueriesTypeOK' /\ run' = run /\ (HasRows' <=> HasRows)
  BY <1>4, <1>7 DEF KeptQuery, QueriesTypeOK, RunPageTypeOK, HasRows
<1> QED
  BY <1>6, <1>7, <1>8, KeptStep

\* An answer is read, received, lost, or grows old.
LEMMA FetchInv ==
  ASSUME RunPageInv, NEW p \in Pages, ReadRows(p) \/ SettleFetch(p) \/ FailFetch(p) \/ AgeData(p)
  PROVE  /\ RunPageTypeOK' /\ AwayInv' /\ FinalInv' /\ EndInv'
         /\ Shown \in Final => Shown' \in Final
<1> DEFINE S == IF p = "run" THEN Rows ELSE [run: Status]
<1>1. /\ QueriesTypeOK /\ cache[p] \in Entry(S) /\ "run" \in Pages /\ cache.run \in Entry(Rows)
      /\ run \in Status /\ task \in [Tasks -> Status] /\ missed \subseteq RunEvents \cup TaskEvents
      /\ changed \in BOOLEAN
  <2>1. QueriesTypeOK
    BY DEF RunPageInv, RunPageTypeOK, QueriesTypeOK
  <2> QED
    BY <2>1, QueryIs DEF RunPageInv, RunPageTypeOK, QueriesTypeOK, QueryOf, Pages
<1>2. /\ UNCHANGED <<serverVars, streamVars, eventVars, nodes, view, cancel>>
      /\ missed \subseteq missed' /\ missed' \subseteq RunEvents \cup TaskEvents
      /\ changed' \in BOOLEAN
  BY <1>1 DEF ReadRows, SettleFetch, FailFetch, AgeData
<1>3. PICK e : e \in Entry(S) /\ cache' = [cache EXCEPT ![p] = e]
               /\ \/ ReadRows(p) /\ e = Answer(cache[p], RowsOf(p))
                  \/ SettleFetch(p) /\ e = Settle(cache[p])
                  \/ FailFetch(p) /\ e = Fail(cache[p])
                  \/ AgeData(p) /\ e = [cache[p] EXCEPT !.stale = TRUE]
  <2>1. CASE ReadRows(p)
    <3>1. RowsOf(p) \in S
      BY <1>1 DEF RowsOf, Rows
    <3>2. Answer(cache[p], RowsOf(p)) \in Entry(S)
      BY <1>1, <3>1, AnswerIs
    <3> QED BY <2>1, <3>2 DEF ReadRows
  <2>2. CASE SettleFetch(p)
    BY <1>1, <2>2, EndsAre DEF SettleFetch
  <2>3. CASE FailFetch(p)
    BY <1>1, <2>3, EndsAre DEF FailFetch
  <2>4. CASE AgeData(p)
    <3>1. [cache[p] EXCEPT !.stale = TRUE] \in Entry(S)
      BY <1>1 DEF Entry
    <3>2. cache' = [cache EXCEPT ![p] = [cache[p] EXCEPT !.stale = TRUE]]
      BY <1>1, <2>4 DEF AgeData
    <3> QED BY <2>4, <3>1, <3>2
  <2> QED BY <2>1, <2>2, <2>3, <2>4
<1>4. QueriesTypeOK' /\ cache'[p] = e /\ \A q \in Pages : q # p => cache'[q] = cache[q]
  BY <1>1, <1>3, QueryUpdate DEF QueryOf
<1>5. RunPageTypeOK' /\ AwayInv'
  <2>1. RunPageTypeOK'
    BY <1>2, <1>4
       DEF RunPageInv, RunPageTypeOK, QueriesTypeOK, serverVars, streamVars, eventVars
  <2>2. AwayInv'
    BY <1>2 DEF RunPageInv, AwayInv, streamVars, eventVars
  <2> QED BY <2>1, <2>2
<1>6. run' = run /\ task' = task /\ Coming' = Coming
  BY <1>2 DEF serverVars, streamVars, eventVars, Coming, OnWire, Unhandled
<1>7. CASE KeptQuery(cache.run, cache'.run)
  <2>1. Shown' = Shown
    BY <1>7 DEF KeptQuery, Shown, HasData
  <2>2. FinalInv' /\ EndInv'
    BY <1>2, <1>4, <1>6, <1>7, KeptStep
  <2> QED BY <1>5, <2>1, <2>2
<1>8. CASE p # "run"
  <2>1. cache'.run = cache.run
    BY <1>1, <1>4, <1>8
  <2> QED BY <1>7, <2>1 DEF KeptQuery
<1>9. CASE p = "run" /\ e = [cache[p] EXCEPT !.stale = TRUE]
  <2>1. e.data = cache.run.data /\ e.fetch = cache.run.fetch /\ e.answer = cache.run.answer
    BY <1>1, <1>9 DEF Entry
  <2> QED BY <1>4, <1>7, <1>9, <2>1 DEF KeptQuery
<1>10. CASE p = "run" /\ ReadRows(p) /\ e = Answer(cache[p], RowsOf(p))
  <2>1. RowsOf(p) = [run |-> run, task |-> task] /\ RowsOf(p) \in Rows
    BY <1>1, <1>10 DEF RowsOf, Rows
  <2>2. /\ e.fetch = "answered" /\ e.data = cache.run.data
        /\ e.answer \in Rows /\ e.answer.run = run
    BY <1>1, <1>10, <2>1, AnswerIs
  <2>3. cache'.run = e
    BY <1>4, <1>10
  <2>4. Shown' = Shown
    BY <2>2, <2>3 DEF Shown, HasData
  <2>5. FinalInv' /\ EndInv'
    BY <1>6, <2>2, <2>3, <2>4 DEF RunPageInv, FinalInv, EndInv, Answered
  <2> QED BY <1>5, <2>4, <2>5
<1>11. CASE p = "run" /\ SettleFetch(p) /\ e = Settle(cache[p])
  <2>1. Answered(cache.run) /\ missed' = missed
    BY <1>11 DEF SettleFetch
  <2>2. e.fetch = "none" /\ e.data = cache.run.answer
    BY <1>1, <1>11, EndsAre
  <2>3. cache'.run = e /\ cache.run.answer \in Rows
    BY <1>4, <1>11, <2>1 DEF RunPageInv, FinalInv
  <2>4. Shown' = cache.run.answer.run
    BY <2>2, <2>3, RunPageAssumption DEF Shown, HasData
  <2>5. ~Asked(cache.run) /\ ~Answered(cache'.run) /\ HasRows
    BY <2>1, <2>2, <2>3 DEF Asked, Answered, HasRows
  <2>6. /\ Shown \in Final => Shown' \in Final
        /\ Shown' \in Final => run \in Final
    BY <2>1, <2>4 DEF RunPageInv, FinalInv
  <2>7. FinalInv'
    BY <1>6, <2>5, <2>6 DEF FinalInv
  <2>8. EndInv'
    BY <1>6, <2>1, <2>4, <2>5, <2>6 DEF RunPageInv, EndInv
  <2> QED BY <1>5, <2>6, <2>7, <2>8
<1>12. CASE p = "run" /\ FailFetch(p) /\ e = Fail(cache[p])
  <2>1. e.fetch = "none" /\ e.data = cache.run.data
    BY <1>1, <1>12, EndsAre
  <2>2. cache'.run = e
    BY <1>4, <1>12
  <2>3. Shown' = Shown /\ ~Answered(cache'.run)
    BY <2>1, <2>2 DEF Shown, HasData, Answered
  <2>4. missed' \cap RunEvents # {}
    <3>1. [type |-> "RUN_FAILED"] \in RunEvents
      BY DEF RunEvents
    <3> QED BY <1>12, <3>1 DEF FailFetch
  <2>5. FinalInv' /\ EndInv'
    BY <1>6, <2>3, <2>4 DEF RunPageInv, FinalInv, EndInv
  <2> QED BY <1>5, <2>3, <2>5
<1> QED
  BY <1>3, <1>8, <1>9, <1>10, <1>11, <1>12

\* Pages open and close; what the open one has not handled is dropped.
LEMMA UserInv ==
  ASSUME RunPageInv, User
  PROVE  /\ RunPageTypeOK' /\ AwayInv' /\ FinalInv' /\ EndInv'
         /\ Shown' = Shown
<1>1. /\ QueriesTypeOK /\ "run" \in Pages /\ Lists \subseteq Pages /\ "run" \notin Lists
      /\ \A p \in Pages : cache[p] \in QueryOf(p)
  <2>1. QueriesTypeOK
    BY DEF RunPageInv, RunPageTypeOK, QueriesTypeOK
  <2> QED
    BY <2>1, QueryIs, RunPageAssumption DEF Pages
<1>2. OnWire \subseteq RunEvents \cup TaskEvents /\ Unhandled \subseteq RunEvents \cup TaskEvents
  <2>1. \A i \in DOMAIN wire : wire[i] \in RunEvents \cup TaskEvents
    BY DEF RunPageInv, RunPageTypeOK
  <2>2. unseen => latest \in RunEvents \cup TaskEvents
    BY DEF RunPageInv, RunPageTypeOK
  <2> QED BY <2>1, <2>2 DEF OnWire, Unhandled
<1>4. /\ UNCHANGED <<serverVars>>
      /\ missed \subseteq missed' /\ missed' \subseteq RunEvents \cup TaskEvents
      /\ Coming \subseteq Coming' \cup missed'
  <2>1. missed \subseteq RunEvents \cup TaskEvents
    BY DEF RunPageInv, RunPageTypeOK
  <2>2. ASSUME NEW l \in Lists, OpenList(l) PROVE <1>4
    BY <1>2, <2>1, <2>2 DEF OpenList, serverVars, Coming
  <2>3. CASE OpenRun
    <3>1. OnWire = {} /\ Unhandled = {}
      <4>1. wire = <<>> /\ ~unseen
        BY <1>1, <2>3 DEF RunPageInv, AwayInv, OpenRun
      <4> QED BY <4>1 DEF OnWire, Unhandled
    <3> QED BY <2>1, <2>3, <3>1 DEF OpenRun, serverVars, Coming
  <2>4. ASSUME NEW l \in Lists, RefreshList(l) PROVE <1>4
    BY <2>1, <2>4 DEF RefreshList, serverVars, streamVars, eventVars, Coming, OnWire, Unhandled
  <2>5. CASE ClickCancel
    BY <2>1, <2>5 DEF ClickCancel, serverVars, streamVars, eventVars, Coming, OnWire, Unhandled
  <2> QED BY <2>2, <2>3, <2>4, <2>5 DEF User
<1>5. QueriesTypeOK' /\ KeptQuery(cache.run, cache'.run)
  <2>1. ASSUME NEW l \in Lists, OpenList(l) \/ RefreshList(l) PROVE <1>5
    <3>1. cache[l] \in Entry([run: Status]) /\ QueryOf(l) = Entry([run: Status])
      BY <1>1 DEF QueryOf
    <3>2. Mount(cache[l]) \in QueryOf(l) /\ Refetch(cache[l]) \in QueryOf(l)
      BY <3>1, MountIs, RefetchIs
    <3>3. PICK e \in QueryOf(l) : cache' = [cache EXCEPT ![l] = e]
      BY <2>1, <3>2 DEF OpenList, RefreshList
    <3>4. QueriesTypeOK' /\ cache'.run = cache.run
      BY <1>1, <3>3, QueryUpdate
    <3> QED BY <3>4 DEF KeptQuery
  <2>2. CASE OpenRun
    <3>1. cache.run \in Entry(Rows) /\ QueryOf("run") = Entry(Rows)
      BY <1>1 DEF QueryOf
    <3>2. Mount(cache.run) \in QueryOf("run") /\ KeptQuery(cache.run, Mount(cache.run))
      BY <3>1, MountIs, AskedAnew
    <3>3. cache' = [cache EXCEPT !["run"] = Mount(cache.run)]
      BY <2>2 DEF OpenRun
    <3> QED BY <1>1, <3>2, <3>3, QueryUpdate
  <2>3. CASE ClickCancel
    BY <1>1, <2>3 DEF ClickCancel, KeptQuery, QueriesTypeOK
  <2> QED BY <2>1, <2>2, <2>3 DEF User
<1>6. AwayInv' /\ RunPageTypeOK'
  <2> DEFINE Events == RunEvents \cup TaskEvents
  <2>1. /\ authorized' \in BOOLEAN /\ conn' \in {"off", "connecting", "open", "reconnecting", "closed"}
        /\ wire' \in Seq(Events) /\ latest' \in Events \cup {NoEvent} /\ unseen' \in BOOLEAN
        /\ unseen' => latest' # NoEvent
        /\ changed' \in BOOLEAN /\ nodes' \in [Tasks -> NodeStatus]
        /\ view' \in Pages \cup {"away"}
        /\ cancel' \in {"idle", "sent", "checked", "done", "refused"}
        /\ view' # "run" => conn' = "off" /\ wire' = <<>> /\ ~unseen'
    <3>1. /\ authorized \in BOOLEAN /\ conn \in {"off", "connecting", "open", "reconnecting", "closed"}
          /\ wire \in Seq(Events) /\ latest \in Events \cup {NoEvent} /\ unseen \in BOOLEAN
          /\ unseen => latest # NoEvent
          /\ changed \in BOOLEAN /\ nodes \in [Tasks -> NodeStatus]
          /\ view \in Pages \cup {"away"}
          /\ cancel \in {"idle", "sent", "checked", "done", "refused"}
          /\ view # "run" => conn = "off" /\ wire = <<>> /\ ~unseen
      BY DEF RunPageInv, RunPageTypeOK, AwayInv
    <3>2. <<>> \in Seq(Events) /\ [t \in Tasks |-> "idle"] \in [Tasks -> NodeStatus]
      BY DEF NodeStatus
    <3>3. ASSUME NEW l \in Lists, OpenList(l) PROVE <2>1
      BY <1>1, <3>1, <3>2, <3>3 DEF OpenList
    <3>4. CASE OpenRun
      <4>1. HasData(cache.run) \in BOOLEAN
        BY DEF HasData
      <4> QED BY <1>1, <3>1, <3>2, <3>4, <4>1 DEF OpenRun
    <3>5. ASSUME NEW l \in Lists, RefreshList(l) PROVE <2>1
      BY <3>1, <3>5 DEF RefreshList, streamVars, eventVars
    <3>6. CASE ClickCancel
      BY <3>1, <3>6 DEF ClickCancel, streamVars, eventVars
    <3> QED BY <3>3, <3>4, <3>5, <3>6 DEF User
  <2> QED
    BY <1>4, <1>5, <2>1 DEF RunPageInv, RunPageTypeOK, AwayInv, QueriesTypeOK, serverVars
<1>7. Shown' = Shown
  BY <1>5 DEF KeptQuery, Shown, HasData
<1> QED
  BY <1>4, <1>5, <1>6, <1>7, KeptStep DEF serverVars


\* The rows and the newest event make the canvas; an event of the run fetches.
LEMMA RenderInv ==
  ASSUME RunPageInv, Render
  PROVE  /\ RunPageTypeOK' /\ AwayInv' /\ FinalInv' /\ EndInv'
         /\ Shown' = Shown
<1>1. /\ QueriesTypeOK /\ "run" \in Pages /\ cache.run \in QueryOf("run") /\ QueryOf("run") = Entry(Rows)
  <2>1. QueriesTypeOK /\ "run" \in Pages
    BY DEF RunPageInv, RunPageTypeOK, QueriesTypeOK, Pages
  <2> QED
    BY <2>1, QueryIs DEF QueryOf
<1>2. /\ UNCHANGED <<serverVars, streamVars, latest, view, cancel, missed>>
      /\ changed' = FALSE /\ unseen' = FALSE /\ HasData(cache.run) /\ view = "run"
      /\ cache' = IF latest \in RunEvents
                  THEN [cache EXCEPT !["run"] = Refetch(cache.run)] ELSE cache
  BY DEF Render
<1>3. nodes' \in [Tasks -> NodeStatus]
  <2>1. \A status : StatusToNode(status) \in NodeStatus
    BY DEF StatusToNode, NodeStatus
  <2>2. PICK canvas \in [Tasks -> NodeStatus] :
          nodes' = IF latest \in TaskEvents
                   THEN [canvas EXCEPT ![latest.taskId] = StatusToNode(latest.status)]
                   ELSE canvas
    <3>1. BuildCanvas \in [Tasks -> NodeStatus] /\ nodes \in [Tasks -> NodeStatus]
      BY <2>1 DEF BuildCanvas, RunPageInv, RunPageTypeOK
    <3> QED BY <3>1 DEF Render
  <2> QED BY <2>1, <2>2
<1>4. QueriesTypeOK' /\ KeptQuery(cache.run, cache'.run)
  <2>1. CASE latest \in RunEvents
    <3>1. Refetch(cache.run) \in QueryOf("run") /\ KeptQuery(cache.run, Refetch(cache.run))
      BY <1>1, RefetchIs, AskedAnew
    <3> QED BY <1>1, <1>2, <2>1, <3>1, QueryUpdate
  <2>2. CASE latest \notin RunEvents
    BY <1>1, <1>2, <2>2 DEF KeptQuery, QueriesTypeOK
  <2> QED BY <2>1, <2>2
<1>5. HasRows' /\ ~Asked(cache'.run) => Coming \cap RunEvents \subseteq Coming'
  <2>1. CASE latest \in RunEvents
    <3>1. Refetch(cache.run) \in QueryOf("run") /\ Refetch(cache.run).fetch = "asked"
      BY <1>1, <1>2, RefetchIs, AskIs
    <3>2. cache'.run = Refetch(cache.run)
      BY <1>1, <1>2, <2>1, <3>1, QueryUpdate
    <3> QED BY <3>1, <3>2 DEF Asked
  <2>2. CASE latest \notin RunEvents
    BY <1>2, <2>2 DEF Coming, OnWire, Unhandled, serverVars, streamVars
  <2> QED BY <2>1, <2>2
<1>6. RunPageTypeOK' /\ AwayInv'
  BY <1>2, <1>3, <1>4 DEF RunPageInv, RunPageTypeOK, AwayInv, QueriesTypeOK, serverVars, streamVars
<1>7. Shown' = Shown
  BY <1>4 DEF KeptQuery, Shown, HasData
<1> QED
  BY <1>2, <1>4, <1>5, <1>6, <1>7, KeptStep DEF serverVars

\* A confirmed cancellation invalidates and fetches.
LEMMA CancelSucceedsInv ==
  ASSUME RunPageInv, CancelSucceeds
  PROVE  /\ RunPageTypeOK' /\ AwayInv' /\ FinalInv' /\ EndInv'
         /\ Shown' = Shown
<1> DEFINE invalidated == [p \in Pages |-> Invalidate(cache[p], view = p)]
<1>1. /\ QueriesTypeOK /\ "run" \in Pages /\ cache.run \in Entry(Rows) /\ Lists \subseteq Pages
      /\ "run" \notin Lists
      /\ \A l \in Lists : cache[l] \in Entry([run: Status])
      /\ \A p \in Pages : cache[p] \in Entry(Rows \cup [run: Status])
  BY RunPageAssumption DEF RunPageInv, RunPageTypeOK, QueriesTypeOK, Pages
<1>2. /\ UNCHANGED <<serverVars, streamVars, eventVars, changed, nodes, view, missed>>
      /\ cancel' = "idle"
      /\ cache' = [invalidated EXCEPT !["run"] = Refetch(invalidated["run"])]
  BY DEF CancelSucceeds
<1>3. \A p \in Pages : Invalidate(cache[p], view = p) \in Entry(Rows \cup [run: Status])
  <2> TAKE p \in Pages
  <2>1. (view = p) \in BOOLEAN
    OBVIOUS
  <2> QED BY <1>1, <2>1, InvalidateIs
<1>4. \A l \in Lists : Invalidate(cache[l], view = l) \in Entry([run: Status])
  <2> TAKE l \in Lists
  <2>1. (view = l) \in BOOLEAN
    OBVIOUS
  <2> QED BY <1>1, <2>1, InvalidateIs
<1> DEFINE i == Invalidate(cache.run, view = "run")
<1>5. i \in Entry(Rows) /\ KeptQuery(cache.run, i)
  <2>1. (view = "run") \in BOOLEAN
    OBVIOUS
  <2> QED BY <1>1, <2>1, InvalidateIs, AskedAnew
<1>6. invalidated \in [Pages -> Entry(Rows \cup [run: Status])] /\ invalidated["run"] = i
  BY <1>1, <1>3
<1>7. \A l \in Lists : invalidated[l] \in Entry([run: Status])
  BY <1>1, <1>4, Zenon
<1> HIDE DEF i, invalidated
<1>8. Refetch(i) \in Entry(Rows) /\ KeptQuery(i, Refetch(i))
  BY <1>5, RefetchIs, AskedAnew
<1>9. Refetch(i) \in Entry(Rows \cup [run: Status])
  BY <1>8 DEF Entry
<1>10. /\ cache' \in [Pages -> Entry(Rows \cup [run: Status])]
       /\ cache'["run"] = Refetch(i) /\ \A l \in Lists : cache'[l] = invalidated[l]
  BY <1>1, <1>2, <1>6, <1>9
<1>11. QueriesTypeOK' /\ KeptQuery(cache.run, cache'.run)
  <2>1. QueriesTypeOK'
    <3>1. \A l \in Lists : cache'[l] \in Entry([run: Status])
      BY <1>7, <1>10
    <3> QED BY <1>8, <1>10, <3>1 DEF QueriesTypeOK
  <2>2. KeptQuery(cache.run, Refetch(i))
    BY <1>5, <1>8 DEF KeptQuery, Asked
  <2> QED BY <1>10, <2>1, <2>2
<1>12. RunPageTypeOK' /\ AwayInv'
  BY <1>2, <1>11
     DEF RunPageInv, RunPageTypeOK, AwayInv, QueriesTypeOK, serverVars, streamVars, eventVars
<1>13. Shown' = Shown
  BY <1>11 DEF KeptQuery, Shown, HasData
<1>14. run' = run /\ Coming' = Coming /\ missed' = missed
  BY <1>2 DEF serverVars, streamVars, eventVars, Coming, OnWire, Unhandled
<1> QED
  BY <1>11, <1>12, <1>13, <1>14, KeptStep

\* No step leaves the invariant, and none takes the end of the run away.
LEMMA RunPageStep ==
  ASSUME RunPageInv, RunPageNext
  PROVE  RunPageInv' /\ (Shown \in Final => Shown' \in Final)
<1>1. cache' = cache => Shown' = Shown
  BY DEF Shown, HasData
<1>2. CASE Run \/ CheckCancel \/ CancelRun
  BY <1>1, <1>2, RunInv DEF RunPageInv
<1>3. CASE \/ Subscribe \/ RefuseStream \/ ExpireToken \/ Drop \/ Receive
           \/ \E e \in RunEvents \cup TaskEvents : Emit(e)
  BY <1>1, <1>3, StreamInv DEF RunPageInv
<1>4. ASSUME NEW p \in Pages, ReadRows(p) \/ SettleFetch(p) \/ FailFetch(p) \/ AgeData(p)
      PROVE  RunPageInv' /\ (Shown \in Final => Shown' \in Final)
  BY <1>4, FetchInv DEF RunPageInv
<1>5. CASE User
  BY <1>5, UserInv DEF RunPageInv
<1>6. CASE Render
  BY <1>6, RenderInv DEF RunPageInv
<1>7. CASE CancelSucceeds
  BY <1>7, CancelSucceedsInv DEF RunPageInv
<1> QED
  BY <1>2, <1>3, <1>4, <1>5, <1>6, <1>7 DEF RunPageNext, Mishap, Page, Server

\* RunPageInv holds in every reachable state.
THEOREM RunPageInvariance == RunPageSpec => []RunPageInv
<1>1. RunPageInit => RunPageInv
  <2> SUFFICES ASSUME RunPageInit PROVE RunPageInv OBVIOUS
  <2> USE DEF RunPageInit
  <2>1. /\ "run" \in Pages /\ Lists \subseteq Pages
        /\ \A p \in Pages : cache[p] = EmptyEntry
    BY DEF Pages
  <2>2. /\ EmptyEntry \in Entry(Rows) /\ EmptyEntry \in Entry([run: Status])
        /\ EmptyEntry \in Entry(Rows \cup [run: Status])
        /\ EmptyEntry.fetch = "none" /\ EmptyEntry.data = None
    BY EmptyIs
  <2>3. RunPageTypeOK
    <3>1. /\ cache \in [Pages -> Entry(Rows \cup [run: Status])]
          /\ cache.run \in Entry(Rows) /\ \A l \in Lists : cache[l] \in Entry([run: Status])
      BY <2>1, <2>2
    <3>2. /\ run \in Status /\ task \in [Tasks -> Status] /\ nodes \in [Tasks -> NodeStatus]
      BY DEF Status, Live, NodeStatus
    <3>3. /\ toEmit \subseteq RunEvents \cup TaskEvents /\ missed \subseteq RunEvents \cup TaskEvents
          /\ wire \in Seq(RunEvents \cup TaskEvents)
          /\ latest \in RunEvents \cup TaskEvents \cup {NoEvent} /\ unseen = FALSE
      OBVIOUS
    <3>4. /\ conn = "off" /\ authorized = TRUE /\ changed = FALSE
          /\ view \in Pages \cup {"away"} /\ cancel = "idle"
      OBVIOUS
    <3> HIDE DEF RunPageInit
    <3> QED BY <3>1, <3>2, <3>3, <3>4 DEF RunPageTypeOK
  <2>4. ~Answered(cache.run) /\ ~HasRows /\ Shown = "Loading"
    BY <2>1, <2>2 DEF Answered, HasRows, HasData, Shown
  <2>5. FinalInv /\ AwayInv /\ EndInv
    BY <2>4 DEF FinalInv, AwayInv, EndInv, Final
  <2> QED BY <2>3, <2>5 DEF RunPageInv
<1>2. RunPageInv /\ [RunPageNext]_runPageVars => RunPageInv'
  <2> SUFFICES ASSUME RunPageInv, [RunPageNext]_runPageVars PROVE RunPageInv' OBVIOUS
  <2>1. CASE RunPageNext
    BY <2>1, RunPageStep
  <2>2. CASE UNCHANGED runPageVars
    <3>1. UNCHANGED <<run, task, toEmit, conn, authorized, wire, latest, unseen, cache, changed,
                      nodes, view, cancel, missed>>
      BY <2>2 DEF runPageVars, serverVars, streamVars, eventVars
    <3>2. RunPageTypeOK' /\ AwayInv'
      BY <3>1 DEF RunPageInv, RunPageTypeOK, AwayInv
    <3>3. FinalInv' /\ EndInv'
      BY <3>1 DEF RunPageInv, FinalInv, EndInv, Shown, HasData, HasRows, Answered, Asked,
                  Coming, OnWire, Unhandled
    <3> QED BY <3>2, <3>3 DEF RunPageInv
  <2> QED BY <2>1, <2>2
<1> QED
  BY <1>1, <1>2, PTL DEF RunPageSpec

\* The end of a run is on its way to an open page until the page shows it.
THEOREM EndIsOnItsWay == RunPageSpec => []EndOnItsWay
<1>1. RunPageInv => EndOnItsWay
  BY DEF RunPageInv, EndInv, EndOnItsWay
<1> QED
  BY <1>1, RunPageInvariance, PTL

\* The output of an ended run stays on the page.
THEOREM EndIsNotTakenBack == RunPageSpec => EndStaysShown
<1>1. RunPageInv /\ [RunPageNext]_runPageVars => [OutputShown => (OutputShown' \/ view' # "run")]_runPageVars
  <2> SUFFICES ASSUME RunPageInv, RunPageNext, OutputShown
               PROVE  OutputShown' \/ view' # "run"
    OBVIOUS
  <2>1. OutputShown <=> view = "run" /\ Shown \in Final
    BY DEF OutputShown, OutputPanel, Final
  <2>2. Shown' \in Final
    BY <2>1, RunPageStep
  <2> QED
    BY <2>2 DEF OutputShown, OutputPanel, Final
<1> QED
  BY <1>1, RunPageInvariance, PTL DEF RunPageSpec, EndStaysShown
=============================================================================
