---------------------------- MODULE Organization ----------------------------
(***************************************************************************)
(* The members of one organization (server/api/organization): every        *)
(* request checks its requester's membership, reads what it needs and      *)
(* writes, each in a database call of its own, while other requests run    *)
(* in between.                                                             *)
(***************************************************************************)
EXTENDS Naturals, FiniteSets

CONSTANTS
  Users,
  Creator,     \* of the organization
  Requests,    \* concurrent requests, each reused when done
  NewRoles,    \* the roles that role changes ask for
  MaxRemovals  \* bound: members being removed at the same time

OrgRole == {"OWNER", "ADMIN", "MEMBER"}

ASSUME OrganizationAssumption ==
  /\ Creator \in Users
  /\ NewRoles \subseteq OrgRole
  /\ IsFiniteSet(Users) /\ IsFiniteSet(Requests)
  /\ MaxRemovals \in Nat

\* What the proofs assume beside: removals do not overlap and role changes
\* only promote to owner.
OneRemoval == MaxRemovals = 1 /\ NewRoles = {"OWNER"}

VARIABLES
  exists,  \* the Organization row
  role,    \* of each user's OrganizationMember row, "NONE" without one
  pc,      \* the next call of each request
  target,  \* the member it is about
  newRole  \* the role it gives

vars == <<exists, role, pc, target, newRole>>
rowVars == <<exists, role>>
args == <<target, newRole>>

Removing == {"findTarget", "countOwners", "removeMember"}
PCs == Removing \cup {"idle", "findMember", "updateMemberRole", "findExisting", "addMember", "delete"}

TypeOK ==
  /\ exists \in BOOLEAN
  /\ role \in [Users -> OrgRole \cup {"NONE"}]
  /\ pc \in [Requests -> PCs]
  /\ target \in [Requests -> Users]
  /\ newRole \in [Requests -> OrgRole]

\* createOrganization: the organization and its owner in one nested create.
Init ==
  /\ exists = TRUE
  /\ role = [u \in Users |-> IF u = Creator THEN "OWNER" ELSE "NONE"]
  /\ pc = [q \in Requests |-> "idle"]
  /\ target = [q \in Requests |-> Creator]
  /\ newRole = [q \in Requests |-> "MEMBER"]

Owners == {u \in Users : role[u] = "OWNER"}

\* A request that passed the check of its requester's membership.
Accept(q, u, r, next) ==
  /\ pc[q] = "idle"
  /\ pc' = [pc EXCEPT ![q] = next]
  /\ target' = [target EXCEPT ![q] = u]
  /\ newRole' = [newRole EXCEPT ![q] = r]
  /\ UNCHANGED rowVars

\* A call that reads, and where it leads.
Read(q, from, next) ==
  /\ pc[q] = from
  /\ pc' = [pc EXCEPT ![q] = next]
  /\ UNCHANGED <<rowVars, args>>

\* The last call: it gives the member this role, "NONE" for no row.
Write(q, from, r) ==
  /\ pc[q] = from
  /\ pc' = [pc EXCEPT ![q] = "idle"]
  /\ role' = [role EXCEPT ![target[q]] = r]
  /\ UNCHANGED <<exists, args>>

IsMember(q) == role[target[q]] # "NONE"

-----------------------------------------------------------------------------
(* removeMember                                                            *)

RemoveMember(q, by, u) ==
  /\ by = u \/ role[by] \in {"OWNER", "ADMIN"}
  /\ role[by] # "NONE"
  /\ Cardinality({p \in Requests : pc[p] \in Removing}) < MaxRemovals
  /\ Accept(q, u, newRole[q], "findTarget")

FindTarget(q) ==
  Read(q, "findTarget", CASE role[target[q]] = "NONE"  -> "idle"
                          [] role[target[q]] = "OWNER" -> "countOwners"
                          [] OTHER                     -> "removeMember")

CountOwners(q) ==
  Read(q, "countOwners", IF Cardinality(Owners) <= 1 THEN "idle" ELSE "removeMember")

DeleteMember(q) == IsMember(q) /\ Write(q, "removeMember", "NONE")

-----------------------------------------------------------------------------
(* updateMemberRole, addMember and deleteOrganization                      *)

UpdateMemberRole(q, by, u, r) ==
  role[by] = "OWNER" /\ r \in NewRoles /\ Accept(q, u, r, "findMember")

FindMember(q) == Read(q, "findMember", IF IsMember(q) THEN "updateMemberRole" ELSE "idle")

\* The only condition is that the row exists.
ChangeRole(q) == IsMember(q) /\ Write(q, "updateMemberRole", newRole[q])

AddMember(q, by, u, r) ==
  role[by] \in {"OWNER", "ADMIN"} /\ Accept(q, u, r, "findExisting")

FindExisting(q) == Read(q, "findExisting", IF IsMember(q) THEN "idle" ELSE "addMember")

CreateMemberUpsert(q) == \* mutant: an upsert instead of the unique index
  exists /\ Write(q, "addMember", newRole[q])
\* The unique index rejects a second row of the user.
CreateMember(q) == exists /\ ~IsMember(q) /\ Write(q, "addMember", newRole[q])

DeleteOrganization(q, by) ==
  role[by] = "OWNER" /\ Accept(q, target[q], newRole[q], "delete")

\* The members' rows go with the organization's.
DeleteRows(q) ==
  /\ pc[q] = "delete" /\ exists
  /\ pc' = [pc EXCEPT ![q] = "idle"]
  /\ exists' = FALSE
  /\ role' = [u \in Users |-> "NONE"]
  /\ UNCHANGED args

\* The write finds its row gone, or already there.
WriteRejected(q) ==
  /\ \/ pc[q] \in {"removeMember", "updateMemberRole"} /\ ~IsMember(q)
     \/ pc[q] = "addMember" /\ (IsMember(q) \/ ~exists)
     \/ pc[q] = "delete" /\ ~exists
  /\ Read(q, pc[q], "idle")

-----------------------------------------------------------------------------
Next ==
  \E q \in Requests :
    \/ \E by, u \in Users :
         \/ RemoveMember(q, by, u)
         \/ \E r \in OrgRole : UpdateMemberRole(q, by, u, r) \/ AddMember(q, by, u, r)
         \/ DeleteOrganization(q, by)
    \/ FindTarget(q) \/ CountOwners(q) \/ DeleteMember(q)
    \/ FindMember(q) \/ ChangeRole(q)
    \/ FindExisting(q) \/ CreateMember(q)
    \/ DeleteRows(q) \/ WriteRejected(q)

Spec == Init /\ [][Next]_vars

-----------------------------------------------------------------------------
(* Properties.                                                             *)

\* As long as the organization exists somebody owns it: removeMember rejects the
\* removal of the last owner, on a count that is two calls old when it deletes.
HasOwner == exists => Owners # {}

\* About to remove a member, somebody else is an owner: why the count, or the
\* target's role, may be two calls old when the row is deleted.
OtherOwner ==
  \A q \in Requests :
    exists /\ pc[q] = "removeMember" => \E u \in Owners : u # target[q]

\* One removal at a time.
AloneInv ==
  \A p, q \in Requests : pc[p] \in Removing /\ pc[q] \in Removing => p = q

\* Role changes make owners.
PromotionInv == \A q \in Requests : pc[q] \in {"findMember", "updateMemberRole"} => newRole[q] = "OWNER"

IndInv == TypeOK /\ HasOwner /\ OtherOwner /\ AloneInv /\ PromotionInv

=============================================================================
