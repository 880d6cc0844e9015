-------------------------- MODULE WorkflowVersions --------------------------
(***************************************************************************)
(* The version history of one workflow definition                          *)
(* (server/api/workflow/workflow.service.ts): an edit or a restore reads   *)
(* the row, snapshots what it read under the version it read, and writes   *)
(* the row with the next version.  The three calls are not in a            *)
(* transaction, so those of concurrent requests interleave and a request   *)
(* can die between any two of them.  What keeps the history in order is    *)
(* the unique index on (workflowId, version).                              *)
(***************************************************************************)
EXTENDS Naturals

CONSTANTS
  Requests,    \* concurrent PUT and restore requests, each reused when done
  Fields,      \* name, description, definition
  Values,      \* what a field may hold
  NoSnapshot,  \* there is no WorkflowVersion row for a version
  (* bounds *)
  MaxVersion,  \* versions the row may reach
  MaxFaults    \* requests that die between two calls

Contents == [Fields -> Values]
Versions == 1 .. MaxVersion

ASSUME WorkflowVersionsAssumption ==
  /\ NoSnapshot \notin Contents
  /\ MaxVersion \in Nat \ {0}
  /\ MaxFaults \in Nat

VARIABLES
  version,   \* WorkflowDefinition.version
  content,   \* the fields of the WorkflowDefinition row
  snapshots, \* the WorkflowVersion rows, by version
  pc,        \* the next call of each request
  seen,      \* current: the row as the request read it
  target,    \* versionNumber of a restore
  next,      \* the content the request is going to write
  faults

vars == <<version, content, snapshots, pc, seen, target, next, faults>>

TypeOK ==
  /\ version \in Versions
  /\ content \in Contents
  /\ snapshots \in [Versions -> Contents \cup {NoSnapshot}]
  /\ pc \in [Requests -> {"idle", "findVersion", "createVersion", "update"}]
  /\ seen \in [Requests -> [version : Versions, content : Contents]]
  /\ target \in [Requests -> Versions]
  /\ next \in [Requests -> Contents]
  /\ faults \in 0 .. MaxFaults

\* createWorkflow has written the row; requests have read nothing yet.
Init ==
  /\ version = 1
  /\ content \in Contents
  /\ snapshots = [v \in Versions |-> NoSnapshot]
  /\ pc = [r \in Requests |-> "idle"]
  /\ seen = [r \in Requests |-> [version |-> 1, content |-> content]]
  /\ target = [r \in Requests |-> 1]
  /\ next = [r \in Requests |-> content]
  /\ faults = 0

Goto(r, label) == pc' = [pc EXCEPT ![r] = label]
SeeRow(r) == seen' = [seen EXCEPT ![r] = [version |-> version, content |-> content]]

-----------------------------------------------------------------------------
(* The calls of the two handlers.                                          *)

\* updateWorkflow: the fields in S come from the request, the others from the
\* row it reads.
ReadForUpdate(r) ==
  /\ pc[r] = "idle" /\ version < MaxVersion
  /\ SeeRow(r)
  /\ \E S \in SUBSET Fields : \E input \in [S -> Values] :
       next' = [next EXCEPT ![r] = [f \in Fields |-> IF f \in S THEN input[f] ELSE content[f]]]
  /\ Goto(r, "createVersion")
  /\ UNCHANGED <<version, content, snapshots, target, faults>>

ReadForRestoreSnapshotFirst(r) == \* mutant: snapshot before the target is known to exist
  /\ pc[r] = "idle" /\ version < MaxVersion /\ snapshots[version] = NoSnapshot
  /\ SeeRow(r)
  /\ snapshots' = [snapshots EXCEPT ![version] = content]
  /\ \E v \in Versions : target' = [target EXCEPT ![r] = v]
  /\ Goto(r, "findVersion")
  /\ UNCHANGED <<version, content, next, faults>>
\* restoreVersion: findById.
ReadForRestore(r) ==
  /\ pc[r] = "idle" /\ version < MaxVersion
  /\ SeeRow(r)
  /\ \E v \in Versions : target' = [target EXCEPT ![r] = v]
  /\ Goto(r, "findVersion")
  /\ UNCHANGED <<version, content, snapshots, next, faults>>

\* restoreVersion: findVersion, or 404.
ReadTarget(r) ==
  /\ pc[r] = "findVersion"
  /\ IF snapshots[target[r]] = NoSnapshot
     THEN Goto(r, "idle") /\ next' = next
     ELSE Goto(r, "createVersion") /\ next' = [next EXCEPT ![r] = snapshots[target[r]]]
  /\ UNCHANGED <<version, content, snapshots, seen, target, faults>>

CreateVersionUpsert(r) == \* mutant: upsert
  /\ pc[r] = "createVersion"
  /\ snapshots' = [snapshots EXCEPT ![seen[r].version] = seen[r].content]
  /\ Goto(r, "update")
  /\ UNCHANGED <<version, content, seen, target, next, faults>>
\* createVersion: the snapshot, unless the unique index rejects it (P2002).
CreateVersion(r) ==
  /\ pc[r] = "createVersion"
  /\ LET v == seen[r].version IN
     IF snapshots[v] = NoSnapshot
     THEN Goto(r, "update") /\ snapshots' = [snapshots EXCEPT ![v] = seen[r].content]
     ELSE Goto(r, "idle") /\ UNCHANGED snapshots
  /\ UNCHANGED <<version, content, seen, target, next, faults>>

UpdateKeepsVersion(r) == \* mutant: a restore brings the old version number back
  /\ pc[r] = "update"
  /\ content' = next[r]
  /\ version' = IF \E v \in Versions : snapshots[v] = next[r]
                THEN CHOOSE v \in Versions : snapshots[v] = next[r] ELSE seen[r].version + 1
  /\ Goto(r, "idle")
  /\ UNCHANGED <<snapshots, seen, target, next, faults>>
Update(r) ==
  /\ pc[r] = "update"
  /\ content' = next[r]
  /\ version' = seen[r].version + 1
  /\ Goto(r, "idle")
  /\ UNCHANGED <<snapshots, seen, target, next, faults>>

\* The process crashes or a call of the request fails: what it wrote stays.
Fail(r) ==
  /\ pc[r] # "idle" /\ faults < MaxFaults
  /\ faults' = faults + 1
  /\ Goto(r, "idle")
  /\ UNCHANGED <<version, content, snapshots, seen, target, next>>

Next == \E r \in Requests :
  \/ ReadForUpdate(r) \/ ReadForRestore(r) \/ ReadTarget(r)
  \/ CreateVersion(r) \/ Update(r) \/ Fail(r)

Spec == Init /\ [][Next]_vars

-----------------------------------------------------------------------------
(* Safety.                                                                 *)

\* No edit is lost: the row changes by one version at a time, and only after
\* the content it had is in the snapshot of the version it had.
NoLostEdit ==
  [][<<version, content>>' # <<version, content>> =>
       version' = version + 1 /\ snapshots[version] = content]_vars

\* A snapshot, once written, is never replaced or removed.
SnapshotsImmutable ==
  [][\A v \in Versions : snapshots[v] # NoSnapshot => snapshots'[v] = snapshots[v]]_vars

\* Every version behind the current one has its snapshot and none ahead of it
\* has: the history has no gaps.
SnapshotsSequential ==
  \A v \in Versions :
    /\ v < version => snapshots[v] # NoSnapshot
    /\ v > version => snapshots[v] = NoSnapshot

\* A request about to write builds on the row as it is: no field it leaves
\* alone goes back to an older value, whatever ran since it read the row.
WritesBuildOnCurrentRow ==
  \A r \in Requests : pc[r] = "update" => seen[r] = [version |-> version, content |-> content]

\* When no request is under way the workflow can be edited: the snapshot the
\* next edit takes is not there yet.
Editable ==
  (\A r \in Requests : pc[r] = "idle") => snapshots[version] = NoSnapshot

\* As long as no request has died half-way, an idle workflow can be edited,
\* however many edits and restores have collided and been rejected.
EditableUnlessInterrupted == faults = 0 => Editable

\* The snapshots of the versions the row has left: the one an edit has taken
\* but not yet followed by its write is not history.
Committed == [v \in Versions |-> IF v < version THEN snapshots[v] ELSE NoSnapshot]

History == INSTANCE VersionHistory WITH history <- Committed

\* Seen from the committed history, the calls of concurrent and failing edits
\* and restores are atomic edits.
ImplementsHistory == History!Spec

-----------------------------------------------------------------------------
(* The inductive invariant: the unique index works as a lock.              *)

\* What a request read is the current row, or of a version already passed.
SeenInv ==
  \A r \in Requests : pc[r] # "idle" =>
    /\ seen[r].version < MaxVersion
    /\ seen[r].version <= version
    /\ seen[r].version = version => seen[r].content = content

\* Who writes next holds the snapshot of the current version, alone.
LockInv ==
  /\ \A r \in Requests : pc[r] = "update" =>
       /\ seen[r].version = version
       /\ snapshots[version] = content
  /\ \A q, r \in Requests : pc[q] = "update" /\ pc[r] = "update" => q = r

\* Until a request dies half-way the lock is held by a live one.
HeldInv ==
  faults = 0 /\ snapshots[version] # NoSnapshot => \E r \in Requests : pc[r] = "update"

IndInv == TypeOK /\ SnapshotsSequential /\ SeenInv /\ LockInv /\ HeldInv
=============================================================================
