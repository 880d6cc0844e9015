----------------------- MODULE WorkflowVersionsProofs -----------------------
(***************************************************************************)
(* Proofs about WorkflowVersions for every set of requests, fields and     *)
(* values and every number of versions and faults.                         *)
(*                                                                         *)
(* The argument: a request may write only while it holds the snapshot of   *)
(* the current version (LockInv), and the unique index gives that snapshot *)
(* to one request.  A request that read an older version finds its         *)
(* snapshot taken, because history has no gaps (SnapshotsSequential).      *)
(***************************************************************************)
EXTENDS WorkflowVersions, TLAPS

USE DEF Versions, Contents

\* The row createWorkflow leaves behind satisfies the invariant.
LEMMA InitInv == Init => IndInv
<1> SUFFICES ASSUME Init PROVE IndInv
  OBVIOUS
<1> USE WorkflowVersionsAssumption DEF Init
<1>1. TypeOK
  BY DEF TypeOK
<1>2. SnapshotsSequential
  BY DEF SnapshotsSequential
<1>3. SeenInv /\ LockInv /\ HeldInv
  BY DEF SeenInv, LockInv, HeldInv
<1> QED
  BY <1>1, <1>2, <1>3 DEF IndInv

\* Every call keeps every variable in its type; a write stays within
\* MaxVersion because its read did.
LEMMA TypeStep == IndInv /\ [Next]_vars => TypeOK'
<1> SUFFICES ASSUME IndInv, [Next]_vars PROVE TypeOK'
  OBVIOUS
<1> USE WorkflowVersionsAssumption DEF IndInv, TypeOK, Goto, SeeRow
<1>1. ASSUME NEW r \in Requests, ReadForUpdate(r) PROVE TypeOK'
  <2>0. PICK S \in SUBSET Fields : \E input \in [S -> Values] :
          next' = [next EXCEPT ![r] = [f \in Fields |-> IF f \in S THEN input[f] ELSE content[f]]]
    BY <1>1 DEF ReadForUpdate
  <2>1. PICK input \in [S -> Values] :
          next' = [next EXCEPT ![r] = [f \in Fields |-> IF f \in S THEN input[f] ELSE content[f]]]
    BY <2>0
  <2>2. [f \in Fields |-> IF f \in S THEN input[f] ELSE content[f]] \in [Fields -> Values]
    OBVIOUS
  <2>3. next' \in [Requests -> [Fields -> Values]]
    BY <2>1, <2>2
  <2> QED
    BY <1>1, <2>3 DEF ReadForUpdate
<1>2. ASSUME NEW r \in Requests, ReadForRestore(r) PROVE TypeOK'
  BY <1>2 DEF ReadForRestore
<1>3. ASSUME NEW r \in Requests, ReadTarget(r) PROVE TypeOK'
  <2>1. snapshots[target[r]] # NoSnapshot => snapshots[target[r]] \in [Fields -> Values]
    OBVIOUS
  <2> QED
    BY <1>3, <2>1 DEF ReadTarget
<1>4. ASSUME NEW r \in Requests, CreateVersion(r) PROVE TypeOK'
  BY <1>4 DEF CreateVersion
<1>5. ASSUME NEW r \in Requests, Update(r) PROVE TypeOK'
  <2>1. seen[r].version \in 1 .. MaxVersion /\ seen[r].version < MaxVersion
    BY <1>5 DEF Update, SeenInv
  <2>2. seen[r].version + 1 \in 1 .. MaxVersion
    BY <2>1
  <2> QED
    BY <1>5, <2>2 DEF Update
<1>6. ASSUME NEW r \in Requests, Fail(r) PROVE TypeOK'
  BY <1>6 DEF Fail
<1>7. CASE UNCHANGED vars
  BY <1>7 DEF vars
<1> QED
  BY <1>1, <1>2, <1>3, <1>4, <1>5, <1>6, <1>7 DEF Next

\* No call changes the rows but createVersion and update.
LEMMA OtherCalls ==
  ASSUME IndInv, [Next]_vars,
         \A r \in Requests : ~CreateVersion(r) /\ ~Update(r)
  PROVE  UNCHANGED <<version, content, snapshots>>
BY DEF Next, vars, ReadForUpdate, ReadForRestore, ReadTarget, Fail

\* createVersion fills the slot of the current version or none: an older one
\* is taken already, and the request has seen no later one.
LEMMA SnapshotOfCurrent ==
  ASSUME IndInv, NEW r \in Requests, CreateVersion(r), snapshots' # snapshots
  PROVE  /\ seen[r] = [version |-> version, content |-> content]
         /\ snapshots[version] = NoSnapshot
         /\ snapshots' = [snapshots EXCEPT ![version] = content]
         /\ pc' = [pc EXCEPT ![r] = "update"]
<1> USE WorkflowVersionsAssumption DEF IndInv, TypeOK, Goto
<1>1. snapshots[seen[r].version] = NoSnapshot
  BY DEF CreateVersion
<1>2. seen[r].version <= version
  BY DEF CreateVersion, SeenInv
<1>3. seen[r].version = version
  BY <1>1, <1>2 DEF SnapshotsSequential
<1>4. seen[r].content = content
  BY <1>3 DEF CreateVersion, SeenInv
<1>5. seen[r] = [version |-> version, content |-> content]
  BY <1>3, <1>4
<1> QED
  BY <1>1, <1>3, <1>4, <1>5 DEF CreateVersion

\* update moves the row from the version whose snapshot exists to the next.
LEMMA UpdateFromCurrent ==
  ASSUME IndInv, NEW r \in Requests, Update(r)
  PROVE  /\ version' = version + 1
         /\ version < MaxVersion
         /\ snapshots[version] = content
         /\ snapshots' = snapshots
         /\ \A q \in Requests : q # r => pc[q] # "update"
         /\ pc' = [pc EXCEPT ![r] = "idle"]
         /\ seen' = seen
BY DEF IndInv, SeenInv, LockInv, Update, Goto

\* The history stays without gaps.
LEMMA SequentialStep == IndInv /\ [Next]_vars => SnapshotsSequential'
<1> SUFFICES ASSUME IndInv, [Next]_vars PROVE SnapshotsSequential'
  OBVIOUS
<1> USE WorkflowVersionsAssumption DEF IndInv, TypeOK, SnapshotsSequential
<1>1. ASSUME NEW r \in Requests, CreateVersion(r) PROVE SnapshotsSequential'
  <2>1. version' = version
    BY <1>1 DEF CreateVersion
  <2>2. CASE snapshots' = snapshots
    BY <2>1, <2>2
  <2>3. CASE snapshots' # snapshots
    <3>1. snapshots' = [snapshots EXCEPT ![version] = content]
      BY <1>1, <2>3, SnapshotOfCurrent
    <3> QED
      BY <2>1, <3>1
  <2> QED
    BY <2>2, <2>3
<1>2. ASSUME NEW r \in Requests, Update(r) PROVE SnapshotsSequential'
  <2>1. version' = version + 1 /\ snapshots[version] = content /\ snapshots' = snapshots
    BY <1>2, UpdateFromCurrent
  <2>2. snapshots[version] # NoSnapshot
    BY <2>1
  <2> QED
    BY <2>1, <2>2
<1>3. CASE \A r \in Requests : ~CreateVersion(r) /\ ~Update(r)
  BY <1>3, OtherCalls
<1> QED
  BY <1>1, <1>2, <1>3

\* What a request has read stays the current row until the row moves on.
LEMMA SeenStep == IndInv /\ [Next]_vars => SeenInv'
<1> SUFFICES ASSUME IndInv, [Next]_vars PROVE SeenInv'
  OBVIOUS
<1> USE WorkflowVersionsAssumption DEF IndInv, TypeOK, SeenInv, Goto, SeeRow
<1>1. ASSUME NEW r \in Requests, ReadForUpdate(r) PROVE SeenInv'
  BY <1>1 DEF ReadForUpdate
<1>2. ASSUME NEW r \in Requests, ReadForRestore(r) PROVE SeenInv'
  BY <1>2 DEF ReadForRestore
<1>3. ASSUME NEW r \in Requests, ReadTarget(r) PROVE SeenInv'
  BY <1>3 DEF ReadTarget
<1>4. ASSUME NEW r \in Requests, CreateVersion(r) PROVE SeenInv'
  BY <1>4 DEF CreateVersion
<1>5. ASSUME NEW r \in Requests, Update(r) PROVE SeenInv'
  BY <1>5, UpdateFromCurrent
<1>6. ASSUME NEW r \in Requests, Fail(r) PROVE SeenInv'
  BY <1>6 DEF Fail
<1>7. CASE UNCHANGED vars
  BY <1>7 DEF vars
<1> QED
  BY <1>1, <1>2, <1>3, <1>4, <1>5, <1>6, <1>7 DEF Next

\* Only the request that inserted the current snapshot may write.
LEMMA LockStep == IndInv /\ [Next]_vars => LockInv'
<1> SUFFICES ASSUME IndInv, [Next]_vars PROVE LockInv'
  OBVIOUS
<1> USE WorkflowVersionsAssumption DEF IndInv, TypeOK, LockInv, Goto, SeeRow
<1>1. ASSUME NEW r \in Requests, ReadForUpdate(r) PROVE LockInv'
  BY <1>1 DEF ReadForUpdate
<1>2. ASSUME NEW r \in Requests, ReadForRestore(r) PROVE LockInv'
  BY <1>2 DEF ReadForRestore
<1>3. ASSUME NEW r \in Requests, ReadTarget(r) PROVE LockInv'
  BY <1>3 DEF ReadTarget
<1>4. ASSUME NEW r \in Requests, CreateVersion(r) PROVE LockInv'
  <2>1. CASE snapshots' = snapshots
    <3>1. snapshots[seen[r].version] # NoSnapshot
      <4>1. SUFFICES ASSUME snapshots[seen[r].version] = NoSnapshot PROVE FALSE
        OBVIOUS
      <4>2. snapshots'[seen[r].version] = seen[r].content
        BY <1>4, <4>1 DEF CreateVersion
      <4> QED
        BY <2>1, <4>1, <4>2
    <3> QED
      BY <1>4, <2>1, <3>1 DEF CreateVersion
  <2>2. CASE snapshots' # snapshots
    <3>1. /\ seen[r] = [version |-> version, content |-> content]
          /\ snapshots[version] = NoSnapshot
          /\ snapshots' = [snapshots EXCEPT ![version] = content]
          /\ pc' = [pc EXCEPT ![r] = "update"]
      BY <1>4, <2>2, SnapshotOfCurrent
    <3>2. \A q \in Requests : pc[q] # "update"
      BY <3>1
    <3>3. version' = version /\ content' = content /\ seen' = seen
      BY <1>4 DEF CreateVersion
    <3> QED
      BY <3>1, <3>2, <3>3
  <2> QED
    BY <2>1, <2>2
<1>5. ASSUME NEW r \in Requests, Update(r) PROVE LockInv'
  <2>1. pc' = [pc EXCEPT ![r] = "idle"] /\ \A q \in Requests : q # r => pc[q] # "update"
    BY <1>5, UpdateFromCurrent
  <2>2. \A q \in Requests : pc'[q] # "update"
    BY <2>1
  <2> QED
    BY <2>2
<1>6. ASSUME NEW r \in Requests, Fail(r) PROVE LockInv'
  BY <1>6 DEF Fail
<1>7. CASE UNCHANGED vars
  BY <1>7 DEF vars
<1> QED
  BY <1>1, <1>2, <1>3, <1>4, <1>5, <1>6, <1>7 DEF Next

\* Until a request dies, the holder of the current snapshot lives until it writes.
LEMMA HeldStep == IndInv /\ [Next]_vars => HeldInv'
<1> SUFFICES ASSUME IndInv, [Next]_vars, faults' = 0, (snapshots[version] # NoSnapshot)'
             PROVE  \E q \in Requests : pc'[q] = "update"
  BY DEF HeldInv
<1> USE WorkflowVersionsAssumption DEF IndInv, TypeOK, Goto
<1>1. ASSUME NEW r \in Requests, CreateVersion(r), snapshots' # snapshots
      PROVE  \E q \in Requests : pc'[q] = "update"
  <2>1. pc' = [pc EXCEPT ![r] = "update"]
    BY <1>1, SnapshotOfCurrent
  <2> WITNESS r \in Requests
  <2> QED
    BY <2>1
<1>2. ASSUME NEW r \in Requests, Update(r) PROVE FALSE
  <2>1. version' = version + 1 /\ version < MaxVersion /\ snapshots' = snapshots
    BY <1>2, UpdateFromCurrent
  <2>2. snapshots[version + 1] = NoSnapshot
    BY <2>1 DEF SnapshotsSequential
  <2> QED
    BY <2>1, <2>2
<1>0. (\A r \in Requests : ~Fail(r)) /\ faults = 0
  <2>1. \A r \in Requests : ~Fail(r)
    BY DEF Fail
  <2>2. faults' = faults
    BY <2>1 DEF Next, vars, ReadForUpdate, ReadForRestore, ReadTarget, CreateVersion, Update
  <2> QED
    BY <2>1, <2>2
<1>3. CASE UNCHANGED <<version, snapshots>>
  <2>1. PICK q \in Requests : pc[q] = "update"
    BY <1>0, <1>3 DEF HeldInv
  <2>2. pc'[q] = "update"
    <3>1. \A r \in Requests : ~Fail(r)
      BY <1>0
    <3>2. \A r \in Requests : ~Update(r)
      BY <1>2
    <3>3. ASSUME NEW r \in Requests,
                 ReadForUpdate(r) \/ ReadForRestore(r) \/ ReadTarget(r) \/ CreateVersion(r)
          PROVE  pc'[q] = "update"
      BY <2>1, <3>3 DEF ReadForUpdate, ReadForRestore, ReadTarget, CreateVersion
    <3>4. CASE UNCHANGED vars
      BY <2>1, <3>4 DEF vars
    <3> QED
      BY <3>1, <3>2, <3>3, <3>4 DEF Next
  <2> QED
    BY <2>2
<1>4. CASE \A r \in Requests : ~CreateVersion(r) /\ ~Update(r)
  BY <1>3, <1>4, OtherCalls
<1>5. ASSUME NEW r \in Requests, CreateVersion(r) PROVE version' = version
  BY <1>5 DEF CreateVersion
<1> QED
  BY <1>1, <1>2, <1>3, <1>4, <1>5

\* The invariant holds in every reachable state.
THEOREM Invariance == Spec => []IndInv
<1>1. Init => IndInv
  BY InitInv
<1>2. IndInv /\ [Next]_vars => IndInv'
  BY TypeStep, SequentialStep, SeenStep, LockStep, HeldStep DEF IndInv
<1> QED
  BY <1>1, <1>2, PTL DEF Spec

\* Versions are unique and sequential, without gaps, whatever requests run
\* concurrently and whatever fails between their calls.
THEOREM HistorySequential == Spec => []SnapshotsSequential
<1>1. IndInv => SnapshotsSequential
  BY DEF IndInv
<1> QED
  BY <1>1, Invariance, PTL

\* A request that reaches its write has read the row as it still is.
THEOREM NoStaleWrite == Spec => []WritesBuildOnCurrentRow
<1>1. IndInv => WritesBuildOnCurrentRow
  BY DEF IndInv, TypeOK, SeenInv, LockInv, WritesBuildOnCurrentRow
<1> QED
  BY <1>1, Invariance, PTL

\* No edit or restore overwrites content that is not in the history.
THEOREM EditsKept == Spec => NoLostEdit
<1> DEFINE Kept == <<version, content>>' # <<version, content>> =>
                     version' = version + 1 /\ snapshots[version] = content
<1>1. IndInv /\ [Next]_vars => [Kept]_vars
  <2> SUFFICES ASSUME IndInv, [Next]_vars, <<version, content>>' # <<version, content>>
               PROVE  version' = version + 1 /\ snapshots[version] = content
    OBVIOUS
  <2>1. PICK r \in Requests : Update(r)
    BY DEF Next, vars, ReadForUpdate, ReadForRestore, ReadTarget, CreateVersion, Fail
  <2> QED
    BY <2>1, UpdateFromCurrent
<1> QED
  BY <1>1, Invariance, PTL DEF Spec, NoLostEdit

\* The three calls of an edit or restore, interleaved and failing as they may,
\* implement one atomic step: its write; every other call is a stutter.
THEOREM Atomicity == Spec => ImplementsHistory
<1>1. Init => History!Init
  BY WorkflowVersionsAssumption DEF Init, History!Init, Committed
<1>2. IndInv /\ [Next]_vars => [History!Next]_<<version, content, Committed>>
  <2> SUFFICES ASSUME IndInv, [Next]_vars
               PROVE  [History!Next]_<<version, content, Committed>>
    OBVIOUS
  <2>1. ASSUME NEW r \in Requests, CreateVersion(r)
        PROVE  UNCHANGED <<version, content, Committed>>
    <3>1. version' = version /\ content' = content
      BY <2>1 DEF CreateVersion
    <3>2. CASE snapshots' = snapshots
      BY <3>1, <3>2 DEF Committed
    <3>3. CASE snapshots' # snapshots
      <4>1. snapshots' = [snapshots EXCEPT ![version] = content]
        BY <2>1, <3>3, SnapshotOfCurrent
      <4> QED
        BY <3>1, <4>1 DEF Committed, IndInv, TypeOK
    <3> QED
      BY <3>1, <3>2, <3>3
  <2>2. ASSUME NEW r \in Requests, Update(r) PROVE History!Next
    <3>1. next[r] \in [Fields -> Values] /\ content' = next[r]
      BY <2>2 DEF Update, IndInv, TypeOK
    <3>2. version' = version + 1 /\ version < MaxVersion /\ snapshots[version] = content
          /\ snapshots' = snapshots /\ version \in 1 .. MaxVersion
      BY <2>2, UpdateFromCurrent DEF IndInv, TypeOK
    <3>3. Committed' = [Committed EXCEPT ![version] = content]
      <4>1. Committed' = [v \in 1 .. MaxVersion |-> IF v < version + 1 THEN snapshots[v] ELSE NoSnapshot]
        BY <3>2 DEF Committed
      <4>2. \A v \in 1 .. MaxVersion : v < version + 1 <=> v < version \/ v = version
        BY <3>2
      <4> QED
        BY <3>2, <4>1, <4>2 DEF Committed
    <3>4. History!Edit(next[r])
      BY <3>1, <3>2, <3>3 DEF History!Edit
    <3> QED
      BY <3>1, <3>4 DEF History!Next
  <2>3. CASE \A r \in Requests : ~CreateVersion(r) /\ ~Update(r)
    BY <2>3, OtherCalls DEF Committed
  <2> QED
    BY <2>1, <2>2, <2>3
<1> QED
  BY <1>1, <1>2, Invariance, PTL DEF Spec, ImplementsHistory, History!Spec

\* The history is append-only.
THEOREM HistoryImmutable == Spec => SnapshotsImmutable
<1> DEFINE Kept == \A v \in Versions : snapshots[v] # NoSnapshot => snapshots'[v] = snapshots[v]
<1>1. IndInv /\ [Next]_vars => [Kept]_vars
  <2> SUFFICES ASSUME IndInv, [Next]_vars PROVE Kept
    OBVIOUS
  <2>1. CASE snapshots' = snapshots
    BY <2>1
  <2>2. CASE snapshots' # snapshots
    <3>1. PICK r \in Requests : CreateVersion(r)
      BY <2>2 DEF Next, vars, ReadForUpdate, ReadForRestore, ReadTarget, Update, Fail
    <3>2. snapshots[version] = NoSnapshot /\ snapshots' = [snapshots EXCEPT ![version] = content]
      BY <2>2, <3>1, SnapshotOfCurrent
    <3> QED
      BY <3>2 DEF IndInv, TypeOK
  <2> QED
    BY <2>1, <2>2
<1> QED
  BY <1>1, Invariance, PTL DEF Spec, SnapshotsImmutable

\* Until a request dies half-way, an idle workflow can be edited: a colliding
\* edit leaves nothing behind that locks the ones after it out.
THEOREM EditableUntilInterrupted == Spec => []EditableUnlessInterrupted
<1>1. IndInv => EditableUnlessInterrupted
  BY DEF IndInv, HeldInv, Editable, EditableUnlessInterrupted
<1> QED
  BY <1>1, Invariance, PTL
=============================================================================
