-------------------------- MODULE SchedulerProofs --------------------------
(***************************************************************************)
(* Proofs about Scheduler, for any crons, inputs, number of requests,      *)
(* ticks, crashes and failing calls.                                       *)
(*                                                                         *)
(* The sync never overlaps a request, so it registers the row as it is:    *)
(* that needs nothing else.  For requests that come one at a time,         *)
(* removeRepeatableJob removes the only job there is, so there is none     *)
(* when the next is added, and who adds, adds the job of the row as it is; *)
(* a failing call may break that from then on.  (MCScheduler_Refuted.cfg   *)
(* shows what two requests at a time lose.)                                *)
(***************************************************************************)
EXTENDS Scheduler, TLAPS

\* The states a proof has to tell apart: the calls, the acceptance of a
\* request, the crash, the sync's first read, and what leaves the row, the
\* jobs and the processes alone.
Accepts(p) == CreateSchedule(p) \/ UpdateSchedule(p) \/ DeleteSchedule(p) \/ DeleteWorkflow(p)
Fails(p) == RemoveFails(p) \/ CallFails(p)
Idles == UNCHANGED <<up, rowVars, repeatable, pc, procVars>>

\* A step is one of these.
LEMMA Steps ==
  ASSUME [Next]_vars
  PROVE  \/ \E p \in Requests : Accepts(p)
         \/ \E p \in Procs : Call(p) \/ Fails(p)
         \/ FindAllEnabled
         \/ Crash
         \/ Idles
<1>1. FireTick \/ TickStep \/ TickFails => Idles
  BY DEF FireTick, TickStep, CheckTick, StartRun, EndTick, TickFails, Idles, bounds
<1>2. UNCHANGED vars => Idles
  BY DEF vars, Idles
<1> QED
  BY <1>1, <1>2 DEF Next, Accepts, Fails

\* Nothing has failed before, if nothing has failed yet.
LEMMA NoFaultBefore ==
  ASSUME TypeOK, [Next]_vars, faults' = 0
  PROVE  faults = 0 /\ \A p \in Procs : ~Fails(p)
<1> USE SchedulerAssumption DEF TypeOK
<1>1. \A p \in Procs : ~Fails(p)
  BY DEF Fails, RemoveFails, CallFails
<1>2. ~TickFails
  BY DEF TickFails
<1>3. faults' = faults
  BY <1>1, <1>2 DEF Next, vars, CreateSchedule, UpdateSchedule, DeleteSchedule, DeleteWorkflow, Accept,
     Call, CreateRow, UpdateRow, Find, Remove, Add, DeleteRow, DeleteRows, Archive, Fails, FindAllEnabled,
     FireTick, TickStep, CheckTick, StartRun, EndTick, Crash, bounds
<1> QED
  BY <1>1, <1>3

\* The process has not ended before, if it has not ended yet.
LEMMA NoRestartBefore ==
  ASSUME TypeOK, [Next]_vars, restarts' = 0
  PROVE  restarts = 0 /\ ~Crash
<1> USE SchedulerAssumption DEF TypeOK
<1>1. ~Crash
  BY DEF Crash
<1>2. restarts' = restarts
  BY <1>1 DEF Next, vars, CreateSchedule, UpdateSchedule, DeleteSchedule, DeleteWorkflow, Accept,
     Call, CreateRow, UpdateRow, Find, Remove, Add, DeleteRow, DeleteRows, Archive, RemoveFails, CallFails,
     FindAllEnabled, FireTick, TickStep, CheckTick, StartRun, EndTick, TickFails, bounds
<1> QED
  BY <1>1, <1>2

\* The process at work is the only one that is not idle.
LEMMA OthersIdle ==
  ASSUME OneAtATime, BaseInv, NEW p \in Procs, pc[p] # "idle"
  PROVE  \A q \in Procs : q # p => pc[q] = "idle"
BY DEF BaseInv, SyncInv, OneAtATime, Procs

\* The sync is at work only while the server does not listen.
LEMMA SyncAlone ==
  ASSUME BaseInv, NEW p \in Requests, pc[p] # "idle"
  PROVE  up /\ pc[Boot] = "idle" /\ p # Boot
BY SchedulerAssumption DEF BaseInv, SyncInv

\* The sync finds, removes and adds; the add ends it.
LEMMA SyncCalls ==
  ASSUME BaseInv, Call(Boot) \/ Fails(Boot)
  PROVE  /\ UNCHANGED rowVars /\ ~up
         /\ \/ /\ pc[Boot] \in {"find", "remove"} /\ ~up' /\ data' = data
               /\ \E call \in {"remove", "add"} : pc' = [pc EXCEPT ![Boot] = call]
            \/ pc' = [pc EXCEPT ![Boot] = "idle"] /\ up'
<1>1. op[Boot] = "sync" /\ pc[Boot] # "idle" /\ Boot \in Procs
  BY DEF Procs, BaseInv, LocalsInv, Call, CreateRow, UpdateRow, Find, Remove, Add, DeleteRow, DeleteRows,
     Archive, Fails, RemoveFails, CallFails
<1>2. ~up
  BY <1>1 DEF BaseInv, SyncInv
<1>3. Find(Boot) \/ Remove(Boot) \/ Add(Boot) \/ Fails(Boot)
  BY <1>1 DEF BaseInv, LocalsInv, Call, CreateRow, UpdateRow, DeleteRow, DeleteRows, Archive
<1>4. CASE Find(Boot)
  BY <1>1, <1>2, <1>4 DEF Find, AfterRemove, Goto, procVars
<1>5. CASE Remove(Boot)
  BY <1>1, <1>2, <1>5 DEF Remove, AfterRemove, Goto, procVars
<1>6. CASE Add(Boot) \/ CallFails(Boot)
  BY <1>1, <1>2, <1>6 DEF Add, CallFails, Done
<1>7. CASE RemoveFails(Boot)
  BY <1>1, <1>2, <1>7 DEF RemoveFails, AfterRemove, Goto, procVars
<1> QED
  BY <1>3, <1>4, <1>5, <1>6, <1>7 DEF Fails

\* What follows a removal, in each of its callers.
LEMMA AfterRemoval ==
  ASSUME BaseInv, NEW p \in Procs, pc[p] \in {"find", "remove"}, AfterRemove(p)
  PROVE  /\ \A q \in Procs : q # p => pc'[q] = pc[q] /\ op'[q] = op[q] /\ data'[q] = data[q]
         /\ \/ /\ pc'[p] = "add" /\ op'[p] = op[p] /\ data'[p] = data[p]
               /\ op[p] \in {"create", "update", "sync"} /\ data[p] \in Schedules /\ data[p].enabled
            \/ /\ pc'[p] = "idle" /\ op'[p] = "none"
               /\ op[p] = "update" /\ ~data[p].enabled
            \/ /\ pc'[p] \in {"deleteRow", "deleteRows"} /\ op'[p] = op[p]
               /\ op[p] \in {"delete", "deleteWorkflow"}
<1> USE DEF BaseInv, TypeOK, LocalsInv, AfterRemove, Goto, Done, procVars
<1>1. op[p] \in {"create", "update", "delete", "deleteWorkflow", "sync"}
  OBVIOUS
<1>2. CASE op[p] \in {"create", "sync"}
  BY <1>2
<1>3. CASE op[p] = "update"
  BY <1>3
<1>4. CASE op[p] = "delete"
  BY <1>4
<1>5. CASE op[p] = "deleteWorkflow"
  BY <1>5
<1> QED
  BY <1>1, <1>2, <1>3, <1>4, <1>5

\* Before any request, nothing is registered and nobody is at work.
LEMMA InitInv == Init => IndInv
<1> SUFFICES ASSUME Init PROVE IndInv
  OBVIOUS
<1> USE SchedulerAssumption DEF Init
<1>1. TypeOK
  <2>1. pc \in [Procs -> PCs] /\ op \in [Procs -> Ops]
    BY DEF Ops, PCs
  <2>2. data \in [Procs -> Schedules \cup {None}] /\ found \in [Procs -> Crons \cup {None}]
    OBVIOUS
  <2>3. repeatable \in [Crons -> Inputs \cup {None}]
    OBVIOUS
  <2>4. /\ requests \in 0 .. MaxRequests /\ ticks \in 0 .. MaxTicks
        /\ restarts \in 0 .. MaxRestarts /\ faults \in 0 .. MaxFaults /\ runs \in Nat
    OBVIOUS
  <2>5. up \in BOOLEAN /\ archived \in BOOLEAN /\ tick = "none" /\ schedule = None
    OBVIOUS
  <2> HIDE DEF Init
  <2> QED
    BY <2>1, <2>2, <2>3, <2>4, <2>5 DEF TypeOK
<1>2. SyncInv /\ LocalsInv /\ JobInv
  BY DEF SyncInv, LocalsInv, JobInv, Registered, Procs
<1>3. RowInv /\ CleanInv
  BY DEF RowInv, CleanInv, Enabled, Registered
<1> QED
  BY <1>1, <1>2, <1>3 DEF BaseInv, IndInv

\* What follows a removal keeps the locals in their types.
LEMMA AfterRemoveType ==
  ASSUME BaseInv, NEW p \in Procs, pc[p] \in {"find", "remove"}, AfterRemove(p)
  PROVE  /\ op' \in [Procs -> Ops] /\ pc' \in [Procs -> PCs]
         /\ data' \in [Procs -> Schedules \cup {None}]
         /\ found' \in [Procs -> Crons \cup {None}]
<1> USE DEF BaseInv, TypeOK, LocalsInv, AfterRemove, Goto, Done, procVars, Ops, PCs
<1>1. op[p] \in {"create", "update", "delete", "deleteWorkflow", "sync"}
  OBVIOUS
<1>2. CASE op[p] \in {"create", "sync"}
  BY <1>2
<1>3. CASE op[p] = "update"
  BY <1>3
<1>4. CASE op[p] = "delete"
  BY <1>4
<1>5. CASE op[p] = "deleteWorkflow"
  BY <1>5
<1> QED
  BY <1>1, <1>2, <1>3, <1>4, <1>5

\* Types of the variables the processes share and of their locals.
LEMMA TypeStep == ASSUME BaseInv, [Next]_vars PROVE TypeOK'
<1> USE SchedulerAssumption DEF BaseInv, TypeOK, Ops, PCs
<1>1. ASSUME NEW p \in Requests, Accepts(p) PROVE TypeOK'
  <2>1. p \in Procs
    BY DEF Procs
  <2>2. requests < MaxRequests => requests + 1 \in 0 .. MaxRequests
    OBVIOUS
  <2> QED
    BY <1>1, <2>1, <2>2 DEF Accepts, CreateSchedule, UpdateSchedule, DeleteSchedule, DeleteWorkflow,
       Accept, rowVars, tickVars
<1>2. ASSUME NEW p \in Procs, Call(p) PROVE TypeOK'
  <2> USE DEF rowVars, procVars, tickVars, bounds, Goto, Done
  <2>1. CASE CreateRow(p)
    BY <2>1 DEF CreateRow, LocalsInv
  <2>2. CASE UpdateRow(p)
    BY <2>2 DEF UpdateRow, LocalsInv
  <2>3. CASE Find(p)
    <3>1. CASE AfterRemove(p)
      <4>1. UNCHANGED <<up, rowVars, repeatable, tickVars, bounds>>
        BY <2>3 DEF Find
      <4> QED
        BY <2>3, <3>1, <4>1, AfterRemoveType DEF Find
    <3>2. CASE ~AfterRemove(p)
      BY <2>3, <3>2 DEF Find, Registered
    <3> QED
      BY <3>1, <3>2
  <2>4. CASE Remove(p)
    <3>1. /\ UNCHANGED <<up, rowVars, tickVars, bounds>>
          /\ repeatable' \in [Crons -> Inputs \cup {None}]
      BY <2>4 DEF Remove
    <3> QED
      BY <2>4, <3>1, AfterRemoveType DEF Remove
  <2>5. CASE Add(p)
    BY <2>5 DEF Add, LocalsInv, Schedules
  <2>6. CASE DeleteRow(p)
    BY <2>6 DEF DeleteRow
  <2>7. CASE DeleteRows(p)
    BY <2>7 DEF DeleteRows
  <2>8. CASE Archive(p)
    BY <2>8 DEF Archive
  <2> QED
    BY <1>2, <2>1, <2>2, <2>3, <2>4, <2>5, <2>6, <2>7, <2>8 DEF Call
<1>8. ASSUME NEW p \in Procs, RemoveFails(p) PROVE TypeOK'
  <2>1. UNCHANGED <<up, rowVars, repeatable, tickVars, requests, ticks, restarts>> /\ faults' \in 0 .. MaxFaults
    BY <1>8 DEF RemoveFails
  <2> QED
    BY <1>8, <2>1, AfterRemoveType DEF RemoveFails, rowVars, tickVars
<1>3. ASSUME NEW p \in Procs, CallFails(p) PROVE TypeOK'
  BY <1>3 DEF CallFails, Done, rowVars, tickVars
<1>9. CASE TickFails
  BY <1>9 DEF TickFails, rowVars, procVars
<1>4. CASE FindAllEnabled
  BY <1>4 DEF FindAllEnabled, Done, rowVars, tickVars, bounds, Procs
<1>5. CASE FireTick \/ TickStep
  BY <1>5 DEF FireTick, TickStep, CheckTick, StartRun, EndTick, rowVars, procVars, bounds
<1>6. CASE Crash
  <2> USE <1>6 DEF Crash, rowVars
  <2>1. pc' \in [Procs -> PCs] /\ op' \in [Procs -> Ops]
    OBVIOUS
  <2>2. data' \in [Procs -> Schedules \cup {None}] /\ found' \in [Procs -> Crons \cup {None}]
    OBVIOUS
  <2>3. tick' \in {"none", "fired", "checked", "started"}
    OBVIOUS
  <2>4. restarts' \in 0 .. MaxRestarts
    OBVIOUS
  <2> QED
    BY <2>1, <2>2, <2>3, <2>4
<1>7. CASE UNCHANGED vars
  BY <1>7 DEF vars, rowVars, procVars, tickVars, bounds
<1> QED
  BY <1>1, <1>2, <1>3, <1>4, <1>5, <1>6, <1>7, <1>8, <1>9 DEF Next, Accepts

\* The sync's reads and writes are about the row as it stands.
LEMMA SyncStep == ASSUME BaseInv, [Next]_vars PROVE SyncInv'
<1> USE SchedulerAssumption DEF BaseInv, TypeOK, SyncInv
<1>0. Boot \in Procs
  BY DEF Procs
<1>1. ASSUME NEW p \in Requests, Accepts(p) PROVE SyncInv'
  <2>1. /\ up /\ UNCHANGED <<up, rowVars>>
        /\ \E label \in PCs : pc' = [pc EXCEPT ![p] = label]
    BY <1>1 DEF Accepts, CreateSchedule, UpdateSchedule, DeleteSchedule, DeleteWorkflow, Accept, PCs
  <2>2. pc'[Boot] = "idle"
    BY <2>1
  <2> QED
    BY <2>1, <2>2
<1>2. ASSUME NEW p \in Procs, Call(p) \/ Fails(p) PROVE SyncInv'
  <2>1. pc[p] # "idle"
    BY <1>2 DEF Call, CreateRow, UpdateRow, Find, Remove, Add, DeleteRow, DeleteRows, Archive,
       Fails, RemoveFails, CallFails
  <2>2. CASE p = Boot
    <3>1. UNCHANGED rowVars /\ ~up
      BY <1>2, <2>2, SyncCalls
    <3>2. \A q \in Requests : pc'[q] = "idle"
      <4>1. \E call \in PCs : pc' = [pc EXCEPT ![Boot] = call]
        BY <1>2, <2>2, SyncCalls DEF PCs
      <4>2. \A q \in Requests : pc'[q] = pc[q]
        BY <1>0, <4>1 DEF Procs
      <4> QED
        BY <3>1, <4>2
    <3>3. CASE pc[Boot] \in {"find", "remove"} /\ ~up' /\ data' = data
               /\ \E call \in {"remove", "add"} : pc' = [pc EXCEPT ![Boot] = call]
      BY <1>0, <3>1, <3>2, <3>3 DEF rowVars
    <3>4. CASE pc' = [pc EXCEPT ![Boot] = "idle"] /\ up'
      BY <1>0, <3>2, <3>4
    <3> QED
      BY <1>2, <2>2, <3>3, <3>4, SyncCalls
  <2>3. CASE p \in Requests
    <3>1. up /\ pc[Boot] = "idle" /\ p # Boot
      BY <2>1, <2>3, SyncAlone
    <3>2. up' = up
      BY <1>2, <3>1 DEF Call, CreateRow, UpdateRow, Find, Remove, Add, DeleteRow, DeleteRows, Archive,
         Fails, RemoveFails, CallFails
    <3>3. pc'[Boot] = pc[Boot]
      <4>1. CASE AfterRemove(p) /\ pc[p] \in {"find", "remove"}
        BY <1>0, <3>1, <4>1, AfterRemoval
      <4>2. CASE ~(AfterRemove(p) /\ pc[p] \in {"find", "remove"})
        BY <1>0, <1>2, <3>1, <4>2 DEF Call, CreateRow, UpdateRow, Find, Remove, Add, DeleteRow, DeleteRows, Archive,
           Fails, RemoveFails, CallFails, Goto, Done
      <4> QED
        BY <4>1, <4>2
    <3> QED
      BY <3>1, <3>2, <3>3
  <2> QED
    BY <2>2, <2>3 DEF Procs
<1>3. CASE FindAllEnabled
  <2>1. ~up /\ UNCHANGED rowVars
    BY <1>3 DEF FindAllEnabled
  <2>2. CASE up'
    BY <1>0, <1>3, <2>1, <2>2 DEF FindAllEnabled, Done
  <2>3. CASE ~up'
    <3>1. data' = [data EXCEPT ![Boot] = schedule] /\ pc' = [pc EXCEPT ![Boot] = "find"]
      BY <1>3, <2>3 DEF FindAllEnabled
    <3>2. data'[Boot] = schedule /\ pc'[Boot] = "find" /\ \A q \in Requests : pc'[q] = pc[q]
      BY <1>0, <3>1 DEF Procs
    <3> QED
      BY <2>1, <2>3, <3>2 DEF rowVars
  <2> QED
    BY <2>2, <2>3
<1>4. CASE Crash
  BY <1>0, <1>4 DEF Crash, Procs
<1>5. CASE Idles
  BY <1>5 DEF Idles, rowVars, procVars
<1> QED
  BY <1>1, <1>2, <1>3, <1>4, <1>5, Steps

\* What a process knows at each of its calls.
LEMMA LocalsStep == ASSUME BaseInv, [Next]_vars PROVE LocalsInv'
<1> USE SchedulerAssumption DEF BaseInv, TypeOK, LocalsInv, Procs
<1>1. ASSUME NEW p \in Requests, Accepts(p) PROVE LocalsInv'
  BY <1>1 DEF Accepts, CreateSchedule, UpdateSchedule, DeleteSchedule, DeleteWorkflow, Accept
<1>2. ASSUME NEW p \in Procs, Call(p) PROVE LocalsInv'
  <2> USE DEF Goto, Done, procVars
  <2>1. CASE CreateRow(p)
    BY <2>1 DEF CreateRow
  <2>2. CASE UpdateRow(p)
    BY <2>2 DEF UpdateRow
  <2>3. CASE Find(p)
    <3>1. CASE AfterRemove(p)
      BY <2>3, <3>1, AfterRemoval DEF Find
    <3>2. CASE ~AfterRemove(p)
      BY <2>3, <3>2 DEF Find
    <3> QED
      BY <3>1, <3>2
  <2>4. CASE Remove(p)
    BY <2>4, AfterRemoval DEF Remove
  <2>5. CASE Add(p)
    BY <2>5 DEF Add
  <2>6. CASE DeleteRow(p)
    BY <2>6 DEF DeleteRow
  <2>7. CASE DeleteRows(p)
    BY <2>7 DEF DeleteRows
  <2>8. CASE Archive(p)
    BY <2>8 DEF Archive
  <2> QED
    BY <1>2, <2>1, <2>2, <2>3, <2>4, <2>5, <2>6, <2>7, <2>8 DEF Call
<1>6. ASSUME NEW p \in Procs, Fails(p) PROVE LocalsInv'
  <2>1. CASE RemoveFails(p)
    BY <2>1, AfterRemoval DEF RemoveFails
  <2>2. CASE CallFails(p)
    BY <2>2 DEF CallFails, Done
  <2> QED
    BY <1>6, <2>1, <2>2 DEF Fails
<1>3. CASE FindAllEnabled
  BY <1>3 DEF FindAllEnabled, Done
<1>4. CASE Crash
  BY <1>4 DEF Crash
<1>5. CASE Idles
  BY <1>5 DEF Idles, procVars
<1> QED
  BY <1>1, <1>2, <1>3, <1>4, <1>5, <1>6, Steps

\* The job found is registered, and nothing is when the next one is added.
LEMMA JobStep == ASSUME OneAtATime, BaseInv, JobInv, [Next]_vars PROVE JobInv'
<1> SUFFICES ASSUME faults' = 0
             PROVE  /\ \A c, d \in Registered' : c = d
                    /\ \A p \in Procs : /\ pc'[p] = "remove" => found'[p] \in Registered'
                                        /\ pc'[p] = "add" => Registered' = {}
  BY DEF JobInv
<1> DEFINE Goal == /\ \A c, d \in Registered' : c = d
                   /\ \A p \in Procs : /\ pc'[p] = "remove" => found'[p] \in Registered'
                                       /\ pc'[p] = "add" => Registered' = {}
<1>0. /\ \A c, d \in Registered : c = d
      /\ \A p \in Procs : /\ pc[p] = "remove" => found[p] \in Registered
                          /\ pc[p] = "add" => Registered = {}
  BY NoFaultBefore DEF BaseInv, JobInv
<1> USE <1>0, SchedulerAssumption DEF BaseInv, TypeOK, Registered, Procs
<1>1. ASSUME NEW p \in Requests, Accepts(p) PROVE Goal
  BY <1>1 DEF Accepts, CreateSchedule, UpdateSchedule, DeleteSchedule, DeleteWorkflow, Accept
<1>2. ASSUME NEW p \in Procs, Call(p) PROVE Goal
  <2> USE DEF Goto, Done, procVars
  <2>0. \A q \in Procs : q # p => pc[q] = "idle"
    BY <1>2, OthersIdle DEF Call, CreateRow, UpdateRow, Find, Remove, Add, DeleteRow, DeleteRows, Archive
  <2>1. CASE CreateRow(p)
    BY <2>1 DEF CreateRow
  <2>2. CASE UpdateRow(p)
    BY <2>2 DEF UpdateRow
  <2>3. CASE Find(p)
    <3>1. repeatable' = repeatable
      BY <2>3 DEF Find
    <3>2. CASE Registered = {}
      <4>1. /\ \A q \in Procs : q # p => pc'[q] = "idle"
            /\ pc'[p] # "remove"
        BY <2>0, <2>3, <3>2, AfterRemoval DEF Find
      <4> QED
        BY <3>1, <3>2, <4>1
    <3>3. CASE Registered # {}
      <4>1. PICK c \in Registered :
              found' = [found EXCEPT ![p] = c] /\ pc' = [pc EXCEPT ![p] = "remove"]
        BY <2>3, <3>3 DEF Find
      <4>2. found'[p] \in Registered
        BY <4>1
      <4>3. \A q \in Procs : q # p => pc'[q] = "idle"
        BY <2>0, <4>1
      <4> QED
        BY <3>1, <4>1, <4>2, <4>3
    <3> QED
      BY <3>2, <3>3
  <2>4. CASE Remove(p)
    <3>1. found[p] \in Registered
      BY <2>4 DEF Remove
    <3>2. repeatable' = [c \in Crons |-> None]
      BY <2>4, <3>1 DEF Remove
    <3>3. \A q \in Procs : pc'[q] # "remove"
      BY <2>0, <2>4, AfterRemoval DEF Remove
    <3> QED
      BY <3>2, <3>3
  <2>5. CASE Add(p)
    <3>1. data[p] \in Schedules
      BY <2>5 DEF Add, LocalsInv
    <3>2. \A c \in Crons : c # data[p].cron => repeatable'[c] = None
      BY <2>5, <3>1 DEF Add, Schedules
    <3>3. \A q \in Procs : pc'[q] = "idle"
      BY <2>0, <2>5 DEF Add
    <3> QED
      BY <3>2, <3>3
  <2>6. CASE DeleteRow(p)
    BY <2>6 DEF DeleteRow
  <2>7. CASE DeleteRows(p)
    BY <2>7 DEF DeleteRows
  <2>8. CASE Archive(p)
    BY <2>8 DEF Archive
  <2> QED
    BY <1>2, <2>1, <2>2, <2>3, <2>4, <2>5, <2>6, <2>7, <2>8 DEF Call
<1>3. CASE FindAllEnabled
  BY <1>3 DEF FindAllEnabled, Done
<1>4. CASE Crash
  BY <1>4 DEF Crash
<1>5. CASE Idles
  BY <1>5 DEF Idles, procVars
<1> QED
  BY <1>1, <1>2, <1>3, <1>4, <1>5, Steps, NoFaultBefore

\* Who registers, registers the row; elsewhere the row's job is in place.
LEMMA RowStep == ASSUME OneAtATime, BaseInv, RowInv, [Next]_vars PROVE RowInv'
<1> USE SchedulerAssumption DEF BaseInv, TypeOK, RowInv, Enabled, JobOfRow, Resting, Procs
<1>0. \A p \in Procs : pc[p] # "idle" => \A q \in Procs : q # p => pc[q] = "idle"
  BY OthersIdle
<1>1. ASSUME NEW p \in Requests, Accepts(p) PROVE RowInv'
  <2>1. /\ UNCHANGED <<schedule, repeatable, faults>>
        /\ pc[p] = "idle"
        /\ \A q \in Procs : q # p => pc'[q] = pc[q] /\ op'[q] = op[q] /\ data'[q] = data[q]
        /\ \/ pc'[p] \in {"createRow", "updateRow"}
           \/ pc'[p] = "find" /\ op'[p] \in {"delete", "deleteWorkflow"}
    BY <1>1 DEF Accepts, CreateSchedule, UpdateSchedule, DeleteSchedule, DeleteWorkflow, Accept, rowVars
  <2> QED
    BY <2>1
<1>2. ASSUME NEW p \in Procs, Call(p) PROVE RowInv'
  <2> USE DEF Goto, Done, procVars
  <2>0. \A q \in Procs : q # p => pc[q] = "idle"
    BY <1>0, <1>2 DEF Call, CreateRow, UpdateRow, Find, Remove, Add, DeleteRow, DeleteRows, Archive
  <2>9. faults' = faults
    BY <1>2 DEF Call, CreateRow, UpdateRow, Find, Remove, Add, DeleteRow, DeleteRows, Archive, bounds
  <2>1. CASE CreateRow(p)
    BY <2>0, <2>1, <2>9 DEF CreateRow, LocalsInv
  <2>2. CASE UpdateRow(p)
    BY <2>0, <2>2, <2>9 DEF UpdateRow, LocalsInv
  <2>3. CASE Find(p)
    <3>1. schedule' = schedule /\ repeatable' = repeatable /\ pc[p] = "find"
      BY <2>3 DEF Find, rowVars
    <3>2. CASE AfterRemove(p)
      BY <2>0, <3>1, <3>2, AfterRemoval
    <3>3. CASE ~AfterRemove(p)
      BY <2>0, <2>3, <3>1, <3>3 DEF Find
    <3> QED
      BY <3>2, <3>3
  <2>4. CASE Remove(p)
    <3>1. schedule' = schedule /\ pc[p] = "remove" /\ AfterRemove(p)
      BY <2>4 DEF Remove, rowVars
    <3> QED
      BY <2>0, <3>1, AfterRemoval
  <2>5. CASE Add(p)
    BY <2>0, <2>5, <2>9 DEF Add, LocalsInv, rowVars, Schedules
  <2>6. CASE DeleteRow(p)
    BY <2>0, <2>6 DEF DeleteRow, LocalsInv
  <2>7. CASE DeleteRows(p)
    BY <2>0, <2>7 DEF DeleteRows, LocalsInv
  <2>8. CASE Archive(p)
    BY <2>0, <2>8 DEF Archive, LocalsInv
  <2> QED
    BY <1>2, <2>1, <2>2, <2>3, <2>4, <2>5, <2>6, <2>7, <2>8 DEF Call
<1>6. ASSUME NEW p \in Procs, Fails(p) PROVE RowInv'
  <2>1. UNCHANGED <<schedule, repeatable>> /\ faults' # 0 /\ pc[p] # "idle"
    BY <1>6 DEF Fails, RemoveFails, CallFails, rowVars
  <2>2. \A q \in Procs : q # p => pc[q] = "idle"
    BY <1>0, <2>1
  <2>3. CASE RemoveFails(p)
    <3>1. pc[p] \in {"find", "remove"} /\ AfterRemove(p)
      BY <2>3 DEF RemoveFails
    <3> QED
      BY <2>1, <2>2, <3>1, AfterRemoval
  <2>4. CASE CallFails(p)
    BY <2>1, <2>2, <2>4 DEF CallFails, Done
  <2> QED
    BY <1>6, <2>3, <2>4 DEF Fails
<1>3. CASE FindAllEnabled
  <2>1. Boot \in Procs /\ \A q \in Procs : q # Boot => pc[q] = "idle"
    BY <1>0, <1>3 DEF FindAllEnabled
  <2>2. UNCHANGED <<schedule, repeatable, faults>>
    BY <1>3 DEF FindAllEnabled, rowVars, bounds
  <2>3. CASE Enabled
    <3>1. data'[Boot] = schedule /\ pc'[Boot] = "find" /\ \A q \in Procs : q # Boot => pc'[q] = pc[q]
      BY <1>3, <2>1, <2>3 DEF FindAllEnabled
    <3> QED
      BY <2>1, <2>2, <3>1
  <2>4. CASE ~Enabled
    <3>1. \A q \in Procs : pc'[q] = "idle"
      BY <1>3, <2>1, <2>4 DEF FindAllEnabled, Done
    <3> QED
      BY <2>2, <2>4, <3>1
  <2> QED
    BY <2>3, <2>4
<1>4. CASE Crash
  <2>1. UNCHANGED schedule /\ \A q \in Procs : pc'[q] \in {"idle", "findAllEnabled"} /\ pc'[Boot] = "findAllEnabled"
    BY <1>4 DEF Crash, rowVars
  <2> QED
    BY <2>1
<1>5. CASE Idles
  <2>1. UNCHANGED <<schedule, repeatable, pc, op, data>>
    BY <1>5 DEF Idles, procVars, rowVars
  <2>2. faults' = 0 => faults = 0
    BY NoFaultBefore
  <2> QED
    BY <2>1, <2>2
<1> QED
  BY <1>1, <1>2, <1>3, <1>4, <1>5, <1>6, Steps

\* Who deletes, has removed the job; elsewhere there is none without an enabled
\* row.
LEMMA CleanStep == ASSUME OneAtATime, BaseInv, JobInv, RowInv, CleanInv, [Next]_vars PROVE CleanInv'
<1> DEFINE Goal == /\ up'
                   /\ Resting' /\ ~Enabled' => Registered' = {}
                   /\ \A p \in Procs : pc'[p] \in {"deleteRow", "deleteRows", "archive"} => Registered' = {}
<1> SUFFICES ASSUME faults' = 0, restarts' = 0 PROVE Goal
  BY DEF CleanInv
<1>0. /\ faults = 0 /\ restarts = 0 /\ ~Crash
      /\ \A p \in Procs : ~Fails(p)
  BY NoFaultBefore, NoRestartBefore DEF BaseInv
<1>7. /\ up /\ pc[Boot] = "idle"
      /\ Resting /\ ~Enabled => Registered = {}
      /\ \A p \in Procs : pc[p] \in {"deleteRow", "deleteRows", "archive"} => Registered = {}
      /\ \A c, d \in Registered : c = d
      /\ \A p \in Procs : /\ pc[p] = "remove" => found[p] \in Registered
                          /\ pc[p] = "add" => Registered = {}
  BY <1>0 DEF CleanInv, JobInv, BaseInv, SyncInv
<1> USE SchedulerAssumption DEF BaseInv, TypeOK, Registered, Enabled, Resting, Procs
<1>1. ASSUME NEW p \in Requests, Accepts(p) PROVE Goal
  <2>1. /\ UNCHANGED <<up, schedule, repeatable>>
        /\ pc[p] = "idle"
        /\ \A q \in Procs : q # p => pc'[q] = pc[q]
        /\ pc'[p] \in {"createRow", "updateRow", "find"}
    BY <1>1 DEF Accepts, CreateSchedule, UpdateSchedule, DeleteSchedule, DeleteWorkflow, Accept, rowVars
  <2> QED
    BY <1>7, <2>1
<1>2. ASSUME NEW p \in Procs, Call(p) PROVE Goal
  <2> USE DEF Goto, Done, procVars
  <2>9. up'
    BY <1>2, <1>7 DEF Call, CreateRow, UpdateRow, Find, Remove, Add, DeleteRow, DeleteRows, Archive
  <2> USE <2>9
  <2>0. \A q \in Procs : q # p => pc[q] = "idle"
    BY <1>2, OthersIdle DEF Call, CreateRow, UpdateRow, Find, Remove, Add, DeleteRow, DeleteRows, Archive
  <2>1. CASE CreateRow(p)
    BY <1>7, <2>0, <2>1 DEF CreateRow, LocalsInv
  <2>2. CASE UpdateRow(p)
    BY <1>7, <2>0, <2>2 DEF UpdateRow, LocalsInv
  <2>3. CASE Find(p)
    <3>1. schedule' = schedule /\ repeatable' = repeatable /\ pc[p] = "find"
      BY <2>3 DEF Find, rowVars
    <3>2. CASE Registered = {}
      BY <3>1, <3>2
    <3>3. CASE Registered # {}
      <4>1. \A q \in Procs : q # p => pc'[q] = "idle"
        BY <2>0, <2>3, <3>3 DEF Find
      <4>2. pc'[p] = "remove"
        BY <2>3, <3>3 DEF Find
      <4> QED
        BY <4>1, <4>2
    <3> QED
      BY <3>2, <3>3
  <2>4. CASE Remove(p)
    <3>1. found[p] \in Registered
      BY <1>7, <2>4 DEF Remove
    <3>2. repeatable' = [c \in Crons |-> None]
      BY <1>7, <2>4, <3>1 DEF Remove
    <3> QED
      BY <3>2
  <2>5. CASE Add(p)
    <3>1. /\ op[p] \in {"create", "update", "sync"} /\ pc[p] = "add" /\ data[p] \in Schedules /\ data[p].enabled
          /\ schedule = data[p] /\ schedule' = schedule
      BY <2>5 DEF Add, LocalsInv, RowInv, rowVars
    <3>2. \A q \in Procs : pc'[q] = "idle"
      BY <2>0, <2>5 DEF Add
    <3> QED
      BY <3>1, <3>2
  <2>6. CASE DeleteRow(p)
    BY <1>7, <2>0, <2>6 DEF DeleteRow, LocalsInv
  <2>7. CASE DeleteRows(p)
    BY <1>7, <2>0, <2>7 DEF DeleteRows, LocalsInv
  <2>8. CASE Archive(p)
    BY <1>7, <2>0, <2>8 DEF Archive, LocalsInv
  <2> QED
    BY <1>2, <2>1, <2>2, <2>3, <2>4, <2>5, <2>6, <2>7, <2>8 DEF Call
<1>3. CASE FindAllEnabled
  BY <1>3, <1>7 DEF FindAllEnabled
<1>5. CASE Idles
  BY <1>5, <1>7 DEF Idles, procVars, rowVars
<1> QED
  BY <1>0, <1>1, <1>2, <1>3, <1>5, Steps

\* Types, the sync's hold on the row and the locals: whatever fails, crashes and
\* overlaps.
THEOREM BaseInvariance == Spec => []BaseInv
<1>1. Init => BaseInv
  BY InitInv DEF IndInv
<1>2. BaseInv /\ [Next]_vars => BaseInv'
  BY TypeStep, SyncStep, LocalsStep DEF BaseInv
<1> QED
  BY <1>1, <1>2, PTL DEF Spec

\* A sync that ends without an error has registered the enabled row as it is.
LEMMA SyncEnds ==
  ASSUME BaseInv, [Next]_vars, ~up, up', faults' = faults, Enabled
  PROVE  JobOfRow'
<1> USE SchedulerAssumption DEF BaseInv, TypeOK
<1>1. \A p \in Requests : pc[p] = "idle"
  BY DEF SyncInv
<1>2. \A p \in Requests : ~Accepts(p) /\ ~Call(p) /\ ~Fails(p)
  BY <1>1 DEF Accepts, CreateSchedule, UpdateSchedule, DeleteSchedule, DeleteWorkflow, Accept,
     Call, CreateRow, UpdateRow, Find, Remove, Add, DeleteRow, DeleteRows, Archive, Fails, RemoveFails, CallFails
<1>3. ~FindAllEnabled /\ ~Crash /\ ~Idles
  <2>1. ~FindAllEnabled
    BY DEF FindAllEnabled, Enabled
  <2> QED
    BY <2>1 DEF Crash, Idles
<1>4. Call(Boot) \/ Fails(Boot)
  BY <1>2, <1>3, Steps DEF Procs
<1>5. ~Fails(Boot)
  <2>1. faults \in Nat /\ faults' # faults + 1
    OBVIOUS
  <2> QED
    BY <2>1 DEF Fails, RemoveFails, CallFails
<1>6. op[Boot] = "sync" /\ Boot \in Procs
  BY <1>1 DEF LocalsInv, SyncInv, Procs
<1>7. ~CreateRow(Boot) /\ ~UpdateRow(Boot) /\ ~DeleteRow(Boot) /\ ~DeleteRows(Boot) /\ ~Archive(Boot)
  BY <1>6 DEF LocalsInv, CreateRow, UpdateRow, DeleteRow, DeleteRows, Archive
<1>8. ~Find(Boot) /\ ~Remove(Boot)
  BY DEF Find, Remove
<1>9. Add(Boot)
  BY <1>4, <1>5, <1>7, <1>8 DEF Call
<1>10. schedule = data[Boot] /\ data[Boot] \in Schedules
  BY <1>6, <1>9 DEF Add, SyncInv, LocalsInv
<1> QED
  BY <1>9, <1>10 DEF Add, JobOfRow, rowVars, Schedules

\* Startup repairs: a sync that meets no error leaves an enabled schedule
\* registered with its cron and input, whatever races and failures came before.
THEOREM StartupRepairs == Spec => SyncRepairs
<1>1. BaseInv /\ [Next]_vars => [~up /\ up' /\ faults' = faults /\ Enabled => JobOfRow']_vars
  BY SyncEnds
<1> QED
  BY <1>1, BaseInvariance, PTL DEF Spec, SyncRepairs

\* One request at a time: the invariant holds in every reachable state, through
\* any crashes and failing calls.
THEOREM Invariance == ASSUME OneAtATime PROVE Spec => []IndInv
<1>1. Init => IndInv
  BY InitInv
<1>2. IndInv /\ [Next]_vars => IndInv'
  BY TypeStep, SyncStep, LocalsStep, JobStep, RowStep, CleanStep DEF IndInv, BaseInv
<1> QED
  BY <1>1, <1>2, PTL DEF Spec

\* One request at a time: until a call fails, the workflow never has two
\* repeatable jobs.
THEOREM OneJob == ASSUME OneAtATime PROVE Spec => []AtMostOneJob
<1>1. IndInv => AtMostOneJob
  BY DEF IndInv, JobInv, AtMostOneJob
<1> QED
  BY <1>1, Invariance, PTL

\* One request at a time: until a call fails, an enabled schedule is registered
\* with its cron and input whenever the server listens and no request is under
\* way, whatever crashes happened.
THEOREM EnabledRegistered == ASSUME OneAtATime PROVE Spec => []EnabledIsRegistered
<1>1. IndInv => EnabledIsRegistered
  BY DEF IndInv, RowInv, Resting, EnabledIsRegistered, Quiet
<1> QED
  BY <1>1, Invariance, PTL

\* One request at a time: until a call fails or the process crashes, the queue
\* holds exactly the job of the enabled row, and none for a disabled or deleted
\* one.
THEOREM RegisteredExactly == ASSUME OneAtATime PROVE Spec => []RegisteredIffEnabled
<1>1. ASSUME IndInv PROVE RegisteredIffEnabled
  <2> SUFFICES ASSUME Quiet, faults = 0, restarts = 0
               PROVE  IF Enabled THEN JobOfRow /\ Registered = {schedule.cron} ELSE Registered = {}
    BY DEF RegisteredIffEnabled
  <2>1. Resting /\ TypeOK
    BY <1>1 DEF Quiet, Resting, IndInv, BaseInv
  <2>2. CASE Enabled
    <3>1. JobOfRow /\ \A c, d \in Registered : c = d
      BY <1>1, <2>1, <2>2 DEF IndInv, RowInv, JobInv
    <3>2. schedule.cron \in Registered
      BY <2>1, <2>2, <3>1, SchedulerAssumption DEF JobOfRow, Registered, Enabled, TypeOK, Schedules
    <3> QED
      BY <2>2, <3>1, <3>2
  <2>3. CASE ~Enabled
    BY <1>1, <2>1, <2>3 DEF IndInv, CleanInv
  <2> QED
    BY <2>2, <2>3
<1> QED
  BY <1>1, Invariance, PTL
=============================================================================
