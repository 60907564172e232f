-------------------------- MODULE PrintJobs_proofs --------------------------
(***************************************************************************)
(* For any number of jobs, plans, artifacts and devices: the coordinator's *)
(* inductive invariant JobsInv, what follows from it, and that it keeps    *)
(* the promise of PrintDelivery.                                           *)
(***************************************************************************)
EXTENDS PrintJobs, ArtifactStore_proofs, FiniteSetTheorems

USE ArtifactStoreAssumption, PrintJobsAssumption DEF Ops, Pins

----------------------------------------------------------------------------
(* What a step may do, in the few shapes the invariants tell apart.         *)

\* A row that moves on, and the pins that go with it.
Settlement(j, to) ==
  /\ \/ state[j] = "accepted"
        /\ to \in {"failed_before_delivery", "cancelled_before_delivery"}
     \/ state[j] = "sending" /\ to = "delivery_uncertain"
     \/ state[j] = "sending" /\ to = "submitted" /\ outcome[j] = "ok"
  /\ state' = [state EXCEPT ![j] = to]
  /\ completedAt' = [completedAt EXCEPT ![j] = now]
  /\ pins' = IF to = "delivery_uncertain" THEN pins ELSE Unpinned({j})

\* A task ends, with or without a last word about its row.
Ends(j) ==
  /\ pc[j] # "none" /\ EndTask(j)
  /\ TaskUnchanged /\ UNCHANGED effect /\ faults' \in Nat
  /\ UNCHANGED <<state, completedAt, pins>> \/ \E to \in TerminalStates : Settlement(j, to)

\* A task goes on and writes nothing.
Moves(j) ==
  /\ UNCHANGED <<storeVars, planVars, jobVars, interrupted, direct, process, faults>>
  /\ \/ BeginScan(j)
     \/ Connected(j)
     \/ Printed(j)
     \/ DeliveryFails(j)
     \/ DeliveryCancelled(j)

\* Conditional updates settle an active row or leave everything as it is.
LEMMA SettleShapes ==
  ASSUME NEW j \in Jobs, faults \in Nat,
         \/ FailBeforeDelivery(j) \/ MarkUncertain(j) \/ SettleCancelled(j)
         \/ outcome[j] = "ok" /\ MarkSubmitted(j)
  PROVE  /\ faults' \in Nat
         /\ \/ UNCHANGED <<state, completedAt, pins>>
            \/ \E to \in TerminalStates : Settlement(j, to)
BY DEF FailBeforeDelivery, MarkUncertain, MarkSubmitted, SettleCancelled, Written,
       WriteFails, Settle, Settlement, TerminalStates

LEMMA TaskShapes ==
  ASSUME TypeOK, NEW j \in Jobs, TaskStep(j)
  PROVE  Ends(j) \/ Moves(j) \/ CrossBoundary(j)
<1>1. faults \in Nat
  BY DEF TypeOK
<1>2. ASSUME pc[j] # "none", FailBeforeDelivery(j) \/ SettleCancelled(j),
             EndTask(j), TaskUnchanged, UNCHANGED effect
      PROVE  Ends(j)
  BY <1>1, <1>2, SettleShapes DEF Ends
<1>3. CASE AdmissionBusy(j) \/ SourcesUnreadable(j) \/ PreparationFails(j) \/ ScanCancelled(j)
  BY <1>2, <1>3 DEF AdmissionBusy, SourcesUnreadable, PreparationFails, ScanCancelled,
     Abandon, Admitted, AtBoundary, Running
<1>4. CASE BoundaryConflict(j)
  BY <1>1, <1>4 DEF BoundaryConflict, AtBoundary, Admitted, Running, Ends
<1>5. CASE BoundaryNotPersisted(j)
  <2>1. pc[j] # "none" /\ EndTask(j) /\ TaskUnchanged /\ UNCHANGED effect
    BY <1>5 DEF BoundaryNotPersisted, AtBoundary, Admitted, Running
  <2>2. faults' \in Nat
    BY <1>1, <1>5 DEF BoundaryNotPersisted, WriteFails, Settle
  <2>3. UNCHANGED <<state, completedAt, pins>> \/ Settlement(j, "failed_before_delivery")
    BY <1>5 DEF BoundaryNotPersisted, WriteFails, Settle, Settlement
  <2> QED BY <2>1, <2>2, <2>3 DEF Ends, TerminalStates
<1>6. CASE Finish(j)
  <2>1. \/ FailBeforeDelivery(j) \/ MarkUncertain(j) \/ SettleCancelled(j)
        \/ outcome[j] = "ok" /\ MarkSubmitted(j)
    BY <1>6 DEF Finish
  <2>2. pc[j] # "none" /\ EndTask(j) /\ TaskUnchanged /\ UNCHANGED effect
    BY <1>6 DEF Finish, Running
  <2> QED BY <1>1, <2>1, <2>2, SettleShapes DEF Ends
<1>7. CASE BeginScan(j) \/ Connected(j) \/ Printed(j) \/ DeliveryFails(j) \/ DeliveryCancelled(j)
  BY <1>7 DEF Moves, BeginScan, Connected, Printed, DeliveryFails, DeliveryCancelled,
     Disconnect, TaskUnchanged, storeVars, storeRest, planVars, jobVars
<1> QED BY <1>3, <1>4, <1>5, <1>6, <1>7 DEF TaskStep

\* A reservation starts a task, or is failed, or stays without one.
Reserved(k, p, j) ==
  /\ Reserve(k, p, j) /\ faults' \in Nat
  /\ \/ /\ state' = [state EXCEPT ![j] = "accepted"]
        /\ pins' = Repinned(j, sources[p], Null)
        /\ pc' = pc \/ pc' = [pc EXCEPT ![j] = "ready"]
        /\ UNCHANGED completedAt
     \/ /\ state' = [state EXCEPT ![j] = "failed_before_delivery"]
        /\ completedAt' = [completedAt EXCEPT ![j] = now]
        /\ UNCHANGED <<pins, pc>>

LEMMA StartShapes ==
  ASSUME TypeOK, NEW k \in Keys, NEW p \in Plans, NEW j \in Jobs,
         Start(k, p, j) \/ StartBusy(k, p, j)
  PROVE  Reserved(k, p, j)
BY DEF Start, StartBusy, Reserved, TypeOK

\* Steps that touch neither a plan, a job, nor what a printer has received.
Bystander ==
  \/ StoreOperation
  \/ \E d \in Devices : DirectClaim(d) \/ DirectRelease(d)
  \/ BeginClose \/ CancelTasks

\* The whole of Next, by shape.
LEMMA NextShapes ==
  ASSUME TypeOK, Next
  PROVE  \/ \E p \in Plans, ids \in SUBSET Artifacts, d \in Devices : CreatePlan(p, ids, d)
         \/ \E k \in Keys, p \in Plans, j \in Jobs : Reserved(k, p, j)
         \/ \E j \in Jobs : Cancel(j) \/ Ends(j) \/ Moves(j) \/ CrossBoundary(j)
         \/ Bystander \/ ReaperPass \/ EndClose \/ Exit \/ Restart
BY TaskShapes, StartShapes DEF Next, Bystander

----------------------------------------------------------------------------
(* The store under the coordinator.                                         *)

\* Giving pins up, or replacing those of one owner by pins on existing rows that
\* never expire, keeps the store consistent, in the middle of a reap too.
LEMMA PinsMayChange ==
  ASSUME StoreInv, UNCHANGED storeRest,
         \/ pins' \subseteq pins
         \/ \E o \in Owners, ids \in SUBSET rows : pins' = Repinned(o, ids, Null)
  PROVE  StoreInv'
<1>1. /\ pins' \subseteq Pins
      /\ \A q \in pins' : q.art \in rows
      /\ \A q \in pins' : q \in pins \/ q.exp = Null
  <2>1. CASE pins' \subseteq pins
    BY <2>1 DEF StoreInv, StoreTypeOK, PinsHaveRows
  <2>2. ASSUME NEW o \in Owners, NEW ids \in SUBSET rows, pins' = Repinned(o, ids, Null),
               NEW q \in pins'
        PROVE  q \in Pins /\ q.art \in rows /\ (q \in pins \/ q.exp = Null)
    <3>1. CASE q \in pins
      BY <3>1 DEF StoreInv, StoreTypeOK, PinsHaveRows
    <3>2. CASE q \notin pins
      <4>1. PICK a \in ids : q = [owner |-> o, art |-> a, exp |-> Null]
        BY <2>2, <3>2 DEF Repinned, Unpinned
      <4> QED BY <4>1 DEF StoreInv, StoreTypeOK
    <3> QED BY <3>1, <3>2
  <2> QED BY <2>1, <2>2
<1>2. StoreTypeOK' /\ RowsHaveFiles' /\ PinsHaveRows'
  BY <1>1 DEF StoreInv, StoreTypeOK, RowsHaveFiles, PinsHaveRows, storeRest
<1>3. LockInv'
  BY <1>1 DEF StoreInv, LockInv, LiveAt, storeRest
<1> QED BY <1>2, <1>3 DEF StoreInv

\* The other operations of the store leave the pins of plans and jobs alone.
LEMMA StoreStepKeepsPins ==
  ASSUME StoreTypeOK, StoreStep
  PROVE  /\ UNCHANGED open
         /\ now' \in Nat /\ now <= now'
         /\ \A q \in pins : q.owner \notin Designs \cup Leases => q \in pins'
<1>1. ASSUME NEW o \in Designs \cup Leases, NEW ids, NEW exp, pins' = Repinned(o, ids, exp)
      PROVE  \A q \in pins : q.owner \notin Designs \cup Leases => q \in pins'
  BY <1>1 DEF Repinned, Unpinned
<1>2. ASSUME NEW o \in Designs, pins' = Unpinned({o})
      PROVE  \A q \in pins : q.owner \notin Designs \cup Leases => q \in pins'
  BY <1>2 DEF Unpinned
<1>3. \A q \in pins : q.owner \notin Designs \cup Leases => q \in pins'
  <2>1. \/ pins' = pins
        \/ \E o \in Designs \cup Leases, ids \in SUBSET Artifacts, exp \in {now + LeaseTTL, Null} :
             pins' = Repinned(o, ids, exp)
        \/ \E o \in Designs : pins' = Unpinned({o})
    BY DEF StoreStep, PutBegin, PutInstall, PutWriteFails, PutCommit, PinLease,
       SyncManagedAssets, DeleteDesign, ReapSelect, ReapDelete, ReapUnlink, ReapAbort, Tick
  <2> QED BY <1>1, <1>2, <2>1
<1>4. UNCHANGED open
  BY DEF StoreStep, PutBegin, PutInstall, PutWriteFails, PutCommit, PinLease,
     SyncManagedAssets, DeleteDesign, ReapSelect, ReapDelete, ReapUnlink, ReapAbort, Tick
<1>5. now' = now \/ now' = now + 1
  BY DEF StoreStep, PutBegin, PutInstall, PutWriteFails, PutCommit, PinLease,
     SyncManagedAssets, DeleteDesign, ReapSelect, ReapDelete, ReapUnlink, ReapAbort, Tick
<1> QED BY <1>3, <1>4, <1>5 DEF StoreTypeOK

\* Settling many jobs at once gives pins up.
LEMMA SettleAllPins ==
  ASSUME NEW S, SettleAll(S)
  PROVE  pins' \subseteq pins
BY DEF SettleAll, Unpinned

LEMMA StoreKept ==
  ASSUME TypeOK, StoreInv, ProcessInv, Next
  PROVE  StoreInv' /\ ProcessInv'
<1> USE DEF ProcessInv
<1>1. ASSUME NEW p \in Plans, NEW ids \in SUBSET Artifacts, NEW d \in Devices,
             CreatePlan(p, ids, d)
      PROVE  StoreInv' /\ ProcessInv'
  BY <1>1, PinsMayChange DEF CreatePlan, Readable, storeRest, taskVars
<1>2. ASSUME NEW k \in Keys, NEW p \in Plans, NEW j \in Jobs, Reserved(k, p, j)
      PROVE  StoreInv' /\ ProcessInv'
  <2>1. sources[p] \in SUBSET rows /\ UNCHANGED <<storeRest, process>>
    BY <1>2 DEF Reserved, Reserve, Readable
  <2>2. open' = open
    BY <2>1 DEF storeRest
  <2> QED BY <1>2, <2>1, <2>2, PinsMayChange DEF Reserved
<1>3. ASSUME NEW j \in Jobs, Cancel(j) \/ Ends(j) \/ Moves(j) \/ CrossBoundary(j)
      PROVE  StoreInv' /\ ProcessInv'
  <2>1. UNCHANGED <<storeRest, process>>
    BY <1>3 DEF Cancel, Ends, EndTask, Moves, CrossBoundary, TaskUnchanged, taskVars,
       storeVars, storeRest
  <2>2. pins' \subseteq pins
    BY <1>3 DEF Cancel, Settle, Ends, Settlement, Moves, CrossBoundary, Unpinned, storeVars
  <2> QED BY <2>1, <2>2, PinsMayChange DEF storeRest
<1>4. CASE Bystander
  <2>1. CASE StoreOperation
    BY <2>1, StoreStepInv, StoreStepKeepsPins DEF StoreOperation, taskVars, TypeOK
  <2>2. CASE ~StoreOperation
    <3>1. UNCHANGED storeVars
      BY <1>4, <2>2 DEF Bystander, DirectClaim, DirectRelease, BeginClose, CancelTasks
    <3>2. open <=> process' \notin {"closed", "down"}
      BY <1>4, <2>2 DEF Bystander, DirectClaim, DirectRelease, BeginClose, CancelTasks, Serving
    <3> QED BY <3>1, <3>2, PinsMayChange DEF storeVars, storeRest
  <2> QED BY <2>1, <2>2
<1>5. CASE ReaperPass
  <2>1. Unpinned(ExpiredPlans \cup Compactable \cup Retired) \in SUBSET pins
    BY DEF Unpinned
  <2>2. StoreInv'
    BY <1>5, <2>1, ReapBeginInv DEF ReaperPass
  <2> QED BY <1>5, <2>2 DEF ReaperPass, ReapBeginFrom, taskVars
<1>6. CASE EndClose
  <2>1. pins' \subseteq pins
    BY <1>6, SettleAllPins DEF EndClose
  <2>2. /\ UNCHANGED <<now, rows, files, temps, expiry, op, hot, doomed, reapAt>>
        /\ op = "idle" /\ process' = "closed" /\ open' = FALSE
    BY <1>6 DEF EndClose
  <2>3. StoreTypeOK' /\ RowsHaveFiles' /\ PinsHaveRows'
    BY <2>1, <2>2 DEF StoreInv, StoreTypeOK, RowsHaveFiles, PinsHaveRows
  <2>4. LockInv'
    BY <2>1, <2>2 DEF StoreInv, LockInv
  <2> QED BY <2>2, <2>3, <2>4 DEF StoreInv
<1>7. CASE Exit
  <2>1. LockInv'
    BY <1>7 DEF Exit, ReleaseLock, StoreInv, StoreTypeOK, LockInv
  <2>2. StoreTypeOK' /\ RowsHaveFiles' /\ PinsHaveRows'
    BY <1>7 DEF Exit, ReleaseLock, StoreInv, StoreTypeOK, RowsHaveFiles, PinsHaveRows
  <2> QED BY <1>7, <2>1, <2>2 DEF Exit, StoreInv
<1>8. CASE Restart
  <2>1. temps' \subseteq Artifacts /\ files' \subseteq files /\ rows \subseteq files'
    BY <1>8, CleanOrphansKeepsRows DEF Restart
  <2>2. pins' \subseteq pins /\ op = "idle"
    BY <1>8, SettleAllPins DEF Restart, StoreInv, LockInv
  <2> QED BY <1>8, <2>1, <2>2 DEF Restart, StoreInv, StoreTypeOK, RowsHaveFiles,
             PinsHaveRows, LockInv, LiveAt
<1> QED BY <1>1, <1>2, <1>3, <1>4, <1>5, <1>6, <1>7, <1>8, NextShapes

----------------------------------------------------------------------------
(* Types of the coordinator's own variables.                                *)

PlanTypeOK ==
  /\ plan \in [Plans -> {"none", "live", "removed"}]
  /\ sources \in [Plans -> SUBSET Artifacts]
  /\ device \in [Plans -> Devices \cup {Null}]
  /\ expires \in [Plans -> Nat]

RowTypeOK ==
  /\ state \in [Jobs -> JobStates]
  /\ key \in [Jobs -> Keys \cup {Null}]
  /\ jobPlan \in [Jobs -> Plans \cup {Null}]
  /\ completedAt \in [Jobs -> Nat]
  /\ compacted \in [Jobs -> BOOLEAN]

TaskTypeOK ==
  /\ pc \in [Jobs -> TaskStates]
  /\ outcome \in [Jobs -> Outcomes]
  /\ interrupted \subseteq Jobs
  /\ claimed \subseteq Devices /\ direct \subseteq Devices
  /\ process \in ProcessStates
  /\ effect \in [Jobs -> Effects]
  /\ faults \in Nat

LEMMA TypeParts == TypeOK <=> StoreTypeOK /\ PlanTypeOK /\ RowTypeOK /\ TaskTypeOK
BY DEF TypeOK, PlanTypeOK, RowTypeOK, TaskTypeOK

LEMMA SettleAllTypes ==
  ASSUME TypeOK, NEW S, SettleAll(S), UNCHANGED <<key, jobPlan, compacted>>
  PROVE  RowTypeOK'
BY DEF SettleAll, TypeOK, StoreTypeOK, RowTypeOK, JobStates, ActiveStates, TerminalStates

\* A running task has a plan with a device.
ClaimsTyped == \A j \in Jobs : pc[j] # "none" => DeviceOf(j) \in Devices

LEMMA TypesKept ==
  ASSUME TypeOK, ClaimsTyped, Next
  PROVE  PlanTypeOK' /\ RowTypeOK' /\ TaskTypeOK'
<1> USE TypeParts
<1>0. now \in Nat
  BY DEF StoreTypeOK
<1>1. ASSUME NEW p \in Plans, NEW ids \in SUBSET Artifacts, NEW d \in Devices,
             CreatePlan(p, ids, d)
      PROVE  PlanTypeOK' /\ RowTypeOK' /\ TaskTypeOK'
  <2>1. PlanTypeOK'
    BY <1>0, <1>1 DEF CreatePlan, PlanTypeOK
  <2> QED BY <1>1, <2>1 DEF CreatePlan, RowTypeOK, TaskTypeOK, jobVars, taskVars
<1>2. ASSUME NEW k \in Keys, NEW p \in Plans, NEW j \in Jobs, Reserved(k, p, j)
      PROVE  PlanTypeOK' /\ RowTypeOK' /\ TaskTypeOK'
  <2>1. PlanTypeOK'
    BY <1>2 DEF Reserved, Reserve, PlanTypeOK, planVars
  <2>2. RowTypeOK'
    BY <1>0, <1>2 DEF Reserved, Reserve, RowTypeOK, JobStates, ActiveStates, TerminalStates
  <2>3. TaskTypeOK'
    BY <1>2 DEF Reserved, Reserve, TaskTypeOK, TaskStates
  <2> QED BY <2>1, <2>2, <2>3
<1>3. ASSUME NEW j \in Jobs, Cancel(j)
      PROVE  PlanTypeOK' /\ RowTypeOK' /\ TaskTypeOK'
  BY <1>0, <1>3 DEF Cancel, Settle, PlanTypeOK, RowTypeOK, TaskTypeOK, JobStates, ActiveStates,
     TerminalStates, planVars, taskVars
<1>4. ASSUME NEW j \in Jobs, Ends(j)
      PROVE  PlanTypeOK' /\ RowTypeOK' /\ TaskTypeOK'
  <2>1. PlanTypeOK'
    BY <1>4 DEF Ends, TaskUnchanged, PlanTypeOK, planVars
  <2>2. RowTypeOK'
    BY <1>0, <1>4 DEF Ends, TaskUnchanged, Settlement, RowTypeOK, JobStates
  <2>3. TaskTypeOK'
    BY <1>4 DEF Ends, EndTask, TaskTypeOK, TaskStates, Outcomes
  <2> QED BY <2>1, <2>2, <2>3
<1>5. ASSUME NEW j \in Jobs, Moves(j) \/ CrossBoundary(j)
      PROVE  PlanTypeOK' /\ RowTypeOK' /\ TaskTypeOK'
  <2>1. PlanTypeOK' /\ RowTypeOK'
    BY <1>5 DEF Moves, CrossBoundary, TaskUnchanged, PlanTypeOK, RowTypeOK, planVars, jobVars,
       JobStates, ActiveStates
  <2>2. claimed' \subseteq Devices
    BY <1>5 DEF Moves, CrossBoundary, BeginScan, Connected, Printed, DeliveryFails,
       DeliveryCancelled, Disconnect, ClaimsTyped, TaskTypeOK, AtBoundary, Admitted, Running
  <2>3. TaskTypeOK'
    BY <1>5, <2>2 DEF Moves, CrossBoundary, BeginScan, Connected, Printed, DeliveryFails,
       DeliveryCancelled, Disconnect, TaskTypeOK, TaskStates, Outcomes, Effects
  <2> QED BY <2>1, <2>3
<1>6. CASE Bystander
  <2>1. UNCHANGED <<planVars, jobVars, pc, outcome, effect, faults>>
    BY <1>6 DEF Bystander, StoreOperation, DirectClaim, DirectRelease, BeginClose,
       CancelTasks, taskVars
  <2>2. /\ interrupted' \subseteq Jobs /\ claimed' \subseteq Devices
        /\ direct' \subseteq Devices /\ process' \in ProcessStates
    BY <1>6 DEF Bystander, StoreOperation, DirectClaim, DirectRelease, BeginClose,
       CancelTasks, taskVars, TaskTypeOK, ProcessStates, Tasks
  <2> QED BY <2>1, <2>2 DEF PlanTypeOK, RowTypeOK, TaskTypeOK, planVars, jobVars
<1>7. CASE ReaperPass
  BY <1>7 DEF ReaperPass, PlanTypeOK, RowTypeOK, TaskTypeOK, JobStates, taskVars
<1>8. CASE EndClose
  <2>1. RowTypeOK'
    BY <1>8, SettleAllTypes DEF EndClose
  <2> QED BY <1>8, <2>1 DEF EndClose, PlanTypeOK, TaskTypeOK, planVars, ProcessStates
<1>9. CASE Exit
  BY <1>9 DEF Exit, PlanTypeOK, RowTypeOK, TaskTypeOK, planVars, jobVars, TaskStates,
     Outcomes, ProcessStates
<1>10. CASE Restart
  <2>1. RowTypeOK'
    BY <1>10, SettleAllTypes DEF Restart
  <2> QED BY <1>10, <2>1 DEF Restart, PlanTypeOK, TaskTypeOK, planVars, ProcessStates
<1> QED BY <1>1, <1>2, <1>3, <1>4, <1>5, <1>6, <1>7, <1>8, <1>9, <1>10, NextShapes

----------------------------------------------------------------------------
(* The clock, and plans and receipts that expire.                           *)

LEMMA ClockAdvances ==
  ASSUME TypeOK, Next
  PROVE  now \in Nat /\ now' \in Nat /\ now <= now'
<1>1. now \in Nat /\ StoreTypeOK
  BY DEF TypeOK, StoreTypeOK
<1>2. CASE StoreOperation
  BY <1>1, <1>2, StoreStepKeepsPins DEF StoreOperation
<1>3. CASE ~StoreOperation
  <2>1. UNCHANGED now
    BY <1>3, NextShapes DEF CreatePlan, Reserved, Reserve, Cancel, Ends, Moves, CrossBoundary,
       TaskUnchanged, Bystander, DirectClaim, DirectRelease, BeginClose, CancelTasks,
       ReaperPass, ReapBeginFrom, EndClose, Exit, Restart, storeVars, storeRest
  <2> QED BY <1>1, <2>1
<1> QED BY <1>2, <1>3

\* Plans appear once, and are then never written again except to be removed.
LEMMA PlansKept ==
  ASSUME TypeOK, RequestInv, Next
  PROVE  /\ \A p \in Plans : plan'[p] # "none"
                => expires'[p] <= now' + PlanTTL /\ device'[p] \in Devices
         /\ \A p \in Plans : plan[p] # "none"
                => plan'[p] # "none" /\ expires'[p] = expires[p]
<1> USE ClockAdvances, TypeParts DEF PlanTypeOK, RequestInv
<1>1. ASSUME NEW p \in Plans, NEW ids \in SUBSET Artifacts, NEW d \in Devices,
             CreatePlan(p, ids, d)
      PROVE  /\ \A q \in Plans : plan'[q] # "none"
                    => expires'[q] <= now' + PlanTTL /\ device'[q] \in Devices
             /\ \A q \in Plans : plan[q] # "none"
                    => plan'[q] # "none" /\ expires'[q] = expires[q]
  BY <1>1 DEF CreatePlan, storeRest
<1>2. CASE ReaperPass
  <2>1. UNCHANGED <<now, expires, device>>
    BY <1>2 DEF ReaperPass, ReapBeginFrom
  <2>2. \A p \in Plans : plan'[p] # "none" <=> plan[p] # "none"
    BY <1>2 DEF ReaperPass, ExpiredPlans
  <2> QED BY <2>1, <2>2
<1>3. CASE UNCHANGED planVars
  BY <1>3 DEF planVars
<1>4. UNCHANGED planVars \/ ReaperPass
      \/ \E p \in Plans, ids \in SUBSET Artifacts, d \in Devices : CreatePlan(p, ids, d)
  BY NextShapes DEF Reserved, Reserve, Cancel, Ends, Moves, CrossBoundary, TaskUnchanged,
     Bystander, StoreOperation, DirectClaim, DirectRelease, BeginClose, CancelTasks,
     EndClose, Exit, Restart
<1> QED BY <1>1, <1>2, <1>3, <1>4

\* How one row may move in one step.
RowMove(j) ==
  \/ UNCHANGED <<state[j], completedAt[j], jobPlan[j], key[j]>>
  \/ /\ state[j] \in ActiveStates /\ state'[j] \in {"sending"} \cup TerminalStates
     /\ UNCHANGED <<jobPlan[j], key[j]>>
     /\ state'[j] \in TerminalStates => completedAt'[j] = now
  \/ /\ state[j] \in TerminalStates /\ completedAt[j] + TerminalRetention <= now
     /\ state'[j] = "removed"
     /\ UNCHANGED <<completedAt[j], jobPlan[j], key[j]>>

LEMMA SettleAllMoves ==
  ASSUME TypeOK, NEW S, SettleAll(S), UNCHANGED <<key, jobPlan>>, NEW j \in Jobs
  PROVE  RowMove(j)
BY DEF SettleAll, TypeOK, RowMove, ActiveStates, TerminalStates

LEMMA RowMoves ==
  ASSUME TypeOK, Next, NEW i \in Jobs
  PROVE  RowMove(i) \/ \E k \in Keys, p \in Plans : Reserved(k, p, i)
<1> USE TypeParts DEF RowTypeOK
<1>1. ASSUME NEW k \in Keys, NEW p \in Plans, NEW j \in Jobs, Reserved(k, p, j)
      PROVE  i = j \/ RowMove(i)
  BY <1>1 DEF Reserved, Reserve, RowMove
<1>2. ASSUME NEW j \in Jobs, Cancel(j) PROVE RowMove(i)
  BY <1>2 DEF Cancel, Settle, RowMove, ActiveStates, TerminalStates
<1>3. ASSUME NEW j \in Jobs, Ends(j) PROVE RowMove(i)
  BY <1>3 DEF Ends, TaskUnchanged, Settlement, RowMove, ActiveStates
<1>4. ASSUME NEW j \in Jobs, Moves(j) \/ CrossBoundary(j) PROVE RowMove(i)
  BY <1>4 DEF Moves, CrossBoundary, TaskUnchanged, RowMove, ActiveStates, TerminalStates, jobVars
<1>5. CASE ReaperPass
  BY <1>5 DEF ReaperPass, Retired, RowMove
<1>6. CASE EndClose \/ Restart
  BY <1>6, SettleAllMoves DEF EndClose, Restart
<1>7. CASE UNCHANGED jobVars
  BY <1>7 DEF jobVars, RowMove
<1>8. \/ UNCHANGED jobVars \/ ReaperPass \/ EndClose \/ Restart
      \/ \E k \in Keys, p \in Plans, j \in Jobs : Reserved(k, p, j)
      \/ \E j \in Jobs : Cancel(j) \/ Ends(j) \/ Moves(j) \/ CrossBoundary(j)
  <2>1. Bystander \/ Exit => UNCHANGED jobVars
    BY DEF Bystander, StoreOperation, DirectClaim, DirectRelease, BeginClose, CancelTasks, Exit
  <2>2. (\E p \in Plans, ids \in SUBSET Artifacts, d \in Devices : CreatePlan(p, ids, d))
          => UNCHANGED jobVars
    BY DEF CreatePlan
  <2> QED BY <2>1, <2>2, NextShapes
<1> QED BY <1>1, <1>2, <1>3, <1>4, <1>5, <1>6, <1>7, <1>8

\* A receipt outlives its plan: it is kept TerminalRetention after an end that
\* came at most PlanTTL before the plan expires.
LEMMA RequestsKept ==
  ASSUME TypeOK, RequestInv, Next
  PROVE  RequestInv'
<1>1. ASSUME NEW j \in Jobs
      PROVE  ReceiptOK(j)'
  <2> USE DEF ReceiptOK
  <2>0. /\ now \in Nat /\ now' \in Nat /\ now <= now'
        /\ expires \in [Plans -> Nat] /\ state \in [Jobs -> JobStates]
        /\ completedAt \in [Jobs -> Nat] /\ jobPlan \in [Jobs -> Plans \cup {Null}]
    BY TypeParts, ClockAdvances DEF PlanTypeOK, RowTypeOK
  <2>1. CASE \E k \in Keys, p \in Plans : Reserved(k, p, j)
    <3>1. PICK k \in Keys, p \in Plans : Reserved(k, p, j)
      BY <2>1
    <3>2. /\ jobPlan'[j] = p /\ plan[p] = "live" /\ UNCHANGED now
          /\ \/ state'[j] = "accepted"
             \/ state'[j] = "failed_before_delivery" /\ completedAt'[j] = now
      BY <2>0, <3>1 DEF Reserved, Reserve, storeRest
    <3>3. plan'[p] # "none" /\ expires'[p] = expires[p] /\ expires[p] <= now + PlanTTL
      BY <3>2, PlansKept DEF RequestInv
    <3> QED BY <3>2, <3>3 DEF TerminalStates
  <2>2. CASE RowMove(j)
    <3>0. CASE state[j] = "none"
      BY <2>2, <3>0 DEF RowMove, ActiveStates, TerminalStates
    <3>1. ASSUME state[j] # "none"
          PROVE  /\ jobPlan[j] \in Plans
                 /\ plan'[jobPlan[j]] # "none" /\ expires'[jobPlan[j]] = expires[jobPlan[j]]
                 /\ expires[jobPlan[j]] <= now + PlanTTL
                 /\ expires[jobPlan[j]] \in Nat /\ completedAt[j] \in Nat
      BY <2>0, <3>1, PlansKept DEF RequestInv
    <3>2. CASE state[j] # "none" /\ state'[j] = state[j] /\ completedAt'[j] = completedAt[j]
               /\ jobPlan'[j] = jobPlan[j]
      BY <2>0, <3>1, <3>2 DEF RequestInv
    <3>3. CASE state[j] \in ActiveStates /\ state'[j] \in {"sending"} \cup TerminalStates
               /\ jobPlan'[j] = jobPlan[j]
               /\ (state'[j] \in TerminalStates => completedAt'[j] = now)
      BY <2>0, <3>1, <3>3 DEF ActiveStates, TerminalStates
    <3>4. CASE state[j] \in TerminalStates /\ completedAt[j] + TerminalRetention <= now
               /\ state'[j] = "removed" /\ jobPlan'[j] = jobPlan[j]
      <4>1. state[j] # "none" /\ expires[jobPlan[j]] <= completedAt[j] + PlanTTL
        BY <3>4 DEF RequestInv, TerminalStates
      <4> QED BY <2>0, <3>1, <3>4, <4>1 DEF TerminalStates
    <3> QED BY <2>2, <3>0, <3>2, <3>3, <3>4 DEF RowMove
  <2> QED BY <2>1, <2>2, RowMoves
<1> QED BY <1>1, PlansKept DEF RequestInv

\* A new reservation meets no other job of its key: one with a row would have
\* been answered, and one without has a plan that expired.
LEMMA OnceKept ==
  ASSUME TypeOK, RequestInv, AtMostOncePerRequest, Next
  PROVE  AtMostOncePerRequest'
<1>1. ASSUME NEW i \in Jobs, RowMove(i)
      PROVE  /\ key'[i] = key[i] /\ jobPlan'[i] = jobPlan[i]
             /\ state'[i] # "none" <=> state[i] # "none"
  BY <1>1 DEF RowMove, ActiveStates, TerminalStates
<1>2. ASSUME NEW k \in Keys, NEW p \in Plans, NEW j \in Jobs, Reserved(k, p, j),
             NEW i \in Jobs, i # j, state'[i] # "none"
      PROVE  <<key'[i], jobPlan'[i]>> # <<key'[j], jobPlan'[j]>>
  <2>1. key'[i] = key[i] /\ jobPlan'[i] = jobPlan[i] /\ state[i] # "none"
    BY <1>2, TypeParts DEF Reserved, Reserve, RowTypeOK
  <2>2. key'[j] = k /\ jobPlan'[j] = p /\ now < expires[p] /\ (HasRow(i) => key[i] # k)
    BY <1>2, TypeParts DEF Reserved, Reserve, RowTypeOK
  <2>3. HasRow(i) \/ state[i] = "removed"
    BY <2>1 DEF HasRow
  <2>4. CASE state[i] = "removed"
    <3>1. expires[jobPlan[i]] <= now
      BY <2>4 DEF RequestInv, ReceiptOK
    <3>2. jobPlan[i] # p
      BY <2>2, <3>1, TypeParts, ClockAdvances DEF PlanTypeOK
    <3> QED BY <2>1, <2>2, <3>2
  <2> QED BY <2>1, <2>2, <2>3, <2>4
<1>3. CASE \E k \in Keys, p \in Plans, j \in Jobs : Reserved(k, p, j)
  <2>1. PICK k \in Keys, p \in Plans, j \in Jobs : Reserved(k, p, j)
    BY <1>3
  <2>2. \A i \in Jobs : i # j => UNCHANGED <<state[i], key[i], jobPlan[i]>>
    BY <2>1, TypeParts DEF Reserved, Reserve, RowTypeOK
  <2> QED BY <1>2, <2>1, <2>2 DEF AtMostOncePerRequest
<1>4. CASE ~\E k \in Keys, p \in Plans, j \in Jobs : Reserved(k, p, j)
  BY <1>1, <1>4, RowMoves DEF AtMostOncePerRequest
<1> QED BY <1>3, <1>4

----------------------------------------------------------------------------
(* What a client may be told, and the promise of PrintDelivery.             *)

\* The row, the task and the printer of one job agree.
JobOK(j) ==
  /\ pc[j] # "none" => state[j] # "none"
  /\ state[j] = "none" => effect[j] = "none"
  /\ state[j] = "submitted" => pc[j] = "none" /\ effect[j] = "complete"
  /\ pc[j] = "connecting" => effect[j] = "touched"
  /\ pc[j] = "printing" => effect[j] = "partial"
  /\ outcome[j] = "ok" => effect[j] = "complete" /\ pc[j] = "disconnecting"
  /\ state[j] \in {"accepted", "failed_before_delivery", "cancelled_before_delivery"}
       => effect[j] = "none" /\ pc[j] \in {"none", "ready", "scanning"}

LEMMA JobsOK ==
  (\A j \in Jobs : JobOK(j)) <=> ProgressInv /\ RefusedIsUntouched /\ SubmittedIsComplete
BY DEF JobOK, ProgressInv, RefusedIsUntouched, SubmittedIsComplete

DeliveryStep(j) == Delivery!Step(j)

\* A row that moves while the printer does not.
LEMMA RowOnly ==
  ASSUME TypeOK, NEW i \in Jobs, effect'[i] = effect[i],
         \/ state'[i] = state[i]
         \/ state[i] = "accepted"
            /\ state'[i] \in {"failed_before_delivery", "cancelled_before_delivery"}
         \/ state[i] = "sending" /\ state'[i] = "delivery_uncertain"
         \/ state[i] = "sending" /\ state'[i] = "submitted" /\ effect[i] = "complete"
         \/ state[i] \in TerminalStates /\ state'[i] = "removed"
         \/ state[i] = "none" /\ state'[i] \in {"accepted", "failed_before_delivery"}
  PROVE  DeliveryStep(i)
BY DEF DeliveryStep, Delivery!Step, Delivery!Keep, Delivery!Reserve, Delivery!Refuse,
   Delivery!Confirm, Delivery!LoseTrack, Delivery!Forget, Delivery!Refused, Delivery!Settled,
   TerminalStates

LEMMA SettleAllRows ==
  ASSUME TypeOK, NEW S, SettleAll(S), NEW i \in Jobs
  PROVE  \/ state'[i] = state[i]
         \/ state[i] = "accepted" /\ state'[i] = "cancelled_before_delivery"
         \/ state[i] = "sending" /\ state'[i] = "delivery_uncertain"
BY TypeParts DEF SettleAll, RowTypeOK

LEMMA JobKept ==
  ASSUME TypeOK, NEW i \in Jobs, JobOK(i), Next
  PROVE  JobOK(i)' /\ DeliveryStep(i)
<1> DEFINE Good == JobOK(i)' /\ DeliveryStep(i)
<1>0. /\ state \in [Jobs -> JobStates] /\ pc \in [Jobs -> TaskStates]
      /\ outcome \in [Jobs -> Outcomes] /\ effect \in [Jobs -> Effects]
  BY TypeParts DEF RowTypeOK, TaskTypeOK
<1>1. CASE UNCHANGED <<state[i], pc[i], outcome[i], effect[i]>>
  BY <1>1, RowOnly DEF JobOK
<1>2. ASSUME NEW k \in Keys, NEW p \in Plans, Reserved(k, p, i) PROVE Good
  <2>1. /\ state[i] = "none" /\ state'[i] \in {"accepted", "failed_before_delivery"}
        /\ effect'[i] = effect[i] /\ outcome'[i] = outcome[i]
        /\ pc'[i] \in {pc[i], "ready"} /\ (state'[i] = "failed_before_delivery" => pc'[i] = pc[i])
    BY <1>0, <1>2 DEF Reserved, Reserve
  <2> QED BY <2>1, RowOnly DEF JobOK
<1>3. ASSUME Cancel(i) PROVE Good
  <2>1. /\ state[i] = "accepted" /\ state'[i] = "cancelled_before_delivery"
        /\ UNCHANGED <<pc, outcome, effect>>
    BY <1>0, <1>3 DEF Cancel, Settle, taskVars
  <2> QED BY <2>1, RowOnly DEF JobOK
<1>4. ASSUME Ends(i) PROVE Good
  <2>1. /\ pc[i] # "none" /\ pc'[i] = "none" /\ outcome'[i] = "none" /\ effect'[i] = effect[i]
    BY <1>0, <1>4 DEF Ends, EndTask
  <2>2. CASE UNCHANGED state
    BY <2>1, <2>2, RowOnly DEF JobOK
  <2>3. ASSUME NEW to \in TerminalStates, Settlement(i, to) PROVE Good
    <3>1. state'[i] = to
      BY <1>0, <2>3 DEF Settlement
    <3> QED BY <2>1, <2>3, <3>1, RowOnly DEF Settlement, JobOK
  <2> QED BY <1>4, <2>2, <2>3 DEF Ends
<1>5. ASSUME CrossBoundary(i) PROVE Good
  <2>1. /\ state[i] = "accepted" /\ state'[i] = "sending" /\ pc'[i] = "connecting"
        /\ effect'[i] = "touched" /\ outcome'[i] = outcome[i]
    BY <1>0, <1>5 DEF CrossBoundary
  <2> QED BY <2>1 DEF JobOK, DeliveryStep, Delivery!Step, Delivery!Send, Delivery!Begin
<1>6. ASSUME Moves(i) PROVE Good
  <2>1. state' = state
    BY <1>6 DEF Moves, jobVars
  <2>2. CASE BeginScan(i)
    BY <1>0, <2>1, <2>2, RowOnly DEF BeginScan, Admitted, Running, JobOK
  <2>3. CASE Connected(i)
    BY <1>0, <2>1, <2>3 DEF Connected, Running, JobOK, DeliveryStep, Delivery!Step,
       Delivery!Send, Delivery!Refused
  <2>4. CASE Printed(i)
    BY <1>0, <2>1, <2>4 DEF Printed, Disconnect, Running, JobOK, DeliveryStep, Delivery!Step,
       Delivery!Send, Delivery!Refused
  <2>5. CASE DeliveryFails(i) \/ DeliveryCancelled(i)
    BY <1>0, <2>1, <2>5, RowOnly DEF DeliveryFails, DeliveryCancelled, Disconnect, Running, JobOK
  <2> QED BY <1>6, <2>2, <2>3, <2>4, <2>5 DEF Moves
<1>7. CASE ReaperPass
  <2>1. UNCHANGED <<pc, outcome, effect>>
    BY <1>7 DEF ReaperPass, taskVars
  <2>2. \/ state'[i] = state[i]
        \/ state[i] \in TerminalStates /\ state'[i] = "removed"
    BY <1>7 DEF ReaperPass, Retired
  <2> QED BY <2>1, <2>2, RowOnly DEF JobOK, TerminalStates
<1>8. CASE EndClose \/ Restart
  <2>1. UNCHANGED <<pc, outcome, effect>>
    BY <1>8 DEF EndClose, Restart
  <2>2. \/ state'[i] = state[i]
        \/ state[i] = "accepted" /\ state'[i] = "cancelled_before_delivery"
        \/ state[i] = "sending" /\ state'[i] = "delivery_uncertain"
    BY <1>8, SettleAllRows DEF EndClose, Restart
  <2> QED BY <2>1, <2>2, RowOnly DEF JobOK
<1>9. CASE Exit
  <2>1. UNCHANGED <<state, effect>> /\ pc'[i] = "none" /\ outcome'[i] = "none"
    BY <1>9 DEF Exit, jobVars
  <2> QED BY <2>1, RowOnly DEF JobOK
<1>10. ASSUME NEW j \in Jobs, i # j,
              \/ \E k \in Keys, p \in Plans : Reserved(k, p, j)
              \/ Cancel(j) \/ Ends(j) \/ Moves(j) \/ CrossBoundary(j)
       PROVE  UNCHANGED <<state[i], pc[i], outcome[i], effect[i]>>
  BY <1>0, <1>10 DEF Reserved, Reserve, Cancel, Settle, Ends, EndTask, Settlement, Moves, BeginScan,
     Connected, Printed, DeliveryFails, DeliveryCancelled, Disconnect, CrossBoundary, taskVars,
     jobVars
<1>11. ASSUME \/ Bystander
              \/ \E p \in Plans, ids \in SUBSET Artifacts, d \in Devices : CreatePlan(p, ids, d)
       PROVE  UNCHANGED <<state, pc, outcome, effect>>
  BY <1>11 DEF CreatePlan, Bystander, StoreOperation, DirectClaim, DirectRelease, BeginClose,
     CancelTasks, taskVars, jobVars
<1> QED BY <1>1, <1>2, <1>3, <1>4, <1>5, <1>6, <1>7, <1>8, <1>9, <1>10, <1>11, NextShapes

----------------------------------------------------------------------------
(* Sources.                                                                 *)

\* A step that keeps the pins of an owner who kept its claim, and gives a new
\* owner its own, keeps the cover.
LEMMA CoverKept ==
  ASSUME TypeOK, RequestInv, PinsCover, Next
  PROVE  PinsCover'
<1> DEFINE PlanCovered(p) == plan[p] = "live" => \A a \in sources[p] : Pin(p, a) \in pins
           JobCovered(j) == HoldsSources(j) => \A a \in SourcesOf(j) : Pin(j, a) \in pins
<1>0. /\ plan \in [Plans -> {"none", "live", "removed"}]
      /\ sources \in [Plans -> SUBSET Artifacts]
      /\ state \in [Jobs -> JobStates] /\ jobPlan \in [Jobs -> Plans \cup {Null}]
      /\ compacted \in [Jobs -> BOOLEAN]
  BY TypeParts DEF PlanTypeOK, RowTypeOK
<1>a. \A j \in Jobs : state[j] # "none" => jobPlan[j] \in Plans /\ plan[jobPlan[j]] # "none"
  BY DEF RequestInv, ReceiptOK
<1>b. ASSUME NEW j \in Jobs, HoldsSources(j) PROVE state[j] # "none"
  BY <1>b DEF HoldsSources, ActiveStates
<1>c. \A o, a : Pin(o, a).owner = o
  BY DEF Pin
<1>d. /\ \A p \in Plans : PlanCovered(p)
      /\ \A j \in Jobs : JobCovered(j)
  BY DEF PinsCover
<1> HIDE DEF PlanCovered, JobCovered
<1>1. ASSUME NEW p \in Plans, NEW ids \in SUBSET Artifacts, NEW d \in Devices,
             CreatePlan(p, ids, d)
      PROVE  PinsCover'
  <2>1. /\ UNCHANGED jobVars /\ plan[p] = "none"
        /\ plan' = [plan EXCEPT ![p] = "live"] /\ sources' = [sources EXCEPT ![p] = ids]
        /\ pins' = Repinned(p, ids, Null)
    BY <1>1 DEF CreatePlan
  <2>2. \A q \in pins : q.owner # p => q \in pins'
    BY <2>1 DEF Repinned, Unpinned
  <2>3. \A a \in ids : Pin(p, a) \in pins'
    BY <2>1 DEF Repinned, Pin
  <2>4. ASSUME NEW q \in Plans PROVE PlanCovered(q)'
    BY <1>0, <1>c, <1>d, <2>1, <2>2, <2>3 DEF PlanCovered
  <2>5. ASSUME NEW j \in Jobs PROVE JobCovered(j)'
    <3>1. HoldsSources(j)' <=> HoldsSources(j)
      BY <2>1 DEF HoldsSources, jobVars
    <3>2. HoldsSources(j) => SourcesOf(j)' = SourcesOf(j)
      BY <1>0, <1>a, <1>b, <2>1 DEF SourcesOf, jobVars
    <3> QED BY <1>c, <1>d, <2>2, <3>1, <3>2 DEF JobCovered
  <2> QED BY <2>4, <2>5 DEF PinsCover, PlanCovered, JobCovered
<1>2. ASSUME NEW k \in Keys, NEW p \in Plans, NEW j \in Jobs, Reserved(k, p, j)
      PROVE  PinsCover'
  <2>1. /\ UNCHANGED <<plan, sources, compacted>> /\ jobPlan' = [jobPlan EXCEPT ![j] = p]
        /\ \/ /\ state' = [state EXCEPT ![j] = "accepted"]
              /\ pins' = Repinned(j, sources[p], Null)
           \/ state' = [state EXCEPT ![j] = "failed_before_delivery"] /\ UNCHANGED pins
    BY <1>2 DEF Reserved, Reserve, planVars
  <2>2. \A q \in pins : q.owner # j => q \in pins'
    BY <2>1 DEF Repinned, Unpinned
  <2>3. ASSUME NEW q \in Plans PROVE PlanCovered(q)'
    BY <1>c, <1>d, <2>1, <2>2 DEF PlanCovered
  <2>4. ASSUME NEW i \in Jobs, i # j PROVE JobCovered(i)'
    <3>1. (HoldsSources(i)' <=> HoldsSources(i)) /\ SourcesOf(i)' = SourcesOf(i)
      BY <1>0, <2>1, <2>4 DEF HoldsSources, SourcesOf
    <3> QED BY <1>c, <1>d, <2>2, <2>4, <3>1 DEF JobCovered
  <2>5. JobCovered(j)'
    <3>1. CASE state' = [state EXCEPT ![j] = "accepted"] /\ pins' = Repinned(j, sources[p], Null)
      BY <1>0, <2>1, <3>1 DEF JobCovered, SourcesOf, Repinned, Pin
    <3>2. CASE state' = [state EXCEPT ![j] = "failed_before_delivery"]
      BY <1>0, <3>2 DEF JobCovered, HoldsSources, ActiveStates
    <3> QED BY <2>1, <3>1, <3>2
  <2> QED BY <2>3, <2>4, <2>5 DEF PinsCover, PlanCovered, JobCovered
<1>3. ASSUME UNCHANGED <<sources, jobPlan>>,
             \A p \in Plans : plan'[p] = "live" =>
               /\ plan[p] = "live"
               /\ \A q \in pins : q.owner = p /\ q.exp = Null => q \in pins',
             \A j \in Jobs : HoldsSources(j)' =>
               /\ HoldsSources(j)
               /\ \A q \in pins : q.owner = j /\ q.exp = Null => q \in pins'
      PROVE  PinsCover'
  <2>1. \A o, a : Pin(o, a).owner = o /\ Pin(o, a).exp = Null
    BY DEF Pin
  <2>2. ASSUME NEW p \in Plans PROVE PlanCovered(p)'
    BY <1>3, <1>d, <2>1 DEF PlanCovered
  <2>3. ASSUME NEW j \in Jobs PROVE JobCovered(j)'
    BY <1>3, <1>d, <2>1 DEF JobCovered, SourcesOf
  <2> QED BY <2>2, <2>3 DEF PinsCover, PlanCovered, JobCovered
<1>4. ASSUME NEW j \in Jobs, Cancel(j) \/ Ends(j) \/ Moves(j) \/ CrossBoundary(j)
      PROVE  PinsCover'
  <2>1. UNCHANGED <<plan, sources, jobPlan, compacted>>
    BY <1>4 DEF Cancel, Ends, Moves, CrossBoundary, TaskUnchanged, planVars, jobVars
  <2>2. \/ pins' = pins /\ \A i \in Jobs : HoldsSources(i)' => HoldsSources(i)
        \/ /\ pins' = Unpinned({j}) /\ state'[j] \in TerminalStates \ {"delivery_uncertain"}
           /\ \A i \in Jobs : i # j => state'[i] = state[i]
    <3>1. CASE Cancel(j)
      BY <1>0, <3>1 DEF Cancel, Settle, TerminalStates
    <3>2. CASE Ends(j)
      <4>1. CASE UNCHANGED <<state, pins>>
        BY <2>1, <4>1 DEF HoldsSources
      <4>2. ASSUME NEW to \in TerminalStates, Settlement(j, to), to # "delivery_uncertain"
            PROVE  /\ pins' = Unpinned({j}) /\ state'[j] \in TerminalStates \ {"delivery_uncertain"}
                   /\ \A i \in Jobs : i # j => state'[i] = state[i]
        BY <1>0, <4>2 DEF Settlement
      <4>3. CASE Settlement(j, "delivery_uncertain")
        BY <1>0, <2>1, <4>3 DEF Settlement, HoldsSources, ActiveStates
      <4> QED BY <3>2, <4>1, <4>2, <4>3 DEF Ends
    <3>3. CASE Moves(j)
      BY <3>3 DEF Moves, storeVars, jobVars, HoldsSources
    <3>4. CASE CrossBoundary(j)
      BY <1>0, <2>1, <3>4 DEF CrossBoundary, HoldsSources, ActiveStates
    <3> QED BY <1>4, <3>1, <3>2, <3>3, <3>4
  <2>3. CASE pins' = pins /\ \A i \in Jobs : HoldsSources(i)' => HoldsSources(i)
    BY <1>3, <2>1, <2>3
  <2>4. CASE /\ pins' = Unpinned({j}) /\ state'[j] \in TerminalStates \ {"delivery_uncertain"}
             /\ \A i \in Jobs : i # j => state'[i] = state[i]
    <3>1. ~HoldsSources(j)'
      BY <2>4 DEF HoldsSources, ActiveStates, TerminalStates
    <3>2. \A i \in Jobs : i # j => (HoldsSources(i)' <=> HoldsSources(i))
      BY <2>1, <2>4 DEF HoldsSources
    <3>3. \A q \in pins : q.owner # j => q \in pins'
      BY <2>4 DEF Unpinned
    <3> QED BY <1>3, <2>1, <3>1, <3>2, <3>3
  <2> QED BY <2>2, <2>3, <2>4
<1>5. CASE Bystander
  <2>1. UNCHANGED <<plan, sources, jobPlan, state, compacted>>
    BY <1>5 DEF Bystander, StoreOperation, DirectClaim, DirectRelease, BeginClose,
       CancelTasks, planVars, jobVars
  <2>2. \A q \in pins : q.owner \notin Designs \cup Leases => q \in pins'
    BY <1>5, StoreStepKeepsPins, TypeParts DEF Bystander, StoreOperation, DirectClaim,
       DirectRelease, BeginClose, CancelTasks, storeVars
  <2>3. \A j \in Jobs : HoldsSources(j)' <=> HoldsSources(j)
    BY <2>1 DEF HoldsSources
  <2> QED BY <1>3, <2>1, <2>2, <2>3
<1>6. CASE ReaperPass
  <2>1. /\ UNCHANGED <<sources, jobPlan>>
        /\ plan' = [p \in Plans |-> IF p \in ExpiredPlans THEN "removed" ELSE plan[p]]
        /\ compacted' = [j \in Jobs |-> compacted[j] \/ j \in Compactable]
        /\ state' = [j \in Jobs |-> IF j \in Retired THEN "removed" ELSE state[j]]
        /\ pins' = {q \in Unpinned(ExpiredPlans \cup Compactable \cup Retired) : LiveAt(q, now)}
    BY <1>6 DEF ReaperPass, ReapBeginFrom
  <2>2. \A q \in pins : /\ q.owner \notin ExpiredPlans \cup Compactable \cup Retired
                        /\ q.exp = Null
                        => q \in pins'
    BY <2>1 DEF Unpinned, LiveAt
  <2>3. ExpiredPlans \subseteq Plans /\ Compactable \cup Retired \subseteq Jobs
    BY DEF ExpiredPlans, Compactable, Retired
  <2>4. ASSUME NEW p \in Plans, plan'[p] = "live"
        PROVE  plan[p] = "live" /\ p \notin ExpiredPlans \cup Compactable \cup Retired
    BY <2>1, <2>3, <2>4
  <2>5. ASSUME NEW j \in Jobs, HoldsSources(j)'
        PROVE  HoldsSources(j) /\ j \notin ExpiredPlans \cup Compactable \cup Retired
    BY <1>0, <2>1, <2>3, <2>5 DEF HoldsSources, ActiveStates, Retired, Compactable, TerminalStates
  <2> QED BY <1>3, <2>1, <2>2, <2>4, <2>5
<1>7. CASE EndClose \/ Restart
  <2>1. /\ UNCHANGED <<plan, sources, jobPlan, compacted>>
        /\ \E S \in SUBSET Jobs : SettleAll(S)
    BY <1>7 DEF EndClose, Restart, Tasks, planVars
  <2>2. PICK S \in SUBSET Jobs : SettleAll(S)
    BY <2>1
  <2>3. ASSUME NEW j \in Jobs, HoldsSources(j)'
        PROVE  HoldsSources(j) /\ ~(j \in S /\ state[j] = "accepted")
    BY <1>0, <2>1, <2>2, <2>3 DEF SettleAll, HoldsSources, ActiveStates
  <2>4. \A q \in pins : ~(q.owner \in S /\ state[q.owner] = "accepted") => q \in pins'
    BY <2>2 DEF SettleAll, Unpinned
  <2>5. \A p \in Plans : p \notin S
    OBVIOUS
  <2> QED BY <1>3, <2>1, <2>3, <2>4, <2>5
<1>8. CASE Exit
  <2>1. UNCHANGED <<plan, sources, jobPlan, state, compacted, pins>>
    BY <1>8 DEF Exit, planVars, jobVars
  <2> QED BY <1>3, <2>1 DEF HoldsSources
<1> QED BY <1>1, <1>2, <1>4, <1>5, <1>6, <1>7, <1>8, NextShapes

----------------------------------------------------------------------------
(* The theorems.                                                            *)

LEMMA RunningTasksTyped ==
  ASSUME TypeOK, RequestInv, ProgressInv
  PROVE  ClaimsTyped
BY DEF ClaimsTyped, DeviceOf, RequestInv, ReceiptOK, ProgressInv

LEMMA JobsInit == Init => JobsInv
<1> SUFFICES ASSUME Init PROVE JobsInv
  OBVIOUS
<1>1. StoreInv /\ ProcessInv
  BY StoreInitInv DEF Init, StoreInit, ProcessInv
<1>2. PlanTypeOK /\ RowTypeOK /\ TaskTypeOK
  BY DEF Init, PlanTypeOK, RowTypeOK, TaskTypeOK, JobStates, TaskStates, Outcomes, Effects,
     ProcessStates
<1>3. RequestInv
  BY DEF Init, RequestInv, ReceiptOK, TerminalStates
<1>4. ProgressInv /\ RefusedIsUntouched /\ SubmittedIsComplete /\ AtMostOncePerRequest
  BY DEF Init, ProgressInv, RefusedIsUntouched, SubmittedIsComplete, AtMostOncePerRequest
<1>5. PinsCover
  BY DEF Init, PinsCover, HoldsSources, ActiveStates
<1> QED BY <1>1, <1>2, <1>3, <1>4, <1>5, TypeParts DEF JobsInv, StoreInv

LEMMA JobsStep ==
  ASSUME JobsInv, [Next]_vars
  PROVE  JobsInv'
<1>1. CASE Next
  <2>1. StoreInv' /\ ProcessInv'
    BY <1>1, StoreKept DEF JobsInv
  <2>2. TypeOK'
    <3>1. PlanTypeOK' /\ RowTypeOK' /\ TaskTypeOK'
      BY <1>1, TypesKept, RunningTasksTyped DEF JobsInv
    <3> QED BY <2>1, <3>1 DEF StoreInv, TypeOK, PlanTypeOK, RowTypeOK, TaskTypeOK
  <2>3. RequestInv' /\ AtMostOncePerRequest' /\ PinsCover'
    BY <1>1, RequestsKept, OnceKept, CoverKept DEF JobsInv
  <2>4. ProgressInv' /\ RefusedIsUntouched' /\ SubmittedIsComplete'
    <3>1. \A j \in Jobs : JobOK(j)'
      BY <1>1, JobsOK, JobKept DEF JobsInv
    <3> QED BY <3>1 DEF JobOK, ProgressInv, RefusedIsUntouched, SubmittedIsComplete
  <2> QED BY <2>1, <2>2, <2>3, <2>4 DEF JobsInv
<1>2. CASE UNCHANGED vars
  <2>1. /\ UNCHANGED <<storeVars, plan, sources, device, expires>>
        /\ UNCHANGED <<state, key, jobPlan, completedAt, compacted>>
        /\ UNCHANGED <<pc, outcome, interrupted, claimed, direct, process, effect, faults>>
    BY <1>2 DEF vars, planVars, jobVars, taskVars
  <2>2. StoreInv'
    BY <2>1, StoreNextInv DEF JobsInv
  <2>3. TypeOK' /\ ProcessInv'
    BY <2>1, <2>2 DEF JobsInv, TypeOK, StoreInv, ProcessInv, storeVars
  <2>4. RequestInv' /\ AtMostOncePerRequest' /\ PinsCover'
    BY <2>1 DEF JobsInv, RequestInv, ReceiptOK, AtMostOncePerRequest, PinsCover, HoldsSources,
       SourcesOf, storeVars
  <2>5. ProgressInv' /\ RefusedIsUntouched' /\ SubmittedIsComplete'
    BY <2>1 DEF JobsInv, ProgressInv, RefusedIsUntouched, SubmittedIsComplete
  <2> QED BY <2>2, <2>3, <2>4, <2>5 DEF JobsInv
<1> QED BY <1>1, <1>2

\* Every reachable state of the coordinator satisfies the whole invariant.
THEOREM JobsCorrect == Spec => []JobsInv
<1>1. JobsInv /\ [Next]_vars => JobsInv'
  BY JobsStep
<1> QED BY <1>1, JobsInit, PTL DEF Spec

\* Types, for any number of jobs, plans and devices.
THEOREM TypesCorrect == Spec => []TypeOK
<1>1. JobsInv => TypeOK
  BY DEF JobsInv
<1> QED BY <1>1, JobsCorrect, PTL

\* A job refused before delivery never reaches the printer, however cancel, the
\* executor task, close() and restart recovery race for its row, and a success is
\* only ever reported for a delivery that completed.
THEOREM ReceiptsStayTrue == Spec => []ReceiptsAreTrue
<1>1. JobsInv => ReceiptsAreTrue
  BY DEF JobsInv, ReceiptsAreTrue
<1> QED BY <1>1, JobsCorrect, PTL

\* A request is accepted at most once for ever, given that receipts are kept at
\* least as long as plans (PrintJobsAssumption).
THEOREM OncePerRequest == Spec => []AtMostOncePerRequest
<1>1. JobsInv => AtMostOncePerRequest
  BY DEF JobsInv
<1> QED BY <1>1, JobsCorrect, PTL

\* Held sources are pinned, pins have rows and rows have files: what a live plan
\* or a job needs can be read back in every state.
THEOREM SourcesAvailable == Spec => []SourcesKept
<1>1. JobsInv => SourcesKept
  <2> SUFFICES ASSUME JobsInv PROVE SourcesKept
    OBVIOUS
  <2>1. \A o, a : Pin(o, a) \in pins => a \in rows \cap files
    <3>1. \A o, a : Pin(o, a).art = a
      BY DEF Pin
    <3> QED BY <3>1 DEF JobsInv, StoreInv, PinsHaveRows, RowsHaveFiles
  <2> QED BY <2>1 DEF JobsInv, PinsCover, SourcesKept
<1> QED BY <1>1, JobsCorrect, PTL

\* An outcome a client was told is never replaced by another.
THEOREM OutcomesAreFinal == Spec => OutcomeIsFinal
<1>1. ASSUME JobsInv, [Next]_vars, NEW j \in Jobs, state[j] \in TerminalStates
      PROVE  \/ state'[j] = state[j] /\ completedAt'[j] = completedAt[j]
             \/ state'[j] = "removed" /\ completedAt[j] + TerminalRetention <= now
  <2>1. CASE UNCHANGED vars
    BY <2>1 DEF vars, jobVars
  <2>2. CASE Next
    <3>1. RowMove(j) \/ \E k \in Keys, p \in Plans : Reserved(k, p, j)
      BY <1>1, <2>2, RowMoves DEF JobsInv
    <3>2. ~\E k \in Keys, p \in Plans : Reserved(k, p, j)
      BY <1>1 DEF Reserved, Reserve, TerminalStates
    <3> QED BY <1>1, <3>1, <3>2 DEF RowMove, ActiveStates, TerminalStates
  <2> QED BY <1>1, <2>1, <2>2
<1>2. JobsInv /\ [Next]_vars =>
        [\A j \in Jobs :
           state[j] \in TerminalStates
             => \/ state'[j] = state[j] /\ completedAt'[j] = completedAt[j]
                \/ state'[j] = "removed" /\ completedAt[j] + TerminalRetention <= now]_vars
  BY <1>1
<1> QED BY <1>2, JobsCorrect, PTL DEF Spec, OutcomeIsFinal

\* The coordinator implements the delivery promise.
THEOREM KeepsThePromise == Spec => DeliverySpec
<1>1. Init => Delivery!Init
  BY DEF Init, Delivery!Init
<1>2. JobsInv /\ [Next]_vars => [Delivery!Next]_<<state, effect>>
  <2> SUFFICES ASSUME JobsInv, [Next]_vars PROVE [Delivery!Next]_<<state, effect>>
    OBVIOUS
  <2>1. CASE UNCHANGED vars
    BY <2>1 DEF vars, jobVars
  <2>2. CASE Next
    <3>1. \A j \in Jobs : DeliveryStep(j)
      BY <2>2, JobsOK, JobKept DEF JobsInv
    <3> QED BY <3>1 DEF DeliveryStep, Delivery!Next
  <2> QED BY <2>1, <2>2
<1> QED BY <1>1, <1>2, JobsCorrect, PTL DEF Spec, DeliverySpec, Delivery!Spec

----------------------------------------------------------------------------
(* Devices.                                                                 *)

Holds(j) == pc[j] \notin {"none", "ready"}

\* A job's device is settled when its row appears.
LEMMA DeviceStays ==
  ASSUME TypeOK, RequestInv, ProgressInv, Next, NEW j \in Jobs, pc[j] # "none"
  PROVE  DeviceOf(j)' = DeviceOf(j)
<1>0. /\ device \in [Plans -> Devices \cup {Null}] /\ jobPlan \in [Jobs -> Plans \cup {Null}]
      /\ plan \in [Plans -> {"none", "live", "removed"}] /\ state \in [Jobs -> JobStates]
  BY TypeParts DEF PlanTypeOK, RowTypeOK
<1>1. state[j] # "none" /\ jobPlan[j] \in Plans /\ plan[jobPlan[j]] # "none"
  BY DEF ProgressInv, RequestInv, ReceiptOK
<1>2. jobPlan'[j] = jobPlan[j]
  <2>1. ASSUME NEW k \in Keys, NEW p \in Plans PROVE ~Reserved(k, p, j)
    BY <1>1 DEF Reserved, Reserve
  <2>2. RowMove(j)
    BY <2>1, RowMoves
  <2> QED BY <2>2 DEF RowMove
<1>3. device'[jobPlan[j]] = device[jobPlan[j]]
  <2>1. CASE UNCHANGED device
    BY <2>1
  <2>2. ASSUME NEW p \in Plans, NEW ids \in SUBSET Artifacts, NEW d \in Devices,
               CreatePlan(p, ids, d)
        PROVE  device'[jobPlan[j]] = device[jobPlan[j]]
    BY <1>0, <1>1, <2>2 DEF CreatePlan
  <2>3. UNCHANGED device
        \/ \E p \in Plans, ids \in SUBSET Artifacts, d \in Devices : CreatePlan(p, ids, d)
    BY NextShapes DEF Reserved, Reserve, Cancel, Ends, Moves, CrossBoundary, TaskUnchanged,
       Bystander, StoreOperation, DirectClaim, DirectRelease, BeginClose, CancelTasks,
       EndClose, Exit, Restart, ReaperPass, planVars
  <2> QED BY <2>1, <2>2, <2>3
<1> QED BY <1>2, <1>3 DEF DeviceOf

LEMMA ClaimsKept ==
  ASSUME TypeOK, RequestInv, ProgressInv, ClaimsMatchTasks, Next
  PROVE  ClaimsMatchTasks'
<1>0. pc \in [Jobs -> TaskStates]
  BY TypeParts DEF TaskTypeOK
<1>a. \A j \in Jobs : Holds(j) => DeviceOf(j)' = DeviceOf(j)
  BY DeviceStays DEF Holds
<1>b. /\ \A i, j \in Jobs : Holds(i) /\ Holds(j) /\ DeviceOf(i) = DeviceOf(j) => i = j
      /\ \A j \in Jobs : Holds(j) => DeviceOf(j) \notin direct
      /\ \A d : d \in claimed <=> d \in direct \/ \E j \in Jobs : Holds(j) /\ d = DeviceOf(j)
  BY DEF ClaimsMatchTasks, Holds
<1>c. ASSUME \A i, j \in Jobs : Holds(i)' /\ Holds(j)' /\ DeviceOf(i)' = DeviceOf(j)' => i = j,
             \A j \in Jobs : Holds(j)' => DeviceOf(j)' \notin direct',
             \A d : d \in claimed' <=> d \in direct' \/ \E j \in Jobs : Holds(j)' /\ d = DeviceOf(j)'
      PROVE  ClaimsMatchTasks'
  BY <1>c DEF ClaimsMatchTasks, Holds
\* Nobody's hold changes.
<1>1. ASSUME UNCHANGED <<claimed, direct>>, \A j \in Jobs : Holds(j)' <=> Holds(j)
      PROVE  ClaimsMatchTasks'
  BY <1>1, <1>a, <1>b, <1>c
\* A task takes the device it holds, or one that nobody holds.
<1>2. ASSUME NEW j \in Jobs, pc[j] # "none", Holds(j)', UNCHANGED direct,
             claimed' = claimed \cup {DeviceOf(j)},
             Holds(j) \/ DeviceOf(j) \notin claimed,
             \A i \in Jobs : i # j => (Holds(i)' <=> Holds(i))
      PROVE  ClaimsMatchTasks'
  <2>1. DeviceOf(j)' = DeviceOf(j)
    BY <1>2, DeviceStays
  <2>2. \A i \in Jobs : Holds(i)' => DeviceOf(i)' = DeviceOf(i) /\ (i = j \/ Holds(i))
    BY <1>2, <1>a, <2>1
  <2> QED BY <1>2, <1>a, <1>b, <1>c, <2>1, <2>2
\* A task lets go of what it holds.
<1>3. ASSUME NEW j \in Jobs, ~Holds(j)', UNCHANGED direct,
             claimed' = IF Holds(j) THEN claimed \ {DeviceOf(j)} ELSE claimed,
             \A i \in Jobs : i # j => (Holds(i)' <=> Holds(i))
      PROVE  ClaimsMatchTasks'
  <2>1. \A i \in Jobs : Holds(i)' => DeviceOf(i)' = DeviceOf(i) /\ i # j /\ Holds(i)
    BY <1>3, <1>a
  <2> QED BY <1>3, <1>a, <1>b, <1>c, <2>1
<1>4. ASSUME NEW k \in Keys, NEW p \in Plans, NEW j \in Jobs, Reserved(k, p, j)
      PROVE  ClaimsMatchTasks'
  <2>1. UNCHANGED <<claimed, direct>> /\ pc[j] = "none" /\ (pc' = pc \/ pc' = [pc EXCEPT ![j] = "ready"])
    BY <1>4 DEF Reserved, Reserve, ProgressInv
  <2>2. \A i \in Jobs : Holds(i)' <=> Holds(i)
    BY <1>0, <2>1 DEF Holds
  <2> QED BY <1>1, <2>1, <2>2
<1>5. ASSUME NEW j \in Jobs, CrossBoundary(j) \/ Moves(j)
      PROVE  ClaimsMatchTasks'
  <2>1. CASE CrossBoundary(j) \/ BeginScan(j)
    <3>1. /\ pc' = [pc EXCEPT ![j] = "connecting"] \/ pc' = [pc EXCEPT ![j] = "scanning"]
          /\ UNCHANGED direct /\ claimed' = claimed \cup {DeviceOf(j)}
          /\ pc[j] # "none" /\ (Holds(j) \/ DeviceOf(j) \notin claimed)
      BY <2>1 DEF CrossBoundary, BeginScan, AtBoundary, Admitted, Running, Holds
    <3>2. Holds(j)' /\ \A i \in Jobs : i # j => (Holds(i)' <=> Holds(i))
      BY <1>0, <3>1 DEF Holds
    <3> QED BY <1>2, <3>1, <3>2
  <2>2. CASE Connected(j) \/ Printed(j) \/ DeliveryFails(j) \/ DeliveryCancelled(j)
    <3>1. /\ pc[j] \in {"connecting", "printing"} /\ UNCHANGED <<claimed, direct>>
          /\ pc' = [pc EXCEPT ![j] = "printing"] \/ pc' = [pc EXCEPT ![j] = "disconnecting"]
      BY <2>2 DEF Connected, Printed, DeliveryFails, DeliveryCancelled, Disconnect, Running
    <3>2. \A i \in Jobs : Holds(i)' <=> Holds(i)
      BY <1>0, <3>1 DEF Holds
    <3> QED BY <1>1, <3>1, <3>2
  <2> QED BY <1>5, <2>1, <2>2 DEF Moves
<1>6. ASSUME NEW j \in Jobs, Ends(j) PROVE ClaimsMatchTasks'
  <2>1. /\ pc[j] # "none" /\ pc' = [pc EXCEPT ![j] = "none"] /\ UNCHANGED direct
        /\ claimed' = IF Holds(j) THEN claimed \ {DeviceOf(j)} ELSE claimed
    BY <1>6 DEF Ends, EndTask, Holds
  <2>2. ~Holds(j)' /\ \A i \in Jobs : i # j => (Holds(i)' <=> Holds(i))
    BY <1>0, <2>1 DEF Holds
  <2> QED BY <1>3, <2>1, <2>2
<1>7. ASSUME NEW d \in Devices, DirectClaim(d) \/ DirectRelease(d) PROVE ClaimsMatchTasks'
  <2>1. \A j \in Jobs : Holds(j)' <=> Holds(j)
    BY <1>7 DEF DirectClaim, DirectRelease, Holds
  <2>2. CASE DirectClaim(d)
    BY <1>a, <1>b, <1>c, <2>1, <2>2 DEF DirectClaim
  <2>3. CASE DirectRelease(d)
    BY <1>a, <1>b, <1>c, <2>1, <2>3 DEF DirectRelease
  <2> QED BY <1>7, <2>2, <2>3
<1>8. CASE Exit
  <2>1. claimed' = {} /\ direct' = {} /\ \A j \in Jobs : ~Holds(j)'
    BY <1>8 DEF Exit, Holds
  <2> QED BY <1>c, <2>1
<1>9. CASE UNCHANGED <<pc, claimed, direct>>
  BY <1>1, <1>9 DEF Holds
<1>10. \/ UNCHANGED <<pc, claimed, direct>> \/ Exit
       \/ \E d \in Devices : DirectClaim(d) \/ DirectRelease(d)
       \/ \E j \in Jobs : CrossBoundary(j) \/ Moves(j) \/ Ends(j)
       \/ \E k \in Keys, p \in Plans, j \in Jobs : Reserved(k, p, j)
  BY NextShapes DEF CreatePlan, Cancel, Bystander, StoreOperation, BeginClose, CancelTasks,
     ReaperPass, EndClose, Restart, taskVars
<1> QED BY <1>4, <1>5, <1>6, <1>7, <1>8, <1>9, <1>10

\* No two tasks, and no task and a print outside the coordinator, work on one device,
\* and every way out of a task gives its device back: for any number of them.
THEOREM DevicesHeldOnce == Spec => []ClaimsMatchTasks
<1>1. Init => ClaimsMatchTasks
  BY DEF Init, ClaimsMatchTasks
<1>2. ASSUME JobsInv, ClaimsMatchTasks, [Next]_vars PROVE ClaimsMatchTasks'
  <2>1. CASE Next
    BY <1>2, <2>1, ClaimsKept DEF JobsInv
  <2>2. CASE UNCHANGED vars
    BY <1>2, <2>2 DEF vars, taskVars, planVars, jobVars, ClaimsMatchTasks, DeviceOf
  <2> QED BY <1>2, <2>1, <2>2
<1> QED BY <1>1, <1>2, JobsCorrect, PTL DEF Spec
----------------------------------------------------------------------------
(* Pins of plans and jobs, exactly.                                         *)

Own(o) == {q \in pins : q.owner = o}
PinsOf(o, ids) == {Pin(o, a) : a \in ids}
PlanExact(p) == Own(p) = IF plan[p] = "live" THEN PinsOf(p, sources[p]) ELSE {}
JobExact(j) == Own(j) = IF HoldsSources(j) THEN PinsOf(j, SourcesOf(j)) ELSE {}

\* An owner has the pins it is due and no others; only an uncertain delivery is
\* ever compacted.
PinsExact ==
  /\ \A p \in Plans : PlanExact(p)
  /\ \A j \in Jobs : JobExact(j)
  /\ \A j \in Jobs : compacted[j] => state[j] \in {"delivery_uncertain", "removed"}

LEMMA RepinnedOwn ==
  ASSUME NEW o, NEW ids, pins' = Repinned(o, ids, Null)
  PROVE  /\ Own(o)' = PinsOf(o, ids)
         /\ \A i : i # o => Own(i)' = Own(i)
BY DEF Repinned, Unpinned, Own, PinsOf, Pin

LEMMA UnpinnedOwn ==
  ASSUME NEW S, pins' = Unpinned(S)
  PROVE  \A o : Own(o)' = IF o \in S THEN {} ELSE Own(o)
BY DEF Unpinned, Own

LEMMA StoreStepOwn ==
  ASSUME StoreStep
  PROVE  \A o : o \notin Designs \cup Leases => Own(o)' = Own(o)
<1>1. ASSUME NEW o \in Designs \cup Leases, NEW ids, NEW exp, pins' = Repinned(o, ids, exp)
      PROVE  \A i : i \notin Designs \cup Leases => Own(i)' = Own(i)
  BY <1>1 DEF Repinned, Unpinned, Own
<1>2. ASSUME NEW o \in Designs, pins' = Unpinned({o})
      PROVE  \A i : i \notin Designs \cup Leases => Own(i)' = Own(i)
  BY <1>2 DEF Unpinned, Own
<1>3. \/ pins' = pins
      \/ \E o \in Designs \cup Leases, ids \in SUBSET Artifacts, exp \in {now + LeaseTTL, Null} :
           pins' = Repinned(o, ids, exp)
      \/ \E o \in Designs : pins' = Unpinned({o})
  BY DEF StoreStep, PutBegin, PutInstall, PutWriteFails, PutCommit, PinLease,
     SyncManagedAssets, DeleteDesign, ReapSelect, ReapDelete, ReapUnlink, ReapAbort, Tick
<1> QED BY <1>1, <1>2, <1>3 DEF Own

LEMMA PinsExactKept ==
  ASSUME TypeOK, RequestInv, PinsExact, Next
  PROVE  PinsExact'
<1>0. /\ plan \in [Plans -> {"none", "live", "removed"}]
      /\ sources \in [Plans -> SUBSET Artifacts]
      /\ state \in [Jobs -> JobStates] /\ jobPlan \in [Jobs -> Plans \cup {Null}]
      /\ compacted \in [Jobs -> BOOLEAN]
  BY TypeParts DEF PlanTypeOK, RowTypeOK
<1>a. \A j \in Jobs : state[j] # "none" => jobPlan[j] \in Plans /\ plan[jobPlan[j]] # "none"
  BY DEF RequestInv, ReceiptOK
<1>b. ASSUME NEW j \in Jobs, HoldsSources(j) PROVE state[j] # "none"
  BY <1>b DEF HoldsSources, ActiveStates
<1>c. \A p \in Plans, j \in Jobs : p # j
  OBVIOUS
<1> DEFINE Spared == \A j \in Jobs : compacted[j] => state[j] \in {"delivery_uncertain", "removed"}
<1>d. /\ \A p \in Plans : PlanExact(p)
      /\ \A j \in Jobs : JobExact(j)
      /\ Spared
  BY DEF PinsExact
\* What nobody writes stays exact, and so does an owner that gives everything up.
<1>1. ASSUME NEW p \in Plans, sources'[p] = sources[p],
             \/ Own(p)' = Own(p) /\ (plan'[p] = "live" <=> plan[p] = "live")
             \/ Own(p)' = {} /\ plan'[p] # "live"
      PROVE  PlanExact(p)'
  BY <1>1, <1>d DEF PlanExact, PinsOf, Pin
<1>2. ASSUME NEW j \in Jobs, HoldsSources(j)' => SourcesOf(j)' = SourcesOf(j),
             \/ Own(j)' = Own(j) /\ (HoldsSources(j)' <=> HoldsSources(j))
             \/ Own(j)' = {} /\ ~HoldsSources(j)'
      PROVE  JobExact(j)'
  BY <1>2, <1>d DEF JobExact, PinsOf, Pin
<1>3. ASSUME NEW p \in Plans, NEW ids \in SUBSET Artifacts, NEW d \in Devices,
             CreatePlan(p, ids, d)
      PROVE  PinsExact'
  <2>1. /\ UNCHANGED jobVars /\ plan[p] = "none"
        /\ plan' = [plan EXCEPT ![p] = "live"] /\ sources' = [sources EXCEPT ![p] = ids]
        /\ pins' = Repinned(p, ids, Null)
    BY <1>3 DEF CreatePlan
  <2>2. PlanExact(p)'
    BY <1>0, <2>1, RepinnedOwn DEF PlanExact, PinsOf, Pin
  <2>3. ASSUME NEW q \in Plans, q # p PROVE PlanExact(q)'
    BY <1>0, <1>1, <2>1, <2>3, RepinnedOwn
  <2>4. ASSUME NEW j \in Jobs PROVE JobExact(j)'
    <3>1. (HoldsSources(j)' <=> HoldsSources(j)) /\ Own(j)' = Own(j)
      BY <1>c, <2>1, RepinnedOwn DEF HoldsSources, jobVars
    <3>2. HoldsSources(j) => SourcesOf(j)' = SourcesOf(j)
      BY <1>0, <1>a, <1>b, <2>1 DEF SourcesOf, jobVars
    <3> QED BY <1>2, <3>1, <3>2
  <2> QED BY <1>d, <2>1, <2>2, <2>3, <2>4 DEF PinsExact, jobVars
<1>4. ASSUME NEW k \in Keys, NEW p \in Plans, NEW j \in Jobs, Reserved(k, p, j)
      PROVE  PinsExact'
  <2>1. /\ UNCHANGED <<plan, sources, compacted>> /\ jobPlan' = [jobPlan EXCEPT ![j] = p]
        /\ state[j] = "none"
        /\ \/ /\ state' = [state EXCEPT ![j] = "accepted"]
              /\ pins' = Repinned(j, sources[p], Null)
           \/ state' = [state EXCEPT ![j] = "failed_before_delivery"] /\ UNCHANGED pins
    BY <1>4 DEF Reserved, Reserve, planVars
  <2>2. ~HoldsSources(j) /\ ~compacted[j]
    BY <1>b, <1>d, <2>1
  <2>3. \A o : o # j => Own(o)' = Own(o)
    BY <2>1, RepinnedOwn DEF Own
  <2>4. ASSUME NEW q \in Plans PROVE PlanExact(q)'
    BY <1>1, <1>c, <2>1, <2>3
  <2>5. ASSUME NEW i \in Jobs, i # j PROVE JobExact(i)'
    <3>1. (HoldsSources(i)' <=> HoldsSources(i)) /\ SourcesOf(i)' = SourcesOf(i)
      BY <1>0, <2>1, <2>5 DEF HoldsSources, SourcesOf
    <3> QED BY <1>2, <2>3, <2>5, <3>1
  <2>6. JobExact(j)'
    <3>1. CASE state' = [state EXCEPT ![j] = "accepted"] /\ pins' = Repinned(j, sources[p], Null)
      <4>1. HoldsSources(j)' /\ SourcesOf(j)' = sources[p]
        BY <1>0, <2>1, <3>1 DEF HoldsSources, ActiveStates, SourcesOf
      <4> QED BY <3>1, <4>1, RepinnedOwn DEF JobExact, PinsOf, Pin
    <3>2. CASE state' = [state EXCEPT ![j] = "failed_before_delivery"] /\ UNCHANGED pins
      <4>1. ~HoldsSources(j)' /\ Own(j)' = Own(j)
        BY <1>0, <3>2 DEF HoldsSources, ActiveStates, Own
      <4> QED BY <1>2, <2>2, <4>1
    <3> QED BY <2>1, <3>1, <3>2
  <2>7. Spared'
    BY <1>0, <1>d, <2>1, <2>2
  <2> QED BY <2>4, <2>5, <2>6, <2>7 DEF PinsExact
<1>5. ASSUME NEW j \in Jobs, Cancel(j) \/ Ends(j) \/ Moves(j) \/ CrossBoundary(j)
      PROVE  PinsExact'
  <2>1. UNCHANGED <<plan, sources, jobPlan, compacted>>
    BY <1>5 DEF Cancel, Ends, Moves, CrossBoundary, TaskUnchanged, planVars, jobVars
  <2>2. \/ UNCHANGED <<state, pins>>
        \/ /\ state[j] = "accepted" /\ state' = [state EXCEPT ![j] = "sending"] /\ UNCHANGED pins
        \/ /\ state[j] = "sending" /\ state' = [state EXCEPT ![j] = "delivery_uncertain"]
           /\ UNCHANGED pins
        \/ \E to \in TerminalStates \ {"delivery_uncertain"} :
             /\ state[j] \in ActiveStates
             /\ state' = [state EXCEPT ![j] = to] /\ pins' = Unpinned({j})
    <3>1. CASE Cancel(j)
      BY <3>1 DEF Cancel, Settle, TerminalStates, ActiveStates
    <3>2. CASE Ends(j)
      BY <3>2 DEF Ends, Settlement, TerminalStates, ActiveStates
    <3>3. CASE Moves(j) \/ CrossBoundary(j)
      BY <3>3 DEF Moves, CrossBoundary, storeVars, jobVars
    <3> QED BY <1>5, <3>1, <3>2, <3>3
  <2>3. \A i \in Jobs : SourcesOf(i)' = SourcesOf(i)
    BY <2>1 DEF SourcesOf
  <2>4. ASSUME UNCHANGED pins, \A i \in Jobs : HoldsSources(i)' <=> HoldsSources(i)
        PROVE  (\A p \in Plans : PlanExact(p)') /\ (\A i \in Jobs : JobExact(i)')
    BY <1>1, <1>2, <2>1, <2>3, <2>4 DEF Own
  <2>5. CASE UNCHANGED <<state, pins>>
    BY <1>d, <2>1, <2>4, <2>5 DEF PinsExact, HoldsSources
  <2>6. CASE /\ state[j] = "accepted" /\ state' = [state EXCEPT ![j] = "sending"] /\ UNCHANGED pins
    BY <1>0, <1>d, <2>1, <2>4, <2>6 DEF PinsExact, HoldsSources, ActiveStates
  <2>7. CASE /\ state[j] = "sending" /\ state' = [state EXCEPT ![j] = "delivery_uncertain"]
             /\ UNCHANGED pins
    BY <1>0, <1>d, <2>1, <2>4, <2>7 DEF PinsExact, HoldsSources, ActiveStates
  <2>8. ASSUME NEW to \in TerminalStates \ {"delivery_uncertain"},
               state[j] \in ActiveStates,
               state' = [state EXCEPT ![j] = to], pins' = Unpinned({j})
        PROVE  PinsExact'
    <3>1. ~HoldsSources(j)' /\ Own(j)' = {}
      BY <1>0, <2>8, UnpinnedOwn DEF HoldsSources, ActiveStates, TerminalStates
    <3>2. \A o : o # j => Own(o)' = Own(o)
      BY <2>8, UnpinnedOwn
    <3>3. \A i \in Jobs : i # j => (HoldsSources(i)' <=> HoldsSources(i))
      BY <1>0, <2>1, <2>8 DEF HoldsSources
    <3>4. ASSUME NEW i \in Jobs PROVE JobExact(i)'
      BY <1>2, <2>3, <3>1, <3>2, <3>3
    <3>5. ASSUME NEW p \in Plans PROVE PlanExact(p)'
      BY <1>1, <1>c, <2>1, <3>2
    <3>6. Spared'
      BY <1>0, <1>d, <2>1, <2>8 DEF ActiveStates
    <3> QED BY <3>4, <3>5, <3>6 DEF PinsExact
  <2> QED BY <2>2, <2>5, <2>6, <2>7, <2>8
<1>6. CASE Bystander
  <2>1. UNCHANGED <<plan, sources, jobPlan, state, compacted>>
    BY <1>6 DEF Bystander, StoreOperation, DirectClaim, DirectRelease, BeginClose,
       CancelTasks, planVars, jobVars
  <2>2. \A o : o \notin Designs \cup Leases => Own(o)' = Own(o)
    <3>1. CASE StoreOperation
      BY <3>1, StoreStepOwn DEF StoreOperation
    <3>2. CASE ~StoreOperation
      BY <1>6, <3>2 DEF Bystander, DirectClaim, DirectRelease, BeginClose, CancelTasks,
         storeVars, Own
    <3> QED BY <3>1, <3>2
  <2>3. ASSUME NEW p \in Plans PROVE PlanExact(p)'
    BY <1>1, <2>1, <2>2
  <2>4. ASSUME NEW j \in Jobs PROVE JobExact(j)'
    BY <1>2, <2>1, <2>2 DEF HoldsSources, SourcesOf
  <2> QED BY <1>d, <2>1, <2>3, <2>4 DEF PinsExact
<1>7. CASE ReaperPass
  <2>1. /\ UNCHANGED <<sources, jobPlan>>
        /\ plan' = [p \in Plans |-> IF p \in ExpiredPlans THEN "removed" ELSE plan[p]]
        /\ compacted' = [j \in Jobs |-> compacted[j] \/ j \in Compactable]
        /\ state' = [j \in Jobs |-> IF j \in Retired THEN "removed" ELSE state[j]]
        /\ pins' = {q \in Unpinned(ExpiredPlans \cup Compactable \cup Retired) : LiveAt(q, now)}
    BY <1>7 DEF ReaperPass, ReapBeginFrom
  <2>2. ExpiredPlans \subseteq Plans /\ Compactable \cup Retired \subseteq Jobs
    BY DEF ExpiredPlans, Compactable, Retired
  <2>3. \A o, ids : \A q \in PinsOf(o, ids) : LiveAt(q, now)
    BY DEF PinsOf, Pin, LiveAt
  <2>4. ASSUME NEW o, \A q \in Own(o) : LiveAt(q, now)
        PROVE  Own(o)' = IF o \in ExpiredPlans \cup Compactable \cup Retired THEN {} ELSE Own(o)
    BY <2>1, <2>4 DEF Own, Unpinned
  <2>5. ASSUME NEW p \in Plans PROVE PlanExact(p)'
    <3>1. \A q \in Own(p) : LiveAt(q, now)
      BY <1>d, <2>3 DEF PlanExact
    <3>2. p \notin Compactable \cup Retired
      BY <2>2
    <3> QED BY <1>1, <2>1, <2>4, <3>1, <3>2
  <2>6. ASSUME NEW j \in Jobs PROVE JobExact(j)'
    <3>1. \A q \in Own(j) : LiveAt(q, now)
      BY <1>d, <2>3 DEF JobExact
    <3>2. j \notin ExpiredPlans
      BY <2>2
    <3>3. SourcesOf(j)' = SourcesOf(j)
      BY <2>1 DEF SourcesOf
    <3>4. CASE j \in Compactable \cup Retired
      <4>1. Own(j)' = {}
        BY <2>4, <3>1, <3>4
      <4>2. ~HoldsSources(j)'
        BY <1>0, <2>1, <3>4 DEF HoldsSources, ActiveStates, Retired, Compactable, TerminalStates
      <4> QED BY <1>2, <3>3, <4>1, <4>2
    <3>5. CASE j \notin Compactable \cup Retired
      <4>1. Own(j)' = Own(j)
        BY <2>4, <3>1, <3>2, <3>5
      <4>2. HoldsSources(j)' <=> HoldsSources(j)
        BY <1>0, <2>1, <3>5 DEF HoldsSources
      <4> QED BY <1>2, <3>3, <4>1, <4>2
    <3> QED BY <3>4, <3>5
  <2>7. Spared'
    BY <1>0, <1>d, <2>1 DEF Compactable, Retired
  <2> QED BY <2>5, <2>6, <2>7 DEF PinsExact
<1>8. CASE EndClose \/ Restart
  <2>1. /\ UNCHANGED <<plan, sources, jobPlan, compacted>>
        /\ \E S \in SUBSET Jobs : SettleAll(S)
    BY <1>8 DEF EndClose, Restart, Tasks, planVars
  <2>2. PICK S \in SUBSET Jobs : SettleAll(S)
    BY <2>1
  <2>3. \A j \in Jobs : SourcesOf(j)' = SourcesOf(j)
    BY <2>1 DEF SourcesOf
  <2>4. \A o : Own(o)' = IF o \in {j \in S : state[j] = "accepted"} THEN {} ELSE Own(o)
    <3>1. pins' = Unpinned({j \in S : state[j] = "accepted"})
      BY <2>2 DEF SettleAll
    <3> QED BY <3>1, UnpinnedOwn
  <2>5. ASSUME NEW p \in Plans PROVE PlanExact(p)'
    BY <1>1, <1>c, <2>1, <2>4
  <2>6. ASSUME NEW j \in Jobs PROVE JobExact(j)'
    <3>1. CASE j \in S /\ state[j] = "accepted"
      <4>1. ~HoldsSources(j)'
        BY <1>0, <2>2, <3>1 DEF SettleAll, HoldsSources, ActiveStates
      <4> QED BY <1>2, <2>3, <2>4, <3>1, <4>1
    <3>2. CASE ~(j \in S /\ state[j] = "accepted")
      <4>1. HoldsSources(j)' <=> HoldsSources(j)
        BY <1>0, <1>d, <2>1, <2>2, <3>2 DEF SettleAll, HoldsSources, ActiveStates
      <4> QED BY <1>2, <2>3, <2>4, <3>2, <4>1
    <3> QED BY <3>1, <3>2
  <2>7. Spared'
    BY <1>0, <1>d, <2>1, <2>2 DEF SettleAll
  <2> QED BY <2>5, <2>6, <2>7 DEF PinsExact
<1>9. CASE Exit
  <2>1. UNCHANGED <<plan, sources, jobPlan, state, compacted, pins>>
    BY <1>9 DEF Exit, planVars, jobVars
  <2> QED BY <1>1, <1>2, <1>d, <2>1 DEF PinsExact, HoldsSources, SourcesOf, Own
<1> QED BY <1>3, <1>4, <1>5, <1>6, <1>7, <1>8, <1>9, NextShapes

LEMMA PinsExactAlways == Spec => []PinsExact
<1>1. Init => PinsExact
  BY DEF Init, StoreInit, PinsExact, PlanExact, JobExact, Own, HoldsSources, ActiveStates
<1>2. ASSUME JobsInv, PinsExact, [Next]_vars PROVE PinsExact'
  <2>1. CASE Next
    BY <1>2, <2>1, PinsExactKept DEF JobsInv
  <2>2. CASE UNCHANGED vars
    <3>1. UNCHANGED <<pins, plan, sources, jobPlan, state, compacted>>
      BY <2>2 DEF vars, storeVars, planVars, jobVars
    <3> QED BY <1>2, <3>1 DEF PinsExact, PlanExact, JobExact, Own, PinsOf, Pin, HoldsSources,
               SourcesOf
  <2> QED BY <1>2, <2>1, <2>2
<1> QED BY <1>1, <1>2, JobsCorrect, PTL DEF Spec

\* A plan holds its sources until it is removed, a job until it ends or, when its
\* delivery is uncertain, until it is compacted: no pin is lost or left behind,
\* whatever cancels, expires, fails or restarts.
THEOREM PinsAreExact == Spec => []PinsFollowOwners
<1>1. PinsExact => PinsFollowOwners
  <2>1. ASSUME NEW o, NEW ids PROVE {q.art : q \in PinsOf(o, ids)} = ids
    <3>1. \A a : Pin(o, a).art = a
      BY DEF Pin
    <3>2. \A a \in ids : Pin(o, a) \in PinsOf(o, ids)
      BY DEF PinsOf
    <3>3. \A q \in PinsOf(o, ids) : \E a \in ids : q = Pin(o, a)
      BY DEF PinsOf
    <3> QED BY <3>1, <3>2, <3>3
  <2> QED BY <2>1 DEF PinsExact, PlanExact, JobExact, Own, PinsFollowOwners
<1> QED BY <1>1, PinsExactAlways, PTL

\* What an uncertain delivery may have printed can be looked at for the whole
\* forensic period.
THEOREM EvidenceIsKept == Spec => UncertainSourcesRetained
<1> DEFINE Uncertain(j) ==
      \/ state[j] = "delivery_uncertain" /\ now < completedAt[j] + UncertainPinRetention
      \/ state'[j] = "delivery_uncertain" /\ now < completedAt'[j] + UncertainPinRetention
<1>1. ASSUME JobsInv, PinsExact, PinsExact', [Next]_vars, NEW j \in Jobs, Uncertain(j)
      PROVE  Own(j) \subseteq pins'
  <2>0. /\ state \in [Jobs -> JobStates] /\ compacted \in [Jobs -> BOOLEAN]
        /\ completedAt \in [Jobs -> Nat] /\ now \in Nat
    BY <1>1, TypeParts, ClockAdvances DEF JobsInv, RowTypeOK, TypeOK, StoreTypeOK
  <2>1. CASE UNCHANGED vars
    BY <2>1 DEF vars, storeVars, Own
  <2>2. CASE Next
    <3>1. CASE ~HoldsSources(j)
      BY <1>1, <3>1 DEF PinsExact, JobExact, Own
    <3>2. CASE HoldsSources(j) /\ HoldsSources(j)'
      <4>1. state[j] # "none"
        BY <3>2 DEF HoldsSources, ActiveStates
      <4>2. jobPlan'[j] = jobPlan[j] /\ sources'[jobPlan[j]] = sources[jobPlan[j]]
        <5>1. \A k \in Keys, p \in Plans : ~Reserved(k, p, j)
          BY <4>1 DEF Reserved, Reserve
        <5>2. jobPlan'[j] = jobPlan[j]
          BY <1>1, <2>2, <5>1, RowMoves DEF JobsInv, RowMove
        <5>3. jobPlan[j] \in Plans /\ plan[jobPlan[j]] # "none" /\ sources \in [Plans -> SUBSET Artifacts]
          BY <1>1, <4>1, TypeParts DEF JobsInv, RequestInv, ReceiptOK, PlanTypeOK
        <5>4. \/ UNCHANGED sources
              \/ \E p \in Plans, ids \in SUBSET Artifacts, d \in Devices : CreatePlan(p, ids, d)
          BY <1>1, <2>2, NextShapes DEF JobsInv, Reserved, Reserve, Cancel, Ends, Moves, CrossBoundary,
             TaskUnchanged, Bystander, StoreOperation, DirectClaim, DirectRelease, BeginClose,
             CancelTasks, EndClose, Exit, Restart, ReaperPass, planVars
        <5>5. sources'[jobPlan[j]] = sources[jobPlan[j]]
          BY <5>3, <5>4 DEF CreatePlan
        <5> QED BY <5>2, <5>5
      <4>3. Own(j)' = Own(j)
        BY <1>1, <3>2, <4>2 DEF PinsExact, JobExact, SourcesOf, PinsOf, Pin
      <4> QED BY <4>3 DEF Own
    <3>3. CASE HoldsSources(j) /\ ~HoldsSources(j)'
      <4>1. CASE ReaperPass
        <5>1. /\ state' = [i \in Jobs |-> IF i \in Retired THEN "removed" ELSE state[i]]
              /\ compacted' = [i \in Jobs |-> compacted[i] \/ i \in Compactable]
              /\ UNCHANGED <<completedAt, now>>
          BY <4>1 DEF ReaperPass, ReapBeginFrom
        <5>2. j \in Retired \/ j \in Compactable
          BY <2>0, <3>3, <5>1 DEF HoldsSources
        <5>3. state[j] = "delivery_uncertain"
          BY <2>0, <3>3, <5>2 DEF HoldsSources, Retired, Compactable, ActiveStates, TerminalStates
        <5>4. completedAt[j] + UncertainPinRetention <= now
          <6>1. CASE j \in Compactable
            BY <6>1 DEF Compactable
          <6>2. CASE j \in Retired
            <7>1. completedAt[j] + TerminalRetention <= now
              BY <6>2 DEF Retired
            <7> QED BY <2>0, <7>1
          <6> QED BY <5>2, <6>1, <6>2
        <5>5. completedAt'[j] = completedAt[j]
          BY <5>1
        <5> QED BY <1>1, <2>0, <5>4, <5>5
      <4>2. CASE ~ReaperPass
        <5>1. compacted'[j] = compacted[j]
          BY <1>1, <2>2, <4>2, NextShapes DEF JobsInv, CreatePlan, Reserved, Reserve, Cancel, Ends, Moves,
             CrossBoundary, TaskUnchanged, Bystander, StoreOperation, DirectClaim, DirectRelease,
             BeginClose, CancelTasks, EndClose, Exit, Restart, jobVars
        <5>2. RowMove(j)
          <6>1. \A k \in Keys, p \in Plans : ~Reserved(k, p, j)
            BY <3>3 DEF Reserved, Reserve, HoldsSources, ActiveStates
          <6> QED BY <1>1, <2>2, <6>1, RowMoves DEF JobsInv
        <5>3. CASE state[j] \in ActiveStates
          <6>1. state'[j] # "delivery_uncertain"
            BY <1>1, <3>3, <5>1, <5>3 DEF HoldsSources, PinsExact, ActiveStates
          <6> QED BY <1>1, <5>3, <6>1 DEF ActiveStates
        <5>4. CASE state[j] \notin ActiveStates
          <6>1. state[j] = "delivery_uncertain" /\ ~compacted[j]
            BY <3>3, <5>4 DEF HoldsSources
          <6>2. state'[j] = "removed" /\ completedAt[j] + TerminalRetention <= now
            BY <3>3, <5>1, <5>2, <5>4, <6>1 DEF RowMove, HoldsSources
          <6> QED BY <1>1, <2>0, <6>2
        <5> QED BY <5>3, <5>4
      <4> QED BY <4>1, <4>2
    <3> QED BY <3>1, <3>2, <3>3
  <2> QED BY <1>1, <2>1, <2>2
<1>2. JobsInv /\ PinsExact /\ PinsExact' /\ [Next]_vars =>
        [\A j \in Jobs :
           \/ state[j] = "delivery_uncertain" /\ now < completedAt[j] + UncertainPinRetention
           \/ state'[j] = "delivery_uncertain" /\ now < completedAt'[j] + UncertainPinRetention
           => {q \in pins : q.owner = j} \subseteq pins']_vars
  BY <1>1 DEF Own
<1> QED BY <1>2, JobsCorrect, PinsExactAlways, PTL DEF Spec, UncertainSourcesRetained

----------------------------------------------------------------------------
(* Tasks and active jobs.                                                   *)

\* Before the delivery boundary a job is not sending, and past it not accepted.
StageInv ==
  \A j \in Jobs :
    /\ pc[j] \in {"ready", "scanning"} => state[j] # "sending"
    /\ pc[j] \notin {"none", "ready", "scanning"} => state[j] # "accepted"

BoundInv == IsFiniteSet(Tasks) /\ TasksBounded

\* What a task leaves behind is settled, when no write fails.
LEMMA EndsSettled ==
  ASSUME MaxFaults = 0, TypeOK, StageInv, NEW j \in Jobs, TaskStep(j)
  PROVE  \/ Moves(j) \/ CrossBoundary(j)
         \/ Ends(j) /\ state'[j] \notin ActiveStates
<1>0. faults \in Nat /\ state \in [Jobs -> JobStates] /\ outcome \in [Jobs -> Outcomes]
  BY TypeParts DEF RowTypeOK, TaskTypeOK
<1>1. ~(faults < MaxFaults) /\ ~(faults + 1 <= MaxFaults) /\ ~(faults + 2 <= MaxFaults)
  BY <1>0
<1>a. \A n : WriteFails(n) => faults + n <= MaxFaults
  BY DEF WriteFails
<1>2. ~WriteFails(1) /\ ~WriteFails(2)
  BY <1>1, <1>a
<1>3. ASSUME FailBeforeDelivery(j), state[j] # "sending"
      PROVE  state'[j] \notin ActiveStates
  BY <1>0, <1>2, <1>3 DEF FailBeforeDelivery, Written, Settle, ActiveStates
<1>4. ASSUME SettleCancelled(j) PROVE state'[j] \notin ActiveStates
  BY <1>0, <1>2, <1>4 DEF SettleCancelled, Written, Settle, ActiveStates
<1>5. ASSUME MarkUncertain(j) \/ MarkSubmitted(j), state[j] # "accepted"
      PROVE  state'[j] \notin ActiveStates
  BY <1>0, <1>1, <1>2, <1>5 DEF MarkUncertain, MarkSubmitted, Written, Settle, ActiveStates
<1>6. ASSUME AdmissionBusy(j) \/ SourcesUnreadable(j) \/ PreparationFails(j)
      PROVE  state'[j] \notin ActiveStates
  <2>1. pc[j] \in {"ready", "scanning"} /\ FailBeforeDelivery(j)
    BY <1>6 DEF AdmissionBusy, SourcesUnreadable, PreparationFails, Abandon, Admitted,
       AtBoundary, Running
  <2> QED BY <1>3, <2>1 DEF StageInv
<1>7. ASSUME BoundaryConflict(j) \/ BoundaryNotPersisted(j)
      PROVE  state'[j] \notin ActiveStates
  <2>1. pc[j] \in {"ready", "scanning"} /\ state[j] # "accepted" /\ state' = state
    BY <1>0, <1>1, <1>7 DEF BoundaryConflict, BoundaryNotPersisted, AtBoundary, Admitted, Running
  <2> QED BY <2>1 DEF StageInv, ActiveStates
<1>8. ASSUME ScanCancelled(j)
      PROVE  state'[j] \notin ActiveStates
  BY <1>4, <1>8 DEF ScanCancelled
<1>9. ASSUME Finish(j)
      PROVE  state'[j] \notin ActiveStates
  <2>1. pc[j] = "disconnecting" /\ (MarkUncertain(j) \/ MarkSubmitted(j) \/ SettleCancelled(j))
    BY <1>9 DEF Finish, Running
  <2> QED BY <1>4, <1>5, <2>1 DEF StageInv
<1>10. CASE BeginScan(j) \/ Connected(j) \/ Printed(j) \/ DeliveryFails(j) \/ DeliveryCancelled(j)
  <2>1. ~Ends(j)
    BY <1>10, TypeParts DEF BeginScan, Connected, Printed, DeliveryFails, DeliveryCancelled,
       Disconnect, Ends, EndTask, TaskTypeOK, Running, Admitted
  <2> QED BY <2>1, TaskShapes
<1> QED BY TaskShapes, <1>6, <1>7, <1>8, <1>9, <1>10 DEF TaskStep

LEMMA StageKept ==
  ASSUME TypeOK, ProgressInv, StageInv, Next
  PROVE  StageInv'
<1>0. pc \in [Jobs -> TaskStates] /\ state \in [Jobs -> JobStates]
  BY TypeParts DEF RowTypeOK, TaskTypeOK
<1>1. ASSUME NEW i \in Jobs, pc'[i] = pc[i] \/ pc'[i] = "none",
             state'[i] = state[i] \/ state'[i] \notin ActiveStates
      PROVE  /\ pc'[i] \in {"ready", "scanning"} => state'[i] # "sending"
             /\ pc'[i] \notin {"none", "ready", "scanning"} => state'[i] # "accepted"
  BY <1>1 DEF StageInv, ActiveStates
<1>2. ASSUME NEW k \in Keys, NEW p \in Plans, NEW j \in Jobs, Reserved(k, p, j)
      PROVE  StageInv'
  <2>1. /\ pc[j] = "none"
        /\ pc' = pc \/ pc' = [pc EXCEPT ![j] = "ready"]
        /\ \/ state' = [state EXCEPT ![j] = "accepted"]
           \/ state' = [state EXCEPT ![j] = "failed_before_delivery"]
    BY <1>2 DEF Reserved, Reserve, ProgressInv
  <2> QED BY <1>0, <2>1 DEF StageInv
<1>3. ASSUME NEW j \in Jobs, CrossBoundary(j) \/ Moves(j) PROVE StageInv'
  <2>1. CASE CrossBoundary(j)
    BY <1>0, <2>1 DEF CrossBoundary, StageInv
  <2>2. CASE Moves(j)
    <3>1. /\ state' = state
          /\ \/ pc[j] = "ready" /\ pc' = [pc EXCEPT ![j] = "scanning"]
             \/ /\ pc[j] \in {"connecting", "printing"}
                /\ \/ pc' = [pc EXCEPT ![j] = "printing"]
                   \/ pc' = [pc EXCEPT ![j] = "disconnecting"]
      BY <2>2 DEF Moves, BeginScan, Connected, Printed, DeliveryFails, DeliveryCancelled,
         Disconnect, Running, Admitted, jobVars
    <3> QED BY <1>0, <3>1 DEF StageInv
  <2> QED BY <1>3, <2>1, <2>2
<1>4. ASSUME NEW j \in Jobs, Cancel(j) \/ Ends(j) PROVE StageInv'
  <2>1. \A i \in Jobs : /\ pc'[i] = pc[i] \/ pc'[i] = "none"
                        /\ state'[i] = state[i] \/ state'[i] \notin ActiveStates
    BY <1>0, <1>4 DEF Cancel, Ends, EndTask, Settle, Settlement, ActiveStates, TerminalStates,
       taskVars
  <2> QED BY <1>1, <2>1 DEF StageInv
<1>5. CASE EndClose \/ Exit \/ Restart \/ ReaperPass
  <2>1. \A i \in Jobs : /\ pc'[i] = pc[i] \/ pc'[i] = "none"
                        /\ state'[i] = state[i] \/ state'[i] \notin ActiveStates
    BY <1>0, <1>5 DEF EndClose, Exit, Restart, ReaperPass, SettleAll, ActiveStates, taskVars,
       jobVars
  <2> QED BY <1>1, <2>1 DEF StageInv
<1>6. CASE UNCHANGED <<pc, state>>
  BY <1>6 DEF StageInv
<1>7. (\E p \in Plans, ids \in SUBSET Artifacts, d \in Devices : CreatePlan(p, ids, d))
        \/ Bystander => UNCHANGED <<pc, state>>
  BY DEF CreatePlan, Bystander, StoreOperation, DirectClaim, DirectRelease, BeginClose,
     CancelTasks, jobVars, taskVars
<1> QED BY <1>2, <1>3, <1>4, <1>5, <1>6, <1>7, NextShapes

\* A step starts at most one task, and only below the limit.
LEMMA BoundKept ==
  ASSUME TypeOK, BoundInv, Next
  PROVE  BoundInv'
<1>0. pc \in [Jobs -> TaskStates]
  BY TypeParts DEF TaskTypeOK
<1>1. ASSUME Tasks' \subseteq Tasks PROVE BoundInv'
  <2>1. /\ IsFiniteSet(Tasks') /\ Cardinality(Tasks') <= Cardinality(Tasks)
        /\ Cardinality(Tasks) \in Nat /\ Cardinality(Tasks') \in Nat
    BY <1>1, FS_Subset, FS_CardinalityType DEF BoundInv
  <2> QED BY <2>1 DEF BoundInv, TasksBounded
<1>2. ASSUME NEW k \in Keys, NEW p \in Plans, NEW j \in Jobs, Start(k, p, j) PROVE BoundInv'
  <2>1. Tasks' \subseteq Tasks \cup {j} /\ Cardinality(Tasks) < MaxActive
    BY <1>0, <1>2 DEF Start, Tasks
  <2>2. /\ IsFiniteSet(Tasks \cup {j}) /\ Cardinality(Tasks) \in Nat
        /\ Cardinality(Tasks \cup {j}) <= Cardinality(Tasks) + 1
    <3>1. IsFiniteSet(Tasks) /\ Cardinality(Tasks) \in Nat
      BY FS_CardinalityType DEF BoundInv
    <3>2. /\ IsFiniteSet(Tasks \cup {j})
          /\ Cardinality(Tasks \cup {j}) =
               IF j \in Tasks THEN Cardinality(Tasks) ELSE Cardinality(Tasks) + 1
      BY <3>1, FS_AddElement
    <3> QED BY <3>1, <3>2
  <2>3. /\ IsFiniteSet(Tasks') /\ Cardinality(Tasks') <= Cardinality(Tasks \cup {j})
        /\ Cardinality(Tasks \cup {j}) \in Nat /\ Cardinality(Tasks') \in Nat
    BY <2>1, <2>2, FS_Subset, FS_CardinalityType
  <2> QED BY <2>1, <2>2, <2>3 DEF BoundInv, TasksBounded
<1>3. ASSUME NEW j \in Jobs, TaskStep(j) PROVE Tasks' \subseteq Tasks
  <2>1. pc[j] # "none" /\ \A i \in Jobs : i # j => pc'[i] = pc[i]
    BY <1>0, <1>3, TaskShapes DEF Ends, EndTask, CrossBoundary, AtBoundary, Moves, BeginScan,
       Connected, Printed, DeliveryFails, DeliveryCancelled, Disconnect, Admitted, Running
  <2> QED BY <2>1 DEF Tasks
<1>4. \/ Tasks' \subseteq Tasks
      \/ \E k \in Keys, p \in Plans, j \in Jobs : Start(k, p, j)
  <2>1. CASE \E j \in Jobs : TaskStep(j)
    BY <1>3, <2>1
  <2>2. CASE Exit
    BY <2>2 DEF Exit, Tasks
  <2>3. CASE UNCHANGED pc
    BY <2>3 DEF Tasks
  <2>4. ASSUME NEW k \in Keys, NEW p \in Plans, NEW j \in Jobs, StartBusy(k, p, j)
        PROVE  UNCHANGED pc
    BY <2>4 DEF StartBusy
  <2> QED BY <2>1, <2>2, <2>3, <2>4 DEF Next, StoreOperation, CreatePlan, Cancel, DirectClaim,
             DirectRelease, ReaperPass, BeginClose, CancelTasks, EndClose, Restart, taskVars
<1> QED BY <1>1, <1>2, <1>4

LEMMA ActiveKept ==
  ASSUME MaxFaults = 0, TypeOK, StageInv, ActiveJobsHaveTasks, Next
  PROVE  ActiveJobsHaveTasks'
<1>0. /\ pc \in [Jobs -> TaskStates] /\ state \in [Jobs -> JobStates] /\ faults \in Nat
  BY TypeParts DEF RowTypeOK, TaskTypeOK
<1>1. ASSUME process' = "up" => process = "up",
             \A i \in Jobs : \/ state'[i] \notin ActiveStates
                             \/ state[i] \in ActiveStates /\ pc'[i] = pc[i]
                             \/ pc'[i] # "none"
      PROVE  ActiveJobsHaveTasks'
  BY <1>1 DEF ActiveJobsHaveTasks
<1>2. ASSUME NEW k \in Keys, NEW p \in Plans, NEW j \in Jobs,
             Start(k, p, j) \/ StartBusy(k, p, j)
      PROVE  ActiveJobsHaveTasks'
  <2>1. /\ UNCHANGED process
        /\ \/ /\ state' = [state EXCEPT ![j] = "accepted"]
              /\ pc' = [pc EXCEPT ![j] = "ready"]
           \/ /\ state' = [state EXCEPT ![j] = "failed_before_delivery"]
              /\ UNCHANGED pc
    BY <1>0, <1>2 DEF Start, StartBusy, Reserve
  <2> QED BY <1>0, <1>1, <2>1 DEF ActiveStates
<1>3. ASSUME NEW j \in Jobs, TaskStep(j) PROVE ActiveJobsHaveTasks'
  <2>1. CASE Moves(j) \/ CrossBoundary(j)
    <3>1. /\ UNCHANGED process /\ pc'[j] # "none"
          /\ \A i \in Jobs : i # j => state'[i] = state[i] /\ pc'[i] = pc[i]
      BY <1>0, <2>1 DEF Moves, CrossBoundary, BeginScan, Connected, Printed, DeliveryFails,
         DeliveryCancelled, Disconnect, TaskUnchanged, jobVars, ActiveStates
    <3> QED BY <1>1, <3>1
  <2>2. CASE Ends(j) /\ state'[j] \notin ActiveStates
    <3>1. /\ UNCHANGED process
          /\ \A i \in Jobs : i # j => state'[i] = state[i] /\ pc'[i] = pc[i]
      BY <1>0, <2>2 DEF Ends, EndTask, Settlement
    <3> QED BY <1>1, <2>2, <3>1
  <2> QED BY <1>3, <2>1, <2>2, EndsSettled
<1>4. ASSUME NEW j \in Jobs, Cancel(j) PROVE ActiveJobsHaveTasks'
  <2>1. /\ UNCHANGED <<process, pc>> /\ state'[j] \notin ActiveStates
        /\ \A i \in Jobs : i # j => state'[i] = state[i]
    BY <1>0, <1>4 DEF Cancel, Settle, taskVars, ActiveStates
  <2> QED BY <1>1, <2>1
<1>5. CASE Restart
  <2>1. \A i \in Jobs : state'[i] \notin ActiveStates
    BY <1>0, <1>5 DEF Restart, SettleAll, ActiveStates
  <2> QED BY <2>1 DEF ActiveJobsHaveTasks
<1>6. CASE ReaperPass
  <2>1. /\ UNCHANGED <<process, pc>>
        /\ \A i \in Jobs : state'[i] = state[i] \/ state'[i] = "removed"
    BY <1>6 DEF ReaperPass, taskVars
  <2> QED BY <1>1, <2>1 DEF ActiveStates
<1>7. CASE BeginClose \/ EndClose \/ Exit
  BY <1>7 DEF BeginClose, EndClose, Exit, ActiveJobsHaveTasks
<1>8. CASE UNCHANGED <<pc, state>> /\ (process' = "up" => process = "up")
  BY <1>1, <1>8
<1>9. \/ UNCHANGED <<pc, state>> /\ (process' = "up" => process = "up")
      \/ \E k \in Keys, p \in Plans, j \in Jobs : Start(k, p, j) \/ StartBusy(k, p, j)
      \/ \E j \in Jobs : TaskStep(j) \/ Cancel(j)
      \/ Restart \/ ReaperPass \/ BeginClose \/ EndClose \/ Exit
  BY DEF Next, StoreOperation, CreatePlan, DirectClaim, DirectRelease, CancelTasks, taskVars,
     jobVars
<1> QED BY <1>2, <1>3, <1>4, <1>5, <1>6, <1>7, <1>8, <1>9

LEMMA StageAlways == Spec => [](StageInv /\ BoundInv)
<1>1. Init => StageInv /\ BoundInv
  <2>1. ASSUME Init PROVE StageInv
    BY <2>1 DEF Init, StageInv
  <2>2. ASSUME Init PROVE BoundInv
    <3>1. Tasks = {}
      BY <2>2 DEF Init, Tasks
    <3>2. MaxActive \in Nat
      OBVIOUS
    <3> QED BY <3>1, <3>2, FS_EmptySet DEF BoundInv, TasksBounded
  <2> QED BY <2>1, <2>2
<1>2. ASSUME JobsInv, StageInv, BoundInv, [Next]_vars PROVE (StageInv /\ BoundInv)'
  <2>1. CASE Next
    BY <1>2, <2>1, StageKept, BoundKept DEF JobsInv
  <2>2. CASE UNCHANGED vars
    BY <1>2, <2>2 DEF vars, taskVars, jobVars, StageInv, BoundInv, TasksBounded, Tasks
  <2> QED BY <1>2, <2>1, <2>2
<1> QED BY <1>1, <1>2, JobsCorrect, PTL DEF Spec

\* Tasks and active jobs stay accounted for in each other while no write of the
\* database fails: a job that is accepted or sending has a task that will settle it,
\* and there are never more tasks than max_active, for any number of jobs.
THEOREM TasksAreAccountedFor ==
  ASSUME MaxFaults = 0
  PROVE  Spec => []TasksFollowJobs
<1>1. Init => ActiveJobsHaveTasks
  BY DEF Init, ActiveJobsHaveTasks, ActiveStates
<1>2. ASSUME JobsInv, StageInv, ActiveJobsHaveTasks, [Next]_vars PROVE ActiveJobsHaveTasks'
  <2>1. CASE Next
    BY <1>2, <2>1, ActiveKept DEF JobsInv
  <2>2. CASE UNCHANGED vars
    BY <1>2, <2>2 DEF vars, taskVars, jobVars, ActiveJobsHaveTasks
  <2> QED BY <1>2, <2>1, <2>2
<1>3. BoundInv /\ ActiveJobsHaveTasks => TasksFollowJobs
  BY DEF BoundInv, TasksFollowJobs
<1> QED BY <1>1, <1>2, <1>3, JobsCorrect, StageAlways, PTL DEF Spec
=============================================================================
