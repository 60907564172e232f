----------------------------- MODULE PrintJobs -----------------------------
(***************************************************************************)
(* services/print_jobs.py: the durable print-job coordinator, composed     *)
(* with the artifact store it pins its sources in, the per-device          *)
(* admission of printing/admission.py, the claimed executor of             *)
(* services/print_executor.py and the process life of api/main.py.         *)
(*                                                                         *)
(* Durable state (plans, jobs, pins) survives a crash; tasks, admission    *)
(* claims and the cancellation requests of close() do not.  Every handler  *)
(* runs on the one event-loop thread, so a handler is one action up to its *)
(* next await, and no handler runs while a store operation of that thread  *)
(* is in progress (`op` # "idle").                                         *)
(*                                                                         *)
(* A member of Keys stands for a (principal, idempotency key) pair, and a  *)
(* plan for its id together with the hash of its frozen manifest.          *)
(***************************************************************************)
EXTENDS ArtifactStore

CONSTANTS
  Plans, Jobs,            \* the fresh uuids of plans and jobs; also pin owners
  Keys,
  Devices,                \* canonical device addresses
  MaxActive,              \* max_active
  PlanTTL,                \* _DEFAULT_PLAN_TTL_SECONDS
  UncertainPinRetention,  \* _UNCERTAIN_PIN_RETENTION_SECONDS
  TerminalRetention,      \* _TERMINAL_RETENTION_SECONDS
  MaxFaults               \* bound on failed database writes

\* "plan:", "job:", "design:" and "preview:" owners never collide.
ASSUME PrintJobsAssumption ==
  /\ Plans \cup Jobs \subseteq Owners
  /\ Plans \cap Jobs = {}
  /\ (Plans \cup Jobs) \cap (Designs \cup Leases) = {}
  /\ MaxActive \in Nat \ {0}
  /\ PlanTTL \in Nat /\ UncertainPinRetention \in Nat /\ TerminalRetention \in Nat
  /\ PlanTTL <= TerminalRetention
  /\ UncertainPinRetention <= TerminalRetention
  /\ MaxFaults \in Nat

VARIABLES
  \* PrintPlanRecord
  plan,         \* "none", "live" or "removed"
  sources,      \* source_artifacts of the frozen manifest
  device,       \* canonical printer_address of the frozen manifest
  expires,      \* expires_at
  \* PrintJobRecord
  state,        \* the job's state; "none" before, "removed" after the row exists
  key, jobPlan, \* idempotency reservation and plan_id
  completedAt,  \* completed_at
  compacted,    \* forensic_compacted
  \* volatile
  pc,           \* where the job's asyncio task is; "none" when there is none
  outcome,      \* how the delivery ended, while the task disconnects
  interrupted,  \* tasks close() has cancelled
  claimed,      \* DeviceAdmission._claimed_addresses
  direct,       \* the claims held by prints that bypass the coordinator
  process,      \* life of the server process
  \* bookkeeping of the model
  effect,       \* what the printer may have received for the job
  faults        \* failed database writes so far

planVars == <<plan, sources, device, expires>>
jobVars == <<state, key, jobPlan, completedAt, compacted>>
taskVars == <<pc, outcome, interrupted, claimed, direct, process>>
storeRest == <<now, rows, files, temps, expiry, open, op, hot, doomed, reapAt>>
vars == <<storeVars, planVars, jobVars, taskVars, effect, faults>>

ActiveStates == {"accepted", "sending"}
TerminalStates == {"submitted", "failed_before_delivery",
                   "cancelled_before_delivery", "delivery_uncertain"}
JobStates == {"none", "removed"} \cup ActiveStates \cup TerminalStates
TaskStates == {"none", "ready", "scanning", "connecting", "printing", "disconnecting"}
Outcomes == {"none", "ok", "error", "cancelled"}
Effects == {"none", "touched", "partial", "complete"}
ProcessStates == {"up", "closing", "cancelling", "closed", "down"}

HasRow(j) == state[j] \notin {"none", "removed"}
Tasks == {j \in Jobs : pc[j] # "none"}
DeviceOf(j) == device[jobPlan[j]]
SourcesOf(j) == sources[jobPlan[j]]
Serving == process = "up" /\ op = "idle"
Running(j, at) == pc[j] = at /\ op = "idle" /\ process # "down"
Readable(ids) == open /\ ids \subseteq rows \cap files

----------------------------------------------------------------------------
(* Conditional updates: UPDATE .. WHERE state = from, then unpin when a row *)
(* changed, in one transaction.                                             *)

Settle(j, from, to, unpin) ==
  IF state[j] = from
    THEN /\ state' = [state EXCEPT ![j] = to]
         /\ completedAt' = [completedAt EXCEPT ![j] = now]
         /\ pins' = IF unpin THEN Unpinned({j}) ELSE pins
    ELSE UNCHANGED <<state, completedAt, pins>>

\* A write that raises OperationalError changes nothing.
WriteFails(n) ==
  /\ faults + n <= MaxFaults
  /\ faults' = faults + n
  /\ UNCHANGED <<state, completedAt, pins>>

Written(write) == write /\ UNCHANGED faults

\* _fail_before_delivery: an error here ends the task and leaves the row.
FailBeforeDelivery(j) ==
  \/ Written(Settle(j, "accepted", "failed_before_delivery", TRUE))
  \/ WriteFails(1)

\* Slip checked against UncertainSourcesRetained: the sources are released with
\* the task, as for a submitted job.
MarkUncertainReleasing(j) == Written(Settle(j, "sending", "delivery_uncertain", TRUE))

MarkUncertain(j) ==
  \/ Written(Settle(j, "sending", "delivery_uncertain", FALSE))
  \/ WriteFails(1)

\* A receipt that cannot be persisted makes the delivery uncertain.
MarkSubmitted(j) ==
  \/ Written(Settle(j, "sending", "submitted", TRUE))
  \/ /\ faults < MaxFaults /\ faults' = faults + 1
     /\ Settle(j, "sending", "delivery_uncertain", FALSE)
  \/ WriteFails(2)

SettleCancelled(j) ==
  \/ Written(IF state[j] = "accepted"
               THEN Settle(j, "accepted", "cancelled_before_delivery", TRUE)
               ELSE Settle(j, "sending", "delivery_uncertain", FALSE))
  \/ WriteFails(1)

\* Slip checked against ClaimsMatchTasks: only a delivery gives its claim back.
EndTaskKeepingClaim(j) ==
  /\ pc' = [pc EXCEPT ![j] = "none"]
  /\ outcome' = [outcome EXCEPT ![j] = "none"]
  /\ interrupted' = interrupted \ {j}
  /\ claimed' = IF pc[j] # "disconnecting" THEN claimed ELSE claimed \ {DeviceOf(j)}
  /\ UNCHANGED <<direct, process>>

\* The task ends and DeviceAdmission.claim() exits, if it was entered.
EndTask(j) ==
  /\ pc' = [pc EXCEPT ![j] = "none"]
  /\ outcome' = [outcome EXCEPT ![j] = "none"]
  /\ interrupted' = interrupted \ {j}
  /\ claimed' = IF pc[j] = "ready" THEN claimed ELSE claimed \ {DeviceOf(j)}
  /\ UNCHANGED <<direct, process>>

----------------------------------------------------------------------------
(* Requests.                                                                *)

CreatePlan(p, ids, d) ==
  /\ Serving
  /\ plan[p] = "none" /\ ids # {} /\ Readable(ids)
  /\ plan' = [plan EXCEPT ![p] = "live"]
  /\ sources' = [sources EXCEPT ![p] = ids]
  /\ device' = [device EXCEPT ![p] = d]
  /\ expires' = [expires EXCEPT ![p] = now + PlanTTL]
  /\ pins' = Repinned(p, ids, Null)
  /\ UNCHANGED <<storeRest, jobVars, taskVars, effect, faults>>

\* start, when the key has no row yet.  (When it has one, start answers from
\* that row or reports idempotency_conflict, and changes nothing.)
Reserve(k, p, j) ==
  /\ Serving
  /\ state[j] = "none"
  /\ \A i \in Jobs : HasRow(i) => key[i] # k
  /\ plan[p] = "live" /\ now < expires[p] /\ Readable(sources[p])
  /\ key' = [key EXCEPT ![j] = k]
  /\ jobPlan' = [jobPlan EXCEPT ![j] = p]
  /\ UNCHANGED <<storeRest, planVars, compacted, outcome, interrupted, claimed,
                 direct, process, effect>>

\* Slips checked against SourcesKept and TasksFollowJobs: the job relies on the
\* plan's pins, and slots are counted by rows instead of tasks.
StartUnpinned(k, p, j) ==
  /\ Reserve(k, p, j)
  /\ Cardinality(Tasks) < MaxActive
  /\ state' = [state EXCEPT ![j] = "accepted"]
  /\ pc' = [pc EXCEPT ![j] = "ready"]
  /\ UNCHANGED <<pins, completedAt, faults>>

StartByRows(k, p, j) ==
  /\ Reserve(k, p, j)
  /\ Cardinality({i \in Jobs : state[i] \in ActiveStates}) < MaxActive
  /\ state' = [state EXCEPT ![j] = "accepted"]
  /\ pins' = Repinned(j, sources[p], Null)
  /\ pc' = [pc EXCEPT ![j] = "ready"]
  /\ UNCHANGED <<completedAt, faults>>

Start(k, p, j) ==
  /\ Reserve(k, p, j)
  /\ Cardinality(Tasks) < MaxActive
  /\ state' = [state EXCEPT ![j] = "accepted"]
  /\ pins' = Repinned(j, sources[p], Null)
  /\ pc' = [pc EXCEPT ![j] = "ready"]
  /\ UNCHANGED <<completedAt, faults>>

\* No free slot: the reservation is committed and then failed, unless that
\* second write is the one that fails.
StartBusy(k, p, j) ==
  /\ Reserve(k, p, j)
  /\ Cardinality(Tasks) >= MaxActive
  /\ \/ /\ state' = [state EXCEPT ![j] = "failed_before_delivery"]
        /\ completedAt' = [completedAt EXCEPT ![j] = now]
        /\ UNCHANGED <<pins, faults>>
     \/ /\ faults < MaxFaults /\ faults' = faults + 1
        /\ state' = [state EXCEPT ![j] = "accepted"]
        /\ pins' = Repinned(j, sources[p], Null)
        /\ UNCHANGED completedAt
  /\ UNCHANGED pc

\* Slip checked against PinsFollowOwners: the pins are left behind.
CancelKeepingPins(j) ==
  /\ Serving /\ state[j] = "accepted"
  /\ Settle(j, "accepted", "cancelled_before_delivery", FALSE)
  /\ UNCHANGED <<storeRest, planVars, key, jobPlan, compacted, taskVars, effect, faults>>

\* cancel changes the row only; the task finds out at the delivery boundary.
Cancel(j) ==
  /\ Serving /\ state[j] = "accepted"
  /\ Settle(j, "accepted", "cancelled_before_delivery", TRUE)
  /\ UNCHANGED <<storeRest, planVars, key, jobPlan, compacted, taskVars, effect, faults>>

\* A print with frozen settings claims its device and bypasses the coordinator.
DirectClaim(d) ==
  /\ Serving /\ d \notin claimed
  /\ claimed' = claimed \cup {d} /\ direct' = direct \cup {d}
  /\ UNCHANGED <<storeVars, planVars, jobVars, pc, outcome, interrupted, process,
                 effect, faults>>

DirectRelease(d) ==
  /\ d \in direct /\ op = "idle" /\ process # "down"
  /\ claimed' = claimed \ {d} /\ direct' = direct \ {d}
  /\ UNCHANGED <<storeVars, planVars, jobVars, pc, outcome, interrupted, process,
                 effect, faults>>
----------------------------------------------------------------------------
(* The executor task (_run_job around execute_owned_print_jobs).            *)

TaskUnchanged == UNCHANGED <<storeRest, planVars, key, jobPlan, compacted>>

\* Up to the boundary nothing has been sent: any failure fails the job.
Abandon(j) == FailBeforeDelivery(j) /\ EndTask(j) /\ TaskUnchanged /\ UNCHANGED effect

AdmissionBusy(j) ==
  /\ Running(j, "ready") /\ DeviceOf(j) \in claimed
  /\ Abandon(j)

\* The first step runs without an await from the claim through the reading of
\* the sources and, when the device is in the scan cache, to the boundary.
Admitted(j) == Running(j, "ready") /\ DeviceOf(j) \notin claimed

SourcesUnreadable(j) ==
  /\ Admitted(j) /\ ~Readable(SourcesOf(j))
  /\ Abandon(j)

BeginScan(j) ==
  /\ Admitted(j) /\ Readable(SourcesOf(j))
  /\ pc' = [pc EXCEPT ![j] = "scanning"]
  /\ claimed' = claimed \cup {DeviceOf(j)}
  /\ TaskUnchanged
  /\ UNCHANGED <<state, completedAt, pins, outcome, interrupted, direct, process,
                 effect, faults>>

AtBoundary(j) ==
  \/ Admitted(j) /\ Readable(SourcesOf(j))
  \/ Running(j, "scanning")

\* Device not found, changed hardware, unsupported model, rejected image.
PreparationFails(j) == AtBoundary(j) /\ Abandon(j)

\* Slip checked against ReceiptsAreTrue: the row count of the conditional update
\* is ignored.
CrossUnnoticed(j) ==
  /\ AtBoundary(j)
  /\ state' = [state EXCEPT ![j] = IF @ = "accepted" THEN "sending" ELSE @]
  /\ pc' = [pc EXCEPT ![j] = "connecting"]
  /\ claimed' = claimed \cup {DeviceOf(j)}
  /\ effect' = [effect EXCEPT ![j] = "touched"]
  /\ TaskUnchanged
  /\ UNCHANGED <<completedAt, pins, outcome, interrupted, direct, process, faults>>

\* _mark_sending succeeds, and the client starts connecting before any other
\* handler can run.
CrossBoundary(j) ==
  /\ AtBoundary(j) /\ state[j] = "accepted"
  /\ state' = [state EXCEPT ![j] = "sending"]
  /\ pc' = [pc EXCEPT ![j] = "connecting"]
  /\ claimed' = claimed \cup {DeviceOf(j)}
  /\ effect' = [effect EXCEPT ![j] = "touched"]
  /\ TaskUnchanged
  /\ UNCHANGED <<completedAt, pins, outcome, interrupted, direct, process, faults>>

\* job_state_conflict: the row is no longer accepted.
BoundaryConflict(j) ==
  /\ AtBoundary(j) /\ state[j] # "accepted"
  /\ EndTask(j) /\ TaskUnchanged
  /\ UNCHANGED <<state, completedAt, pins, effect, faults>>

\* _mark_sending raises database_busy: the job is failed, if that write works.
BoundaryNotPersisted(j) ==
  /\ AtBoundary(j) /\ state[j] = "accepted" /\ faults < MaxFaults
  /\ \/ /\ faults' = faults + 1
        /\ Settle(j, "accepted", "failed_before_delivery", TRUE)
     \/ WriteFails(2)
  /\ EndTask(j) /\ TaskUnchanged /\ UNCHANGED effect

ScanCancelled(j) ==
  /\ Running(j, "scanning") /\ j \in interrupted
  /\ SettleCancelled(j) /\ EndTask(j) /\ TaskUnchanged /\ UNCHANGED effect

Connected(j) ==
  /\ Running(j, "connecting")
  /\ pc' = [pc EXCEPT ![j] = "printing"]
  /\ effect' = [effect EXCEPT ![j] = "partial"]
  /\ UNCHANGED <<storeVars, planVars, jobVars, outcome, interrupted, claimed, direct,
                 process, faults>>

\* connect or print_images ends; the client is disconnected in every case.
Disconnect(j, how) ==
  /\ pc' = [pc EXCEPT ![j] = "disconnecting"]
  /\ outcome' = [outcome EXCEPT ![j] = how]
  /\ UNCHANGED <<storeVars, planVars, jobVars, interrupted, claimed, direct, process,
                 faults>>

Printed(j) ==
  /\ Running(j, "printing")
  /\ effect' = [effect EXCEPT ![j] = "complete"]
  /\ Disconnect(j, "ok")

DeliveryFails(j) ==
  /\ Running(j, "connecting") \/ Running(j, "printing")
  /\ Disconnect(j, "error") /\ UNCHANGED effect

DeliveryCancelled(j) ==
  /\ Running(j, "connecting") \/ Running(j, "printing")
  /\ j \in interrupted
  /\ Disconnect(j, "cancelled") /\ UNCHANGED effect

\* A cancellation that arrives while disconnecting is raised once the
\* disconnect is drained, even after a delivery that succeeded.
Finish(j) ==
  /\ Running(j, "disconnecting")
  /\ \/ outcome[j] = "ok" /\ MarkSubmitted(j)
     \/ outcome[j] = "error" /\ MarkUncertain(j)
     \/ outcome[j] = "cancelled" /\ SettleCancelled(j)
     \/ j \in interrupted /\ SettleCancelled(j)
  /\ EndTask(j) /\ TaskUnchanged /\ UNCHANGED effect

----------------------------------------------------------------------------
(* The 30 s reaper: PrintJobCoordinator.reap, then ArtifactStore.reap.      *)

ExpiredPlans == {p \in Plans : plan[p] = "live" /\ expires[p] <= now}
Compactable ==
  {j \in Jobs : /\ state[j] = "delivery_uncertain" /\ ~compacted[j]
                /\ completedAt[j] + UncertainPinRetention <= now}
\* Slip checked against AtMostOncePerRequest: receipts are dropped at once.
RetiredAtOnce == {j \in Jobs : state[j] \in TerminalStates}

Retired ==
  {j \in Jobs : /\ state[j] \in TerminalStates
                /\ completedAt[j] + TerminalRetention <= now}

ReaperPass ==
  /\ process \in {"up", "closing", "cancelling"}
  /\ plan' = [p \in Plans |-> IF p \in ExpiredPlans THEN "removed" ELSE plan[p]]
  /\ compacted' = [j \in Jobs |-> compacted[j] \/ j \in Compactable]
  /\ state' = [j \in Jobs |-> IF j \in Retired THEN "removed" ELSE state[j]]
  /\ ReapBeginFrom(Unpinned(ExpiredPlans \cup Compactable \cup Retired))
  /\ UNCHANGED <<sources, device, expires, key, jobPlan, completedAt, taskVars,
                 effect, faults>>

----------------------------------------------------------------------------
(* Process life.  close(): refuse new work, wait, cancel, wait, mark.       *)

\* Slips checked against DeliverySpec and JobsSettle: an
\* interrupted delivery is reported as cancelled; only deliveries are settled.
CancelAll(S) ==
  LET active == {j \in S : state[j] \in ActiveStates}
  IN  /\ state' = [j \in Jobs |->
                     IF j \in active THEN "cancelled_before_delivery" ELSE state[j]]
      /\ completedAt' = [j \in Jobs |-> IF j \in active THEN now ELSE completedAt[j]]
      /\ pins' = Unpinned(active)

SettleSendingOnly(S) ==
  LET sending == {j \in S : state[j] = "sending"}
  IN  /\ state' = [j \in Jobs |->
                     IF j \in sending THEN "delivery_uncertain" ELSE state[j]]
      /\ completedAt' = [j \in Jobs |-> IF j \in sending THEN now ELSE completedAt[j]]
      /\ UNCHANGED pins

\* Every job in S that is still active is settled in one transaction.
SettleAll(S) ==
  LET accepted == {j \in S : state[j] = "accepted"}
      sending  == {j \in S : state[j] = "sending"}
  IN  /\ state' = [j \in Jobs |->
                     IF j \in accepted THEN "cancelled_before_delivery"
                     ELSE IF j \in sending THEN "delivery_uncertain"
                     ELSE state[j]]
      /\ completedAt' = [j \in Jobs |->
                           IF j \in accepted \cup sending THEN now ELSE completedAt[j]]
      /\ pins' = Unpinned(accepted)

BeginClose ==
  /\ Serving /\ Tasks # {}
  /\ process' = "closing"
  /\ UNCHANGED <<storeVars, planVars, jobVars, pc, outcome, interrupted, claimed,
                 direct, effect, faults>>

\* A second passes and some tasks are not done.  (Their first steps are: they
\* were in the loop's ready queue before the timer.)
CancelTasks ==
  /\ process = "closing" /\ op = "idle" /\ Tasks # {}
  /\ \A j \in Jobs : pc[j] # "ready"
  /\ process' = "cancelling" /\ interrupted' = Tasks
  /\ UNCHANGED <<storeVars, planVars, jobVars, pc, outcome, claimed, direct, effect,
                 faults>>

\* close() returns, and main.py closes the artifact store: at once when every
\* task is done, else after marking what the tasks left behind.
EndClose ==
  /\ \/ process = "up" /\ Tasks = {}
     \/ process = "closing" /\ Tasks = {}
     \/ process = "cancelling"
  /\ op = "idle"
  /\ SettleAll(Tasks)
  /\ process' = "closed" /\ open' = FALSE
  /\ UNCHANGED <<now, rows, files, temps, expiry, op, hot, doomed, reapAt, planVars,
                 key, jobPlan, compacted, pc, outcome, interrupted, claimed, direct,
                 effect, faults>>

\* The process exits or is killed.
Exit ==
  /\ process # "down"
  /\ process' = "down" /\ open' = FALSE
  /\ ReleaseLock
  /\ pc' = [j \in Jobs |-> "none"] /\ outcome' = [j \in Jobs |-> "none"]
  /\ interrupted' = {} /\ claimed' = {} /\ direct' = {}
  /\ UNCHANGED <<now, rows, files, temps, expiry, pins, planVars, jobVars, effect, faults>>

\* A new process: orphan cleanup of the store, then _recover_on_startup.
\* RuntimeLease admits one process per data directory.
Restart ==
  /\ process = "down"
  /\ process' = "up" /\ open' = TRUE
  /\ CleanOrphans
  /\ SettleAll(Jobs)
  /\ UNCHANGED <<now, rows, expiry, op, hot, doomed, reapAt, planVars, key, jobPlan,
                 compacted, pc, outcome, interrupted, claimed, direct, effect, faults>>

StoreOperation ==
  /\ StoreStep
  /\ UNCHANGED <<planVars, jobVars, taskVars, effect, faults>>

TaskStep(j) ==
  \/ AdmissionBusy(j) \/ SourcesUnreadable(j) \/ BeginScan(j)
  \/ PreparationFails(j) \/ CrossBoundary(j) \/ BoundaryConflict(j)
  \/ BoundaryNotPersisted(j) \/ ScanCancelled(j)
  \/ Connected(j) \/ Printed(j) \/ DeliveryFails(j) \/ DeliveryCancelled(j)
  \/ Finish(j)

Init ==
  /\ StoreInit
  /\ plan = [p \in Plans |-> "none"] /\ sources = [p \in Plans |-> {}]
  /\ device = [p \in Plans |-> Null] /\ expires = [p \in Plans |-> 0]
  /\ state = [j \in Jobs |-> "none"]
  /\ key = [j \in Jobs |-> Null] /\ jobPlan = [j \in Jobs |-> Null]
  /\ completedAt = [j \in Jobs |-> 0] /\ compacted = [j \in Jobs |-> FALSE]
  /\ pc = [j \in Jobs |-> "none"] /\ outcome = [j \in Jobs |-> "none"]
  /\ interrupted = {} /\ claimed = {} /\ direct = {}
  /\ process = "up"
  /\ effect = [j \in Jobs |-> "none"] /\ faults = 0

Next ==
  \/ StoreOperation
  \/ \E p \in Plans, ids \in SUBSET Artifacts, d \in Devices : CreatePlan(p, ids, d)
  \/ \E k \in Keys, p \in Plans, j \in Jobs : Start(k, p, j) \/ StartBusy(k, p, j)
  \/ \E j \in Jobs : Cancel(j)
  \/ \E d \in Devices : DirectClaim(d) \/ DirectRelease(d)
  \/ \E j \in Jobs : TaskStep(j)
  \/ ReaperPass
  \/ BeginClose \/ CancelTasks \/ EndClose \/ Exit \/ Restart

Spec == Init /\ [][Next]_vars

\* The event loop is fair to every ready task (its queue is FIFO and handlers
\* are bounded), the transports' deadlines end every await of a task, a store
\* operation that began runs on, and the server is started again.
FairSpec ==
  /\ Spec
  /\ \A j \in Jobs : SF_vars(TaskStep(j))
  /\ WF_vars(StoreOperation /\ op # "idle" /\ now' = now)
  /\ WF_vars(Restart)

----------------------------------------------------------------------------
(* Properties.                                                              *)

TypeOK ==
  /\ StoreTypeOK
  /\ plan \in [Plans -> {"none", "live", "removed"}]
  /\ sources \in [Plans -> SUBSET Artifacts]
  /\ device \in [Plans -> Devices \cup {Null}]
  /\ expires \in [Plans -> Nat]
  /\ state \in [Jobs -> JobStates]
  /\ key \in [Jobs -> Keys \cup {Null}]
  /\ jobPlan \in [Jobs -> Plans \cup {Null}]
  /\ completedAt \in [Jobs -> Nat]
  /\ compacted \in [Jobs -> BOOLEAN]
  /\ pc \in [Jobs -> TaskStates]
  /\ outcome \in [Jobs -> Outcomes]
  /\ interrupted \subseteq Jobs
  /\ claimed \subseteq Devices /\ direct \subseteq Devices
  /\ process \in ProcessStates
  /\ effect \in [Jobs -> Effects]
  /\ faults \in Nat

\* A job reported as failed or cancelled before delivery never reached the
\* printer, and never will: cancel, close(), recovery and the running task
\* race for the row, and only the winner of "accepted" may go on.
RefusedIsUntouched ==
  \A j \in Jobs :
    state[j] \in {"accepted", "failed_before_delivery", "cancelled_before_delivery"}
      => effect[j] = "none" /\ pc[j] \in {"none", "ready", "scanning"}

\* "submitted" is only claimed when print_images returned: an interrupted or
\* failed delivery is reported as uncertain, never as a success.
SubmittedIsComplete ==
  \A j \in Jobs : state[j] = "submitted" => effect[j] = "complete"

\* What a job's receipt tells its client is so: a refusal left the printer alone,
\* a success was a whole print.
ReceiptsAreTrue == RefusedIsUntouched /\ SubmittedIsComplete

\* One request (principal, key, plan hash) is never accepted twice, not after
\* a restart, and not after the reaper has dropped its receipt and freed the
\* key: by then the plan it names has expired.
AtMostOncePerRequest ==
  \A i, j \in Jobs :
    /\ i # j
    /\ state[i] # "none" /\ state[j] # "none"
    => <<key[i], jobPlan[i]>> # <<key[j], jobPlan[j]>>

\* Two tasks never work on one device, directly claimed devices included, and
\* a claim never outlives its task.
ClaimsMatchTasks ==
  LET holders == {j \in Jobs : pc[j] \notin {"none", "ready"}} IN
  /\ \A i, j \in holders : DeviceOf(i) = DeviceOf(j) => i = j
  /\ \A j \in holders : DeviceOf(j) \notin direct
  /\ claimed = direct \cup {DeviceOf(j) : j \in holders}

\* Pins follow the life of their owner exactly: a plan holds its sources until
\* it is removed, a job until it ends, or, when its delivery is uncertain,
\* until it is compacted.
HoldsSources(j) ==
  \/ state[j] \in ActiveStates
  \/ state[j] = "delivery_uncertain" /\ ~compacted[j]

PinsFollowOwners ==
  /\ \A p \in Plans :
       {q.art : q \in {r \in pins : r.owner = p}} =
         IF plan[p] = "live" THEN sources[p] ELSE {}
  /\ \A j \in Jobs :
       {q.art : q \in {r \in pins : r.owner = j}} =
         IF HoldsSources(j) THEN SourcesOf(j) ELSE {}

\* The frozen sources of a live plan and of an active or recently uncertain
\* job can be read back, whatever the reaper did meanwhile.
SourcesKept ==
  /\ \A p \in Plans : plan[p] = "live" => sources[p] \subseteq rows \cap files
  /\ \A j \in Jobs : HoldsSources(j) => SourcesOf(j) \subseteq rows \cap files

\* What makes these inductive.  A plan lives at most PlanTTL, and a receipt at
\* least as long after it: a job that left no row left no usable plan either.
ReceiptOK(j) ==
  /\ state[j] # "none" => jobPlan[j] \in Plans /\ plan[jobPlan[j]] # "none"
  /\ state[j] \in TerminalStates => expires[jobPlan[j]] <= completedAt[j] + PlanTTL
  /\ state[j] = "removed" => expires[jobPlan[j]] <= now

RequestInv ==
  /\ \A p \in Plans :
       plan[p] # "none" => expires[p] <= now + PlanTTL /\ device[p] \in Devices
  /\ \A j \in Jobs : ReceiptOK(j)

\* How far a task and the printer can be, given the row.
ProgressInv ==
  \A j \in Jobs :
    /\ pc[j] # "none" => state[j] # "none"
    /\ state[j] = "none" => effect[j] = "none"
    /\ state[j] = "submitted" => pc[j] = "none"
    /\ pc[j] = "connecting" => effect[j] = "touched"
    /\ pc[j] = "printing" => effect[j] = "partial"
    /\ outcome[j] = "ok" => effect[j] = "complete" /\ pc[j] = "disconnecting"

\* Every source that is held is pinned, without an expiry.
Pin(o, a) == [owner |-> o, art |-> a, exp |-> Null]
PinsCover ==
  /\ \A p \in Plans : plan[p] = "live" => \A a \in sources[p] : Pin(p, a) \in pins
  /\ \A j \in Jobs : HoldsSources(j) => \A a \in SourcesOf(j) : Pin(j, a) \in pins

ProcessInv == open <=> process \notin {"closed", "down"}

JobsInv ==
  /\ TypeOK /\ StoreInv /\ ProcessInv /\ RequestInv /\ ProgressInv /\ PinsCover
  /\ RefusedIsUntouched /\ SubmittedIsComplete /\ AtMostOncePerRequest

\* While the process serves, every active job has a task that will settle it;
\* a job without one would stay "accepted" or "sending" until a restart.
ActiveJobsHaveTasks ==
  process = "up" => \A j \in Jobs : state[j] \in ActiveStates => pc[j] # "none"

\* No more than max_active tasks, cancelled jobs whose task still runs included.
TasksBounded == Cardinality(Tasks) <= MaxActive

\* Tasks and active jobs are accounted for in each other: no job waits for a task
\* that is not there, and no task takes a slot beyond the limit.
TasksFollowJobs == ActiveJobsHaveTasks /\ TasksBounded

\* A settled outcome is final: it never changes, and its receipt is dropped
\* only after the retention period.
OutcomeIsFinal ==
  [][\A j \in Jobs :
       state[j] \in TerminalStates
         => \/ state'[j] = state[j] /\ completedAt'[j] = completedAt[j]
            \/ state'[j] = "removed" /\ completedAt[j] + TerminalRetention <= now]_vars

\* The sources of an uncertain delivery stay pinned for the forensic period, from
\* the step that declares it uncertain on.
UncertainSourcesRetained ==
  [][\A j \in Jobs :
       \/ state[j] = "delivery_uncertain" /\ now < completedAt[j] + UncertainPinRetention
       \/ state'[j] = "delivery_uncertain" /\ now < completedAt'[j] + UncertainPinRetention
       => {q \in pins : q.owner = j} \subseteq pins']_vars

\* With fair tasks, restarts and no failing database write, an active job is
\* eventually settled.
JobsSettle ==
  \A j \in Jobs : (state[j] \in ActiveStates) ~> (state[j] \notin ActiveStates)

\* The coordinator keeps the promise of PrintDelivery to its clients.
Delivery == INSTANCE PrintDelivery WITH Jobs <- Jobs, state <- state, effect <- effect
DeliverySpec == Delivery!Spec
=============================================================================
