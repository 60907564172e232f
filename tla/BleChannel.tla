----------------------------- MODULE BleChannel -----------------------------
(* What goes over a connected BLE socket (bleak_adapter.py and             *)
(* bleak_adapter_transport.py): standard payloads in chunks that may wait  *)
(* for the printer's flow control, waits for notifications, and control    *)
(* packets that expect one.  The loop of the socket runs only while the    *)
(* printing thread is inside a call; what the printer sends meanwhile      *)
(* waits for the next one.                                                 *)
EXTENDS Naturals, Sequences, SequencesExt

CONSTANTS
  BcChunks,      \* chunks of a payload
  BcHistory,     \* notifications that are kept
  BcCalls,       \* calls of the printing thread (bound)
  BcFrames,      \* what the printer sends (bound)
  BcTrouble      \* writes that fail (bound)

VARIABLES
  bcControlled,  \* flow_controlled_standard_write of the profile
  bcListening,   \* notify_started
  bcFlow,        \* flow_can_write
  bcJob,         \* the call of the printing thread: [at, kind, chunk]
  bcQueue,       \* notifications the loop has not taken yet
  bcHeard,       \* _notification_history
  bcRegistered,  \* its waiter is among _notification_waiters, not answered yet
  bcPast,        \* chunks written since the printer was found to pause
  bcLeft         \* [calls, frames, trouble] left

bcVars == <<bcControlled, bcListening, bcFlow, bcJob, bcQueue, bcHeard,
            bcRegistered, bcPast, bcLeft>>

BcKinds == {"status", "done"}
BcIdle == [at |-> "idle", kind |-> "none", chunk |-> 0]
BcInit ==
  /\ bcListening \in BOOLEAN /\ bcControlled \in {FALSE, bcListening}
  /\ bcFlow = TRUE /\ bcJob = BcIdle
  /\ bcQueue = <<>> /\ bcHeard = <<>> /\ bcRegistered = FALSE /\ bcPast = 0
  /\ bcLeft = [calls |-> BcCalls, frames |-> BcFrames, trouble |-> BcTrouble]

BcRuns == bcJob.at # "idle"
BcCall == bcJob.at = "idle" /\ bcLeft.calls > 0 /\ bcLeft' = [bcLeft EXCEPT !.calls = @ - 1]
BcFails == bcLeft.trouble > 0 /\ bcLeft' = [bcLeft EXCEPT !.trouble = @ - 1]
BcCounted == bcPast' = IF bcFlow \/ ~bcControlled THEN 0 ELSE bcPast + 1

-----------------------------------------------------------------------------
(* send_payload: the controller is told before and after, whatever happens.*)
BcSend ==
  /\ BcCall /\ bcJob' = [at |-> "checking", kind |-> "none", chunk |-> 1]
  /\ UNCHANGED <<bcControlled, bcListening, bcFlow, bcQueue, bcHeard, bcRegistered, bcPast>>
BcSendEnds == bcJob' = BcIdle

(* _wait_for_flow, before every chunk; then before_write, which may wait.  *)
BcFlowSeen ==
  /\ bcJob.at = "checking" /\ (bcControlled => bcFlow)
  /\ bcJob' = [bcJob EXCEPT !.at = "writing"]
  /\ UNCHANGED <<bcControlled, bcListening, bcFlow, bcQueue, bcHeard, bcRegistered,
                 bcPast, bcLeft>>
BcFlowTimeout ==
  /\ bcJob.at = "checking" /\ bcControlled /\ ~bcFlow /\ BcSendEnds
  /\ UNCHANGED <<bcControlled, bcListening, bcFlow, bcQueue, bcHeard, bcRegistered, bcPast, bcLeft>>

(* _write_chunks: write_gatt_char, and the next chunk.                     *)
BcWrite ==
  /\ bcJob.at = "writing"
  /\ \/ /\ BcCounted /\ UNCHANGED bcLeft
        /\ IF bcJob.chunk < BcChunks
           THEN bcJob' = [bcJob EXCEPT !.at = "checking", !.chunk = @ + 1]
           ELSE BcSendEnds
     \/ BcSendEnds /\ BcFails /\ UNCHANGED bcPast
  /\ UNCHANGED <<bcControlled, bcListening, bcFlow, bcQueue, bcHeard, bcRegistered>>

-----------------------------------------------------------------------------
(* wait_for_notification: the newest that matches, or the next one.        *)
BcWait(kind) ==
  LET known == {i \in DOMAIN bcHeard : bcHeard[i] = kind} IN
  /\ BcCall
  /\ IF known # {}
     THEN /\ bcHeard' = RemoveAt(bcHeard, CHOOSE i \in known : \A k \in known : k <= i)
          /\ UNCHANGED <<bcJob, bcRegistered>>
     ELSE IF ~bcListening THEN UNCHANGED <<bcHeard, bcJob, bcRegistered>>
     ELSE /\ bcJob' = [at |-> "waiting", kind |-> kind, chunk |-> 0]
          /\ bcRegistered' = TRUE /\ UNCHANGED bcHeard
  /\ UNCHANGED <<bcControlled, bcListening, bcFlow, bcQueue, bcPast>>

(* send_control_packet_wait_notification: the waiter is there before the   *)
(* packet is sent; the history is not looked at.                           *)
BcAsk(kind) ==
  /\ BcCall /\ bcListening
  /\ bcJob' = [at |-> "asking", kind |-> kind, chunk |-> 0]
  /\ bcRegistered' = TRUE
  /\ UNCHANGED <<bcControlled, bcListening, bcFlow, bcQueue, bcHeard, bcPast>>

(* send_control_packet: a control packet does not wait for the flow.       *)
BcSent ==
  /\ bcJob.at = "asking"
  /\ \/ bcJob' = [bcJob EXCEPT !.at = "expecting"] /\ UNCHANGED <<bcRegistered, bcLeft>>
     \/ bcJob' = BcIdle /\ bcRegistered' = FALSE /\ BcFails
  /\ UNCHANGED <<bcControlled, bcListening, bcFlow, bcQueue, bcHeard, bcPast>>

(* The wait ends: answered, or at its deadline.                            *)
BcWaited ==
  /\ bcJob.at \in {"waiting", "expecting"} /\ bcJob' = BcIdle /\ bcRegistered' = FALSE
  /\ UNCHANGED <<bcControlled, bcListening, bcFlow, bcQueue, bcHeard, bcPast, bcLeft>>

-----------------------------------------------------------------------------
(* handle_notification: control notifications are the controller's; others *)
(* go to the history, or to the waiter if they are what it waits for.      *)
BcKept(heard) == IF Len(heard) > BcHistory THEN Tail(heard) ELSE heard
BcNotify ==
  /\ BcRuns /\ bcQueue # <<>> /\ bcQueue' = Tail(bcQueue)
  /\ LET frame == Head(bcQueue)
         kept == BcKept(Append(bcHeard, frame))
     IN IF frame \in BcKinds
        THEN /\ IF bcRegistered /\ bcJob.kind = frame
                THEN bcHeard' = RemoveFirst(kept, frame) /\ bcRegistered' = FALSE
                ELSE bcHeard' = kept /\ UNCHANGED bcRegistered
             /\ UNCHANGED <<bcFlow, bcPast>>
        ELSE /\ bcFlow' = (frame = "resume")
             /\ bcPast' = (IF frame = "resume" THEN 0 ELSE bcPast)
             /\ UNCHANGED <<bcHeard, bcRegistered>>
  /\ UNCHANGED <<bcControlled, bcListening, bcJob, bcLeft>>

BcArrives(frame) ==
  /\ bcListening /\ bcLeft.frames > 0 /\ bcLeft' = [bcLeft EXCEPT !.frames = @ - 1]
  /\ bcQueue' = Append(bcQueue, frame)
  /\ UNCHANGED <<bcControlled, bcListening, bcFlow, bcJob, bcHeard, bcRegistered, bcPast>>

(* stop_notify_if_started between two calls: what waits is cancelled.      *)
BcClose ==
  /\ bcJob.at = "idle" /\ bcListening /\ bcListening' = FALSE
  /\ bcRegistered' = FALSE /\ bcHeard' = <<>> /\ bcQueue' = <<>>
  /\ bcLeft' = [bcLeft EXCEPT !.calls = 0]
  /\ UNCHANGED <<bcControlled, bcFlow, bcJob, bcPast>>

-----------------------------------------------------------------------------
BcStep == BcFlowSeen \/ BcFlowTimeout \/ BcWrite \/ BcSent \/ BcWaited \/ BcNotify
BcNext ==
  \/ BcStep \/ BcSend \/ BcClose
  \/ \E kind \in BcKinds : BcWait(kind) \/ BcAsk(kind)
  \/ \E frame \in BcKinds \cup {"pause", "resume"} : BcArrives(frame)

BcSpec == BcInit /\ [][BcNext]_bcVars /\ WF_bcVars(BcStep)

-----------------------------------------------------------------------------
(* Once the loop has taken a pause, one chunk may still go out, the one    *)
(* that was past its check.                                                *)
BcPauseHolds == bcControlled => bcPast <= 1

(* Nothing the printer has said is waited for: while a wait is registered, *)
(* no notification of its kind is in the history.                          *)
BcNothingMissed == bcJob.at = "waiting" /\ bcRegistered => bcJob.kind \notin Range(bcHeard)
BcEnded == bcJob.at = "idle"

-----------------------------------------------------------------------------
(* What holds between any two steps, from which both follow for every      *)
(* payload, history and call: a chunk that was past its check is counted   *)
(* when it is written, and the next one is not past it until the resume.   *)
BcJobs ==
  [at : {"idle", "checking", "writing", "waiting", "asking", "expecting"}, kind : BcKinds \cup {"none"}, chunk : Nat]
BcState ==
  /\ bcControlled \in BOOLEAN /\ bcListening \in BOOLEAN /\ bcFlow \in BOOLEAN /\ bcRegistered \in BOOLEAN
  /\ bcJob \in BcJobs
  /\ bcQueue \in Seq(BcKinds \cup {"pause", "resume"}) /\ bcHeard \in Seq(BcKinds)
BcFlowInv ==
  /\ bcPast \in {0, 1}
  /\ bcFlow \/ ~bcControlled \/ bcJob.at = "writing" => bcPast = 0
BcInv == BcState /\ BcFlowInv /\ BcNothingMissed
=============================================================================
