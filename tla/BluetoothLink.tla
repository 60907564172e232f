---------------------------- MODULE BluetoothLink ----------------------------
(* The connection of a printer client (transport/bluetooth/backend.py) and *)
(* the single reader of a Classic socket (classic_receive.py).  One worker *)
(* thread runs connect, close, write, query and wait, one at a time; the   *)
(* client's task may stop waiting for them at any moment and disconnect,   *)
(* which stops the reader from a thread of its own and queues the close    *)
(* behind what the worker is doing.  A native socket or reader whose close *)
(* fails stays owned and is closed again before another is opened.         *)
EXTENDS Integers, Sequences, SequencesExt, FiniteSetsExt

CONSTANTS
  BlAttempts,   \* endpoints tried by a connect, as a sequence of "classic" and "ble"
  BlChunks,     \* chunks of a write
  BlHistory,    \* frames the reader keeps (max_history_bytes)
  BlCalls,      \* calls of the client (bound)
  BlFrames,     \* frames the printer sends (bound)
  BlTrouble     \* connects, closes and reads that fail (bound)

BluetoothAssumption ==
  /\ BlAttempts \in Seq({"classic", "ble"}) /\ BlHistory \in Nat \ {0}
  /\ BlChunks \in Nat \ {0} /\ BlCalls \in Nat /\ BlFrames \in Nat /\ BlTrouble \in Nat
ASSUME BluetoothAssumption

VARIABLES
  blClient,     \* "idle", "waiting", "stopping", "closing"
  blJob,        \* of the worker: "none", "connect", "close", "write", "query", "wait"
  blStep,       \* of the job
  blQueued,     \* a close is queued behind the job
  blStopping,   \* the reader a disconnect stops
  blSock, blHub,        \* _sock and _classic_receive: an attempt, or 0
  blConnected, blAsked, \* _connected, _disconnect_requested
  blPaused,             \* ~_flow_resume_event
  blAt,                 \* the attempt or the chunk the job is at (a BLE payload is one)
  blOpen, blReaders,    \* native sockets open, and readers running
  blDown,       \* the reader has failed or is stopped
  blFrames,     \* what the reader has received, oldest first: "answer" or "event"
  blBase, blPassive,    \* _base_offset, _passive_offset
  blWaiter,     \* [from, end, failed] of the job's waiter
  blSentAt, blClaimed,  \* received when the query left; up to where the last wait took all (history)
  blMissed,     \* a wait has ended with nothing though its frame was there (history)
  blAfter,      \* sends that ended since a disconnect was asked for (history)
  blClosedWell, \* the last call was a disconnect, and it returned normally
  blCallsLeft, blLeft

blFlags == <<blConnected, blAsked, blPaused>>
blNative == <<blOpen, blReaders>>
blInbox == <<blDown, blFrames, blBase, blPassive, blWaiter>>
blHistoryVars == <<blSentAt, blClaimed, blMissed, blAfter, blClosedWell>>
blBudget == <<blCallsLeft, blLeft>>
blOwned == <<blSock, blHub, blStopping>>
blVars == <<blClient, blJob, blStep, blQueued, blOwned, blFlags, blAt, blNative, blInbox,
            blHistoryVars, blBudget>>

NoWaiter == [from |-> 0, end |-> 0, failed |-> FALSE]
BlTroubled == blLeft > 0 /\ blLeft' = blLeft - 1
BlEnd == Len(blFrames)

BlInit ==
  /\ blClient = "idle" /\ blJob = "none" /\ blStep = "" /\ blQueued = FALSE
  /\ blStopping = 0 /\ blSock = 0 /\ blHub = 0 /\ blConnected = FALSE /\ blAsked = FALSE /\ blPaused = FALSE
  /\ blAt = 0 /\ blOpen = {} /\ blReaders = {} /\ blDown = FALSE /\ blFrames = <<>>
  /\ blBase = 0 /\ blPassive = 0 /\ blWaiter = NoWaiter
  /\ blSentAt = 0 /\ blClaimed = 0 /\ blMissed = FALSE /\ blAfter = 0 /\ blClosedWell = FALSE
  /\ blCallsLeft = BlCalls /\ blLeft = BlTrouble

-----------------------------------------------------------------------------
(* The client's task                                                       *)

BlCall ==
  /\ blClient = "idle" /\ blJob = "none" /\ blCallsLeft > 0
  /\ blCallsLeft' = blCallsLeft - 1
  /\ blClient' = "waiting" /\ blJob' \in {"connect", "write", "query", "wait"} /\ blStep' = "begin"
  /\ blClosedWell' = FALSE
  /\ UNCHANGED <<blQueued, blOwned, blFlags, blAt, blNative, blInbox, blSentAt, blClaimed, blMissed,
                 blAfter, blLeft>>

(* disconnect(), also by a task that was cancelled while a job runs.       *)
BlDisconnect ==
  /\ blClient \in {"idle", "waiting"} /\ blCallsLeft > 0
  /\ blCallsLeft' = blCallsLeft - 1
  /\ blClient' = "stopping" /\ blStopping' = blHub
  /\ blConnected' = FALSE /\ blAsked' = TRUE /\ blPaused' = FALSE
  /\ blAfter' = 0 /\ blClosedWell' = FALSE
  /\ UNCHANGED <<blJob, blStep, blQueued, blSock, blHub, blAt, blNative, blInbox, blSentAt, blClaimed,
                 blMissed, blLeft>>

(* hub.stop() of classic_receive.py fails every waiter at once and joins   *)
(* the reader, which may outlast the join.                                 *)
BlHubStopped(hub, stopped) ==
  /\ blDown' = (blDown \/ (hub # 0 /\ hub = blHub))
  /\ blWaiter' = [blWaiter EXCEPT !.failed = @ \/ (blDown' /\ blWaiter.end = 0)]
  /\ blReaders' = IF stopped THEN blReaders \ {hub} ELSE blReaders

BlStopReader ==
  /\ blClient = "stopping" /\ blClient' = "closing"
  /\ \/ BlHubStopped(blStopping, TRUE) /\ UNCHANGED blLeft
     \/ blStopping # 0 /\ BlHubStopped(blStopping, FALSE) /\ BlTroubled
  /\ blQueued' = TRUE /\ blStopping' = 0
  /\ UNCHANGED <<blJob, blStep, blSock, blHub, blFlags, blAt, blOpen, blFrames, blBase, blPassive,
                 blHistoryVars, blCallsLeft>>

-----------------------------------------------------------------------------
(* The worker                                                              *)

(* A job ends: whoever waits for it goes on, and a queued close is next.   *)
BlJobEnds ==
  /\ blWaiter' = NoWaiter
  /\ IF blQueued THEN blJob' = "close" /\ blStep' = "begin" /\ blQueued' = FALSE
                 ELSE blJob' = "none" /\ blStep' = "" /\ UNCHANGED blQueued
  /\ blClient' = IF blClient = "waiting" THEN "idle" ELSE blClient

(* A worker with nothing to do takes the queued close.                     *)
BlTakeClose ==
  /\ blJob = "none" /\ blQueued /\ blJob' = "close" /\ blStep' = "begin" /\ blQueued' = FALSE
  /\ UNCHANGED <<blClient, blOwned, blFlags, blAt, blNative, blInbox, blHistoryVars, blBudget>>

(* _connect_attempts_blocking: nothing to do for a live connection; what   *)
(* an earlier close left is closed first.                                  *)
BlConnectBegin ==
  /\ blJob = "connect" /\ blStep = "begin"
  /\ IF blConnected THEN BlJobEnds /\ UNCHANGED <<blAsked, blPaused, blAt>>
     ELSE /\ blStep' = IF blSock # 0 \/ blHub # 0 THEN "clean" ELSE "open"
          /\ blAt' = 0 /\ blAsked' = FALSE /\ blPaused' = FALSE
          /\ UNCHANGED <<blClient, blJob, blQueued, blWaiter>>
  /\ UNCHANGED <<blOwned, blConnected, blNative, blDown, blFrames, blBase, blPassive,
                 blHistoryVars, blBudget>>

(* _connect_with_device: the candidate is owned before it is connected.    *)
BlOpenSocket ==
  /\ blJob = "connect" /\ blStep = "open" /\ blAt < Len(BlAttempts)
  /\ blAt' = blAt + 1 /\ blSock' = blAt + 1 /\ blOpen' = blOpen \cup {blAt + 1}
  /\ blAsked' = FALSE
  /\ \/ blStep' = "reader" /\ UNCHANGED blLeft
     \/ blStep' = "clean" /\ BlTroubled
  /\ UNCHANGED <<blClient, blJob, blQueued, blStopping, blHub, blConnected, blPaused, blReaders, blInbox,
                 blHistoryVars, blCallsLeft>>

BlStartReader ==
  /\ blJob = "connect" /\ blStep = "reader"
  /\ LET classic == BlAttempts[blAt] = "classic" IN
     /\ blHub' = IF classic THEN blAt ELSE blHub
     /\ blReaders' = IF classic THEN blReaders \cup {blAt} ELSE blReaders
  /\ blDown' = FALSE /\ blFrames' = <<>> /\ blBase' = 0 /\ blPassive' = 0
  /\ blSentAt' = 0 /\ blClaimed' = 0
  /\ \/ blConnected' = TRUE /\ BlJobEnds /\ UNCHANGED blLeft
     \/ blStep' = "clean" /\ BlTroubled /\ UNCHANGED <<blClient, blJob, blQueued, blWaiter, blConnected>>
  /\ UNCHANGED <<blSock, blStopping, blAsked, blPaused, blAt, blOpen, blMissed, blAfter, blClosedWell, blCallsLeft>>

(* A mutated form of BlDisconnectBlocking: the state is cleared whatever   *)
(* the closes did.                                                         *)
BlForgetConnection(hubStops, sockCloses) ==
  /\ blConnected' = FALSE /\ blPaused' = FALSE
  /\ blDown' = (blDown \/ blHub # 0)
  /\ blReaders' = IF hubStops THEN blReaders \ {blHub} ELSE blReaders
  /\ blHub' = 0
  /\ blOpen' = IF sockCloses THEN blOpen \ {blSock} ELSE blOpen
  /\ blSock' = 0

(* _disconnect_blocking, of a queued close, of the leftovers of an earlier *)
(* one, and of a candidate that failed: what cannot be closed stays owned. *)
BlDisconnectBlocking(hubStops, sockCloses) ==
  /\ blConnected' = FALSE /\ blPaused' = FALSE
  /\ blDown' = (blDown \/ blHub # 0)
  /\ blReaders' = IF hubStops THEN blReaders \ {blHub} ELSE blReaders
  /\ blHub' = IF hubStops THEN 0 ELSE blHub
  /\ blOpen' = IF sockCloses THEN blOpen \ {blSock} ELSE blOpen
  /\ blSock' = IF sockCloses THEN 0 ELSE blSock

BlCleanUp ==
  /\ blJob = "connect" /\ blStep = "clean"
  /\ \E hubStops, sockCloses \in BOOLEAN :
       /\ blHub = 0 => hubStops
       /\ blSock = 0 => sockCloses
       /\ IF hubStops /\ sockCloses THEN UNCHANGED blLeft ELSE BlTroubled
       /\ BlDisconnectBlocking(hubStops, sockCloses)
       /\ IF hubStops /\ sockCloses
          THEN blStep' = "open" /\ UNCHANGED <<blClient, blJob, blQueued, blWaiter>>
          ELSE BlJobEnds
  /\ blAsked' = TRUE
  /\ UNCHANGED <<blStopping, blAt, blFrames, blBase, blPassive, blHistoryVars, blCallsLeft>>

(* No attempt is left: connect raises.                                     *)
BlConnectFails ==
  /\ blJob = "connect" /\ blStep = "open" /\ blAt = Len(BlAttempts)
  /\ BlJobEnds
  /\ UNCHANGED <<blOwned, blFlags, blAt, blNative, blDown, blFrames, blBase, blPassive,
                 blHistoryVars, blBudget>>

BlClose ==
  /\ blJob = "close"
  /\ \E hubStops, sockCloses \in BOOLEAN :
       /\ blHub = 0 => hubStops
       /\ blSock = 0 => sockCloses
       /\ IF hubStops /\ sockCloses THEN UNCHANGED blLeft ELSE BlTroubled
       /\ BlDisconnectBlocking(hubStops, sockCloses)
       /\ blClosedWell' = (hubStops /\ sockCloses)
  /\ blAsked' = TRUE
  /\ blJob' = "none" /\ blStep' = "" /\ blClient' = "idle"
  /\ UNCHANGED <<blQueued, blStopping, blAt, blFrames, blBase, blPassive, blWaiter, blSentAt, blClaimed, blMissed,
                 blAfter, blCallsLeft>>

(* A mutated form of BlReady: a disconnect that was asked for is not seen. *)
BlReadyUnasked == blHub = 0 \/ ~blDown

(* _ensure_classic_ready_for_io                                            *)
BlReady == blConnected /\ ~blAsked /\ ~blDown

BlOnBle == blSock # 0 /\ BlAttempts[blSock] = "ble"

(* _write_blocking: a Classic chunk leaves when the flow is not paused and *)
(* the connection has just been found in order.  On BLE the socket is      *)
(* given the whole payload in one send, behind a look at _connected only.  *)
BlWriteChunk ==
  /\ blJob = "write"
  /\ \/ /\ blStep = "begin" /\ BlOnBle
        /\ IF blConnected THEN blStep' = "sending" /\ blAt' = BlChunks /\ UNCHANGED <<blClient, blJob, blQueued, blWaiter>>
                          ELSE BlJobEnds /\ UNCHANGED blAt
        /\ UNCHANGED blAfter
     \/ /\ blStep = "begin" /\ ~BlOnBle
        /\ IF blConnected /\ BlReady THEN blStep' = "send" /\ blAt' = 1 /\ UNCHANGED <<blClient, blJob, blQueued, blWaiter>>
                                     ELSE BlJobEnds /\ UNCHANGED blAt
        /\ UNCHANGED blAfter
     \/ /\ blStep = "send" /\ BlReady /\ ~blPaused
        /\ blStep' = "sending" /\ UNCHANGED <<blClient, blJob, blQueued, blWaiter, blAt, blAfter>>
     \/ /\ blStep = "send" /\ (~BlReady \/ blPaused)
        /\ BlJobEnds /\ UNCHANGED <<blAt, blAfter>>
     \/ /\ blStep = "sending"
        /\ blAfter' = IF blAsked THEN blAfter + 1 ELSE blAfter
        /\ IF blAt < BlChunks THEN blAt' = blAt + 1 /\ blStep' = "send" /\ UNCHANGED <<blClient, blJob, blQueued, blWaiter>>
                              ELSE BlJobEnds /\ UNCHANGED blAt
  /\ UNCHANGED <<blOwned, blFlags, blNative, blDown, blFrames, blBase, blPassive, blSentAt, blClaimed,
                 blMissed, blClosedWell, blBudget>>

(* The first frame of a kind after an offset, or 0.                        *)
BlFirst(kind, from) ==
  LET found == {i \in (from + 1)..BlEnd : i > blBase /\ blFrames[i] = kind} IN
  IF found = {} THEN 0 ELSE Min(found)

(* A mutated form of BlRegister: a passive wait looks at what comes from   *)
(* now on.                                                                 *)
BlRegisterLate ==
  /\ blJob \in {"query", "wait"} /\ blStep = "begin"
  /\ IF blConnected /\ blHub # 0 /\ ~blDown
     THEN /\ blStep' = IF blJob = "query" THEN "send" ELSE "wait"
          /\ blWaiter' = [NoWaiter EXCEPT !.from = BlEnd]
          /\ UNCHANGED <<blClient, blJob, blQueued>>
     ELSE BlJobEnds
  /\ UNCHANGED <<blOwned, blFlags, blAt, blNative, blDown, blFrames, blBase, blPassive, blHistoryVars,
                 blBudget>>

(* _query_control_packet_blocking registers its waiter before it writes,   *)
(* wait_for_notification where the last wait ended.  A match takes all     *)
(* that has been received, what lies behind the frame it is for as well.   *)
BlRegister ==
  /\ blJob \in {"query", "wait"} /\ blStep = "begin"
  /\ IF blConnected /\ blHub # 0 /\ ~blDown
     THEN /\ blStep' = IF blJob = "query" THEN "send" ELSE "wait"
          /\ blWaiter' = IF blJob = "query" THEN [NoWaiter EXCEPT !.from = BlEnd]
                         ELSE LET from == IF blPassive > blBase THEN blPassive ELSE blBase IN
                              [NoWaiter EXCEPT !.from = from, !.end = IF BlFirst("event", from) # 0 THEN BlEnd ELSE 0]
          /\ UNCHANGED <<blClient, blJob, blQueued>>
     ELSE BlJobEnds
  /\ UNCHANGED <<blOwned, blFlags, blAt, blNative, blDown, blFrames, blBase, blPassive, blHistoryVars,
                 blBudget>>

BlSendQuery ==
  /\ blJob = "query" /\ blStep = "send"
  /\ IF BlReady THEN blStep' = "wait" /\ blSentAt' = BlEnd /\ UNCHANGED <<blClient, blJob, blQueued, blWaiter>>
                ELSE BlJobEnds /\ UNCHANGED blSentAt
  /\ UNCHANGED <<blOwned, blFlags, blAt, blNative, blDown, blFrames, blBase, blPassive, blClaimed, blMissed,
                 blAfter, blClosedWell, blBudget>>

(* hub.wait: the match, the failure, or the timeout, after which a passive *)
(* wait has taken all there is.                                            *)
BlWaited ==
  LET kind == IF blJob = "query" THEN "answer" ELSE "event"
      since == IF blJob = "query" THEN blSentAt ELSE blClaimed
      claimed == IF blWaiter.end # 0 THEN blWaiter.end ELSE BlEnd IN
  /\ blJob \in {"query", "wait"} /\ blStep = "wait"
  /\ blMissed' = (blMissed \/ (~blWaiter.failed /\ blWaiter.end = 0 /\ BlFirst(kind, since) # 0))
  /\ IF blJob = "wait" THEN blPassive' = claimed /\ blClaimed' = claimed
                       ELSE UNCHANGED <<blPassive, blClaimed>>
  /\ BlJobEnds
  /\ UNCHANGED <<blOwned, blFlags, blAt, blNative, blDown, blFrames, blBase, blSentAt, blAfter,
                 blClosedWell, blBudget>>

-----------------------------------------------------------------------------
(* The reader and the printer                                              *)

(* What one read of the socket may bring.                                  *)
BlReads == {<<"answer">>, <<"event">>, <<"answer", "event">>, <<"event", "answer">>, <<"event", "event">>}

(* feed: the listener first (here: flow control), then the history, which  *)
(* is trimmed, then the waiter.                                            *)
BlFeed ==
  /\ blReaders # {} /\ ~blDown
  /\ \E got \in BlReads :
       LET end == BlEnd + Len(got)
           wanted == IF blJob = "query" THEN "answer" ELSE "event" IN
       /\ end <= BlFrames
       /\ (\E i \in DOMAIN got : got[i] = "answer") => blJob = "query" /\ blStep = "wait"
       /\ blFrames' = blFrames \o got
       /\ blBase' = IF end - blBase > BlHistory THEN end - BlHistory ELSE blBase
       /\ blPassive' = IF blPassive < blBase' THEN blBase' ELSE blPassive
       /\ blWaiter' = IF blStep # "wait" \/ blWaiter.end # 0 \/ blWaiter.failed THEN blWaiter
                      ELSE IF blWaiter.from < blBase' THEN [blWaiter EXCEPT !.failed = TRUE]
                      ELSE IF \E i \in DOMAIN got : got[i] = wanted THEN [blWaiter EXCEPT !.end = end]
                      ELSE blWaiter
  /\ UNCHANGED <<blClient, blJob, blStep, blQueued, blOwned, blFlags, blAt, blNative, blDown,
                 blHistoryVars, blBudget>>

(* The printer pauses or resumes standard writes.                          *)
BlFlow ==
  /\ blReaders # {} /\ ~blDown /\ blPaused' = ~blPaused
  /\ UNCHANGED <<blClient, blJob, blStep, blQueued, blOwned, blConnected, blAsked, blAt, blNative,
                 blInbox, blHistoryVars, blBudget>>

(* The link goes down: the reader fails, and with it every waiter.         *)
BlReaderFails ==
  /\ blReaders # {} /\ ~blDown /\ BlTroubled
  /\ blDown' = TRUE
  /\ blWaiter' = [blWaiter EXCEPT !.failed = @ \/ blWaiter.end = 0]
  /\ UNCHANGED <<blClient, blJob, blStep, blQueued, blOwned, blFlags, blAt, blNative, blFrames, blBase,
                 blPassive, blHistoryVars, blCallsLeft>>

BlWorkerStep ==
  \/ BlTakeClose \/ BlConnectBegin \/ BlOpenSocket \/ BlStartReader \/ BlCleanUp \/ BlConnectFails
  \/ BlClose \/ BlWriteChunk \/ BlRegister \/ BlSendQuery \/ BlWaited
BlNext ==
  \/ BlCall \/ BlDisconnect \/ BlStopReader \/ BlWorkerStep \/ BlFeed \/ BlFlow \/ BlReaderFails

(* The worker and the stopping thread get to run.                          *)
BlFairness == WF_blVars(BlWorkerStep) /\ WF_blVars(BlStopReader)
BlSpec == BlInit /\ [][BlNext]_blVars /\ BlFairness

-----------------------------------------------------------------------------
(* Whatever fails to close, every native socket and every reader is still  *)
(* owned, so at most one of each exists; and a disconnect that returns     *)
(* normally has left none.                                                 *)
BlOwnsWhatIsOpen ==
  /\ blOpen \subseteq {blSock} /\ blReaders \subseteq {blHub}
  /\ blClosedWell => blOpen = {} /\ blReaders = {}

(* A query or a wait that ends with nothing has not been passed by the     *)
(* frame it was for: an answer received since the query left, an event     *)
(* received after all that the last wait was given.                        *)
BlNothingMissed == ~blMissed

(* Once a disconnect is asked for, at most the send under way goes on: a   *)
(* chunk on Classic, the payload that a BLE socket has been given; no new  *)
(* one begins.                                                             *)
BlDisconnectStopsWrite == blAfter <= 1

-----------------------------------------------------------------------------
(* What holds between any two steps, from which both follow for every      *)
(* number of attempts, chunks, calls and troubles: a connect opens nothing *)
(* before what was there is closed, and only what had left its check can   *)
(* be written after the disconnect was asked for.                          *)
BlOwnerInv ==
  /\ blAt \in Nat
  /\ blOpen \subseteq {blSock} \ {0} /\ blReaders \subseteq {blHub} \ {0}
  /\ blClosedWell => blJob # "connect" /\ blOpen = {} /\ blReaders = {}
  /\ blJob = "connect" /\ blStep = "open" => blSock = 0 /\ blHub = 0
  /\ blJob = "connect" /\ blStep = "reader" => blAt # 0 /\ blSock = blAt /\ blHub = 0
BlWriteInv ==
  /\ blAfter \in {0, 1}
  /\ blJob = "write" /\ blStep = "sending" /\ blAsked => blAfter = 0
BlInv == BlOwnerInv /\ BlWriteInv

(* A connect may still succeed after a disconnect was asked for, but no    *)
(* job of the client meets that connection: the close is next.             *)
BlAskedInv ==
  /\ blConnected /\ blAsked => blClient \in {"stopping", "closing"} /\ blJob \in {"none", "close"}
  /\ blJob = "connect" /\ blStep = "reader" /\ blAsked => blClient \in {"stopping", "closing"}

(* And of what the reader keeps: nothing behind the last claim has been    *)
(* passed over, and no frame of the kind waited for is there while none is *)
(* matched.                                                                *)
BlInboxState ==
  /\ blFrames \in Seq({"answer", "event"}) /\ blBase \in Nat /\ blPassive \in Nat /\ blSentAt \in Nat /\ blClaimed \in Nat
  /\ blWaiter \in [from : Nat, end : Nat, failed : BOOLEAN]
BlNoneSince(kind, since) == \A i \in DOMAIN blFrames : i > since /\ i > blBase => blFrames[i] # kind
BlWaitInv ==
  /\ blClaimed <= blPassive /\ (blPassive = blClaimed \/ blPassive <= blBase)
  /\ blStep = "wait" /\ ~blWaiter.failed /\ blWaiter.end = 0 =>
       /\ blJob = "query" => BlNoneSince("answer", blSentAt)
       /\ blJob = "wait" => BlNoneSince("event", blClaimed)
  /\ BlNothingMissed
BlInboxInv == BlInboxState /\ BlWaitInv
=============================================================================
