---------------------------- MODULE RuntimeFunnyLX ---------------------------
(* The Funny LX runtime controller (printing/runtime/funny_lx.py): the     *)
(* handshake of a new connection, then the image packets of a page, which  *)
(* go back to the packet the printer asks for, and the footer, which waits *)
(* for the printer to say that it is ready.                                *)
EXTENDS Integers, Sequences, SequencesExt, FiniteSetsExt

CONSTANTS
  FxPackets,
  FxMaxRetries,   \* _MAX_RETRY_REQUESTS
  FxTrouble,      \* packets, requests and answers lost or repeated (bound)
  FxBacklog       \* notifications on the way (bound)

FunnyAssumption ==
  FxPackets \in Nat \ {0} /\ FxMaxRetries \in Nat /\ FxTrouble \in Nat /\ FxBacklog \in Nat
ASSUME FunnyAssumption

VARIABLES
  fxPhase,      \* "connect", "low", "high", "header", "image", "ready", "footer",
                \* "printed", "failed"
  fxVerified,   \* _verified, perhaps adopted from an earlier controller
  fxIndex,      \* packets of the image run before the next to send
  fxRetries, fxRequests,   \* retries, _retry_requests
  fxHeard,      \* the notification the wait has matched: 0 none, a packet asked for, or Ready
  fxLink,       \* notifications under way: packets asked for, and Ready
  fxGot,        \* packets the printer has
  fxGaveUp,     \* a request was beyond the limit (history)
  fxLeft

Ready == FxPackets + 1

fxJob == <<fxIndex, fxRetries, fxRequests, fxHeard>>
fxVars == <<fxPhase, fxVerified, fxJob, fxLink, fxGot, fxGaveUp, fxLeft>>

FxTroubled == fxLeft > 0 /\ fxLeft' = fxLeft - 1

FxInit ==
  /\ fxPhase = "connect" /\ fxVerified \in BOOLEAN
  /\ fxIndex = 0 /\ fxRetries = 0 /\ fxRequests = <<>> /\ fxHeard = 0
  /\ fxLink = <<>> /\ fxGot = {} /\ fxGaveUp = FALSE /\ fxLeft = FxTrouble

(* initialize_connection: a verified controller has nothing to do; each    *)
(* exchange of the others may go unanswered or be answered wrongly.        *)
FxVerify ==
  /\ fxPhase \in {"connect", "low", "high"}
  /\ \/ /\ fxPhase' = IF fxVerified \/ fxPhase = "high" THEN "header"
                        ELSE IF fxPhase = "connect" THEN "low" ELSE "high"
        /\ fxVerified' = (fxVerified \/ fxPhase = "high") /\ UNCHANGED fxLeft
     \/ ~fxVerified /\ FxTroubled /\ fxPhase' = "failed" /\ UNCHANGED fxVerified
  /\ UNCHANGED <<fxJob, fxLink, fxGot, fxGaveUp>>

(* send_protocol_steps begins with no request outstanding; the steps       *)
(* before the image, darkness among them, are sent or asked.               *)
FxHeader ==
  /\ fxPhase = "header" /\ fxPhase' = "image" /\ fxRequests' = <<>>
  /\ UNCHANGED <<fxVerified, fxIndex, fxRetries, fxHeard, fxLink, fxGot, fxGaveUp, fxLeft>>

(* A mutated form of FxRetry: the run goes on behind the packet asked for. *)
FxRetryBehind(packet) ==
  IF fxRetries >= FxMaxRetries
  THEN fxGaveUp' = TRUE /\ UNCHANGED <<fxIndex, fxRetries>>
  ELSE fxIndex' = packet /\ fxRetries' = fxRetries + 1 /\ UNCHANGED fxGaveUp

(* _apply_retry: beyond the limit a request is only reported.              *)
FxRetry(packet) ==
  IF fxRetries >= FxMaxRetries
  THEN fxGaveUp' = TRUE /\ UNCHANGED <<fxIndex, fxRetries>>
  ELSE fxIndex' = packet - 1 /\ fxRetries' = fxRetries + 1 /\ UNCHANGED fxGaveUp

FxGoBack ==
  /\ fxPhase = "image" /\ fxRequests # <<>>
  /\ fxRequests' = Tail(fxRequests) /\ FxRetry(Head(fxRequests))
  /\ UNCHANGED <<fxPhase, fxVerified, fxHeard, fxLink, fxGot, fxLeft>>

FxSendPacket ==
  /\ fxPhase = "image" /\ fxRequests = <<>> /\ fxIndex < FxPackets
  /\ fxIndex' = fxIndex + 1
  /\ \/ fxGot' = fxGot \cup {fxIndex + 1} /\ UNCHANGED fxLeft
     \/ fxGot' = fxGot /\ FxTroubled
  /\ UNCHANGED <<fxPhase, fxVerified, fxRetries, fxRequests, fxHeard, fxLink, fxGaveUp>>

FxAllSent ==
  /\ fxPhase = "image" /\ fxRequests = <<>> /\ fxIndex = FxPackets
  /\ fxPhase' = "ready" /\ fxHeard' = 0
  /\ UNCHANGED <<fxVerified, fxIndex, fxRetries, fxRequests, fxLink, fxGot, fxGaveUp, fxLeft>>

(* _wait_ready_or_retry: a request that ends the wait is taken off the     *)
(* queue it was put on as well.                                            *)
FxWaited ==
  /\ fxPhase = "ready" /\ fxHeard # 0
  /\ fxHeard' = 0
  /\ IF fxHeard = Ready
     THEN fxPhase' = "footer" /\ UNCHANGED <<fxIndex, fxRetries, fxRequests, fxGaveUp>>
     ELSE fxPhase' = "image" /\ FxRetry(fxHeard) /\ fxRequests' = RemoveFirst(fxRequests, fxHeard)
  /\ UNCHANGED <<fxVerified, fxLink, fxGot, fxLeft>>

(* Not ready in time: an error before the footer.                          *)
FxNotReady ==
  /\ fxPhase = "ready" /\ fxHeard = 0 /\ fxPhase' = "failed"
  /\ UNCHANGED <<fxVerified, fxJob, fxLink, fxGot, fxGaveUp, fxLeft>>

FxFooter ==
  /\ fxPhase = "footer" /\ fxPhase' = "printed"
  /\ UNCHANGED <<fxVerified, fxJob, fxLink, fxGot, fxGaveUp, fxLeft>>

-----------------------------------------------------------------------------
(* handle_notification queues a request; the wait sees it too.             *)
FxNotify ==
  LET said == Head(fxLink) IN
  /\ fxLink # <<>> /\ fxLink' = Tail(fxLink)
  /\ fxRequests' = IF said = Ready THEN fxRequests ELSE Append(fxRequests, said)
  /\ fxHeard' = IF fxPhase = "ready" /\ fxHeard = 0 THEN said ELSE fxHeard
  /\ UNCHANGED <<fxPhase, fxVerified, fxIndex, fxRetries, fxGot, fxGaveUp, fxLeft>>

(* The printer asks for the first packet it misses before one it has, or   *)
(* at the end of the run, and perhaps again; or says that it is ready.     *)
FxMissing == (1..FxPackets) \ fxGot
FxPrinterSpeaks ==
  /\ fxPhase \in {"image", "ready"} /\ Len(fxLink) < FxBacklog
  /\ \/ /\ FxMissing # {} /\ FxTroubled
        /\ \/ \E p \in fxGot : p > Min(FxMissing)
           \/ fxIndex = FxPackets
        /\ fxLink' = Append(fxLink, Min(FxMissing))
     \/ /\ FxMissing = {} /\ fxPhase = "ready" /\ fxHeard = 0 /\ Ready \notin ToSet(fxLink)
        /\ fxLink' = Append(fxLink, Ready) /\ UNCHANGED fxLeft
  /\ UNCHANGED <<fxPhase, fxVerified, fxJob, fxGot, fxGaveUp>>

FxClientStep ==
  \/ FxVerify \/ FxHeader \/ FxGoBack \/ FxSendPacket \/ FxAllSent \/ FxWaited \/ FxNotReady
  \/ FxFooter
FxNext == FxClientStep \/ FxNotify \/ FxPrinterSpeaks

FxFairness == WF_fxVars(FxClientStep)
FxSpec == FxInit /\ [][FxNext]_fxVars /\ FxFairness

-----------------------------------------------------------------------------
(* The footer, which makes the printer eject the page, is sent only to a   *)
(* printer that has every packet of the image.                             *)
FxFooterWholeImage == fxPhase \in {"footer", "printed"} => FxMissing = {}

(* What a run stops resending is what it was asked too often for: without  *)
(* a request beyond the limit, every packet the printer misses is still to *)
(* be sent, or was asked for and is still to be handled.                   *)
FxResumesAtRequest ==
  [][FxGoBack \/ FxWaited =>
       \/ fxPhase' = "footer" \/ fxGaveUp'
       \/ \A p \in FxMissing : p > fxIndex' \/ p \in ToSet(fxRequests')]_fxVars

-----------------------------------------------------------------------------
(* What holds between any two steps, from which both follow for every      *)
(* number of packets, retries and troubles: a request under way is for a   *)
(* packet before every one that is missing, and "ready" was said when none *)
(* was.                                                                    *)
FxSaid == ToSet(fxLink) \cup ToSet(fxRequests) \cup ({fxHeard} \ {0})
FxState ==
  /\ fxIndex \in 0..FxPackets /\ fxRetries \in Nat /\ fxHeard \in 0..Ready
  /\ fxLink \in Seq(1..Ready) /\ fxRequests \in Seq(1..FxPackets) /\ fxGot \subseteq 1..FxPackets
FxAskedInv ==
  /\ \A said \in FxSaid, p \in FxMissing : said <= p
  /\ FxFooterWholeImage
FxInv == FxState /\ FxAskedInv
=============================================================================
