----------------------------- MODULE RuntimeV5X ------------------------------
(* The V5X runtime controller (printing/runtime/v5x.py) and the printer it  *)
(* drives: per page a density packet where it changes, the A9 start that   *)
(* the printer accepts, refuses or puts off, the raster, the trailing      *)
(* packets with the finalizer; after the last page a passive wait.  The    *)
(* printer talks at any time, and a request of its own is answered by a    *)
(* background task that stop() cancels.                                    *)
EXTENDS Integers, Sequences, SequencesExt

CONSTANTS
  VxPages,
  VxWindow,    \* resends of a start that fit the 60 s acceptance window (bound)
  VxTrouble,   \* unsolicited frames, refusals and losses of a print (bound)
  VxBacklog    \* frames on the way to the controller, and kept (64 in the code) (bound)

V5XAssumption == VxPages \in Nat \ {0} /\ VxWindow \in Nat /\ VxTrouble \in Nat /\ VxBacklog \in Nat
ASSUME V5XAssumption

VARIABLES
  vxPhase,     \* "connect", "info", "plan", "density", "start", "await", "busy", "raster",
               \* "trail", "quiet", "idle" (the printer was heard to be idle), "printed",
               \* "failed", "stopped"
  vxRoutes,    \* what the connection offers, a subset of {"bulk", "atomic", "observe"}
  vxPage, vxResends,
  vxCoverage,  \* of the page: "light" or "heavy"
  vxHot,       \* temperature_c as last reported
  vxLast,      \* last_density_payload, or 0 for None
  vxWanted,    \* density chosen for the page
  vxArmed,     \* an A9 is in command_ack_events
  vxTasks,     \* background tasks: pending_get_serial, pending_status_poll, pending_sign_responses
  vxLink,      \* frames under way to the controller
  vxHistory,   \* the A1 reports among the notifications that no wait has claimed, oldest first
  vxDensity, vxStarted, vxMoving,   \* the printer: its density, the page it accepted, its motor
  vxRasters,   \* what the printer had agreed to when each raster came
  vxLeft

vxConnection == <<vxRoutes, vxHot, vxArmed, vxTasks, vxLink, vxHistory>>
vxJob == <<vxPage, vxResends, vxCoverage, vxLast, vxWanted>>
vxPrinter == <<vxDensity, vxStarted, vxMoving, vxRasters>>
vxVars == <<vxPhase, vxConnection, vxJob, vxPrinter, vxLeft>>

VxUserDensity == 3
VxRunning == vxPhase \notin {"printed", "idle", "failed", "stopped"}
VxTroubled == vxLeft > 0 /\ vxLeft' = vxLeft - 1

(* A hot head prints lighter, and more so where much is black; never above *)
(* the density the job asks for.                                           *)
VxTarget(hot, coverage) ==
  IF ~hot THEN VxUserDensity ELSE IF coverage = "light" THEN 2 ELSE 1

VxInit ==
  /\ vxPhase = "connect" /\ vxRoutes \in SUBSET {"bulk", "atomic", "observe"}
  /\ vxPage = 1 /\ vxResends = 0 /\ vxCoverage = "light"
  /\ vxHot = FALSE /\ vxLast = 0 /\ vxWanted = 0 /\ vxArmed = FALSE /\ vxTasks = {}
  /\ vxLink = <<>> /\ vxHistory = <<>> /\ vxDensity = VxUserDensity /\ vxStarted = 0 /\ vxMoving = FALSE
  /\ vxRasters = <<>> /\ vxLeft = VxTrouble

-----------------------------------------------------------------------------
(* The controller                                                          *)

(* initialize_connection                                                   *)
VxConnect ==
  /\ vxPhase = "connect" /\ vxPhase' = "info"
  /\ UNCHANGED <<vxConnection, vxJob, vxPrinter, vxLeft>>

(* after_initialize: connect info is waited for a moment, then done without. *)
VxSettled ==
  /\ vxPhase = "info" /\ vxPhase' = "plan"
  /\ UNCHANGED <<vxConnection, vxJob, vxPrinter, vxLeft>>

(* The page's packets are split, validated and looked over for the routes  *)
(* they need before the first one leaves.                                  *)
VxPreflight ==
  /\ vxPhase = "plan"
  /\ vxPhase' = IF {"bulk", "atomic"} \subseteq vxRoutes THEN "density" ELSE "failed"
  /\ vxCoverage' \in {"light", "heavy"}
  /\ vxResends' = 0
  /\ UNCHANGED <<vxConnection, vxPage, vxLast, vxWanted, vxPrinter, vxLeft>>

(* A mutated form of VxSendDensity: the density counts as known once the   *)
(* printer was ever given one.                                             *)
VxKeepDensity ==
  LET target == VxTarget(vxHot, vxCoverage) IN
  /\ vxPhase = "density" /\ vxPhase' = "start"
  /\ vxWanted' = target
  /\ IF vxLast # 0 THEN UNCHANGED <<vxLast, vxDensity>>
                   ELSE vxLast' = target /\ vxDensity' = target
  /\ UNCHANGED <<vxConnection, vxPage, vxResends, vxCoverage, vxStarted, vxMoving, vxRasters, vxLeft>>

(* prepare_split_command: a density the printer already has is not sent,   *)
(* and one that is sent is remembered when the write has succeeded.        *)
VxSendDensity ==
  LET target == VxTarget(vxHot, vxCoverage) IN
  /\ vxPhase = "density" /\ vxPhase' = "start"
  /\ vxWanted' = target
  /\ IF vxLast = target THEN UNCHANGED <<vxLast, vxDensity>>
                        ELSE vxLast' = target /\ vxDensity' = target
  /\ UNCHANGED <<vxConnection, vxPage, vxResends, vxCoverage, vxStarted, vxMoving, vxRasters, vxLeft>>

(* _send_a9_and_validate: the start and the wait for its answer are one    *)
(* exchange.  The printer puts a start off while it moves.                 *)
VxSendStart ==
  /\ vxPhase \in {"start", "busy"}
  /\ vxPhase' = "await" /\ vxArmed' = TRUE
  /\ \/ /\ ~vxMoving /\ vxStarted' = vxPage
        /\ vxLink' = Append(vxLink, "accepted") /\ UNCHANGED vxLeft
     \/ vxMoving /\ vxLink' = Append(vxLink, "busy") /\ UNCHANGED <<vxStarted, vxLeft>>
     \/ /\ VxTroubled /\ UNCHANGED vxStarted
        /\ vxLink' \in {Append(vxLink, "refused"), vxLink}
  /\ UNCHANGED <<vxRoutes, vxHot, vxTasks, vxHistory, vxJob, vxDensity, vxMoving, vxRasters>>

VxStartAnswer(status) ==
  CASE status = "accepted" -> vxPhase' = "raster" /\ vxArmed' = FALSE /\ UNCHANGED vxResends
    [] status = "busy" /\ vxResends < VxWindow ->
         vxPhase' = "busy" /\ vxResends' = vxResends + 1 /\ UNCHANGED vxArmed
    [] OTHER -> vxPhase' = "failed" /\ vxArmed' = FALSE /\ UNCHANGED vxResends

(* No answer within the window.                                            *)
VxStartTimeout ==
  /\ vxPhase = "await"
  /\ ~\E i \in DOMAIN vxLink : vxLink[i] \in {"accepted", "busy", "refused"}
  /\ vxPhase' = "failed" /\ vxArmed' = FALSE
  /\ UNCHANGED <<vxRoutes, vxHot, vxTasks, vxLink, vxHistory, vxJob, vxPrinter, vxLeft>>

VxSendRaster ==
  /\ vxPhase = "raster" /\ vxPhase' = "trail"
  /\ vxRasters' = Append(vxRasters, [page |-> vxStarted, density |-> vxDensity, wanted |-> vxWanted])
  /\ UNCHANGED <<vxConnection, vxJob, vxDensity, vxStarted, vxMoving, vxLeft>>

(* The trailing packets, the finalizer last; then the printer moves.       *)
VxFinalize ==
  /\ vxPhase = "trail"
  /\ vxStarted' = 0 /\ vxMoving' = TRUE
  /\ IF vxPage < VxPages
     THEN vxPage' = vxPage + 1 /\ vxPhase' = "plan"
     ELSE /\ vxPhase' = IF "observe" \in vxRoutes THEN "quiet" ELSE "printed"
          /\ UNCHANGED vxPage
  /\ UNCHANGED <<vxConnection, vxResends, vxCoverage, vxLast, vxWanted, vxDensity, vxRasters, vxLeft>>

(* wait_for_completion takes what the history has first, the newest        *)
(* report before the older ones; then three quiet seconds, or a minute at  *)
(* most, end the wait too.                                                 *)
VxClaimKept ==
  /\ vxPhase = "quiet" /\ vxHistory # <<>>
  /\ vxHistory' = Front(vxHistory)
  /\ vxPhase' = IF Last(vxHistory) = "idle" THEN "idle" ELSE "quiet"
  /\ UNCHANGED <<vxRoutes, vxHot, vxArmed, vxTasks, vxLink, vxJob, vxPrinter, vxLeft>>

VxAssumeFinished ==
  /\ vxPhase = "quiet" /\ vxHistory = <<>> /\ vxPhase' = "printed"
  /\ UNCHANGED <<vxConnection, vxJob, vxPrinter, vxLeft>>

(* A write fails, or the task is cancelled.                                *)
VxBreak ==
  /\ VxRunning /\ VxTroubled
  /\ vxPhase' = "failed" /\ vxArmed' = FALSE
  /\ UNCHANGED <<vxRoutes, vxHot, vxTasks, vxLink, vxHistory, vxJob, vxPrinter>>

(* stop: with the connection, after the last page or an error.             *)
VxStop ==
  /\ vxPhase \in {"printed", "idle", "failed"} /\ vxPhase' = "stopped"
  /\ vxTasks' = {} /\ vxArmed' = FALSE /\ vxLink' = <<>> /\ vxHistory' = <<>>
  /\ UNCHANGED <<vxRoutes, vxHot, vxJob, vxPrinter, vxLeft>>

(* A wait that found nothing kept is claiming what comes.                  *)
VxWaits == vxPhase = "quiet" /\ vxHistory = <<>>

(* handle_notification.  While a start is armed no serial is asked for.    *)
VxNotify ==
  LET frame == Head(vxLink)
      asked == CASE frame = "serial" /\ ~vxArmed -> {"serial"}
                 [] frame = "poll" -> {"poll"}
                 [] frame = "sign" -> {"sign"}
                 [] OTHER -> {} IN
  /\ vxLink # <<>> /\ vxPhase # "stopped"
  /\ vxLink' = Tail(vxLink)
  /\ vxHot' = CASE frame = "hot" -> TRUE [] frame = "idle" -> FALSE [] OTHER -> vxHot
  /\ vxTasks' = vxTasks \cup asked
  /\ IF vxPhase = "await" /\ frame \in {"accepted", "busy", "refused"} THEN VxStartAnswer(frame)
     ELSE /\ vxPhase' = IF VxWaits /\ frame = "idle" THEN "idle" ELSE vxPhase
          /\ UNCHANGED <<vxArmed, vxResends>>
  /\ vxHistory' = IF frame \notin {"hot", "idle"} \/ VxWaits THEN vxHistory
                  ELSE IF Len(vxHistory) < VxBacklog THEN Append(vxHistory, frame)
                  ELSE Append(Tail(vxHistory), frame)
  /\ UNCHANGED <<vxRoutes, vxPage, vxCoverage, vxLast, vxWanted, vxPrinter, vxLeft>>

(* A background task has sent its packet, or could not.                    *)
VxTaskEnds ==
  /\ \E t \in vxTasks : vxTasks' = vxTasks \ {t}
  /\ UNCHANGED <<vxPhase, vxRoutes, vxHot, vxArmed, vxLink, vxHistory, vxJob, vxPrinter, vxLeft>>

-----------------------------------------------------------------------------
(* The printer                                                             *)

VxPrinterStops ==
  /\ vxMoving /\ Len(vxLink) < VxBacklog /\ vxMoving' = FALSE
  /\ vxLink' = IF vxPhase = "stopped" THEN vxLink ELSE Append(vxLink, "idle")
  /\ UNCHANGED <<vxPhase, vxRoutes, vxHot, vxArmed, vxTasks, vxHistory, vxJob, vxDensity, vxStarted, vxRasters, vxLeft>>

VxPrinterSpeaks ==
  /\ VxRunning /\ Len(vxLink) < VxBacklog /\ VxTroubled
  /\ \E frame \in {"hot", "serial", "poll", "sign"} \cup (IF vxMoving THEN {} ELSE {"idle"}) : vxLink' = Append(vxLink, frame)
  /\ UNCHANGED <<vxPhase, vxRoutes, vxHot, vxArmed, vxTasks, vxHistory, vxJob, vxPrinter>>

VxControllerStep ==
  \/ VxConnect \/ VxSettled \/ VxPreflight \/ VxSendDensity \/ VxSendStart \/ VxStartTimeout
  \/ VxSendRaster \/ VxFinalize \/ VxClaimKept \/ VxAssumeFinished \/ VxBreak \/ VxStop
VxNext == VxControllerStep \/ VxNotify \/ VxTaskEnds \/ VxPrinterStops \/ VxPrinterSpeaks

VxFairness == WF_vxVars(VxControllerStep) /\ WF_vxVars(VxNotify)
VxSpec == VxInit /\ [][VxNext]_vxVars /\ VxFairness

-----------------------------------------------------------------------------
(* Every raster reaches a printer that has accepted the start of its page  *)
(* and prints at the density chosen for it, whatever the printer reported  *)
(* or put off before, and a print that ends well has given every page.     *)
VxRasterAccepted ==
  /\ \A i \in DOMAIN vxRasters :
       vxRasters[i].page = i /\ vxRasters[i].density = vxRasters[i].wanted
  /\ vxPhase \in {"printed", "idle"} => Len(vxRasters) = VxPages
  /\ vxPhase = "stopped" => vxTasks = {}

-----------------------------------------------------------------------------
(* What holds between any two steps, from which it follows for every       *)
(* number of pages, resends and frames: the only answer under way is that  *)
(* of the start which is waited for.                                       *)
VxAnswers == {"accepted", "busy", "refused"}
VxFrames == VxAnswers \cup {"hot", "idle", "serial", "poll", "sign"}
VxState ==
  /\ vxPage \in 1..VxPages /\ vxLast \in 0..VxUserDensity /\ vxRasters \in Seq([page : Nat, density : Nat, wanted : Nat])
  /\ vxDensity \in Nat /\ vxWanted \in Nat /\ vxStarted \in Nat /\ vxLink \in Seq(VxFrames)
VxAnswerInv ==
  VxRunning =>
    /\ \A i \in DOMAIN vxLink : vxLink[i] \in VxAnswers =>
         /\ vxPhase = "await" /\ (vxLink[i] = "accepted" => vxStarted = vxPage)
         /\ \A k \in DOMAIN vxLink : vxLink[k] \in VxAnswers => k = i
    /\ vxPhase = "raster" => vxStarted = vxPage
VxDensityInv ==
  /\ vxLast # 0 => vxDensity = vxLast
  /\ vxPhase \in {"start", "await", "busy", "raster"} => vxDensity = vxWanted
VxPagesInv ==
  /\ VxRunning => Len(vxRasters) = IF vxPhase \in {"trail", "quiet"} THEN vxPage ELSE vxPage - 1
  /\ vxPhase = "quiet" => vxPage = VxPages
VxInv == VxState /\ VxAnswerInv /\ VxDensityInv /\ VxPagesInv /\ VxRasterAccepted
=============================================================================
