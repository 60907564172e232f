----------------------------- MODULE RuntimeV5C ------------------------------
(* The V5C runtime controller (printing/runtime/v5c.py): one job scope per *)
(* page, the setup, raster and finalizer phases with a look at the scope's *)
(* error before and after each and before every write, and the completion  *)
(* of the last page, an idle status whose first byte came after the        *)
(* finalizer phase began.  Statuses are handled on the transport's thread  *)
(* between any two steps of the job.                                       *)
EXTENDS Integers, Sequences, SequencesExt

CONSTANTS
  VcPages,
  VcChunks,    \* writes of a raster phase
  VcTrouble,   \* faults, odd statuses and breaks of a print (bound)
  VcBacklog    \* statuses on the way to the controller (bound)

V5CAssumption ==
  VcPages \in Nat \ {0} /\ VcChunks \in Nat \ {0} /\ VcTrouble \in Nat /\ VcBacklog \in Nat
ASSUME V5CAssumption

VARIABLES
  vcPhase,      \* "connect", "between", "setup", "raster", "finalize", "wait", "exit",
                \* "printed", "failed", "closed"
  vcPage, vcChunk,
  vcObserving,  \* the route can wait for notifications
  vcFault,      \* last_error_status is set
  vcScope,      \* _active_scope: [wait, fenced, finished, error], or NoJob
  vcLink,       \* statuses under way to the controller
  vcHalf,       \* the first of them began before the completion fence
  vcPrinting, vcIdleSaid,   \* the printer: a page is under way, the query's answer is due
  vcTold,       \* a fault has been handled in this scope (history)
  vcSince,      \* the last whole idle or busy status since the fence (history)
  vcLeft

NoJob == [wait |-> FALSE, fenced |-> FALSE, finished |-> FALSE, error |-> TRUE]

vcJob == <<vcPage, vcChunk>>
vcPrinter == <<vcPrinting, vcIdleSaid>>
vcVars == <<vcPhase, vcJob, vcObserving, vcFault, vcScope, vcLink, vcHalf, vcPrinter, vcTold, vcSince, vcLeft>>

VcSending == vcPhase \in {"setup", "raster", "finalize"}
VcInScope == VcSending \/ vcPhase \in {"wait", "exit"}
VcTroubled == vcLeft > 0 /\ vcLeft' = vcLeft - 1

VcInit ==
  /\ vcPhase = "connect" /\ vcPage = 1 /\ vcChunk = 0 /\ vcObserving = FALSE
  /\ vcFault = FALSE /\ vcScope = NoJob /\ vcLink = <<>> /\ vcHalf = FALSE
  /\ vcPrinting = FALSE /\ vcIdleSaid = FALSE /\ vcTold = FALSE /\ vcSince = "none"
  /\ vcLeft = VcTrouble

(* initialize_connection                                                   *)
VcConnect ==
  /\ vcPhase = "connect" /\ vcPhase' = "between" /\ vcObserving' \in BOOLEAN
  /\ UNCHANGED <<vcJob, vcFault, vcScope, vcLink, vcHalf, vcPrinter, vcTold, vcSince, vcLeft>>

(* job_scope: refused while a fault is remembered, and when completion is  *)
(* wanted (of the last page) and cannot be observed.                       *)
VcEnter ==
  /\ vcPhase = "between"
  /\ vcTold' = FALSE /\ vcSince' = "none" /\ vcChunk' = 0
  /\ IF vcFault \/ (vcPage = VcPages /\ ~vcObserving)
     THEN vcPhase' = "failed" /\ UNCHANGED vcScope
     ELSE /\ vcPhase' = "setup"
          /\ vcScope' = [wait |-> vcPage = VcPages, fenced |-> FALSE, finished |-> FALSE, error |-> FALSE]
  /\ UNCHANGED <<vcPage, vcObserving, vcFault, vcLink, vcHalf, vcPrinter, vcLeft>>

VcLeave == vcPhase' = "failed" /\ vcScope' = NoJob

(* One write of _send_phases.  The error is looked at before every write,  *)
(* the finalizer phase sets the fence, and its status query is answered    *)
(* with the state the printer is in.                                       *)
VcWrite ==
  /\ VcSending /\ ~vcScope.error
  /\ CASE vcPhase = "setup" ->
            vcPhase' = "raster" /\ UNCHANGED <<vcChunk, vcScope, vcHalf, vcPrinter>>
       [] vcPhase = "raster" ->
            /\ vcChunk' = vcChunk + 1
            /\ vcPhase' = IF vcChunk + 1 = VcChunks THEN "finalize" ELSE "raster"
            /\ UNCHANGED <<vcScope, vcHalf, vcPrinter>>
       [] OTHER ->
            /\ vcPhase' = "wait" /\ vcScope' = [vcScope EXCEPT !.fenced = TRUE]
            /\ vcHalf' \in {FALSE, vcLink # <<>>}
            /\ vcPrinting' = TRUE /\ vcIdleSaid' = TRUE
            /\ UNCHANGED vcChunk
  /\ UNCHANGED <<vcPage, vcObserving, vcFault, vcLink, vcTold, vcSince, vcLeft>>

VcStopped ==
  /\ (VcSending \/ vcPhase = "wait") /\ vcScope.error
  /\ VcLeave
  /\ UNCHANGED <<vcJob, vcObserving, vcFault, vcLink, vcHalf, vcPrinter, vcTold, vcSince, vcLeft>>

(* wait_for_completion returns at once where no completion is wanted.      *)
VcWaited ==
  /\ vcPhase = "wait" /\ ~vcScope.error
  /\ vcScope.wait => vcScope.finished
  /\ vcPhase' = "exit"
  /\ UNCHANGED <<vcJob, vcObserving, vcFault, vcScope, vcLink, vcHalf, vcPrinter, vcTold, vcSince, vcLeft>>

VcTimeout ==
  /\ vcPhase = "wait" /\ vcScope.wait /\ ~vcScope.finished
  /\ VcLeave
  /\ UNCHANGED <<vcJob, vcObserving, vcFault, vcLink, vcHalf, vcPrinter, vcTold, vcSince, vcLeft>>

VcNextPage ==
  IF vcPage < VcPages THEN vcPage' = vcPage + 1 /\ vcPhase' = "between"
                      ELSE vcPhase' = "printed" /\ UNCHANGED vcPage

(* The scope is looked at once more on the way out: a busy status or a     *)
(* fault may have come since the wait returned.                            *)
VcExit ==
  /\ vcPhase = "exit"
  /\ IF vcScope.error \/ (vcScope.wait /\ ~vcScope.finished)
     THEN vcPhase' = "failed" /\ UNCHANGED vcPage ELSE VcNextPage
  /\ vcScope' = NoJob
  /\ UNCHANGED <<vcChunk, vcObserving, vcFault, vcLink, vcHalf, vcPrinter, vcTold, vcSince, vcLeft>>

(* A write fails or the task is cancelled; the connection is put down.     *)
VcBreak ==
  /\ (VcInScope \/ vcPhase = "between") /\ VcTroubled
  /\ VcLeave
  /\ UNCHANGED <<vcJob, vcObserving, vcFault, vcLink, vcHalf, vcPrinter, vcTold, vcSince>>

VcClose ==
  /\ vcPhase \in {"printed", "failed"} /\ vcPhase' = "closed"
  /\ vcObserving' = FALSE /\ vcLink' = <<>> /\ vcHalf' = FALSE
  /\ UNCHANGED <<vcJob, vcFault, vcScope, vcPrinter, vcTold, vcSince, vcLeft>>

-----------------------------------------------------------------------------
(* Statuses                                                                *)

(* _record_job_status: a fault latches, busy takes a completion back, idle *)
(* completes where it began after the fence.                               *)
VcRecorded(status, old) ==
  IF vcScope = NoJob \/ vcScope.error THEN vcScope
  ELSE CASE status = "fault" -> [vcScope EXCEPT !.error = TRUE, !.finished = TRUE]
         [] status = "busy" -> [vcScope EXCEPT !.finished = FALSE]
         [] status = "idle" /\ vcScope.wait /\ vcScope.fenced /\ ~old -> [vcScope EXCEPT !.finished = TRUE]
         [] OTHER -> vcScope

(* handle_notification.  A healthy status forgets the fault only between   *)
(* jobs (_handle_status).                                                  *)
VcNotify ==
  LET status == Head(vcLink)
      whole == vcScope.fenced /\ ~vcHalf IN
  /\ vcLink # <<>> /\ vcPhase # "closed"
  /\ vcLink' = Tail(vcLink) /\ vcHalf' = FALSE
  /\ vcScope' = VcRecorded(status, vcHalf)
  /\ vcFault' = IF status = "fault" THEN TRUE ELSE vcFault /\ vcScope # NoJob
  /\ vcTold' = (vcTold \/ (status = "fault" /\ vcScope # NoJob))
  /\ vcSince' = IF status \in {"idle", "busy"} /\ whole THEN status ELSE vcSince
  /\ UNCHANGED <<vcPhase, vcJob, vcObserving, vcPrinter, vcLeft>>

(* The printer answers the query, starts, ends, has a fault or is charged. *)
VcPrinterSpeaks ==
  /\ Len(vcLink) < VcBacklog /\ vcPhase # "closed"
  /\ \/ /\ vcIdleSaid /\ vcIdleSaid' = FALSE /\ UNCHANGED <<vcPrinting, vcLeft>>
        /\ \E status \in {"idle", "busy"} : vcLink' = Append(vcLink, status)
     \/ /\ vcPrinting /\ vcPrinting' = FALSE /\ UNCHANGED <<vcIdleSaid, vcLeft>>
        /\ vcLink' = Append(vcLink, "idle")
     \/ /\ VcTroubled /\ UNCHANGED <<vcPrinting, vcIdleSaid>>
        /\ \E status \in {"fault", "charging", "idle", "busy"} : vcLink' = Append(vcLink, status)
  /\ UNCHANGED <<vcPhase, vcJob, vcObserving, vcFault, vcScope, vcHalf, vcTold, vcSince>>

VcControllerStep ==
  \/ VcConnect \/ VcEnter \/ VcWrite \/ VcStopped \/ VcWaited \/ VcTimeout \/ VcExit \/ VcBreak
  \/ VcClose
VcNext == VcControllerStep \/ VcNotify \/ VcPrinterSpeaks

VcFairness == WF_vcVars(VcControllerStep)
VcSpec == VcInit /\ [][VcNext]_vcVars /\ VcFairness

-----------------------------------------------------------------------------
(* A job that ends well has seen no fault, and what the printer said last  *)
(* in a frame begun after the finalizer phase was that it is idle.         *)
VcCompletionCurrent == vcPhase = "printed" => ~vcTold /\ vcSince = "idle"

(* Once a fault is handled within a page, nothing of it is written, and    *)
(* no further page begins, whatever healthy statuses come meanwhile.       *)
VcFaultEndsJob ==
  vcTold => /\ VcInScope => vcScope.error
            /\ vcPhase \notin {"between", "printed"}

-----------------------------------------------------------------------------
(* What holds between any two steps, from which both follow for every      *)
(* number of pages, writes and statuses.                                   *)
VcState ==
  /\ vcPhase \in {"connect", "between", "setup", "raster", "finalize", "wait", "exit", "printed", "failed", "closed"}
  /\ vcScope \in [wait : BOOLEAN, fenced : BOOLEAN, finished : BOOLEAN, error : BOOLEAN]
  /\ vcPage \in 1..VcPages /\ vcHalf \in BOOLEAN /\ vcTold \in BOOLEAN

(* A scope is open while a page is sent, waits for the last page, and is   *)
(* told apart from none; a completion was reported by what was said last.  *)
VcScopeInv ==
  /\ ~VcInScope => vcScope = NoJob
  /\ vcPhase = "connect" => ~vcTold
  /\ VcInScope => /\ vcScope.error => vcScope.finished
                  /\ vcScope.wait <=> vcPage = VcPages
                  /\ vcScope.finished /\ ~vcScope.error => vcSince = "idle"
                  /\ vcTold => vcScope.error

VcInv == VcState /\ VcScopeInv /\ VcFaultEndsJob /\ VcCompletionCurrent
=============================================================================
