--------------------------- MODULE PhomemoClient ---------------------------
(* A print of vendors/phomemo/client.py.  The older dialects write one     *)
(* recipe per label; the released ones build every page into a spool       *)
(* before the first write and, where the printer reports its state         *)
(* (printing/runtime/phomemo_released.py), stop at a fault that is         *)
(* reported, in a foreign thread, while the job is active.                 *)
EXTENDS Integers, Sequences, SequencesExt

CONSTANTS
  PhPages,       \* pages of the print
  PhDialects,    \* "m_series", "m02", "m04", "m110", "d", "p12", "tspl", "spooled", "watched"
  PhUnits,       \* units of data of a released page (bound)
  PhChunk,       \* units of a full chunk of _send_spooled_pages
  PhTrouble      \* failures and status frames of a print (bound)

PhomemoAssumption ==
  /\ PhPages \in Nat \ {0} /\ PhUnits \in Nat \ {0} /\ PhChunk \in Nat \ {0}
  /\ PhTrouble \in Nat
ASSUME PhomemoAssumption

VARIABLES
  phPhase,    \* "connect", "attach", "build", "enter", "write", "pace", "leave", "close", "closed"
  phTries, phDialect,
  phObserved, \* a callback for status frames is installed
  phPage, phAt,     \* the page and the position in its recipe, or its unit
  phSpool,    \* pages in the spool
  phWire,     \* units of the current write that have not left yet
  phLevel,    \* cover open, paper out or overheated, as last reported
  phActive, phError, phStatusClosed,
  phFrame,    \* the frame whose first bytes have come, [report, old], or NoFrame
  phReached,  \* commands or units that have reached the printer
  phGiven,    \* pages the printer has got in full
  phReported, \* a fault of this job was reported before the job's last check
  phBegun, phVerdict, phLeft

phJob == <<phDialect, phPage, phAt, phSpool>>
phStatus == <<phObserved, phLevel, phActive, phError, phStatusClosed, phFrame, phReported>>
phPrinter == <<phWire, phReached, phGiven>>
phOutcome == <<phBegun, phVerdict>>
phVars == <<phPhase, phTries, phLeft, phJob, phStatus, phPrinter, phOutcome>>

NoFrame == [report |-> "none", old |-> FALSE]
PhReleased == phDialect \in {"spooled", "watched"}

PhRecipe ==
  CASE phDialect = "m_series" -> <<"init", "heat", "header", "raster", "feed">>
    [] phDialect = "m02" -> <<"prefix", "init", "heat", "header", "raster", "feed">>
    [] phDialect = "m04" ->
         <<"density", "heat", "init", "compression", "header", "raster", "feed", "feed">>
    [] phDialect = "m110" -> <<"speed", "density", "media", "header", "raster", "footer">>
    [] phDialect = "d" -> <<"heat", "header", "raster", "end">>
    [] phDialect = "p12" -> <<"init", "header", "raster", "feed", "feed">>
    [] phDialect = "tspl" ->
         <<"size", "gap", "offset", "density", "speed", "direction", "cls", "header",
           "raster", "newline", "print", "end">>
    [] OTHER -> [unit \in 1..PhUnits |-> "raster"]

PhInit ==
  /\ phPhase = "connect" /\ phTries = 0 /\ phLeft = PhTrouble /\ phDialect \in PhDialects
  /\ phPage = 1 /\ phAt = 1 /\ phSpool = 0 /\ phWire = 0
  /\ phObserved = FALSE /\ phLevel = FALSE /\ phActive = FALSE /\ phError = FALSE
  /\ phStatusClosed = FALSE /\ phFrame = NoFrame /\ phReported = FALSE
  /\ phReached = 0 /\ phGiven = 0 /\ phBegun = FALSE /\ phVerdict = "open"

PhTroubled == phLeft > 0 /\ phLeft' = phLeft - 1

-----------------------------------------------------------------------------
(* The connection: Classic and then BLE for the released variants, BLE for *)
(* the others, up to three times.                                          *)
PhConnect ==
  /\ phPhase = "connect"
  /\ \/ /\ phPhase' = IF phDialect = "watched" THEN "attach" ELSE IF PhReleased THEN "build" ELSE "write"
        /\ phTries' = 0 /\ UNCHANGED phVerdict
     \/ /\ phTries' = phTries + 1
        /\ IF phTries < 2 THEN UNCHANGED <<phPhase, phVerdict>>
                          ELSE phPhase' = "close" /\ phVerdict' = "refused"
  /\ UNCHANGED <<phLeft, phJob, phStatus, phPrinter, phBegun>>

(* A callback of the native Classic link, a runtime controller of a BLE    *)
(* link that can wait for notifications, or no observation at all.         *)
PhAttach ==
  /\ phPhase = "attach"
  /\ \/ phObserved' \in BOOLEAN /\ phPhase' = "build" /\ UNCHANGED <<phVerdict, phLeft>>
     \/ PhTroubled /\ phPhase' = "close" /\ phVerdict' = "refused" /\ UNCHANGED phObserved
  /\ UNCHANGED <<phTries, phJob, phLevel, phActive, phError, phStatusClosed, phFrame,
                 phReported, phPrinter, phBegun>>

-----------------------------------------------------------------------------
(* Writing: a write leaves in packets and is awaited before the next one.  *)
PhTotal == PhPages * Len(PhRecipe)

PhSend ==
  /\ phPhase \in {"write", "pace"} /\ phWire > 0
  /\ phWire' = phWire - 1 /\ phReached' = phReached + 1
  /\ phGiven' = (phReached + 1) \div Len(PhRecipe)
  /\ UNCHANGED <<phPhase, phTries, phLeft, phJob, phStatus, phOutcome>>

PhWriteCommand ==
  /\ phPhase = "write" /\ ~PhReleased /\ phWire = 0 /\ phReached < PhTotal
  /\ phWire' = 1
  /\ phBegun' = (phBegun \/ PhRecipe[phAt] = "raster")
  /\ IF phAt < Len(PhRecipe) THEN phAt' = phAt + 1 /\ UNCHANGED phPage
                             ELSE phAt' = 1 /\ phPage' = phPage + 1
  /\ UNCHANGED <<phPhase, phTries, phLeft, phDialect, phSpool, phStatus, phReached, phGiven, phVerdict>>

-----------------------------------------------------------------------------
(* The released dialects                                                   *)

(* Every page is in the spool before anything is written.                  *)
PhBuildPage ==
  /\ phPhase = "build" /\ phSpool < PhPages
  /\ phSpool' = phSpool + 1
  /\ UNCHANGED <<phPhase, phTries, phLeft, phDialect, phPage, phAt,
                 phStatus, phPrinter, phOutcome>>

PhBuilt ==
  /\ phPhase = "build" /\ phSpool = PhPages
  /\ phPhase' = IF phDialect = "watched" THEN "enter" ELSE "write"
  /\ UNCHANGED <<phTries, phLeft, phJob, phStatus, phPrinter, phOutcome>>

PhReady == ~phError /\ ~phStatusClosed /\ ~phLevel

(* released_job_scope: bytes that have come until now are no report of     *)
(* this job.                                                               *)
PhEnter ==
  /\ phPhase = "enter"
  /\ phError' = FALSE
  /\ IF ~phStatusClosed /\ ~phLevel
     THEN phActive' = TRUE /\ phPhase' = "write" /\ UNCHANGED phVerdict
     ELSE phPhase' = "close" /\ phVerdict' = "uncertain" /\ UNCHANGED phActive
  /\ phFrame' = IF phFrame = NoFrame THEN NoFrame ELSE [phFrame EXCEPT !.old = TRUE]
  /\ UNCHANGED <<phTries, phLeft, phJob, phObserved, phLevel, phStatusClosed, phReported,
                 phPrinter, phBegun>>

(* _send_spooled_pages: units are collected over the ends of pages, and    *)
(* the last chunk is what remains.                                         *)
PhWriteChunk ==
  /\ phPhase = "write" /\ phDialect = "spooled" /\ phWire = 0 /\ phReached < PhTotal
  /\ phWire' = IF PhTotal - phReached < PhChunk THEN PhTotal - phReached ELSE PhChunk
  /\ phBegun' = TRUE
  /\ UNCHANGED <<phPhase, phTries, phLeft, phJob, phStatus, phReached, phGiven, phVerdict>>

PhWritten == phWire = 0 /\ phReached = PhTotal

PhDone ==
  /\ phPhase = "write" /\ phDialect # "watched" /\ PhWritten
  /\ phPhase' = "close" /\ phVerdict' = "printed"
  /\ UNCHANGED <<phTries, phLeft, phJob, phStatus, phPrinter, phBegun>>

(* _send_released_pages: the status is read before and after each write.   *)
PhWriteUnit ==
  /\ phPhase = "write" /\ phDialect = "watched" /\ phWire = 0 /\ PhReady
  /\ phWire' = 1 /\ phBegun' = TRUE
  /\ phPhase' = IF phAt = PhUnits THEN "pace" ELSE "write"
  /\ phAt' = IF phAt = PhUnits THEN 1 ELSE phAt + 1
  /\ UNCHANGED <<phTries, phLeft, phDialect, phPage, phSpool, phStatus, phReached, phGiven, phVerdict>>

(* The estimated time of the page has passed.                              *)
PhPaced ==
  /\ phPhase = "pace" /\ phWire = 0 /\ PhReady
  /\ IF phPage < PhPages THEN phPage' = phPage + 1 /\ phPhase' = "write"
                         ELSE phPhase' = "leave" /\ UNCHANGED phPage
  /\ UNCHANGED <<phTries, phLeft, phDialect, phAt, phSpool, phStatus, phPrinter, phOutcome>>

PhNotReady ==
  /\ phPhase \in {"write", "pace"} /\ phDialect = "watched" /\ phWire = 0 /\ ~PhReady
  /\ phPhase' = "close" /\ phVerdict' = "uncertain" /\ phActive' = FALSE
  /\ UNCHANGED <<phTries, phLeft, phJob, phObserved, phLevel, phError, phStatusClosed, phFrame,
                 phReported, phPrinter, phBegun>>

(* The check that ends the scope has passed; only now is the job inactive. *)
PhLeave ==
  /\ phPhase = "leave"
  /\ phActive' = FALSE /\ phPhase' = "close" /\ phVerdict' = "printed"
  /\ UNCHANGED <<phTries, phLeft, phJob, phObserved, phLevel, phError, phStatusClosed, phFrame,
                 phReported, phPrinter, phBegun>>

-----------------------------------------------------------------------------
(* The link, the printer's reports and the end                             *)

(* A write fails, or the task is cancelled at an await.                    *)
PhBreak ==
  /\ phPhase \in {"build", "write", "pace"} /\ PhTroubled
  /\ phPhase' = "close" /\ phVerdict' = "uncertain" /\ phActive' = FALSE
  /\ phBegun' = (phBegun \/ phPhase = "write")
  /\ UNCHANGED <<phTries, phJob, phObserved, phLevel, phError, phStatusClosed, phFrame,
                 phReported, phPrinter>>

PhWatching == phObserved /\ ~phStatusClosed /\ phPhase # "closed"
PhJobRuns == phActive /\ phPhase # "leave"

(* The first bytes of a status frame.                                      *)
PhFrameBegins ==
  /\ PhWatching /\ phFrame = NoFrame /\ PhTroubled
  /\ \E report \in {"fault", "cleared", "failed"} : phFrame' = [report |-> report, old |-> ~phActive]
  /\ UNCHANGED <<phPhase, phTries, phJob, phObserved, phLevel, phActive, phError, phStatusClosed,
                 phReported, phPrinter, phOutcome>>

(* A mutated form of PhFrameEnds: a fault is a level, not an event.        *)
PhFrameEndsUnlatched ==
  /\ PhWatching /\ phFrame # NoFrame
  /\ phLevel' = CASE phFrame.report = "fault" -> TRUE
                  [] phFrame.report = "cleared" -> FALSE
                  [] OTHER -> phLevel
  /\ LET counts == phActive /\ ~phFrame.old /\ phFrame.report # "cleared" IN
     /\ phError' = (phError \/ (counts /\ phFrame.report = "failed"))
     /\ phReported' = (phReported \/ (counts /\ PhJobRuns))
  /\ phFrame' = NoFrame
  /\ UNCHANGED <<phPhase, phTries, phLeft, phJob, phObserved, phActive, phStatusClosed,
                 phPrinter, phOutcome>>

(* Its last bytes: _record_reply.  A fault that opened and closed again    *)
(* still ends the job; a frame that began before the job does not.         *)
PhFrameEnds ==
  /\ PhWatching /\ phFrame # NoFrame
  /\ phLevel' = CASE phFrame.report = "fault" -> TRUE
                  [] phFrame.report = "cleared" -> FALSE
                  [] OTHER -> phLevel
  /\ LET counts == phActive /\ ~phFrame.old /\ phFrame.report # "cleared" IN
     /\ phError' = (phError \/ counts)
     /\ phReported' = (phReported \/ (counts /\ PhJobRuns))
  /\ phFrame' = NoFrame
  /\ UNCHANGED <<phPhase, phTries, phLeft, phJob, phObserved, phActive, phStatusClosed,
                 phPrinter, phOutcome>>

(* The observation ends with the link: abort().                            *)
PhStatusLost ==
  /\ PhWatching /\ PhTroubled
  /\ phStatusClosed' = TRUE /\ phObserved' = FALSE
  /\ phError' = (phError \/ phActive)
  /\ phReported' = (phReported \/ PhJobRuns)
  /\ UNCHANGED <<phPhase, phTries, phJob, phLevel, phActive, phFrame, phPrinter, phOutcome>>

PhClose ==
  /\ phPhase = "close"
  /\ phPhase' = "closed"
  /\ phObserved' = FALSE /\ phStatusClosed' = TRUE
  /\ UNCHANGED <<phTries, phLeft, phJob, phLevel, phActive, phError, phFrame, phReported,
                 phPrinter, phOutcome>>

PhStep ==
  \/ PhConnect \/ PhAttach \/ PhWriteCommand \/ PhBuildPage \/ PhBuilt \/ PhEnter
  \/ PhSend \/ PhWriteChunk \/ PhWriteUnit \/ PhDone \/ PhPaced \/ PhNotReady \/ PhLeave \/ PhBreak \/ PhClose
PhNext == PhStep \/ PhFrameBegins \/ PhFrameEnds \/ PhStatusLost

(* The coroutine waits for nothing but the clock and its own writes.       *)
PhFairness == WF_phVars(PhStep)
PhSpec == PhInit /\ [][PhNext]_phVars /\ PhFairness

-----------------------------------------------------------------------------
(* The client keeps the promise of every printer client; a page is         *)
(* delivered when all its units have reached the printer.                  *)
PhPromise == INSTANCE ClientPromise
  WITH Pages <- PhPages, begun <- phBegun, given <- phGiven, verdict <- phVerdict
PhomemoKeepsPromise == PhPromise!Spec

(* A job whose printer reported a fault before its last check is not       *)
(* reported as printed (printing/runtime/phomemo_released.py).             *)
PhReportStopsJob == phVerdict = "printed" => ~phReported

-----------------------------------------------------------------------------
(* What holds between any two steps, from which both follow for every      *)
(* number of pages, units and reports.                                     *)
PhState ==
  /\ phPhase \in {"connect", "attach", "build", "enter", "write", "pace", "leave", "close", "closed"}
  /\ phVerdict \in {"open", "printed", "refused", "uncertain"}
  /\ phPage \in Nat \ {0} /\ phAt \in 1..Len(PhRecipe)
  /\ phWire \in Nat /\ phReached \in Nat /\ phGiven \in Nat
  /\ phActive \in BOOLEAN /\ phError \in BOOLEAN /\ phReported \in BOOLEAN /\ phBegun \in BOOLEAN

(* A verdict is given when the job is left; only a watched one is entered. *)
PhPhaseInv ==
  /\ phVerdict = "open" <=> phPhase \notin {"close", "closed"}
  /\ phPhase \in {"attach", "enter", "pace", "leave"} => phDialect = "watched"
  /\ phActive <=> phDialect = "watched" /\ phPhase \in {"write", "pace", "leave"}

(* A fault that counts is remembered while the job may still be stopped.   *)
PhFaultInv ==
  phReported => \/ phActive /\ phError /\ phPhase # "leave"
                \/ phPhase \in {"close", "closed"} /\ phVerdict # "printed"

(* What was written is what stands before the next command or unit; label  *)
(* data is the first of it to be written, or stands in the first recipe.   *)
PhCountInv ==
  LET length == Len(PhRecipe)
      sent == phReached + phWire IN
  /\ sent <= PhTotal
  /\ phGiven * length <= phReached /\ phReached < (phGiven + 1) * length
  /\ phPhase \in {"connect", "attach", "build", "enter"} => sent = 0 /\ phPage = 1 /\ phAt = 1 /\ ~phBegun
  /\ phDialect # "spooled" /\ phPhase = "write" =>
       sent = (phPage - 1) * length + phAt - 1 /\ (phDialect = "watched" => phPage <= PhPages)
  /\ phPhase = "pace" => sent = phPage * length /\ phPage <= PhPages /\ phAt = 1
  /\ phPhase = "leave" => phReached = PhTotal
  /\ phVerdict = "printed" => phReached = PhTotal
  /\ ~phBegun => /\ sent < length /\ (PhReleased => sent = 0)
                 /\ phPhase = "write" => phPage = 1 /\ \A i \in 1 .. phAt - 1 : PhRecipe[i] # "raster"

PhInv == PhState /\ PhPhaseInv /\ PhFaultInv /\ PhCountInv
=============================================================================
