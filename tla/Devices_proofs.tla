--------------------------- MODULE Devices_proofs ---------------------------
(* What holds of the parts below the executor for every number of pages,   *)
(* of writes and of troubles.  A behaviour runs one of them, and the       *)
(* others stand still: each part's invariant is kept by its own steps.     *)
(* Below them, the Bluetooth links, sockets and channels, for every number *)
(* of attempts, calls, frames and troubles.                                *)
EXTENDS MCDevices, WellFoundedInduction, TLAPS

-----------------------------------------------------------------------------
(* A step of a behaviour is, to every part, its own step or none.          *)
LEMMA DeviceParts ==
  ASSUME [DeviceMeets]_deviceVars
  PROVE  [NbNext]_nbVars /\ [PhNext]_phVars /\ [GcNext]_gcVars /\ [VcNext]_vcVars
         /\ [VxNext]_vxVars /\ [VgNext]_vgVars /\ [FxNext]_fxVars
BY DEF DeviceMeets, deviceVars

-----------------------------------------------------------------------------
(* The V5C runtime                                                         *)

LEMMA VcNoJob ==
  /\ NoJob \in [wait : BOOLEAN, fenced : BOOLEAN, finished : BOOLEAN, error : BOOLEAN]
  /\ NoJob.error /\ ~NoJob.finished /\ ~NoJob.fenced /\ ~NoJob.wait
BY DEF NoJob

LEMMA VcStarts == VcInit => VcInv
<1> SUFFICES ASSUME VcInit PROVE VcInv OBVIOUS
<1>1. vcPage \in 1..VcPages /\ vcPhase = "connect" /\ vcHalf = FALSE /\ vcTold = FALSE /\ vcScope = NoJob
  BY V5CAssumption DEF VcInit, V5CAssumption
<1> QED BY <1>1, VcNoJob DEF VcInv, VcState, VcScopeInv, VcFaultEndsJob, VcCompletionCurrent, VcInScope, VcSending

(* A status is recorded: a fault latches, a completion is what was said    *)
(* last.                                                                   *)
LEMMA VcRecords ==
  ASSUME vcScope \in [wait : BOOLEAN, fenced : BOOLEAN, finished : BOOLEAN, error : BOOLEAN],
         NEW status, NEW old \in BOOLEAN, NEW r, r = VcRecorded(status, old)
  PROVE  /\ r \in [wait : BOOLEAN, fenced : BOOLEAN, finished : BOOLEAN, error : BOOLEAN]
         /\ r.wait = vcScope.wait /\ r.fenced = vcScope.fenced
         /\ vcScope = NoJob \/ vcScope.error => r = vcScope
         /\ ~(vcScope = NoJob \/ vcScope.error) =>
              /\ r.error <=> status = "fault"
              /\ status = "fault" => r.finished
              /\ r.finished /\ status # "fault" =>
                   status # "busy" /\ (vcScope.finished \/ (status = "idle" /\ vcScope.fenced /\ ~old))
<1>1. CASE vcScope = NoJob \/ vcScope.error
  <2>1. r = vcScope BY <1>1 DEF VcRecorded
  <2> QED BY <2>1, <1>1
<1>2. CASE ~(vcScope = NoJob \/ vcScope.error) /\ status = "fault"
  <2>1. r = [vcScope EXCEPT !.error = TRUE, !.finished = TRUE] BY <1>2 DEF VcRecorded
  <2> QED BY <2>1, <1>2
<1>3. CASE ~(vcScope = NoJob \/ vcScope.error) /\ status # "fault"
  <2>1. \/ r = vcScope /\ status # "busy"
        \/ r = [vcScope EXCEPT !.finished = FALSE]
        \/ r = [vcScope EXCEPT !.finished = TRUE] /\ status = "idle" /\ vcScope.fenced /\ ~old
    BY <1>3 DEF VcRecorded
  <2> QED BY <2>1, <1>3
<1> QED BY <1>1, <1>2, <1>3

LEMMA VcStatusKept ==
  ASSUME VcInv, VcNotify PROVE VcInv'
<1> DEFINE status == Head(vcLink)
<1>1. vcScope' = VcRecorded(status, vcHalf) /\ vcHalf' = FALSE /\ vcPhase' = vcPhase /\ vcPage' = vcPage
  BY DEF VcNotify, vcJob
<1>2. vcTold' = (vcTold \/ (status = "fault" /\ vcScope # NoJob))
  BY DEF VcNotify
<1>3. vcSince' = IF status \in {"idle", "busy"} /\ vcScope.fenced /\ ~vcHalf THEN status ELSE vcSince
  BY DEF VcNotify
<1>4. VcState /\ VcScopeInv /\ VcFaultEndsJob /\ VcCompletionCurrent BY DEF VcInv
<1> HIDE DEF status
<1>5. /\ vcScope' \in [wait : BOOLEAN, fenced : BOOLEAN, finished : BOOLEAN, error : BOOLEAN]
      /\ vcScope'.wait = vcScope.wait /\ vcScope'.fenced = vcScope.fenced
      /\ vcScope = NoJob \/ vcScope.error => vcScope' = vcScope
      /\ ~(vcScope = NoJob \/ vcScope.error) =>
              /\ vcScope'.error <=> status = "fault"
              /\ status = "fault" => vcScope'.finished
              /\ vcScope'.finished /\ status # "fault" =>
                   status # "busy" /\ (vcScope.finished \/ (status = "idle" /\ vcScope.fenced /\ ~vcHalf))
  BY <1>1, <1>4, VcRecords DEF VcState
<1>6. vcTold' => vcTold \/ (status = "fault" /\ vcScope # NoJob) BY <1>2
<1>7. VcState' BY <1>1, <1>2, <1>4, <1>5 DEF VcState
<1>8. CASE ~VcInScope
  <2>1. vcScope' = NoJob /\ (vcTold' => vcTold) /\ vcSince' = vcSince /\ ~VcInScope'
    BY <1>1, <1>3, <1>4, <1>5, <1>6, <1>8, VcNoJob DEF VcScopeInv, VcInScope, VcSending
  <2> QED BY <1>1, <1>4, <1>7, <2>1 DEF VcInv, VcScopeInv, VcFaultEndsJob, VcCompletionCurrent
<1>9. CASE VcInScope
  <2>1. vcScope # NoJob BY <1>4, <1>9, VcNoJob DEF VcScopeInv
  <2>2. VcInScope' /\ vcPhase # "printed" /\ vcPhase # "between" /\ vcPhase # "connect"
    BY <1>1, <1>9 DEF VcInScope, VcSending
  <2>3. vcScope'.error => vcScope'.finished BY <1>4, <1>5, <1>9, <2>1 DEF VcScopeInv
  <2>4. vcTold' => vcScope'.error BY <1>4, <1>5, <1>6, <1>9, <2>1 DEF VcScopeInv
  <2>5. vcScope'.finished /\ ~vcScope'.error => vcSince' = "idle"
    BY <1>3, <1>4, <1>5, <1>9, <2>1 DEF VcScopeInv
  <2>6. vcScope'.wait <=> vcPage' = VcPages BY <1>1, <1>4, <1>5, <1>9 DEF VcScopeInv
  <2> QED BY <1>1, <1>7, <2>2, <2>3, <2>4, <2>5, <2>6 DEF VcInv, VcScopeInv, VcFaultEndsJob, VcCompletionCurrent
<1> QED BY <1>8, <1>9

LEMMA VcKept ==
  ASSUME VcInv, [VcNext]_vcVars PROVE VcInv'
<1> USE DEF VcInv, VcState, VcScopeInv, VcFaultEndsJob, VcCompletionCurrent, VcInScope, VcSending, NoJob
<1>1. CASE VcConnect BY <1>1 DEF VcConnect, vcJob
<1>2. CASE VcEnter
  <2>1. CASE vcScope' = vcScope /\ vcPhase' = "failed" BY <1>2, <2>1 DEF VcEnter
  <2>2. CASE vcPhase' = "setup"
    <3>1. PICK last \in BOOLEAN :
            /\ vcScope' = [wait |-> last, fenced |-> FALSE, finished |-> FALSE, error |-> FALSE]
            /\ last <=> vcPage = VcPages
      BY <1>2, <2>2 DEF VcEnter
    <3> QED BY <1>2, <2>2, <3>1 DEF VcEnter
  <2> QED BY <1>2, <2>1, <2>2 DEF VcEnter
<1>3. CASE VcWrite BY <1>3 DEF VcWrite, vcJob
<1>4. CASE VcStopped BY <1>4 DEF VcStopped, VcLeave, vcJob
<1>5. CASE VcWaited BY <1>5 DEF VcWaited, vcJob
<1>6. CASE VcTimeout BY <1>6 DEF VcTimeout, VcLeave, vcJob
<1>7. CASE VcExit BY <1>7, V5CAssumption DEF VcExit, VcNextPage, V5CAssumption
<1>8. CASE VcBreak BY <1>8 DEF VcBreak, VcLeave, vcJob
<1>9. CASE VcClose BY <1>9 DEF VcClose, vcJob
<1>10. CASE VcNotify BY <1>10, VcStatusKept
<1>11. CASE VcPrinterSpeaks BY <1>11 DEF VcPrinterSpeaks, vcJob
<1>12. CASE UNCHANGED vcVars BY <1>12 DEF vcVars, vcJob
<1> QED BY <1>1, <1>2, <1>3, <1>4, <1>5, <1>6, <1>7, <1>8, <1>9, <1>10, <1>11, <1>12 DEF VcNext, VcControllerStep
-----------------------------------------------------------------------------
(* The Phomemo client                                                      *)

(* A recipe has label data in it; a released page is nothing else.         *)
LEMMA PhRecipes ==
  /\ Len(PhRecipe) \in Nat \ {0}
  /\ \E i \in 1..Len(PhRecipe) : PhRecipe[i] = "raster"
  /\ PhReleased => Len(PhRecipe) = PhUnits /\ \A i \in 1..PhUnits : PhRecipe[i] = "raster"
<1>1. CASE phDialect = "m_series" BY <1>1 DEF PhRecipe, PhReleased
<1>2. CASE phDialect = "m02" BY <1>2 DEF PhRecipe, PhReleased
<1>3. CASE phDialect = "m04" BY <1>3 DEF PhRecipe, PhReleased
<1>4. CASE phDialect = "m110" BY <1>4 DEF PhRecipe, PhReleased
<1>5. CASE phDialect = "d" BY <1>5 DEF PhRecipe, PhReleased
<1>6. CASE phDialect = "p12" BY <1>6 DEF PhRecipe, PhReleased
<1>7. CASE phDialect = "tspl" BY <1>7 DEF PhRecipe, PhReleased
<1>8. CASE phDialect \notin {"m_series", "m02", "m04", "m110", "d", "p12", "tspl"}
  <2>1. PhRecipe = [unit \in 1..PhUnits |-> "raster"] BY <1>8 DEF PhRecipe
  <2>2. PhUnits \in Nat \ {0} BY PhomemoAssumption DEF PhomemoAssumption
  <2>3. Len(PhRecipe) = PhUnits BY <2>1, <2>2
  <2>4. 1 \in 1..PhUnits BY <2>2
  <2> QED BY <2>1, <2>2, <2>3, <2>4
<1> QED BY <1>1, <1>2, <1>3, <1>4, <1>5, <1>6, <1>7, <1>8

(* Whole pages among what has arrived.                                     *)
LEMMA PhWhole ==
  ASSUME NEW length \in Nat \ {0}, NEW n \in Nat
  PROVE  n \div length \in Nat /\ (n \div length) * length <= n /\ n < (n \div length + 1) * length
OBVIOUS

LEMMA PhOneMore ==
  ASSUME NEW length \in Nat \ {0}, NEW n \in Nat, NEW g \in Nat, NEW h \in Nat,
         g * length <= n, n < (g + 1) * length, h * length <= n + 1, n + 1 < (h + 1) * length
  PROVE  h = g \/ h = g + 1
OBVIOUS

LEMMA PhStarts == PhInit => PhInv
<1> SUFFICES ASSUME PhInit PROVE PhInv OBVIOUS
<1>1. /\ phPhase = "connect" /\ phPage = 1 /\ phAt = 1 /\ phWire = 0 /\ phObserved = FALSE /\ phLevel = FALSE
      /\ phActive = FALSE /\ phError = FALSE /\ phStatusClosed = FALSE /\ phFrame = NoFrame /\ phReported = FALSE
      /\ phReached = 0 /\ phGiven = 0 /\ phBegun = FALSE /\ phVerdict = "open"
  BY DEF PhInit
<1> DEFINE length == Len(PhRecipe)
<1>2. length \in Nat \ {0} BY PhRecipes
<1>3. PhTotal \in Nat BY <1>2, PhomemoAssumption DEF PhTotal, PhomemoAssumption
<1>4. PhState
  <2>1. phAt \in 1..length BY <1>1, <1>2
  <2> HIDE DEF length
  <2>2. phPage \in Nat \ {0} /\ phWire \in Nat /\ phReached \in Nat /\ phGiven \in Nat
    BY <1>1
  <2>3. phActive \in BOOLEAN /\ phError \in BOOLEAN /\ phReported \in BOOLEAN /\ phBegun \in BOOLEAN
    BY <1>1, Zenon
  <2> QED BY <1>1, <2>1, <2>2, <2>3 DEF PhState, length
<1>5. PhPhaseInv /\ PhFaultInv BY <1>1 DEF PhPhaseInv, PhFaultInv
<1>6. PhCountInv
  <2> HIDE DEF length
  <2>1. phReached + phWire = 0 /\ 0 <= PhTotal /\ phGiven * length <= phReached /\ phReached < (phGiven + 1) * length
    BY <1>1, <1>2, <1>3
  <2> QED BY <1>1, <1>2, <2>1 DEF PhCountInv, length
<1> QED BY <1>4, <1>5, <1>6 DEF PhInv

(* Steps that write nothing and bring nothing to the printer.              *)
LEMMA PhCountsStay ==
  ASSUME PhInv, UNCHANGED <<phDialect, phPage, phAt, phWire, phReached, phGiven, phBegun>>,
         phPhase' \in {"connect", "attach", "build", "enter"} => phPhase \in {"connect", "attach", "build", "enter"},
         phPhase' = "write" =>
           \/ phPhase = "write"
           \/ phPhase \in {"connect", "attach", "build", "enter"},
         phPhase' = "pace" => phPhase = "pace",
         phPhase' = "leave" => phPhase = "leave",
         phVerdict' = "printed" => phVerdict = "printed" \/ phReached = PhTotal
  PROVE  PhCountInv'
<1> DEFINE length == Len(PhRecipe)
           sent == phReached + phWire
<1>1. PhRecipe' = PhRecipe /\ PhTotal' = PhTotal /\ PhReleased' = PhReleased
  BY DEF PhRecipe, PhTotal, PhReleased
<1>2. length \in Nat \ {0} BY PhRecipes
<1>3. PhCountInv /\ PhState BY DEF PhInv
<1>4. sent' = sent /\ length' = length BY <1>1
<1>5. phPhase \in {"connect", "attach", "build", "enter"} =>
        sent = (phPage - 1) * length + phAt - 1 /\ phPage <= PhPages
           /\ phPage = 1 /\ \A i \in 1 .. phAt - 1 : PhRecipe[i] # "raster"
  <2> SUFFICES ASSUME phPhase \in {"connect", "attach", "build", "enter"}
               PROVE  sent = (phPage - 1) * length + phAt - 1 /\ phPage <= PhPages
                        /\ phPage = 1 /\ \A i \in 1 .. phAt - 1 : PhRecipe[i] # "raster"
    OBVIOUS
  <2>1. sent = 0 /\ phPage = 1 /\ phAt = 1 BY <1>3 DEF PhCountInv
  <2> QED BY <2>1, <1>2, PhomemoAssumption DEF PhomemoAssumption
<1> HIDE DEF length, sent
<1> QED BY <1>1, <1>2, <1>3, <1>4, <1>5 DEF PhCountInv, length, sent

LEMMA PhSendKept ==
  ASSUME PhInv, PhSend PROVE PhInv'
<1> DEFINE length == Len(PhRecipe)
<1>0. PhState /\ PhPhaseInv /\ PhFaultInv /\ PhCountInv BY DEF PhInv
<1>1. PhRecipe' = PhRecipe /\ PhTotal' = PhTotal /\ PhReleased' = PhReleased
  BY DEF PhRecipe, PhTotal, PhReleased, PhSend, phJob
<1>2. length \in Nat \ {0} BY PhRecipes
<1>3. phWire' \in Nat /\ phReached' = phReached + 1 /\ phReached' \in Nat /\ phReached' + phWire' = phReached + phWire
  BY <1>0 DEF PhSend, PhState
<1>4. phGiven' \in Nat /\ phGiven' * length <= phReached' /\ phReached' < (phGiven' + 1) * length
  <2>1. phGiven' = (phReached + 1) \div length BY DEF PhSend
  <2>2. phReached + 1 \in Nat BY <1>3
  <2> HIDE DEF length
  <2> QED BY <2>1, <2>2, <1>2, <1>3, PhWhole
<1>5. PhState' BY <1>0, <1>1, <1>3, <1>4 DEF PhState, PhSend, phJob, phStatus, phOutcome
<1>6. PhPhaseInv' /\ PhFaultInv'
  BY <1>0, <1>1 DEF PhPhaseInv, PhFaultInv, PhSend, phJob, phStatus, phOutcome
<1>7. PhCountInv'
  <2>1. phPhase' = phPhase /\ phPage' = phPage /\ phAt' = phAt /\ phDialect' = phDialect /\ phBegun' = phBegun
          /\ phVerdict' = phVerdict /\ phPhase \in {"write", "pace"} /\ phVerdict = "open"
    BY <1>0 DEF PhSend, phJob, phOutcome, PhPhaseInv
  <2> HIDE DEF length
  <2> QED BY <1>0, <1>1, <1>3, <1>4, <2>1 DEF PhCountInv, length
<1> QED BY <1>5, <1>6, <1>7 DEF PhInv

(* One page more in the count.                                             *)
LEMMA PhPages1 ==
  ASSUME NEW length \in Nat \ {0}, NEW p \in Nat \ {0}
  PROVE  /\ (p - 1) * length + length - 1 + 1 = p * length
         /\ (p + 1 - 1) * length = p * length
         /\ \A q \in Nat : p <= q => p * length <= q * length
         /\ \A q \in Nat : p # 1 => (p - 1) * length >= length
OBVIOUS

LEMMA PhCommandKept ==
  ASSUME PhInv, PhWriteCommand PROVE PhInv'
<1> DEFINE length == Len(PhRecipe)
<1>0. PhState /\ PhPhaseInv /\ PhFaultInv /\ PhCountInv BY DEF PhInv
<1>1. PhRecipe' = PhRecipe /\ PhTotal' = PhTotal /\ PhReleased' = PhReleased
  BY DEF PhRecipe, PhTotal, PhReleased, PhWriteCommand
<1>2. length \in Nat \ {0} /\ \E i \in 1..length : PhRecipe[i] = "raster" BY PhRecipes
<1>3. /\ phPhase = "write" /\ phPhase' = "write" /\ ~PhReleased /\ phWire = 0 /\ phWire' = 1 /\ phReached' = phReached
      /\ phReached < PhTotal /\ phGiven' = phGiven /\ phDialect' = phDialect /\ phVerdict' = phVerdict
      /\ phDialect \notin {"spooled", "watched"}
      /\ UNCHANGED <<phActive, phError, phReported>>
  BY DEF PhWriteCommand, PhReleased, phStatus
<1>4. phBegun' = (phBegun \/ PhRecipe[phAt] = "raster") BY DEF PhWriteCommand
<1>5. \/ phAt < length /\ phAt' = phAt + 1 /\ phPage' = phPage
      \/ phAt = length /\ phAt' = 1 /\ phPage' = phPage + 1
  BY <1>0 DEF PhWriteCommand, PhState
<1>6. /\ phReached \in Nat /\ phGiven \in Nat /\ phPage \in Nat \ {0} /\ phAt \in 1..length /\ phBegun \in BOOLEAN
      /\ phReached = (phPage - 1) * length + phAt - 1
      /\ phGiven * length <= phReached /\ phReached < (phGiven + 1) * length
  BY <1>0, <1>3 DEF PhState, PhCountInv
<1>7. ~phBegun => phPage = 1 /\ \A i \in 1 .. phAt - 1 : PhRecipe[i] # "raster"
  BY <1>0, <1>3 DEF PhCountInv
<1>8. phVerdict = "open" BY <1>0, <1>3 DEF PhPhaseInv
<1>9. PhTotal \in Nat BY <1>2, PhomemoAssumption DEF PhTotal, PhomemoAssumption
<1> HIDE DEF length
<1>10. phReached' + phWire' = (phPage' - 1) * length + phAt' - 1
  BY <1>2, <1>3, <1>5, <1>6, PhPages1
<1>11. ~phBegun' => /\ phReached + 1 < length /\ phPage' = 1
                   /\ \A i \in 1 .. phAt' - 1 : PhRecipe[i] # "raster"
  <2> SUFFICES ASSUME ~phBegun' PROVE /\ phReached + 1 < length /\ phPage' = 1
                                      /\ \A i \in 1 .. phAt' - 1 : PhRecipe[i] # "raster"
    OBVIOUS
  <2>1. ~phBegun /\ PhRecipe[phAt] # "raster" BY <1>4
  <2>2. phPage = 1 /\ \A i \in 1 .. phAt : PhRecipe[i] # "raster"
    <3>1. phPage = 1 /\ \A i \in 1 .. phAt - 1 : PhRecipe[i] # "raster" BY <1>7, <2>1
    <3> QED BY <3>1, <2>1, <1>6, <1>2
  <2>3. phAt < length BY <1>2, <1>6, <2>2
  <2>4. phReached = phAt - 1 BY <1>2, <1>6, <2>2
  <2>5. phPage' = phPage /\ phAt' = phAt + 1 BY <1>5, <2>3, <1>6
  <2> QED BY <2>2, <2>3, <2>4, <2>5, <1>6, <1>2
<1>12. PhState' BY <1>0, <1>1, <1>2, <1>3, <1>4, <1>5, <1>6 DEF PhState, length
<1>13. PhPhaseInv' /\ PhFaultInv' BY <1>0, <1>3 DEF PhPhaseInv, PhFaultInv
<1>14. PhCountInv'
  <2>1. phReached' + phWire' = phReached + 1 /\ phReached + 1 <= PhTotal BY <1>3, <1>6, <1>9
  <2> QED BY <1>1, <1>3, <1>6, <1>8, <1>10, <1>11, <2>1 DEF PhCountInv, length
<1> QED BY <1>12, <1>13, <1>14 DEF PhInv

LEMMA PhChunkKept ==
  ASSUME PhInv, PhWriteChunk PROVE PhInv'
<1> DEFINE length == Len(PhRecipe)
<1>0. PhState /\ PhPhaseInv /\ PhFaultInv /\ PhCountInv BY DEF PhInv
<1>1. PhRecipe' = PhRecipe /\ PhTotal' = PhTotal /\ PhReleased' = PhReleased
  BY DEF PhRecipe, PhTotal, PhReleased, PhWriteChunk, phJob
<1>2. length \in Nat \ {0} BY PhRecipes
<1>3. PhTotal \in Nat /\ PhChunk \in Nat \ {0} BY <1>2, PhomemoAssumption DEF PhTotal, PhomemoAssumption
<1>4. /\ phPhase = "write" /\ phPhase' = "write" /\ phDialect = "spooled" /\ phDialect' = phDialect
      /\ phWire = 0 /\ phReached < PhTotal /\ phReached' = phReached /\ phGiven' = phGiven /\ phBegun' = TRUE
      /\ UNCHANGED <<phPage, phAt, phVerdict, phActive, phError, phReported>>
  BY DEF PhWriteChunk, phJob, phStatus
<1>5. phWire' \in Nat /\ phReached + phWire' <= PhTotal
  BY <1>0, <1>3, <1>4 DEF PhWriteChunk, PhState
<1>6. phReached \in Nat /\ phGiven \in Nat /\ phGiven * length <= phReached /\ phReached < (phGiven + 1) * length
  BY <1>0 DEF PhState, PhCountInv
<1>7. PhState' BY <1>0, <1>1, <1>4, <1>5 DEF PhState
<1>8. PhPhaseInv' /\ PhFaultInv' BY <1>0, <1>4 DEF PhPhaseInv, PhFaultInv
<1>9. phVerdict = "open" BY <1>0, <1>4 DEF PhPhaseInv
<1> HIDE DEF length
<1>10. PhCountInv' BY <1>1, <1>4, <1>5, <1>6, <1>9 DEF PhCountInv, length
<1> QED BY <1>7, <1>8, <1>10 DEF PhInv

LEMMA PhUnitKept ==
  ASSUME PhInv, PhWriteUnit PROVE PhInv'
<1> DEFINE length == Len(PhRecipe)
<1>0. PhState /\ PhPhaseInv /\ PhFaultInv /\ PhCountInv BY DEF PhInv
<1>1. PhRecipe' = PhRecipe /\ PhTotal' = PhTotal /\ PhReleased' = PhReleased
  BY DEF PhRecipe, PhTotal, PhReleased, PhWriteUnit
<1>2. length \in Nat \ {0} BY PhRecipes
<1>3. PhTotal = PhPages * length /\ PhPages \in Nat BY PhomemoAssumption DEF PhTotal, PhomemoAssumption
<1>4. /\ phPhase = "write" /\ phDialect = "watched" /\ phDialect' = phDialect
      /\ phWire = 0 /\ phWire' = 1 /\ phReached' = phReached /\ phGiven' = phGiven /\ phBegun' = TRUE
      /\ UNCHANGED <<phPage, phVerdict, phActive, phError, phReported>>
  BY DEF PhWriteUnit, phStatus
<1>5. length = PhUnits BY <1>4, PhRecipes DEF PhReleased
<1>6. \/ phAt = length /\ phAt' = 1 /\ phPhase' = "pace"
      \/ phAt # length /\ phAt' = phAt + 1 /\ phPhase' = "write"
  BY <1>4, <1>5 DEF PhWriteUnit
<1>7. /\ phReached \in Nat /\ phGiven \in Nat /\ phPage \in Nat \ {0} /\ phAt \in 1..length
      /\ phGiven * length <= phReached /\ phReached < (phGiven + 1) * length
      /\ phReached = (phPage - 1) * length + phAt - 1 /\ phPage <= PhPages
  BY <1>0, <1>4 DEF PhState, PhCountInv
<1>8. PhState' BY <1>0, <1>1, <1>2, <1>4, <1>6, <1>7 DEF PhState
<1>9. PhPhaseInv' /\ PhFaultInv' BY <1>0, <1>4, <1>6 DEF PhPhaseInv, PhFaultInv
<1>10. phVerdict = "open" BY <1>0, <1>4 DEF PhPhaseInv
<1> HIDE DEF length
<1>11. (phPage - 1) * length + length = phPage * length /\ phPage * length <= PhPages * length
  BY <1>2, <1>3, <1>7, PhPages1
<1>12. phReached + 1 <= PhTotal BY <1>2, <1>3, <1>7, <1>11
<1>13. phReached + 1 = IF phAt = length THEN phPage * length ELSE (phPage - 1) * length + phAt
  BY <1>2, <1>7, <1>11
<1>14. CASE phAt = length
  <2>1. phReached + 1 = phPage * length BY <1>13, <1>14
  <2> QED BY <1>1, <1>4, <1>6, <1>7, <1>10, <1>12, <1>14, <2>1, <1>8, <1>9 DEF PhCountInv, PhInv, length
<1>15. CASE phAt # length
  <2>1. phReached + 1 = (phPage - 1) * length + phAt' - 1 BY <1>13, <1>15, <1>6, <1>7, <1>2
  <2> QED BY <1>1, <1>4, <1>6, <1>7, <1>10, <1>12, <1>15, <2>1, <1>8, <1>9 DEF PhCountInv, PhInv, length
<1> QED BY <1>14, <1>15

LEMMA PhPacedKept ==
  ASSUME PhInv, PhPaced PROVE PhInv'
<1> DEFINE length == Len(PhRecipe)
<1>0. PhState /\ PhPhaseInv /\ PhFaultInv /\ PhCountInv BY DEF PhInv
<1>1. PhRecipe' = PhRecipe /\ PhTotal' = PhTotal /\ PhReleased' = PhReleased
  BY DEF PhRecipe, PhTotal, PhReleased, PhPaced
<1>2. length \in Nat \ {0} BY PhRecipes
<1>3. PhTotal = PhPages * length /\ PhPages \in Nat BY PhomemoAssumption DEF PhTotal, PhomemoAssumption
<1>4. /\ phPhase = "pace" /\ ~phError /\ phDialect' = phDialect
      /\ phWire = 0 /\ phWire' = 0 /\ phReached' = phReached /\ phGiven' = phGiven /\ phBegun' = phBegun
      /\ UNCHANGED <<phAt, phVerdict, phActive, phError, phReported>>
  BY DEF PhPaced, phStatus, PhReady, phPrinter, phOutcome
<1>5. phDialect = "watched" /\ phVerdict = "open" BY <1>0, <1>4 DEF PhPhaseInv
<1>6. /\ phReached \in Nat /\ phGiven \in Nat /\ phPage \in Nat \ {0} /\ phAt = 1
      /\ phGiven * length <= phReached /\ phReached < (phGiven + 1) * length
      /\ phReached = phPage * length /\ phPage <= PhPages /\ phReached <= PhTotal
      /\ phBegun
  <2> HIDE DEF length
  <2>1. /\ phReached \in Nat /\ phGiven \in Nat /\ phPage \in Nat \ {0} /\ phAt = 1
        /\ phGiven * length <= phReached /\ phReached < (phGiven + 1) * length
        /\ phReached = phPage * length /\ phPage <= PhPages /\ phReached <= PhTotal
    BY <1>0, <1>4 DEF PhState, PhCountInv, length
  <2>2. phReached > 0 BY <2>1, <1>2
  <2>3. ~phBegun => phReached + phWire = 0 BY <1>0, <1>5 DEF PhCountInv, PhReleased
  <2> QED BY <2>1, <2>2, <2>3, <1>4
<1>7. \/ phPage < PhPages /\ phPage' = phPage + 1 /\ phPhase' = "write"
      \/ phPage = PhPages /\ phPage' = phPage /\ phPhase' = "leave"
  BY <1>3, <1>6 DEF PhPaced
<1>8. PhState' BY <1>0, <1>1, <1>4, <1>6, <1>7 DEF PhState
<1>9. PhPhaseInv' /\ PhFaultInv' BY <1>0, <1>4, <1>5, <1>7 DEF PhPhaseInv, PhFaultInv
<1> HIDE DEF length
<1>10. (phPage + 1 - 1) * length = phPage * length BY <1>2, <1>6, PhPages1
<1>11. CASE phPhase' = "write"
  <2>1. phReached = (phPage' - 1) * length + phAt' - 1 /\ phPage' <= PhPages
    BY <1>10, <1>7, <1>11, <1>6, <1>4, <1>3, <1>2
  <2> QED BY <1>1, <1>4, <1>5, <1>6, <1>8, <1>9, <1>11, <2>1 DEF PhCountInv, PhInv, length
<1>12. CASE phPhase' = "leave"
  <2>1. phReached = PhTotal BY <1>3, <1>6, <1>7, <1>12
  <2> QED BY <1>1, <1>4, <1>5, <1>6, <1>8, <1>9, <1>12, <2>1 DEF PhCountInv, PhInv, length
<1> QED BY <1>7, <1>11, <1>12

LEMMA PhKept ==
  ASSUME PhInv, [PhNext]_phVars PROVE PhInv'
<1>0. PhState /\ PhPhaseInv /\ PhFaultInv /\ PhCountInv BY DEF PhInv
<1>1. \/ PhWriteCommand \/ PhSend \/ PhWriteChunk \/ PhWriteUnit \/ PhPaced
      \/ UNCHANGED <<phDialect, phPage, phAt, phWire, phReached, phGiven>>
  BY DEF PhNext, PhStep, PhConnect, PhAttach, PhBuildPage, PhBuilt, PhEnter, PhDone, PhNotReady, PhLeave, PhBreak, PhClose,
     PhFrameBegins, PhFrameEnds, PhStatusLost, phVars, phJob, phStatus, phPrinter, phOutcome
<1>2. CASE UNCHANGED <<phDialect, phPage, phAt, phWire, phReached, phGiven>>
  <2>1. PhRecipe' = PhRecipe /\ PhTotal' = PhTotal /\ PhReleased' = PhReleased
    BY <1>2 DEF PhRecipe, PhTotal, PhReleased
  <2>2. CASE PhConnect
    <3>1. PhState' /\ PhPhaseInv' /\ PhFaultInv'
      BY <1>0, <1>2, <2>1, <2>2 DEF PhConnect, PhState, PhPhaseInv, PhFaultInv, phStatus, PhReleased
    <3>2. PhCountInv' BY <1>2, <2>2, PhCountsStay DEF PhConnect
    <3> QED BY <3>1, <3>2 DEF PhInv
  <2>3. CASE PhAttach
    <3>1. PhState' /\ PhPhaseInv' /\ PhFaultInv'
      BY <1>0, <1>2, <2>1, <2>3 DEF PhAttach, PhState, PhPhaseInv, PhFaultInv
    <3>2. PhCountInv' BY <1>2, <2>3, PhCountsStay DEF PhAttach
    <3> QED BY <3>1, <3>2 DEF PhInv
  <2>4. CASE PhBuildPage
    <3>1. PhState' /\ PhPhaseInv' /\ PhFaultInv'
      BY <1>0, <1>2, <2>1, <2>4 DEF PhBuildPage, PhState, PhPhaseInv, PhFaultInv, phStatus, phOutcome
    <3>2. PhCountInv' BY <1>2, <2>4, PhCountsStay DEF PhBuildPage, phOutcome
    <3> QED BY <3>1, <3>2 DEF PhInv
  <2>5. CASE PhBuilt
    <3>1. PhState' /\ PhPhaseInv' /\ PhFaultInv'
      BY <1>0, <1>2, <2>1, <2>5 DEF PhBuilt, PhState, PhPhaseInv, PhFaultInv, phStatus, phOutcome
    <3>2. PhCountInv' BY <1>2, <2>5, PhCountsStay DEF PhBuilt, phOutcome
    <3> QED BY <3>1, <3>2 DEF PhInv
  <2>6. CASE PhEnter
    <3>1. PhState' /\ PhPhaseInv' /\ PhFaultInv'
      BY <1>0, <1>2, <2>1, <2>6 DEF PhEnter, PhState, PhPhaseInv, PhFaultInv
    <3>2. PhCountInv' BY <1>2, <2>6, PhCountsStay DEF PhEnter
    <3> QED BY <3>1, <3>2 DEF PhInv
  <2>7. CASE PhDone
    <3>1. PhState' /\ PhPhaseInv' /\ PhFaultInv'
      BY <1>0, <1>2, <2>1, <2>7 DEF PhDone, PhState, PhPhaseInv, PhFaultInv, phStatus
    <3>2. PhCountInv' BY <1>2, <2>7, PhCountsStay DEF PhDone, PhWritten
    <3> QED BY <3>1, <3>2 DEF PhInv
  <2>8. CASE PhNotReady
    <3>1. PhState' /\ PhPhaseInv' /\ PhFaultInv'
      BY <1>0, <1>2, <2>1, <2>8 DEF PhNotReady, PhState, PhPhaseInv, PhFaultInv
    <3>2. PhCountInv' BY <1>2, <2>8, PhCountsStay DEF PhNotReady
    <3> QED BY <3>1, <3>2 DEF PhInv
  <2>9. CASE PhLeave
    <3>1. PhState' /\ PhPhaseInv' /\ PhFaultInv'
      BY <1>0, <1>2, <2>1, <2>9 DEF PhLeave, PhState, PhPhaseInv, PhFaultInv
    <3>2. phReached = PhTotal BY <1>0, <2>9 DEF PhLeave, PhCountInv
    <3>3. PhCountInv' BY <1>2, <2>9, <3>2, PhCountsStay DEF PhLeave
    <3> QED BY <3>1, <3>3 DEF PhInv
  <2>10. CASE PhBreak
    <3>1. PhState' /\ PhPhaseInv' /\ PhFaultInv'
      BY <1>0, <1>2, <2>1, <2>10 DEF PhBreak, PhState, PhPhaseInv, PhFaultInv
    <3>2. phPhase' = "close" /\ phVerdict' = "uncertain" /\ (~phBegun' => ~phBegun)
      BY <2>10 DEF PhBreak
    <3>3. PhCountInv' BY <1>0, <1>2, <2>1, <3>2 DEF PhCountInv
    <3> QED BY <3>1, <3>3 DEF PhInv
  <2>11. CASE PhClose
    <3>1. PhState' /\ PhPhaseInv' /\ PhFaultInv'
      BY <1>0, <1>2, <2>1, <2>11 DEF PhClose, PhState, PhPhaseInv, PhFaultInv, phOutcome
    <3>2. PhCountInv' BY <1>2, <2>11, PhCountsStay DEF PhClose, phOutcome
    <3> QED BY <3>1, <3>2 DEF PhInv
  <2>12. CASE PhFrameBegins
    <3>1. PhState' /\ PhPhaseInv' /\ PhFaultInv'
      BY <1>0, <1>2, <2>1, <2>12 DEF PhFrameBegins, PhState, PhPhaseInv, PhFaultInv, phOutcome
    <3>2. PhCountInv' BY <1>2, <2>12, PhCountsStay DEF PhFrameBegins, phOutcome
    <3> QED BY <3>1, <3>2 DEF PhInv
  <2>13. CASE PhFrameEnds
    <3>1. PICK counts \in BOOLEAN : /\ counts => phActive
                                    /\ phError' = (phError \/ counts)
                                    /\ phReported' = (phReported \/ (counts /\ PhJobRuns))
      BY <2>13 DEF PhFrameEnds
    <3>2. /\ UNCHANGED <<phPhase, phVerdict, phActive, phBegun>>
      BY <2>13 DEF PhFrameEnds, phOutcome
    <3>3. PhState' /\ PhPhaseInv' /\ PhFaultInv'
      BY <1>0, <1>2, <2>1, <3>1, <3>2 DEF PhState, PhPhaseInv, PhFaultInv, PhJobRuns
    <3>4. PhCountInv' BY <1>2, <3>2, PhCountsStay
    <3> QED BY <3>3, <3>4 DEF PhInv
  <2>14. CASE PhStatusLost
    <3>1. PhState' /\ PhPhaseInv' /\ PhFaultInv'
      BY <1>0, <1>2, <2>1, <2>14 DEF PhStatusLost, PhState, PhPhaseInv, PhFaultInv, phOutcome, PhJobRuns
    <3>2. PhCountInv' BY <1>2, <2>14, PhCountsStay DEF PhStatusLost, phOutcome
    <3> QED BY <3>1, <3>2 DEF PhInv
  <2>15. CASE UNCHANGED phVars
    <3>1. PhState' /\ PhPhaseInv' /\ PhFaultInv'
      BY <1>0, <1>2, <2>1, <2>15 DEF phVars, PhState, PhPhaseInv, PhFaultInv, phOutcome, phStatus
    <3>2. PhCountInv' BY <1>2, <2>15, PhCountsStay DEF phVars, phOutcome
    <3> QED BY <3>1, <3>2 DEF PhInv
  <2> QED
    BY <2>2, <2>3, <2>4, <2>5, <2>6, <2>7, <2>8, <2>9, <2>10, <2>11, <2>12, <2>13, <2>14, <2>15,
       PhSendKept, PhCommandKept, PhChunkKept, PhUnitKept, PhPacedKept
    DEF PhNext, PhStep
<1> QED BY <1>1, <1>2, PhSendKept, PhCommandKept, PhChunkKept, PhUnitKept, PhPacedKept

(* Every step of the client is one of the promise, or none.                *)
LEMMA PhPromiseKept ==
  ASSUME PhInv, PhInv', [PhNext]_phVars PROVE [PhPromise!Next]_(PhPromise!vars)
<1> DEFINE length == Len(PhRecipe)
<1> USE DEF PhPromise!Next, PhPromise!vars
<1>0. PhState /\ PhPhaseInv /\ PhFaultInv /\ PhCountInv /\ PhState' /\ PhCountInv' BY DEF PhInv
<1>1. length \in Nat \ {0} BY PhRecipes
<1>2. PhTotal = PhPages * length /\ PhPages \in Nat BY PhomemoAssumption DEF PhTotal, PhomemoAssumption
<1>3. CASE PhSend
  <2>1. PhRecipe' = PhRecipe /\ PhTotal' = PhTotal BY <1>3 DEF PhRecipe, PhTotal, PhSend, phJob
  <2>2. /\ phReached' = phReached + 1 /\ phBegun' = phBegun /\ phVerdict' = phVerdict /\ phWire > 0
        /\ phReached \in Nat /\ phWire \in Nat /\ phGiven \in Nat /\ phGiven' \in Nat
    BY <1>0, <1>3 DEF PhSend, phOutcome, PhState
  <2>3. /\ phGiven * length <= phReached /\ phReached < (phGiven + 1) * length
        /\ phGiven' * length <= phReached + 1 /\ phReached + 1 < (phGiven' + 1) * length
        /\ phReached + phWire <= PhTotal /\ (~phBegun => phReached + phWire < length)
    BY <1>0, <2>1, <2>2 DEF PhCountInv
  <2> HIDE DEF length
  <2>4. phGiven' = phGiven \/ phGiven' = phGiven + 1 BY <1>1, <2>2, <2>3, PhOneMore
  <2>5. phGiven' = phGiven + 1 => phBegun /\ phGiven < PhPages
    <3> SUFFICES ASSUME phGiven' = phGiven + 1 PROVE phBegun /\ phGiven < PhPages OBVIOUS
    <3>1. (phGiven + 1) * length <= PhPages * length BY <1>1, <1>2, <2>2, <2>3
    <3>2. phGiven + 1 <= PhPages BY <3>1, <1>1, <1>2, <2>2
    <3>3. length <= (phGiven + 1) * length BY <1>1, <2>2
    <3>4. ~(phReached + phWire < length) BY <3>3, <1>1, <2>2, <2>3
    <3> QED BY <3>2, <3>4, <2>2, <2>3, <1>2
  <2> QED BY <2>2, <2>4, <2>5 DEF PhPromise!Give
<1>4. CASE phGiven' = phGiven /\ phVerdict' = phVerdict /\ (phBegun => phBegun') /\ phVerdict = "open"
  <2>1. phBegun \in BOOLEAN /\ phBegun' \in BOOLEAN BY <1>0 DEF PhState
  <2> QED BY <1>4, <2>1 DEF PhPromise!Begin
<1>5. CASE UNCHANGED <<phGiven, phVerdict, phBegun>> BY <1>5
<1>6. CASE phGiven' = phGiven /\ phVerdict = "open" /\ phVerdict' = "uncertain" /\ (phBegun => phBegun')
  <2>1. phBegun \in BOOLEAN /\ phBegun' \in BOOLEAN BY <1>0 DEF PhState
  <2> QED BY <1>6, <2>1 DEF PhPromise!GiveUp
<1>7. CASE phGiven' = phGiven /\ phVerdict = "open" /\ phVerdict' = "refused" /\ phBegun' = phBegun /\ ~phBegun
  BY <1>7 DEF PhPromise!Refuse
<1>8. CASE phGiven' = phGiven /\ phVerdict = "open" /\ phVerdict' = "printed" /\ phBegun' = phBegun /\ phReached = PhTotal
  <2>1. phGiven \in Nat /\ phReached \in Nat /\ phGiven * length <= phReached /\ phReached < (phGiven + 1) * length
    BY <1>0 DEF PhState, PhCountInv
  <2> HIDE DEF length
  <2>2. phGiven * length <= PhPages * length /\ PhPages * length < (phGiven + 1) * length
    BY <1>2, <1>8, <2>1
  <2>3. phGiven <= PhPages /\ PhPages < phGiven + 1 BY <2>2, <2>1, <1>1, <1>2
  <2>4. phGiven = PhPages BY <2>3, <2>1, <1>2
  <2> QED BY <1>8, <2>4 DEF PhPromise!Return
<1>9. /\ phPhase \notin {"close", "closed"} => phVerdict = "open"
      /\ phPhase \in {"connect", "attach", "build", "enter"} => ~phBegun
      /\ phPhase = "leave" => phReached = PhTotal
      /\ phBegun \in BOOLEAN
  BY <1>0 DEF PhPhaseInv, PhCountInv, PhState
<1>10. CASE PhWriteCommand \/ PhWriteChunk \/ PhWriteUnit
  BY <1>4, <1>9, <1>10 DEF PhWriteCommand, PhWriteChunk, PhWriteUnit
<1>11. CASE PhConnect BY <1>5, <1>7, <1>9, <1>11 DEF PhConnect, phPrinter
<1>12. CASE PhAttach BY <1>5, <1>7, <1>9, <1>12 DEF PhAttach, phPrinter
<1>13. CASE PhBuildPage \/ PhBuilt \/ PhPaced \/ PhClose \/ PhFrameBegins \/ PhFrameEnds \/ PhStatusLost \/ UNCHANGED phVars
  BY <1>5, <1>13 DEF PhBuildPage, PhBuilt, PhPaced, PhClose, PhFrameBegins, PhFrameEnds, PhStatusLost, phVars, phPrinter,
     phOutcome
<1>14. CASE PhEnter BY <1>5, <1>6, <1>9, <1>14 DEF PhEnter, phPrinter
<1>15. CASE PhDone BY <1>8, <1>9, <1>15 DEF PhDone, phPrinter, PhWritten
<1>16. CASE PhNotReady BY <1>6, <1>9, <1>16 DEF PhNotReady, phPrinter
<1>17. CASE PhLeave BY <1>8, <1>9, <1>17 DEF PhLeave, phPrinter
<1>18. CASE PhBreak
  <2>1. phGiven' = phGiven /\ phVerdict = "open" /\ phVerdict' = "uncertain" /\ (phBegun => phBegun')
    BY <1>9, <1>18 DEF PhBreak, phPrinter
  <2> QED BY <1>6, <2>1
<1> QED
  BY <1>3, <1>10, <1>11, <1>12, <1>13, <1>14, <1>15, <1>16, <1>17, <1>18 DEF PhNext, PhStep

-----------------------------------------------------------------------------
(* The generic client                                                      *)

(* A plan begins with data, and does not end with its first step.          *)
LEMMA GcPlans ==
  Len(GcPlan) \in Nat \ {0, 1} /\ GcPlan[1] = "send"
<1>1. CASE gcFamily = "interactive" BY <1>1 DEF GcPlan
<1>2. CASE gcFamily # "interactive" BY <1>2 DEF GcPlan
<1> QED BY <1>1, <1>2

LEMMA GcNoScope ==
  NoScope \in [finished : BOOLEAN, error : BOOLEAN] /\ NoScope.error
BY DEF NoScope

LEMMA GcStarts == GcInit => GcInv
<1> SUFFICES ASSUME GcInit PROVE GcInv OBVIOUS
<1>1. gcPhase = "connect" /\ gcPage = 1 /\ gcAt = 1 /\ gcReached = 0 /\ gcEjected = 0 /\ gcIn = <<>>
        /\ gcVerdict = "open" /\ gcScope = NoScope /\ gcAsked = -1
  BY DEF GcInit
<1>2. gcPartial \in BOOLEAN /\ gcBegun \in BOOLEAN /\ ~gcBegun BY DEF GcInit
<1>3. 1 \in 1..GcPages /\ 1 \in 1..Len(GcPlan) BY GenericAssumption, GcPlans DEF GenericAssumption
<1>4. GcPages \in Nat \ {0} BY GenericAssumption DEF GenericAssumption
<1>5. GcState BY <1>1, <1>2, <1>3, GcNoScope DEF GcState
<1>6. GcPageInv BY <1>1, <1>2, <1>4 DEF GcPageInv
<1>7. GcCompletionInv BY <1>1 DEF GcCompletionInv
<1> QED BY <1>5, <1>6, <1>7 DEF GcInv

(* Leaving by an error.                                                    *)
LEMMA GcFailKept ==
  ASSUME GcInv, GcFail, gcVerdict = "open", UNCHANGED <<gcFamily, gcPage, gcAt, gcReached, gcEjected, gcIn>>,
         gcBegun' \in BOOLEAN, gcBegun => gcBegun', gcPartial' \in BOOLEAN
  PROVE  GcInv'
<1>1. GcState /\ GcPageInv BY DEF GcInv
<1>2. GcPlan' = GcPlan BY DEF GcPlan
<1>3. gcPhase' = "close" /\ gcVerdict' = "uncertain" /\ gcScope' = NoScope BY DEF GcFail
<1>4. GcState' BY <1>1, <1>2, <1>3, GcNoScope DEF GcState
<1>5. GcPageInv' BY <1>1, <1>3 DEF GcPageInv, GcState
<1>6. GcCompletionInv' BY <1>3 DEF GcCompletionInv
<1> QED BY <1>4, <1>5, <1>6 DEF GcInv

(* What is on the way, the next one decoded and one more sent.             *)
LEMMA GcFrames ==
  ASSUME gcIn \in Seq({"done", "fault"})
  PROVE  /\ gcIn # <<>> => /\ Tail(gcIn) \in Seq({"done", "fault"})
                           /\ Head(gcIn) = gcIn[1] /\ 1 \in DOMAIN gcIn
                           /\ \A i \in DOMAIN Tail(gcIn) : i + 1 \in DOMAIN gcIn /\ Tail(gcIn)[i] = gcIn[i + 1] /\ i \in Nat \ {0}
         /\ \A f \in {"done", "fault"} :
              /\ Append(gcIn, f) \in Seq({"done", "fault"})
              /\ \A i \in DOMAIN Append(gcIn, f) :
                   \/ i \in DOMAIN gcIn /\ Append(gcIn, f)[i] = gcIn[i] /\ i < Len(gcIn) + 1
                   \/ i = Len(gcIn) + 1 /\ Append(gcIn, f)[i] = f
         /\ \A i \in DOMAIN gcIn : i \in Nat \ {0} /\ gcIn[i] \in {"done", "fault"}
         /\ <<"done">> \in Seq({"done", "fault"}) /\ \A i \in DOMAIN <<"done">> : i = 1
OBVIOUS

LEMMA GcNotifyKept ==
  ASSUME GcInv, GcNotify PROVE GcInv'
<1>0. GcState /\ GcPageInv /\ GcCompletionInv BY DEF GcInv
<1>1. /\ gcIn # <<>> /\ gcIn' = Tail(gcIn) /\ gcPartial' = FALSE /\ gcScope' = GcDecoded(gcPartial)
      /\ UNCHANGED <<gcPhase, gcFamily, gcPage, gcAt, gcReached, gcEjected, gcBegun, gcVerdict, gcAsked>>
  BY DEF GcNotify, gcConnection, gcJob, gcOutcome, gcQuery
<1>2. GcPlan' = GcPlan BY <1>1 DEF GcPlan
<1>3. /\ gcIn' \in Seq({"done", "fault"}) /\ 1 \in DOMAIN gcIn
      /\ \A i \in DOMAIN gcIn' : i + 1 \in DOMAIN gcIn /\ gcIn'[i] = gcIn[i + 1] /\ i \in Nat \ {0}
  BY <1>0, <1>1, GcFrames DEF GcState
<1>4. /\ gcScope.error => gcScope' = gcScope
      /\ ~gcScope.error => \/ gcScope' = [finished |-> TRUE, error |-> TRUE]
                           \/ gcScope' = [finished |-> TRUE, error |-> FALSE] /\ gcIn[1] = "done" /\ ~gcPartial
                           \/ gcScope' = gcScope /\ (gcIn[1] = "done" => gcPartial)
  BY <1>0, <1>1, GcFrames DEF GcDecoded, GcState
<1>5. gcScope' \in [finished : BOOLEAN, error : BOOLEAN]
  <2>1. gcScope \in [finished : BOOLEAN, error : BOOLEAN] BY <1>0 DEF GcState
  <2>2. [finished |-> TRUE, error |-> TRUE] \in [finished : BOOLEAN, error : BOOLEAN] OBVIOUS
  <2>3. [finished |-> TRUE, error |-> FALSE] \in [finished : BOOLEAN, error : BOOLEAN] OBVIOUS
  <2> QED BY <1>4, <2>1, <2>2, <2>3
<1>6. GcState' BY <1>0, <1>1, <1>2, <1>3, <1>5 DEF GcState
<1>7. GcPageInv' BY <1>0, <1>1 DEF GcPageInv
<1>8. GcCompletionInv'
  <2> SUFFICES ASSUME gcFamily = "printmaster", gcVerdict = "open" PROVE GcCompletionInv'
    BY <1>1 DEF GcCompletionInv
  <2>1. CASE gcPhase \notin {"steps", "complete"}
    <3>1. gcScope' = NoScope BY <1>0, <1>4, <2>1, GcNoScope DEF GcCompletionInv
    <3>2. \A i \in DOMAIN gcIn' : gcIn'[i] # "done" BY <1>0, <1>3, <2>1 DEF GcCompletionInv
    <3> QED BY <1>0, <1>1, <2>1, <3>1, <3>2 DEF GcCompletionInv
  <2>2. CASE gcPhase \in {"steps", "complete"} /\ ~gcScope'.error
    <3>1. ~gcScope.error BY <1>4, <2>2
    <3>2. /\ gcPhase # "complete" => gcEjected = gcReached
          /\ gcEjected = gcPage - 1 =>
              ~gcScope.finished /\ \A i \in DOMAIN gcIn : gcIn[i] = "done" => i = 1 /\ gcPartial
          /\ gcEjected \in {gcPage - 1, gcPage}
          /\ gcScope.finished => \A i \in DOMAIN gcIn : gcIn[i] # "done"
          /\ \A i, k \in DOMAIN gcIn : i < k /\ gcIn[i] = "done" /\ gcIn[k] = "done" => i = 1 /\ gcPartial
      BY <1>0, <2>2, <3>1 DEF GcCompletionInv
    <3>3. \A i, k \in DOMAIN gcIn' : i < k /\ gcIn'[i] = "done" /\ gcIn'[k] = "done" => FALSE
      BY <1>3, <3>2
    <3>4. gcEjected = gcPage - 1 => gcScope' = gcScope /\ \A i \in DOMAIN gcIn' : gcIn'[i] # "done"
      <4> SUFFICES ASSUME gcEjected = gcPage - 1
                   PROVE  gcScope' = gcScope /\ \A i \in DOMAIN gcIn' : gcIn'[i] # "done"
        OBVIOUS
      <4>1. gcIn[1] = "done" => gcPartial BY <1>3, <3>2
      <4>2. gcScope' # [finished |-> TRUE, error |-> TRUE] BY <2>2
      <4>3. \A i \in DOMAIN gcIn' : gcIn'[i] # "done" BY <1>3, <3>2
      <4> QED BY <1>4, <3>1, <4>1, <4>2, <4>3
    <3>5. gcScope'.finished => \A i \in DOMAIN gcIn' : gcIn'[i] # "done"
      <4>1. CASE gcScope' = gcScope BY <1>3, <3>2, <4>1
      <4>2. CASE gcIn[1] = "done" /\ ~gcPartial BY <1>3, <3>2, <4>2
      <4>3. gcScope' # [finished |-> TRUE, error |-> TRUE] BY <2>2
      <4> QED BY <1>4, <3>1, <4>1, <4>2, <4>3
    <3> QED BY <1>1, <2>2, <3>2, <3>3, <3>4, <3>5 DEF GcCompletionInv
  <2>3. CASE gcPhase \in {"steps", "complete"} /\ gcScope'.error
    BY <1>0, <1>1, <2>3 DEF GcCompletionInv
  <2> QED BY <2>1, <2>2, <2>3
<1> QED BY <1>6, <1>7, <1>8 DEF GcInv

(* Nothing of the job changes.                                             *)
LEMMA GcStill ==
  ASSUME GcInv, gcAsked' = gcAsked \/ (gcPhase = "steps" /\ gcAt # 1),
         UNCHANGED <<gcPhase, gcFamily, gcPage, gcAt, gcReached, gcEjected, gcIn, gcPartial, gcScope, gcBegun, gcVerdict>>
  PROVE  GcInv'
<1>1. GcPlan' = GcPlan BY DEF GcPlan
<1> QED BY <1>1 DEF GcInv, GcState, GcPageInv, GcCompletionInv

(* Before the first page.                                                  *)
LEMMA GcBeginningKept ==
  ASSUME GcInv, GcConnect \/ GcAttach \/ GcProbe \/ GcBuild PROVE GcInv'
<1>0. GcState /\ GcPageInv /\ GcCompletionInv BY DEF GcInv
<1>1. /\ UNCHANGED <<gcFamily, gcPage, gcAt, gcReached, gcEjected, gcIn, gcPartial, gcScope, gcBegun, gcAsked>>
      /\ gcPhase \in {"connect", "attach", "probe", "build"}
      /\ \/ gcPhase' \in {"connect", "attach", "probe", "build", "page"} /\ gcVerdict' = gcVerdict
         \/ gcPhase' = "close" /\ gcVerdict' = "refused"
  BY DEF GcConnect, GcAttach, GcProbe, GcBuild, gcConnection, gcJob, gcQuery, gcRuntime, gcPrinter, gcOutcome
<1>2. GcPlan' = GcPlan BY <1>1 DEF GcPlan
<1>3. GcState' BY <1>0, <1>1, <1>2 DEF GcState
<1>4. GcPageInv' BY <1>0, <1>1 DEF GcPageInv, GcState
<1>5. GcCompletionInv' BY <1>0, <1>1 DEF GcCompletionInv, GcPageInv
<1> QED BY <1>3, <1>4, <1>5 DEF GcInv

LEMMA GcEnterKept ==
  ASSUME GcInv, GcEnterPage PROVE GcInv'
<1>0. GcState /\ GcPageInv /\ GcCompletionInv BY DEF GcInv
<1>1. /\ UNCHANGED <<gcFamily, gcPage, gcReached, gcEjected, gcIn, gcBegun, gcAsked>>
      /\ gcPhase = "page" /\ gcAt' = 1 /\ gcPartial' = (gcIn # <<>>)
  BY DEF GcEnterPage, gcConnection, gcQuery
<1>2. GcPlan' = GcPlan BY <1>1 DEF GcPlan
<1>3. gcAt' \in 1..Len(GcPlan') BY <1>1, <1>2, GcPlans
<1>4. gcPartial' \in BOOLEAN BY <1>1
<1>5. CASE GcFail
  <2>1. gcPhase' = "close" /\ gcVerdict' = "uncertain" /\ gcScope' = NoScope BY <1>5 DEF GcFail
  <2>2. GcState' BY <1>0, <1>1, <1>2, <1>3, <1>4, <2>1, GcNoScope DEF GcState
  <2>3. GcPageInv' BY <1>0, <1>1, <2>1 DEF GcPageInv, GcState
  <2>4. GcCompletionInv' BY <2>1 DEF GcCompletionInv
  <2> QED BY <2>2, <2>3, <2>4 DEF GcInv
<1>6. CASE gcPhase' = "steps"
  <2>1. /\ gcVerdict' = gcVerdict
        /\ gcFamily = "printmaster" => gcScope' = [finished |-> FALSE, error |-> FALSE]
        /\ gcFamily # "printmaster" => gcScope' = NoScope
    BY <1>6 DEF GcEnterPage, GcFail
  <2>2. [finished |-> FALSE, error |-> FALSE] \in [finished : BOOLEAN, error : BOOLEAN] OBVIOUS
  <2>3. GcState' BY <1>0, <1>1, <1>2, <1>3, <1>4, <1>6, <2>1, <2>2, GcNoScope DEF GcState
  <2>4. GcPageInv' BY <1>0, <1>1, <1>6, <2>1 DEF GcPageInv, GcState
  <2>5. GcCompletionInv'
    <3> SUFFICES ASSUME gcFamily = "printmaster", gcVerdict = "open" PROVE GcCompletionInv'
      BY <1>1, <2>1 DEF GcCompletionInv
    <3>1. gcEjected = gcPage - 1 /\ gcPage \in Nat /\ \A i \in DOMAIN gcIn : gcIn[i] = "done" => i = 1
      BY <1>0, <1>1 DEF GcCompletionInv, GcPageInv, GcState
    <3>2. \A i \in DOMAIN gcIn : gcPartial'
      <4>1. \A i \in DOMAIN gcIn : gcIn # <<>> OBVIOUS
      <4> QED BY <1>1, <4>1, Zenon
    <3>3. ~gcScope'.finished BY <2>1
    <3> QED BY <1>0, <1>1, <1>6, <2>1, <3>1, <3>2, <3>3 DEF GcCompletionInv
  <2> QED BY <2>3, <2>4, <2>5 DEF GcInv
<1> QED BY <1>5, <1>6 DEF GcEnterPage

(* A step is over, or the page is.                                         *)
LEMMA GcNextStepKept ==
  ASSUME GcInv, GcNextStep, gcPhase = "steps", UNCHANGED <<gcFamily, gcPage, gcEjected, gcIn, gcPartial, gcScope, gcVerdict>>,
         gcBegun' \in BOOLEAN, gcBegun => gcBegun', gcAt = 1 => gcBegun'
  PROVE  GcInv'
<1>0. GcState /\ GcPageInv /\ GcCompletionInv BY DEF GcInv
<1>1. \/ gcAt < Len(GcPlan) /\ gcAt' = gcAt + 1 /\ gcPhase' = "steps" /\ gcReached' = gcReached
      \/ gcAt = Len(GcPlan) /\ gcAt' = gcAt /\ gcPhase' = "complete" /\ gcReached' = gcPage
  BY <1>0 DEF GcNextStep, GcState
<1>2. GcPlan' = GcPlan BY DEF GcPlan
<1>3. gcBegun' /\ gcAsked' = -1 BY <1>0 DEF GcPageInv, GcState, GcNextStep
<1>4. GcState' BY <1>0, <1>1, <1>2, GcPlans DEF GcState
<1>5. GcPageInv' BY <1>0, <1>1, <1>3 DEF GcPageInv, GcState
<1>6. GcCompletionInv' BY <1>0, <1>1 DEF GcCompletionInv, GcPageInv, GcState
<1> QED BY <1>4, <1>5, <1>6 DEF GcInv

(* A page is over.                                                         *)
LEMMA GcNextPageKept ==
  ASSUME GcInv, GcNextPage, gcPhase = "complete", UNCHANGED <<gcFamily, gcAt, gcReached, gcEjected, gcIn, gcPartial, gcBegun, gcAsked>>,
         gcFamily = "printmaster" => gcScope.finished /\ ~gcScope.error
  PROVE  GcInv'
<1>0. GcState /\ GcPageInv /\ GcCompletionInv BY DEF GcInv
<1>1. /\ gcScope' = NoScope
      /\ \/ gcPage < GcPages /\ gcPage' = gcPage + 1 /\ gcPhase' = "page" /\ gcVerdict' = gcVerdict
         \/ gcPage' = gcPage /\ gcPhase' = "close" /\ gcVerdict' = "printed"
  BY DEF GcNextPage
<1>2. GcPlan' = GcPlan BY DEF GcPlan
<1>3. GcPages \in Nat \ {0} BY GenericAssumption DEF GenericAssumption
<1>4. GcState' BY <1>0, <1>1, <1>2, <1>3, GcNoScope DEF GcState
<1>5. gcVerdict = "open" /\ gcReached = gcPage BY <1>0 DEF GcPageInv
<1>6. GcPageInv' BY <1>0, <1>1, <1>3, <1>5 DEF GcPageInv, GcState
<1>7. GcCompletionInv'
  <2> SUFFICES ASSUME gcFamily = "printmaster", gcVerdict' = "open" PROVE GcCompletionInv'
    BY DEF GcCompletionInv
  <2>1. gcEjected = gcPage /\ \A i \in DOMAIN gcIn : gcIn[i] # "done"
    BY <1>0, <1>5 DEF GcCompletionInv
  <2> QED BY <1>0, <1>1, <1>5, <2>1 DEF GcCompletionInv, GcState
<1> QED BY <1>4, <1>6, <1>7 DEF GcInv

LEMMA GcEjectsKept ==
  ASSUME GcInv, GcPrinterEjects PROVE GcInv'
<1>0. GcState /\ GcPageInv /\ GcCompletionInv BY DEF GcInv
<1>1. /\ gcEjected < gcReached /\ gcEjected' = gcEjected + 1
      /\ gcIn' = Append(gcIn, "done") \/ gcIn' = gcIn
      /\ UNCHANGED <<gcPhase, gcFamily, gcPage, gcAt, gcReached, gcPartial, gcScope, gcBegun, gcVerdict, gcAsked>>
  BY DEF GcPrinterEjects, gcConnection, gcJob, gcRuntime, gcOutcome, gcQuery
<1>2. GcPlan' = GcPlan BY <1>1 DEF GcPlan
<1>3. gcIn' \in Seq({"done", "fault"}) BY <1>0, <1>1, GcFrames DEF GcState
<1>4. GcState' BY <1>0, <1>1, <1>2, <1>3 DEF GcState
<1>5. GcPageInv' BY <1>0, <1>1 DEF GcPageInv, GcState
<1>6. GcCompletionInv'
  <2> SUFFICES ASSUME gcFamily = "printmaster", gcVerdict = "open" PROVE GcCompletionInv'
    BY <1>1 DEF GcCompletionInv
  <2>1. gcPhase = "complete" /\ gcReached = gcPage BY <1>0, <1>1 DEF GcCompletionInv, GcPageInv, GcState
  <2>2. CASE gcScope.error BY <1>0, <1>1, <2>1, <2>2 DEF GcCompletionInv
  <2>3. CASE ~gcScope.error
    <3>1. gcEjected = gcPage - 1 BY <1>0, <1>1, <2>1, <2>3 DEF GcCompletionInv, GcState
    <3>2. ~gcScope.finished /\ \A i \in DOMAIN gcIn : gcIn[i] = "done" => i = 1 /\ gcPartial
      BY <1>0, <2>1, <2>3, <3>1 DEF GcCompletionInv
    <3>3. \A i \in DOMAIN gcIn' : \/ gcIn'[i] = "done" => i = 1 /\ gcPartial
                                 \/ i = Len(gcIn) + 1
      BY <1>0, <1>1, <3>2, GcFrames DEF GcState
    <3>4. \A i, k \in DOMAIN gcIn' : i < k /\ gcIn'[i] = "done" => i = 1 /\ gcPartial
      <4>1. \A i \in DOMAIN gcIn' : i <= Len(gcIn) + 1 BY <1>0, <1>1, GcFrames DEF GcState
      <4>2. \A i \in DOMAIN gcIn' : i \in Nat BY <1>3
      <4>3. Len(gcIn) \in Nat BY <1>0 DEF GcState
      <4> QED BY <3>3, <4>1, <4>2, <4>3
    <3>5. gcEjected' = gcPage' /\ gcEjected' # gcPage' - 1 BY <1>0, <1>1, <3>1 DEF GcState
    <3> QED BY <1>1, <2>1, <3>2, <3>4, <3>5 DEF GcCompletionInv
  <2> QED BY <2>2, <2>3
<1> QED BY <1>4, <1>5, <1>6 DEF GcInv

LEMMA GcReportsKept ==
  ASSUME GcInv, GcPrinterReports PROVE GcInv'
<1>0. GcState /\ GcPageInv /\ GcCompletionInv BY DEF GcInv
<1>1. /\ \/ gcIn' = Append(gcIn, "fault")
         \/ gcPhase = "page" /\ gcIn = <<>> /\ gcIn' = <<"done">>
      /\ UNCHANGED <<gcPhase, gcFamily, gcPage, gcAt, gcReached, gcEjected, gcPartial, gcScope, gcBegun, gcVerdict, gcAsked>>
  BY DEF GcPrinterReports, gcConnection, gcJob, gcRuntime, gcOutcome, gcQuery
<1>2. GcPlan' = GcPlan BY <1>1 DEF GcPlan
<1>3. gcIn' \in Seq({"done", "fault"}) BY <1>0, <1>1, GcFrames DEF GcState
<1>4. GcState' BY <1>0, <1>1, <1>2, <1>3 DEF GcState
<1>5. GcPageInv' BY <1>0, <1>1 DEF GcPageInv
<1>6. GcCompletionInv'
  <2>1. CASE gcIn' = Append(gcIn, "fault")
    <3>1. \A i \in DOMAIN gcIn' : gcIn'[i] = "done" => i \in DOMAIN gcIn /\ gcIn[i] = "done"
      BY <1>0, <2>1, GcFrames DEF GcState
    <3> HIDE <2>1
    <3> QED BY <1>0, <1>1, <3>1 DEF GcCompletionInv
  <2>2. CASE gcPhase = "page" /\ gcIn' = <<"done">>
    <3>1. \A i \in DOMAIN gcIn' : i = 1 BY <1>0, <2>2, GcFrames DEF GcState
    <3> QED BY <1>0, <1>1, <2>2, <3>1 DEF GcCompletionInv
  <2> QED BY <1>1, <2>1, <2>2
<1> QED BY <1>4, <1>5, <1>6 DEF GcInv

LEMMA GcAnsweredKept ==
  ASSUME GcInv, GcAnswered PROVE GcInv'
<1>0. GcState /\ GcPageInv BY DEF GcInv
<1>1. UNCHANGED <<gcFamily, gcPage, gcEjected, gcIn, gcPartial, gcBegun>> /\ gcPhase = "steps" /\ gcAsked >= 0
  BY DEF GcAnswered, gcConnection
<1>2. gcBegun \in BOOLEAN /\ gcPartial \in BOOLEAN /\ gcVerdict = "open" /\ gcAt # 1
  BY <1>0, <1>1 DEF GcState, GcPageInv
<1>3. CASE UNCHANGED <<gcPhase, gcAt, gcReached, gcScope, gcVerdict>> BY <1>1, <1>2, <1>3, GcStill
<1>4. CASE GcNextStep /\ UNCHANGED <<gcScope, gcVerdict>> BY <1>1, <1>2, <1>4, GcNextStepKept
<1>5. CASE GcFail /\ UNCHANGED <<gcAt, gcReached, gcQuery>> BY <1>1, <1>2, <1>5, GcFailKept
<1> QED BY <1>3, <1>4, <1>5 DEF GcAnswered

LEMMA GcKept ==
  ASSUME GcInv, [GcNext]_gcVars PROVE GcInv'
<1>0. GcState /\ GcPageInv BY DEF GcInv
<1>0a. gcBegun \in BOOLEAN /\ gcPartial \in BOOLEAN BY <1>0 DEF GcState
<1>0b. gcPhase \notin {"close", "closed"} => gcVerdict = "open" BY <1>0 DEF GcPageInv
<1> USE DEF gcConnection, gcJob, gcQuery, gcRuntime, gcPrinter, gcOutcome
<1>1. CASE GcConnect \/ GcAttach \/ GcProbe \/ GcBuild BY <1>1, GcBeginningKept
<1>2. CASE GcEnterPage BY <1>2, GcEnterKept
<1>3. CASE GcSend
  <2>1. GcNextStep /\ gcPhase = "steps" /\ gcBegun' = TRUE
          /\ UNCHANGED <<gcFamily, gcPage, gcEjected, gcIn, gcPartial, gcScope, gcVerdict>>
    BY <1>3 DEF GcSend
  <2> QED BY <2>1, GcNextStepKept
<1>4. CASE GcAsk
  <2>1. gcPhase = "steps" /\ gcAt # 1 BY <1>4, GcPlans DEF GcAsk, GcStep
  <2> QED BY <1>4, <2>1, GcStill DEF GcAsk
<1>5. CASE GcReplies \/ UNCHANGED gcVars BY <1>5, GcStill DEF GcReplies, gcVars
<1>6. CASE GcAnswered BY <1>6, GcAnsweredKept
<1>7. CASE GcPageCompleted
  <2>1. gcPhase = "complete" /\ UNCHANGED <<gcFamily, gcAt, gcReached, gcEjected, gcIn, gcPartial, gcBegun, gcAsked>>
    BY <1>7 DEF GcPageCompleted
  <2>2. CASE GcFail /\ gcPage' = gcPage BY <1>0a, <1>0b, <2>1, <2>2, GcFailKept
  <2>3. CASE GcNextPage /\ gcScope.finished /\ ~gcScope.error BY <2>1, <2>3, GcNextPageKept
  <2> QED BY <1>7, <2>2, <2>3 DEF GcPageCompleted
<1>8. CASE GcPageTimeout
  <2>1. gcPhase = "complete" /\ GcFail /\ UNCHANGED <<gcFamily, gcPage, gcAt, gcReached, gcEjected, gcIn, gcPartial, gcBegun>>
    BY <1>8 DEF GcPageTimeout
  <2> QED BY <1>0a, <1>0b, <2>1, GcFailKept
<1>9. CASE GcPageSent
  <2>1. GcNextPage /\ gcFamily # "printmaster" /\ gcPhase = "complete"
          /\ UNCHANGED <<gcFamily, gcAt, gcReached, gcEjected, gcIn, gcPartial, gcBegun, gcAsked>>
    BY <1>9 DEF GcPageSent
  <2> QED BY <2>1, GcNextPageKept
<1>10. CASE GcPrinterEjects BY <1>10, GcEjectsKept
<1>11. CASE GcPrinterReports BY <1>11, GcReportsKept
<1>12. CASE GcNotify BY <1>12, GcNotifyKept
<1>13. CASE GcBreak
  <2>1. /\ GcFail /\ gcPhase \notin {"close", "closed"} /\ gcBegun' = (gcBegun \/ gcPhase = "steps")
        /\ UNCHANGED <<gcFamily, gcPage, gcAt, gcReached, gcEjected, gcIn, gcPartial>>
    BY <1>13 DEF GcBreak
  <2>2. gcBegun' \in BOOLEAN /\ (gcBegun => gcBegun') BY <2>1, <1>0a
  <2> QED BY <1>0a, <1>0b, <2>1, <2>2, GcFailKept
<1>14. CASE GcClose
  <2>1. /\ gcPhase = "close" /\ gcPhase' = "closed" /\ gcIn' = <<>> /\ gcScope' = NoScope /\ gcPartial' = FALSE
        /\ UNCHANGED <<gcFamily, gcPage, gcAt, gcReached, gcEjected, gcBegun, gcVerdict>>
    BY <1>14 DEF GcClose
  <2>2. GcPlan' = GcPlan BY <2>1 DEF GcPlan
  <2>3. gcVerdict # "open" BY <1>0, <2>1 DEF GcPageInv
  <2>7. gcIn' \in Seq({"done", "fault"}) BY <2>1
  <2>8. gcPartial' \in BOOLEAN BY <2>1, Zenon
  <2>4. GcState' BY <1>0, <2>1, <2>2, <2>7, <2>8, GcNoScope DEF GcState
  <2>5. GcPageInv' BY <1>0, <2>1, <2>3 DEF GcPageInv
  <2>6. GcCompletionInv' BY <2>1, <2>3 DEF GcCompletionInv
  <2> QED BY <2>4, <2>5, <2>6 DEF GcInv
<1> QED
  BY <1>1, <1>2, <1>3, <1>4, <1>5, <1>6, <1>7, <1>8, <1>9, <1>10, <1>11, <1>12, <1>13, <1>14 DEF GcNext, GcClientStep

LEMMA GcPromiseKept ==
  ASSUME GcInv, GcInv', [GcNext]_gcVars PROVE [GcPromise!Next]_(GcPromise!vars)
<1> USE DEF GcPromise!Next, GcPromise!vars
<1>0. /\ GcState /\ GcPageInv /\ GcCompletionInv /\ GcState' /\ GcPageInv' BY DEF GcInv
<1>1. /\ gcBegun \in BOOLEAN /\ gcReached \in Nat /\ gcEjected \in Nat /\ gcPage \in 1..GcPages /\ GcPages \in Nat
      /\ gcReached' \in Nat /\ gcEjected' \in Nat
      /\ gcReached' <= GcPages /\ gcEjected <= gcReached /\ gcEjected' <= gcReached'
      /\ gcPhase \notin {"close", "closed"} => gcVerdict = "open"
      /\ gcReached > 0 => gcBegun
  BY <1>0, GenericAssumption DEF GcState, GcPageInv, GenericAssumption
<1>2. GcGiven = IF gcFamily = "printmaster" THEN gcEjected ELSE gcReached BY DEF GcGiven
<1>3. GcGiven' = IF gcFamily' = "printmaster" THEN gcEjected' ELSE gcReached' BY DEF GcGiven
<1> DEFINE Given == UNCHANGED <<gcFamily, gcReached, gcEjected>>
<1>4. Given => GcGiven' = GcGiven BY <1>2, <1>3
<1> HIDE DEF Given
<1>5. CASE Given /\ UNCHANGED <<gcVerdict, gcBegun>> BY <1>4, <1>5
<1>6. CASE Given /\ gcVerdict = "open" /\ gcVerdict' = "uncertain" /\ gcBegun' \in {gcBegun, TRUE}
  BY <1>4, <1>6 DEF GcPromise!GiveUp
<1>7. CASE Given /\ gcVerdict = "open" /\ gcVerdict' = "refused" /\ gcBegun' = gcBegun /\ ~gcBegun
  BY <1>4, <1>7 DEF GcPromise!Refuse
<1>8. CASE GcConnect
  <2>1. Given /\ gcVerdict = "open" /\ gcBegun' = gcBegun /\ ~gcBegun /\ gcVerdict' \in {gcVerdict, "refused"}
    BY <1>0, <1>8 DEF GcConnect, GcPageInv, gcJob, gcPrinter, Given
  <2> QED BY <1>5, <1>7, <2>1
<1>9. CASE GcAttach \/ GcProbe \/ GcBuild \/ GcAsk \/ GcReplies \/ GcNotify \/ GcPrinterReports \/ GcClose \/ UNCHANGED gcVars
  <2>1. Given /\ UNCHANGED <<gcVerdict, gcBegun>>
    BY <1>9 DEF GcAttach, GcProbe, GcBuild, GcAsk, GcReplies, GcNotify, GcPrinterReports, GcClose, gcVars, Given, gcConnection,
       gcJob, gcPrinter, gcOutcome
  <2> QED BY <1>5, <2>1
<1>10. CASE GcFail /\ Given /\ gcPhase \notin {"close", "closed"} /\ gcBegun' \in {gcBegun, TRUE}
  BY <1>1, <1>6, <1>10 DEF GcFail
<1>11. CASE GcEnterPage
  <2>1. Given /\ gcPhase = "page" /\ gcBegun' = gcBegun /\ (GcFail \/ gcVerdict' = gcVerdict)
    BY <1>11 DEF GcEnterPage, Given, gcConnection
  <2> QED BY <1>5, <1>10, <2>1
<1>12. CASE GcPageTimeout \/ GcBreak
  <2>1. Given /\ gcPhase \notin {"close", "closed"} /\ GcFail /\ (gcBegun' = gcBegun \/ gcBegun' = (gcBegun \/ gcPhase = "steps"))
    BY <1>12 DEF GcPageTimeout, GcBreak, Given, gcConnection, gcPrinter
  <2>2. gcBegun' \in {gcBegun, TRUE} BY <1>1, <2>1
  <2> QED BY <1>10, <2>1, <2>2
<1>13. CASE GcNextPage /\ Given /\ gcBegun' = gcBegun /\ gcPhase = "complete"
            /\ (gcFamily = "printmaster" => gcScope.finished /\ ~gcScope.error)
  <2>1. gcVerdict = "open" /\ gcReached = gcPage BY <1>0, <1>13 DEF GcPageInv
  <2>2. gcFamily = "printmaster" => gcEjected = gcPage BY <1>0, <1>13, <2>1 DEF GcCompletionInv
  <2>3. GcGiven = gcPage BY <1>2, <2>1, <2>2
  <2>4. \/ gcVerdict' = gcVerdict
        \/ gcPage = GcPages /\ gcVerdict' = "printed"
    BY <1>1, <1>13 DEF GcNextPage
  <2> QED BY <1>4, <1>5, <1>13, <2>1, <2>3, <2>4 DEF GcPromise!Return
<1>14. CASE GcPageCompleted
  <2>1. Given /\ gcBegun' = gcBegun /\ gcPhase = "complete" BY <1>14 DEF GcPageCompleted, Given, gcConnection, gcPrinter
  <2>2. GcFail \/ (GcNextPage /\ gcScope.finished /\ ~gcScope.error) BY <1>14 DEF GcPageCompleted
  <2> QED BY <1>10, <1>13, <2>1, <2>2
<1>15. CASE GcPageSent
  <2>1. Given /\ gcBegun' = gcBegun /\ gcPhase = "complete" /\ gcFamily # "printmaster" /\ GcNextPage
    BY <1>15 DEF GcPageSent, Given, gcConnection, gcPrinter
  <2> QED BY <1>13, <2>1
<1>16. CASE /\ GcNextStep /\ gcPhase = "steps" /\ UNCHANGED <<gcFamily, gcEjected, gcVerdict>> /\ gcBegun' \in {gcBegun, TRUE}
  <2>1. \/ gcReached' = gcReached
        \/ gcReached' = gcPage /\ gcAt = Len(GcPlan)
    BY <1>0, <1>16 DEF GcNextStep, GcState
  <2>2. gcVerdict = "open" /\ gcReached = gcPage - 1 BY <1>0, <1>16 DEF GcPageInv
  <2>3. CASE gcReached' = gcReached
    <3>1. GcGiven' = GcGiven BY <1>2, <1>3, <1>16, <2>3
    <3> QED BY <1>1, <1>16, <2>2, <3>1 DEF GcPromise!Begin
  <2>4. CASE gcReached' = gcPage /\ gcAt = Len(GcPlan)
    <3>1. gcBegun /\ gcBegun' = gcBegun BY <1>0, <1>1, <1>16, <2>4, GcPlans DEF GcPageInv, GcState
    <3>2. CASE gcFamily = "printmaster"
      <4>1. GcGiven' = GcGiven BY <1>2, <1>3, <1>16, <3>2
      <4> QED BY <1>16, <3>1, <4>1
    <3>3. CASE gcFamily # "printmaster"
      <4>1. GcGiven' = GcGiven + 1 /\ GcGiven < GcPages BY <1>1, <1>2, <1>3, <1>16, <2>2, <2>4, <3>3
      <4> QED BY <1>16, <3>1, <4>1 DEF GcPromise!Give
    <3> QED BY <3>2, <3>3
  <2> QED BY <2>1, <2>3, <2>4
<1>17. CASE GcSend
  <2>1. GcNextStep /\ gcPhase = "steps" /\ UNCHANGED <<gcFamily, gcEjected, gcVerdict>> /\ gcBegun' \in {gcBegun, TRUE}
    BY <1>17 DEF GcSend, gcConnection
  <2> QED BY <1>16, <2>1
<1>18. CASE GcAnswered
  <2>1. gcPhase = "steps" /\ UNCHANGED <<gcFamily, gcEjected, gcBegun>> BY <1>18 DEF GcAnswered, gcConnection
  <2>2. \/ UNCHANGED <<gcReached, gcVerdict>>
        \/ GcNextStep /\ gcVerdict' = gcVerdict
        \/ GcFail /\ gcReached' = gcReached
    BY <1>18 DEF GcAnswered
  <2>3. CASE UNCHANGED <<gcReached, gcVerdict>> BY <1>5, <2>1, <2>3 DEF Given
  <2>4. CASE GcNextStep /\ gcVerdict' = gcVerdict BY <1>16, <2>1, <2>4
  <2>5. CASE GcFail /\ gcReached' = gcReached BY <1>10, <2>1, <2>5 DEF Given
  <2> QED BY <2>2, <2>3, <2>4, <2>5
<1>19. CASE GcPrinterEjects
  <2>1. gcEjected < gcReached /\ gcEjected' = gcEjected + 1 /\ UNCHANGED <<gcFamily, gcReached, gcBegun, gcVerdict>>
    BY <1>19 DEF GcPrinterEjects, gcConnection, gcOutcome
  <2>2. gcBegun BY <1>1, <2>1
  <2>3. CASE gcFamily = "printmaster"
    <3>1. GcGiven' = GcGiven + 1 /\ GcGiven < GcPages BY <1>1, <1>2, <1>3, <2>1, <2>3
    <3> QED BY <2>1, <2>2, <3>1 DEF GcPromise!Give
  <2>4. CASE gcFamily # "printmaster"
    <3>1. GcGiven' = GcGiven BY <1>2, <1>3, <2>1, <2>4
    <3> QED BY <2>1, <3>1
  <2> QED BY <2>3, <2>4
<1> QED
  BY <1>8, <1>9, <1>11, <1>12, <1>14, <1>15, <1>17, <1>18, <1>19 DEF GcNext, GcClientStep

-----------------------------------------------------------------------------
(* The Niimbot client                                                      *)

(* The stage that follows another.                                         *)
NbThen(stage) ==
  CASE stage = "endReset" -> "clearReset" [] stage = "clearReset" -> "density" [] stage = "density" -> "type"
    [] stage = "type" -> "start" [] stage = "start" -> (IF nbVariant = "plain" THEN "pageStart" ELSE "pageClear")
    [] stage = "pageClear" -> "pageStart" [] stage = "pageStart" -> "dimension" [] stage = "dimension" -> "quantity"
    [] stage = "quantity" -> "rows" [] stage = "rows" -> "endPage"
    [] stage = "endPage" -> (IF nbVariant = "plain" THEN "end" ELSE "completion")
    [] stage = "completion" -> "end"

(* A recipe is its stages in order, each once.                             *)
LEMMA NbRecipes ==
  /\ Len(NbRecipe) \in Nat /\ DOMAIN NbRecipe = 1..Len(NbRecipe) /\ NbRecipe[1] = "endReset" /\ 1 \in DOMAIN NbRecipe
  /\ \A i \in 1..Len(NbRecipe) :
       /\ NbRecipe[i] \in NbStages /\ (NbRecipe[i] = "end" <=> i = Len(NbRecipe))
       /\ nbVariant = "plain" => NbRecipe[i] \notin {"pageClear", "completion"}
       /\ i < Len(NbRecipe) => NbRecipe[i + 1] = NbThen(NbRecipe[i])
<1>1. CASE nbVariant = "plain"
  <2>1. /\ Len(NbRecipe) = 11 /\ DOMAIN NbRecipe = 1..11
        /\ NbRecipe[1] = "endReset" /\ NbRecipe[2] = "clearReset" /\ NbRecipe[3] = "density" /\ NbRecipe[4] = "type"
        /\ NbRecipe[5] = "start" /\ NbRecipe[6] = "pageStart" /\ NbRecipe[7] = "dimension" /\ NbRecipe[8] = "quantity"
        /\ NbRecipe[9] = "rows" /\ NbRecipe[10] = "endPage" /\ NbRecipe[11] = "end"
    BY <1>1 DEF NbRecipe
  <2> QED BY <1>1, <2>1 DEF NbThen, NbStages
<1>2. CASE nbVariant # "plain"
  <2>1. /\ Len(NbRecipe) = 13 /\ DOMAIN NbRecipe = 1..13
        /\ NbRecipe[1] = "endReset" /\ NbRecipe[2] = "clearReset" /\ NbRecipe[3] = "density" /\ NbRecipe[4] = "type"
        /\ NbRecipe[5] = "start" /\ NbRecipe[6] = "pageClear" /\ NbRecipe[7] = "pageStart" /\ NbRecipe[8] = "dimension"
        /\ NbRecipe[9] = "quantity" /\ NbRecipe[10] = "rows" /\ NbRecipe[11] = "endPage" /\ NbRecipe[12] = "completion"
        /\ NbRecipe[13] = "end"
    BY <1>2 DEF NbRecipe
  <2> QED BY <1>2, <2>1 DEF NbThen, NbStages
<1> QED BY <1>1, <1>2

(* Only the resets share their codes with other stages.                    *)
LEMMA NbCodes ==
  \A s \in NbStages :
    /\ NbCode(s) \in NbStages \cup {"F4", "30"} /\ NbCode(s) \notin {"error", "E0"} /\ (NbCode(s) = "rows" <=> s = "rows")
    /\ NbCode(s) = "F4" <=> s \in {"endReset", "end"}
    /\ NbCode(s) = "30" <=> s \in {"clearReset", "pageClear"}
    /\ s \notin {"endReset", "end", "clearReset", "pageClear"} => NbCode(s) = s
<1> SUFFICES ASSUME NEW s \in NbStages
    PROVE /\ NbCode(s) \in NbStages \cup {"F4", "30"} /\ NbCode(s) \notin {"error", "E0"} /\ (NbCode(s) = "rows" <=> s = "rows")
          /\ NbCode(s) = "F4" <=> s \in {"endReset", "end"}
          /\ NbCode(s) = "30" <=> s \in {"clearReset", "pageClear"}
          /\ s \notin {"endReset", "end", "clearReset", "pageClear"} => NbCode(s) = s
  OBVIOUS
<1>1. CASE s \in {"endReset", "end"}
  <2>1. NbCode(s) = "F4" BY <1>1 DEF NbCode
  <2> QED BY <1>1, <2>1 DEF NbStages
<1>2. CASE s \in {"clearReset", "pageClear"}
  <2>1. NbCode(s) = "30" BY <1>2 DEF NbCode
  <2> QED BY <1>2, <2>1 DEF NbStages
<1>3. CASE s \notin {"endReset", "end", "clearReset", "pageClear"}
  <2>1. NbCode(s) = s BY <1>3 DEF NbCode, NbStages
  <2> QED BY <1>3, <2>1 DEF NbStages
<1> QED BY <1>1, <1>2, <1>3

LEMMA NbStarts == NbInit => NbInv
<1> SUFFICES ASSUME NbInit PROVE NbInv OBVIOUS
<1>1. /\ nbPhase = "connect" /\ nbLabel = 1 /\ nbAt = 1 /\ nbEvent = 0 /\ nbAnswer = <<>> /\ nbLoop = <<>>
      /\ nbFault = FALSE /\ nbWaiter = "none" /\ nbOut = <<>> /\ nbIn = <<>> /\ nbEnded = 0 /\ nbFinished = 0
      /\ nbBegun = FALSE /\ nbVerdict = "open" /\ 1 \in 1..NbLabels
  BY NiimbotAssumption DEF NbInit, NiimbotAssumption
<1>2. NbState
  <2>1. nbAt \in 1..Len(NbRecipe) BY <1>1, NbRecipes
  <2>2. <<>> \in Seq(NbPackets) /\ <<>> \in Seq([to : Nat, packet : NbPackets]) /\ <<>> \in Seq([stage : NbStages, label : Nat])
    OBVIOUS
  <2> QED BY <1>1, <2>1, <2>2 DEF NbState
<1>3. NbEndsInv
  <2>1. DOMAIN nbIn = {} /\ DOMAIN nbOut = {} BY <1>1
  <2> QED BY <1>1, <2>1 DEF NbEndsInv
<1> QED BY <1>1, <1>2, <1>3 DEF NbInv, NbFlows

(* The client's stage, its code, and what may be under way.                *)
LEMMA NbHere ==
  ASSUME NbState
  PROVE  /\ NbStage \in NbStages /\ nbAt \in DOMAIN NbRecipe /\ (nbAt = Len(NbRecipe) <=> NbStage = "end")
         /\ nbAt < Len(NbRecipe) => nbAt + 1 \in DOMAIN NbRecipe /\ NbRecipe[nbAt + 1] = NbThen(NbStage)
         /\ nbVariant = "plain" => NbStage \notin {"pageClear", "completion"}
         /\ NbOwn \in NbStages \cup {"F4", "30"} /\ NbOwn \notin {"error", "E0"} /\ (NbOwn = "rows" <=> NbStage = "rows")
         /\ "error" \notin NbMay /\ "E0" \notin NbMay
         /\ "rows" \in NbMay => NbStage = "rows"
<1>1. nbAt \in 1..Len(NbRecipe) BY DEF NbState
<1>2. /\ NbStage \in NbStages /\ nbAt \in DOMAIN NbRecipe /\ (nbAt = Len(NbRecipe) <=> NbStage = "end")
      /\ nbAt < Len(NbRecipe) => nbAt + 1 \in DOMAIN NbRecipe /\ NbRecipe[nbAt + 1] = NbThen(NbStage)
      /\ nbVariant = "plain" => NbStage \notin {"pageClear", "completion"}
  <2>0. Len(NbRecipe) \in Nat BY NbRecipes
  <2>1. nbAt < Len(NbRecipe) => nbAt + 1 \in 1..Len(NbRecipe) BY <1>1, <2>0
  <2>2. /\ DOMAIN NbRecipe = 1..Len(NbRecipe)
        /\ NbRecipe[nbAt] \in NbStages /\ (NbRecipe[nbAt] = "end" <=> nbAt = Len(NbRecipe))
        /\ nbVariant = "plain" => NbRecipe[nbAt] \notin {"pageClear", "completion"}
        /\ nbAt < Len(NbRecipe) => NbRecipe[nbAt + 1] = NbThen(NbRecipe[nbAt])
    BY <1>1, NbRecipes
  <2> QED BY <1>1, <2>1, <2>2 DEF NbStage
<1>3. NbOwn \in NbStages \cup {"F4", "30"} /\ NbOwn \notin {"error", "E0"} /\ (NbOwn = "rows" <=> NbStage = "rows")
  BY <1>2, NbCodes DEF NbOwn
<1>4. NbOld \subseteq {"F4", "30", "completion"} BY DEF NbOld
<1>5. NbMay \subseteq {"F4", "30", "completion", NbOwn} BY <1>4 DEF NbMay
<1> QED BY <1>2, <1>3, <1>5

(* Leaving the print: what is under way no longer matters, but for the     *)
(* requests that the printer still takes.                                  *)
LEMMA NbLeft1 ==
  ASSUME NbInv, nbPhase' \in {"cleanup", "closed"}, nbVerdict' \in {"printed", "refused", "uncertain"},
         nbEvent' \in {0, nbEvent}, nbAnswer' \in {<<>>, nbAnswer}, nbWaiter' \in {"none", nbWaiter},
         nbIn' \in {<<>>, nbIn}, nbLoop' \in {<<>>, nbLoop}, nbFault' \in {FALSE, nbFault}, nbBegun' \in {TRUE, nbBegun},
         UNCHANGED <<nbVariant, nbLabel, nbAt, nbOut, nbEnded, nbFinished>>
  PROVE  NbInv'
<1>1. NbState /\ NbEndsInv BY DEF NbInv
<1>2. NbRecipe' = NbRecipe BY DEF NbRecipe
<1>3. <<>> \in Seq(NbPackets) /\ <<>> \in Seq([to : Nat, packet : NbPackets]) OBVIOUS
<1>4. NbState'
  <2>1. nbIn' \in Seq(NbPackets) /\ nbAnswer' \in Seq(NbPackets) /\ nbLoop' \in Seq([to : Nat, packet : NbPackets])
    BY <1>1, <1>3 DEF NbState
  <2>2. nbFault' \in BOOLEAN /\ nbBegun' \in BOOLEAN BY <1>1, Zenon DEF NbState
  <2>3. nbOut' \in Seq([stage : NbStages, label : Nat]) BY <1>1 DEF NbState
  <2>4. /\ nbPhase' \in {"connect", "probe", "print", "cleanup", "closed"}
        /\ nbVerdict' \in {"open", "printed", "refused", "uncertain"}
        /\ nbLabel' \in 1..NbLabels /\ nbAt' \in 1..Len(NbRecipe)' /\ nbEvent' \in {0, nbAt'}
        /\ nbWaiter' \in {"none", "armed", "set"} /\ nbEnded' \in Nat /\ nbFinished' \in Nat
    BY <1>1, <1>2 DEF NbState
  <2> QED BY <2>1, <2>2, <2>3, <2>4 DEF NbState
<1>5. NbStage' = NbStage BY <1>2 DEF NbStage
<1>6. nbEvent' # 0 => NbAsks' BY <1>1, <1>5 DEF NbEndsInv, NbAsks
<1>7. nbBegun => nbBegun' OBVIOUS
<1>8. NbEndsInv' BY <1>1, <1>6, <1>7 DEF NbEndsInv
<1> QED BY <1>4, <1>8 DEF NbInv, NbFlows

LEMMA NbFailKept ==
  ASSUME NbInv, NbFail, UNCHANGED <<nbPrinter, nbLink>> PROVE NbInv'
<1>1. /\ nbPhase' = "cleanup" /\ nbVerdict' \in {"uncertain", "refused"} /\ nbEvent' = 0 /\ nbAnswer' = <<>>
      /\ nbWaiter' = "none" /\ UNCHANGED <<nbVariant, nbLabel, nbAt, nbBegun, nbIn, nbOut, nbLoop, nbFault, nbEnded, nbFinished>>
  BY DEF NbFail, nbLink, nbPrinter
<1> QED BY <1>1, NbLeft1

LEMMA NbQuitKept ==
  ASSUME NbInv, NbRowsBreak \/ NbStop \/ NbCancel \/ NbCleanup \/ (NbConnectFails /\ ~(nbTries < 2)) PROVE NbInv'
<1>1. NbEndsInv BY DEF NbInv
<1>2. CASE NbStop BY <1>2, NbFailKept DEF NbStop
<1>3. CASE NbRowsBreak
  <2>1. /\ nbPhase' = "cleanup" /\ nbVerdict' = "uncertain" /\ nbWaiter' = "none" /\ nbBegun' = TRUE
        /\ UNCHANGED <<nbVariant, nbLabel, nbAt, nbEvent, nbAnswer, nbIn, nbOut, nbLoop, nbFault, nbEnded, nbFinished>>
    BY <1>3 DEF NbRowsBreak, nbLink, nbPrinter
  <2> QED BY <2>1, NbLeft1
<1>4. CASE NbCancel
  <2>1. /\ nbPhase' = "cleanup" /\ nbVerdict' = "uncertain" /\ nbWaiter' = "none" /\ nbEvent' = 0 /\ nbAnswer' = <<>>
        /\ UNCHANGED <<nbVariant, nbLabel, nbAt, nbBegun, nbIn, nbOut, nbLoop, nbFault, nbEnded, nbFinished>>
    BY <1>4 DEF NbCancel, nbLink, nbPrinter
  <2> QED BY <2>1, NbLeft1
<1>5. CASE NbCleanup
  <2>1. /\ nbPhase' = "closed" /\ nbPhase = "cleanup" /\ nbIn' = <<>> /\ nbLoop' = <<>> /\ nbFault' = FALSE
        /\ UNCHANGED <<nbVariant, nbLabel, nbAt, nbBegun, nbEvent, nbAnswer, nbWaiter, nbVerdict, nbOut, nbEnded, nbFinished>>
    BY <1>5 DEF NbCleanup, nbPrinter
  <2>2. nbVerdict \in {"printed", "refused", "uncertain"} BY <1>1, <2>1 DEF NbInv, NbState, NbEndsInv
  <2> QED BY <2>1, <2>2, NbLeft1
<1>6. CASE NbConnectFails /\ ~(nbTries < 2)
  <2>1. /\ nbPhase' = "closed" /\ nbVerdict' = "refused"
        /\ UNCHANGED <<nbVariant, nbLabel, nbAt, nbBegun, nbEvent, nbAnswer, nbWaiter, nbIn, nbOut, nbLoop, nbFault, nbEnded, nbFinished>>
    BY <1>6 DEF NbConnectFails, nbPrinter, nbLink
  <2> QED BY <2>1, NbLeft1
<1> QED BY <1>2, <1>3, <1>4, <1>5, <1>6

(* The connection and the probe: nothing but a device error is under way.  *)
LEMMA NbEnterKept ==
  ASSUME NbInv, nbPhase \in {"connect", "probe"}, nbPhase' \in {"connect", "probe", "print"},
         UNCHANGED <<nbLabel, nbAt, nbEvent, nbAnswer, nbWaiter, nbBegun, nbVerdict, nbOut, nbIn, nbLoop, nbFault,
                     nbEnded, nbFinished>>
  PROVE  NbInv'
<1>1. NbState /\ NbEndsInv BY DEF NbInv
<1>2. /\ ~nbBegun /\ nbOut = <<>> /\ nbEnded = 0 /\ nbLabel = 1 /\ nbAt = 1 /\ nbEvent = 0 /\ nbAnswer = <<>>
      /\ nbWaiter = "none" /\ nbLoop = <<>> /\ nbVerdict = "open" /\ \A i \in DOMAIN nbIn : nbIn[i].code = "error"
  BY <1>1 DEF NbEndsInv
<1>3. nbFinished = 0 BY <1>1, <1>2 DEF NbEndsInv, NbState
<1>4. Len(NbRecipe)' \in Nat /\ Len(NbRecipe)' >= 1 /\ NbStage' = "endReset"
  <2>1. CASE nbVariant' = "plain"
    <3>1. Len(NbRecipe)' = 11 /\ NbRecipe'[1] = "endReset" BY <2>1 DEF NbRecipe
    <3> QED BY <3>1, <1>2 DEF NbStage
  <2>2. CASE nbVariant' # "plain"
    <3>1. Len(NbRecipe)' = 13 /\ NbRecipe'[1] = "endReset" BY <2>2 DEF NbRecipe
    <3> QED BY <3>1, <1>2 DEF NbStage
  <2> QED BY <2>1, <2>2
<1>5. NbState'
  <2>1. nbAt' \in 1..Len(NbRecipe)' BY <1>2, <1>4
  <2>2. nbFault' \in BOOLEAN /\ nbBegun' \in BOOLEAN BY <1>1, Zenon DEF NbState
  <2> QED BY <1>1, <1>2, <2>1, <2>2 DEF NbState
<1>6. DOMAIN nbOut' = {} /\ DOMAIN nbLoop' = {} BY <1>2
<1>7. NbEndsInv' BY <1>2, <1>3, <1>4, <1>6 DEF NbEndsInv
<1>8. NbPipeInv' BY <1>2, <1>6 DEF NbPipeInv, NbSaysNothing
<1>9. NbOrderInv' BY <1>2 DEF NbOrderInv
<1>10. NbAnswerInv'
  <2>1. \A i \in DOMAIN nbIn' : nbIn'[i].code # "endPage" /\ nbIn'[i].code # "completion" BY <1>2
  <2> QED BY <1>2, <1>3, <1>4, <1>6, <2>1 DEF NbAnswerInv
<1>11. NbIndexInv' BY <1>2, <1>3, <1>4, <1>6 DEF NbIndexInv, NbAnnounced
<1> QED BY <1>5, <1>7, <1>8, <1>9, <1>10, <1>11 DEF NbInv

(* Nothing is under way that the client would take for an answer.          *)
NbQuiet ==
  /\ nbOut = <<>> /\ \A i \in DOMAIN nbIn : NbSaysNothing(nbIn[i])
  /\ \A i \in DOMAIN nbLoop : nbLoop[i].to = 0

(* A stage is over, and what is left of it under way is what the next one  *)
(* knows not to take for its answer.                                       *)
LEMMA NbNextStageKept ==
  ASSUME NbInv, NbFlows, nbAt < Len(NbRecipe), NbStage # "rows",
         nbAt' = nbAt + 1, nbEvent' = 0, nbAnswer' = <<>>,
         UNCHANGED <<nbPhase, nbVariant, nbLabel, nbWaiter, nbBegun, nbVerdict, nbOut, nbIn, nbLoop, nbFault, nbEnded, nbFinished>>,
         NbQuiet \/ NbStage \in {"endReset", "clearReset", "completion"},
         NbStage = "endPage" => nbEnded = nbLabel,
         NbStage = "completion" => nbFinished >= nbLabel /\ (nbVariant = "d11_v1" => nbWaiter = "set")
  PROVE  NbInv'
<1>1. NbState /\ NbEndsInv /\ NbPipeInv /\ NbAnswerInv /\ NbIndexInv /\ nbPhase = "print" /\ ~nbFault BY DEF NbInv, NbFlows
<1>2. NbRecipe' = NbRecipe BY DEF NbRecipe
<1>3. /\ nbAt + 1 \in DOMAIN NbRecipe /\ DOMAIN NbRecipe = 1..Len(NbRecipe) /\ NbStage' = NbThen(NbStage) /\ NbStage # "end"
      /\ NbStage \in NbStages /\ (nbVariant = "plain" => NbStage # "completion")
  <2>1. DOMAIN NbRecipe = 1..Len(NbRecipe) /\ Len(NbRecipe) \in Nat BY NbRecipes
  <2>2. /\ nbAt + 1 \in DOMAIN NbRecipe /\ NbRecipe[nbAt + 1] = NbThen(NbStage) /\ (nbAt = Len(NbRecipe) <=> NbStage = "end")
        /\ NbStage \in NbStages /\ (nbVariant = "plain" => NbStage # "completion")
    BY <1>1, NbHere
  <2>0. nbAt \in 1..Len(NbRecipe) /\ Len(NbRecipe) \in Nat BY <1>1, <2>1 DEF NbState
  <2>3. nbAt # Len(NbRecipe) BY <2>0
  <2>4. NbStage' = NbRecipe[nbAt + 1] BY <1>2 DEF NbStage
  <2> QED BY <2>1, <2>2, <2>3, <2>4
<1>4. NbState'
  <2>1. <<>> \in Seq(NbPackets) OBVIOUS
  <2>2. nbFault' \in BOOLEAN /\ nbBegun' \in BOOLEAN BY <1>1, Zenon DEF NbState
  <2> QED BY <1>1, <1>2, <1>3, <2>1, <2>2 DEF NbState
<1>5. /\ NbStage' \in {"endPage", "completion", "end"} => NbStage \in {"endPage", "completion"}
      /\ NbStage' = "completion" => NbStage = "endPage"
      /\ NbStage' = "end" /\ nbVariant # "plain" => NbStage = "completion"
      /\ NbStage' \notin {"endPage", "completion", "end"} => NbStage \notin {"endPage", "completion", "end"}
      /\ NbStage' # "endPage"
  BY <1>3 DEF NbThen, NbStages
<1>6. NbEndsInv' BY <1>1, <1>5 DEF NbEndsInv
<1>7. NbPipeInv'
  <2>1. CASE NbQuiet
    <3>1. DOMAIN nbOut' = {} BY <2>1 DEF NbQuiet
    <3>2. \A i \in DOMAIN nbIn' : NbSaysNothing(nbIn'[i]) BY <2>1 DEF NbQuiet
    <3>3. \A i \in DOMAIN nbLoop' : nbLoop'[i].to = 0 /\ nbLoop'[i].packet.code = "E0" BY <1>1, <2>1 DEF NbQuiet, NbPipeInv
    <3> QED BY <3>1, <3>2, <3>3 DEF NbPipeInv, NbSaysNothing
  <2>2. CASE NbStage \in {"endReset", "clearReset", "completion"}
    <3>1. NbMay \subseteq NbMay'
      <4>1. CASE NbStage = "endReset"
        <5>1. NbStage' = "clearReset" BY <1>3, <4>1 DEF NbThen
        <5>2. NbMay \subseteq {"F4"} /\ NbOld' = {"F4"} BY <4>1, <5>1 DEF NbMay, NbOld, NbOwn, NbCode
        <5> QED BY <5>2 DEF NbMay
      <4>2. CASE NbStage = "clearReset"
        <5>1. NbStage' = "density" BY <1>3, <4>2 DEF NbThen
        <5>2. NbMay \subseteq {"F4", "30"} /\ NbOld' = {"F4", "30"} BY <4>2, <5>1 DEF NbMay, NbOld, NbOwn, NbCode
        <5> QED BY <5>2 DEF NbMay
      <4>3. CASE NbStage = "completion"
        <5>1. NbStage' = "end" BY <1>3, <4>3 DEF NbThen
        <5>2. NbMay \subseteq {"completion"} /\ NbOld' = {"completion"} BY <4>3, <5>1 DEF NbMay, NbOld, NbOwn, NbCode
        <5> QED BY <5>2 DEF NbMay
      <4> QED BY <2>2, <4>1, <4>2, <4>3
    <3> HIDE DEF NbMay
    <3> QED BY <1>1, <1>2, <3>1 DEF NbPipeInv, NbSaysNothing
  <2> QED BY <2>1, <2>2
<1>8. NbOrderInv' BY DEF NbOrderInv
<1>9. NbAnswerInv' BY <1>1, <1>3, <1>5 DEF NbAnswerInv, NbState, NbEndsInv
<1>10. NbIndexInv' BY <1>1, <1>3, <1>5 DEF NbIndexInv, NbAnnounced
<1> QED BY <1>4, <1>6, <1>7, <1>8, <1>9, <1>10 DEF NbInv

(* The last stage of a label is over: the next label begins, or the print  *)
(* is done.                                                                *)
LEMMA NbLabelKept ==
  ASSUME NbInv, NbFlows, NbQuiet, nbAt = Len(NbRecipe), NbAdvance, UNCHANGED <<nbPrinter, nbLink>>
  PROVE  NbInv'
<1>1. NbState /\ NbEndsInv /\ NbPipeInv /\ NbAnswerInv /\ NbIndexInv /\ nbPhase = "print" /\ ~nbFault BY DEF NbInv, NbFlows
<1>2. NbStage = "end" BY <1>1, NbHere
<1>3. ~(nbAt < Len(NbRecipe)) BY <1>1 DEF NbState
<1>4. /\ nbEvent' = 0 /\ nbAnswer' = <<>> /\ nbWaiter' = "none"
      /\ UNCHANGED <<nbVariant, nbBegun, nbOut, nbIn, nbLoop, nbFault, nbEnded, nbFinished>>
  BY <1>3 DEF NbAdvance, nbPrinter, nbLink
<1>5. CASE ~(nbLabel < NbLabels)
  <2>1. nbPhase' = "cleanup" /\ nbVerdict' = "printed" /\ UNCHANGED <<nbLabel, nbAt>> BY <1>3, <1>5 DEF NbAdvance
  <2> QED BY <1>4, <2>1, NbLeft1
<1>6. CASE nbLabel < NbLabels
  <2>1. nbLabel' = nbLabel + 1 /\ nbAt' = 1 /\ UNCHANGED <<nbPhase, nbVerdict>> BY <1>3, <1>6 DEF NbAdvance
  <2>2. NbRecipe' = NbRecipe BY <1>4 DEF NbRecipe
  <2>3. NbStage' = "endReset" /\ 1 \in 1..Len(NbRecipe) BY <2>1, <2>2, NbRecipes DEF NbStage
  <2>4. NbState'
    <3>1. <<>> \in Seq(NbPackets) OBVIOUS
    <3>2. nbFault' \in BOOLEAN /\ nbBegun' \in BOOLEAN BY <1>1, <1>4, Zenon DEF NbState
    <3>3. nbLabel' \in 1..NbLabels BY <1>1, <1>6, <2>1, NiimbotAssumption DEF NbState, NiimbotAssumption
    <3> QED BY <1>1, <1>4, <2>1, <2>2, <2>3, <3>1, <3>2, <3>3 DEF NbState
  <2>5. nbBegun /\ nbEnded = nbLabel /\ nbLabel \in Nat BY <1>1, <1>2 DEF NbEndsInv, NbAnswerInv, NbState
  <2>6. DOMAIN nbOut' = {} BY <1>4 DEF NbQuiet
  <2>7. \A i \in DOMAIN nbIn' : NbSaysNothing(nbIn'[i]) BY <1>4 DEF NbQuiet
  <2>8. \A i \in DOMAIN nbLoop' : nbLoop'[i].to = 0 /\ nbLoop'[i].packet.code = "E0" BY <1>1, <1>4 DEF NbQuiet, NbPipeInv
  <2>9. NbEndsInv' BY <1>1, <1>4, <2>1, <2>3, <2>5, <2>6 DEF NbEndsInv, NbState
  <2>10. NbPipeInv' BY <1>4, <2>6, <2>7, <2>8 DEF NbPipeInv, NbSaysNothing
  <2>11. NbOrderInv' BY <1>4 DEF NbOrderInv
  <2>12. NbAnswerInv'
    <3>1. nbVariant # "plain" => nbFinished = nbLabel BY <1>1, <1>2 DEF NbAnswerInv
    <3>2. /\ \A i \in DOMAIN nbIn' : nbIn'[i].code \notin {"endPage", "completion"}
          /\ \A i \in DOMAIN nbLoop' : nbLoop'[i].packet.code \notin {"endPage", "completion"}
      BY <2>7, <2>8 DEF NbSaysNothing
    <3> QED BY <1>4, <2>1, <2>3, <2>5, <2>6, <3>1, <3>2 DEF NbAnswerInv
  <2>13. NbIndexInv' BY <1>1, <1>2, <1>4, <2>1, <2>3 DEF NbIndexInv, NbAnnounced
  <2> QED BY <2>4, <2>9, <2>10, <2>11, <2>12, <2>13 DEF NbInv
<1> QED BY <1>5, <1>6

LEMMA NbAdvanceKept ==
  ASSUME NbInv, NbFlows, NbAdvance, UNCHANGED <<nbPrinter, nbLink>>, NbStage # "rows",
         NbQuiet \/ NbStage \in {"endReset", "clearReset", "completion"},
         NbStage = "endPage" => nbEnded = nbLabel,
         NbStage = "completion" => nbFinished >= nbLabel /\ (nbVariant = "d11_v1" => nbWaiter = "set")
  PROVE  NbInv'
<1>1. NbState BY DEF NbInv
<1>2. CASE nbAt = Len(NbRecipe)
  <2>1. NbStage = "end" BY <1>1, <1>2, NbHere
  <2> QED BY <1>2, <2>1, NbLabelKept
<1>3. CASE nbAt # Len(NbRecipe)
  <2>1. Len(NbRecipe) \in Nat BY NbRecipes
  <2>2. nbAt < Len(NbRecipe) BY <1>1, <1>3, <2>1 DEF NbState
  <2>3. /\ nbAt' = nbAt + 1 /\ nbEvent' = 0 /\ nbAnswer' = <<>>
        /\ UNCHANGED <<nbPhase, nbVariant, nbLabel, nbWaiter, nbBegun, nbVerdict, nbOut, nbIn, nbLoop, nbFault,
                       nbEnded, nbFinished>>
    BY <2>2 DEF NbAdvance, nbPrinter, nbLink
  <2> QED BY <2>2, <2>3, NbNextStageKept
<1> QED BY <1>2, <1>3

(* The status is to be asked once more.                                    *)
LEMMA NbPollKept ==
  ASSUME NbInv, NbFlows, NbPolls, NbPollAgain, UNCHANGED <<nbPrinter, nbLink>> PROVE NbInv'
<1>1. NbState /\ NbEndsInv /\ NbPipeInv /\ NbAnswerInv /\ NbIndexInv /\ nbPhase = "print" /\ ~nbFault BY DEF NbInv, NbFlows
<1>2. /\ nbEvent' = 0 /\ nbAnswer' = <<>>
      /\ UNCHANGED <<nbPhase, nbVariant, nbLabel, nbAt, nbWaiter, nbBegun, nbVerdict, nbOut, nbIn, nbLoop, nbFault,
                     nbEnded, nbFinished>>
  BY DEF NbPollAgain, nbPrinter, nbLink
<1>3. NbRecipe' = NbRecipe BY <1>2 DEF NbRecipe
<1>4. NbStage' = NbStage /\ NbStage = "completion" BY <1>2, <1>3 DEF NbStage, NbPolls
<1>5. NbState'
  <2>1. <<>> \in Seq(NbPackets) OBVIOUS
  <2>2. nbFault' \in BOOLEAN /\ nbBegun' \in BOOLEAN BY <1>1, <1>2, Zenon DEF NbState
  <2> QED BY <1>1, <1>2, <1>3, <2>1, <2>2 DEF NbState
<1>6. NbEndsInv' BY <1>1, <1>2, <1>4 DEF NbEndsInv
<1>7. NbMay \subseteq NbMay' BY <1>2, <1>4 DEF NbMay, NbOld, NbOwn, NbCode
<1>8. NbPipeInv' BY <1>1, <1>2, <1>3, <1>7 DEF NbPipeInv, NbSaysNothing
<1>9. NbOrderInv' BY <1>2 DEF NbOrderInv
<1>10. NbAnswerInv' BY <1>1, <1>2, <1>4 DEF NbAnswerInv
<1>11. NbIndexInv' BY <1>1, <1>2, <1>4 DEF NbIndexInv, NbAnnounced
<1> QED BY <1>5, <1>6, <1>8, <1>9, <1>10, <1>11 DEF NbInv

LEMMA NbAnsweredKept ==
  ASSUME NbInv, NbAnswered \/ NbTimeout \/ NbPageIndex PROVE NbInv'
<1>1. NbState /\ NbEndsInv /\ UNCHANGED <<nbPrinter, nbLink>> /\ nbPhase = "print"
  BY DEF NbInv, NbAnswered, NbTimeout, NbPageIndex, NbIdle
<1>2. CASE NbFail BY <1>1, <1>2, NbFailKept
<1>3. CASE ~nbFault /\ NbPolls /\ NbPollAgain
  <2>1. NbFlows BY <1>1, <1>3 DEF NbFlows
  <2> QED BY <1>1, <1>3, <2>1, NbPollKept
<1>4. CASE NbAnswered /\ ~NbFail /\ ~(~nbFault /\ NbPolls /\ NbPollAgain)
  <2>1. ~nbFault /\ NbAccepts(Head(nbAnswer)) /\ NbAdvance /\ nbEvent # 0 /\ nbAnswer # <<>> BY <1>4 DEF NbAnswered
  <2>2. NbFlows BY <1>1, <2>1 DEF NbFlows
  <2>3. NbPipeInv /\ NbOrderInv /\ NbAnswerInv BY <2>2 DEF NbInv
  <2>4. Head(nbAnswer) = nbAnswer[1] BY <1>1, <2>1 DEF NbState
  <2>5. NbAsks BY <1>1, <2>1 DEF NbEndsInv
  <2>6. nbAnswer[1].code = NbOwn BY <2>1, <2>3 DEF NbPipeInv
  <2>7. NbStage = "endPage" => nbEnded = nbLabel BY <2>1, <2>3, <2>6 DEF NbAnswerInv, NbOwn, NbCode
  <2>8. NbStage = "completion" => nbFinished >= nbLabel /\ (nbVariant = "d11_v1" => nbWaiter = "set")
    BY <2>1, <2>3, <2>4, <2>5, <2>6 DEF NbAnswerInv, NbOwn, NbCode, NbAsks, NbAccepts
  <2>9. NbStage # "completion" => NbQuiet BY <2>1, <2>3 DEF NbOrderInv, NbQuiet
  <2>10. NbStage # "rows" BY <2>5 DEF NbAsks
  <2> QED BY <1>1, <2>1, <2>2, <2>7, <2>8, <2>9, <2>10, NbAdvanceKept
<1>5. CASE NbTimeout /\ ~NbFail /\ ~(~nbFault /\ NbPolls /\ NbPollAgain)
  <2>1. ~nbFault /\ NbStage \in {"endReset", "clearReset"} /\ NbAdvance BY <1>5 DEF NbTimeout
  <2>2. NbFlows BY <1>1, <2>1 DEF NbFlows
  <2> QED BY <1>1, <2>1, <2>2, NbAdvanceKept
<1>6. CASE NbPageIndex /\ ~NbFail
  <2>1. ~nbFault /\ NbStage = "completion" /\ ~NbAsks /\ nbWaiter = "set" /\ NbAdvance BY <1>6 DEF NbPageIndex
  <2>2. NbFlows BY <1>1, <2>1 DEF NbFlows
  <2>3. nbVariant = "d11_v1" BY <2>1 DEF NbAsks
  <2>4. nbFinished = nbLabel BY <2>1, <2>2, <2>3 DEF NbInv, NbIndexInv
  <2>5. nbFinished >= nbLabel BY <1>1, <2>4 DEF NbState
  <2> QED BY <1>1, <2>1, <2>2, <2>5, NbAdvanceKept
<1> QED BY <1>2, <1>3, <1>4, <1>5, <1>6

(* A request leaves, and nothing is under way that answers another like it,*)
(* unless it asks for the page's status again.                             *)
LEMMA NbSendKept ==
  ASSUME NbInv, NbSend PROVE NbInv'
<1>1. NbFlows BY DEF NbSend, NbIdle, NbFlows
<1>2. NbState /\ NbEndsInv /\ NbPipeInv /\ NbAnswerInv /\ NbIndexInv /\ nbPhase = "print" /\ ~nbFault
  BY <1>1 DEF NbInv, NbFlows
<1> DEFINE request == [stage |-> NbStage, label |-> nbLabel]
<1>3. /\ nbEvent = 0 /\ NbAsks /\ nbEvent' = nbAt /\ nbAnswer' = <<>> /\ nbOut' = Append(nbOut, request)
      /\ UNCHANGED <<nbPhase, nbVariant, nbLabel, nbAt, nbWaiter, nbBegun, nbVerdict, nbIn, nbLoop, nbFault,
                     nbEnded, nbFinished>>
  BY DEF NbSend, NbIdle, nbPrinter
<1>4. NbRecipe' = NbRecipe BY <1>3 DEF NbRecipe
<1>5. NbStage' = NbStage /\ NbStage # "rows" /\ NbStage \in NbStages BY <1>2, <1>3, <1>4, NbHere DEF NbStage, NbAsks
<1>6. nbAnswer = <<>> BY <1>2, <1>3 DEF NbPipeInv
<1>7. /\ request.stage = NbStage /\ request.label = nbLabel /\ request \in [stage : NbStages, label : Nat]
      /\ nbAt # 0 /\ nbOut \in Seq([stage : NbStages, label : Nat])
  BY <1>2, <1>5 DEF NbState
<1> HIDE DEF request
<1>8. /\ Len(nbOut') = Len(nbOut) + 1 /\ DOMAIN nbOut' = 1..Len(nbOut) + 1 /\ nbOut'[Len(nbOut) + 1] = request
      /\ DOMAIN nbOut = 1..Len(nbOut) /\ \A i \in DOMAIN nbOut : nbOut'[i] = nbOut[i]
  BY <1>3, <1>7
<1>9. NbState'
  <2>1. <<>> \in Seq(NbPackets) OBVIOUS
  <2>2. nbFault' \in BOOLEAN /\ nbBegun' \in BOOLEAN BY <1>2, <1>3, Zenon DEF NbState
  <2>3. nbOut' \in Seq([stage : NbStages, label : Nat]) BY <1>3, <1>7
  <2> QED BY <1>2, <1>3, <1>4, <2>1, <2>2, <2>3 DEF NbState
<1>10. NbMay' = NbMay \cup {NbOwn} /\ NbMay = NbOld /\ NbOwn' = NbOwn /\ NbOld' = NbOld
  BY <1>3, <1>5, <1>7 DEF NbMay, NbOld, NbOwn
<1>11. NbStage # "completion" => NbOwn \notin NbMay
  BY <1>5, <1>10 DEF NbOld, NbOwn, NbCode, NbStages
<1>12. NbEndsInv'
  <2>1. CASE NbStage = "endPage"
    <3>1. \A i \in DOMAIN nbOut : nbOut[i].stage # "endPage"
      <4>1. NbOwn = "endPage" /\ NbOwn \notin NbMay BY <2>1, <1>11 DEF NbOwn, NbCode
      <4>2. NbCode("endPage") = "endPage" BY DEF NbCode
      <4> QED BY <4>1, <4>2, <1>2 DEF NbPipeInv
    <3>2. nbEnded = nbLabel - 1 /\ nbBegun BY <2>1, <1>2, <1>3 DEF NbAnswerInv, NbEndsInv
    <3>3. \A i \in DOMAIN nbOut' : nbOut'[i].stage = "endPage" => i = Len(nbOut) + 1 BY <3>1, <1>8
    <3>4. NbAsks' BY <1>3, <1>5 DEF NbAsks
    <3>5. \A i \in DOMAIN nbOut' : nbOut'[i].stage = "endPage" =>
            /\ nbOut'[i].label = nbEnded' + 1 /\ nbEnded' < nbLabel' /\ nbBegun'
            /\ \A k \in DOMAIN nbOut' : nbOut'[k].stage = "endPage" => k = i
      <4>1. nbLabel \in Nat /\ nbOut'[Len(nbOut) + 1].label = nbLabel BY <1>2, <1>7, <1>8 DEF NbState
      <4>2. nbEnded' = nbEnded /\ nbLabel' = nbLabel /\ nbBegun' BY <1>3, <3>2
      <4>3. nbLabel = nbEnded' + 1 /\ nbEnded' < nbLabel' BY <3>2, <4>1, <4>2
      <4> QED BY <3>3, <4>1, <4>2, <4>3
    <3> QED BY <1>2, <1>3, <1>5, <3>4, <3>5 DEF NbEndsInv
  <2>2. CASE NbStage # "endPage"
    <3>1. \A i \in DOMAIN nbOut' : nbOut'[i].stage = "endPage" => i \in DOMAIN nbOut /\ nbOut'[i] = nbOut[i]
      BY <2>2, <1>7, <1>8
    <3>4. NbAsks' BY <1>3, <1>5 DEF NbAsks
    <3> QED BY <1>2, <1>3, <1>5, <3>1, <3>4 DEF NbEndsInv
  <2> QED BY <2>1, <2>2
<1>13. NbPipeInv'
  <2>1. \A i \in DOMAIN nbOut' : nbOut'[i].stage = "rows" \/ NbCode(nbOut'[i].stage) \in NbMay'
    BY <1>2, <1>7, <1>8, <1>10 DEF NbPipeInv, NbOwn
  <2> QED BY <1>2, <1>3, <1>4, <1>10, <2>1 DEF NbPipeInv, NbSaysNothing
<1>14. NbOrderInv'
  <2>1. SUFFICES ASSUME NbStage # "completion" PROVE NbOrderInv' BY <1>5 DEF NbOrderInv
  <2>2. NbOwn # "rows" /\ NbOwn \notin {"error", "E0"} BY <1>2, <1>5, NbHere
  <2>3. \A i \in DOMAIN nbIn' : nbIn'[i].code # NbOwn BY <1>2, <1>3, <1>11, <2>1, <2>2 DEF NbPipeInv, NbSaysNothing
  <2>4. \A i \in DOMAIN nbLoop' : nbLoop'[i].to # 0 => nbLoop'[i].packet.code # NbOwn BY <1>2, <1>3, <1>11, <2>1 DEF NbPipeInv
  <2>5. \A i \in DOMAIN nbOut : NbCode(nbOut[i].stage) # NbOwn
    <3>1. NbCode("rows") = "rows" BY DEF NbCode
    <3> QED BY <3>1, <1>2, <1>11, <2>1, <2>2 DEF NbPipeInv
  <2>6. \A i \in DOMAIN nbOut' : NbCode(nbOut'[i].stage) = NbOwn => i = Len(nbOut') BY <1>8, <2>5
  <2> QED BY <1>3, <1>10, <2>3, <2>4, <2>6 DEF NbOrderInv
<1>15. NbAnswerInv'
  <2>1. \A i \in DOMAIN nbOut' : nbOut'[i].stage = "completion" => nbOut'[i].label = nbLabel'
    BY <1>2, <1>3, <1>7, <1>8 DEF NbAnswerInv
  <2> QED BY <1>2, <1>3, <1>5, <2>1 DEF NbAnswerInv
<1>16. NbIndexInv' BY <1>2, <1>3, <1>5 DEF NbIndexInv, NbAnnounced
<1> QED BY <1>9, <1>12, <1>13, <1>14, <1>15, <1>16 DEF NbInv

(* The rows leave, and nobody answers them.                                *)
LEMMA NbSendRowsKept ==
  ASSUME NbInv, NbSendRows PROVE NbInv'
<1>1. NbFlows BY DEF NbSendRows, NbIdle, NbFlows
<1>2. NbState /\ NbEndsInv /\ NbPipeInv /\ NbAnswerInv /\ NbIndexInv /\ nbPhase = "print" /\ ~nbFault /\ NbStage = "rows"
  BY <1>1 DEF NbInv, NbFlows, NbSendRows
<1> DEFINE request == [stage |-> "rows", label |-> nbLabel]
<1>3. /\ nbEvent = 0 /\ nbAt' = nbAt + 1 /\ nbOut' = Append(nbOut, request) /\ nbBegun' = TRUE
      /\ nbWaiter' \in {"none", "armed"}
      /\ UNCHANGED <<nbPhase, nbVariant, nbLabel, nbEvent, nbAnswer, nbVerdict, nbIn, nbLoop, nbFault, nbEnded, nbFinished>>
  BY DEF NbSendRows, NbIdle, nbPrinter
<1>4. NbRecipe' = NbRecipe BY <1>3 DEF NbRecipe
<1>5. nbAt + 1 \in 1..Len(NbRecipe) /\ NbStage' = "endPage"
  <2>1. nbAt \in 1..Len(NbRecipe) BY <1>2 DEF NbState
  <2>2. /\ nbAt # Len(NbRecipe)
        /\ nbAt < Len(NbRecipe) => nbAt + 1 \in DOMAIN NbRecipe /\ NbRecipe[nbAt + 1] = NbThen(NbStage)
    BY <1>2, NbHere
  <2>3. DOMAIN NbRecipe = 1..Len(NbRecipe) BY NbRecipes
  <2>6. Len(NbRecipe) \in Nat BY NbRecipes
  <2>4. nbAt < Len(NbRecipe) BY <2>1, <2>2, <2>6
  <2>5. NbThen("rows") = "endPage" BY DEF NbThen
  <2> QED BY <1>2, <1>3, <1>4, <2>2, <2>3, <2>4, <2>5 DEF NbStage
<1>6. nbAnswer = <<>> BY <1>2, <1>3 DEF NbPipeInv
<1>7. /\ request.stage = "rows" /\ request \in [stage : NbStages, label : Nat] /\ nbOut \in Seq([stage : NbStages, label : Nat])
  BY <1>2 DEF NbState, NbStages
<1> HIDE DEF request
<1>8. /\ DOMAIN nbOut' = 1..Len(nbOut) + 1 /\ nbOut'[Len(nbOut) + 1] = request
      /\ DOMAIN nbOut = 1..Len(nbOut) /\ \A i \in DOMAIN nbOut : nbOut'[i] = nbOut[i]
  BY <1>3, <1>7
<1>9. NbState'
  <2>2. nbFault' \in BOOLEAN /\ nbBegun' \in BOOLEAN BY <1>2, <1>3, Zenon DEF NbState
  <2>3. nbOut' \in Seq([stage : NbStages, label : Nat]) BY <1>3, <1>7
  <2> QED BY <1>2, <1>3, <1>4, <1>5, <2>2, <2>3 DEF NbState
<1>10. NbMay = {}
  <2>1. NbOld = {} BY <1>2 DEF NbOld
  <2> QED BY <1>3, <2>1 DEF NbMay
<1>11. NbEndsInv'
  <2>1. \A i \in DOMAIN nbOut' : nbOut'[i].stage = "endPage" => i \in DOMAIN nbOut /\ nbOut'[i] = nbOut[i]
    BY <1>7, <1>8
  <2> QED BY <1>2, <1>3, <1>5, <2>1 DEF NbEndsInv
<1>12. NbPipeInv'
  <2>1. \A i \in DOMAIN nbOut' : nbOut'[i].stage = "rows" BY <1>2, <1>7, <1>8, <1>10 DEF NbPipeInv
  <2> QED BY <1>2, <1>3, <1>4, <1>6, <1>10, <2>1 DEF NbPipeInv, NbSaysNothing
<1>13. NbOrderInv' BY <1>3 DEF NbOrderInv
<1>14. NbAnswerInv'
  <2>1. \A i \in DOMAIN nbOut' : nbOut'[i].stage # "completion" BY <1>2, <1>7, <1>8, <1>10 DEF NbPipeInv
  <2> QED BY <1>2, <1>3, <1>5, <2>1 DEF NbAnswerInv
<1>15. NbIndexInv' 
  <2>1. nbFinished < nbLabel BY <1>2 DEF NbAnswerInv, NbEndsInv, NbState
  <2> QED BY <1>2, <1>3, <1>5, <2>1 DEF NbIndexInv, NbAnnounced
<1> QED BY <1>9, <1>11, <1>12, <1>13, <1>14, <1>15 DEF NbInv

(* A packet reaches the notification callback.                             *)
LEMMA NbNotifyKept ==
  ASSUME NbInv, NbNotify PROVE NbInv'
<1> DEFINE packet == Head(nbIn)
           heard == packet.code \in {"E0", "error"} /\ nbWaiter # "none"
<1>1. NbState /\ NbEndsInv /\ nbPhase # "closed" /\ nbIn # <<>> BY DEF NbInv, NbNotify
<1>2. /\ nbFault' = (nbFault \/ (packet.code = "error" /\ nbPhase \in {"probe", "print"})) /\ nbIn' = Tail(nbIn)
      /\ UNCHANGED <<nbPhase, nbVariant, nbLabel, nbAt, nbEvent, nbAnswer, nbWaiter, nbBegun, nbVerdict, nbOut,
                     nbEnded, nbFinished>>
  BY DEF NbNotify, nbClient, nbPrinter
<1>3. nbLoop' = nbLoop \o (IF heard THEN <<[to |-> 0, packet |-> packet]>> ELSE <<>>)
                       \o (IF NbRouted(packet) THEN <<[to |-> nbEvent, packet |-> packet]>> ELSE <<>>)
  BY DEF NbNotify
<1>4. /\ packet \in NbPackets /\ packet = nbIn[1] /\ nbIn' \in Seq(NbPackets) /\ 1 \in DOMAIN nbIn
      /\ Len(nbIn') = Len(nbIn) - 1 /\ DOMAIN nbIn' = 1..Len(nbIn) - 1 /\ DOMAIN nbIn = 1..Len(nbIn)
      /\ \A i \in DOMAIN nbIn' : i + 1 \in DOMAIN nbIn /\ nbIn'[i] = nbIn[i + 1]
  BY <1>1, <1>2 DEF NbState
<1> HIDE DEF packet, heard
<1>5. NbRecipe' = NbRecipe /\ NbStage' = NbStage BY <1>2 DEF NbRecipe, NbStage
<1>6. nbLoop \in Seq([to : Nat, packet : NbPackets]) /\ nbEvent \in Nat BY <1>1 DEF NbState
<1>7. \/ nbLoop' = nbLoop /\ ~heard /\ ~NbRouted(packet)
      \/ nbLoop' = Append(nbLoop, [to |-> 0, packet |-> packet]) /\ heard /\ ~NbRouted(packet)
      \/ nbLoop' = Append(nbLoop, [to |-> nbEvent, packet |-> packet]) /\ ~heard /\ NbRouted(packet)
      \/ nbLoop' = Append(Append(nbLoop, [to |-> 0, packet |-> packet]), [to |-> nbEvent, packet |-> packet])
         /\ heard /\ NbRouted(packet)
  <2>1. CASE heard /\ NbRouted(packet) BY <1>3, <1>6, <2>1
  <2>2. CASE heard /\ ~NbRouted(packet) BY <1>3, <1>6, <2>2
  <2>3. CASE ~heard /\ NbRouted(packet) BY <1>3, <1>6, <2>3
  <2>4. CASE ~heard /\ ~NbRouted(packet) BY <1>3, <1>6, <2>4
  <2> QED BY <2>1, <2>2, <2>3, <2>4
<1>8. /\ [to |-> 0, packet |-> packet] \in [to : Nat, packet : NbPackets]
      /\ [to |-> nbEvent, packet |-> packet] \in [to : Nat, packet : NbPackets]
  BY <1>4, <1>6
<1>9. nbLoop' \in Seq([to : Nat, packet : NbPackets])
  <2> DEFINE first == [to |-> 0, packet |-> packet]
             second == [to |-> nbEvent, packet |-> packet]
             Calls == [to : Nat, packet : NbPackets]
  <2>2. \/ nbLoop' = nbLoop \/ nbLoop' = Append(nbLoop, first) \/ nbLoop' = Append(nbLoop, second)
        \/ nbLoop' = Append(Append(nbLoop, first), second)
    BY <1>7
  <2>3. first \in Calls /\ second \in Calls /\ nbLoop \in Seq(Calls) BY <1>6, <1>8
  <2> HIDE DEF first, second, Calls
  <2>4. Append(nbLoop, first) \in Seq(Calls) /\ Append(nbLoop, second) \in Seq(Calls) BY <2>3
  <2>5. Append(Append(nbLoop, first), second) \in Seq(Calls) BY <2>3, <2>4
  <2>6. nbLoop' \in Seq(Calls) BY <2>2, <2>3, <2>4, <2>5
  <2> QED BY <2>6 DEF Calls
<1>10. NbState'
  <2>1. nbFault' \in BOOLEAN /\ nbBegun' \in BOOLEAN BY <1>1, <1>2, Zenon DEF NbState
  <2> QED BY <1>1, <1>2, <1>4, <1>5, <1>9, <2>1 DEF NbState
<1>11. NbEndsInv'
  <2>1. nbPhase \in {"connect", "probe"} => nbLoop' = nbLoop
    <3>1. ASSUME nbPhase \in {"connect", "probe"} PROVE nbEvent = 0 /\ nbWaiter = "none" BY <1>1, <3>1 DEF NbEndsInv
    <3> QED BY <3>1, <1>7 DEF heard, NbRouted
  <2>2. NbAsks' = NbAsks BY <1>2, <1>5 DEF NbAsks
  <2> QED BY <1>1, <1>2, <1>4, <1>5, <2>1, <2>2 DEF NbEndsInv
<1>12. CASE ~NbFlows' BY <1>10, <1>11, <1>12 DEF NbInv
<1>13. CASE NbFlows'
  <2>1. nbPhase = "print" /\ ~nbFault /\ packet.code # "error" BY <1>2, <1>13 DEF NbFlows
  <2>2. NbPipeInv /\ NbOrderInv /\ NbAnswerInv /\ NbIndexInv BY <2>1 DEF NbInv, NbFlows
  <2>3. NbMay' = NbMay /\ NbOwn' = NbOwn BY <1>2, <1>5 DEF NbMay, NbOld, NbOwn
  <2>4. /\ NbStage \in NbStages /\ NbOwn \notin {"error", "E0"} /\ (NbOwn = "rows" <=> NbStage = "rows")
        /\ "error" \notin NbMay /\ "E0" \notin NbMay /\ ("rows" \in NbMay => NbStage = "rows")
    BY <1>1, NbHere
  <2>5. \/ nbLoop' = nbLoop /\ ~NbRouted(packet)
        \/ nbLoop' = Append(nbLoop, [to |-> 0, packet |-> packet]) /\ packet.code = "E0"
        \/ nbLoop' = Append(nbLoop, [to |-> nbEvent, packet |-> packet]) /\ NbRouted(packet)
    BY <1>7, <2>1, <2>4 DEF heard, NbRouted, NbOwn
  <2>6. nbOut' = nbOut /\ nbEvent' = nbEvent /\ nbAnswer' = nbAnswer /\ nbWaiter' = nbWaiter /\ nbLabel' = nbLabel
        /\ nbFinished' = nbFinished /\ nbEnded' = nbEnded /\ nbVariant' = nbVariant
    BY <1>2
  <2>7. CASE nbLoop' = nbLoop /\ ~NbRouted(packet)
    <3>1. NbPipeInv' BY <1>4, <1>5, <2>2, <2>3, <2>6, <2>7 DEF NbPipeInv, NbSaysNothing
    <3>2. NbOrderInv' BY <1>4, <1>5, <2>2, <2>3, <2>6, <2>7 DEF NbOrderInv, NbSaysNothing
    <3>3. NbAnswerInv' BY <1>4, <1>5, <2>2, <2>3, <2>6, <2>7 DEF NbAnswerInv
    <3>4. NbIndexInv' BY <1>4, <1>5, <2>2, <2>3, <2>6, <2>7 DEF NbIndexInv, NbAnnounced
    <3> QED BY <1>10, <1>11, <3>1, <3>2, <3>3, <3>4 DEF NbInv
  <2>8. CASE nbLoop' = Append(nbLoop, [to |-> 0, packet |-> packet]) /\ packet.code = "E0"
    <3> DEFINE call == [to |-> 0, packet |-> packet]
    <3>0. call.to = 0 /\ call.packet = packet /\ call.packet.code = "E0" BY <2>8
    <3>1. /\ Len(nbLoop') = Len(nbLoop) + 1 /\ DOMAIN nbLoop' = 1..Len(nbLoop) + 1 /\ nbLoop'[Len(nbLoop) + 1] = call
          /\ DOMAIN nbLoop = 1..Len(nbLoop) /\ \A i \in DOMAIN nbLoop : nbLoop'[i] = nbLoop[i]
      BY <1>6, <2>8
    <3> HIDE DEF call
    <3>2. \A i \in DOMAIN nbLoop' : (i \in DOMAIN nbLoop /\ nbLoop'[i] = nbLoop[i]) \/ nbLoop'[i] = call BY <3>1
    <3>3. \A i \in DOMAIN nbIn' : i + 1 \in DOMAIN nbIn /\ nbIn'[i] = nbIn[i + 1] BY <1>4
    <3>4. NbPipeInv' BY <1>5, <2>2, <2>3, <2>6, <3>0, <3>2, <3>3 DEF NbPipeInv, NbSaysNothing
    <3>5. NbOrderInv'
      <4> SUFFICES ASSUME nbEvent # 0, NbStage # "completion" PROVE NbOrderInv' BY <1>5, <2>6 DEF NbOrderInv
      <4>1. \A i \in DOMAIN nbIn' : nbIn'[i].code = NbOwn =>
              nbOut = <<>> /\ \A k \in DOMAIN nbIn' : k > i => NbSaysNothing(nbIn'[k])
        BY <1>4, <2>2, <3>3 DEF NbOrderInv
      <4>2. \A i \in DOMAIN nbLoop' : nbLoop'[i].to # 0 /\ nbLoop'[i].packet.code = NbOwn =>
              /\ nbOut = <<>> /\ \A k \in DOMAIN nbIn' : NbSaysNothing(nbIn'[k])
              /\ \A k \in DOMAIN nbLoop' : k > i => nbLoop'[k].to = 0
        BY <2>2, <3>0, <3>2, <3>3 DEF NbOrderInv
      <4>3. nbAnswer # <<>> =>
              /\ nbOut = <<>> /\ \A k \in DOMAIN nbIn' : NbSaysNothing(nbIn'[k])
              /\ \A k \in DOMAIN nbLoop' : nbLoop'[k].to = 0
        BY <2>2, <3>0, <3>2, <3>3 DEF NbOrderInv
      <4>4. \A i \in DOMAIN nbOut : NbCode(nbOut[i].stage) = NbOwn => i = Len(nbOut) BY <2>2 DEF NbOrderInv
      <4> QED BY <1>5, <2>3, <2>6, <4>1, <4>2, <4>3, <4>4 DEF NbOrderInv, NbSaysNothing
    <3>6. NbAnswerInv' BY <1>5, <2>2, <2>6, <3>0, <3>2, <3>3 DEF NbAnswerInv
    <3>7. NbIndexInv'
      <4>1. \A i \in DOMAIN nbLoop' : (i \in DOMAIN nbLoop /\ nbLoop'[i] = nbLoop[i]) \/ i = Len(nbLoop) + 1 BY <3>1
      <4>2. \A i \in DOMAIN nbIn' : i + 1 \in DOMAIN nbIn /\ nbIn'[i] = nbIn[i + 1] /\ i + 1 # 1 /\ i \in Int BY <1>4
      <4>3. SUFFICES ASSUME nbVariant = "d11_v1" PROVE NbIndexInv' BY <2>6 DEF NbIndexInv
      <4>4. NbAnnounced(1) BY <1>4, <2>8 DEF NbAnnounced
      <4>5. /\ ~(nbFinished < nbLabel) /\ nbWaiter # "set" /\ NbStage # "end"
            /\ (\A i \in DOMAIN nbIn : NbAnnounced(i) => i = 1) /\ \A i \in DOMAIN nbLoop : nbLoop[i].to # 0
        BY <1>4, <2>2, <4>3, <4>4 DEF NbIndexInv
      <4>6. \A i \in DOMAIN nbIn' : ~NbAnnounced(i)' BY <4>2, <4>5 DEF NbAnnounced
      <4>7. \A i \in DOMAIN nbLoop' : nbLoop'[i].to = 0 => i = Len(nbLoop) + 1 BY <4>1, <4>5
      <4> QED BY <1>5, <2>6, <4>5, <4>6, <4>7 DEF NbIndexInv
    <3> QED BY <1>10, <1>11, <3>4, <3>5, <3>6, <3>7 DEF NbInv
  <2>9. CASE nbLoop' = Append(nbLoop, [to |-> nbEvent, packet |-> packet]) /\ NbRouted(packet)
    <3> DEFINE call == [to |-> nbEvent, packet |-> packet]
    <3>0. /\ call.to = nbEvent /\ call.packet = packet /\ call.packet.code = NbOwn /\ nbEvent # 0 /\ nbEvent = nbAt
          /\ NbOwn \in NbMay /\ NbOwn \notin {"error", "E0", "rows"}
      BY <1>1, <2>1, <2>4, <2>9 DEF NbRouted, NbOwn, NbState, NbMay, NbEndsInv, NbAsks
    <3>1. /\ Len(nbLoop') = Len(nbLoop) + 1 /\ DOMAIN nbLoop' = 1..Len(nbLoop) + 1 /\ nbLoop'[Len(nbLoop) + 1] = call
          /\ DOMAIN nbLoop = 1..Len(nbLoop) /\ \A i \in DOMAIN nbLoop : nbLoop'[i] = nbLoop[i]
      BY <1>6, <2>9
    <3>2. nbAt \in DOMAIN NbRecipe /\ NbOwn = NbCode(NbRecipe[nbAt]) BY <1>1, NbHere DEF NbOwn, NbStage
    <3> HIDE DEF call
    <3>3. NbPipeInv' BY <1>4, <1>5, <2>2, <2>3, <2>6, <3>0, <3>1, <3>2 DEF NbPipeInv, NbSaysNothing
    <3>4. NbOrderInv'
      <4> SUFFICES ASSUME NbStage # "completion" PROVE NbOrderInv' BY <1>5 DEF NbOrderInv
      <4>1. nbIn[1].code = NbOwn /\ ~NbSaysNothing(nbIn[1]) BY <1>4, <3>0 DEF NbSaysNothing
      <4>2. nbOut = <<>> /\ (\A k \in DOMAIN nbIn : k > 1 => NbSaysNothing(nbIn[k])) /\ nbAnswer = <<>>
            /\ \A i \in DOMAIN nbLoop : ~(nbLoop[i].to # 0 /\ nbLoop[i].packet.code = NbOwn)
        BY <1>4, <2>2, <3>0, <4>1 DEF NbOrderInv
      <4>3. \A k \in DOMAIN nbIn' : NbSaysNothing(nbIn'[k]) BY <1>4, <4>2
      <4> QED BY <1>5, <2>3, <2>6, <3>0, <3>1, <4>2, <4>3 DEF NbOrderInv, NbSaysNothing
    <3>5. NbAnswerInv' BY <1>4, <1>5, <2>2, <2>3, <2>6, <3>0, <3>1 DEF NbAnswerInv
    <3>6. NbIndexInv'
      <4>1. nbEvent # 0 BY <3>0
      <4>2. \A i \in DOMAIN nbLoop' : nbLoop'[i].to = 0 => i \in DOMAIN nbLoop /\ nbLoop'[i] = nbLoop[i] BY <3>0, <3>1
      <4>3. \A i \in DOMAIN nbIn' : i + 1 \in DOMAIN nbIn /\ nbIn'[i] = nbIn[i + 1] /\ i \in Int BY <1>4
      <4> QED BY <1>5, <2>2, <2>6, <4>2, <4>3 DEF NbIndexInv, NbAnnounced
    <3> QED BY <1>10, <1>11, <3>3, <3>4, <3>5, <3>6 DEF NbInv
  <2> QED BY <2>5, <2>7, <2>8, <2>9
<1> QED BY <1>12, <1>13

(* The event loop publishes what was handed to it.                         *)
LEMMA NbPublishKept ==
  ASSUME NbInv, NbPublish PROVE NbInv'
<1> DEFINE call == Head(nbLoop)
<1>1. NbState /\ NbEndsInv /\ nbPhase # "closed" /\ nbLoop # <<>> BY DEF NbInv, NbPublish
<1>2. /\ nbLoop' = Tail(nbLoop)
      /\ UNCHANGED <<nbPhase, nbVariant, nbLabel, nbAt, nbEvent, nbBegun, nbVerdict, nbOut, nbIn, nbFault, nbEnded, nbFinished>>
  BY DEF NbPublish, nbPrinter
<1>3. \/ /\ call.to = 0 /\ nbWaiter' = (IF nbWaiter = "none" THEN "none" ELSE "set") /\ nbAnswer' = nbAnswer
      \/ /\ call.to # 0 /\ nbWaiter' = nbWaiter
         /\ \/ nbAnswer' = nbAnswer
            \/ call.to = nbEvent /\ nbAnswer' = <<call.packet>>
  BY DEF NbPublish
<1>4. /\ call \in [to : Nat, packet : NbPackets] /\ call = nbLoop[1] /\ 1 \in DOMAIN nbLoop
      /\ nbLoop' \in Seq([to : Nat, packet : NbPackets])
      /\ Len(nbLoop') = Len(nbLoop) - 1 /\ DOMAIN nbLoop' = 1..Len(nbLoop) - 1 /\ DOMAIN nbLoop = 1..Len(nbLoop)
      /\ \A i \in DOMAIN nbLoop' : i + 1 \in DOMAIN nbLoop /\ nbLoop'[i] = nbLoop[i + 1]
  <2> DEFINE Calls == [to : Nat, packet : NbPackets]
  <2>1. nbLoop \in Seq(Calls) BY <1>1 DEF NbState
  <2> HIDE DEF Calls
  <2>2. /\ call \in Calls /\ call = nbLoop[1] /\ 1 \in DOMAIN nbLoop /\ nbLoop' \in Seq(Calls)
        /\ Len(nbLoop') = Len(nbLoop) - 1 /\ DOMAIN nbLoop' = 1..Len(nbLoop) - 1 /\ DOMAIN nbLoop = 1..Len(nbLoop)
        /\ \A i \in DOMAIN nbLoop' : i + 1 \in DOMAIN nbLoop /\ nbLoop'[i] = nbLoop[i + 1]
    BY <1>1, <1>2, <2>1
  <2> QED BY <2>2 DEF Calls
<1> HIDE DEF call
<1>5. NbRecipe' = NbRecipe /\ NbStage' = NbStage BY <1>2 DEF NbRecipe, NbStage
<1>6. NbState'
  <2>1. nbFault' \in BOOLEAN /\ nbBegun' \in BOOLEAN BY <1>1, <1>2, Zenon DEF NbState
  <2>2. call.packet \in NbPackets BY <1>4
  <2>3. <<call.packet>> \in Seq(NbPackets) BY <2>2
  <2>4. nbAnswer' \in Seq(NbPackets) BY <1>1, <1>3, <2>3 DEF NbState
  <2>5. nbWaiter' \in {"none", "armed", "set"} BY <1>1, <1>3 DEF NbState
  <2> QED BY <1>1, <1>2, <1>4, <1>5, <2>1, <2>4, <2>5 DEF NbState
<1>7. NbEndsInv'
  <2>1. nbPhase \notin {"connect", "probe"} BY <1>1 DEF NbEndsInv
  <2>2. NbAsks' = NbAsks BY <1>2, <1>5 DEF NbAsks
  <2> QED BY <1>1, <1>2, <1>5, <2>1, <2>2 DEF NbEndsInv
<1>8. CASE ~NbFlows' BY <1>6, <1>7, <1>8 DEF NbInv
<1>9. CASE NbFlows'
  <2>1. NbFlows BY <1>2, <1>9 DEF NbFlows
  <2>2. NbPipeInv /\ NbOrderInv /\ NbAnswerInv /\ NbIndexInv BY <2>1 DEF NbInv
  <2>3. NbMay' = NbMay /\ NbOwn' = NbOwn BY <1>2, <1>5 DEF NbMay, NbOld, NbOwn
  <2>4. CASE call.to = 0
    <3>1. nbAnswer' = nbAnswer /\ nbWaiter' = (IF nbWaiter = "none" THEN "none" ELSE "set") BY <1>3, <2>4
    <3>2. NbPipeInv' BY <1>2, <1>4, <1>5, <2>2, <2>3, <3>1 DEF NbPipeInv, NbSaysNothing
    <3>3. NbOrderInv' BY <1>2, <1>4, <1>5, <2>2, <2>3, <3>1 DEF NbOrderInv, NbSaysNothing
    <3>4. NbAnswerInv' BY <1>2, <1>4, <1>5, <2>2, <2>3, <3>1 DEF NbAnswerInv
    <3>5. NbIndexInv'
      <4>1. nbVariant' = nbVariant BY <1>2
      <4>2. SUFFICES ASSUME nbVariant = "d11_v1" PROVE NbIndexInv' BY <4>1 DEF NbIndexInv
      <4>3. 1 \in DOMAIN nbLoop /\ nbLoop[1].to = 0 BY <1>4, <2>4
      <4>4. ~(nbFinished < nbLabel) BY <2>2, <4>2, <4>3 DEF NbIndexInv
      <4>5. nbFinished = nbLabel BY <1>1, <4>4 DEF NbEndsInv, NbState
      <4>6. (\A i \in DOMAIN nbIn : ~NbAnnounced(i)) /\ (\A i \in DOMAIN nbLoop : i > 1 => nbLoop[i].to # 0)
        BY <1>4, <2>2, <2>4, <4>2 DEF NbIndexInv
      <4>7. (\A i \in DOMAIN nbIn' : ~NbAnnounced(i)') /\ (\A i \in DOMAIN nbLoop' : nbLoop'[i].to # 0)
        BY <1>2, <1>4, <4>6 DEF NbAnnounced
      <4>8. NbStage = "end" => nbWaiter' = "set" BY <2>2, <3>1, <4>2 DEF NbIndexInv
      <4> QED BY <1>2, <1>5, <4>5, <4>7, <4>8 DEF NbIndexInv
    <3> QED BY <1>6, <1>7, <3>2, <3>3, <3>4, <3>5 DEF NbInv
  <2>5. CASE call.to # 0 /\ nbAnswer' = nbAnswer
    <3>1. nbWaiter' = nbWaiter BY <1>3, <2>5
    <3>2. NbPipeInv' BY <1>2, <1>4, <1>5, <2>2, <2>3, <2>5, <3>1 DEF NbPipeInv, NbSaysNothing
    <3>3. NbOrderInv' BY <1>2, <1>4, <1>5, <2>2, <2>3, <2>5, <3>1 DEF NbOrderInv, NbSaysNothing
    <3>4. NbAnswerInv' BY <1>2, <1>4, <1>5, <2>2, <2>3, <2>5, <3>1 DEF NbAnswerInv
    <3>5. NbIndexInv' BY <1>2, <1>4, <1>5, <2>2, <2>3, <2>5, <3>1 DEF NbIndexInv, NbAnnounced
    <3> QED BY <1>6, <1>7, <3>2, <3>3, <3>4, <3>5 DEF NbInv
  <2>6. CASE call.to # 0 /\ call.to = nbEvent /\ nbAnswer' = <<call.packet>>
    <3>1. nbWaiter' = nbWaiter /\ nbAnswer' # <<>> /\ nbAnswer'[1] = call.packet BY <1>3, <2>6
    <3>2. call.packet.code = NbOwn
      <4>1. nbEvent = nbAt BY <1>1, <2>6 DEF NbState
      <4> QED BY <1>4, <2>2, <2>6, <4>1 DEF NbPipeInv, NbOwn, NbStage
    <3>3. NbPipeInv' BY <1>2, <1>4, <1>5, <2>2, <2>3, <2>6, <3>1, <3>2 DEF NbPipeInv, NbSaysNothing
    <3>4. NbOrderInv'
      <4> SUFFICES ASSUME NbStage # "completion" PROVE NbOrderInv' BY <1>5 DEF NbOrderInv
      <4>1. /\ nbOut = <<>> /\ \A k \in DOMAIN nbIn : NbSaysNothing(nbIn[k])
            /\ \A k \in DOMAIN nbLoop : k > 1 => nbLoop[k].to = 0
        BY <1>4, <2>2, <2>6, <3>2 DEF NbOrderInv
      <4>2. NbOwn \notin {"error", "E0", "rows"} BY <1>1, <2>6, NbHere DEF NbEndsInv, NbAsks
      <4>3. /\ DOMAIN nbOut' = {} /\ nbOut' = <<>> /\ (\A k \in DOMAIN nbIn' : NbSaysNothing(nbIn'[k]) /\ nbIn'[k].code # NbOwn)
            /\ \A k \in DOMAIN nbLoop' : nbLoop'[k].to = 0
        BY <1>2, <1>4, <4>1, <4>2 DEF NbSaysNothing
      <4> QED BY <2>3, <4>3 DEF NbOrderInv
    <3>5. \A i \in DOMAIN nbLoop' : \E k \in DOMAIN nbLoop : nbLoop'[i] = nbLoop[k] BY <1>4
    <3>6. NbAnswerInv'
      <4>1. /\ nbAnswer'[1].code = "endPage" => \E i \in DOMAIN nbLoop : nbLoop[i].packet.code = "endPage"
            /\ nbAnswer'[1].code = "completion" /\ nbAnswer'[1].positive =>
                 \E i \in DOMAIN nbLoop : nbLoop[i].packet.code = "completion" /\ nbLoop[i].packet.positive
        BY <1>4, <3>1
      <4> QED BY <1>2, <1>5, <2>2, <3>5, <4>1 DEF NbAnswerInv
    <3>7. NbIndexInv' BY <1>2, <1>4, <1>5, <2>2, <2>3, <2>6, <3>1 DEF NbIndexInv, NbAnnounced
    <3> QED BY <1>6, <1>7, <3>3, <3>4, <3>6, <3>7 DEF NbInv
  <2> QED BY <1>3, <2>4, <2>5, <2>6
<1> QED BY <1>8, <1>9

(* The printer executes a request, and what it answers is true.            *)
LEMMA NbTakesKept ==
  ASSUME NbInv, NbPrinterTakes PROVE NbInv'
<1> DEFINE request == Head(nbOut)
<1>1. NbState /\ NbEndsInv /\ nbOut # <<>> BY DEF NbInv, NbPrinterTakes
<1>2. /\ nbOut' = Tail(nbOut) /\ nbEnded' = (IF request.stage = "endPage" THEN request.label ELSE nbEnded)
      /\ UNCHANGED <<nbPhase, nbVariant, nbLabel, nbAt, nbEvent, nbAnswer, nbWaiter, nbBegun, nbVerdict, nbLoop, nbFault,
                     nbFinished>>
  BY DEF NbPrinterTakes, nbClient
<1>3. request \in [stage : NbStages, label : Nat] /\ request = nbOut[1] /\ 1 \in DOMAIN nbOut
  <2> DEFINE Requests == [stage : NbStages, label : Nat]
  <2>1. nbOut \in Seq(Requests) BY <1>1 DEF NbState
  <2> HIDE DEF Requests
  <2>2. request \in Requests /\ request = nbOut[1] /\ 1 \in DOMAIN nbOut BY <1>1, <2>1
  <2> QED BY <2>2 DEF Requests
<1>4. /\ nbOut' \in Seq([stage : NbStages, label : Nat])
      /\ Len(nbOut') = Len(nbOut) - 1 /\ DOMAIN nbOut' = 1..Len(nbOut) - 1 /\ DOMAIN nbOut = 1..Len(nbOut)
      /\ \A i \in DOMAIN nbOut' : i + 1 \in DOMAIN nbOut /\ nbOut'[i] = nbOut[i + 1]
  BY <1>1, <1>2 DEF NbState
<1>5. PICK packet \in NbPackets :
        /\ nbIn' \in {nbIn, Append(nbIn, packet)}
        /\ \/ packet.code = "error"
           \/ /\ packet.code = NbCode(request.stage)
              /\ packet.positive /\ request.stage = "completion" => nbFinished >= request.label
  <2>1. NbCode(request.stage) \in NbStages \cup {"F4", "30", "E0", "error"} BY <1>3, NbCodes
  <2>2. PICK fits \in BOOLEAN : fits = (request.stage # "completion" \/ nbFinished >= request.label) OBVIOUS
  <2> DEFINE reply == [code |-> NbCode(request.stage), positive |-> fits]
             denial == [reply EXCEPT !.positive = FALSE]
             error == [code |-> "error", positive |-> FALSE]
  <2>3. NbReply(request) = reply BY <2>2, Zenon DEF NbReply
  <2>5. nbIn' \in {nbIn, Append(nbIn, reply), Append(nbIn, error), Append(nbIn, denial)}
    BY <2>3 DEF NbPrinterTakes
  <2>6. reply \in NbPackets BY <2>1, <2>2 DEF NbPackets
  <2>7. denial \in NbPackets /\ error \in NbPackets BY <2>6 DEF NbPackets
  <2>8. reply.code = NbCode(request.stage) /\ (reply.positive /\ request.stage = "completion" => nbFinished >= request.label)
    BY <2>2
  <2>9. denial.code = NbCode(request.stage) /\ ~denial.positive /\ error.code = "error" BY <2>6 DEF NbPackets
  <2> HIDE DEF reply, denial, error
  <2>10. CASE nbIn' = Append(nbIn, reply) BY <2>6, <2>8, <2>10
  <2>11. CASE nbIn' = Append(nbIn, denial) BY <2>7, <2>9, <2>11
  <2>12. CASE nbIn' = Append(nbIn, error) \/ nbIn' = nbIn BY <2>7, <2>9, <2>12
  <2> QED BY <2>5, <2>10, <2>11, <2>12
<1> HIDE DEF request
<1>6. /\ nbIn' \in Seq(NbPackets) /\ nbIn \in Seq(NbPackets)
      /\ \/ nbIn' = nbIn
         \/ /\ Len(nbIn') = Len(nbIn) + 1 /\ DOMAIN nbIn' = 1..Len(nbIn) + 1 /\ nbIn'[Len(nbIn) + 1] = packet
            /\ DOMAIN nbIn = 1..Len(nbIn) /\ \A i \in DOMAIN nbIn : nbIn'[i] = nbIn[i]
  <2>1. nbIn \in Seq(NbPackets) BY <1>1 DEF NbState
  <2>2. CASE nbIn' = nbIn BY <2>1, <2>2
  <2>3. CASE nbIn' = Append(nbIn, packet) BY <2>1, <2>3
  <2> QED BY <1>5, <2>2, <2>3
<1>7. NbRecipe' = NbRecipe /\ NbStage' = NbStage BY <1>2 DEF NbRecipe, NbStage
<1>8. request.stage = "endPage" => /\ request.label = nbEnded + 1 /\ nbEnded < nbLabel /\ nbBegun
                                   /\ \A k \in DOMAIN nbOut : nbOut[k].stage = "endPage" => k = 1
  BY <1>1, <1>3 DEF NbEndsInv
<1>9. NbState'
  <2>1. nbFault' \in BOOLEAN /\ nbBegun' \in BOOLEAN BY <1>1, <1>2, Zenon DEF NbState
  <2>2. nbEnded' \in Nat BY <1>1, <1>2, <1>3 DEF NbState
  <2> QED BY <1>1, <1>2, <1>4, <1>6, <1>7, <2>1, <2>2 DEF NbState
<1>10. NbEndsInv'
  <2>1. nbPhase \notin {"connect", "probe"} BY <1>1 DEF NbEndsInv
  <2>2. NbAsks' = NbAsks BY <1>2, <1>7 DEF NbAsks
  <2>3. nbFinished' <= nbEnded' /\ nbEnded' <= nbLabel' /\ (nbEnded' > 0 => nbBegun')
    BY <1>1, <1>2, <1>8 DEF NbEndsInv, NbState
  <2>4. \A i \in DOMAIN nbOut' : nbOut'[i].stage = "endPage" =>
          /\ nbOut'[i].label = nbEnded' + 1 /\ nbEnded' < nbLabel' /\ nbBegun'
          /\ \A k \in DOMAIN nbOut' : nbOut'[k].stage = "endPage" => k = i
    <3>1. CASE request.stage = "endPage"
      <4>1. \A i \in DOMAIN nbOut' : nbOut'[i].stage # "endPage" BY <1>4, <1>8, <3>1
      <4> QED BY <4>1
    <3>2. CASE request.stage # "endPage" BY <1>1, <1>2, <1>4, <3>2 DEF NbEndsInv
    <3> QED BY <3>1, <3>2
  <2> QED BY <1>1, <1>2, <1>7, <2>1, <2>2, <2>3, <2>4 DEF NbEndsInv
<1>11. CASE ~NbFlows' BY <1>9, <1>10, <1>11 DEF NbInv
<1>12. CASE NbFlows'
  <2>1. NbFlows BY <1>2, <1>12 DEF NbFlows
  <2>2. NbPipeInv /\ NbOrderInv /\ NbAnswerInv /\ NbIndexInv BY <2>1 DEF NbInv
  <2>3. NbMay' = NbMay /\ NbOwn' = NbOwn /\ NbOld' = NbOld BY <1>2, <1>7 DEF NbMay, NbOld, NbOwn
  <2>4. \/ packet.code \in {"error", "rows"}
        \/ packet.code \in NbMay /\ packet.code = NbCode(request.stage) /\ packet.code # "E0"
    BY <1>3, <1>5, <2>2, NbCodes DEF NbPipeInv
  <2>5. NbPipeInv'
    <3>1. \A i \in DOMAIN nbOut' : nbOut'[i].stage = "rows" \/ NbCode(nbOut'[i].stage) \in NbMay'
      BY <1>4, <2>2, <2>3 DEF NbPipeInv
    <3>2. \A i \in DOMAIN nbIn' : NbSaysNothing(nbIn'[i]) \/ nbIn'[i].code \in NbMay'
      BY <1>6, <2>2, <2>3, <2>4 DEF NbPipeInv, NbSaysNothing
    <3> QED BY <1>2, <1>7, <2>2, <2>3, <3>1, <3>2 DEF NbPipeInv, NbSaysNothing
  <2>6. NbOrderInv'
    <3> SUFFICES ASSUME nbEvent # 0, NbStage # "completion" PROVE NbOrderInv' BY <1>2, <1>7 DEF NbOrderInv
    <3>1. nbAnswer = <<>> /\ (\A i \in DOMAIN nbIn : nbIn[i].code # NbOwn)
          /\ \A i \in DOMAIN nbLoop : ~(nbLoop[i].to # 0 /\ nbLoop[i].packet.code = NbOwn)
      BY <1>1, <2>2 DEF NbOrderInv
    <3>2. NbOwn \notin {"error", "E0", "rows"} BY <1>1, NbHere DEF NbEndsInv, NbAsks
    <3>3. packet.code = NbOwn => NbCode(request.stage) = NbOwn BY <2>4, <3>2
    <3>4. NbCode(request.stage) = NbOwn => nbOut' = <<>>
      <4>1. NbCode(request.stage) = NbOwn => 1 = Len(nbOut) BY <1>3, <2>2 DEF NbOrderInv
      <4>2. Len(nbOut') = 0 => nbOut' = <<>> BY <1>4
      <4> QED BY <1>4, <4>1, <4>2
    <3>5. \A i \in DOMAIN nbIn' : nbIn'[i].code = NbOwn =>
             nbOut' = <<>> /\ \A k \in DOMAIN nbIn' : k > i => NbSaysNothing(nbIn'[k])
      BY <1>6, <3>1, <3>3, <3>4
    <3>6. \A i \in DOMAIN nbOut' : NbCode(nbOut'[i].stage) = NbOwn => i = Len(nbOut')
      <4>1. \A i \in DOMAIN nbOut : NbCode(nbOut[i].stage) = NbOwn => i = Len(nbOut) BY <2>2 DEF NbOrderInv
      <4>2. Len(nbOut) \in Nat /\ \A i \in DOMAIN nbOut' : i \in Int BY <1>1, <1>4 DEF NbState
      <4> SUFFICES ASSUME NEW i \in DOMAIN nbOut', NbCode(nbOut'[i].stage) = NbOwn PROVE i = Len(nbOut') OBVIOUS
      <4>3. i + 1 \in DOMAIN nbOut /\ NbCode(nbOut[i + 1].stage) = NbOwn BY <1>4
      <4>4. i + 1 = Len(nbOut) BY <4>1, <4>3
      <4> QED BY <1>4, <4>2, <4>4
    <3> QED BY <1>2, <2>3, <3>1, <3>5, <3>6 DEF NbOrderInv
  <2>7. request.stage = "endPage" => NbStage = "endPage" /\ nbEvent # 0 /\ nbEnded' = nbLabel /\ NbOwn = "endPage"
    <3>1. SUFFICES ASSUME request.stage = "endPage"
          PROVE NbStage = "endPage" /\ nbEvent # 0 /\ nbEnded' = nbLabel /\ NbOwn = "endPage"
      OBVIOUS
    <3>2. "endPage" \in NbMay BY <1>3, <2>2, <3>1 DEF NbPipeInv, NbCode
    <3>3. NbOwn = "endPage" /\ nbEvent # 0 BY <3>2 DEF NbMay, NbOld
    <3>4. NbStage = "endPage" BY <1>1, <3>3, NbHere, NbCodes DEF NbOwn
    <3> QED BY <1>1, <1>2, <1>8, <2>2, <3>1, <3>3, <3>4 DEF NbAnswerInv, NbState
  <2>8. NbAnswerInv'
    <3>1. request.stage # "endPage" => nbEnded' = nbEnded BY <1>2
    <3>2. \A i \in DOMAIN nbOut' : nbOut'[i].stage = "completion" => nbOut'[i].label = nbLabel BY <1>4, <2>2 DEF NbAnswerInv
    <3>3. packet.code = "endPage" => request.stage = "endPage" BY <1>3, <2>4, NbCodes
    <3>4. packet.code = "completion" /\ packet.positive => nbFinished >= nbLabel
      <4>1. packet.code = "completion" => request.stage = "completion" BY <1>3, <2>4, NbCodes
      <4> QED BY <1>3, <1>5, <2>2, <4>1 DEF NbAnswerInv
    <3>5. \A i \in DOMAIN nbIn' : (i \in DOMAIN nbIn /\ nbIn'[i] = nbIn[i]) \/ nbIn'[i] = packet BY <1>6
    <3>6. (\E i \in DOMAIN nbIn' : nbIn'[i].code = "endPage") => nbEnded' = nbLabel
      BY <1>1, <2>2, <2>7, <3>1, <3>3, <3>5 DEF NbAnswerInv
    <3>7. (\E i \in DOMAIN nbIn' : nbIn'[i].code = "completion" /\ nbIn'[i].positive) => nbFinished >= nbLabel
      BY <2>2, <3>4, <3>5 DEF NbAnswerInv
    <3>8. /\ NbStage \notin {"endPage", "completion", "end"} \/ (NbStage = "endPage" /\ nbEvent = 0) => nbEnded' = nbLabel - 1
          /\ NbStage \in {"completion", "end"} => nbEnded' = nbLabel
          /\ nbEnded' >= nbLabel - 1
      BY <1>1, <2>2, <2>7, <3>1 DEF NbAnswerInv, NbState
    <3>9. \/ \E i \in DOMAIN nbLoop : nbLoop[i].packet.code = "endPage"
          \/ nbAnswer # <<>> /\ nbAnswer[1].code = "endPage"
          => nbEnded' = nbLabel
      BY <2>2, <2>7, <3>1 DEF NbAnswerInv
    <3> QED BY <1>2, <1>7, <2>2, <3>2, <3>6, <3>7, <3>8, <3>9 DEF NbAnswerInv
  <2>9. NbIndexInv'
    <3>1. packet.code # "E0" BY <2>4
    <3> QED BY <1>2, <1>6, <1>7, <2>2, <3>1 DEF NbIndexInv, NbAnnounced
  <2> QED BY <1>9, <1>10, <2>5, <2>6, <2>8, <2>9 DEF NbInv
<1> QED BY <1>11, <1>12

(* The printer ejects a page, and announces it once.                       *)
LEMMA NbEjectsKept ==
  ASSUME NbInv, NbPrinterEjects PROVE NbInv'
<1>1. NbState /\ NbEndsInv /\ nbFinished < nbEnded /\ nbVariant # "plain" BY DEF NbInv, NbPrinterEjects
<1> DEFINE packet == [code |-> "E0", positive |-> TRUE]
<1>2. /\ nbFinished' = nbFinished + 1 /\ nbIn' \in {nbIn, Append(nbIn, packet)}
      /\ UNCHANGED <<nbPhase, nbVariant, nbLabel, nbAt, nbEvent, nbAnswer, nbWaiter, nbBegun, nbVerdict, nbOut, nbLoop,
                     nbFault, nbEnded>>
  BY DEF NbPrinterEjects, nbClient
<1>3. packet \in NbPackets /\ packet.code = "E0" BY DEF NbPackets
<1> HIDE DEF packet
<1>4. /\ nbIn' \in Seq(NbPackets) /\ nbIn \in Seq(NbPackets)
      /\ \/ nbIn' = nbIn
         \/ /\ Len(nbIn') = Len(nbIn) + 1 /\ DOMAIN nbIn' = 1..Len(nbIn) + 1 /\ nbIn'[Len(nbIn) + 1] = packet
            /\ DOMAIN nbIn = 1..Len(nbIn) /\ \A i \in DOMAIN nbIn : nbIn'[i] = nbIn[i]
  <2>1. nbIn \in Seq(NbPackets) BY <1>1 DEF NbState
  <2>2. CASE nbIn' = nbIn BY <2>1, <2>2
  <2>3. CASE nbIn' = Append(nbIn, packet) BY <1>3, <2>1, <2>3
  <2> QED BY <1>2, <2>2, <2>3
<1>5. NbRecipe' = NbRecipe /\ NbStage' = NbStage BY <1>2 DEF NbRecipe, NbStage
<1>6. NbState'
  <2>1. nbFault' \in BOOLEAN /\ nbBegun' \in BOOLEAN BY <1>1, <1>2, Zenon DEF NbState
  <2> QED BY <1>1, <1>2, <1>4, <1>5, <2>1 DEF NbState
<1>7. NbEndsInv'
  <2>1. nbPhase \notin {"connect", "probe"} BY <1>1 DEF NbEndsInv, NbState
  <2>2. NbAsks' = NbAsks BY <1>2, <1>5 DEF NbAsks
  <2> QED BY <1>1, <1>2, <1>5, <2>1, <2>2 DEF NbEndsInv, NbState
<1>8. CASE ~NbFlows' BY <1>6, <1>7, <1>8 DEF NbInv
<1>9. CASE NbFlows'
  <2>1. NbFlows BY <1>2, <1>9 DEF NbFlows
  <2>2. NbPipeInv /\ NbOrderInv /\ NbAnswerInv /\ NbIndexInv BY <2>1 DEF NbInv
  <2>3. NbMay' = NbMay /\ NbOwn' = NbOwn BY <1>2, <1>5 DEF NbMay, NbOld, NbOwn
  <2>4. NbPipeInv' BY <1>2, <1>3, <1>4, <1>5, <2>2, <2>3 DEF NbPipeInv, NbSaysNothing
  <2>5. NbOrderInv'
    <3>1. NbOwn # "E0" BY <1>1, NbHere
    <3>2. \A i \in DOMAIN nbIn' : (i \in DOMAIN nbIn /\ nbIn'[i] = nbIn[i]) \/ nbIn'[i] = packet BY <1>4
    <3> QED BY <1>2, <1>3, <1>5, <2>2, <2>3, <3>1, <3>2 DEF NbOrderInv, NbSaysNothing
  <2>6. NbAnswerInv' BY <1>1, <1>2, <1>3, <1>4, <1>5, <2>2 DEF NbAnswerInv, NbEndsInv, NbState
  <2>7. NbIndexInv'
    <3>1. SUFFICES ASSUME nbVariant = "d11_v1" PROVE NbIndexInv' BY <1>2 DEF NbIndexInv
    <3>2. nbFinished < nbLabel /\ nbFinished + 1 = nbLabel /\ nbWaiter # "set"
      BY <1>1, <2>2, <3>1 DEF NbIndexInv, NbAnswerInv, NbEndsInv, NbState
    <3>3. (\A i \in DOMAIN nbIn : ~NbAnnounced(i)) /\ (\A i \in DOMAIN nbLoop : nbLoop[i].to # 0) /\ NbStage # "end"
      BY <2>2, <3>1, <3>2 DEF NbIndexInv
    <3>4. \A i \in DOMAIN nbIn' : NbAnnounced(i)' => i = Len(nbIn) + 1 BY <1>4, <3>3 DEF NbAnnounced
    <3>5. ~(nbFinished' < nbLabel') /\ nbWaiter' # "set" BY <1>1, <1>2, <3>2 DEF NbState
    <3> QED BY <1>2, <1>5, <3>3, <3>4, <3>5 DEF NbIndexInv, NbAnnounced
  <2> QED BY <1>6, <1>7, <2>4, <2>5, <2>6, <2>7 DEF NbInv
<1> QED BY <1>8, <1>9

(* The cover is opened: a device error is under way, and no answer.        *)
LEMMA NbFailsKept ==
  ASSUME NbInv, NbPrinterFails PROVE NbInv'
<1>1. NbState /\ NbEndsInv BY DEF NbInv
<1> DEFINE packet == [code |-> "error", positive |-> FALSE]
<1>2. /\ nbIn' = Append(nbIn, packet) /\ nbPhase \in {"probe", "print"}
      /\ UNCHANGED <<nbPhase, nbVariant, nbLabel, nbAt, nbEvent, nbAnswer, nbWaiter, nbBegun, nbVerdict, nbOut, nbLoop,
                     nbFault, nbEnded, nbFinished>>
  BY DEF NbPrinterFails, nbClient, nbPrinter
<1>3. packet \in NbPackets /\ packet.code = "error" BY DEF NbPackets
<1> HIDE DEF packet
<1>4. /\ nbIn' \in Seq(NbPackets)
      /\ Len(nbIn') = Len(nbIn) + 1 /\ DOMAIN nbIn' = 1..Len(nbIn) + 1 /\ nbIn'[Len(nbIn) + 1] = packet
      /\ DOMAIN nbIn = 1..Len(nbIn) /\ \A i \in DOMAIN nbIn : nbIn'[i] = nbIn[i]
  <2>1. nbIn \in Seq(NbPackets) BY <1>1 DEF NbState
  <2> QED BY <1>2, <1>3, <2>1
<1>5. NbRecipe' = NbRecipe /\ NbStage' = NbStage BY <1>2 DEF NbRecipe, NbStage
<1>6. NbState'
  <2>1. nbFault' \in BOOLEAN /\ nbBegun' \in BOOLEAN BY <1>1, <1>2, Zenon DEF NbState
  <2> QED BY <1>1, <1>2, <1>4, <1>5, <2>1 DEF NbState
<1>7. NbEndsInv'
  <2>1. nbPhase = "probe" => \A i \in DOMAIN nbIn' : nbIn'[i].code = "error" BY <1>1, <1>3, <1>4 DEF NbEndsInv
  <2>2. NbAsks' = NbAsks BY <1>2, <1>5 DEF NbAsks
  <2> QED BY <1>1, <1>2, <1>5, <2>1, <2>2 DEF NbEndsInv
<1>8. CASE ~NbFlows' BY <1>6, <1>7, <1>8 DEF NbInv
<1>9. CASE NbFlows'
  <2>1. NbFlows BY <1>2, <1>9 DEF NbFlows
  <2>2. NbPipeInv /\ NbOrderInv /\ NbAnswerInv /\ NbIndexInv BY <2>1 DEF NbInv
  <2>3. NbMay' = NbMay /\ NbOwn' = NbOwn BY <1>2, <1>5 DEF NbMay, NbOld, NbOwn
  <2>4. NbPipeInv' BY <1>2, <1>3, <1>4, <1>5, <2>2, <2>3 DEF NbPipeInv, NbSaysNothing
  <2>5. NbOrderInv'
    <3>1. NbOwn # "error" BY <1>1, NbHere
    <3>2. \A i \in DOMAIN nbIn' : (i \in DOMAIN nbIn /\ nbIn'[i] = nbIn[i]) \/ nbIn'[i] = packet BY <1>4
    <3> QED BY <1>2, <1>3, <1>5, <2>2, <2>3, <3>1, <3>2 DEF NbOrderInv, NbSaysNothing
  <2>6. NbAnswerInv' BY <1>1, <1>2, <1>3, <1>4, <1>5, <2>2 DEF NbAnswerInv
  <2>7. NbIndexInv'
    <3>1. \A i \in DOMAIN nbIn' : (i \in DOMAIN nbIn /\ nbIn'[i] = nbIn[i]) \/ nbIn'[i].code = "error" BY <1>3, <1>4
    <3> QED BY <1>2, <1>5, <2>2, <3>1 DEF NbIndexInv, NbAnnounced
  <2> QED BY <1>6, <1>7, <2>4, <2>5, <2>6, <2>7 DEF NbInv
<1> QED BY <1>8, <1>9

LEMMA NbKept ==
  ASSUME NbInv, [NbNext]_nbVars PROVE NbInv'
<1>1. CASE NbConnect
  <2>1. NbState /\ NbEndsInv BY DEF NbInv
  <2>2. /\ nbPhase = "connect" /\ nbPhase' \in {"probe", "print"}
        /\ UNCHANGED <<nbLabel, nbAt, nbEvent, nbAnswer, nbWaiter, nbBegun, nbVerdict, nbOut, nbIn, nbLoop, nbFault,
                       nbEnded, nbFinished>>
    BY <1>1 DEF NbConnect, nbPrinter, nbLink
  <2> QED BY <2>2, NbEnterKept
<1>2. CASE NbConnectFails
  <2>1. CASE nbTries < 2
    <3>1. /\ nbPhase = "connect" /\ nbPhase' = "connect"
          /\ UNCHANGED <<nbLabel, nbAt, nbEvent, nbAnswer, nbWaiter, nbBegun, nbVerdict, nbOut, nbIn, nbLoop, nbFault,
                         nbEnded, nbFinished>>
      BY <1>2, <2>1 DEF NbConnectFails, nbPrinter, nbLink
    <3> QED BY <3>1, NbEnterKept
  <2> QED BY <1>2, <2>1, NbQuitKept
<1>3. CASE NbProbe
  <2>1. CASE nbPhase' = "print"
    <3>1. /\ nbPhase = "probe"
          /\ UNCHANGED <<nbLabel, nbAt, nbEvent, nbAnswer, nbWaiter, nbBegun, nbVerdict, nbOut, nbIn, nbLoop, nbFault,
                         nbEnded, nbFinished>>
      BY <1>3, <2>1 DEF NbProbe, nbPrinter, nbLink
    <3> QED BY <2>1, <3>1, NbEnterKept
  <2>2. CASE nbPhase' # "print"
    <3>1. /\ nbPhase' = "cleanup" /\ nbVerdict' = "refused"
          /\ UNCHANGED <<nbVariant, nbLabel, nbAt, nbEvent, nbAnswer, nbWaiter, nbBegun, nbOut, nbIn, nbLoop, nbFault,
                         nbEnded, nbFinished>>
      BY <1>3, <2>2 DEF NbProbe, nbPrinter, nbLink
    <3> QED BY <3>1, NbLeft1
  <2> QED BY <2>1, <2>2
<1>4. CASE UNCHANGED nbVars
  <2>1. UNCHANGED <<nbPhase, nbVariant, nbLabel, nbAt, nbEvent, nbAnswer, nbWaiter, nbBegun, nbVerdict, nbOut, nbIn, nbLoop,
                    nbFault, nbEnded, nbFinished>>
    BY <1>4 DEF nbVars, nbClient, nbPrinter, nbLink
  <2>2. NbRecipe' = NbRecipe /\ NbStage' = NbStage BY <2>1 DEF NbRecipe, NbStage
  <2>3. NbMay' = NbMay /\ NbOwn' = NbOwn /\ NbFlows' = NbFlows /\ NbAsks' = NbAsks
    BY <2>1, <2>2 DEF NbMay, NbOld, NbOwn, NbFlows, NbAsks
  <2>4. NbState' = NbState /\ NbEndsInv' = NbEndsInv BY <2>1, <2>2, <2>3 DEF NbState, NbEndsInv
  <2>5. NbPipeInv' = NbPipeInv /\ NbOrderInv' = NbOrderInv
    BY <2>1, <2>2, <2>3 DEF NbPipeInv, NbOrderInv, NbSaysNothing
  <2>6. NbAnswerInv' = NbAnswerInv /\ NbIndexInv' = NbIndexInv
    BY <2>1, <2>2, <2>3 DEF NbAnswerInv, NbIndexInv, NbAnnounced
  <2> QED BY <2>3, <2>4, <2>5, <2>6 DEF NbInv
<1> QED
  BY <1>1, <1>2, <1>3, <1>4, NbQuitKept, NbAnsweredKept, NbSendKept, NbSendRowsKept, NbNotifyKept, NbPublishKept,
     NbTakesKept, NbEjectsKept, NbFailsKept DEF NbNext, NbStep

(* Every step of the client and the printer is one that keeps the promise. *)
LEMMA NbPromiseKept ==
  ASSUME NbInv, NbInv', [NbNext]_nbVars PROVE [NbPromise!Next]_(NbPromise!vars)
<1> USE DEF NbPromise!Next, NbPromise!vars
<1>1. NbState /\ NbEndsInv BY DEF NbInv
<1>2. nbBegun \in BOOLEAN /\ nbBegun' \in BOOLEAN BY DEF NbInv, NbState
<1>3. CASE NbPrinterTakes
  <2> DEFINE request == Head(nbOut)
  <2>1. /\ nbEnded' = (IF request.stage = "endPage" THEN request.label ELSE nbEnded) /\ nbOut # <<>>
        /\ UNCHANGED <<nbVariant, nbBegun, nbVerdict, nbFinished>>
    BY <1>3 DEF NbPrinterTakes, nbClient
  <2>2. request = nbOut[1] /\ 1 \in DOMAIN nbOut
    <3> DEFINE Requests == [stage : NbStages, label : Nat]
    <3>1. nbOut \in Seq(Requests) BY <1>1 DEF NbState
    <3> HIDE DEF Requests
    <3> QED BY <2>1, <3>1
  <2> HIDE DEF request
  <2>3. request.stage = "endPage" => request.label = nbEnded + 1 /\ nbEnded < nbLabel /\ nbBegun
    BY <1>1, <2>2 DEF NbEndsInv
  <2>4. nbLabel <= NbLabels /\ nbLabel \in Nat /\ NbLabels \in Nat BY <1>1, NiimbotAssumption DEF NbState, NiimbotAssumption
  <2>5. CASE nbVariant = "plain" /\ request.stage = "endPage"
    <3>1. NbGiven' = NbGiven + 1 /\ NbGiven < NbLabels /\ nbBegun BY <1>1, <2>1, <2>3, <2>4, <2>5 DEF NbGiven, NbState
    <3> QED BY <2>1, <3>1 DEF NbPromise!Give
  <2>6. CASE ~(nbVariant = "plain" /\ request.stage = "endPage")
    <3>1. NbGiven' = NbGiven BY <2>1, <2>6 DEF NbGiven
    <3> QED BY <2>1, <3>1
  <2> QED BY <2>5, <2>6
<1>4. CASE NbPrinterEjects
  <2>1. /\ nbFinished < nbEnded /\ nbVariant # "plain" /\ nbFinished' = nbFinished + 1
        /\ UNCHANGED <<nbVariant, nbBegun, nbVerdict>>
    BY <1>4 DEF NbPrinterEjects, nbClient
  <2>2. nbEnded <= NbLabels /\ nbBegun BY <1>1, <2>1, NiimbotAssumption DEF NbState, NbEndsInv, NiimbotAssumption
  <2>3. NbGiven' = NbGiven + 1 /\ NbGiven < NbLabels
    BY <1>1, <2>1, <2>2, NiimbotAssumption DEF NbGiven, NbState, NiimbotAssumption
  <2> QED BY <2>1, <2>2, <2>3 DEF NbPromise!Give
<1>5. CASE NbGiven' = NbGiven /\ nbVerdict' = nbVerdict /\ nbBegun' = nbBegun
  BY <1>5
<1>6. CASE NbGiven' = NbGiven /\ nbVerdict = "open" /\ nbVerdict' = "open" /\ nbBegun' = TRUE
  BY <1>2, <1>6 DEF NbPromise!Begin
<1>7. CASE NbGiven' = NbGiven /\ nbVerdict = "open" /\ nbVerdict' = "uncertain" /\ nbBegun' \in {nbBegun, TRUE}
  BY <1>7 DEF NbPromise!GiveUp
<1>8. CASE NbGiven' = NbGiven /\ nbVerdict = "open" /\ nbVerdict' = "refused" /\ nbBegun' = nbBegun /\ ~nbBegun
  BY <1>8 DEF NbPromise!Refuse
<1>9. CASE NbGiven' = NbGiven /\ nbVerdict = "open" /\ nbVerdict' = "printed" /\ nbBegun' = nbBegun /\ NbGiven = NbLabels
  BY <1>9 DEF NbPromise!Return
<1>10. CASE NbConnect \/ NbSend \/ NbCleanup \/ NbNotify \/ NbPublish \/ NbPrinterFails \/ UNCHANGED nbVars
  <2>1. UNCHANGED <<nbVariant, nbBegun, nbVerdict, nbEnded, nbFinished>>
    BY <1>10 DEF NbConnect, NbSend, NbCleanup, NbNotify, NbPublish, NbPrinterFails, nbVars, nbClient, nbPrinter, nbLink
  <2> QED BY <1>5, <2>1 DEF NbGiven
<1>11. CASE NbConnectFails \/ NbProbe
  <2>1. nbPhase \in {"connect", "probe"} /\ UNCHANGED <<nbBegun, nbEnded, nbFinished>> /\ nbVerdict' \in {nbVerdict, "refused"}
    BY <1>11 DEF NbConnectFails, NbProbe, nbPrinter
  <2>2. ~nbBegun /\ nbVerdict = "open" /\ nbEnded = 0 BY <1>1, <2>1 DEF NbEndsInv
  <2>3. nbFinished = 0 BY <1>1, <2>2 DEF NbEndsInv, NbState
  <2>4. NbGiven' = NbGiven BY <2>1, <2>2, <2>3 DEF NbGiven
  <2> QED BY <1>5, <1>8, <2>1, <2>2, <2>4
<1>12. CASE NbSendRows
  <2>1. UNCHANGED <<nbVariant, nbVerdict, nbEnded, nbFinished>> /\ nbBegun' = TRUE /\ nbPhase = "print"
    BY <1>12 DEF NbSendRows, nbPrinter, NbIdle
  <2>2. nbVerdict = "open" BY <1>1, <2>1 DEF NbEndsInv
  <2> QED BY <1>6, <2>1, <2>2 DEF NbGiven
<1>13. CASE NbRowsBreak \/ NbCancel
  <2>1. /\ UNCHANGED <<nbVariant, nbEnded, nbFinished>> /\ nbVerdict' = "uncertain" /\ nbPhase \in {"probe", "print"}
        /\ nbBegun' \in {nbBegun, TRUE}
    BY <1>13 DEF NbRowsBreak, NbCancel, nbPrinter, NbIdle
  <2>2. nbVerdict = "open" BY <1>1, <2>1 DEF NbEndsInv
  <2> QED BY <1>7, <2>1, <2>2 DEF NbGiven
<1>14. ASSUME NbStop \/ NbAnswered \/ NbTimeout \/ NbPageIndex
       PROVE  nbPhase = "print" /\ nbVerdict = "open" /\ UNCHANGED <<nbEnded, nbFinished>>
  BY <1>1, <1>14 DEF NbStop, NbAnswered, NbTimeout, NbPageIndex, NbIdle, nbPrinter, NbEndsInv
<1>15. CASE NbFail /\ (NbStop \/ NbAnswered \/ NbTimeout \/ NbPageIndex)
  <2>1. UNCHANGED <<nbVariant, nbBegun>> /\ (nbVerdict' = "uncertain" \/ (~nbBegun /\ nbVerdict' = "refused")) BY <1>15 DEF NbFail
  <2> QED BY <1>7, <1>8, <1>14, <1>15, <2>1 DEF NbGiven
<1>16. CASE NbPollAgain /\ (NbAnswered \/ NbTimeout)
  <2>1. UNCHANGED <<nbVariant, nbBegun, nbVerdict>> BY <1>16 DEF NbPollAgain
  <2> QED BY <1>5, <1>14, <1>16, <2>1 DEF NbGiven
<1>17. CASE NbAdvance /\ ~nbFault /\ (NbAnswered \/ NbTimeout \/ NbPageIndex)
  <2>1. UNCHANGED <<nbVariant, nbBegun>> BY <1>17 DEF NbAdvance
  <2>2. NbGiven' = NbGiven BY <1>14, <1>17, <2>1 DEF NbGiven
  <2>3. CASE nbAt < Len(NbRecipe) \/ nbLabel < NbLabels
    <3>1. nbVerdict' = nbVerdict BY <1>17, <2>3 DEF NbAdvance
    <3> QED BY <1>5, <2>1, <2>2, <3>1
  <2>4. CASE ~(nbAt < Len(NbRecipe)) /\ ~(nbLabel < NbLabels)
    <3>1. nbVerdict' = "printed" BY <1>17, <2>4 DEF NbAdvance
    <3>2. Len(NbRecipe) \in Nat BY NbRecipes
    <3>3. nbAt = Len(NbRecipe) BY <1>1, <2>4, <3>2 DEF NbState
    <3>4. NbStage = "end" BY <1>1, <3>3, NbHere
    <3>5. NbAnswerInv BY <1>14, <1>17 DEF NbInv, NbFlows
    <3>6. NbGiven = nbLabel BY <3>4, <3>5 DEF NbGiven, NbAnswerInv
    <3>7. nbLabel = NbLabels BY <1>1, <2>4, NiimbotAssumption DEF NbState, NiimbotAssumption
    <3> QED BY <1>9, <1>14, <1>17, <2>1, <2>2, <3>1, <3>6, <3>7
  <2> QED BY <2>3, <2>4
<1>18. CASE NbStop BY <1>15, <1>18 DEF NbStop
<1>19. CASE NbAnswered BY <1>15, <1>16, <1>17, <1>19 DEF NbAnswered
<1>20. CASE NbTimeout BY <1>15, <1>16, <1>17, <1>20 DEF NbTimeout
<1>21. CASE NbPageIndex BY <1>15, <1>17, <1>21 DEF NbPageIndex
<1> QED
  BY <1>3, <1>4, <1>10, <1>11, <1>12, <1>13, <1>18, <1>19, <1>20, <1>21 DEF NbNext, NbStep

-----------------------------------------------------------------------------
(* The smallest and the greatest of some numbers                           *)

LEMMA SomeSmallest ==
  ASSUME NEW S, S \subseteq Nat, S # {}
  PROVE  \E x \in S : \A y \in S : x <= y
<1> DEFINE R == OpToRel(<, Nat)
<1>1. R = {ss \in Nat \X Nat : ss[1] < ss[2]} BY DEF OpToRel
<1>2. IsWellFoundedOn(R, Nat) BY NatLessThanWellFounded
<1> HIDE DEF R
<1>3. PICK x \in S : \A y \in S : ~(<<y, x>> \in R) BY <1>2, WFMin
<1>4. \A y \in S : ~(y < x) BY <1>1, <1>3
<1>5. \A y \in S : x <= y BY <1>4
<1> QED BY <1>5

LEMMA GreatestOfTwo == \A a, b \in Int : Max({a, b}) \in Int /\ Max({a, b}) >= a /\ Max({a, b}) >= b /\ Max({a, b}) \in {a, b}
<1> SUFFICES ASSUME NEW a \in Int, NEW b \in Int PROVE Max({a, b}) \in Int /\ Max({a, b}) >= a /\ Max({a, b}) >= b /\ Max({a, b}) \in {a, b}
  OBVIOUS
<1>1. \E x \in {a, b} : \A y \in {a, b} : x >= y OBVIOUS
<1> QED BY <1>1 DEF Max

LEMMA LeastOfThree == \A a, b, c \in Int : Min({a, b, c}) \in Int /\ Min({a, b, c}) <= a /\ Min({a, b, c}) <= b /\ Min({a, b, c}) <= c
<1> SUFFICES ASSUME NEW a \in Int, NEW b \in Int, NEW c \in Int
             PROVE  Min({a, b, c}) \in Int /\ Min({a, b, c}) <= a /\ Min({a, b, c}) <= b /\ Min({a, b, c}) <= c
  OBVIOUS
<1>1. \E x \in {a, b, c} : \A y \in {a, b, c} : x <= y
  <2>1. CASE a <= b /\ a <= c BY <2>1
  <2>2. CASE b <= a /\ b <= c BY <2>2
  <2>3. CASE c <= a /\ c <= b BY <2>3
  <2> QED BY <2>1, <2>2, <2>3
<1> QED BY <1>1 DEF Min

-----------------------------------------------------------------------------
(* The V5X runtime                                                         *)

LEMMA VxStarts == VxInit => VxInv
<1> SUFFICES ASSUME VxInit PROVE VxInv OBVIOUS
<1>1. /\ vxPhase = "connect" /\ vxPage = 1 /\ vxLast = 0 /\ vxWanted = 0 /\ vxDensity = 3 /\ vxStarted = 0
      /\ vxLink = <<>> /\ vxRasters = <<>>
  BY DEF VxInit, VxUserDensity
<1>2. <<>> \in Seq(VxFrames) /\ <<>> \in Seq([page : Nat, density : Nat, wanted : Nat]) OBVIOUS
<1>3. VxState BY V5XAssumption, <1>1, <1>2 DEF VxState, V5XAssumption, VxUserDensity
<1>4. VxAnswerInv BY <1>1 DEF VxAnswerInv
<1>5. VxDensityInv BY <1>1 DEF VxDensityInv
<1>6. VxPagesInv BY <1>1 DEF VxPagesInv
<1>7. VxRasterAccepted BY <1>1 DEF VxRasterAccepted
<1> QED BY <1>3, <1>4, <1>5, <1>6, <1>7 DEF VxInv

(* A frame joins those under way or leaves them.                           *)
LEMMA VxFrameComes ==
  ASSUME VxState, NEW frame \in VxFrames
  PROVE  /\ Append(vxLink, frame) \in Seq(VxFrames)
         /\ DOMAIN Append(vxLink, frame) = 1..Len(vxLink) + 1
         /\ \A i \in 1..Len(vxLink) + 1 :
              Append(vxLink, frame)[i] = IF i \in DOMAIN vxLink THEN vxLink[i] ELSE frame
         /\ DOMAIN vxLink = 1..Len(vxLink) /\ Len(vxLink) \in Nat
BY DEF VxState

LEMMA VxFrameHeard ==
  ASSUME VxState, vxLink # <<>>
  PROVE  /\ Tail(vxLink) \in Seq(VxFrames) /\ Head(vxLink) = vxLink[1] /\ 1 \in DOMAIN vxLink
         /\ \A i \in DOMAIN Tail(vxLink) : i \in Nat \ {0} /\ i + 1 \in DOMAIN vxLink /\ Tail(vxLink)[i] = vxLink[i + 1]
BY DEF VxState

(* A step that neither sends nor hears a frame, and that neither waits nor *)
(* prints after it, leaves what is under way in order.                     *)
LEMMA VxAnswersStay ==
  ASSUME VxInv, UNCHANGED vxLink, VxRunning, vxPhase # "await", vxPhase' # "raster"
  PROVE  VxAnswerInv'
BY DEF VxInv, VxAnswerInv

LEMMA VxControllerKept ==
  ASSUME VxInv, VxConnect \/ VxSettled \/ VxPreflight \/ VxSendDensity \/ VxSendRaster \/ VxFinalize
  PROVE  VxInv'
<1>1. VxState /\ VxAnswerInv /\ VxDensityInv /\ VxPagesInv /\ VxRasterAccepted BY DEF VxInv
<1>2. CASE VxConnect \/ VxSettled \/ VxPreflight
  <2>1. /\ vxPhase \in {"connect", "info", "plan"} /\ vxPhase' \in {"info", "plan", "density", "failed"}
        /\ UNCHANGED <<vxPage, vxLast, vxWanted, vxDensity, vxStarted, vxLink, vxRasters>>
    BY <1>2 DEF VxConnect, VxSettled, VxPreflight, vxConnection, vxJob, vxPrinter
  <2>2. VxState' BY <1>1, <2>1 DEF VxState
  <2>3. VxAnswerInv' BY <2>1, VxAnswersStay DEF VxRunning
  <2>4. VxDensityInv' BY <1>1, <2>1 DEF VxDensityInv
  <2>5. VxPagesInv' BY <1>1, <2>1 DEF VxPagesInv, VxRunning
  <2>6. VxRasterAccepted' BY <1>1, <2>1 DEF VxRasterAccepted
  <2> QED BY <2>2, <2>3, <2>4, <2>5, <2>6 DEF VxInv
<1>3. CASE VxSendDensity
  <2> DEFINE target == VxTarget(vxHot, vxCoverage)
  <2>1. /\ vxPhase = "density" /\ vxPhase' = "start" /\ vxWanted' = target
        /\ IF vxLast = target THEN UNCHANGED <<vxLast, vxDensity>> ELSE vxLast' = target /\ vxDensity' = target
        /\ UNCHANGED <<vxPage, vxStarted, vxLink, vxRasters>>
    BY <1>3 DEF VxSendDensity, vxConnection
  <2>2. target \in {1, 2, 3} BY DEF VxTarget, VxUserDensity
  <2> HIDE DEF target
  <2>3. VxState' BY <1>1, <2>1, <2>2 DEF VxState, VxUserDensity
  <2>4. VxAnswerInv' BY <2>1, VxAnswersStay DEF VxRunning
  <2>5. VxDensityInv' BY <1>1, <2>1, <2>2 DEF VxDensityInv
  <2>6. VxPagesInv' BY <1>1, <2>1 DEF VxPagesInv, VxRunning
  <2>7. VxRasterAccepted' BY <1>1, <2>1 DEF VxRasterAccepted
  <2> QED BY <2>3, <2>4, <2>5, <2>6, <2>7 DEF VxInv
<1>4. CASE VxSendRaster
  <2> DEFINE raster == [page |-> vxStarted, density |-> vxDensity, wanted |-> vxWanted]
  <2>1. /\ vxPhase = "raster" /\ vxPhase' = "trail" /\ vxRasters' = Append(vxRasters, raster)
        /\ UNCHANGED <<vxPage, vxLast, vxWanted, vxDensity, vxStarted, vxLink>>
    BY <1>4 DEF VxSendRaster, vxConnection, vxJob
  <2>2. /\ raster \in [page : Nat, density : Nat, wanted : Nat]
        /\ raster.page = vxPage /\ raster.density = raster.wanted /\ vxPage \in Nat
    BY <1>1, <2>1, V5XAssumption DEF VxState, VxAnswerInv, VxDensityInv, VxRunning, V5XAssumption
  <2>3. Len(vxRasters) = vxPage - 1 BY <1>1, <2>1 DEF VxPagesInv, VxRunning
  <2> HIDE DEF raster
  <2>4. /\ vxRasters' \in Seq([page : Nat, density : Nat, wanted : Nat]) /\ Len(vxRasters') = vxPage
        /\ DOMAIN vxRasters' = 1..vxPage /\ DOMAIN vxRasters = 1..vxPage - 1
        /\ \A i \in 1..vxPage : vxRasters'[i] = IF i = vxPage THEN raster ELSE vxRasters[i]
    BY <1>1, <2>1, <2>2, <2>3 DEF VxState
  <2>5. VxState' BY <1>1, <2>1, <2>4 DEF VxState
  <2>6. VxAnswerInv' BY <2>1, VxAnswersStay DEF VxRunning
  <2>7. VxDensityInv' BY <1>1, <2>1 DEF VxDensityInv
  <2>8. VxPagesInv' BY <1>1, <2>1, <2>4 DEF VxPagesInv, VxRunning
  <2>9. \A i \in 1..vxPage : i # vxPage => i \in 1..vxPage - 1 BY <2>2
  <2>10. VxRasterAccepted' BY <1>1, <2>1, <2>2, <2>4, <2>9 DEF VxRasterAccepted
  <2> QED BY <2>5, <2>6, <2>7, <2>8, <2>10 DEF VxInv
<1>5. CASE VxFinalize
  <2>1. /\ vxPhase = "trail" /\ vxStarted' = 0 /\ UNCHANGED <<vxLast, vxWanted, vxDensity, vxLink, vxRasters>>
        /\ \/ vxPage < VxPages /\ vxPage' = vxPage + 1 /\ vxPhase' = "plan"
           \/ ~(vxPage < VxPages) /\ vxPhase' \in {"quiet", "printed"} /\ vxPage' = vxPage
    BY <1>5 DEF VxFinalize, vxConnection
  <2>2. Len(vxRasters) = vxPage /\ vxPage \in 1..VxPages /\ VxPages \in Nat
    BY <1>1, <2>1, V5XAssumption DEF VxPagesInv, VxRunning, VxState, V5XAssumption
  <2>3. VxState' BY <1>1, <2>1, <2>2 DEF VxState
  <2>4. VxAnswerInv' BY <2>1, VxAnswersStay DEF VxRunning
  <2>5. VxDensityInv' BY <1>1, <2>1 DEF VxDensityInv
  <2>6. VxPagesInv' BY <2>1, <2>2 DEF VxPagesInv, VxRunning
  <2>7. VxRasterAccepted' BY <1>1, <2>1, <2>2 DEF VxRasterAccepted
  <2> QED BY <2>3, <2>4, <2>5, <2>6, <2>7 DEF VxInv
<1> QED BY <1>2, <1>3, <1>4, <1>5

(* A start that is sent is the only one under way.                         *)
LEMMA VxStartKept == VxInv /\ VxSendStart => VxInv'
<1> SUFFICES ASSUME VxInv, VxSendStart PROVE VxInv' OBVIOUS
<1>1. VxState /\ VxAnswerInv /\ VxDensityInv /\ VxPagesInv /\ VxRasterAccepted BY DEF VxInv
<1>2. vxPhase \in {"start", "busy"} /\ vxPhase' = "await" /\ UNCHANGED <<vxPage, vxLast, vxWanted, vxDensity, vxRasters>>
  BY DEF VxSendStart, vxJob
<1>3. \A i \in DOMAIN vxLink : vxLink[i] \notin VxAnswers BY <1>1, <1>2 DEF VxAnswerInv, VxRunning
<1>4. vxStarted' \in Nat /\ vxPage \in Nat BY <1>1, V5XAssumption DEF VxSendStart, VxState, V5XAssumption
<1>5. CASE vxLink' = vxLink
  <2>1. VxState' BY <1>1, <1>2, <1>4, <1>5 DEF VxState
  <2>2. VxAnswerInv' BY <1>2, <1>3, <1>5 DEF VxAnswerInv
  <2>3. VxDensityInv' BY <1>1, <1>2 DEF VxDensityInv
  <2>4. VxPagesInv' BY <1>1, <1>2 DEF VxPagesInv, VxRunning
  <2>5. VxRasterAccepted' BY <1>1, <1>2 DEF VxRasterAccepted
  <2> QED BY <2>1, <2>2, <2>3, <2>4, <2>5 DEF VxInv
<1>6. ASSUME NEW answer \in VxAnswers, vxLink' = Append(vxLink, answer), answer = "accepted" => vxStarted' = vxPage
      PROVE  VxInv'
  <2>1. answer \in VxFrames BY DEF VxFrames
  <2>2. VxState' BY <1>1, <1>2, <1>4, <1>6, <2>1, VxFrameComes DEF VxState
  <2>3. DOMAIN vxLink' = 1..Len(vxLink) + 1
        /\ \A i \in 1..Len(vxLink) + 1 : vxLink'[i] = IF i \in DOMAIN vxLink THEN vxLink[i] ELSE answer
    BY <1>1, <1>6, <2>1, VxFrameComes
  <2>4. \A i \in DOMAIN vxLink' : vxLink'[i] \in VxAnswers => i = Len(vxLink) + 1 /\ vxLink'[i] = answer
    <3>1. DOMAIN vxLink = 1..Len(vxLink) /\ Len(vxLink) \in Nat BY <1>1 DEF VxState
    <3> QED BY <1>3, <2>3, <3>1
  <2>5. VxAnswerInv' BY <1>2, <1>6, <2>4 DEF VxAnswerInv
  <2>6. VxDensityInv' BY <1>1, <1>2 DEF VxDensityInv
  <2>7. VxPagesInv' BY <1>1, <1>2 DEF VxPagesInv, VxRunning
  <2>8. VxRasterAccepted' BY <1>1, <1>2 DEF VxRasterAccepted
  <2> QED BY <2>2, <2>5, <2>6, <2>7, <2>8 DEF VxInv
<1>7. \/ vxLink' = Append(vxLink, "accepted") /\ vxStarted' = vxPage
      \/ vxLink' = Append(vxLink, "busy")
      \/ vxLink' = Append(vxLink, "refused")
      \/ vxLink' = vxLink
  BY DEF VxSendStart
<1>8. "accepted" \in VxAnswers /\ "busy" \in VxAnswers /\ "refused" \in VxAnswers BY DEF VxAnswers
<1>9. "busy" # "accepted" /\ "refused" # "accepted" OBVIOUS
<1> QED BY <1>5, <1>6, <1>7, <1>8, <1>9

(* A wait that ends in good order ends with every page given.              *)
LEMMA VxEndsKept == VxInv /\ (VxStartTimeout \/ VxClaimKept \/ VxAssumeFinished \/ VxBreak \/ VxStop) => VxInv'
<1> SUFFICES ASSUME VxInv, VxStartTimeout \/ VxClaimKept \/ VxAssumeFinished \/ VxBreak \/ VxStop PROVE VxInv' OBVIOUS
<1>1. VxState /\ VxAnswerInv /\ VxDensityInv /\ VxPagesInv /\ VxRasterAccepted BY DEF VxInv
<1>2. /\ UNCHANGED <<vxPage, vxLast, vxWanted, vxDensity, vxStarted, vxRasters>> /\ vxLink' \in {vxLink, <<>>}
      /\ vxPhase' \in {"failed", "stopped", "quiet", "idle", "printed"}
      /\ vxPhase' \in {"quiet", "idle", "printed"} => vxPhase = "quiet" /\ vxLink' = vxLink
      /\ vxPhase' = "stopped" => vxTasks' = {}
  BY DEF VxStartTimeout, VxClaimKept, VxAssumeFinished, VxBreak, VxStop, vxJob, vxPrinter, vxConnection
<1>3. vxLink' \in Seq(VxFrames)
  <2>1. <<>> \in Seq(VxFrames) OBVIOUS
  <2> QED BY <1>1, <1>2, <2>1 DEF VxState
<1>4. VxState' BY <1>1, <1>2, <1>3 DEF VxState
<1>5. VxAnswerInv' BY <1>1, <1>2, VxAnswersStay DEF VxAnswerInv, VxRunning
<1>6. VxDensityInv' BY <1>1, <1>2 DEF VxDensityInv
<1>7. VxPagesInv' BY <1>1, <1>2 DEF VxPagesInv, VxRunning
<1>8. vxPhase = "quiet" => Len(vxRasters) = VxPages BY <1>1 DEF VxPagesInv, VxRunning
<1>9. VxRasterAccepted' BY <1>1, <1>2, <1>8 DEF VxRasterAccepted
<1> QED BY <1>4, <1>5, <1>6, <1>7, <1>9 DEF VxInv

(* The answer to the start ends the wait, or has the start sent again.     *)
LEMMA VxNotifyKept == VxInv /\ VxNotify => VxInv'
<1> SUFFICES ASSUME VxInv, VxNotify PROVE VxInv' OBVIOUS
<1>1. VxState /\ VxAnswerInv /\ VxDensityInv /\ VxPagesInv /\ VxRasterAccepted BY DEF VxInv
<1> DEFINE frame == Head(vxLink)
<1>2. /\ vxLink # <<>> /\ vxPhase # "stopped" /\ vxLink' = Tail(vxLink)
      /\ UNCHANGED <<vxPage, vxLast, vxWanted, vxDensity, vxStarted, vxRasters>>
      /\ \/ vxPhase = "await" /\ frame \in VxAnswers /\ VxStartAnswer(frame)
         \/ /\ ~(vxPhase = "await" /\ frame \in VxAnswers)
            /\ vxPhase' = IF VxWaits /\ frame = "idle" THEN "idle" ELSE vxPhase
  BY DEF VxNotify, vxPrinter, VxAnswers
<1>3. /\ vxLink' \in Seq(VxFrames) /\ frame = vxLink[1] /\ 1 \in DOMAIN vxLink
      /\ \A i \in DOMAIN vxLink' : i \in Nat \ {0} /\ i + 1 \in DOMAIN vxLink /\ vxLink'[i] = vxLink[i + 1]
  BY <1>1, <1>2, VxFrameHeard
<1> HIDE DEF frame
<1>4. VxState' BY <1>1, <1>2, <1>3 DEF VxState
<1>5. CASE vxPhase = "await" /\ frame \in VxAnswers /\ VxStartAnswer(frame)
  <2>1. /\ vxPhase' \in {"raster", "busy", "failed"}
        /\ vxPhase' = "raster" => frame = "accepted"
    BY <1>5 DEF VxStartAnswer
  <2>2. \A k \in DOMAIN vxLink : vxLink[k] \in VxAnswers => k = 1
    BY <1>1, <1>3, <1>5 DEF VxAnswerInv, VxRunning
  <2>3. frame = "accepted" => vxStarted = vxPage BY <1>1, <1>3, <1>5 DEF VxAnswerInv, VxRunning
  <2>4. \A i \in DOMAIN vxLink' : vxLink'[i] \notin VxAnswers BY <1>3, <2>2
  <2>5. VxAnswerInv' BY <1>2, <2>1, <2>3, <2>4 DEF VxAnswerInv
  <2>6. VxDensityInv' BY <1>1, <1>2, <1>5, <2>1 DEF VxDensityInv
  <2>7. VxPagesInv' BY <1>1, <1>2, <1>5, <2>1 DEF VxPagesInv, VxRunning
  <2>8. VxRasterAccepted' BY <1>1, <1>2, <2>1 DEF VxRasterAccepted
  <2> QED BY <1>4, <2>5, <2>6, <2>7, <2>8 DEF VxInv
<1>6. CASE vxPhase' = vxPhase
  <2>1. VxAnswerInv'
    <3> SUFFICES ASSUME VxRunning PROVE VxAnswerInv' BY <1>6 DEF VxAnswerInv, VxRunning
    <3>1. \A i \in DOMAIN vxLink' : vxLink'[i] \in VxAnswers =>
            /\ vxPhase' = "await" /\ (vxLink'[i] = "accepted" => vxStarted' = vxPage')
            /\ \A k \in DOMAIN vxLink' : vxLink'[k] \in VxAnswers => k = i
      <4> SUFFICES ASSUME NEW i \in DOMAIN vxLink', vxLink'[i] \in VxAnswers
                   PROVE  /\ vxPhase' = "await" /\ (vxLink'[i] = "accepted" => vxStarted' = vxPage')
                          /\ \A k \in DOMAIN vxLink' : vxLink'[k] \in VxAnswers => k = i
        OBVIOUS
      <4>1. i + 1 \in DOMAIN vxLink /\ vxLink'[i] = vxLink[i + 1] BY <1>3
      <4>2. /\ vxPhase = "await" /\ (vxLink[i + 1] = "accepted" => vxStarted = vxPage)
            /\ \A k \in DOMAIN vxLink : vxLink[k] \in VxAnswers => k = i + 1
        BY <1>1, <4>1 DEF VxAnswerInv
      <4>3. \A k \in DOMAIN vxLink' : vxLink'[k] \in VxAnswers => k + 1 = i + 1 BY <1>3, <4>2
      <4>4. \A k \in DOMAIN vxLink' : vxLink'[k] \in VxAnswers => k = i BY <1>3, <4>3
      <4> QED BY <1>2, <1>6, <4>1, <4>2, <4>4
    <3>2. vxPhase' = "raster" => vxStarted' = vxPage' BY <1>1, <1>2, <1>6 DEF VxAnswerInv
    <3> QED BY <3>1, <3>2 DEF VxAnswerInv
  <2>2. VxDensityInv' BY <1>1, <1>2, <1>6 DEF VxDensityInv
  <2>3. VxPagesInv' BY <1>1, <1>2, <1>6 DEF VxPagesInv, VxRunning
  <2>4. VxRasterAccepted' BY <1>1, <1>2, <1>6 DEF VxRasterAccepted
  <2> QED BY <1>4, <2>1, <2>2, <2>3, <2>4 DEF VxInv
<1>7. CASE vxPhase = "quiet" /\ vxPhase' = "idle"
  <2>1. VxAnswerInv' BY <1>7 DEF VxAnswerInv, VxRunning
  <2>2. VxDensityInv' BY <1>1, <1>2, <1>7 DEF VxDensityInv
  <2>3. VxPagesInv' BY <1>7 DEF VxPagesInv, VxRunning
  <2>4. Len(vxRasters) = VxPages BY <1>1, <1>7 DEF VxPagesInv, VxRunning
  <2>5. VxRasterAccepted' BY <1>1, <1>2, <1>7, <2>4 DEF VxRasterAccepted
  <2> QED BY <1>4, <2>1, <2>2, <2>3, <2>5 DEF VxInv
<1> QED BY <1>2, <1>5, <1>6, <1>7 DEF VxWaits

LEMMA VxKept == VxInv /\ [VxNext]_vxVars => VxInv'
<1> SUFFICES ASSUME VxInv, [VxNext]_vxVars PROVE VxInv' OBVIOUS
<1>1. VxState /\ VxAnswerInv /\ VxDensityInv /\ VxPagesInv /\ VxRasterAccepted BY DEF VxInv
<1>2. CASE VxTaskEnds \/ UNCHANGED vxVars
  <2>1. UNCHANGED <<vxPhase, vxPage, vxLast, vxWanted, vxDensity, vxStarted, vxRasters, vxLink>>
        /\ (vxTasks = {} => vxTasks' = {})
    BY <1>2 DEF VxTaskEnds, vxVars, vxJob, vxPrinter, vxConnection
  <2>2. VxState' /\ VxDensityInv' BY <1>1, <2>1 DEF VxState, VxDensityInv
  <2>3. VxAnswerInv' BY <1>1, <2>1 DEF VxAnswerInv, VxRunning
  <2>4. VxPagesInv' BY <1>1, <2>1 DEF VxPagesInv, VxRunning
  <2>5. VxRasterAccepted' BY <1>1, <2>1 DEF VxRasterAccepted
  <2> QED BY <2>2, <2>3, <2>4, <2>5 DEF VxInv
<1>3. CASE VxPrinterStops \/ VxPrinterSpeaks
  <2>1. /\ UNCHANGED <<vxPhase, vxPage, vxLast, vxWanted, vxDensity, vxStarted, vxRasters, vxTasks>>
        /\ \/ vxLink' = vxLink
           \/ \E frame \in {"hot", "idle", "serial", "poll", "sign"} : vxLink' = Append(vxLink, frame)
    BY <1>3 DEF VxPrinterStops, VxPrinterSpeaks, vxJob, vxPrinter
  <2>2. VxDensityInv' BY <1>1, <2>1 DEF VxDensityInv
  <2>3. VxPagesInv' BY <1>1, <2>1 DEF VxPagesInv, VxRunning
  <2>4. VxRasterAccepted' BY <1>1, <2>1 DEF VxRasterAccepted
  <2>5. CASE vxLink' = vxLink
    <3>1. VxState' BY <1>1, <2>1, <2>5 DEF VxState
    <3>2. VxAnswerInv' BY <1>1, <2>1, <2>5 DEF VxAnswerInv, VxRunning
    <3> QED BY <2>2, <2>3, <2>4, <3>1, <3>2 DEF VxInv
  <2>6. ASSUME NEW frame \in {"hot", "idle", "serial", "poll", "sign"}, vxLink' = Append(vxLink, frame) PROVE VxInv'
    <3>1. frame \in VxFrames /\ frame \notin VxAnswers BY DEF VxFrames, VxAnswers
    <3>2. /\ vxLink' \in Seq(VxFrames) /\ DOMAIN vxLink' = 1..Len(vxLink) + 1
          /\ \A i \in 1..Len(vxLink) + 1 : vxLink'[i] = IF i \in DOMAIN vxLink THEN vxLink[i] ELSE frame
      BY <1>1, <2>6, <3>1, VxFrameComes
    <3>3. \A i \in DOMAIN vxLink' : vxLink'[i] \in VxAnswers => i \in DOMAIN vxLink /\ vxLink'[i] = vxLink[i]
      BY <3>1, <3>2
    <3>4. VxState' BY <1>1, <2>1, <3>2 DEF VxState
    <3>5. VxAnswerInv' BY <1>1, <2>1, <3>3 DEF VxAnswerInv, VxRunning
    <3> QED BY <2>2, <2>3, <2>4, <3>4, <3>5 DEF VxInv
  <2> QED BY <2>1, <2>5, <2>6
<1> QED
  BY <1>2, <1>3, VxControllerKept, VxStartKept, VxEndsKept, VxNotifyKept DEF VxNext, VxControllerStep

-----------------------------------------------------------------------------
(* The V5G runtime                                                         *)

(* No helper makes a page darker than it asks for; the MX06 goes down a    *)
(* step from the page before, and stays above its lowest density.          *)
LEMMA VgChosen ==
  ASSUME VgState
  PROVE  /\ VgSingle(vgUser) \in Int /\ VgSingle(vgUser) <= vgUser
         /\ vgHelper = "mx06" =>
              /\ VgSingle(vgUser) >= 70
              /\ ~vgD2 => VgSingle(vgUser) = vgUser
              /\ vgD2 /\ vgRecent /\ vgLastSingle > 0 => VgSingle(vgUser) <= Max({70, vgLastSingle})
<1>1. vgUser \in {100, 130, 150, 180, 200} /\ (vgHelper # "pd01" => vgUser \in {150, 180, 200}) BY DEF VgState, VgLevels
<1>2. vgLastSingle \in Int /\ vgTemperature \in Int BY DEF VgState
<1>3. CASE vgHelper = "mx06"
  <2>1. CASE vgD2 /\ vgRecent
    <3> DEFINE before == IF vgLastSingle > 0 THEN vgLastSingle ELSE vgUser
               least == Min({150, vgUser, before})
               chosen == Max({70, least - 20})
    <3>1. before \in Int /\ (vgLastSingle > 0 => before = vgLastSingle) BY <1>1, <1>2
    <3>6. vgUser \in Int /\ 150 \in Int BY <1>1
    <3> HIDE DEF before
    <3>8. before \in Int BY <3>1
    <3>2. least \in Int /\ least <= vgUser /\ least <= before BY ONLY <3>6, <3>8, LeastOfThree
    <3> HIDE DEF least
    <3>7. 70 \in Int /\ least - 20 \in Int BY <3>2
    <3>3. chosen \in Int /\ chosen >= 70 /\ chosen \in {70, least - 20} BY <3>7, GreatestOfTwo
    <3>4. VgSingle(vgUser) = chosen BY <1>3, <2>1 DEF VgSingle, VgMx06, before, least
    <3> HIDE DEF chosen
    <3>5. Max({70, vgLastSingle}) \in Int /\ Max({70, vgLastSingle}) >= 70 /\ Max({70, vgLastSingle}) >= vgLastSingle
      BY <1>2, GreatestOfTwo
    <3> QED BY <1>1, <2>1, <3>1, <3>2, <3>3, <3>4, <3>5
  <2>2. CASE ~(vgD2 /\ vgRecent) BY <1>1, <1>3, <2>2 DEF VgSingle
  <2> QED BY <2>1, <2>2
<1>4. CASE vgHelper # "mx06"
  <2>1. VgSingle(vgUser) = VgByTemperature(vgUser) BY <1>4 DEF VgSingle
  <2> DEFINE bands == {i \in DOMAIN VgSteps : vgTemperature < VgSteps[i][1]}
             step == VgSteps[Min(bands)]
  <2>2. CASE vgTemperature < 50 \/ bands = {} BY <1>1, <1>4, <2>1, <2>2 DEF VgByTemperature
  <2>3. CASE ~(vgTemperature < 50 \/ bands = {})
    <3>1. /\ \A i \in DOMAIN VgSteps : /\ VgSteps[i][2] \in Int /\ VgSteps[i][3] \in Int
                                       /\ vgUser >= VgSteps[i][2] => VgSteps[i][3] <= vgUser
          /\ DOMAIN VgSteps \subseteq 1..5
      <4>1. CASE vgHelper = "mx10" BY <1>1, <4>1 DEF VgSteps, VgLevels
      <4>2. CASE vgHelper = "pd01" BY <1>1, <4>2 DEF VgSteps, VgLevels
      <4>3. CASE vgHelper = "none" BY <1>1, <4>3 DEF VgSteps, VgLevels
      <4> QED BY <1>4, <4>1, <4>2, <4>3 DEF VgState
    <3>2. \E x \in bands : \A y \in bands : x <= y
      <4>1. bands \subseteq Nat /\ bands # {} BY <2>3, <3>1
      <4> HIDE DEF bands
      <4> QED BY <4>1, SomeSmallest
    <3>3. Min(bands) \in DOMAIN VgSteps BY <3>2 DEF Min
    <3>4. VgSingle(vgUser) = IF vgUser >= step[2] THEN step[3] ELSE vgUser BY <2>1, <2>3 DEF VgByTemperature
    <3> QED BY <1>1, <1>4, <3>1, <3>3, <3>4
  <2> QED BY <2>2, <2>3
<1> QED BY <1>3, <1>4

LEMMA VgStarts == VgInit => VgInv
<1> SUFFICES ASSUME VgInit PROVE VgInv OBVIOUS
<1>1. /\ vgPhase = "connect" /\ vgLastSingle = 0 /\ vgTarget = 0 /\ vgPages = <<>> /\ vgTemperature = -1
      /\ vgHelper \in {"mx06", "mx10", "pd01", "none"} /\ vgUser \in {VgLevels.low, VgLevels.middle, VgLevels.high}
  BY DEF VgInit
<1>2. <<>> \in Seq([asked : Int, target : Int, used : Int, busy : BOOLEAN]) OBVIOUS
<1>3. VgState BY <1>1, <1>2 DEF VgState
<1>4. VgSendingInv /\ VgMemoryInv /\ VgPageAtItsDensity BY <1>1 DEF VgSendingInv, VgMemoryInv, VgPageAtItsDensity
<1> QED BY <1>3, <1>4 DEF VgInv

LEMMA VgSendKept == VgInv /\ VgSend => VgInv'
<1> SUFFICES ASSUME VgInv, VgSend PROVE VgInv' OBVIOUS
<1>1. VgState /\ VgSendingInv /\ VgMemoryInv /\ VgPageAtItsDensity BY DEF VgInv
<1> DEFINE chosen == VgSingle(vgUser)
           last == vgPages[Len(vgPages)]
<1>2. /\ vgPhase = "between" /\ vgPhase' = "sending" /\ ~vgTask' /\ vgTarget' = chosen /\ vgLastSingle' = chosen /\ vgDensity' = vgTarget'
      /\ UNCHANGED <<vgHelper, vgUser, vgTemperature, vgD2, vgRecent, vgPages>>
  BY DEF VgSend, vgStatus
<1>3. /\ chosen \in Int /\ chosen <= vgUser
      /\ vgHelper = "mx06" =>
           /\ chosen >= 70
           /\ ~vgD2 => chosen = vgUser
           /\ vgD2 /\ vgRecent /\ vgLastSingle > 0 => chosen <= Max({70, vgLastSingle})
  BY <1>1, VgChosen
<1> HIDE DEF chosen
<1>4. /\ Len(vgPages) > 0 => vgLastSingle = last.target
      /\ Len(vgPages) > 0 /\ vgHelper = "mx06" => last.target >= 70 /\ (~vgD2 => last.target = vgUser)
  BY <1>1, <1>2 DEF VgMemoryInv
<1> HIDE DEF last
<1>5. VgState' BY <1>1, <1>2, <1>3 DEF VgState, VgLevels
<1>6. VgSendingInv'
  <2>1. Len(vgPages) > 0 /\ vgHelper = "mx06" => vgLastSingle > 0 BY <1>1, <1>4 DEF VgState
  <2> QED BY <1>2, <1>3, <1>4, <2>1 DEF VgSendingInv, last
<1>7. VgMemoryInv' BY <1>2, <1>3, <1>4 DEF VgMemoryInv, last
<1>8. VgPageAtItsDensity' BY <1>1, <1>2 DEF VgPageAtItsDensity
<1> QED BY <1>5, <1>6, <1>7, <1>8 DEF VgInv

LEMMA VgSentKept == VgInv /\ VgSent => VgInv'
<1> SUFFICES ASSUME VgInv, VgSent PROVE VgInv' OBVIOUS
<1>1. VgState /\ VgSendingInv /\ VgMemoryInv /\ VgPageAtItsDensity BY DEF VgInv
<1> DEFINE page == [asked |-> vgUser, target |-> vgTarget, used |-> vgDensity, busy |-> vgD2 /\ vgRecent]
           n == Len(vgPages)
<1>2. /\ vgPhase = "sending" /\ vgPhase' \in {"printed", "between"} /\ vgPages' = Append(vgPages, page)
      /\ UNCHANGED <<vgHelper, vgUser, vgTemperature, vgD2, vgLastSingle, vgTask, vgTarget, vgDensity>>
  BY DEF VgSent, vgStatus
<1>3. /\ vgDensity = vgTarget /\ vgTarget <= vgUser /\ vgLastSingle = vgTarget /\ ~vgTask
      /\ vgHelper = "mx06" /\ vgD2 /\ vgRecent /\ n > 0 => vgTarget <= Max({70, vgPages[n].target})
  BY <1>1, <1>2 DEF VgSendingInv
<1>4. vgUser \in Int /\ vgTarget \in Int /\ vgDensity \in Int BY <1>1, <1>3 DEF VgState, VgLevels
<1>5. page \in [asked : Int, target : Int, used : Int, busy : BOOLEAN]
  <2> DEFINE busy == vgD2 /\ vgRecent
  <2>1. busy \in BOOLEAN OBVIOUS
  <2> HIDE DEF busy
  <2>2. [asked |-> vgUser, target |-> vgTarget, used |-> vgDensity, busy |-> busy] \in [asked : Int, target : Int, used : Int, busy : BOOLEAN]
    BY <1>4, <2>1
  <2> QED BY <2>2 DEF busy
<1>6. page.asked = vgUser /\ page.target = vgTarget /\ page.used = vgDensity /\ (page.busy <=> vgD2 /\ vgRecent) OBVIOUS
<1> HIDE DEF page, n
<1>7. n \in Nat /\ DOMAIN vgPages = 1..n BY <1>1 DEF VgState, n
<1> DEFINE Pages == [asked : Int, target : Int, used : Int, busy : BOOLEAN]
<1>14. vgPages \in Seq(Pages) /\ page \in Pages BY <1>1, <1>5 DEF VgState
<1> HIDE DEF Pages
<1>15. /\ vgPages' \in Seq(Pages) /\ Len(vgPages') = n + 1
       /\ DOMAIN vgPages' = 1..n + 1 /\ \A i \in 1..n + 1 : vgPages'[i] = IF i = n + 1 THEN page ELSE vgPages[i]
  BY <1>2, <1>14 DEF n
<1>8. /\ vgPages' \in Seq([asked : Int, target : Int, used : Int, busy : BOOLEAN]) /\ Len(vgPages') = n + 1
      /\ DOMAIN vgPages' = 1..n + 1 /\ \A i \in 1..n + 1 : vgPages'[i] = IF i = n + 1 THEN page ELSE vgPages[i]
  BY <1>15 DEF Pages
<1>9. VgState' BY <1>1, <1>2, <1>8 DEF VgState, VgLevels
<1>10. VgSendingInv' BY <1>2 DEF VgSendingInv
<1>16. n + 1 \in 1..n + 1 BY <1>7
<1>11. vgPages'[n + 1] = page BY <1>15, <1>16
<1>12. VgMemoryInv'
  <2>1. vgHelper = "mx06" => vgTarget >= 70 /\ (~vgD2 => vgTarget = vgUser) BY <1>1, <1>2 DEF VgMemoryInv
  <2> QED BY <1>2, <1>3, <1>6, <1>7, <1>8, <1>11, <2>1 DEF VgMemoryInv
<1>13. VgPageAtItsDensity'
  <2> SUFFICES ASSUME NEW i \in 1..n + 1
               PROVE  /\ vgPages'[i].used = vgPages'[i].target /\ vgPages'[i].target <= vgPages'[i].asked
                      /\ i > 1 /\ vgHelper = "mx06" /\ vgPages'[i].busy => vgPages'[i].target <= Max({70, vgPages'[i - 1].target})
    BY <1>2, <1>8 DEF VgPageAtItsDensity
  <2>1. CASE i = n + 1
    <3>1. i > 1 => n > 0 /\ vgPages'[i - 1] = vgPages[n] BY <1>7, <1>8, <2>1
    <3> QED BY <1>3, <1>6, <1>11, <2>1, <3>1
  <2>2. CASE i # n + 1
    <3>1. i \in DOMAIN vgPages /\ vgPages'[i] = vgPages[i] BY <1>7, <1>8, <2>2
    <3>2. i > 1 => vgPages'[i - 1] = vgPages[i - 1] BY <1>7, <1>8, <2>2
    <3> QED BY <1>1, <3>1, <3>2 DEF VgPageAtItsDensity
  <2> QED BY <2>1, <2>2
<1> QED BY <1>9, <1>10, <1>12, <1>13 DEF VgInv

LEMMA VgKept == VgInv /\ [VgNext]_vgVars => VgInv'
<1> SUFFICES ASSUME VgInv, [VgNext]_vgVars PROVE VgInv' OBVIOUS
<1>1. VgState /\ VgSendingInv /\ VgMemoryInv /\ VgPageAtItsDensity BY DEF VgInv
<1>2. ASSUME UNCHANGED <<vgHelper, vgUser, vgPages>> PROVE VgPageAtItsDensity' BY <1>1, <1>2 DEF VgPageAtItsDensity
<1>3. CASE VgConnect \/ VgBreak \/ VgStop \/ VgResetSent \/ VgPause \/ UNCHANGED vgVars
  <2>1. /\ UNCHANGED <<vgHelper, vgUser, vgTemperature, vgD2, vgLastSingle, vgTarget, vgPages>>
        /\ \/ vgPhase' \in {"failed", "stopped"}
           \/ vgPhase = "connect" /\ vgPhase' = "between"
           \/ vgPhase' = vgPhase /\ UNCHANGED <<vgTask, vgDensity, vgRecent>>
           \/ vgPhase' = vgPhase /\ (vgTask \/ vgPhase = "between")
    BY <1>3 DEF VgConnect, VgBreak, VgStop, VgResetSent, VgPause, vgVars, vgStatus, vgMemory
  <2>2. VgState' BY <1>1, <2>1 DEF VgState, VgLevels
  <2>3. VgSendingInv' BY <1>1, <2>1 DEF VgSendingInv
  <2>4. VgMemoryInv' BY <1>1, <2>1 DEF VgMemoryInv
  <2> QED BY <1>2, <2>1, <2>2, <2>3, <2>4 DEF VgInv
<1>4. CASE VgHearsD2 \/ VgHearsTemperature
  <2>1. /\ UNCHANGED <<vgPhase, vgHelper, vgUser, vgLastSingle, vgRecent, vgTarget, vgDensity, vgPages>>
        /\ vgTemperature' \in Int /\ (vgD2' = vgD2 \/ vgD2')
    BY <1>1, <1>4, V5GAssumption DEF VgHearsD2, VgHearsTemperature, vgMemory, VgState, V5GAssumption
  <2>5. vgPhase = "sending" /\ vgTask' => vgTask
    <3>1. CASE VgHearsD2 BY <3>1 DEF VgHearsD2
    <3>2. CASE VgHearsTemperature
      <4>1. PICK temperature \in VgTemperatures : vgTask' = (vgTask \/ VgResets(temperature)) BY <3>2 DEF VgHearsTemperature
      <4>2. vgPhase = "sending" => ~VgResets(temperature) BY DEF VgResets
      <4> QED BY <4>1, <4>2
    <3> QED BY <1>4, <3>1, <3>2
  <2>2. VgState' BY <1>1, <2>1 DEF VgState, VgLevels
  <2>3. VgMemoryInv' BY <1>1, <2>1 DEF VgMemoryInv
  <2>4. VgSendingInv'
    <3> DEFINE last == vgPages[Len(vgPages)].target
               before == Max({70, last})
    <3>1. vgHelper = "mx06" /\ ~vgD2 /\ vgPhase = "sending" /\ Len(vgPages) > 0 => last \in Int /\ last = vgTarget
      BY <1>1 DEF VgMemoryInv, VgState
    <3>3. last \in Int => before >= last
      <4> HIDE DEF last
      <4>1. 70 \in Int OBVIOUS
      <4> QED BY <4>1, GreatestOfTwo
    <3>2. vgHelper = "mx06" /\ ~vgD2 /\ vgPhase = "sending" /\ Len(vgPages) > 0 => vgTarget <= before
      <4> HIDE DEF last, before
      <4> QED BY <3>1, <3>3
    <3> QED BY <1>1, <2>1, <2>5, <3>2 DEF VgSendingInv
  <2> QED BY <1>2, <2>1, <2>2, <2>3, <2>4 DEF VgInv
<1> QED BY <1>3, <1>4, VgSendKept, VgSentKept DEF VgNext, VgStep

-----------------------------------------------------------------------------
(* The Funny LX runtime                                                    *)

LEMMA FxStarts == FxInit => FxInv
<1> SUFFICES ASSUME FxInit PROVE FxInv OBVIOUS
<1>1. fxPhase = "connect" /\ fxIndex = 0 /\ fxRetries = 0 /\ fxRequests = <<>> /\ fxHeard = 0 /\ fxLink = <<>> /\ fxGot = {}
  BY DEF FxInit
<1>2. FxSaid = {} BY <1>1 DEF FxSaid, ToSet
<1>3. FxPackets \in Nat BY FunnyAssumption DEF FunnyAssumption
<1>4. <<>> \in Seq(1..Ready) /\ <<>> \in Seq(1..FxPackets) OBVIOUS
<1>5. FxState BY <1>1, <1>3, <1>4 DEF FxState, Ready
<1>6. FxAskedInv BY <1>1, <1>2 DEF FxAskedInv, FxFooterWholeImage
<1> QED BY <1>5, <1>6 DEF FxInv

(* Requests are taken off a queue or put on it.                            *)
LEMMA FxQueues ==
  ASSUME NEW n \in Nat, NEW seq \in Seq(1..n)
  PROVE  /\ ToSet(seq) \subseteq 1..n
         /\ seq # <<>> => /\ Head(seq) \in ToSet(seq) /\ Tail(seq) \in Seq(1..n)
                          /\ ToSet(Tail(seq)) \subseteq ToSet(seq)
         /\ \A e \in 1..n : Append(seq, e) \in Seq(1..n) /\ ToSet(Append(seq, e)) \subseteq ToSet(seq) \cup {e}
<1>1. ToSet(seq) \subseteq 1..n BY DEF ToSet
<1>2. ASSUME seq # <<>> PROVE Head(seq) \in ToSet(seq) /\ Tail(seq) \in Seq(1..n) /\ ToSet(Tail(seq)) \subseteq ToSet(seq)
  <2>1. Len(seq) \in Nat \ {0} /\ Head(seq) = seq[1] /\ 1 \in DOMAIN seq BY <1>2
  <2>2. Tail(seq) \in Seq(1..n) /\ \A i \in DOMAIN Tail(seq) : i + 1 \in DOMAIN seq /\ Tail(seq)[i] = seq[i + 1] BY <1>2
  <2> QED BY <2>1, <2>2 DEF ToSet
<1>3. ASSUME NEW e \in 1..n
      PROVE  Append(seq, e) \in Seq(1..n) /\ ToSet(Append(seq, e)) \subseteq ToSet(seq) \cup {e}
  <2>1. /\ Append(seq, e) \in Seq(1..n)
        /\ \A i \in DOMAIN Append(seq, e) : (i \in DOMAIN seq /\ Append(seq, e)[i] = seq[i]) \/ Append(seq, e)[i] = e
    OBVIOUS
  <2> QED BY <2>1 DEF ToSet
<1> QED BY <1>1, <1>2, <1>3

(* A queue without one of its elements has no other than it had.           *)
LEMMA FxRemoved ==
  ASSUME NEW n \in Nat, NEW seq \in Seq(1..n), NEW e
  PROVE  RemoveFirst(seq, e) \in Seq(1..n) /\ ToSet(RemoveFirst(seq, e)) \subseteq ToSet(seq)
<1>1. CASE \E i \in 1..Len(seq) : seq[i] = e
  <2> DEFINE places == {j \in 1..Len(seq) : seq[j] = e}
             at == SelectInSeq(seq, LAMBDA v : v = e)
             before == SubSeq(seq, 1, at - 1)
             after == SubSeq(seq, at + 1, Len(seq))
  <2>1. places # {} /\ places \subseteq Nat BY <1>1
  <2>2. at = Min(places) BY <2>1 DEF SelectInSeq
  <2>3. at \in places BY <2>1, <2>2, SomeSmallest DEF Min
  <2>4. RemoveFirst(seq, e) = before \o after BY <1>1 DEF RemoveFirst, RemoveAt
  <2>5. at \in 1..Len(seq) /\ Len(seq) \in Nat BY <2>3
  <2> HIDE DEF at, places
  <2>6. before \in Seq(1..n) /\ Len(before) = at - 1 /\ \A i \in 1..at - 1 : before[i] = seq[i] BY <2>5
  <2>9. after \in Seq(1..n) /\ Len(after) = Len(seq) - at BY <2>5
  <2>10. \A i \in 1..Len(seq) - at : after[i] = seq[at + i] BY <2>5
  <2> HIDE DEF before, after
  <2>7. before \o after \in Seq(1..n) BY <2>6, <2>9
  <2>8. \A i \in DOMAIN (before \o after) : \E j \in DOMAIN seq : (before \o after)[i] = seq[j]
    <3> SUFFICES ASSUME NEW i \in DOMAIN (before \o after) PROVE \E j \in DOMAIN seq : (before \o after)[i] = seq[j] OBVIOUS
    <3>1. i \in 1..(Len(before) + Len(after)) /\ Len(before) \in Nat /\ Len(after) \in Nat BY <2>6, <2>9
    <3>2. CASE i <= Len(before)
      <4>1. (before \o after)[i] = before[i] BY <2>6, <2>9, <3>1, <3>2
      <4>2. i \in 1..at - 1 /\ i \in DOMAIN seq BY <2>5, <2>6, <3>1, <3>2
      <4> QED BY <2>6, <4>1, <4>2
    <3>3. CASE i > Len(before)
      <4>3. before \in Seq(1..n) /\ after \in Seq(1..n) BY <2>6, <2>9
      <4>1. (before \o after)[i] = after[i - Len(before)] BY <3>1, <3>3, <4>3
      <4>4. Len(before) = at - 1 /\ i <= Len(seq) - 1 /\ i \in Nat /\ i >= at BY <2>5, <2>6, <2>9, <3>1, <3>3
      <4>2. i - Len(before) \in 1..Len(seq) - at /\ at + (i - Len(before)) \in DOMAIN seq BY <2>5, <4>4
      <4> QED BY <2>10, <4>1, <4>2
    <3> QED BY <3>1, <3>2, <3>3
  <2> QED BY <2>4, <2>7, <2>8 DEF ToSet
<1>2. CASE ~\E i \in 1..Len(seq) : seq[i] = e BY <1>2 DEF RemoveFirst
<1> QED BY <1>1, <1>2

(* A resend begins at a packet before every one that is missing.           *)
LEMMA FxRetried ==
  ASSUME FxInv, NEW packet \in FxSaid \cap 1..FxPackets, FxRetry(packet)
  PROVE  /\ fxIndex' \in 0..FxPackets /\ fxRetries' \in Nat
         /\ fxGaveUp' \/ \A p \in FxMissing : p > fxIndex'
<1>1. FxState /\ \A p \in FxMissing : packet <= p BY DEF FxInv, FxAskedInv
<1>2. FxPackets \in Nat /\ FxMissing \subseteq 1..FxPackets BY FunnyAssumption DEF FunnyAssumption, FxMissing
<1>3. (fxIndex' = packet - 1 /\ fxRetries' = fxRetries + 1) \/ (UNCHANGED <<fxIndex, fxRetries>> /\ fxGaveUp') BY DEF FxRetry
<1> QED BY <1>1, <1>2, <1>3 DEF FxState

LEMMA FxKept == FxInv /\ [FxNext]_fxVars => FxInv'
<1> SUFFICES ASSUME FxInv, [FxNext]_fxVars PROVE FxInv' OBVIOUS
<1>1. FxState /\ FxAskedInv BY DEF FxInv
<1>2. FxPackets \in Nat /\ FxMissing \subseteq 1..FxPackets /\ Ready = FxPackets + 1
  BY FunnyAssumption DEF FunnyAssumption, FxMissing, Ready
<1>3. FxPackets + 1 \in Nat BY <1>2
<1>4. /\ ToSet(fxLink) \subseteq 1..Ready /\ ToSet(fxRequests) \subseteq 1..FxPackets
      /\ fxLink # <<>> => /\ Head(fxLink) \in ToSet(fxLink) /\ Tail(fxLink) \in Seq(1..Ready)
                          /\ ToSet(Tail(fxLink)) \subseteq ToSet(fxLink)
      /\ fxRequests # <<>> => /\ Head(fxRequests) \in ToSet(fxRequests) /\ Tail(fxRequests) \in Seq(1..FxPackets)
                              /\ ToSet(Tail(fxRequests)) \subseteq ToSet(fxRequests)
      /\ \A e \in 1..Ready : /\ Append(fxLink, e) \in Seq(1..Ready)
                             /\ ToSet(Append(fxLink, e)) \subseteq ToSet(fxLink) \cup {e}
      /\ \A e \in 1..FxPackets : /\ Append(fxRequests, e) \in Seq(1..FxPackets)
                                 /\ ToSet(Append(fxRequests, e)) \subseteq ToSet(fxRequests) \cup {e}
  BY <1>1, <1>2, <1>3, FxQueues DEF FxState
<1>5. ASSUME FxSaid' \subseteq FxSaid, FxMissing' \subseteq FxMissing, FxState', FxFooterWholeImage' PROVE FxInv'
  BY <1>1, <1>5 DEF FxInv, FxAskedInv
<1>6. ASSUME UNCHANGED <<fxLink, fxRequests, fxHeard>> PROVE FxSaid' = FxSaid BY <1>6 DEF FxSaid
<1>7. ASSUME UNCHANGED fxGot PROVE FxMissing' = FxMissing BY <1>7 DEF FxMissing
<1>8. CASE FxVerify \/ FxNotReady \/ FxFooter \/ UNCHANGED fxVars
  <2>1. UNCHANGED <<fxIndex, fxRetries, fxRequests, fxHeard, fxLink, fxGot>>
        /\ (fxPhase' \in {"footer", "printed"} => fxPhase \in {"footer", "printed"})
    BY <1>8 DEF FxVerify, FxNotReady, FxFooter, fxVars, fxJob
  <2>2. FxState' BY <1>1, <2>1 DEF FxState
  <2>3. FxFooterWholeImage' BY <1>1, <1>7, <2>1 DEF FxAskedInv, FxFooterWholeImage
  <2> QED BY <1>5, <1>6, <1>7, <2>1, <2>2, <2>3
<1>9. CASE FxHeader
  <2>1. fxPhase' = "image" /\ fxRequests' = <<>> /\ UNCHANGED <<fxIndex, fxRetries, fxHeard, fxLink, fxGot>> BY <1>9 DEF FxHeader
  <2>2. <<>> \in Seq(1..FxPackets) /\ ToSet(<<>>) = {} BY DEF ToSet
  <2>3. FxState' BY <1>1, <2>1, <2>2 DEF FxState
  <2>4. FxSaid' \subseteq FxSaid BY <2>1, <2>2 DEF FxSaid
  <2> QED BY <1>5, <1>7, <2>1, <2>3, <2>4 DEF FxFooterWholeImage
<1>10. CASE FxGoBack
  <2>1. /\ fxPhase' = "image" /\ fxRequests # <<>> /\ fxRequests' = Tail(fxRequests)
        /\ UNCHANGED <<fxHeard, fxLink, fxGot>> /\ FxRetry(Head(fxRequests))
    BY <1>10 DEF FxGoBack
  <2>2. Head(fxRequests) \in FxSaid \cap 1..FxPackets BY <1>4, <2>1 DEF FxSaid
  <2>3. fxIndex' \in 0..FxPackets /\ fxRetries' \in Nat BY <2>1, <2>2, FxRetried
  <2>4. FxState' BY <1>1, <1>4, <2>1, <2>3 DEF FxState
  <2>5. FxSaid' \subseteq FxSaid BY <1>4, <2>1 DEF FxSaid
  <2> QED BY <1>5, <1>7, <2>1, <2>4, <2>5 DEF FxFooterWholeImage
<1>11. CASE FxSendPacket
  <2>1. /\ fxPhase' = "image" /\ fxIndex < FxPackets /\ fxIndex' = fxIndex + 1 /\ UNCHANGED <<fxRetries, fxRequests, fxHeard, fxLink>>
        /\ fxGot' \in {fxGot, fxGot \cup {fxIndex + 1}}
    BY <1>11 DEF FxSendPacket
  <2>2. FxState' BY <1>1, <1>2, <2>1 DEF FxState
  <2>3. FxMissing' \subseteq FxMissing BY <2>1 DEF FxMissing
  <2> QED BY <1>5, <1>6, <2>1, <2>2, <2>3 DEF FxFooterWholeImage
<1>12. CASE FxAllSent
  <2>1. fxPhase' = "ready" /\ fxHeard' = 0 /\ UNCHANGED <<fxIndex, fxRetries, fxRequests, fxLink, fxGot>> BY <1>12 DEF FxAllSent
  <2>2. FxState' BY <1>1, <1>2, <2>1 DEF FxState
  <2>3. FxSaid' \subseteq FxSaid BY <2>1 DEF FxSaid
  <2> QED BY <1>5, <1>7, <2>1, <2>2, <2>3 DEF FxFooterWholeImage
<1>13. CASE FxWaited
  <2>1. fxHeard # 0 /\ fxHeard' = 0 /\ UNCHANGED <<fxLink, fxGot>> BY <1>13 DEF FxWaited
  <2>2. fxHeard \in FxSaid BY <2>1 DEF FxSaid
  <2>3. CASE fxHeard = Ready
    <3>1. UNCHANGED <<fxIndex, fxRetries, fxRequests>> BY <1>13, <2>3 DEF FxWaited
    <3>2. FxState' BY <1>1, <1>2, <2>1, <3>1 DEF FxState
    <3>3. \A p \in FxMissing : Ready <= p BY <1>1, <2>2, <2>3 DEF FxAskedInv
    <3>4. FxMissing = {} BY <1>2, <3>3
    <3>5. FxSaid' \subseteq FxSaid BY <2>1, <3>1 DEF FxSaid
    <3> QED BY <1>5, <1>7, <2>1, <3>2, <3>4, <3>5 DEF FxFooterWholeImage
  <2>4. CASE fxHeard # Ready
    <3>1. fxPhase' = "image" /\ FxRetry(fxHeard) /\ fxRequests' = RemoveFirst(fxRequests, fxHeard) BY <1>13, <2>4 DEF FxWaited
    <3>2. fxHeard \in 1..FxPackets BY <1>1, <1>2, <2>1, <2>4 DEF FxState
    <3>3. fxIndex' \in 0..FxPackets /\ fxRetries' \in Nat BY <2>2, <3>1, <3>2, FxRetried
    <3>4. fxRequests' \in Seq(1..FxPackets) /\ ToSet(fxRequests') \subseteq ToSet(fxRequests)
      BY <1>1, <1>2, <3>1, FxRemoved DEF FxState
    <3>5. FxState' BY <1>1, <1>2, <2>1, <3>3, <3>4 DEF FxState
    <3>6. FxSaid' \subseteq FxSaid BY <2>1, <3>4 DEF FxSaid
    <3> QED BY <1>5, <1>7, <2>1, <3>1, <3>5, <3>6 DEF FxFooterWholeImage
  <2> QED BY <2>3, <2>4
<1>14. CASE FxNotify
  <2> DEFINE said == Head(fxLink)
  <2>1. /\ fxLink # <<>> /\ fxLink' = Tail(fxLink) /\ UNCHANGED <<fxPhase, fxIndex, fxRetries, fxGot>>
        /\ fxRequests' = IF said = Ready THEN fxRequests ELSE Append(fxRequests, said)
        /\ fxHeard' = said \/ fxHeard' = fxHeard
    BY <1>14 DEF FxNotify
  <2>2. said \in ToSet(fxLink) /\ said \in 1..Ready BY <1>4, <2>1
  <2> HIDE DEF said
  <2>3. fxRequests' \in Seq(1..FxPackets) /\ ToSet(fxRequests') \subseteq ToSet(fxRequests) \cup {said}
    <3>1. CASE said = Ready BY <1>1, <2>1, <3>1 DEF FxState
    <3>2. CASE said # Ready
      <4>1. said \in 1..FxPackets BY <1>2, <2>2, <3>2
      <4> QED BY <1>4, <2>1, <3>2, <4>1
    <3> QED BY <3>1, <3>2
  <2>4. fxHeard' \in 0..Ready BY <1>1, <1>2, <2>1, <2>2 DEF FxState
  <2>5. FxState' BY <1>1, <1>4, <2>1, <2>3, <2>4 DEF FxState
  <2>6. FxSaid' \subseteq FxSaid BY <1>4, <2>1, <2>2, <2>3 DEF FxSaid
  <2>7. FxFooterWholeImage' BY <1>1, <1>7, <2>1 DEF FxAskedInv, FxFooterWholeImage
  <2> QED BY <1>5, <1>7, <2>1, <2>5, <2>6, <2>7
<1>15. CASE FxPrinterSpeaks
  <2>1. UNCHANGED <<fxPhase, fxIndex, fxRetries, fxRequests, fxHeard, fxGot>> BY <1>15 DEF FxPrinterSpeaks, fxJob
  <2>2. FxMissing' = FxMissing BY <1>7, <2>1
  <2>3. FxFooterWholeImage' BY <1>1, <2>1, <2>2 DEF FxAskedInv, FxFooterWholeImage
  <2>4. PICK e \in 1..Ready : fxLink' = Append(fxLink, e) /\ \A p \in FxMissing : e <= p
    <3>1. CASE FxMissing # {} /\ fxLink' = Append(fxLink, Min(FxMissing))
      <4>1. FxMissing \subseteq Nat BY <1>2
      <4>2. PICK e \in FxMissing : \A p \in FxMissing : e <= p BY <3>1, <4>1, SomeSmallest
      <4> DEFINE least == Min(FxMissing)
      <4>3. least \in FxMissing /\ \A p \in FxMissing : least <= p BY <4>2 DEF Min
      <4>6. fxLink' = Append(fxLink, least) BY <3>1
      <4> HIDE DEF least
      <4>5. least \in FxMissing BY <4>3
      <4>4. least \in 1..Ready BY <1>2, <4>5
      <4> QED BY <4>3, <4>4, <4>6
    <3>2. CASE FxMissing = {} /\ fxLink' = Append(fxLink, Ready) BY <1>2, <3>2
    <3> QED BY <1>15, <3>1, <3>2 DEF FxPrinterSpeaks
  <2>5. FxState' BY <1>1, <1>4, <2>1, <2>4 DEF FxState
  <2>6. FxSaid' \subseteq FxSaid \cup {e} BY <1>4, <2>1, <2>4 DEF FxSaid
  <2> QED BY <1>1, <2>2, <2>3, <2>4, <2>5, <2>6 DEF FxInv, FxAskedInv
<1> QED BY <1>8, <1>9, <1>10, <1>11, <1>12, <1>13, <1>14, <1>15 DEF FxNext, FxClientStep

(* What is asked for again is sent again, from there on.                   *)
LEMMA FxResumes ==
  ASSUME FxInv, FxGoBack \/ FxWaited
  PROVE  fxPhase' = "footer" \/ fxGaveUp' \/ \A p \in FxMissing : p > fxIndex'
<1>1. FxState BY DEF FxInv
<1>2. FxPackets \in Nat /\ Ready = FxPackets + 1 BY FunnyAssumption DEF FunnyAssumption, Ready
<1>3. CASE FxGoBack
  <2>1. Head(fxRequests) \in FxSaid \cap 1..FxPackets
    BY <1>1, <1>2, <1>3, FxQueues DEF FxGoBack, FxState, FxSaid
  <2> QED BY <1>3, <2>1, FxRetried DEF FxGoBack
<1>4. CASE FxWaited /\ fxHeard # Ready
  <2>1. fxHeard \in FxSaid \cap 1..FxPackets BY <1>1, <1>2, <1>4 DEF FxWaited, FxState, FxSaid
  <2> QED BY <1>4, <2>1, FxRetried DEF FxWaited
<1>5. CASE FxWaited /\ fxHeard = Ready BY <1>5 DEF FxWaited
<1> QED BY <1>3, <1>4, <1>5

-----------------------------------------------------------------------------
(* What the runs check, for every instance                                 *)

(* A behaviour of the devices is one of each part.                         *)
LEMMA DeviceBehaviours ==
  DeviceSpec => /\ NbInit /\ [][NbNext]_nbVars
                /\ PhInit /\ [][PhNext]_phVars
                /\ GcInit /\ [][GcNext]_gcVars
                /\ VcInit /\ [][VcNext]_vcVars
                /\ VxInit /\ [][VxNext]_vxVars
                /\ VgInit /\ [][VgNext]_vgVars
                /\ FxInit /\ [][FxNext]_fxVars
<1>1. DeviceInit => NbInit /\ PhInit /\ GcInit /\ VcInit /\ VxInit /\ VgInit /\ FxInit BY DEF DeviceInit
<1>2. [DeviceMeets]_deviceVars => [NbNext]_nbVars /\ [PhNext]_phVars /\ [GcNext]_gcVars /\ [VcNext]_vcVars
         /\ [VxNext]_vxVars /\ [VgNext]_vgVars /\ [FxNext]_fxVars
  BY DeviceParts
<1> QED BY <1>1, <1>2, PTL DEF DeviceSpec

LEMMA NbHolds == DeviceSpec => []NbInv
BY DeviceBehaviours, NbStarts, NbKept, PTL

LEMMA PhHolds == DeviceSpec => []PhInv
BY DeviceBehaviours, PhStarts, PhKept, PTL

LEMMA GcHolds == DeviceSpec => []GcInv
BY DeviceBehaviours, GcStarts, GcKept, PTL

LEMMA VcHolds == DeviceSpec => []VcInv
BY DeviceBehaviours, VcStarts, VcKept, PTL

LEMMA VxHolds == DeviceSpec => []VxInv
BY DeviceBehaviours, VxStarts, VxKept, PTL

LEMMA VgHolds == DeviceSpec => []VgInv
BY DeviceBehaviours, VgStarts, VgKept, PTL

LEMMA FxHolds == DeviceSpec => []FxInv
BY DeviceBehaviours, FxStarts, FxKept, PTL

(* A fault that the printer reports ends the job, whatever it says after,  *)
(* and a page ends with a completion that was reported for it              *)
(* (printing/runtime/phomemo_released.py, v5c.py).                         *)
THEOREM FaultsAreFatal == DeviceSpec => []FaultsEndJobs
<1>1. PhInv => PhReportStopsJob BY DEF PhInv, PhFaultInv, PhPhaseInv, PhReportStopsJob
<1>2. VcInv => VcFaultEndsJob /\ VcCompletionCurrent BY DEF VcInv
<1>3. PhInv /\ VcInv => FaultsEndJobs BY <1>1, <1>2 DEF FaultsEndJobs
<1> QED BY <1>3, PhHolds, VcHolds, PTL

(* A print that returns has delivered every page, and one that says that   *)
(* nothing was sent has sent nothing, whatever the link loses and the      *)
(* printer reports (vendors/niimbot/client.py, vendors/phomemo/client.py,  *)
(* vendors/generic/client.py): the steps of each client and its printer    *)
(* are steps of ClientPromise.                                             *)
THEOREM ClientsKeepTheirPromise == DeviceSpec => ClientsKeepPromise
<1>1. NbInit => NbPromise!Init BY DEF NbInit, NbPromise!Init, NbGiven
<1>2. PhInit => PhPromise!Init BY DEF PhInit, PhPromise!Init
<1>3. GcInit => GcPromise!Init BY DEF GcInit, GcPromise!Init, GcGiven
<1>4. DeviceSpec => NiimbotKeepsPromise
  BY <1>1, DeviceBehaviours, NbHolds, NbPromiseKept, PTL DEF NiimbotKeepsPromise, NbPromise!Spec
<1>5. DeviceSpec => PhomemoKeepsPromise
  BY <1>2, DeviceBehaviours, PhHolds, PhPromiseKept, PTL DEF PhomemoKeepsPromise, PhPromise!Spec
<1>6. DeviceSpec => GenericKeepsPromise
  BY <1>3, DeviceBehaviours, GcHolds, GcPromiseKept, PTL DEF GenericKeepsPromise, GcPromise!Spec
<1> QED BY <1>4, <1>5, <1>6 DEF ClientsKeepPromise

(* A page reaches a printer that accepted it, at the density chosen for    *)
(* it, and the footer that ejects it only one that has the whole image,    *)
(* whatever the printer reported, put off or asked for again before        *)
(* (printing/runtime/v5x.py, v5g.py, funny_lx.py).                         *)
THEOREM PrintersGetTheirPages == DeviceSpec => [](VxRasterAccepted /\ VgPageAtItsDensity /\ FxFooterWholeImage)
<1>1. VxInv /\ VgInv /\ FxInv => VxRasterAccepted /\ VgPageAtItsDensity /\ FxFooterWholeImage
  BY DEF VxInv, VgInv, FxInv, FxAskedInv
<1> QED BY <1>1, VxHolds, VgHolds, FxHolds, PTL

(* A run that goes back to a packet the printer asks for goes back before  *)
(* every packet that it misses, unless it asked too often                  *)
(* (printing/runtime/funny_lx.py).                                         *)
THEOREM RunsResumeAtRequests == DeviceSpec => FxResumesAtRequest
<1>1. FxInv /\ [FxNext]_fxVars =>
        [FxGoBack \/ FxWaited =>
           fxPhase' = "footer" \/ fxGaveUp' \/ \A p \in FxMissing : p > fxIndex' \/ p \in ToSet(fxRequests')]_fxVars
  BY FxResumes
<1> QED BY <1>1, DeviceBehaviours, FxHolds, PTL DEF FxResumesAtRequest

-----------------------------------------------------------------------------
(* The channel                                                             *)

(* A job that goes on keeps its other fields.                              *)
LEMMA BcGoesOn ==
  ASSUME NEW job \in BcJobs, NEW at \in {"idle", "checking", "writing", "waiting", "asking", "expecting"}, NEW n \in Nat
  PROVE  /\ [job EXCEPT !.at = at] \in BcJobs /\ [job EXCEPT !.at = at].at = at
         /\ [job EXCEPT !.at = at, !.chunk = n] \in BcJobs /\ [job EXCEPT !.at = at, !.chunk = n].at = at
BY DEF BcJobs

LEMMA BcFreshJobs ==
  /\ BcIdle \in BcJobs /\ BcIdle.at = "idle"
  /\ \A kind \in BcKinds : /\ [at |-> "waiting", kind |-> kind, chunk |-> 0] \in BcJobs
                           /\ [at |-> "asking", kind |-> kind, chunk |-> 0] \in BcJobs
  /\ [at |-> "checking", kind |-> "none", chunk |-> 1] \in BcJobs
BY DEF BcJobs, BcIdle

LEMMA BcStarts == BcInit => BcInv
<1> SUFFICES ASSUME BcInit PROVE BcInv OBVIOUS
<1>1. bcControlled \in BOOLEAN /\ bcListening \in BOOLEAN BY DEF BcInit
<1>2. <<>> \in Seq(BcKinds \cup {"pause", "resume"}) /\ <<>> \in Seq(BcKinds) OBVIOUS
<1> QED BY <1>1, <1>2, BcFreshJobs DEF BcInit, BcIdle, BcInv, BcState, BcFlowInv, BcNothingMissed

(* What leaves the history leaves it a sequence of the same notifications. *)
LEMMA BcRemoved ==
  ASSUME NEW heard \in Seq(BcKinds), NEW i \in DOMAIN heard
  PROVE  RemoveAt(heard, i) \in Seq(BcKinds)
<1>1. i \in 1..Len(heard) /\ Len(heard) \in Nat OBVIOUS
<1>2. SubSeq(heard, 1, i - 1) \in Seq(BcKinds) BY <1>1
<1>3. SubSeq(heard, i + 1, Len(heard)) \in Seq(BcKinds) BY <1>1
<1> QED BY <1>2, <1>3 DEF RemoveAt

(* Of some bounded natural numbers one is the largest.                     *)
LEMMA SomeLargest ==
  ASSUME NEW n \in Nat, NEW S, S \subseteq 0..n, S # {}
  PROVE  \E x \in S : \A y \in S : y <= x
<1> DEFINE T == {n - y : y \in S}
<1>1. \A y \in S : y \in 0..n OBVIOUS
<1>2. \A y \in 0..n : n - y \in Nat OBVIOUS
<1>3. T \subseteq Nat /\ T # {} BY <1>1, <1>2
<1>4. PICK t \in T : \A u \in T : t <= u BY <1>3, SomeSmallest
<1>5. PICK x \in S : t = n - x BY <1>4
<1>6. \A y \in S : n - x <= n - y BY <1>4, <1>5
<1>7. \A y \in S : y <= x BY <1>1, <1>6
<1> QED BY <1>7

(* The history takes one more, and may lose its oldest.                    *)
LEMMA BcKeeps ==
  ASSUME NEW heard \in Seq(BcKinds), NEW frame \in BcKinds
  PROVE  LET kept == BcKept(Append(heard, frame)) IN
         /\ kept \in Seq(BcKinds)
         /\ Range(kept) \subseteq Range(heard) \cup {frame}
         /\ RemoveFirst(kept, frame) \in Seq(BcKinds)
<1> DEFINE longer == Append(heard, frame)
           kept == BcKept(longer)
<1>1. longer \in Seq(BcKinds) OBVIOUS
<1>8. Len(longer) = Len(heard) + 1 /\ Len(heard) \in Nat OBVIOUS
<1>9. longer # <<>> BY <1>1, <1>8
<1>2. \A i \in 1..Len(longer) : longer[i] = IF i <= Len(heard) THEN heard[i] ELSE frame OBVIOUS
<1>3. \A x : x \in Range(longer) => x \in Range(heard) \cup {frame} BY <1>1, <1>2, <1>8 DEF Range
<1>4. Tail(longer) \in Seq(BcKinds) /\ \A i \in 1..Len(Tail(longer)) : i + 1 \in 1..Len(longer) /\ Tail(longer)[i] = longer[i + 1]
  BY <1>1, <1>9
<1>5. Range(Tail(longer)) \subseteq Range(longer) BY <1>1, <1>4, BcFreshJobs DEF Range
<1>6. kept \in Seq(BcKinds) /\ Range(kept) \subseteq Range(heard) \cup {frame} BY <1>1, <1>3, <1>4, <1>5 DEF BcKept
<1>7. RemoveFirst(kept, frame) \in Seq(BcKinds)
  <2> HIDE DEF kept
  <2>1. CASE \E i \in 1..Len(kept) : kept[i] = frame
    <3> DEFINE at == SelectInSeq(kept, LAMBDA v : v = frame)
    <3>1. PICK i \in {j \in 1..Len(kept) : kept[j] = frame} : TRUE BY <2>1
    <3>2. {j \in 1..Len(kept) : kept[j] = frame} \subseteq Nat OBVIOUS
    <3>3. at = Min({j \in 1..Len(kept) : kept[j] = frame}) BY <3>1 DEF SelectInSeq
    <3>4. at \in {j \in 1..Len(kept) : kept[j] = frame} BY <3>1, <3>2, <3>3, SomeSmallest DEF Min
    <3>5. at \in DOMAIN kept BY <1>6, <3>4
    <3>6. RemoveFirst(kept, frame) = RemoveAt(kept, at) BY <2>1 DEF RemoveFirst
    <3> HIDE DEF at
    <3> QED BY <1>6, <3>5, <3>6, BcRemoved
  <2>2. CASE ~\E i \in 1..Len(kept) : kept[i] = frame BY <1>6, <2>2 DEF RemoveFirst
  <2> QED BY <2>1, <2>2
<1> QED BY <1>6, <1>7

(* A chunk is past its check when the printer does not pause; a pause that *)
(* is heard then lets it out, and none after it.                           *)
LEMMA BcStepKept == BcInv /\ [BcNext]_bcVars => BcInv'
<1> SUFFICES ASSUME BcInv, [BcNext]_bcVars PROVE BcInv' OBVIOUS
<1>1. BcState /\ BcFlowInv /\ BcNothingMissed BY DEF BcInv
<1>2. bcJob.at \in {"idle", "checking", "writing", "waiting", "asking", "expecting"} /\ bcJob.chunk \in Nat
  BY <1>1 DEF BcState, BcJobs
<1>3. CASE UNCHANGED bcVars
  BY <1>1, <1>3 DEF bcVars, BcInv, BcState, BcFlowInv, BcNothingMissed
<1>4. CASE BcSend
  BY <1>1, <1>4, BcFreshJobs DEF BcSend, BcCall, BcInv, BcState, BcFlowInv, BcNothingMissed
<1>5. CASE BcFlowSeen
  <2>1. bcJob' \in BcJobs /\ bcJob'.at = "writing"
    BY <1>1, <1>5, BcGoesOn DEF BcFlowSeen, BcState
  <2> QED BY <1>1, <1>5, <2>1 DEF BcFlowSeen, BcInv, BcState, BcFlowInv, BcNothingMissed
<1>6. CASE BcFlowTimeout
  BY <1>1, <1>6, BcFreshJobs DEF BcFlowTimeout, BcSendEnds, BcIdle, BcInv, BcState, BcFlowInv, BcNothingMissed
<1>7. CASE BcWrite
  <2>1. \/ bcJob' = [bcJob EXCEPT !.at = "checking", !.chunk = @ + 1]
        \/ bcJob' = BcIdle
    BY <1>7 DEF BcWrite, BcSendEnds
  <2>2. bcJob' \in BcJobs /\ bcJob'.at \in {"idle", "checking"}
    <3>1. bcJob \in BcJobs /\ bcJob.chunk + 1 \in Nat BY <1>1, <1>2 DEF BcState
    <3>2. CASE bcJob' = [bcJob EXCEPT !.at = "checking", !.chunk = @ + 1]
      <4>1. PICK n \in Nat : bcJob' = [bcJob EXCEPT !.at = "checking", !.chunk = n] BY <3>1, <3>2
      <4> QED BY <3>1, <4>1 DEF BcJobs
    <3>3. CASE bcJob' = BcIdle BY <3>3, BcFreshJobs
    <3> QED BY <2>1, <3>2, <3>3
  <2>3. bcPast = 0 /\ (bcPast' = 0 \/ (bcPast' = 1 /\ ~bcFlow /\ bcControlled)) BY <1>1, <1>7 DEF BcWrite, BcCounted, BcFlowInv
  <2> QED BY <1>1, <1>7, <2>2, <2>3 DEF BcWrite, BcInv, BcState, BcFlowInv, BcNothingMissed
<1>8. ASSUME NEW kind \in BcKinds, BcWait(kind) PROVE BcInv'
  <2> DEFINE known == {i \in DOMAIN bcHeard : bcHeard[i] = kind}
  <2>1. UNCHANGED <<bcControlled, bcListening, bcFlow, bcQueue, bcPast>> BY <1>8 DEF BcWait
  <2>2. CASE known # {}
    <3> DEFINE i == CHOOSE i \in known : \A k \in known : k <= i
    <3>1. bcHeard \in Seq(BcKinds) /\ Len(bcHeard) \in Nat BY <1>1 DEF BcState
    <3>2. known \subseteq 0..Len(bcHeard) BY <3>1
    <3>3. i \in known BY <2>2, <3>1, <3>2, SomeLargest
    <3>4. bcHeard' = RemoveAt(bcHeard, i) /\ UNCHANGED <<bcJob, bcRegistered>> BY <1>8, <2>2 DEF BcWait
    <3>5. bcHeard' \in Seq(BcKinds) BY <3>1, <3>3, <3>4, BcRemoved
    <3>6. bcJob.at = "idle" BY <1>8 DEF BcWait, BcCall
    <3> QED BY <1>1, <2>1, <3>4, <3>5, <3>6 DEF BcInv, BcState, BcFlowInv, BcNothingMissed
  <2>3. CASE known = {} /\ ~bcListening
    BY <1>1, <1>8, <2>3 DEF BcWait, BcInv, BcState, BcFlowInv, BcNothingMissed
  <2>4. CASE known = {} /\ bcListening
    <3>1. bcJob' = [at |-> "waiting", kind |-> kind, chunk |-> 0] /\ bcRegistered' = TRUE /\ bcHeard' = bcHeard
      BY <1>8, <2>4 DEF BcWait
    <3>2. kind \notin Range(bcHeard) BY <2>4 DEF Range
    <3> QED BY <1>1, <2>1, <3>1, <3>2, BcFreshJobs DEF BcInv, BcState, BcFlowInv, BcNothingMissed
  <2> QED BY <2>2, <2>3, <2>4
<1>9. ASSUME NEW kind \in BcKinds, BcAsk(kind) PROVE BcInv'
  BY <1>1, <1>9, BcFreshJobs DEF BcAsk, BcCall, BcInv, BcState, BcFlowInv, BcNothingMissed
<1>10. CASE BcSent
  <2>1. bcJob' \in BcJobs /\ bcJob'.at \in {"idle", "expecting"}
    <3>1. bcJob \in BcJobs BY <1>1 DEF BcState
    <3>2. bcJob' = [bcJob EXCEPT !.at = "expecting"] \/ bcJob' = BcIdle BY <1>10 DEF BcSent
    <3>3. CASE bcJob' = [bcJob EXCEPT !.at = "expecting"] BY <3>1, <3>3, BcGoesOn
    <3>4. CASE bcJob' = BcIdle BY <3>4, BcFreshJobs
    <3> QED BY <3>2, <3>3, <3>4
  <2>2. bcRegistered' \in BOOLEAN BY <1>1, <1>10 DEF BcSent, BcState
  <2> QED BY <1>1, <1>10, <2>1, <2>2 DEF BcSent, BcInv, BcState, BcFlowInv, BcNothingMissed
<1>11. CASE BcWaited
  BY <1>1, <1>11, BcFreshJobs DEF BcWaited, BcIdle, BcInv, BcState, BcFlowInv, BcNothingMissed
<1>12. CASE BcNotify
  <2> DEFINE frame == Head(bcQueue)
             kept == BcKept(Append(bcHeard, frame))
  <2>1. bcQueue' \in Seq(BcKinds \cup {"pause", "resume"}) /\ frame \in BcKinds \cup {"pause", "resume"}
    BY <1>1, <1>12 DEF BcNotify, BcState
  <2>2. UNCHANGED <<bcControlled, bcListening, bcJob, bcLeft>> BY <1>12 DEF BcNotify
  <2>3. CASE frame \in BcKinds
    <3>1. kept \in Seq(BcKinds) /\ Range(kept) \subseteq Range(bcHeard) \cup {frame} /\ RemoveFirst(kept, frame) \in Seq(BcKinds)
      BY <1>1, <2>3, BcKeeps DEF BcState
    <3>2. UNCHANGED <<bcFlow, bcPast>> BY <1>12, <2>3 DEF BcNotify
    <3>3. \/ bcRegistered /\ bcJob.kind = frame /\ bcHeard' = RemoveFirst(kept, frame) /\ bcRegistered' = FALSE
          \/ ~(bcRegistered /\ bcJob.kind = frame) /\ bcHeard' = kept /\ bcRegistered' = bcRegistered
      BY <1>12, <2>3 DEF BcNotify
    <3> HIDE DEF kept, frame
    <3>4. BcNothingMissed' BY <1>1, <2>2, <3>1, <3>3 DEF BcNothingMissed
    <3> QED BY <1>1, <2>1, <2>2, <3>1, <3>2, <3>3, <3>4 DEF BcInv, BcState, BcFlowInv
  <2>4. CASE frame \notin BcKinds
    <3>1. bcFlow' \in BOOLEAN /\ (bcPast' = 0 \/ (bcPast' = bcPast /\ ~bcFlow')) /\ UNCHANGED <<bcHeard, bcRegistered>>
      BY <1>12, <2>4 DEF BcNotify
    <3> QED BY <1>1, <2>1, <2>2, <3>1 DEF BcInv, BcState, BcFlowInv, BcNothingMissed
  <2> QED BY <2>3, <2>4
<1>13. ASSUME NEW frame \in BcKinds \cup {"pause", "resume"}, BcArrives(frame) PROVE BcInv'
  <2>1. bcQueue' \in Seq(BcKinds \cup {"pause", "resume"}) BY <1>1, <1>13 DEF BcArrives, BcState
  <2> QED BY <1>1, <1>13, <2>1 DEF BcArrives, BcInv, BcState, BcFlowInv, BcNothingMissed
<1>14. CASE BcClose
  <2>1. <<>> \in Seq(BcKinds \cup {"pause", "resume"}) /\ <<>> \in Seq(BcKinds) OBVIOUS
  <2> QED BY <1>1, <1>14, <2>1 DEF BcClose, BcInv, BcState, BcFlowInv, BcNothingMissed
<1> QED BY <1>3, <1>4, <1>5, <1>6, <1>7, <1>8, <1>9, <1>10, <1>11, <1>12, <1>13, <1>14 DEF BcNext, BcStep

-----------------------------------------------------------------------------
(* The BLE socket                                                          *)

LEMMA BsStarts == BsInit => BsInv
BY DEF BsInit, BsInv, BsState, BsClientInv, BsCleanupInv

(* A close may begin whenever the socket is in use: nothing is counted as  *)
(* disconnected before it is.                                              *)
LEMMA BsClosesKept ==
  ASSUME BsInv, bsState \in {"setup", "open"} \/ (bsState = "idle" /\ bsClient), BsCloses,
         UNCHANGED <<bsClient, bsFlag>>, bsClosed' = FALSE, bsLink' \in BOOLEAN, bsRuntime' = bsRuntime,
         "connect" \in bsPending' => bsStarted' = {} /\ ~bsRuntime
  PROVE  BsInv'
<1>1. ~bsFlag /\ bsClient BY DEF BsInv, BsClientInv
<1>2. bsState' = "cleanup" /\ bsStage' \in {"runtime", "unsubscribe"} /\ (bsStage' = "runtime" => bsRuntime)
  BY DEF BsCloses
<1>3. bsMayReconnect' \in BOOLEAN /\ bsError' \in BOOLEAN /\ bsFlag \in BOOLEAN BY DEF BsCloses, BsInv, BsState
<1> QED BY <1>1, <1>2, <1>3 DEF BsInv, BsState, BsClientInv, BsCleanupInv

LEMMA BsKept == BsInv /\ [BsNext]_bsVars => BsInv'
<1> SUFFICES ASSUME BsInv, [BsNext]_bsVars PROVE BsInv' OBVIOUS
<1>1. BsState /\ BsClientInv /\ BsCleanupInv BY DEF BsInv
<1>2. CASE UNCHANGED bsVars
  BY <1>1, <1>2 DEF bsVars, bsSession, bsCleanup, bsBudget, BsInv, BsState, BsClientInv, BsCleanupInv
<1>3. CASE BsConnect
  <2>1. bsState = "idle" /\ UNCHANGED <<bsStarted, bsRuntime, bsPending, bsLink>> /\ bsClosed' = FALSE BY <1>3 DEF BsConnect
  <2>2. CASE bsClient
    <3>1. BsCloses /\ UNCHANGED <<bsClient, bsFlag>> BY <1>3, <2>2 DEF BsConnect
    <3>2. bsLink' \in BOOLEAN BY <1>1, <2>1 DEF BsState
    <3>3. "connect" \in bsPending' => bsStarted' = {} /\ ~bsRuntime BY <1>1, <2>1 DEF BsCleanupInv
    <3> QED BY <2>1, <2>2, <3>1, <3>2, <3>3, BsClosesKept
  <2>3. CASE ~bsClient
    <3>1. /\ bsState' = "setup" /\ bsStage' = "connect" /\ bsClient' = TRUE /\ bsFlag' = FALSE
          /\ UNCHANGED <<bsMayReconnect, bsError>>
      BY <1>3, <2>3 DEF BsConnect, bsCleanup
    <3> QED BY <1>1, <2>1, <2>3, <3>1 DEF BsInv, BsState, BsClientInv, BsCleanupInv
  <2> QED BY <2>2, <2>3
<1>4. CASE BsConnectNative
  <2>1. /\ bsState = "setup" /\ bsStage = "connect" /\ bsClient /\ ~bsRuntime /\ bsStarted = {} /\ bsPending = {} /\ ~bsFlag /\ ~bsClosed
        /\ UNCHANGED <<bsClient, bsStarted, bsRuntime, bsFlag, bsClosed>>
    BY <1>1, <1>4 DEF BsConnectNative, bsSession, BsClientInv
  <2>2. CASE bsLink' = TRUE /\ bsStage' = "subscribe" /\ UNCHANGED <<bsState, bsPending, bsCleanup>>
    BY <1>1, <2>1, <2>2 DEF bsCleanup, BsInv, BsState, BsClientInv, BsCleanupInv
  <2>3. CASE BsCloses /\ bsLink' \in {TRUE, bsLink}
    <3>1. bsLink' \in BOOLEAN BY <1>1, <2>3 DEF BsState
    <3>2. bsClosed' = FALSE BY <1>1, <2>1 DEF BsClientInv
    <3> QED BY <2>1, <2>3, <3>1, <3>2, BsClosesKept
  <2> QED BY <1>4, <2>2, <2>3 DEF BsConnectNative
<1>5. CASE BsSubscribe
  <2>1. /\ bsState = "setup" /\ bsStage = "subscribe" /\ bsClient /\ ~bsRuntime /\ bsPending = {} /\ ~bsFlag /\ ~bsClosed
        /\ UNCHANGED <<bsClient, bsFlag, bsLink, bsClosed>>
    BY <1>1, <1>5 DEF BsSubscribe, BsClientInv
  <2>2. CASE UNCHANGED <<bsState, bsStage, bsRuntime, bsPending, bsCleanup>>
    BY <1>1, <2>1, <2>2 DEF bsCleanup, BsInv, BsState, BsClientInv, BsCleanupInv
  <2>3. CASE bsState' = "open" /\ UNCHANGED <<bsStarted, bsPending, bsCleanup>>
    BY <1>1, <2>1, <2>3 DEF bsCleanup, BsInv, BsState, BsClientInv, BsCleanupInv
  <2>4. CASE BsCloses /\ bsRuntime' = bsRuntime /\ (bsPending' = bsPending \/ bsPending' = bsPending \cup {"subscribe"})
    <3>1. bsLink' \in BOOLEAN /\ bsClosed' = FALSE BY <1>1, <2>1 DEF BsState, BsClientInv
    <3>2. "connect" \notin bsPending' BY <2>1, <2>4
    <3> QED BY <2>1, <2>4, <3>1, <3>2, BsClosesKept
  <2> QED BY <1>5, <2>2, <2>3, <2>4 DEF BsSubscribe, BsFails, BsOutlives
<1>6. CASE BsClose
  <2>1. UNCHANGED <<bsClient, bsStarted, bsRuntime, bsPending, bsFlag, bsLink>> /\ bsClosed' = FALSE /\ BsCloses
        /\ (bsState = "open" \/ (bsState = "idle" /\ bsClient))
    BY <1>6 DEF BsClose, bsSession
  <2>2. bsLink' \in BOOLEAN BY <1>1, <2>1 DEF BsState
  <2>3. "connect" \in bsPending' => bsStarted' = {} /\ ~bsRuntime BY <1>1, <2>1 DEF BsCleanupInv
  <2> QED BY <2>1, <2>2, <2>3, BsClosesKept
<1>7. CASE BsStopRuntime
  <2>1. /\ bsState = "cleanup" /\ bsStage = "runtime" /\ bsStage' = "unsubscribe" /\ bsRuntime
        /\ UNCHANGED <<bsState, bsClient, bsStarted, bsFlag, bsMayReconnect, bsError, bsLink, bsClosed>>
    BY <1>1, <1>7 DEF BsStopRuntime, BsCleanupInv
  <2>2. "connect" \notin bsPending'
    <3>1. "connect" \notin bsPending BY <1>1, <2>1 DEF BsCleanupInv
    <3>2. bsPending' = bsPending \/ bsPending' = bsPending \cup {"runtime"} BY <1>7 DEF BsStopRuntime, BsFails, BsOutlives
    <3> QED BY <3>1, <3>2
  <2>3. ~(bsFlag /\ bsLink) BY <1>1, <2>1 DEF BsCleanupInv
  <2> QED BY <1>1, <2>1, <2>2, <2>3 DEF BsInv, BsState, BsClientInv, BsCleanupInv
<1>8. CASE BsUnsubscribe
  <2>1. /\ bsState = "cleanup" /\ bsStage = "unsubscribe" /\ bsStage' \in {"quiesce", "disconnect"}
        /\ bsMayReconnect' = (bsPending' # {})
        /\ UNCHANGED <<bsState, bsClient, bsRuntime, bsFlag, bsError, bsLink, bsClosed>>
    BY <1>8 DEF BsUnsubscribe
  <2>2. "connect" \in bsPending' => "connect" \in bsPending /\ bsStarted' = {}
    BY <1>1, <1>8 DEF BsUnsubscribe, BsFails, BsOutlives, BsCleanupInv
  <2>3. ~(bsFlag /\ bsLink) BY <1>1, <2>1 DEF BsCleanupInv
  <2> QED BY <1>1, <2>1, <2>2, <2>3 DEF BsInv, BsState, BsClientInv, BsCleanupInv
<1>9. ASSUME NEW next, BsPhysical(next), bsState = "cleanup",
             UNCHANGED <<bsState, bsClient, bsRuntime, bsMayReconnect, bsClosed>>,
             \/ bsStage = "disconnect" /\ next = "quiesce"
             \/ bsStage = "again" /\ next = "end"
      PROVE  BsInv'
  <2>1. bsStage' = next BY <1>9 DEF BsPhysical
  <2>2. CASE /\ bsFlag' = TRUE /\ bsLink' = FALSE /\ bsStarted' = {}
             /\ bsPending' = bsPending \ {"disconnect"} /\ UNCHANGED bsError
    BY <1>1, <1>9, <2>1, <2>2 DEF BsInv, BsState, BsClientInv, BsCleanupInv
  <2>3. CASE /\ bsError' = TRUE /\ UNCHANGED <<bsFlag, bsLink, bsStarted>>
             /\ (bsPending' = bsPending \/ bsPending' = bsPending \cup {"disconnect"})
    BY <1>1, <1>9, <2>1, <2>3 DEF BsInv, BsState, BsClientInv, BsCleanupInv
  <2> QED BY <1>9, <2>2, <2>3 DEF BsPhysical, BsFails, BsOutlives
<1>10. CASE BsDisconnect BY <1>9, <1>10 DEF BsDisconnect
<1>11. CASE BsDisconnectAgain BY <1>9, <1>11 DEF BsDisconnectAgain
<1>12. CASE BsQuiesce
  <2>1. /\ bsState = "cleanup" /\ bsStage = "quiesce" /\ bsFlag' = (bsFlag /\ bsPending = {} /\ ~bsMayReconnect)
        /\ bsError' = (bsError \/ bsPending # {})
        /\ bsStage' = IF bsPending = {} /\ bsMayReconnect THEN "again" ELSE "end"
        /\ UNCHANGED <<bsState, bsClient, bsStarted, bsRuntime, bsPending, bsMayReconnect, bsLink, bsClosed>>
    BY <1>12 DEF BsQuiesce, bsSession
  <2>2. ~(bsFlag' /\ bsLink') BY <1>1, <2>1 DEF BsCleanupInv
  <2> QED BY <1>1, <2>1, <2>2 DEF BsInv, BsState, BsClientInv, BsCleanupInv
<1>13. CASE BsCleanupEnds
  <2>1. /\ bsState = "cleanup" /\ bsStage = "end" /\ bsState' = "idle" /\ bsStage' = ""
        /\ bsFlag' = (bsFlag /\ ~bsError)
        /\ bsClient' = ~(bsFlag /\ ~bsError /\ bsPending = {})
        /\ bsRuntime' = (bsRuntime /\ bsClient')
        /\ bsStarted' = (IF bsClient' THEN bsStarted ELSE {})
        /\ bsClosed' = (bsFlag /\ ~bsError /\ ~bsStopError)
        /\ UNCHANGED <<bsPending, bsMayReconnect, bsError, bsLink>>
    BY <1>13 DEF BsCleanupEnds, bsCleanup
  <2>2. bsFlag /\ ~bsError => bsPending = {} /\ ~bsLink BY <1>1, <2>1 DEF BsCleanupInv
  <2> QED BY <1>1, <2>1, <2>2 DEF BsInv, BsState, BsClientInv, BsCleanupInv
<1>14. CASE BsSettles
  <2>1. PICK operation \in bsPending :
          /\ bsState = "cleanup"
          /\ bsStage = "unsubscribe" => bsStarted # {}
          /\ bsPending' = bsPending \ {operation}
          /\ \/ UNCHANGED <<bsLink, bsFlag, bsStarted>>
             \/ /\ operation = "connect" /\ bsLink' = TRUE
                /\ bsFlag' \in {FALSE, bsFlag} /\ UNCHANGED bsStarted
             \/ /\ operation = "disconnect" /\ bsLink' = FALSE
                /\ bsFlag' = TRUE /\ bsStarted' = {}
          /\ UNCHANGED <<bsState, bsStage, bsClient, bsRuntime, bsCleanup, bsClosed, bsBudget>>
    BY <1>14 DEF BsSettles
  <2>2. bsStage # "again" BY <1>1, <2>1 DEF BsCleanupInv
  <2>3. bsStage = "end" => bsError BY <1>1, <2>1 DEF BsCleanupInv
  <2>4. operation = "connect" => bsStarted = {} /\ ~bsRuntime /\ bsStage \notin {"runtime", "unsubscribe"}
    BY <1>1, <2>1 DEF BsCleanupInv
  <2>5. operation = "connect" /\ bsStage \in {"disconnect", "quiesce"} => bsMayReconnect BY <1>1, <2>1 DEF BsCleanupInv
  <2>6. /\ bsFlag' /\ bsLink' => bsStage \in {"disconnect", "quiesce", "end"}
        /\ bsFlag' /\ bsLink' /\ bsStage # "end" => bsMayReconnect
    <3>1. CASE UNCHANGED <<bsLink, bsFlag>> BY <1>1, <2>1, <3>1 DEF BsCleanupInv
    <3>2. CASE operation = "connect"
      <4>1. bsStage \in {"disconnect", "quiesce", "end"} BY <1>1, <2>1, <2>2, <2>4, <3>2 DEF BsState
      <4> QED BY <2>5, <3>2, <4>1
    <3>3. CASE bsLink' = FALSE BY <3>3
    <3> QED BY <2>1, <3>1, <3>2, <3>3
  <2> QED BY <1>1, <2>1, <2>2, <2>3, <2>4, <2>6 DEF bsCleanup, BsInv, BsState, BsClientInv, BsCleanupInv
<1>15. CASE BsLost
  <2>1. bsLink' = FALSE /\ bsLink /\ UNCHANGED <<bsState, bsStage, bsClient, bsStarted, bsRuntime, bsPending, bsFlag, bsMayReconnect, bsError, bsClosed>>
    BY <1>15 DEF BsLost, bsSession, bsCleanup
  <2> QED BY <1>1, <2>1 DEF BsInv, BsState, BsClientInv, BsCleanupInv
<1> QED
  BY <1>2, <1>3, <1>4, <1>5, <1>6, <1>7, <1>8, <1>10, <1>11, <1>12, <1>13, <1>14, <1>15 DEF BsNext, BsStep

-----------------------------------------------------------------------------
(* The link                                                                *)

LEMMA BlStarts == BlInit => BlInv
<1> SUFFICES ASSUME BlInit PROVE BlInv OBVIOUS
<1>1. blJob = "none" /\ blAt = 0 /\ blOpen = {} /\ blReaders = {} /\ blAfter = 0 /\ blClosedWell = FALSE BY DEF BlInit
<1> QED BY <1>1 DEF BlInv, BlOwnerInv, BlWriteInv

(* A job that ends is followed by none, or by the close that waits for it. *)
LEMMA BlJobOver ==
  ASSUME BlJobEnds
  PROVE  blJob' \in {"none", "close"}
BY DEF BlJobEnds

(* Most of the link's steps leave what is open, and who owns it, as it is. *)
LEMMA BlStandsStill ==
  ASSUME BlInv, UNCHANGED <<blSock, blHub, blOpen, blClosedWell>>, blReaders' \subseteq blReaders,
         blAt' \in Nat, blAfter' \in {0, 1},
         blJob' = "connect" /\ blStep' \in {"open", "reader"} => UNCHANGED <<blJob, blStep, blAt>>,
         blJob' = "connect" => ~blClosedWell,
         blJob' = "write" /\ blStep' = "sending" /\ blAsked' => blAfter' = 0
  PROVE  BlInv'
BY DEF BlInv, BlOwnerInv, BlWriteInv

LEMMA BlAskedStarts == BlInit => BlAskedInv
<1> SUFFICES ASSUME BlInit PROVE BlAskedInv OBVIOUS
<1>1. blJob = "none" /\ blConnected = FALSE BY DEF BlInit
<1> QED BY <1>1 DEF BlAskedInv

(* No job of the client meets a connection that is to be closed.           *)
LEMMA BlAskedKept == BlAskedInv /\ [BlNext]_blVars => BlAskedInv'
<1> SUFFICES ASSUME BlAskedInv, [BlNext]_blVars PROVE BlAskedInv' OBVIOUS
<1> USE DEF blFlags, BlAskedInv
<1>1. ASSUME BlJobEnds PROVE blJob' \in {"none", "close"} /\ (blClient # "waiting" => blClient' = blClient)
  BY <1>1 DEF BlJobEnds
<1>2. CASE BlCall BY <1>2 DEF BlCall
<1>3. CASE BlDisconnect BY <1>3 DEF BlDisconnect
<1>4. CASE BlStopReader BY <1>4 DEF BlStopReader
<1>5. CASE BlTakeClose BY <1>5 DEF BlTakeClose
<1>6. CASE BlConnectBegin
  <2>1. blJob = "connect" /\ blConnected' = blConnected BY <1>6 DEF BlConnectBegin
  <2>2. CASE blConnected
    <3>1. BlJobEnds /\ blAsked' = blAsked BY <1>6, <2>2 DEF BlConnectBegin
    <3> QED BY <1>1, <2>1, <3>1
  <2>3. CASE ~blConnected
    <3>1. blAsked' = FALSE BY <1>6, <2>3 DEF BlConnectBegin
    <3> QED BY <3>1
  <2> QED BY <2>2, <2>3
<1>7. CASE BlOpenSocket BY <1>7 DEF BlOpenSocket
<1>8. CASE BlStartReader
  <2>1. blJob = "connect" /\ blStep = "reader" /\ blAsked' = blAsked BY <1>8 DEF BlStartReader
  <2>2. CASE BlJobEnds BY <1>1, <2>1, <2>2
  <2>3. CASE blStep' = "clean" /\ UNCHANGED <<blClient, blJob, blConnected>> BY <2>1, <2>3
  <2> QED BY <1>8, <2>2, <2>3 DEF BlStartReader
<1>9. CASE BlCleanUp \/ BlClose
  <2>1. blConnected' = FALSE BY <1>9 DEF BlCleanUp, BlClose, BlDisconnectBlocking
  <2>2. CASE BlClose BY <2>1, <2>2 DEF BlClose
  <2>3. CASE BlCleanUp
    <3>1. BlJobEnds \/ blStep' = "open" BY <2>3 DEF BlCleanUp
    <3> QED BY <1>1, <2>1, <3>1
  <2> QED BY <1>9, <2>2, <2>3
<1>10. CASE BlConnectFails \/ BlWriteChunk \/ BlRegister \/ BlSendQuery \/ BlWaited
  <2>1. UNCHANGED <<blConnected, blAsked>> /\ blJob \in {"connect", "write", "query", "wait"}
    BY <1>10 DEF BlConnectFails, BlWriteChunk, BlRegister, BlSendQuery, BlWaited
  <2>2. BlJobEnds \/ (blJob' = blJob /\ blJob # "connect")
    BY <1>10 DEF BlConnectFails, BlWriteChunk, BlRegister, BlSendQuery, BlWaited
  <2> QED BY <1>1, <2>1, <2>2
<1>11. CASE BlFeed \/ BlFlow \/ BlReaderFails \/ UNCHANGED blVars
  <2>1. UNCHANGED <<blClient, blJob, blStep, blConnected, blAsked>>
    BY <1>11 DEF BlFeed, BlFlow, BlReaderFails, blVars
  <2> QED BY <2>1
<1> QED
  BY <1>2, <1>3, <1>4, <1>5, <1>6, <1>7, <1>8, <1>9, <1>10, <1>11 DEF BlNext, BlWorkerStep

LEMMA BlKept == BlAskedInv /\ BlInv /\ [BlNext]_blVars => BlInv'
<1> SUFFICES ASSUME BlAskedInv, BlInv, [BlNext]_blVars PROVE BlInv' OBVIOUS
<1> USE DEF blFlags, blNative, blInbox, blHistoryVars, blBudget, blOwned
<1>1. BlOwnerInv /\ BlWriteInv /\ blAt \in Nat /\ blAfter \in {0, 1} BY DEF BlInv, BlOwnerInv, BlWriteInv
<1>2. blJob = "connect" => ~blClosedWell BY <1>1 DEF BlOwnerInv
<1>3. CASE UNCHANGED blVars
  BY <1>1, <1>2, <1>3, BlStandsStill DEF blVars, BlWriteInv
<1>4. CASE BlCall
  BY <1>1, <1>4 DEF BlCall, BlInv, BlOwnerInv, BlWriteInv
<1>5. CASE BlDisconnect
  <2>1. UNCHANGED <<blJob, blStep, blSock, blHub, blAt, blOpen, blReaders>> /\ blClosedWell' = FALSE /\ blAfter' = 0
    BY <1>5 DEF BlDisconnect
  <2> QED BY <1>1, <2>1 DEF BlInv, BlOwnerInv, BlWriteInv
<1>6. CASE BlStopReader
  <2>1. UNCHANGED <<blJob, blStep, blSock, blHub, blAsked, blAt, blOpen, blAfter, blClosedWell>> BY <1>6 DEF BlStopReader
  <2>2. blReaders' \subseteq blReaders BY <1>6 DEF BlStopReader, BlHubStopped
  <2> QED BY <1>1, <1>2, <2>1, <2>2, BlStandsStill DEF BlWriteInv
<1>7. CASE BlTakeClose
  BY <1>1, <1>7, BlStandsStill DEF BlTakeClose
<1>8. CASE BlConnectBegin
  <2>1. UNCHANGED <<blSock, blHub, blOpen, blReaders, blAfter, blClosedWell>> /\ blJob = "connect" BY <1>8 DEF BlConnectBegin
  <2>2. CASE blConnected
    <3>1. BlJobEnds /\ blAt' = blAt BY <1>8, <2>2 DEF BlConnectBegin
    <3> QED BY <1>1, <2>1, <3>1, BlJobOver, BlStandsStill
  <2>3. CASE ~blConnected
    <3>1. blJob' = "connect" /\ blAt' = 0 /\ blStep' = (IF blSock # 0 \/ blHub # 0 THEN "clean" ELSE "open")
      BY <1>8, <2>1, <2>3 DEF BlConnectBegin
    <3> QED BY <1>1, <2>1, <3>1 DEF BlInv, BlOwnerInv, BlWriteInv
  <2> QED BY <2>2, <2>3
<1>9. CASE BlOpenSocket
  <2>1. /\ blJob = "connect" /\ blStep = "open" /\ blAt' = blAt + 1 /\ blSock' = blAt + 1 /\ blOpen' = blOpen \cup {blAt + 1}
        /\ blStep' \in {"reader", "clean"} /\ UNCHANGED <<blJob, blHub, blReaders, blAfter, blClosedWell>>
    BY <1>9 DEF BlOpenSocket
  <2>2. blOpen = {} /\ blHub = 0 BY <1>1, <2>1 DEF BlOwnerInv
  <2>3. blAt' # 0 /\ blAt' \in Nat BY <1>1, <2>1
  <2> QED BY <1>1, <2>1, <2>2, <2>3 DEF BlInv, BlOwnerInv, BlWriteInv
<1>10. CASE BlStartReader
  <2> DEFINE classic == BlAttempts[blAt] = "classic"
  <2>1. /\ blJob = "connect" /\ blStep = "reader" /\ UNCHANGED <<blSock, blAt, blOpen, blAfter, blClosedWell>>
        /\ blHub' = (IF classic THEN blAt ELSE blHub)
        /\ blReaders' = (IF classic THEN blReaders \cup {blAt} ELSE blReaders)
    BY <1>10 DEF BlStartReader
  <2>2. blAt # 0 /\ blHub = 0 /\ blReaders = {} /\ ~blClosedWell BY <1>1, <2>1 DEF BlOwnerInv
  <2>3. blReaders' \subseteq {blHub'} \ {0} BY <2>1, <2>2
  <2>4. blJob' \in {"none", "close"} \/ (blJob' = "connect" /\ blStep' = "clean")
    BY <1>10, <2>1, BlJobOver DEF BlStartReader
  <2> QED BY <1>1, <2>1, <2>2, <2>3, <2>4 DEF BlInv, BlOwnerInv, BlWriteInv
<1>11. ASSUME NEW hubStops \in BOOLEAN, NEW sockCloses \in BOOLEAN, blHub = 0 => hubStops, blSock = 0 => sockCloses,
             BlDisconnectBlocking(hubStops, sockCloses)
      PROVE  /\ blOpen' \subseteq {blSock'} \ {0} /\ blReaders' \subseteq {blHub'} \ {0}
             /\ hubStops /\ sockCloses => blSock' = 0 /\ blHub' = 0 /\ blOpen' = {} /\ blReaders' = {}
  BY <1>1, <1>11 DEF BlDisconnectBlocking, BlOwnerInv
<1>12. CASE BlCleanUp
  <2>1. PICK hubStops, sockCloses \in BOOLEAN :
          /\ blHub = 0 => hubStops
          /\ blSock = 0 => sockCloses
          /\ BlDisconnectBlocking(hubStops, sockCloses)
          /\ IF hubStops /\ sockCloses
             THEN blStep' = "open" /\ UNCHANGED <<blClient, blJob, blQueued, blWaiter>>
             ELSE BlJobEnds
    BY <1>12 DEF BlCleanUp
  <2>2. blJob = "connect" /\ UNCHANGED <<blAt, blAfter, blClosedWell>> BY <1>12 DEF BlCleanUp
  <2>3. /\ blOpen' \subseteq {blSock'} \ {0} /\ blReaders' \subseteq {blHub'} \ {0}
        /\ hubStops /\ sockCloses => blSock' = 0 /\ blHub' = 0
    BY <1>11, <2>1
  <2>4. \/ blJob' \in {"none", "close"}
        \/ blJob' = "connect" /\ blStep' = "open" /\ blSock' = 0 /\ blHub' = 0
    BY <2>1, <2>2, <2>3, BlJobOver
  <2> QED BY <1>1, <2>2, <2>3, <2>4 DEF BlInv, BlOwnerInv, BlWriteInv
<1>13. CASE BlConnectFails
  <2>1. UNCHANGED <<blSock, blHub, blAt, blOpen, blReaders, blAfter, blClosedWell>> /\ BlJobEnds BY <1>13 DEF BlConnectFails
  <2> QED BY <1>1, <2>1, BlJobOver, BlStandsStill
<1>14. CASE BlClose
  <2>1. PICK hubStops, sockCloses \in BOOLEAN :
          /\ blHub = 0 => hubStops
          /\ blSock = 0 => sockCloses
          /\ BlDisconnectBlocking(hubStops, sockCloses)
          /\ blClosedWell' = (hubStops /\ sockCloses)
    BY <1>14 DEF BlClose
  <2>2. blJob' = "none" /\ UNCHANGED <<blAt, blAfter>> BY <1>14 DEF BlClose
  <2>3. /\ blOpen' \subseteq {blSock'} \ {0} /\ blReaders' \subseteq {blHub'} \ {0}
        /\ hubStops /\ sockCloses => blOpen' = {} /\ blReaders' = {}
    BY <1>11, <2>1
  <2> QED BY <1>1, <2>1, <2>2, <2>3 DEF BlInv, BlOwnerInv, BlWriteInv
<1>15. CASE BlWriteChunk
  <2>1. UNCHANGED <<blSock, blHub, blAsked, blOpen, blReaders, blClosedWell>> /\ blJob = "write" BY <1>15 DEF BlWriteChunk
  <2>2. CASE blStep = "begin"
    <3>1. /\ blAfter' = blAfter
          /\ \/ BlJobEnds /\ blAt' = blAt
             \/ blJob' = "write" /\ blStep' = "send" /\ blAt' = 1
             \/ blJob' = "write" /\ blStep' = "sending" /\ blAt' = BlChunks /\ blConnected
      BY <1>15, <2>1, <2>2 DEF BlWriteChunk
    <3>2. blAt' \in Nat BY <1>1, <3>1, BluetoothAssumption DEF BluetoothAssumption
    <3>3. blConnected => ~blAsked BY <2>1 DEF BlAskedInv
    <3> QED BY <1>1, <2>1, <3>1, <3>2, <3>3, BlJobOver, BlStandsStill
  <2>3. CASE blStep = "send"
    <3>1. /\ UNCHANGED <<blAfter, blAt>>
          /\ BlJobEnds \/ (blJob' = "write" /\ blStep' = "sending" /\ ~blAsked)
      BY <1>15, <2>1, <2>3 DEF BlWriteChunk, BlReady
    <3> QED BY <1>1, <2>1, <3>1, BlJobOver, BlStandsStill
  <2>4. CASE blStep = "sending"
    <3>1. /\ blAfter' = (IF blAsked THEN blAfter + 1 ELSE blAfter)
          /\ \/ BlJobEnds /\ blAt' = blAt
             \/ blJob' = "write" /\ blStep' = "send" /\ blAt' = blAt + 1
      BY <1>15, <2>1, <2>4 DEF BlWriteChunk
    <3>2. blAfter' \in {0, 1} BY <1>1, <2>1, <2>4, <3>1 DEF BlWriteInv
    <3>3. blAt' \in Nat BY <1>1, <3>1
    <3> QED BY <1>1, <2>1, <3>1, <3>2, <3>3, BlJobOver, BlStandsStill
  <2> QED BY <1>15, <2>2, <2>3, <2>4 DEF BlWriteChunk
<1>16. CASE BlRegister \/ BlSendQuery \/ BlWaited
  <2>1. UNCHANGED <<blSock, blHub, blAt, blOpen, blReaders, blAfter, blClosedWell>> /\ blJob \in {"query", "wait"}
    BY <1>16 DEF BlRegister, BlSendQuery, BlWaited
  <2>2. BlJobEnds \/ blJob' = blJob BY <1>16 DEF BlRegister, BlSendQuery, BlWaited
  <2> QED BY <1>1, <2>1, <2>2, BlJobOver, BlStandsStill
<1>17. CASE BlFeed \/ BlFlow \/ BlReaderFails
  <2>1. UNCHANGED <<blJob, blStep, blSock, blHub, blAsked, blAt, blOpen, blReaders, blAfter, blClosedWell>>
    BY <1>17 DEF BlFeed, BlFlow, BlReaderFails
  <2> QED BY <1>1, <1>2, <2>1, BlStandsStill DEF BlWriteInv
<1> QED
  BY <1>3, <1>4, <1>5, <1>6, <1>7, <1>8, <1>9, <1>10, <1>12, <1>13, <1>14, <1>15, <1>16, <1>17 DEF BlNext, BlWorkerStep

-----------------------------------------------------------------------------
(* What the reader keeps                                                   *)

LEMMA BlNoWaiter == NoWaiter \in [from : Nat, end : Nat, failed : BOOLEAN] /\ NoWaiter.end = 0
BY DEF NoWaiter

LEMMA BlInboxStarts == BlInit => BlInboxInv
<1> SUFFICES ASSUME BlInit PROVE BlInboxInv OBVIOUS
<1>1. /\ blStep = "" /\ blFrames = <<>> /\ blBase = 0 /\ blPassive = 0 /\ blSentAt = 0 /\ blClaimed = 0
      /\ blWaiter = NoWaiter
  BY DEF BlInit
<1>8. blMissed = FALSE BY DEF BlInit
<1>2. <<>> \in Seq({"answer", "event"}) OBVIOUS
<1>3. BlInboxState BY <1>1, <1>2, BlNoWaiter DEF BlInboxState
<1>5. BlNothingMissed BY <1>8 DEF BlNothingMissed
<1>6. blStep # "wait" BY <1>1
<1>9. blPassive = 0 /\ blClaimed = 0 BY <1>1
<1>10. 0 <= 0 OBVIOUS
<1>7. blClaimed <= blPassive /\ blPassive = blClaimed BY <1>9, <1>10
<1>4. BlWaitInv BY <1>5, <1>6, <1>7 DEF BlWaitInv
<1> QED BY <1>3, <1>4 DEF BlInboxInv

(* A search finds nothing exactly when nothing is there.                   *)
LEMMA BlFirstFound ==
  ASSUME BlInboxInv, NEW kind, NEW from \in Nat
  PROVE  BlFirst(kind, from) \in Nat /\ (BlFirst(kind, from) = 0 <=> BlNoneSince(kind, from))
<1> DEFINE found == {i \in (from + 1)..BlEnd : i > blBase /\ blFrames[i] = kind}
<1>1. BlEnd \in Nat /\ DOMAIN blFrames = 1..BlEnd /\ blBase \in Nat BY DEF BlInboxInv, BlInboxState, BlEnd
<1>2. found = {} <=> BlNoneSince(kind, from) BY <1>1 DEF BlNoneSince
<1>3. \A i \in found : i \in Nat \ {0} BY <1>1
<1>4. BlFirst(kind, from) = IF found = {} THEN 0 ELSE Min(found) BY DEF BlFirst
<1> HIDE DEF found
<1>5. ASSUME found # {} PROVE Min(found) \in Nat \ {0}
  <2>1. found \subseteq Nat BY <1>3
  <2>2. Min(found) \in found BY <1>5, <2>1, SomeSmallest DEF Min
  <2> QED BY <1>3, <2>2
<1> QED BY <1>2, <1>4, <1>5

(* Most steps leave what was heard, and who waits for it, as it is.        *)
LEMMA BlInboxStays ==
  ASSUME BlInboxInv, UNCHANGED <<blFrames, blBase, blPassive, blSentAt, blClaimed, blMissed>>,
         blWaiter' \in [from : Nat, end : Nat, failed : BOOLEAN],
         \/ blStep' # "wait"
         \/ UNCHANGED <<blJob, blStep>> /\ blWaiter'.end = blWaiter.end /\ (blWaiter.failed => blWaiter'.failed)
  PROVE  BlInboxInv'
<1>1. BlInboxState' BY DEF BlInboxInv, BlInboxState
<1>2. BlNothingMissed' /\ blClaimed' <= blPassive' /\ (blPassive' = blClaimed' \/ blPassive' <= blBase')
  BY DEF BlInboxInv, BlWaitInv, BlNothingMissed
<1>3. CASE blStep' # "wait" BY <1>1, <1>2, <1>3 DEF BlInboxInv, BlWaitInv
<1>4. CASE UNCHANGED <<blJob, blStep>> /\ blWaiter'.end = blWaiter.end /\ (blWaiter.failed => blWaiter'.failed)
  BY <1>1, <1>2, <1>4 DEF BlInboxInv, BlWaitInv, BlNoneSince
<1> QED BY <1>3, <1>4

(* Whoever's reader stops fails.                                           *)
LEMMA BlWaiterFails ==
  ASSUME BlInboxInv, NEW hit \in BOOLEAN, blWaiter' = [blWaiter EXCEPT !.failed = @ \/ hit]
  PROVE  /\ blWaiter' \in [from : Nat, end : Nat, failed : BOOLEAN]
         /\ blWaiter'.end = blWaiter.end /\ (blWaiter.failed => blWaiter'.failed)
BY DEF BlInboxInv, BlInboxState

(* A read brings one or two frames.                                        *)
LEMMA BlReadSome ==
  ASSUME NEW got \in BlReads
  PROVE  got \in Seq({"answer", "event"}) /\ Len(got) \in {1, 2} /\ DOMAIN got = 1..Len(got)
<1>1. ASSUME NEW a \in {"answer", "event"}, got = <<a>>
      PROVE  got \in Seq({"answer", "event"}) /\ Len(got) = 1
  BY <1>1
<1>2. ASSUME NEW a \in {"answer", "event"}, NEW b \in {"answer", "event"}, got = <<a, b>>
      PROVE  got \in Seq({"answer", "event"}) /\ Len(got) = 2
  BY <1>2
<1>3. \E a, b \in {"answer", "event"} : got = <<a>> \/ got = <<a, b>>
  BY DEF BlReads
<1>4. got \in Seq({"answer", "event"}) /\ Len(got) \in {1, 2}
  BY <1>1, <1>2, <1>3
<1> QED BY <1>4

LEMMA BlInboxKept == BlInboxInv /\ [BlNext]_blVars => BlInboxInv'
<1> SUFFICES ASSUME BlInboxInv, [BlNext]_blVars PROVE BlInboxInv' OBVIOUS
<1> USE DEF blFlags, blNative, blInbox, blHistoryVars, blBudget, blOwned
<1>1. BlInboxState /\ BlWaitInv /\ blWaiter \in [from : Nat, end : Nat, failed : BOOLEAN] BY DEF BlInboxInv, BlInboxState
<1>2. ASSUME BlJobEnds PROVE blWaiter' = NoWaiter /\ blStep' # "wait"
  BY <1>2 DEF BlJobEnds
<1>3. CASE BlDisconnect \/ BlFlow \/ UNCHANGED blVars
  <2>1. UNCHANGED <<blJob, blStep, blFrames, blBase, blPassive, blSentAt, blClaimed, blMissed, blWaiter>>
    BY <1>3 DEF BlDisconnect, BlFlow, blVars
  <2> QED BY <1>1, <2>1, BlInboxStays
<1>4. CASE BlCall \/ BlTakeClose \/ BlOpenSocket \/ BlClose
  <2>1. UNCHANGED <<blFrames, blBase, blPassive, blSentAt, blClaimed, blMissed, blWaiter>> /\ blStep' # "wait"
    BY <1>4 DEF BlCall, BlTakeClose, BlOpenSocket, BlClose
  <2> QED BY <1>1, <2>1, BlInboxStays
<1>5. CASE BlConnectBegin \/ BlCleanUp \/ BlConnectFails \/ BlWriteChunk
  <2>1. UNCHANGED <<blFrames, blBase, blPassive, blSentAt, blClaimed, blMissed>>
    BY <1>5 DEF BlConnectBegin, BlCleanUp, BlConnectFails, BlWriteChunk
  <2>2. BlJobEnds \/ (blWaiter' = blWaiter /\ blStep' # "wait")
    BY <1>5 DEF BlConnectBegin, BlCleanUp, BlConnectFails, BlWriteChunk
  <2> QED BY <1>1, <1>2, <2>1, <2>2, BlNoWaiter, BlInboxStays
<1>6. CASE BlStopReader
  <2>1. UNCHANGED <<blJob, blStep, blFrames, blBase, blPassive, blSentAt, blClaimed, blMissed>> BY <1>6 DEF BlStopReader
  <2>2. PICK hit \in BOOLEAN : blWaiter' = [blWaiter EXCEPT !.failed = @ \/ hit]
    <3>1. blWaiter' = [blWaiter EXCEPT !.failed = @ \/ (blDown' /\ blWaiter.end = 0)]
      BY <1>6 DEF BlStopReader, BlHubStopped
    <3> DEFINE hit == blDown' /\ blWaiter.end = 0
    <3>2. hit \in BOOLEAN OBVIOUS
    <3> QED BY <3>1, <3>2
  <2> QED BY <2>1, <2>2, BlWaiterFails, BlInboxStays
<1>7. CASE BlReaderFails
  <2>1. UNCHANGED <<blJob, blStep, blFrames, blBase, blPassive, blSentAt, blClaimed, blMissed>> BY <1>7 DEF BlReaderFails
  <2>2. PICK hit \in BOOLEAN : blWaiter' = [blWaiter EXCEPT !.failed = @ \/ hit]
    <3>1. blWaiter' = [blWaiter EXCEPT !.failed = @ \/ blWaiter.end = 0] BY <1>7 DEF BlReaderFails
    <3> DEFINE hit == blWaiter.end = 0
    <3>2. hit \in BOOLEAN OBVIOUS
    <3> QED BY <3>1, <3>2
  <2> QED BY <2>1, <2>2, BlWaiterFails, BlInboxStays
<1>8. CASE BlStartReader
  <2>1. /\ blFrames' = <<>> /\ blBase' = 0 /\ blPassive' = 0 /\ blSentAt' = 0 /\ blClaimed' = 0 /\ blMissed' = blMissed
        /\ BlJobEnds \/ (blWaiter' = blWaiter /\ blStep' # "wait")
    BY <1>8 DEF BlStartReader
  <2>2. <<>> \in Seq({"answer", "event"}) OBVIOUS
  <2>3. BlInboxState' BY <1>1, <1>2, <2>1, <2>2, BlNoWaiter DEF BlInboxState
  <2>4. BlWaitInv' BY <1>1, <1>2, <2>1 DEF BlWaitInv, BlNothingMissed
  <2> QED BY <2>3, <2>4 DEF BlInboxInv
<1>9. CASE BlRegister
  <2> DEFINE from == IF blPassive > blBase THEN blPassive ELSE blBase
             end == IF BlFirst("event", from) # 0 THEN BlEnd ELSE 0
             registered == [NoWaiter EXCEPT !.from = from, !.end = end]
             asking == [NoWaiter EXCEPT !.from = BlEnd]
  <2>1. /\ UNCHANGED <<blFrames, blBase, blPassive, blSentAt, blClaimed, blMissed>>
        /\ \/ BlJobEnds
           \/ blStep' = "send" /\ blWaiter' = asking
           \/ blJob' = blJob /\ blJob = "wait" /\ blStep' = "wait" /\ blWaiter' = registered
    BY <1>9 DEF BlRegister
  <2>2. CASE BlJobEnds BY <1>1, <1>2, <2>1, <2>2, BlNoWaiter, BlInboxStays
  <2>3. CASE blStep' = "send" /\ blWaiter' = asking
    <3>1. BlEnd \in Nat BY <1>1 DEF BlInboxState, BlEnd
    <3>2. asking \in [from : Nat, end : Nat, failed : BOOLEAN] BY <3>1, BlNoWaiter
    <3> QED BY <2>1, <2>3, <3>2, BlInboxStays
  <2>4. CASE blJob' = blJob /\ blJob = "wait" /\ blStep' = "wait" /\ blWaiter' = registered
    <3>1. from \in Nat /\ from >= blBase /\ from >= blPassive /\ (from = blBase \/ from = blPassive)
          /\ blBase \in Nat /\ blPassive \in Nat /\ blClaimed \in Nat
      BY <1>1 DEF BlInboxState
    <3> HIDE DEF from
    <3>2. end \in Nat /\ (end = 0 => BlNoneSince("event", from))
      <4>1. BlFirst("event", from) = 0 => BlNoneSince("event", from) BY <3>1, BlFirstFound
      <4>2. DOMAIN blFrames = 1..BlEnd /\ BlEnd \in Nat BY <1>1 DEF BlInboxState, BlEnd
      <4>3. BlEnd = 0 => BlNoneSince("event", from) BY <4>2 DEF BlNoneSince
      <4> QED BY <4>1, <4>2, <4>3
    <3> HIDE DEF end
    <3>3. registered \in [from : Nat, end : Nat, failed : BOOLEAN] /\ registered.end = end
      BY <3>1, <3>2, BlNoWaiter
    <3> HIDE DEF registered
    <3>4. BlInboxState' BY <1>1, <2>1, <2>4, <3>3 DEF BlInboxState
    <3>5. BlNoneSince("event", from) => BlNoneSince("event", blClaimed)
      <4>1. blPassive = blClaimed \/ blPassive <= blBase BY <1>1 DEF BlWaitInv
      <4>2. \A i \in DOMAIN blFrames : i \in Nat BY <1>1 DEF BlInboxState
      <4>3. \A i \in Nat : i > blClaimed /\ i > blBase => i > from BY <3>1, <4>1
      <4> QED BY <4>2, <4>3 DEF BlNoneSince
    <3>7. BlWaitInv' BY <1>1, <2>1, <2>4, <3>2, <3>3, <3>5 DEF BlWaitInv, BlNoneSince, BlNothingMissed
    <3> QED BY <3>4, <3>7 DEF BlInboxInv
  <2> QED BY <2>1, <2>2, <2>3, <2>4
<1>10. CASE BlSendQuery
  <2>1. /\ UNCHANGED <<blFrames, blBase, blPassive, blClaimed, blMissed>> /\ blJob = "query"
        /\ \/ BlJobEnds /\ blSentAt' = blSentAt
           \/ blStep' = "wait" /\ blSentAt' = BlEnd /\ blJob' = blJob /\ blWaiter' = blWaiter
    BY <1>10 DEF BlSendQuery
  <2>2. CASE BlJobEnds /\ blSentAt' = blSentAt BY <1>1, <1>2, <2>1, <2>2, BlNoWaiter, BlInboxStays
  <2>3. CASE blStep' = "wait" /\ blSentAt' = BlEnd /\ blJob' = blJob /\ blWaiter' = blWaiter
    <3>1. BlEnd \in Nat /\ DOMAIN blFrames = 1..BlEnd BY <1>1 DEF BlInboxState, BlEnd
    <3>2. BlInboxState' BY <1>1, <2>1, <2>3, <3>1 DEF BlInboxState
    <3>3. \A i \in DOMAIN blFrames' : ~(i > blSentAt') BY <2>1, <2>3, <3>1
    <3>4. BlWaitInv' BY <1>1, <2>1, <2>3, <3>3 DEF BlWaitInv, BlNoneSince, BlNothingMissed
    <3> QED BY <3>2, <3>4 DEF BlInboxInv
  <2> QED BY <2>1, <2>2, <2>3
<1>11. CASE BlWaited
  <2> DEFINE kind == IF blJob = "query" THEN "answer" ELSE "event"
             since == IF blJob = "query" THEN blSentAt ELSE blClaimed
             claimed == IF blWaiter.end # 0 THEN blWaiter.end ELSE BlEnd
  <2>1. /\ blJob \in {"query", "wait"} /\ blStep = "wait" /\ BlJobEnds /\ UNCHANGED <<blFrames, blBase, blSentAt>>
        /\ \/ blPassive' = claimed /\ blClaimed' = claimed
           \/ UNCHANGED <<blPassive, blClaimed>>
    BY <1>11 DEF BlWaited
  <2>2. blMissed' = (blMissed \/ (~blWaiter.failed /\ blWaiter.end = 0 /\ BlFirst(kind, since) # 0)) BY <1>11 DEF BlWaited
  <2>3. claimed \in Nat /\ since \in Nat BY <1>1 DEF BlInboxState, BlEnd
  <2>4. ~blWaiter.failed /\ blWaiter.end = 0 => BlNoneSince(kind, since) BY <1>1, <2>1 DEF BlWaitInv
  <2>5. ~blMissed' BY <1>1, <2>2, <2>3, <2>4, BlFirstFound DEF BlWaitInv, BlNothingMissed
  <2> HIDE DEF claimed
  <2>6. BlInboxState' BY <1>1, <1>2, <2>1, <2>3, BlNoWaiter DEF BlInboxState
  <2>7. blClaimed' <= blPassive' /\ (blPassive' = blClaimed' \/ blPassive' <= blBase') BY <1>1, <2>1, <2>3 DEF BlWaitInv
  <2>8. BlWaitInv' BY <1>2, <2>1, <2>5, <2>7 DEF BlWaitInv, BlNothingMissed
  <2> QED BY <2>6, <2>8 DEF BlInboxInv
<1>12. CASE BlFeed
  <2> DEFINE wanted == IF blJob = "query" THEN "answer" ELSE "event"
  <2>1. PICK got \in BlReads :
          LET end == BlEnd + Len(got) IN
          /\ blFrames' = blFrames \o got
          /\ blBase' = IF end - blBase > BlHistory THEN end - BlHistory ELSE blBase
          /\ blPassive' = IF blPassive < blBase' THEN blBase' ELSE blPassive
          /\ blWaiter' = IF blStep # "wait" \/ blWaiter.end # 0 \/ blWaiter.failed THEN blWaiter
                         ELSE IF blWaiter.from < blBase' THEN [blWaiter EXCEPT !.failed = TRUE]
                         ELSE IF \E i \in DOMAIN got : got[i] = wanted THEN [blWaiter EXCEPT !.end = end]
                         ELSE blWaiter
    BY <1>12 DEF BlFeed
  <2> DEFINE end == BlEnd + Len(got)
             heard == \E i \in DOMAIN got : got[i] = wanted
  <2>2. UNCHANGED <<blJob, blStep, blSentAt, blClaimed, blMissed>> BY <1>12 DEF BlFeed
  <2>3. BlEnd \in Nat /\ DOMAIN blFrames = 1..BlEnd /\ blBase \in Nat /\ blPassive \in Nat /\ blClaimed \in Nat
    BY <1>1 DEF BlInboxState, BlEnd
  <2>11. got \in Seq({"answer", "event"}) /\ Len(got) \in {1, 2} /\ DOMAIN got = 1..Len(got)
    BY BlReadSome
  <2>4. blBase' >= blBase /\ blBase' \in Nat /\ blPassive' \in Nat
    <3>1. end \in Nat /\ BlHistory \in Nat BY <2>3, <2>11, BluetoothAssumption DEF BluetoothAssumption
    <3>2. end - blBase > BlHistory => end - BlHistory \in Nat /\ end - BlHistory >= blBase BY <2>3, <3>1
    <3>3. blBase' = IF end - blBase > BlHistory THEN end - BlHistory ELSE blBase BY <2>1
    <3> HIDE DEF end
    <3>4. blBase' >= blBase /\ blBase' \in Nat BY <2>3, <3>2, <3>3
    <3> QED BY <2>1, <2>3, <3>4
  <2>5. blFrames' \in Seq({"answer", "event"}) /\ DOMAIN blFrames' = 1..end
        /\ \A i \in 1..end : blFrames'[i] = IF i \in DOMAIN blFrames THEN blFrames[i] ELSE got[i - BlEnd]
    <3>1. blFrames \in Seq({"answer", "event"}) /\ Len(blFrames) = BlEnd /\ blFrames' = blFrames \o got
      BY <1>1, <2>1 DEF BlInboxState, BlEnd
    <3> QED BY <2>3, <2>11, <3>1
  <2>6. /\ blWaiter' \in [from : Nat, end : Nat, failed : BOOLEAN]
        /\ blStep = "wait" /\ ~blWaiter'.failed /\ blWaiter'.end = 0 => ~blWaiter.failed /\ blWaiter.end = 0 /\ ~heard
    <3>0. end \in Nat /\ end # 0 BY <2>3, <2>11
    <3>1. blWaiter' \in {blWaiter, [blWaiter EXCEPT !.failed = TRUE], [blWaiter EXCEPT !.end = end]} BY <2>1
    <3>4. blWaiter' = IF blStep # "wait" \/ blWaiter.end # 0 \/ blWaiter.failed THEN blWaiter
                      ELSE IF blWaiter.from < blBase' THEN [blWaiter EXCEPT !.failed = TRUE]
                      ELSE IF heard THEN [blWaiter EXCEPT !.end = end] ELSE blWaiter
      BY <2>1
    <3> HIDE DEF end, heard
    <3>2. blWaiter' \in [from : Nat, end : Nat, failed : BOOLEAN]
      <4>1. CASE blWaiter' = blWaiter BY <1>1, <4>1
      <4>2. CASE blWaiter' = [blWaiter EXCEPT !.failed = TRUE] BY <1>1, <4>2
      <4>3. CASE blWaiter' = [blWaiter EXCEPT !.end = end] BY <1>1, <3>0, <4>3
      <4> QED BY <3>1, <4>1, <4>2, <4>3
    <3>3. [blWaiter EXCEPT !.failed = TRUE].failed /\ [blWaiter EXCEPT !.end = end].end = end BY <1>1
    <3> QED BY <3>0, <3>2, <3>3, <3>4
  <2>7. BlInboxState' BY <1>1, <2>2, <2>4, <2>5, <2>6 DEF BlInboxState
  <2>8. blClaimed' <= blPassive' /\ (blPassive' = blClaimed' \/ blPassive' <= blBase')
    BY <1>1, <2>1, <2>2, <2>3, <2>4 DEF BlWaitInv
  <2>9. ASSUME NEW since, BlNoneSince(wanted, since), ~heard
        PROVE  \A i \in DOMAIN blFrames' : i > since /\ i > blBase' => blFrames'[i] # wanted
    <3> SUFFICES ASSUME NEW i \in DOMAIN blFrames', i > since, i > blBase' PROVE blFrames'[i] # wanted OBVIOUS
    <3>1. i \in 1..end /\ i > blBase BY <2>3, <2>4, <2>5
    <3>2. CASE i \in DOMAIN blFrames BY <2>5, <2>9, <3>1, <3>2 DEF BlNoneSince
    <3>3. CASE i \notin DOMAIN blFrames
      <4>1. i - BlEnd \in DOMAIN got BY <2>3, <2>11, <3>1, <3>3
      <4>2. blFrames'[i] = got[i - BlEnd] BY <2>5, <3>1, <3>3
      <4> QED BY <2>9, <4>1, <4>2
    <3> QED BY <3>2, <3>3
  <2>10. BlWaitInv'
    <3>1. BlNothingMissed' BY <1>1, <2>2 DEF BlWaitInv, BlNothingMissed
    <3>2. blStep' = "wait" /\ ~blWaiter'.failed /\ blWaiter'.end = 0 /\ blJob' = "query" =>
            \A i \in DOMAIN blFrames' : i > blSentAt' /\ i > blBase' => blFrames'[i] # "answer"
      BY <1>1, <2>2, <2>6, <2>9 DEF BlWaitInv
    <3>3. blStep' = "wait" /\ ~blWaiter'.failed /\ blWaiter'.end = 0 /\ blJob' = "wait" =>
            \A i \in DOMAIN blFrames' : i > blClaimed' /\ i > blBase' => blFrames'[i] # "event"
      BY <1>1, <2>2, <2>6, <2>9 DEF BlWaitInv
    <3> QED BY <2>8, <3>1, <3>2, <3>3 DEF BlWaitInv, BlNoneSince
  <2> QED BY <2>7, <2>10 DEF BlInboxInv
<1> QED BY <1>3, <1>4, <1>5, <1>6, <1>7, <1>8, <1>9, <1>10, <1>11, <1>12 DEF BlNext, BlWorkerStep

-----------------------------------------------------------------------------
(* The owned socket                                                        *)

LEMMA OsStarts == OsInit => OsInv
<1> SUFFICES ASSUME OsInit PROVE OsInv OBVIOUS
<1>1. osKind \in {"mac", "winrt"} /\ osThread = "none" /\ osQueue = <<>> /\ osWaits = {} /\ osOpen = 0
      /\ osReader = OsNoReader /\ osEnabled = {} /\ osNext = 0 /\ osIn = 0 /\ osOver = {}
  BY DEF OsInit
<1>2. osCall = [c \in OsCallers |-> [op |-> "none", at |-> "idle", n |-> 0]] BY DEF OsInit
<1>3. osCall \in [OsCallers -> OsRecords] /\ \A c \in OsCallers : osCall[c].at = "idle"
  BY <1>2 DEF OsRecords
<1>4. OsNoReader \in [own : Nat, native : Nat, flag : Nat] /\ OsNoReader.own = 0 /\ OsNoReader.native = 0 BY DEF OsNoReader
<1>5. <<>> \in Seq(OsCommands) /\ DOMAIN <<>> = {} OBVIOUS
<1>6. osOpen \in 0..OsAll BY <1>1 DEF OsAll
<1>7. OsState BY <1>1, <1>3, <1>4, <1>5, <1>6 DEF OsState
<1>8. OsReceiverInv BY <1>1, <1>4 DEF OsReceiverInv
<1>9. OsOwnerInv BY <1>1, <1>3, <1>5 DEF OsOwnerInv
<1> QED BY <1>7, <1>8, <1>9 DEF OsInv

(* The record of one caller changes.                                       *)
LEMMA OsCallerChanges ==
  ASSUME osCall \in [OsCallers -> OsRecords], NEW c \in OsCallers, NEW record \in OsRecords,
         osCall' = [osCall EXCEPT ![c] = record]
  PROVE  /\ osCall' \in [OsCallers -> OsRecords] /\ osCall'[c] = record
         /\ \A d \in OsCallers : d # c => osCall'[d] = osCall[d]
OBVIOUS

LEMMA OsRecordChanges ==
  ASSUME NEW record \in OsRecords, NEW at \in {"idle", "waiting", "closed", "joining"}
  PROVE  /\ [record EXCEPT !.at = at] \in OsRecords /\ [record EXCEPT !.at = at].at = at
         /\ [record EXCEPT !.at = at, !.op = "none"] \in OsRecords /\ [record EXCEPT !.at = at, !.op = "none"].at = at
BY DEF OsRecords

LEMMA OsReturned ==
  ASSUME osCall \in [OsCallers -> OsRecords], NEW c \in OsCallers, OsReturns(c)
  PROVE  /\ osCall' \in [OsCallers -> OsRecords] /\ osCall'[c].at = "idle"
         /\ \A d \in OsCallers : d # c => osCall'[d] = osCall[d]
<1> DEFINE record == [osCall[c] EXCEPT !.at = "idle", !.op = "none"]
<1>1. record \in OsRecords /\ record.at = "idle" BY OsRecordChanges
<1>2. osCall' = [osCall EXCEPT ![c] = record] BY DEF OsReturns
<1> QED BY <1>1, <1>2, OsCallerChanges

(* A caller is answered, and has ended the receivers there were if it      *)
(* cleaned up well.                                                        *)
LEMMA OsAnswered ==
  ASSUME OsInv, NEW cmd \in OsCommands, NEW ok \in BOOLEAN, OsAnswer(cmd, ok)
  PROVE  /\ osCall' \in [OsCallers -> OsRecords]
         /\ osOver' \subseteq 1..osNext /\ (cmd.op \notin OsCleanups => osOver' = osOver)
         /\ \A c \in OsCallers : osCall'[c].at \in {"closed", "joining"} =>
              osCall[c].at \in {"closed", "joining"} \/ (ok /\ cmd.op = "close")
<1> DEFINE c == cmd.by
           waits == osCall[c].at = "waiting" /\ osCall[c].n = cmd.n
<1>1. osCall \in [OsCallers -> OsRecords] /\ osNext \in Nat /\ osOver \subseteq 1..osNext
  BY DEF OsInv, OsState, OsReceiverInv
<1>2. c \in OsCallers /\ osCall[c] \in OsRecords BY <1>1 DEF OsCommands
<1>3. osOver' = osOver \/ (osOver' = osOver \cup 1..osNext /\ cmd.op \in OsCleanups) BY DEF OsAnswer
<1>4. CASE ~waits
  <2>1. osCall' = osCall BY <1>4 DEF OsAnswer
  <2> QED BY <1>1, <1>3, <2>1
<1>5. CASE waits /\ ok /\ cmd.op = "close"
  <2> DEFINE record == [osCall[c] EXCEPT !.at = "closed"]
  <2>1. osCall' = [osCall EXCEPT ![c] = record] BY <1>5 DEF OsAnswer
  <2>2. record \in OsRecords BY <1>2, OsRecordChanges
  <2> HIDE DEF record
  <2>3. osCall' \in [OsCallers -> OsRecords] BY <1>1, <1>2, <2>1, <2>2, OsCallerChanges
  <2> QED BY <1>1, <1>3, <1>5, <2>3
<1>6. CASE waits /\ ~(ok /\ cmd.op = "close")
  <2> DEFINE record == [osCall[c] EXCEPT !.at = "idle", !.op = "none"]
  <2>1. osCall' = [osCall EXCEPT ![c] = record] BY <1>6 DEF OsAnswer
  <2>2. record \in OsRecords /\ record.at = "idle" BY <1>2, OsRecordChanges
  <2> HIDE DEF record
  <2>3. /\ osCall' \in [OsCallers -> OsRecords] /\ osCall'[c] = record
        /\ \A d \in OsCallers : d # c => osCall'[d] = osCall[d]
    BY <1>1, <1>2, <2>1, <2>2, OsCallerChanges
  <2> QED BY <1>1, <1>3, <2>2, <2>3
<1> QED BY <1>4, <1>5, <1>6

(* The owner takes a command; no connect is behind it.                     *)
LEMMA OsTaken ==
  ASSUME OsInv, osQueue # <<>>, NEW cmd, OsTakes(cmd)
  PROVE  /\ cmd \in OsCommands /\ osQueue' \in Seq(OsCommands)
         /\ \A i \in DOMAIN osQueue' : osQueue'[i].op # "connect"
         /\ osThread = "alive" /\ osIn = 0 /\ UNCHANGED <<osKind, osThread>>
         /\ osReader.native = 0 => osWaits = {}
         /\ cmd.op = "connect" =>
              /\ osReader.native = 0
              /\ \A c \in OsCallers : osCall[c].at \in {"idle", "waiting"}
<1>1. osQueue \in Seq(OsCommands) BY DEF OsInv, OsState
<1>2. cmd = Head(osQueue) /\ osQueue' = Tail(osQueue) BY DEF OsTakes
<1>3. Len(osQueue) \in Nat /\ Len(osQueue) # 0 /\ 1 \in DOMAIN osQueue /\ cmd = osQueue[1] BY <1>1, <1>2
<1>4. cmd \in OsCommands /\ osQueue' \in Seq(OsCommands) BY <1>1, <1>2
<1>5. \A i \in DOMAIN osQueue' : i + 1 \in DOMAIN osQueue /\ i + 1 # 1 /\ osQueue'[i] = osQueue[i + 1] BY <1>1, <1>2
<1>6. \A i \in DOMAIN osQueue : osQueue[i].op = "connect" =>
        /\ i = 1 /\ osReader.native = 0 /\ osWaits = {}
        /\ \A c \in OsCallers : osCall[c].at \in {"idle", "waiting"}
  BY DEF OsInv, OsOwnerInv
<1>7. \A i \in DOMAIN osQueue' : osQueue'[i].op # "connect" BY <1>5, <1>6
<1> QED BY <1>3, <1>4, <1>6, <1>7 DEF OsTakes, OsFree

(* Which the invariant of its owner asks little of.                        *)
LEMMA OsTakenKept ==
  ASSUME OsInv, osThread' = "alive", \A i \in DOMAIN osQueue' : osQueue'[i].op # "connect",
         \A c \in OsCallers : osCall'[c].at \in {"closed", "joining"} => osOpen' = 0
  PROVE  OsOwnerInv'
BY DEF OsOwnerInv

(* A receiver stays as it was, or loses its event or its task.             *)
LEMMA OsReceiverStays ==
  ASSUME OsInv, UNCHANGED <<osKind, osOpen, osNext, osOver>>,
         osReader' = osReader \/ osReader' = [osReader EXCEPT !.native = 0],
         osEnabled' \subseteq osEnabled, osWaits' \subseteq osWaits, osIn' = osIn \/ osIn' = 0
  PROVE  OsReceiverInv' /\ osReader' \in [own : Nat, native : Nat, flag : Nat] /\ OsAll' = OsAll
<1>1. OsReceiverInv /\ osReader \in [own : Nat, native : Nat, flag : Nat] /\ osNext \in Nat BY DEF OsInv, OsState
<1>2. OsAll' = OsAll BY DEF OsAll
<1>3. /\ osReader' \in [own : Nat, native : Nat, flag : Nat] /\ osReader'.own = osReader.own /\ osReader'.flag = osReader.flag
      /\ osReader'.native = osReader.native \/ osReader'.native = 0
  BY <1>1
<1>4. 0 \notin osOver BY <1>1 DEF OsReceiverInv
<1> QED BY <1>1, <1>2, <1>3, <1>4 DEF OsReceiverInv

(* What a cleanup leaves open, and whom it answers.                        *)
LEMMA OsClosedKept ==
  ASSUME OsInv, NEW cmd \in OsCommands, OsClosed(cmd), UNCHANGED osKind
  PROVE  /\ osOpen' \in 0..OsAll /\ OsAll' = OsAll
         /\ osCall' \in [OsCallers -> OsRecords] /\ osOver' \subseteq 1..osNext
         /\ \A c \in OsCallers : osCall'[c].at \in {"closed", "joining"} => osOpen' = 0
<1>1. /\ osOpen \in 0..OsAll
      /\ \A c \in OsCallers : osCall[c].at \in {"closed", "joining"} => osOpen = 0
  BY DEF OsInv, OsState, OsOwnerInv
<1>2. OsAll \in Nat /\ OsAll' = OsAll BY DEF OsAll
<1>3. CASE osOpen' = 0 /\ OsAnswer(cmd, TRUE)
  <2>1. osCall' \in [OsCallers -> OsRecords] /\ osOver' \subseteq 1..osNext BY <1>3, OsAnswered
  <2> QED BY <1>2, <1>3, <2>1
<1>4. CASE osOpen' \in 1..osOpen /\ OsAnswer(cmd, FALSE)
  <2>1. /\ osCall' \in [OsCallers -> OsRecords] /\ osOver' \subseteq 1..osNext
        /\ \A c \in OsCallers : osCall'[c].at \in {"closed", "joining"} => osCall[c].at \in {"closed", "joining"}
    BY <1>4, OsAnswered
  <2>2. osOpen' \in 0..OsAll /\ osOpen # 0 BY <1>1, <1>2, <1>4
  <2> QED BY <1>1, <1>2, <2>1, <2>2
<1>5. CASE (cmd.op # "close" \/ osDirect) /\ OsAnswer(cmd, cmd.op = "stop") /\ osOpen' = osOpen
  <2>1. PICK ok \in BOOLEAN : ok = (cmd.op = "stop") OBVIOUS
  <2>2. OsAnswer(cmd, ok) BY <1>5, <2>1, Zenon
  <2>3. ~(ok /\ cmd.op = "close") BY <2>1
  <2>4. /\ osCall' \in [OsCallers -> OsRecords] /\ osOver' \subseteq 1..osNext
        /\ \A c \in OsCallers : osCall'[c].at \in {"closed", "joining"} => osCall[c].at \in {"closed", "joining"}
    BY <2>2, <2>3, OsAnswered
  <2> QED BY <1>1, <1>2, <1>5, <2>4
<1> QED BY <1>3, <1>4, <1>5 DEF OsClosed

(* Between two steps of the owner its callers come and go.                 *)
LEMMA OsCallersKept ==
  ASSUME OsInv, UNCHANGED <<osKind, osThread, osQueue, osWaits, osOpen, osReader, osNext, osIn, osOver>>,
         osEnabled' \subseteq osEnabled, osCall' \in [OsCallers -> OsRecords],
         \A c \in OsCallers : \/ osCall'[c].at = osCall[c].at
                              \/ osCall'[c].at \in {"idle", "waiting"}
                              \/ osCall[c].at \in {"closed", "joining"}
  PROVE  OsInv'
<1>1. OsReceiverInv' /\ OsAll' = OsAll BY OsReceiverStays
<1>2. OsState' BY <1>1 DEF OsInv, OsState
<1>3. OsOwnerInv' BY DEF OsInv, OsOwnerInv
<1> QED BY <1>1, <1>2, <1>3 DEF OsInv

(* A caller asks for something other than a connect.                       *)
LEMMA OsAsksKept ==
  ASSUME OsInv, NEW c \in OsCallers, NEW op \in OsUses \cup OsCleanups, OsAsks(c, op),
         UNCHANGED <<osKind, osThread, osWaits, osOpen, osReader, osNext, osIn, osOver>>,
         osEnabled' \subseteq osEnabled
  PROVE  OsInv'
<1> DEFINE record == [op |-> op, at |-> "waiting", n |-> osCall[c].n + 1]
           cmd == [op |-> op, by |-> c, n |-> osCall[c].n + 1]
<1>1. osCall \in [OsCallers -> OsRecords] /\ osQueue \in Seq(OsCommands) BY DEF OsInv, OsState
<1>2. osCall[c].n + 1 \in Nat BY <1>1 DEF OsRecords
<1>3. record \in OsRecords /\ record.at = "waiting" BY <1>2 DEF OsRecords
<1>4. cmd \in OsCommands BY <1>2 DEF OsCommands
<1>5. cmd.op # "connect" BY DEF OsUses, OsCleanups
<1>6. osCall' = [osCall EXCEPT ![c] = record] /\ osQueue' = Append(osQueue, cmd) BY DEF OsAsks
<1> HIDE DEF record, cmd
<1>7. /\ osCall' \in [OsCallers -> OsRecords]
      /\ \A d \in OsCallers : osCall'[d].at = osCall[d].at \/ osCall'[d].at = "waiting"
  BY <1>1, <1>3, <1>6, OsCallerChanges
<1>8. osQueue' \in Seq(OsCommands) BY <1>1, <1>4, <1>6
<1>9. \A i \in DOMAIN osQueue' : osQueue'[i].op = "connect" => i \in DOMAIN osQueue /\ osQueue[i].op = "connect"
  BY <1>1, <1>4, <1>5, <1>6
<1>10. OsReceiverInv' /\ OsAll' = OsAll BY OsReceiverStays
<1>11. OsState' BY <1>7, <1>8, <1>10 DEF OsInv, OsState
<1>12. OsOwnerInv' BY <1>7, <1>9 DEF OsInv, OsOwnerInv
<1> QED BY <1>10, <1>11, <1>12 DEF OsInv

(* No more than the flags that the invariant reads change here.            *)
LEMMA OsQuietSteps ==
  ASSUME OsInv,
         \/ OsStarted \/ OsReceived \/ OsTaskEnds \/ OsDelivers \/ OsDelivered \/ OsEnds \/ OsInputEnds \/ OsFails
         \/ \E c \in OsCallers : OsGivesUp(c) \/ OsCloses(c)
  PROVE  OsInv'
<1>1. OsState /\ OsReceiverInv /\ OsOwnerInv BY DEF OsInv
<1>2. osCall \in [OsCallers -> OsRecords] BY <1>1 DEF OsState
<1>3. CASE \E c \in OsCallers : OsGivesUp(c)
  <2>1. PICK c \in OsCallers : OsGivesUp(c) BY <1>3
  <2>2. OsReturns(c) BY <2>1 DEF OsGivesUp
  <2>3. /\ osCall' \in [OsCallers -> OsRecords]
        /\ \A d \in OsCallers : osCall'[d].at = osCall[d].at \/ osCall'[d].at = "idle"
    BY <1>2, <2>2, OsReturned
  <2> QED BY <2>1, <2>3, OsCallersKept DEF OsGivesUp
<1>4. CASE \E c \in OsCallers : OsCloses(c)
  <2>1. PICK c \in OsCallers : OsCloses(c) BY <1>4
  <2> DEFINE record == [osCall[c] EXCEPT !.at = "joining"]
  <2>2. record \in OsRecords BY <1>2, OsRecordChanges
  <2>3. osCall' = [osCall EXCEPT ![c] = record] /\ osCall[c].at = "closed" BY <2>1 DEF OsCloses
  <2> HIDE DEF record
  <2>4. /\ osCall' \in [OsCallers -> OsRecords]
        /\ \A d \in OsCallers : osCall'[d].at = osCall[d].at \/ osCall[d].at = "closed"
    BY <1>2, <2>2, <2>3, OsCallerChanges
  <2> QED BY <2>1, <2>4, OsCallersKept DEF OsCloses
<1>5. CASE OsReceived
  <2>1. \A c \in OsCallers : [osCall[c] EXCEPT !.at = "idle", !.op = "none"] \in OsRecords
    BY <1>2, OsRecordChanges
  <2>2. /\ osCall' \in [OsCallers -> OsRecords]
        /\ \A d \in OsCallers : osCall'[d].at = osCall[d].at \/ osCall'[d].at = "idle"
    BY <1>2, <1>5, <2>1, OsRecordChanges DEF OsReceived
  <2> QED BY <1>5, <2>2, OsCallersKept DEF OsReceived
<1>6. CASE OsStarted \/ OsTaskEnds \/ OsDelivered \/ OsEnds \/ OsInputEnds \/ OsFails
  <2>1. /\ UNCHANGED <<osKind, osOpen, osNext, osOver, osEnabled, osQueue, osCall>> /\ osWaits' \subseteq osWaits
        /\ osReader' = osReader \/ osReader' = [osReader EXCEPT !.native = 0]
        /\ osIn' = osIn \/ osIn' = 0
    BY <1>6 DEF OsStarted, OsTaskEnds, OsDelivered, OsEnds, OsInputEnds, OsFails
  <2>2. \/ UNCHANGED osThread
        \/ osThread' = "alive"
        \/ osThread' = "dead" /\ osIn' = 0 /\ osWaits' = {}
    <3>1. CASE OsStarted \/ OsTaskEnds \/ OsDelivered \/ OsInputEnds
      BY <3>1 DEF OsStarted, OsTaskEnds, OsDelivered, OsInputEnds
    <3>2. CASE OsEnds BY <3>2 DEF OsEnds, OsFree
    <3>3. CASE OsFails BY <3>3 DEF OsFails, OsFree
    <3> QED BY <1>6, <3>1, <3>2, <3>3
  <2>3. OsReceiverInv' /\ osReader' \in [own : Nat, native : Nat, flag : Nat] /\ OsAll' = OsAll
    BY <2>1, OsReceiverStays
  <2>4. OsState' BY <1>1, <2>1, <2>2, <2>3 DEF OsState
  <2>5. osReader.native = 0 => osReader'.native = 0 BY <1>1, <2>1 DEF OsState
  <2>6. OsOwnerInv' BY <1>1, <2>1, <2>2, <2>5 DEF OsOwnerInv
  <2> QED BY <2>3, <2>4, <2>6 DEF OsInv
<1>7. CASE OsDelivers
  <2>1. osIn' \in osEnabled /\ osThread = "alive"
        /\ UNCHANGED <<osKind, osThread, osQueue, osWaits, osOpen, osReader, osEnabled, osNext, osCall, osOver>>
    BY <1>7 DEF OsDelivers, OsFree
  <2>2. OsState' BY <1>1, <2>1 DEF OsState, OsAll
  <2>3. OsReceiverInv' BY <1>1, <2>1 DEF OsReceiverInv, OsAll
  <2>4. OsOwnerInv' BY <1>1, <2>1 DEF OsOwnerInv
  <2> QED BY <2>2, <2>3, <2>4 DEF OsInv
<1> QED BY <1>3, <1>4, <1>5, <1>6, <1>7

(* A connect finds no owner, and whatever was open is closed.              *)
LEMMA OsConnectKept ==
  ASSUME OsInv, NEW c \in OsCallers, OsConnect(c)
  PROVE  OsInv'
<1>1. OsState /\ OsReceiverInv /\ OsOwnerInv BY DEF OsInv
<1>2. /\ osThread = "none" /\ osThread' \in {"alive", "starting"} /\ \A d \in OsCallers : osCall[d].at = "idle"
      /\ UNCHANGED <<osKind, osWaits, osOpen, osReader, osEnabled, osNext, osIn, osOver>>
  BY DEF OsConnect
<1>3. osOpen = 0 /\ osIn = 0 /\ osWaits = {} /\ osReader.native = 0
  BY <1>1, <1>2 DEF OsOwnerInv, OsReceiverInv, OsAll
<1>4. OsReceiverInv' /\ OsAll' = OsAll BY <1>2, OsReceiverStays
<1>5. osCall \in [OsCallers -> OsRecords] BY <1>1 DEF OsState
<1>6. CASE osQueue' = <<>> /\ UNCHANGED osCall
  <2>1. <<>> \in Seq(OsCommands) /\ DOMAIN <<>> = {} OBVIOUS
  <2>2. OsState' BY <1>1, <1>2, <1>4, <1>6, <2>1 DEF OsState
  <2>3. OsOwnerInv' BY <1>2, <1>3, <1>6, <2>1 DEF OsOwnerInv
  <2> QED BY <1>4, <2>2, <2>3 DEF OsInv
<1>7. CASE /\ osCall' = [osCall EXCEPT ![c] = [op |-> "connect", at |-> "waiting", n |-> osCall[c].n + 1]]
           /\ osQueue' = <<[op |-> "connect", by |-> c, n |-> osCall[c].n + 1]>>
  <2> DEFINE record == [op |-> "connect", at |-> "waiting", n |-> osCall[c].n + 1]
             cmd == [op |-> "connect", by |-> c, n |-> osCall[c].n + 1]
  <2>1. osCall[c].n + 1 \in Nat BY <1>5 DEF OsRecords
  <2>2. record \in OsRecords /\ record.at = "waiting" BY <2>1 DEF OsRecords
  <2>3. cmd \in OsCommands BY <2>1 DEF OsCommands
  <2>4. osCall' = [osCall EXCEPT ![c] = record] /\ osQueue' = <<cmd>> BY <1>7
  <2> HIDE DEF record, cmd
  <2>5. osCall' \in [OsCallers -> OsRecords] /\ osCall'[c].at = "waiting"
        /\ \A d \in OsCallers : d # c => osCall'[d] = osCall[d]
    BY <1>5, <2>2, <2>4, OsCallerChanges
  <2>6. osQueue' \in Seq(OsCommands) /\ \A i \in DOMAIN osQueue' : i = 1 BY <2>3, <2>4
  <2>7. OsState' BY <1>1, <1>2, <1>4, <2>5, <2>6 DEF OsState
  <2>8. \A d \in OsCallers : osCall'[d].at \in {"idle", "waiting"} BY <1>2, <2>5
  <2>9. OsOwnerInv' BY <1>2, <1>3, <2>6, <2>8 DEF OsOwnerInv
  <2> QED BY <1>4, <2>7, <2>9 DEF OsInv
<1> QED BY <1>6, <1>7 DEF OsConnect

(* What the owner does with a start: the new receiver is none that ended.  *)
LEMMA OsInstallsKept ==
  ASSUME OsInv, osQueue # <<>>, OsInstalls
  PROVE  OsInv'
<1>1. OsState /\ OsReceiverInv /\ OsOwnerInv BY DEF OsInv
<1>2. PICK cmd : OsTakes(cmd) /\ cmd.op = "start" /\ OsInstalls BY DEF OsInstalls
<1>3. /\ cmd \in OsCommands /\ osQueue' \in Seq(OsCommands) /\ \A i \in DOMAIN osQueue' : osQueue'[i].op # "connect"
      /\ osThread = "alive" /\ osIn = 0 /\ UNCHANGED <<osKind, osThread>> /\ (osReader.native = 0 => osWaits = {})
  BY <1>2, OsTaken
<1>4. cmd = Head(osQueue) BY <1>2 DEF OsTakes
<1>5. UNCHANGED <<osWaits, osOpen, osIn, osDirect>> BY DEF OsInstalls
<1>6. PICK ok \in BOOLEAN : OsAnswer(cmd, ok) BY <1>4 DEF OsInstalls
<1>7. /\ osCall' \in [OsCallers -> OsRecords] /\ osOver' = osOver
      /\ \A c \in OsCallers : osCall'[c].at \in {"closed", "joining"} => osCall[c].at \in {"closed", "joining"}
  BY <1>2, <1>3, <1>6, OsAnswered DEF OsCleanups
<1>8. OsOwnerInv' BY <1>1, <1>3, <1>5, <1>7, OsTakenKept DEF OsOwnerInv
<1>9. CASE UNCHANGED <<osReader, osEnabled, osNext>>
  <2>1. OsReceiverInv' /\ OsAll' = OsAll BY <1>3, <1>5, <1>7, <1>9, OsReceiverStays
  <2>2. OsState' BY <1>1, <1>3, <1>5, <1>7, <1>9, <2>1 DEF OsState
  <2> QED BY <1>8, <2>1, <2>2 DEF OsInv
<1>10. CASE osOpen >= OsAll /\ osReader.own = 0 /\ osNext' = osNext + 1 /\ osEnabled' = osEnabled \cup {osNext + 1}
            /\ \/ osReader' = [own |-> osNext + 1, native |-> osNext + 1, flag |-> osNext + 1]
               \/ osReader' = [own |-> osNext + 1, native |-> 0, flag |-> osNext + 1]
  <2>1. osOpen \in 0..OsAll /\ osNext \in Nat /\ OsAll \in Nat /\ OsAll' = OsAll BY <1>1, <1>3 DEF OsState, OsAll
  <2>2. osOpen = OsAll /\ osEnabled = {} /\ osWaits = {} /\ osOver \subseteq 1..osNext
    BY <1>1, <1>3, <1>10, <2>1 DEF OsReceiverInv
  <2>3. /\ osReader' \in [own : Nat, native : Nat, flag : Nat] /\ osReader'.own = osNext + 1
        /\ osReader'.native \in {0, osNext + 1} /\ osReader'.flag = osNext + 1
    BY <1>10, <2>1
  <2>4. osEnabled' = {osNext + 1} BY <1>10, <2>2
  <2>5. OsState' BY <1>1, <1>3, <1>5, <1>7, <1>10, <2>1, <2>3 DEF OsState
  <2>6. osNext + 1 \notin osOver /\ osOver \subseteq 1..(osNext + 1) /\ 0 \notin osOver /\ osNext + 1 \in 1..(osNext + 1)
    BY <2>1, <2>2
  <2>7. OsReceiverInv' BY <1>3, <1>5, <1>7, <1>10, <2>1, <2>2, <2>3, <2>4, <2>6 DEF OsReceiverInv
  <2> QED BY <1>8, <2>5, <2>7 DEF OsInv
<1>11. \/ UNCHANGED <<osReader, osEnabled, osNext>>
       \/ /\ ~(osOpen < OsAll) /\ osReader.own = 0 /\ osNext' = osNext + 1 /\ osEnabled' = osEnabled \cup {osNext + 1}
          /\ \/ osReader' = [own |-> osNext + 1, native |-> osNext + 1, flag |-> osNext + 1]
             \/ osReader' = [own |-> osNext + 1, native |-> 0, flag |-> osNext + 1]
  BY DEF OsInstalls
<1>12. ~(osOpen < OsAll) => osOpen >= OsAll BY <1>1 DEF OsState, OsAll
<1> QED BY <1>9, <1>10, <1>11, <1>12

(* What the owner does with a connect, a send or a recv, or refuses.       *)
LEMMA OsUsesKept ==
  ASSUME OsInv, osQueue # <<>>, OsRefuses \/ OsConnects \/ OsSends \/ OsReceives
  PROVE  OsInv'
<1>1. OsState /\ OsReceiverInv /\ OsOwnerInv BY DEF OsInv
<1>2. PICK cmd : cmd = Head(osQueue) /\ OsTakes(cmd) /\ cmd.op \notin OsCleanups
  BY DEF OsRefuses, OsConnects, OsSends, OsReceives, OsCleanups
<1>3. /\ cmd \in OsCommands /\ osQueue' \in Seq(OsCommands) /\ \A i \in DOMAIN osQueue' : osQueue'[i].op # "connect"
      /\ osThread = "alive" /\ osIn = 0 /\ UNCHANGED <<osKind, osThread>>
      /\ cmd.op = "connect" => /\ osReader.native = 0
                               /\ \A c \in OsCallers : osCall[c].at \in {"idle", "waiting"}
  BY <1>2, OsTaken
<1>4. UNCHANGED <<osWaits, osReader, osEnabled, osNext, osIn>> BY DEF OsRefuses, OsConnects, OsSends, OsReceives
<1>5. (\E ok \in BOOLEAN : OsAnswer(cmd, ok)) \/ UNCHANGED <<osCall, osOver>>
  <2>1. CASE OsRefuses BY <1>2, <2>1 DEF OsRefuses
  <2>2. CASE OsConnects BY <1>2, <2>2 DEF OsConnects
  <2>3. CASE OsReceives BY <1>2, <2>3 DEF OsReceives
  <2>4. CASE OsSends
    <3> DEFINE ok == osOpen >= 2
    <3>1. OsAnswer(cmd, ok) BY <1>2, <2>4 DEF OsSends
    <3>2. ok \in BOOLEAN OBVIOUS
    <3> HIDE DEF ok
    <3> QED BY <3>1, <3>2, Zenon
  <2> QED BY <2>1, <2>2, <2>3, <2>4
<1>6. /\ osCall' \in [OsCallers -> OsRecords] /\ osOver' = osOver
      /\ \A c \in OsCallers : osCall'[c].at \in {"closed", "joining"} => osCall[c].at \in {"closed", "joining"}
  <2>1. CASE UNCHANGED <<osCall, osOver>> BY <1>1, <2>1 DEF OsState
  <2>2. CASE \E ok \in BOOLEAN : OsAnswer(cmd, ok)
    <3>1. PICK ok \in BOOLEAN : OsAnswer(cmd, ok) BY <2>2
    <3>2. cmd.op # "close" BY <1>2 DEF OsCleanups
    <3> QED BY <1>2, <1>3, <3>1, <3>2, OsAnswered
  <2> QED BY <1>5, <2>1, <2>2
<1>7. CASE UNCHANGED osOpen
  <2>1. OsOwnerInv' BY <1>1, <1>3, <1>4, <1>6, <1>7, OsTakenKept DEF OsOwnerInv
  <2>2. OsReceiverInv' /\ OsAll' = OsAll BY <1>3, <1>4, <1>6, <1>7, OsReceiverStays
  <2>3. OsState' BY <1>1, <1>3, <1>4, <1>6, <1>7, <2>2 DEF OsState
  <2> QED BY <2>1, <2>2, <2>3 DEF OsInv
<1>8. CASE OsConnects
  <2>1. cmd.op = "connect" BY <1>2, <1>8 DEF OsConnects
  <2>2. OsAll \in Nat /\ OsAll' = OsAll /\ OsAll >= 2 BY <1>3 DEF OsAll
  <2>3. osOpen' \in 0..OsAll
    <3>1. osOpen' = OsAll \/ osOpen' \in 0..(OsAll - 1) BY <1>8 DEF OsConnects
    <3> QED BY <2>2, <3>1
  <2>4. \A c \in OsCallers : osCall'[c].at \notin {"closed", "joining"} BY <1>3, <1>6, <2>1
  <2>5. OsOwnerInv' BY <1>3, <2>4, OsTakenKept
  <2>6. OsState' BY <1>1, <1>3, <1>4, <1>6, <2>2, <2>3 DEF OsState
  <2>7. OsReceiverInv' BY <1>1, <1>3, <1>4, <1>6, <2>1, <2>2 DEF OsReceiverInv
  <2> QED BY <2>5, <2>6, <2>7 DEF OsInv
<1>9. OsConnects \/ UNCHANGED osOpen BY DEF OsRefuses, OsConnects, OsSends, OsReceives
<1> QED BY <1>7, <1>8, <1>9

(* A cleanup that goes on ends the last receiver, or fails and leaves it.  *)
LEMMA OsCleanedKept ==
  ASSUME OsInv, NEW cmd \in OsCommands, UNCHANGED <<osKind, osThread, osNext, osIn>>,
         osThread = "alive", osIn = 0,
         osQueue' \in Seq(OsCommands), \A i \in DOMAIN osQueue' : osQueue'[i].op # "connect",
         osEnabled' = {}, osWaits' \subseteq OsCommands,
         \/ /\ osReader' = OsNoReader \/ (osReader' = osReader /\ osReader.native = 0)
            /\ OsClosed(cmd)
         \/ OsAnswer(cmd, FALSE) /\ UNCHANGED <<osReader, osOpen>>
  PROVE  OsInv'
<1>1. OsState /\ OsReceiverInv /\ OsOwnerInv BY DEF OsInv
<1>2. OsNoReader \in [own : Nat, native : Nat, flag : Nat] /\ OsNoReader.native = 0 BY DEF OsNoReader
<1>3. OsAll' = OsAll BY DEF OsAll
<1>4. /\ osOpen' \in 0..OsAll
      /\ osCall' \in [OsCallers -> OsRecords] /\ osOver' \subseteq 1..osNext
      /\ \A c \in OsCallers : osCall'[c].at \in {"closed", "joining"} => osOpen' = 0
  <2>1. CASE OsClosed(cmd) BY <2>1, OsClosedKept
  <2>2. CASE OsAnswer(cmd, FALSE) /\ UNCHANGED osOpen
    <3>1. /\ osCall' \in [OsCallers -> OsRecords] /\ osOver' \subseteq 1..osNext
          /\ \A c \in OsCallers : osCall'[c].at \in {"closed", "joining"} => osCall[c].at \in {"closed", "joining"}
      BY <2>2, OsAnswered
    <3> QED BY <1>1, <2>2, <3>1 DEF OsState, OsOwnerInv
  <2> QED BY <2>1, <2>2
<1>5. /\ osReader' \in [own : Nat, native : Nat, flag : Nat] /\ osReader'.native \in {0, osReader'.own}
      /\ osReader'.native # 0 => osOpen' = OsAll
  BY <1>1, <1>2 DEF OsState, OsReceiverInv
<1>6. 0 \notin osOver' BY <1>1, <1>4 DEF OsState
<1>7. OsState' BY <1>1, <1>3, <1>4, <1>5 DEF OsState
<1>8. OsReceiverInv' BY <1>3, <1>4, <1>5, <1>6 DEF OsReceiverInv
<1>9. OsOwnerInv' BY <1>4, OsTakenKept
<1> QED BY <1>7, <1>8, <1>9 DEF OsInv

LEMMA OsCleanupsKept ==
  ASSUME OsInv, \/ osQueue # <<>> /\ (OsCleansMac \/ OsCleansWinRt)
                \/ \E cmd \in osWaits : OsWaited(cmd)
  PROVE  OsInv'
<1>1. OsState /\ OsReceiverInv /\ OsOwnerInv BY DEF OsInv
<1>2. osEnabled \ {osReader.flag} = {} BY <1>1 DEF OsReceiverInv
<1>3. CASE osQueue # <<>> /\ OsCleansMac
  <2>1. PICK cmd : /\ OsTakes(cmd) /\ osEnabled' = osEnabled \ {osReader.flag}
                   /\ \/ osReader' = OsNoReader /\ OsClosed(cmd)
                      \/ OsAnswer(cmd, FALSE) /\ UNCHANGED <<osReader, osOpen>>
                   /\ UNCHANGED <<osWaits, osNext, osIn, osDirect>>
    BY <1>3 DEF OsCleansMac
  <2>2. /\ cmd \in OsCommands /\ osQueue' \in Seq(OsCommands) /\ \A i \in DOMAIN osQueue' : osQueue'[i].op # "connect"
        /\ osThread = "alive" /\ osIn = 0 /\ UNCHANGED <<osKind, osThread>>
    BY <1>3, <2>1, OsTaken
  <2>3. osEnabled' = {} /\ osWaits' \subseteq OsCommands BY <1>1, <1>2, <2>1 DEF OsState
  <2> QED BY <2>1, <2>2, <2>3, OsCleanedKept
<1>4. CASE osQueue # <<>> /\ OsCleansWinRt
  <2>1. PICK cmd : /\ OsTakes(cmd) /\ osEnabled' = osEnabled \ {osReader.flag}
                   /\ IF osReader.own = 0
                      THEN OsClosed(cmd) /\ UNCHANGED osWaits
                      ELSE osWaits' = osWaits \cup {cmd} /\ UNCHANGED <<osOpen, osCall, osOver, osLeft>>
                   /\ UNCHANGED <<osReader, osNext, osIn, osDirect>>
    BY <1>4 DEF OsCleansWinRt
  <2>2. /\ cmd \in OsCommands /\ osQueue' \in Seq(OsCommands) /\ \A i \in DOMAIN osQueue' : osQueue'[i].op # "connect"
        /\ osThread = "alive" /\ osIn = 0 /\ UNCHANGED <<osKind, osThread>>
    BY <1>4, <2>1, OsTaken
  <2>3. osEnabled' = {} BY <1>2, <2>1
  <2>4. CASE osReader.own = 0
    <3>1. osReader.native = 0 BY <1>1, <2>4 DEF OsReceiverInv
    <3>2. osWaits' \subseteq OsCommands BY <1>1, <2>1, <2>4 DEF OsState
    <3> QED BY <2>1, <2>2, <2>3, <2>4, <3>1, <3>2, OsCleanedKept
  <2>5. CASE osReader.own # 0
    <3>1. osWaits' = osWaits \cup {cmd} /\ UNCHANGED <<osOpen, osCall, osOver>> BY <2>1, <2>5
    <3>2. OsAll' = OsAll BY <2>2 DEF OsAll
    <3>3. OsState' BY <1>1, <2>1, <2>2, <3>1, <3>2 DEF OsState
    <3>4. OsReceiverInv' BY <1>1, <2>1, <2>3, <3>1, <3>2 DEF OsReceiverInv
    <3>5. OsOwnerInv' BY <1>1, <2>2, <3>1, OsTakenKept DEF OsOwnerInv
    <3> QED BY <3>3, <3>4, <3>5 DEF OsInv
  <2> QED BY <2>4, <2>5
<1>5. CASE \E cmd \in osWaits : OsWaited(cmd)
  <2>1. PICK cmd \in osWaits : OsWaited(cmd) BY <1>5
  <2>2. /\ osThread = "alive" /\ osIn = 0 /\ osWaits' = osWaits \ {cmd}
        /\ \/ osReader' = OsNoReader /\ OsClosed(cmd)
           \/ OsAnswer(cmd, FALSE) /\ UNCHANGED <<osReader, osOpen>>
        /\ UNCHANGED <<osKind, osThread, osQueue, osEnabled, osNext, osIn>>
    BY <2>1 DEF OsWaited, OsFree
  <2>3. cmd \in OsCommands /\ osWaits' \subseteq OsCommands /\ osQueue' \in Seq(OsCommands)
    BY <1>1, <2>1, <2>2 DEF OsState
  <2>4. osEnabled' = {} BY <1>1, <2>1, <2>2 DEF OsReceiverInv
  <2>5. \A i \in DOMAIN osQueue' : osQueue'[i].op # "connect" BY <1>1, <2>1, <2>2 DEF OsOwnerInv
  <2> QED BY <2>2, <2>3, <2>4, <2>5, OsCleanedKept
<1> QED BY <1>3, <1>4, <1>5

(* The thread is forgotten once what it opened is closed.                  *)
LEMMA OsForgetsKept ==
  ASSUME OsInv, NEW c \in OsCallers, OsCloseDead(c) \/ OsJoined(c)
  PROVE  OsInv'
<1>1. OsState /\ OsReceiverInv /\ OsOwnerInv BY DEF OsInv
<1>2. osEnabled' \subseteq osEnabled /\ UNCHANGED <<osKind, osQueue, osWaits, osOpen, osReader, osNext, osIn, osOver>>
  BY DEF OsCloseDead, OsJoined
<1>3. OsReceiverInv' /\ OsAll' = OsAll BY <1>2, OsReceiverStays
<1>4. /\ osCall' \in [OsCallers -> OsRecords]
      /\ \A d \in OsCallers : osCall'[d].at = osCall[d].at \/ osCall'[d].at = "idle"
  <2>1. CASE OsCloseDead(c) BY <1>1, <2>1 DEF OsCloseDead, OsState
  <2>2. CASE OsJoined(c)
    <3>1. OsReturns(c) /\ osCall \in [OsCallers -> OsRecords] BY <1>1, <2>2 DEF OsJoined, OsState
    <3> QED BY <3>1, OsReturned
  <2> QED BY <2>1, <2>2
<1>5. UNCHANGED osThread \/ (osThread # "alive" /\ osThread' = "none" /\ osOpen = 0)
  <2>1. CASE OsCloseDead(c) BY <2>1 DEF OsCloseDead
  <2>2. CASE OsJoined(c) BY <1>1, <2>2 DEF OsJoined, OsOwnerInv
  <2> QED BY <2>1, <2>2
<1>6. OsState' BY <1>1, <1>2, <1>3, <1>4, <1>5 DEF OsState
<1>7. OsOwnerInv' BY <1>1, <1>2, <1>4, <1>5 DEF OsOwnerInv
<1> QED BY <1>3, <1>6, <1>7 DEF OsInv

(* The invariant of the owned sockets is kept by every step.               *)
LEMMA OsKept == OsInv /\ [OsNext]_osVars => OsInv'
<1> SUFFICES ASSUME OsInv, [OsNext]_osVars PROVE OsInv' OBVIOUS
<1>1. CASE OsOwnerStep
  <2>1. \/ osQueue # <<>> /\ (OsRefuses \/ OsConnects \/ OsSends \/ OsReceives)
        \/ osQueue # <<>> /\ OsInstalls
        \/ osQueue # <<>> /\ (OsCleansMac \/ OsCleansWinRt)
        \/ \E cmd \in osWaits : OsWaited(cmd)
        \/ OsStarted \/ OsReceived \/ OsTaskEnds \/ OsDelivered \/ OsEnds
    BY <1>1 DEF OsOwnerStep
  <2> QED BY <2>1, OsUsesKept, OsInstallsKept, OsCleanupsKept, OsQuietSteps
<1>2. CASE OsCallerStep BY <1>2, OsQuietSteps, OsForgetsKept DEF OsCallerStep
<1>3. CASE OsDelivers \/ OsInputEnds \/ OsFails BY <1>3, OsQuietSteps
<1>4. CASE OsConnect("user") BY <1>4, OsConnectKept DEF OsCallers
<1>5. CASE OsCloseDead("closer") BY <1>5, OsForgetsKept DEF OsCallers
<1>6. ASSUME NEW c \in OsCallers, NEW op \in OsUses, OsUse(c, op) PROVE OsInv'
  <2>1. OsAsks(c, op) /\ osEnabled' \subseteq osEnabled
        /\ UNCHANGED <<osKind, osThread, osWaits, osOpen, osReader, osNext, osIn, osOver>>
    BY <1>6 DEF OsUse
  <2> QED BY <1>6, <2>1, OsAsksKept
<1>7. ASSUME NEW c \in OsCallers, NEW op \in OsCleanups, OsCleanup(c, op) PROVE OsInv'
  <2>1. OsAsks(c, op) /\ osEnabled' \subseteq osEnabled
        /\ UNCHANGED <<osKind, osThread, osWaits, osOpen, osReader, osNext, osIn, osOver>>
    BY <1>7 DEF OsCleanup
  <2> QED BY <1>7, <2>1, OsAsksKept
<1>8. CASE \/ \E op \in OsUses : OsUse("user", op)
           \/ OsCleanup("user", "stop") \/ OsCleanup("closer", "close")
  BY <1>6, <1>7, <1>8 DEF OsCallers, OsCleanups
<1>9. CASE UNCHANGED osVars
  <2>1. UNCHANGED <<osKind, osThread, osQueue, osWaits, osOpen, osReader, osNext, osIn, osOver, osEnabled, osCall>>
    BY <1>9 DEF osVars
  <2>2. osCall' \in [OsCallers -> OsRecords] BY <2>1 DEF OsInv, OsState
  <2> QED BY <2>1, <2>2, OsCallersKept
<1> QED BY <1>1, <1>2, <1>3, <1>4, <1>5, <1>8, <1>9 DEF OsNext, OsStep

-----------------------------------------------------------------------------
(* What the runs check, for every instance                                 *)

(* A behaviour of the devices is one of each link, socket and channel.     *)
LEMMA TransportBehaviours ==
  DeviceSpec => /\ BlInit /\ [][BlNext]_blVars
                /\ BsInit /\ [][BsNext]_bsVars
                /\ OsInit /\ [][OsNext]_osVars
                /\ BcInit /\ [][BcNext]_bcVars
<1>1. DeviceInit => BlInit /\ BsInit /\ OsInit /\ BcInit BY DEF DeviceInit
<1>2. [DeviceMeets]_deviceVars => [BlNext]_blVars /\ [BsNext]_bsVars /\ [OsNext]_osVars /\ [BcNext]_bcVars
  BY DEF DeviceMeets, deviceVars
<1> QED BY <1>1, <1>2, PTL DEF DeviceSpec

LEMMA BlHolds == DeviceSpec => []BlInv
BY TransportBehaviours, BlStarts, BlKept, BlAskedStarts, BlAskedKept, PTL

LEMMA BlInboxHolds == DeviceSpec => []BlInboxInv
BY TransportBehaviours, BlInboxStarts, BlInboxKept, PTL

LEMMA BsHolds == DeviceSpec => []BsInv
BY TransportBehaviours, BsStarts, BsKept, PTL

LEMMA OsHolds == DeviceSpec => []OsInv
BY TransportBehaviours, OsStarts, OsKept, PTL

LEMMA BcHolds == DeviceSpec => []BcInv
BY TransportBehaviours, BcStarts, BcStepKept, PTL

(* A connection that is open has an owner that can close it, and a close   *)
(* that returns well leaves none, whatever fails to open or to close       *)
(* (transport/bluetooth/backend.py, adapters/bleak_adapter.py,             *)
(* macos_iobluetooth.py, windows_winrt.py).                                *)
THEOREM OwnersKnowTheirConnections == DeviceSpec => []ConnectionsAreOwned
<1>1. BlInv => BlOwnsWhatIsOpen BY DEF BlInv, BlOwnerInv, BlOwnsWhatIsOpen
<1>2. BsInv => BsClosedIsDisconnected BY DEF BsInv, BsClientInv, BsClosedIsDisconnected
<1>3. OsInv => OsForgetsOnlyClosed
  <2> SUFFICES ASSUME OsInv PROVE OsForgetsOnlyClosed OBVIOUS
  <2>1. OsState /\ OsReceiverInv /\ OsOwnerInv BY DEF OsInv
  <2>2. OsAll # 0 BY DEF OsAll
  <2>3. osThread = "none" => osOpen = 0 /\ osReader.native = 0 /\ osIn = 0
    BY <2>1, <2>2 DEF OsReceiverInv, OsOwnerInv
  <2> QED BY <2>1, <2>3 DEF OsReceiverInv, OsForgetsOnlyClosed
<1>4. BlInv /\ BsInv /\ OsInv => ConnectionsAreOwned BY <1>1, <1>2, <1>3 DEF ConnectionsAreOwned
<1> QED BY <1>4, BlHolds, BsHolds, OsHolds, PTL

(* After a disconnect is asked for at most the send under way goes on: a   *)
(* chunk on Classic, the payload that a BLE socket had been given; after a *)
(* pause of the printer at most the BLE chunk under way; and a receiver    *)
(* that a stop or a close has ended is not called again                    *)
(* (transport/bluetooth/backend.py, adapters/bleak_adapter_transport.py,   *)
(* macos_iobluetooth.py, windows_winrt.py).                                *)
THEOREM WritersAndReceiversStop == DeviceSpec => []StopsHold
<1>1. BlInv => BlDisconnectStopsWrite BY DEF BlInv, BlWriteInv, BlDisconnectStopsWrite
<1>2. BcInv => BcPauseHolds BY DEF BcInv, BcFlowInv, BcPauseHolds
<1>3. OsInv => OsStopIsFinal BY DEF OsInv, OsReceiverInv, OsStopIsFinal
<1>4. BlInv /\ BcInv /\ OsInv => StopsHold BY <1>1, <1>2, <1>3 DEF StopsHold
<1> QED BY <1>4, BlHolds, BcHolds, OsHolds, PTL

(* A wait overlooks nothing: a Classic query or wait that ends with        *)
(* nothing was not passed by the frame it was for, an event being looked   *)
(* for behind all that the wait before was given                           *)
(* (transport/bluetooth/backend.py), and while a BLE call waits none of    *)
(* the kind it waits for is in the history: what came before the wait is   *)
(* found, what comes during it is handed over                              *)
(* (adapters/bleak_adapter_transport.py).                                  *)
THEOREM WaitsOverlookNothing == DeviceSpec => [](BlNothingMissed /\ BcNothingMissed)
<1>1. BlInboxInv => BlNothingMissed BY DEF BlInboxInv, BlWaitInv
<1>2. BcInv => BcNothingMissed BY DEF BcInv
<1> QED BY <1>1, <1>2, BlInboxHolds, BcHolds, PTL
=============================================================================
