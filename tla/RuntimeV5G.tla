----------------------------- MODULE RuntimeV5G ------------------------------
(* The V5G runtime controller (printing/runtime/v5g.py): every page is one *)
(* payload whose density packet is rewritten from what the printer said of *)
(* its temperature and of the pages before; a printer that cools between   *)
(* pages is given back its density by a background task.  A page has one   *)
(* density packet, so the helper for runs of more than four is not here.   *)
EXTENDS Integers, Sequences, FiniteSetsExt

CONSTANTS
  VgPages,
  VgTemperatures,   \* degrees the printer may report; -1 when it cannot tell
  VgTrouble         \* reports, failures and long pauses (bound)

V5GAssumption ==
  /\ VgPages \in Nat \ {0} /\ VgTrouble \in Nat
  /\ VgTemperatures \subseteq -1 .. 254
ASSUME V5GAssumption

VARIABLES
  vgPhase,     \* "connect", "between", "sending", "printed", "failed", "stopped"
  vgHelper,    \* helper_kind: "mx06", "mx10", "pd01" or "none"
  vgLoop,      \* notifications come on an event loop (BLE)
  vgUser,      \* the density the page asks for
  vgTemperature, vgD2,
  vgLastSingle, vgRecent,   \* last_single_density_value; a page ended less than 50 s ago
  vgTask,      \* pending_reset_task
  vgTarget,    \* what the page's density packet says
  vgDensity,   \* the printer's density
  vgPages,     \* the pages that were sent: what was asked, wanted, in force, and the page before
  vgLeft

vgStatus == <<vgTemperature, vgD2>>
vgMemory == <<vgLastSingle, vgRecent>>
vgVars == <<vgPhase, vgHelper, vgLoop, vgUser, vgStatus, vgMemory, vgTask, vgTarget, vgDensity, vgPages, vgLeft>>

VgRunning == vgPhase \in {"connect", "between", "sending"}
VgTroubled == vgLeft > 0 /\ vgLeft' = vgLeft - 1

(* runtime_presets "mx10_mx06" and "pd01_mx11", image density.             *)
VgLevels == IF vgHelper = "pd01" THEN [low |-> 100, middle |-> 130, high |-> 150]
                                 ELSE [low |-> 150, middle |-> 180, high |-> 200]

VgMx06(user) ==
  Max({70, Min({150, user, IF vgLastSingle > 0 THEN vgLastSingle ELSE user}) - 20})

(* The steps down of a helper: below which temperature, from which density *)
(* on, to which density.  An mx10 head at 75 degrees keeps what was asked. *)
VgSteps ==
  LET mid == VgLevels.middle
      low == VgLevels.low IN
  CASE vgHelper = "mx10" -> <<<<55, mid, mid - 20>>, <<60, low, low - 10>>, <<65, low, low - 30>>,
                              <<70, low, low - 55>>, <<75, 0, 80>>>>
    [] vgHelper = "pd01" -> <<<<55, mid, mid - 10>>, <<60, mid, mid - 20>>, <<70, low, low>>,
                              <<75, 0, 90>>, <<256, 0, 80>>>>
    [] OTHER -> <<>>

VgByTemperature(user) ==
  LET bands == {i \in DOMAIN VgSteps : vgTemperature < VgSteps[i][1]} IN
  IF vgTemperature < 50 \/ bands = {} THEN user
  ELSE LET step == VgSteps[Min(bands)] IN IF user >= step[2] THEN step[3] ELSE user

(* _build_single_density_map                                               *)
VgSingle(user) ==
  IF vgHelper = "mx06"
  THEN IF vgD2 /\ vgRecent THEN VgMx06(user) ELSE user
  ELSE VgByTemperature(user)

VgInit ==
  /\ vgPhase = "connect" /\ vgHelper \in {"mx06", "mx10", "pd01", "none"} /\ vgLoop \in BOOLEAN
  /\ vgUser \in {VgLevels.low, VgLevels.middle, VgLevels.high}
  /\ vgTemperature = -1 /\ vgD2 = FALSE /\ vgLastSingle = 0 /\ vgRecent = FALSE /\ vgTask = FALSE
  /\ vgTarget = 0 /\ vgDensity = 0 /\ vgPages = <<>> /\ vgLeft = VgTrouble

(* initialize_connection, then after_initialize with or without an answer. *)
VgConnect ==
  /\ vgPhase = "connect" /\ vgPhase' = "between"
  /\ UNCHANGED <<vgHelper, vgLoop, vgUser, vgStatus, vgMemory, vgTask, vgTarget, vgDensity, vgPages, vgLeft>>

(* on_standard_send_started and prepare_standard_payload.  The loop runs   *)
(* what was scheduled before the write, so a reset still goes out first.   *)
VgSend ==
  /\ vgPhase = "between" /\ Len(vgPages) < VgPages
  /\ vgPhase' = "sending" /\ vgTask' = FALSE
  /\ vgTarget' = VgSingle(vgUser) /\ vgLastSingle' = VgSingle(vgUser)
  /\ vgDensity' = vgTarget'
  /\ UNCHANGED <<vgHelper, vgLoop, vgUser, vgStatus, vgRecent, vgPages, vgLeft>>

(* The raster follows; on_standard_send_finished.                          *)
VgSent ==
  /\ vgPhase = "sending"
  /\ vgPages' = Append(vgPages, [asked |-> vgUser, target |-> vgTarget, used |-> vgDensity,
                                 busy |-> vgD2 /\ vgRecent])
  /\ vgPhase' = IF Len(vgPages') = VgPages THEN "printed" ELSE "between"
  /\ vgRecent' = TRUE
  /\ UNCHANGED <<vgHelper, vgLoop, vgUser, vgStatus, vgLastSingle, vgTask, vgTarget, vgDensity, vgLeft>>

(* A write fails, or the task is cancelled; the finally clause runs.       *)
VgBreak ==
  /\ VgRunning /\ VgTroubled /\ vgPhase' = "failed"
  /\ vgRecent' = (vgRecent \/ vgPhase = "sending")
  /\ UNCHANGED <<vgHelper, vgLoop, vgUser, vgStatus, vgLastSingle, vgTask, vgTarget, vgDensity, vgPages>>

VgStop ==
  /\ vgPhase \in {"printed", "failed"} /\ vgPhase' = "stopped" /\ vgTask' = FALSE
  /\ UNCHANGED <<vgHelper, vgLoop, vgUser, vgStatus, vgMemory, vgTarget, vgDensity, vgPages, vgLeft>>

(* _update_status and _update_d2_status                                    *)
VgHearsD2 ==
  /\ vgPhase \notin {"stopped"} /\ VgTroubled /\ vgD2' = TRUE
  /\ UNCHANGED <<vgPhase, vgHelper, vgLoop, vgUser, vgTemperature, vgMemory, vgTask, vgTarget, vgDensity, vgPages>>

(* _update_temperature, _schedule_density_reset                            *)
VgResets(temperature) ==
  /\ vgHelper = "pd01" /\ vgPhase # "sending" /\ vgLoop
  /\ temperature = -1 \/ (vgTemperature >= 0 /\ temperature < vgTemperature /\ temperature <= 60)

VgHearsTemperature ==
  /\ vgPhase \notin {"stopped"} /\ VgTroubled
  /\ \E temperature \in VgTemperatures :
       /\ vgTemperature' = temperature
       /\ vgTask' = (vgTask \/ VgResets(temperature))
  /\ UNCHANGED <<vgPhase, vgHelper, vgLoop, vgUser, vgD2, vgMemory, vgTarget, vgDensity, vgPages>>

(* _send_density_reset, when the loop runs again.                          *)
VgResetSent ==
  /\ vgTask /\ vgPhase # "stopped" /\ vgTask' = FALSE
  /\ vgDensity' = 120
  /\ UNCHANGED <<vgPhase, vgHelper, vgLoop, vgUser, vgStatus, vgMemory, vgTarget, vgPages, vgLeft>>

(* More than 50 seconds pass between two pages.                            *)
VgPause ==
  /\ vgPhase = "between" /\ vgRecent /\ VgTroubled /\ vgRecent' = FALSE
  /\ UNCHANGED <<vgPhase, vgHelper, vgLoop, vgUser, vgStatus, vgLastSingle, vgTask, vgTarget, vgDensity, vgPages>>

VgStep == VgConnect \/ VgSend \/ VgSent \/ VgBreak \/ VgStop
VgNext == VgStep \/ VgHearsD2 \/ VgHearsTemperature \/ VgResetSent \/ VgPause
VgFairness == WF_vgVars(VgStep)
VgSpec == VgInit /\ [][VgNext]_vgVars /\ VgFairness

-----------------------------------------------------------------------------
(* A page is printed at the density chosen for it, also when a cooling     *)
(* printer had its density given back meanwhile; never darker than asked,  *)
(* and back to back pages of an MX06 never get darker.                     *)
VgPageAtItsDensity ==
  \A i \in DOMAIN vgPages :
    /\ vgPages[i].used = vgPages[i].target
    /\ vgPages[i].target <= vgPages[i].asked
    /\ i > 1 /\ vgHelper = "mx06" /\ vgPages[i].busy =>
         vgPages[i].target <= Max({70, vgPages[i - 1].target})

-----------------------------------------------------------------------------
(* What holds between any two steps, from which it follows for every       *)
(* number of pages and reports: nothing gives the printer its density back *)
(* while a page is under way, and a page that is lighter for what the one  *)
(* before left is lighter than that one.                                   *)
VgState ==
  /\ vgHelper \in {"mx06", "mx10", "pd01", "none"} /\ vgUser \in {VgLevels.low, VgLevels.middle, VgLevels.high}
  /\ vgTemperature \in Int /\ vgTarget \in Int /\ vgLastSingle \in Int
  /\ vgPages \in Seq([asked : Int, target : Int, used : Int, busy : BOOLEAN])
VgSendingInv ==
  vgPhase = "sending" =>
    /\ ~vgTask /\ vgDensity = vgTarget /\ vgLastSingle = vgTarget /\ vgTarget <= vgUser
    /\ vgHelper = "mx06" /\ vgD2 /\ vgRecent /\ Len(vgPages) > 0 => vgTarget <= Max({70, vgPages[Len(vgPages)].target})
VgMemoryInv ==
  /\ vgPhase = "between" /\ Len(vgPages) > 0 => vgLastSingle = vgPages[Len(vgPages)].target
  /\ vgPhase = "connect" => Len(vgPages) = 0
  /\ vgHelper = "mx06" /\ ~vgD2 =>
       /\ vgPhase = "sending" => vgTarget = vgUser
       /\ Len(vgPages) > 0 => vgPages[Len(vgPages)].target = vgUser
  /\ vgHelper = "mx06" =>
       /\ vgPhase = "sending" => vgTarget >= 70
       /\ Len(vgPages) > 0 => vgPages[Len(vgPages)].target >= 70
VgInv == VgState /\ VgSendingInv /\ VgMemoryInv /\ VgPageAtItsDensity
=============================================================================
