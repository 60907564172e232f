----------------------------- MODULE MCServices -----------------------------
(* The parts of the server, the launcher and the editor that meet only     *)
(* through what they leave stored: a behaviour picks one of them and runs  *)
(* it by itself, the others wait as they begin.                            *)
EXTENDS ReleaseSlots, Uploads, JobSpool, EditorDocument, EditorPages, EditorPrinter,
        AiAssistant, PrintPreparation

VARIABLE service

serviceVars == <<service, rsVars, upVars, jsVars, edVars, epVars, pfVars, aaVars, vars>>

MCEdBudgets == {[clicks |-> 3, others |-> 1], [clicks |-> 2, others |-> 2]}
MCPfInfo == [a |-> [dpi |-> 203, head |-> 384, precut |-> FALSE, offline |-> FALSE, model |-> "x"],
             b |-> [dpi |-> 300, head |-> 354, precut |-> FALSE, offline |-> FALSE, model |-> "y"],
             o |-> [dpi |-> 203, head |-> 384, precut |-> FALSE, offline |-> TRUE, model |-> "x"]]
MCAaTools ==
  {[tool |-> n, to |-> 1] : n \in {"draw", "clear", "load", "save", "update", "delete",
                                    "print", "list", "preview", "unknown"}}
    \cup {[tool |-> "load", to |-> 2], [tool |-> "page", to |-> 1], [tool |-> "page", to |-> -1]}

(* The steps of PrepFairness, as one: there are finitely many of them.     *)
PrepStep ==
  \/ \E t \in Tabs : Rerender(t)
  \/ \E j \in Jobs : GotCreation(j) \/ CreationFails(j) \/ RenderPage(j) \/ RenderFails(j)
                      \/ GotAck(j) \/ HandOff(j) \/ UploadFails(j) \/ PrintEnds(j)
  \/ \E r \in requests : Serve(r)
  \/ \E h \in Handlers : RouteEnds(h) \/ Alone(JobSettles(h))

ServiceInit ==
  /\ service \in {"releases", "uploads", "spool", "document", "pages", "printer", "assistant", "preparation"}
  /\ RsInit /\ UpInit /\ JsInit /\ EdInit /\ EpInit /\ PfInit /\ AaInit /\ PrepInit
  /\ rsAddon["data"] = "on"
  /\ service # "document" => edLeft.others = 1   \* bounds that concern no other service

(* Steps of the program that get to run, and all that may happen.          *)
ServiceWorks ==
  \/ service = "releases" /\ RsStep /\ UNCHANGED <<service, upVars, jsVars, edVars, epVars, pfVars, aaVars, vars>>
  \/ service = "uploads" /\ UpStep /\ UNCHANGED <<service, rsVars, jsVars, edVars, epVars, pfVars, aaVars, vars>>
  \/ service = "spool" /\ JsStep /\ UNCHANGED <<service, rsVars, upVars, edVars, epVars, pfVars, aaVars, vars>>
  \/ service = "printer" /\ PfStep /\ UNCHANGED <<service, rsVars, upVars, jsVars, edVars, epVars, aaVars, vars>>
  \/ service = "assistant" /\ AaStep /\ UNCHANGED <<service, rsVars, upVars, jsVars, edVars, epVars, pfVars, vars>>
  \/ service = "preparation" /\ PrepStep /\ UNCHANGED <<service, rsVars, upVars, jsVars, edVars, epVars, pfVars, aaVars>>

ServiceMeets ==
  \/ service = "releases" /\ RsNext /\ UNCHANGED <<service, upVars, jsVars, edVars, epVars, pfVars, aaVars, vars>>
  \/ service = "uploads" /\ UpNext /\ UNCHANGED <<service, rsVars, jsVars, edVars, epVars, pfVars, aaVars, vars>>
  \/ service = "spool" /\ JsNext /\ UNCHANGED <<service, rsVars, upVars, edVars, epVars, pfVars, aaVars, vars>>
  \/ service = "document" /\ EdNext /\ UNCHANGED <<service, rsVars, upVars, jsVars, epVars, pfVars, aaVars, vars>>
  \/ service = "pages" /\ EpNext /\ UNCHANGED <<service, rsVars, upVars, jsVars, edVars, pfVars, aaVars, vars>>
  \/ service = "printer" /\ PfNext /\ UNCHANGED <<service, rsVars, upVars, jsVars, edVars, epVars, aaVars, vars>>
  \/ service = "assistant" /\ AaNext /\ UNCHANGED <<service, rsVars, upVars, jsVars, edVars, epVars, pfVars, vars>>
  \/ service = "preparation" /\ PrepNext /\ UNCHANGED <<service, rsVars, upVars, jsVars, edVars, epVars, pfVars, aaVars>>

ServiceSpec == ServiceInit /\ [][ServiceMeets]_serviceVars /\ WF_serviceVars(ServiceWorks)

-----------------------------------------------------------------------------
(* What was accepted stays: the release selected is one that answered its  *)
(* probe (core/release_slots.py), a font that was answered is stored       *)
(* (services/uploads.py), and a spool that failed to take a job still      *)
(* reads the jobs before it (printing/job_spool.py).                       *)
AcceptedStays ==
  RsSelectedIsAccepted /\ UpStoredFontKept /\ JsReadsWhatWasAppended

(* No one goes on behind one who was told it was over: a server keeps its  *)
(* release, a cancelled conversion has stopped, its limits kept            *)
(* (core/runtime_lease.py, services/uploads.py).                           *)
NothingGoesOn == RsServerUndisturbed /\ [](UpCancelledIsOver /\ UpWithinLimits)

(* The editor never gives up what its user did: a design that is shown as  *)
(* saved is stored, as long as the project that was opened or saved is     *)
(* there, no answer that comes late undoes an edit (slices/persistence.js, *)
(* printer.js), nor does moving pages and elements (slices/document.js).   *)
EditorKeepsWork ==
  /\ [](EdSavedIsStored /\ EpSheetsStayWhole /\ EpSelectionShown /\ EpPlaced)
  /\ [](PfShowsChosen /\ PfFitsHead /\ PfSizeKept)
  /\ [][EdAnswersKeepEdits]_edVars

(* The assistant acts on the design and the project its tab shows          *)
(* (api/routes_ai.py, services/ai_tools.py).                               *)
AssistantInOrder ==
  AaChatsApart /\ AaActionsTell /\ AaRevisionIsStored

(* Everything that was begun ends; a tab that prepared a print is free to  *)
(* print again, and an ended print leaves nothing on the server.           *)
PrepEnded ==
  /\ \A t \in Tabs : mode[t] = "idle"
  /\ \A j \in Jobs : outcome[j] # Null => j \notin Live
ServiceEnded ==
  CASE service = "releases" -> RsEnded
    [] service = "uploads" -> UpEnded
    [] service = "spool" -> JsEnded
    [] service \in {"document", "pages"} -> TRUE
    [] service = "printer" -> PfEnded
    [] service = "assistant" -> AaEnded
    [] service = "preparation" -> PrepEnded
ServicesEnd == <>[]ServiceEnded
=============================================================================
