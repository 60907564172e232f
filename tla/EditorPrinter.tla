---------------------------- MODULE EditorPrinter ----------------------------
(***************************************************************************)
(* The printer an editor prints to: choosing it (slices/printer.js), its   *)
(* stored profile (services/printers.py, api/routes_print.py), the panel   *)
(* that edits and saves the profile (properties/PrinterSettings.jsx) and   *)
(* the canvas that is fitted to the printer's head.                        *)
(*                                                                         *)
(* A choice starts a chain of requests that later choices do not stop:     *)
(* load the profile; if it was never customised, look at the profile of an *)
(* offline printer of the same model; merge that one in.  They answer in   *)
(* any order, and at most PfTrouble of them fail, served or not.           *)
(*                                                                         *)
(* A profile is one number: 0 for the defaults, others for customised      *)
(* ones.  The one shown is "whole" when it came from the server, with its  *)
(* id, address, name, transport and darkness beside the four settings.     *)
(***************************************************************************)
EXTENDS Integers, FiniteSets

CONSTANTS PfInfo,      \* printer -> [dpi, head, precut, offline, model]
          PfNone,      \* no printer
          PfClicks,    \* bound: what the user does
          PfTrouble    \* bound: requests that fail, and writes of others

PfPrinters == DOMAIN PfInfo

ASSUME PfAssumption ==
  /\ PfInfo \in [PfPrinters -> [dpi : Nat \ {0}, head : Nat, precut : BOOLEAN, offline : BOOLEAN,
                               model : {PfInfo[p].model : p \in PfPrinters}]]
  /\ PfNone \notin PfPrinters /\ PfClicks \in Nat /\ PfTrouble \in Nat

PfOffline == {p \in PfPrinters : PfInfo[p].offline}

VARIABLES
  pfStored,    \* [PfPrinters -> profile]: the table of the server
  pfChosen,    \* selectedPrinter
  pfId,        \* printerProfileRequestId
  pfShown,     \* printerProfile: [owner, value, whole]
  pfCalls,     \* requests under way
  pfSave,      \* the panel's save: [id, printer, status]
  pfManual,    \* manualPrinters, kept in localStorage
  pfRemembered,\* catlabel_selected_offline_profile_v1
  pfCanvas,    \* [w, h, rotated, dpi, document, made]
  pfLeft, pfTroubleLeft

pfVars == <<pfStored, pfChosen, pfId, pfShown, pfCalls, pfSave, pfManual,
            pfRemembered, pfCanvas, pfLeft, pfTroubleLeft>>

PfBlank == [owner |-> PfNone, value |-> 0, whole |-> FALSE]
PfFresh == [w |-> 384, h |-> 384, rotated |-> FALSE, dpi |-> 203,
            document |-> FALSE, made |-> [w |-> 384, dpi |-> 203]]
PfIdle == [id |-> 0, printer |-> PfNone, status |-> "idle"]

PfInit ==
  /\ pfStored = [p \in PfPrinters |-> 0]
  /\ pfChosen = PfNone /\ pfId = 0 /\ pfShown = PfBlank /\ pfCalls = {}
  /\ pfSave = PfIdle
  /\ pfManual = {} /\ pfRemembered = PfNone
  /\ pfCanvas = PfFresh
  /\ pfLeft = PfClicks /\ pfTroubleLeft = PfTrouble

PfClick == pfLeft > 0 /\ pfLeft' = pfLeft - 1 /\ UNCHANGED pfTroubleLeft

(* Math.round of a positive x / y.                                         *)
PfRound(x, y) == (2 * x + y) \div (2 * y)
PfAcross(c) == IF c.rotated THEN c.h ELSE c.w

(* What the canvas becomes: scaled to the resolution of the printer, and   *)
(* made to fit its head when nothing is designed yet.                      *)
PfScaled(c, dpi) ==
  [c EXCEPT !.w = PfRound(c.w * dpi, c.dpi), !.h = PfRound(c.h * dpi, c.dpi), !.dpi = dpi]

PfSized(c, w, h, rotated) == [c EXCEPT !.w = w, !.h = h, !.rotated = rotated]

PfFitted(c, info) ==
  LET s == PfScaled(c, info.dpi)
      mm(x) == PfRound(x * info.dpi * 10, 254)
  IN IF c.document THEN s
     ELSE IF info.precut THEN PfSized(s, mm(40), mm(15), TRUE)
     ELSE IF PfAcross(s) <= info.head THEN s
     ELSE IF info.head = 384 THEN PfSized(s, 384, 384, FALSE)
     ELSE IF info.head > 384 THEN PfSized(s, info.head, PfRound(info.head * 3, 2), FALSE)
     ELSE PfSized(s, mm(40), info.head, TRUE)

PfCall(kind, id, to, of, value) ==
  [kind |-> kind, id |-> id, to |-> to, of |-> of, value |-> value,
   whole |-> TRUE, answer |-> "none"]

(* setSelectedPrinter up to its first request; "" deselects.               *)
PfSelects(p, canvas) ==
  /\ pfId' = pfId + 1
  /\ pfChosen' = p
  /\ IF p = PfNone
     THEN /\ pfRemembered' = PfNone
          /\ pfShown' = PfBlank
          /\ pfCanvas' = canvas
          /\ UNCHANGED pfCalls
     ELSE /\ pfRemembered' = IF p \in PfOffline THEN p ELSE pfRemembered
          /\ pfCanvas' = IF p = pfChosen THEN PfScaled(canvas, PfInfo[p].dpi)
                                         ELSE PfFitted(canvas, PfInfo[p])
          /\ pfCalls' = pfCalls \cup {PfCall("load", pfId + 1, p, p, 0)}
          /\ UNCHANGED pfShown

(* A printer of a scan or of the offline list is clicked.                  *)
PfSelect(p) ==
  /\ PfClick
  /\ p \in PfOffline => p \in pfManual
  /\ PfSelects(p, pfCanvas)
  /\ UNCHANGED <<pfStored, pfSave, pfManual>>

(* The wizard adds an offline printer and selects it.                      *)
PfAddManual(p) ==
  /\ PfClick
  /\ p \in PfOffline \ pfManual
  /\ pfManual' = pfManual \cup {p}
  /\ PfSelects(p, pfCanvas)
  /\ UNCHANGED <<pfStored, pfSave>>

(* Deleting the offline printer that is selected deselects it.             *)
PfRemoveManual(p) ==
  /\ PfClick
  /\ p \in pfManual
  /\ pfManual' = pfManual \ {p}
  /\ IF pfChosen = p THEN PfSelects(PfNone, pfCanvas)
                     ELSE UNCHANGED <<pfId, pfChosen, pfRemembered, pfShown, pfCanvas, pfCalls>>
  /\ UNCHANGED <<pfStored, pfSave>>

(* The page is loaded anew: what it waited for is given up, what the       *)
(* server was sent is still served, and a remembered choice is restored.   *)
PfReload ==
  /\ PfClick
  /\ pfLeft < PfClicks
  /\ IF pfRemembered \in pfManual
     THEN /\ pfId' = pfId + 1 /\ pfChosen' = pfRemembered
          /\ pfCanvas' = PfFitted(PfFresh, PfInfo[pfRemembered])
          /\ pfCalls' = {c \in pfCalls : c.kind \in {"merge", "save"}}
                        \cup {PfCall("load", pfId + 1, pfRemembered, pfRemembered, 0)}
     ELSE /\ pfId' = pfId + 1 /\ pfChosen' = PfNone /\ pfCanvas' = PfFresh
          /\ pfCalls' = {c \in pfCalls : c.kind \in {"merge", "save"}}
  /\ pfShown' = PfBlank
  /\ pfSave' = [pfSave EXCEPT !.id = @ + 1, !.printer = PfNone, !.status = "idle"]
  /\ UNCHANGED <<pfStored, pfManual, pfRemembered>>

(* Something is drawn on the empty canvas.                                 *)
PfDesign ==
  /\ PfClick
  /\ ~pfCanvas.document
  /\ pfCanvas' = [pfCanvas EXCEPT !.document = TRUE,
                    !.made = [w |-> pfCanvas.w, dpi |-> pfCanvas.dpi]]
  /\ UNCHANGED <<pfStored, pfChosen, pfId, pfShown, pfCalls, pfSave, pfManual, pfRemembered>>

(* handleProfileChange: the fields are those of the profile shown.         *)
PfEdit ==
  /\ PfClick
  /\ pfChosen # PfNone
  /\ pfShown.value # 2
  /\ pfShown' = [pfShown EXCEPT !.value = 2]
  /\ UNCHANGED <<pfStored, pfChosen, pfId, pfCalls, pfSave, pfManual, pfRemembered, pfCanvas>>

(* handleSaveProfile.                                                      *)
PfSaveProfile ==
  /\ PfClick
  /\ pfChosen # PfNone
  /\ ~(pfSave.printer = pfChosen /\ pfSave.status = "saving")
  /\ pfSave' = [id |-> pfSave.id + 1, printer |-> pfChosen, status |-> "saving"]
  /\ pfCalls' = pfCalls \cup {[PfCall("save", pfSave.id + 1, pfChosen, pfChosen, pfShown.value)
                               EXCEPT !.whole = pfShown.whole]}
  /\ UNCHANGED <<pfStored, pfChosen, pfId, pfShown, pfManual, pfRemembered, pfCanvas>>

-----------------------------------------------------------------------------
(* The server.  An update names the four settings and nothing else         *)
(* (PrinterProfileUpdate forbids extra fields), so a whole one is refused. *)
PfTakes(c) == ~c.whole

PfAnswers(c, answer, value) ==
  pfCalls' = (pfCalls \ {c}) \cup {[c EXCEPT !.answer = answer, !.value = value]}

PfServe(c) ==
  /\ c.answer = "none"
  /\ IF c.kind \in {"load", "look"}
     THEN /\ PfAnswers(c, "ok", pfStored[c.to])
          /\ UNCHANGED pfStored
     ELSE IF PfTakes(c)
     THEN /\ pfStored' = [pfStored EXCEPT ![c.to] = c.value]
          /\ PfAnswers(c, "ok", c.value)
     ELSE /\ PfAnswers(c, "refused", c.value)
          /\ UNCHANGED pfStored
  /\ UNCHANGED <<pfChosen, pfId, pfShown, pfSave, pfManual, pfRemembered, pfCanvas,
                 pfLeft, pfTroubleLeft>>

(* A request is lost, or its answer is.                                    *)
PfLose(c) ==
  /\ pfTroubleLeft > 0 /\ pfTroubleLeft' = pfTroubleLeft - 1
  /\ c.answer # "lost"
  /\ PfAnswers(c, "lost", c.value)
  /\ UNCHANGED <<pfStored, pfChosen, pfId, pfShown, pfSave, pfManual, pfRemembered,
                 pfCanvas, pfLeft>>

(* Another editor saves a profile of its own.                              *)
PfOther(p) ==
  /\ pfTroubleLeft > 0 /\ pfTroubleLeft' = pfTroubleLeft - 1
  /\ pfStored[p] # 1
  /\ pfStored' = [pfStored EXCEPT ![p] = 1]
  /\ UNCHANGED <<pfChosen, pfId, pfShown, pfCalls, pfSave, pfManual, pfRemembered,
                 pfCanvas, pfLeft>>

-----------------------------------------------------------------------------
(* Answers.  Only the newest choice is still waited for.                   *)

PfIsCurrent(c) == c.id = pfId /\ pfChosen = c.of

PfDone(c) == pfCalls' = pfCalls \ {c}
PfThen(c, d) == pfCalls' = (pfCalls \ {c}) \cup {d}
PfShows(of, value) == pfShown' = [owner |-> of, value |-> value, whole |-> TRUE]

(* The offline printers whose profile may be merged into p's.              *)
PfMatches(p) ==
  {m \in pfManual \ {p} : ~PfInfo[p].offline /\ PfInfo[m].model = PfInfo[p].model}

PfLoaded(c) ==
  /\ c.kind = "load" /\ c.answer \in {"ok", "lost"}
  /\ IF ~PfIsCurrent(c) THEN PfDone(c) /\ UNCHANGED pfShown
     ELSE IF c.answer = "lost" THEN PfDone(c) /\ pfShown' = PfBlank
     ELSE IF c.value = 0 /\ PfMatches(c.of) # {}
     THEN /\ \E m \in PfMatches(c.of) : PfThen(c, PfCall("look", c.id, m, c.of, 0))
          /\ UNCHANGED pfShown
     ELSE PfDone(c) /\ PfShows(c.of, c.value)
  /\ UNCHANGED <<pfStored, pfChosen, pfId, pfSave, pfManual, pfRemembered, pfCanvas,
                 pfLeft, pfTroubleLeft>>

(* The offline printer's settings are written to the chosen one.           *)
PfLooked(c) ==
  /\ c.kind = "look" /\ c.answer \in {"ok", "lost"}
  /\ IF ~PfIsCurrent(c) THEN PfDone(c) /\ UNCHANGED pfShown
     ELSE IF c.answer = "ok" /\ c.value # 0
     THEN PfThen(c, PfCall("merge", c.id, c.of, c.of, c.value)) /\ UNCHANGED pfShown
     ELSE PfDone(c) /\ PfShows(c.of, 0)
  /\ UNCHANGED <<pfStored, pfChosen, pfId, pfSave, pfManual, pfRemembered, pfCanvas,
                 pfLeft, pfTroubleLeft>>

(* Stored or not, the merged profile is shown.                             *)
PfMerged(c) ==
  /\ c.kind = "merge" /\ c.answer # "none"
  /\ PfDone(c)
  /\ IF PfIsCurrent(c) THEN PfShows(c.of, c.value) ELSE UNCHANGED pfShown
  /\ UNCHANGED <<pfStored, pfChosen, pfId, pfSave, pfManual, pfRemembered, pfCanvas,
                 pfLeft, pfTroubleLeft>>

PfSaved(c) ==
  /\ c.kind = "save" /\ c.answer # "none"
  /\ PfDone(c)
  /\ pfSave' = IF pfSave.id # c.id THEN pfSave
               ELSE [pfSave EXCEPT !.status = IF c.answer = "ok" THEN "saved" ELSE c.answer]
  /\ UNCHANGED <<pfStored, pfChosen, pfId, pfShown, pfManual, pfRemembered, pfCanvas,
                 pfLeft, pfTroubleLeft>>

PfStep ==
  \E c \in pfCalls : PfServe(c) \/ PfLoaded(c) \/ PfLooked(c) \/ PfMerged(c) \/ PfSaved(c)

PfUser ==
  \/ \E p \in PfPrinters : PfSelect(p) \/ PfAddManual(p) \/ PfRemoveManual(p)
  \/ PfReload \/ PfDesign \/ PfEdit \/ PfSaveProfile

PfNext ==
  \/ PfStep \/ PfUser
  \/ \E c \in pfCalls : PfLose(c)
  \/ \E p \in PfPrinters : PfOther(p)

PfSpec == PfInit /\ [][PfNext]_pfVars /\ WF_pfVars(PfStep)

-----------------------------------------------------------------------------
(* When nothing more is on its way for the printer chosen, the profile     *)
(* shown is its own or the defaults, in whatever order the requests of     *)
(* earlier choices were answered (slices/printer.js).                      *)
PfShowsChosen ==
  (pfChosen # PfNone /\ ~\E c \in pfCalls : c.kind # "save" /\ c.id = pfId /\ c.of = pfChosen)
    => pfShown.owner \in {pfChosen, PfNone}

(* An empty canvas fits across the head of the continuous printer chosen.  *)
PfFitsHead ==
  (pfChosen # PfNone /\ ~pfCanvas.document /\ ~PfInfo[pfChosen].precut)
    => PfAcross(pfCanvas) <= PfInfo[pfChosen].head

(* However often printers of other resolutions are chosen, a design never  *)
(* grows or shrinks past a whole inch; where only two resolutions meet it   *)
(* stays within a dot of the coarser one (with three of them the rounding   *)
(* adds up: 200, 203 and 300 dpi reach almost three dots).                  *)
PfDpis == {203} \cup {PfInfo[p].dpi : p \in PfPrinters}
PfTwoMeet == \A a, b, d \in PfDpis : a = b \/ b = d \/ a = d
PfSizeKept ==
  pfCanvas.document =>
    LET c == pfCanvas
        inch == c.made.w \div c.made.dpi
        off == c.w * c.made.dpi - c.made.w * c.dpi
    IN /\ c.w \in (inch * c.dpi)..((inch + 1) * c.dpi)
       /\ PfTwoMeet => \E d \in PfDpis : off * d \in -(c.dpi * c.made.dpi)..(c.dpi * c.made.dpi)

(* "Printer profiles: save per-printer density/energy, feed and supported  *)
(* speed or paper-mode controls" (README.md:172): a save that reaches the  *)
(* server is taken.                                                        *)
PfSavesAreTaken == pfSave.status # "refused"

PfEnded == pfCalls = {}

(* What the proofs add: the canvas has the resolution of the printer chosen *)
(* and, of the two that meet, what one makes of the other's rounding.       *)
PfKinds == {"load", "look", "merge", "save"}
PfStatuses == {"idle", "saving", "saved", "ok", "refused", "lost"}
PfCallRecords == [kind : PfKinds, id : Nat, to : PfPrinters, of : PfPrinters, value : Nat,
                  whole : BOOLEAN, answer : {"none", "ok", "refused", "lost"}]
PfCanvases == [w : Nat, h : Nat, rotated : BOOLEAN, dpi : PfDpis, document : BOOLEAN,
               made : [w : Nat, dpi : PfDpis]]
PfTypeOK ==
  /\ pfStored \in [PfPrinters -> Nat] /\ pfChosen \in PfPrinters \cup {PfNone} /\ pfId \in Nat
  /\ pfShown \in [owner : PfPrinters \cup {PfNone}, value : Nat, whole : BOOLEAN]
  /\ pfCalls \subseteq PfCallRecords /\ pfManual \subseteq PfPrinters
  /\ pfSave \in [id : Nat, printer : PfPrinters \cup {PfNone}, status : PfStatuses]
  /\ pfCanvas \in PfCanvases
PfClose(w, b, m, a) == 2 * (w * a) - 2 * (m * b) \in (-a)..a
PfDrift(c) ==
  IF c.dpi # c.made.dpi THEN PfClose(c.w, c.dpi, c.made.w, c.made.dpi)
  ELSE \/ c.w = c.made.w
       \/ \E b \in PfDpis, n \in Nat :
            b < c.dpi /\ PfClose(n, b, c.made.w, c.dpi) /\ PfClose(c.w, c.dpi, n, b)
PfCanvasInv ==
  /\ pfChosen # PfNone => pfCanvas.dpi = PfInfo[pfChosen].dpi
  /\ pfCanvas.document =>
       /\ \A inch \in Nat : inch * pfCanvas.made.dpi <= pfCanvas.made.w => inch * pfCanvas.dpi <= pfCanvas.w
       /\ \A inch \in Nat : pfCanvas.made.w <= inch * pfCanvas.made.dpi => pfCanvas.w <= inch * pfCanvas.dpi
       /\ PfTwoMeet => PfDrift(pfCanvas)
PfInv == PfTypeOK /\ PfShowsChosen /\ PfFitsHead /\ PfCanvasInv
=============================================================================
