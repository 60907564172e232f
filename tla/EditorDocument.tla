--------------------------- MODULE EditorDocument ---------------------------
(* The design in the editor and its copies: the saved projects, the undo    *)
(* history and the recovery copy (frontend state/documentLifecycle.js,      *)
(* history.js, slices/persistence.js, slices/settings.js and the components *)
(* that load, save, import and recover).  A design is a number, every edit  *)
(* makes a new one; an answer of the server arrives when the design may     *)
(* have changed under it.  Other tabs change, delete and create projects,   *)
(* and the id of a deleted project is handed out again.                     *)
EXTENDS Naturals, Sequences, FiniteSets

CONSTANTS
  EdProjects,    \* project ids, bounded
  EdNowhere,     \* no project
  EdFirst,       \* the project that exists at the start
  EdHistory,     \* entries of the undo stack (50)
  EdBudgets      \* bounds: [clicks: user actions, others: changes of projects by others,
                 \*          lost answers, reloads]

ASSUME EdAssumption ==
  /\ EdHistory \in Nat /\ EdBudgets \subseteq [clicks : Nat, others : Nat]
  /\ EdProjects \subseteq Nat /\ EdNowhere \notin EdProjects

VARIABLES
  ed,            \* the store: [doc, base, session, revision, status, project, known,
                 \*             born, hist, idx, stored, timer, drifted]
  edAsk,         \* the open confirmation: [kind, id, session, revision, target, doc]
  edReqs,        \* requests: [kind, id, session, revision, over, snapshot, expected, at, given, born]
  edLoadId,      \* projectLoadRequestId
  edServer,      \* id -> [rows: the contents by revision of the project that has it, <<>>
                 \*        when none has; past: how many revisions each had that had it before]
  edDraft,       \* the recovery copy in the browser: 0 for none
  edKept,        \* pendingDraft: a copy found at the start, neither recovered nor discarded
  edLeft         \* [fresh, clicks, others]

edVars == <<ed, edAsk, edReqs, edLoadId, edServer, edDraft, edKept, edLeft>>

EdNone == 0
EdBlank == 1
EdFresh == [doc |-> EdBlank, base |-> EdBlank, session |-> 0, revision |-> 0, status |-> "saved",
            project |-> EdNowhere, known |-> 0, born |-> 0, hist |-> <<>>, idx |-> 0,
            stored |-> EdNone, timer |-> FALSE, drifted |-> FALSE]
EdNoAsk == [kind |-> "none", id |-> EdNowhere, session |-> 0, revision |-> 0, target |-> 0, doc |-> EdNone]
EdRequest(kind, id) ==
  [kind |-> kind, id |-> id, session |-> ed.session, revision |-> ed.revision, over |-> ed.doc,
   snapshot |-> ed.doc, expected |-> 0, at |-> "sent", given |-> 0, born |-> 0]

EdInit ==
  /\ ed = EdFresh /\ edAsk = EdNoAsk /\ edReqs = {} /\ edLoadId = 0
  /\ edServer = [p \in EdProjects |-> [rows |-> IF p = EdFirst THEN <<2>> ELSE <<>>, past |-> <<>>]]
  /\ edDraft = EdNone /\ edKept = FALSE
  /\ \E b \in EdBudgets : edLeft = [fresh |-> 3, clicks |-> b.clicks, others |-> b.others]

EdRows(id) == edServer[id].rows
EdPast(id) == edServer[id].past
EdExists(id) == EdRows(id) # <<>>
(* Which of the projects that have had this id, counted from 1.             *)
EdLife(id) == Len(EdPast(id)) + 1
(* One above the largest there is (SQLite's rowids).                        *)
EdNewId(id) ==
  /\ \A other \in EdProjects : EdExists(other) => other < id
  /\ \A other \in EdProjects : other < id => \E top \in EdProjects : top >= other /\ EdExists(top)
(* The tree of projects was read at some time, and showed this revision.    *)
EdIsListed(id) == EdExists(id) \/ EdPast(id) # <<>>
EdListed(id) == 1..Len(EdRows(id)) \cup UNION {1..EdPast(id)[k] : k \in DOMAIN EdPast(id)}
EdDirty(e) == e.base = EdNone \/ e.base # e.doc
EdClick == edLeft.clicks > 0
EdClicked == edLeft' = [edLeft EXCEPT !.clicks = @ - 1]
EdClickedAnew == edLeft' = [edLeft EXCEPT !.clicks = @ - 1, !.fresh = @ + 1]
EdTrouble == edLeft.others > 0 /\ edLeft' = [edLeft EXCEPT !.others = @ - 1]

-----------------------------------------------------------------------------
(* documentLifecycle.js: what a store update does to the bookkeeping.       *)
EdStatus(e) == IF EdDirty(e) THEN "dirty" ELSE "saved"
EdChanged(e, doc) ==
  LET next == [e EXCEPT !.doc = doc, !.revision = @ + (IF doc # e.doc THEN 1 ELSE 0)] IN
  IF doc # e.doc /\ e.status # "saving" THEN [next EXCEPT !.status = EdStatus(next)] ELSE next
EdReplaced(e, doc, base) ==
  LET next == [e EXCEPT !.doc = doc, !.base = base, !.session = @ + 1, !.revision = @ + 1] IN
  [next EXCEPT !.status = EdStatus(next)]
EdNamed(e, id, known, born) ==
  [e EXCEPT !.project = id, !.known = known, !.born = born, !.drifted = FALSE]
EdUnnamed(e) == EdNamed(e, EdNowhere, 0, 0)
EdSavedAs(e, r) ==
  LET next == EdNamed([e EXCEPT !.base = r.snapshot], r.id, r.given, r.born) IN
  [next EXCEPT !.status = EdStatus(next)]

(* history.js: an update remembers the design before the first one, and     *)
(* restarts the timer; "reset" forgets everything.                          *)
EdRecorded(before, after) ==
  [after EXCEPT !.stored = IF before.stored = EdNone THEN before.doc ELSE before.stored, !.timer = TRUE]
EdForgotten(e) == [e EXCEPT !.hist = <<>>, !.idx = 0, !.stored = EdNone, !.timer = FALSE]

EdTimer ==
  /\ ed.timer
  /\ LET start == SubSeq(ed.hist, 1, ed.idx)
         grown == (IF start = <<>> THEN <<ed.stored>> ELSE start) \o <<ed.doc>>
         hist == IF Len(grown) > EdHistory THEN Tail(grown) ELSE grown
     IN ed' = IF ed.stored \in {EdNone, ed.doc} THEN [ed EXCEPT !.stored = EdNone, !.timer = FALSE]
              ELSE [ed EXCEPT !.hist = hist, !.idx = Len(hist), !.stored = EdNone, !.timer = FALSE]
  /\ UNCHANGED <<edAsk, edReqs, edLoadId, edServer, edDraft, edKept, edLeft>>

(* undo and redo leave the timer of an edit before them running.            *)
EdTravel(to) ==
  /\ EdClick /\ EdClicked
  /\ to \in {ed.idx - 1, ed.idx + 1} \cap (1..Len(ed.hist))
  /\ ed' = [EdChanged(ed, ed.hist[to]) EXCEPT !.idx = to, !.stored = EdNone]
  /\ UNCHANGED <<edAsk, edReqs, edLoadId, edServer, edDraft, edKept>>

EdEdit ==
  /\ EdClick /\ EdClickedAnew /\ ed' = EdRecorded(ed, EdChanged(ed, edLeft.fresh))
  /\ UNCHANGED <<edAsk, edReqs, edLoadId, edServer, edDraft, edKept>>

(* clearCanvas: a blank design of no project, which can be undone.          *)
EdClear ==
  /\ EdClick /\ EdClickedAnew
  /\ ed' = EdRecorded(ed, EdUnnamed(EdReplaced(ed, edLeft.fresh, EdNone)))
  /\ UNCHANGED <<edAsk, edReqs, edLoadId, edServer, edDraft, edKept>>

-----------------------------------------------------------------------------
(* persistence.js: loading.  Unsaved edits ask first; what was asked must   *)
(* still be so when it is confirmed.                                        *)
EdSame(r) == ed.session = r.session /\ ed.revision = r.revision
EdStartLoad(id) ==
  /\ edLoadId' = edLoadId + 1
  /\ edReqs' = edReqs \cup {[EdRequest("load", id) EXCEPT !.expected = edLoadId + 1]}

EdOpen(id) ==
  /\ EdClick /\ EdClicked /\ EdIsListed(id)
  /\ IF EdDirty(ed)
     THEN /\ edLoadId' = edLoadId + 1 /\ UNCHANGED edReqs
          /\ edAsk' = [EdNoAsk EXCEPT !.kind = "load", !.id = id, !.session = ed.session,
                                      !.revision = ed.revision, !.doc = ed.doc]
     ELSE EdStartLoad(id) /\ edAsk' = IF edAsk.kind = "load" THEN EdNoAsk ELSE edAsk
  /\ UNCHANGED <<ed, edServer, edDraft, edKept>>

EdConfirmLoad ==
  /\ edAsk.kind = "load" /\ edAsk' = EdNoAsk
  /\ IF EdSame(edAsk) THEN EdStartLoad(edAsk.id)
     ELSE edLoadId' = edLoadId + 1 /\ UNCHANGED edReqs
  /\ UNCHANGED <<ed, edServer, edDraft, edKept, edLeft>>

EdCancelAsk ==
  /\ edAsk # EdNoAsk /\ edAsk' = EdNoAsk
  /\ UNCHANGED <<ed, edReqs, edLoadId, edServer, edDraft, edKept, edLeft>>

(* A mutated form of EdOpened: the design is not looked at again.           *)
EdOpenedAnyway(r) ==
  /\ r.kind = "load" /\ r.at = "done" /\ edReqs' = edReqs \ {r}
  /\ ed' = IF r.expected = edLoadId
           THEN EdNamed(EdForgotten(EdReplaced(ed, r.snapshot, r.snapshot)), r.id, r.given, r.born)
           ELSE ed
  /\ UNCHANGED <<edAsk, edLoadId, edServer, edDraft, edKept, edLeft>>

(* The answer counts when no later load was asked for and the design is     *)
(* the one it was asked over.                                               *)
EdOpened(r) ==
  /\ r.kind = "load" /\ r.at = "done" /\ edReqs' = edReqs \ {r}
  /\ ed' = IF r.expected = edLoadId /\ EdSame(r)
           THEN EdNamed(EdForgotten(EdReplaced(ed, r.snapshot, r.snapshot)), r.id, r.given, r.born)
           ELSE ed
  /\ UNCHANGED <<edAsk, edLoadId, edServer, edDraft, edKept, edLeft>>

-----------------------------------------------------------------------------
(* Saving.  A save takes the design of the moment and the revision that     *)
(* the store knows; only one runs at a time, a rename may run beside it.    *)
EdKnown(id) == IF ed.project = id THEN {ed.known} ELSE EdListed(id)
EdSaving == [ed EXCEPT !.status = "saving"]

EdSaveNew ==
  /\ EdClick /\ EdClicked /\ ed.status # "saving"
  /\ \A r \in edReqs : r.kind # "create"
  /\ ed' = EdSaving /\ edReqs' = edReqs \cup {EdRequest("create", EdNowhere)}
  /\ UNCHANGED <<edAsk, edLoadId, edServer, edDraft, edKept>>

EdUpdate(kind, id, expected) ==
  /\ edReqs' = edReqs \cup {[EdRequest(kind, id) EXCEPT !.expected = expected]}
  /\ ed' = IF kind = "save" THEN EdSaving ELSE ed

EdSave ==
  /\ EdClick /\ EdClicked /\ ed.project # EdNowhere /\ EdDirty(ed) /\ ed.status # "saving"
  /\ EdUpdate("save", ed.project, ed.known)
  /\ UNCHANGED <<edAsk, edLoadId, edServer, edDraft, edKept>>

EdRename(id) ==
  /\ EdClick /\ EdClicked /\ EdIsListed(id) /\ \A r \in edReqs : r.kind # "rename"
  /\ (\E known \in EdKnown(id) : EdUpdate("rename", id, known))
  /\ UNCHANGED <<edAsk, edLoadId, edServer, edDraft, edKept>>

(* "Overwrite with Current", of any project, with a confirmation.           *)
EdAskOverwrite(id) ==
  /\ EdClick /\ EdClicked /\ EdIsListed(id) /\ edAsk = EdNoAsk
  /\ \E known \in EdKnown(id) :
       edAsk' = [kind |-> "overwrite", id |-> id, session |-> ed.session, revision |-> ed.revision,
                 target |-> known, doc |-> ed.doc]
  /\ UNCHANGED <<ed, edReqs, edLoadId, edServer, edDraft, edKept>>

EdOverwrite ==
  /\ edAsk.kind = "overwrite" /\ EdSame(edAsk) /\ edAsk' = EdNoAsk
  /\ IF ed.status # "saving" /\ edAsk.target \in EdKnown(edAsk.id)
     THEN EdUpdate("save", edAsk.id, edAsk.target)
     ELSE UNCHANGED <<ed, edReqs>>
  /\ UNCHANGED <<edLoadId, edServer, edDraft, edKept, edLeft>>

(* The answer sets the saved design only in the session and for the project *)
(* it was sent from; edits made meanwhile stay unsaved.                     *)
EdSaved(r) ==
  /\ r.kind \in {"create", "save", "rename"} /\ r.at = "done" /\ edReqs' = edReqs \ {r}
  /\ ed' = IF ed.session # r.session THEN ed
           ELSE IF r.kind = "create"
           THEN EdSavedAs(ed, r)
           ELSE IF ed.project # r.id
           THEN IF r.kind = "save" THEN [ed EXCEPT !.status = EdStatus(ed)] ELSE ed
           ELSE IF r.kind = "save"
           THEN EdSavedAs(ed, r)
           ELSE [ed EXCEPT !.known = r.given,
                           !.drifted = @ \/ r.expected # ed.known \/ r.born # ed.born]
  /\ UNCHANGED <<edAsk, edLoadId, edServer, edDraft, edKept, edLeft>>

EdFailed(r) ==
  /\ r.at = "failed" /\ edReqs' = edReqs \ {r}
  /\ ed' = IF r.kind \in {"create", "save"} /\ ed.session = r.session
           THEN [ed EXCEPT !.status = "failed"] ELSE ed
  /\ r.kind # "settings"
  /\ UNCHANGED <<edAsk, edLoadId, edServer, edDraft, edKept, edLeft>>

(* deleteProject, deleteCategory: the design stays, without a project.      *)
EdDelete(id) ==
  /\ EdClick /\ EdClicked /\ EdIsListed(id) /\ \A r \in edReqs : r.kind # "delete"
  /\ edReqs' = edReqs \cup {EdRequest("delete", id)}
  /\ UNCHANGED <<ed, edAsk, edLoadId, edServer, edDraft, edKept>>

EdDeleted(r) ==
  /\ r.kind = "delete" /\ r.at = "done" /\ edReqs' = edReqs \ {r}
  /\ ed' = IF ed.project = r.id
           THEN EdUnnamed(EdReplaced(ed, ed.doc, EdNone))
           ELSE ed
  /\ UNCHANGED <<edAsk, edLoadId, edServer, edDraft, edKept, edLeft>>

-----------------------------------------------------------------------------
(* The default resolution is changed at once and put back when the server   *)
(* refuses it, if the design is still the changed one.                      *)
EdSettings ==
  /\ EdClick /\ EdClickedAnew /\ \A r \in edReqs : r.kind # "settings"
  /\ LET next == EdRecorded(ed, EdChanged(ed, edLeft.fresh)) IN
     /\ ed' = next
     /\ edReqs' = edReqs \cup {[EdRequest("settings", EdNowhere) EXCEPT
                                  !.session = next.session, !.revision = next.revision,
                                  !.over = next.doc, !.snapshot = ed.doc]}
  /\ UNCHANGED <<edAsk, edLoadId, edServer, edDraft, edKept>>

EdSettingsAnswered(r) ==
  /\ r.kind = "settings" /\ r.at # "sent" /\ edReqs' = edReqs \ {r}
  /\ ed' = IF r.at = "failed" /\ EdSame(r) THEN EdRecorded(ed, EdChanged(ed, r.snapshot)) ELSE ed
  /\ UNCHANGED <<edAsk, edLoadId, edServer, edDraft, edKept, edLeft>>

(* useMediaImport, useAiRequestOwner: a request that is dropped as soon as  *)
(* the design changes.  An import is not recorded in the history; the       *)
(* assistant's design is, and it may say which project it opened.           *)
EdAskFor(kind) ==
  /\ EdClick /\ EdClickedAnew /\ \A r \in edReqs : r.kind # kind
  /\ edReqs' = edReqs \cup {[EdRequest(kind, EdNowhere) EXCEPT !.snapshot = edLeft.fresh, !.at = "done"]}
  /\ UNCHANGED <<ed, edAsk, edLoadId, edServer, edDraft, edKept>>

EdImported(r) ==
  /\ r.kind = "import" /\ edReqs' = edReqs \ {r}
  /\ ed' = IF EdSame(r) THEN EdChanged(ed, r.snapshot) ELSE ed
  /\ UNCHANGED <<edAsk, edLoadId, edServer, edDraft, edKept, edLeft>>

EdAssisted(r) ==
  /\ r.kind = "assistant" /\ edReqs' = edReqs \ {r}
  /\ IF ~EdSame(r) THEN UNCHANGED ed ELSE
       LET next == EdRecorded(ed, EdChanged(ed, r.snapshot)) IN
       \/ ed' = next
       \/ \E id \in EdProjects :
            /\ EdExists(id)
            /\ ed' = [next EXCEPT !.project = id, !.known = Len(EdRows(id)),
                                 !.born = EdLife(id), !.drifted = TRUE]
  /\ UNCHANGED <<edAsk, edLoadId, edServer, edDraft, edKept, edLeft>>

-----------------------------------------------------------------------------
(* DocumentStatus: the recovery copy, kept while there is unsaved work, and *)
(* not written while an older copy waits for the user.  It is written after *)
(* half a second and when the page closes; only a crash finds an older one. *)
EdPersisted == IF edKept THEN edDraft ELSE IF EdDirty(ed) THEN ed.doc ELSE EdNone
EdReload(closing) ==
  /\ EdTrouble /\ ed # EdFresh
  /\ edDraft' = EdPersisted \/ (~closing /\ edDraft' = edDraft)
  /\ edKept' = (edDraft' # EdNone)
  /\ ed' = EdFresh /\ edAsk' = EdNoAsk /\ edReqs' = {} /\ edLoadId' = 0
  /\ UNCHANGED edServer

EdRecovers == EdUnnamed(EdForgotten(EdReplaced(ed, edDraft, EdNone)))
EdRecover ==
  /\ EdClick /\ EdClicked /\ edKept
  /\ IF EdDirty(ed)
     THEN /\ edAsk' = [EdNoAsk EXCEPT !.kind = "draft", !.session = ed.session,
                                      !.revision = ed.revision, !.doc = ed.doc]
          /\ UNCHANGED <<ed, edDraft, edKept>>
     ELSE ed' = EdRecovers /\ edKept' = FALSE /\ UNCHANGED <<edAsk, edDraft>>
  /\ UNCHANGED <<edReqs, edLoadId, edServer>>

EdConfirmRecover ==
  /\ edAsk.kind = "draft" /\ edAsk' = EdNoAsk
  /\ IF EdSame(edAsk) THEN ed' = EdRecovers /\ edKept' = FALSE ELSE UNCHANGED <<ed, edKept>>
  /\ UNCHANGED <<edReqs, edLoadId, edServer, edDraft, edLeft>>

EdDiscard ==
  /\ EdClick /\ EdClicked /\ edKept /\ edKept' = FALSE
  /\ edDraft' = IF EdDirty(ed) THEN ed.doc ELSE EdNone
  /\ UNCHANGED <<ed, edAsk, edReqs, edLoadId, edServer>>

-----------------------------------------------------------------------------
(* The server (services/projects.py): a revision per change, and a change   *)
(* only of the revision it expects.  An answer may be lost after the fact.  *)
EdCommit(id, doc) == edServer' = [edServer EXCEPT ![id].rows = Append(@, doc)]
EdRemove(id) ==
  edServer' = [edServer EXCEPT ![id] = [rows |-> <<>>, past |-> Append(EdPast(id), Len(EdRows(id)))]]
EdAnswer(r, answered) == edReqs' = (edReqs \ {r}) \cup {answered}
EdDone(r, id, revision, snapshot) ==
  EdAnswer(r, [r EXCEPT !.at = "done", !.id = id, !.given = revision, !.born = EdLife(id),
                        !.snapshot = snapshot])
EdRefuse(r) == EdAnswer(r, [r EXCEPT !.at = "failed"])

EdServeCreate(r) ==
  \E id \in EdProjects : EdNewId(id) /\ EdCommit(id, r.snapshot) /\ EdDone(r, id, 1, r.snapshot)

EdServe(r) ==
  /\ r.at = "sent"
  /\ LET rows == EdRows(r.id) IN
     CASE r.kind = "create" -> EdServeCreate(r)
       [] r.kind \in {"save", "rename"} ->
            IF ~EdExists(r.id) \/ Len(rows) # r.expected THEN EdRefuse(r) /\ UNCHANGED edServer
            ELSE /\ EdCommit(r.id, IF r.kind = "save" THEN r.snapshot ELSE rows[Len(rows)])
                 /\ EdDone(r, r.id, Len(rows) + 1, r.snapshot)
       [] r.kind = "load" ->
            /\ UNCHANGED edServer
            /\ IF ~EdExists(r.id) THEN EdRefuse(r) ELSE EdDone(r, r.id, Len(rows), rows[Len(rows)])
       [] r.kind = "delete" ->
            IF ~EdExists(r.id) THEN EdRefuse(r) /\ UNCHANGED edServer
            ELSE EdRemove(r.id) /\ EdDone(r, r.id, 0, r.snapshot)
       [] r.kind = "settings" ->
            UNCHANGED edServer /\ (EdAnswer(r, [r EXCEPT !.at = "done"]) \/ EdRefuse(r))
  /\ UNCHANGED <<ed, edAsk, edLoadId, edDraft, edKept, edLeft>>

EdAnswerLost(r) ==
  /\ EdTrouble /\ r.at = "done" /\ r.kind \notin {"import", "assistant"} /\ EdRefuse(r)
  /\ UNCHANGED <<ed, edAsk, edLoadId, edServer, edDraft, edKept>>

(* Another tab saves into a project, deletes it, or creates one.            *)
EdElsewhere(id) ==
  /\ EdTrouble
  /\ \/ EdExists(id) /\ (EdCommit(id, 2) \/ EdRemove(id))
     \/ EdNewId(id) /\ EdCommit(id, 2)
  /\ UNCHANGED <<ed, edAsk, edReqs, edLoadId, edDraft, edKept>>

EdAnswered(r) ==
  EdOpened(r) \/ EdSaved(r) \/ EdFailed(r) \/ EdDeleted(r) \/ EdSettingsAnswered(r) \/ EdImported(r) \/ EdAssisted(r)
EdStep == EdTimer \/ (\E r \in edReqs : EdServe(r) \/ EdAnswered(r))
EdNext ==
  \/ EdStep
  \/ \E to \in 1..EdHistory : EdTravel(to)
  \/ EdEdit \/ EdClear \/ EdSaveNew \/ EdSave \/ EdOverwrite \/ EdSettings
  \/ \E id \in EdProjects : EdOpen(id) \/ EdRename(id) \/ EdAskOverwrite(id) \/ EdDelete(id)
  \/ EdConfirmLoad \/ EdCancelAsk \/ EdConfirmRecover
  \/ EdAskFor("import") \/ EdAskFor("assistant")
  \/ EdRecover \/ EdDiscard \/ \E closing \in BOOLEAN : EdReload(closing)
  \/ \E r \in edReqs : EdAnswerLost(r)
  \/ \E id \in EdProjects : EdElsewhere(id)

EdSpec == EdInit /\ [][EdNext]_edVars

-----------------------------------------------------------------------------
(* What the properties below rest on.                                       *)
EdStores == [doc : Nat, base : Nat, session : Nat, revision : Nat,
             status : {"saved", "dirty", "saving", "failed"}, project : EdProjects \cup {EdNowhere},
             known : Nat, born : Nat, hist : Seq(Nat), idx : Nat, stored : Nat, timer : BOOLEAN, drifted : BOOLEAN]
EdAsks == [kind : {"none", "load", "overwrite", "draft"}, id : EdProjects \cup {EdNowhere},
           session : Nat, revision : Nat, target : Nat, doc : Nat]
EdUpdates == {"create", "save", "rename", "load", "delete"}
EdRequests == [kind : EdUpdates \cup {"settings", "import", "assistant"}, id : EdProjects \cup {EdNowhere},
               session : Nat, revision : Nat, over : Nat, snapshot : Nat, expected : Nat,
               at : {"sent", "done", "failed"}, given : Nat, born : Nat]
EdTypeOK ==
  /\ ed \in EdStores /\ ed.idx <= Len(ed.hist) /\ edReqs \subseteq EdRequests /\ edLoadId \in Nat
  /\ edAsk \in EdAsks /\ (edAsk.kind \in {"load", "overwrite"} => edAsk.id \in EdProjects)
  /\ edServer \in [EdProjects -> [rows : Seq(Nat), past : Seq(Nat)]] /\ edDraft \in Nat /\ edKept \in BOOLEAN
  /\ edLeft \in [fresh : Nat, clicks : Nat, others : Nat]

(* A session and a revision name one design, for as long as they last.      *)
EdNames(r, doc) ==
  r.session <= ed.session /\ r.revision <= ed.revision /\ (EdSame(r) => ed.doc = doc)
EdNamesInv ==
  /\ \A r \in edReqs : EdNames(r, r.over)
  /\ edAsk.kind # "none" => EdNames(edAsk, edAsk.doc)

(* A revision of a project holds a design, as long as that project has its  *)
(* id.                                                                      *)
EdHolds(id, born, revision, doc) ==
  /\ id \in EdProjects /\ born <= EdLife(id)
  /\ born = EdLife(id) => revision \in 1..Len(EdRows(id)) /\ EdRows(id)[revision] = doc
EdStoredInv ==
  /\ (ed.project # EdNowhere /\ ~ed.drifted /\ ed.base # EdNone)
       => EdHolds(ed.project, ed.born, ed.known, ed.base)
  /\ \A r \in edReqs :
       /\ r.kind \in EdUpdates => r.id \in EdProjects \/ r.kind = "create"
       /\ r.kind \in {"create", "save", "load"} /\ r.at = "done" =>
            EdHolds(r.id, r.born, r.given, r.snapshot)
       /\ r.kind = "rename" /\ r.at = "done" =>
            /\ EdHolds(r.id, r.born, r.given, EdRows(r.id)[r.expected])
            /\ r.born = EdLife(r.id) => r.expected \in 1..Len(EdRows(r.id))
       /\ r.kind \in {"import", "assistant"} => r.at = "done"
EdInv == EdTypeOK /\ EdNamesInv /\ EdStoredInv

-----------------------------------------------------------------------------
(* What is shown as saved is saved: as long as the project is there that    *)
(* the tab opened or saved, its known revision holds the design.  When it   *)
(* was deleted elsewhere, the tab goes on saying saved of a design that is  *)
(* lost, even when another project has got the id.  Nothing is said of a    *)
(* session that has drifted, until it saves again: the assistant opened a   *)
(* project in it (undo then shows the design before it under that name), or *)
(* a rename was answered that began at a revision never shown here, or was  *)
(* one of another project with that id.                                     *)
EdSavedIsStored ==
  ~EdDirty(ed) /\ ed.project # EdNowhere /\ ~ed.drifted /\ ed.born = EdLife(ed.project)
    => ed.known \in 1..Len(EdRows(ed.project)) /\ EdRows(ed.project)[ed.known] = ed.doc

(* "Your edits were kept" (persistence.js): an answer replaces the design   *)
(* it was asked over and no other, and unsaved edits are given up only in a *)
(* confirmation that showed them.                                           *)
EdAnswersKeepEdits ==
  /\ \A r \in edReqs \ edReqs' : ed' # EdFresh /\ ed'.doc # ed.doc => ed.doc = r.over
  /\ \A r \in edReqs' \ edReqs : r.kind = "load" /\ EdDirty(ed) /\ r.at = "sent" => edAsk.doc = ed.doc
=============================================================================
