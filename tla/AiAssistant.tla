----------------------------- MODULE AiAssistant -----------------------------
(***************************************************************************)
(* The assistant: an editor tab that asks (useAiLiveSession,               *)
(* useExternalAi, useAiRequestOwner, utils/aiCanvas), the server's loop of *)
(* completions and tools (api/routes_ai.py) and the tools, which work on a *)
(* copy of the canvas and on the saved projects (services/ai_tools.py).    *)
(*                                                                         *)
(* A turn is one request of the tab.  The tab gives a turn up when its     *)
(* design or conversation changes; the server works on all the same.       *)
(*                                                                         *)
(* A canvas is the turn that drew it last (0 for what was there), the      *)
(* project and revision it was loaded from, the numbers its pages carry    *)
(* and the actions it has for the editor.  A conversation is the turns its *)
(* messages tell.  The id of a deleted project is handed out again         *)
(* (services/projects.py keeps projects under SQLite's rowids).            *)
(***************************************************************************)
EXTENDS Integers, Sequences, FiniteSets, SequencesExt

CONSTANTS AaNone, AaGone,
          AaProjects,     \* ids of saved projects, there first and to come
          AaFirst,        \* the project the tab has open at first
          AaTools,        \* what the model may ask for: [tool, to]
          AaTurns,        \* bound: turns
          AaIterations,   \* MAX_ITERATIONS of the loop
          AaRounds,       \* MAX_VISUAL_ROUNDS of the tab
          AaReplyCalls,   \* bound: tool calls in one reply
          AaTrouble       \* bound: what goes wrong, and what others do

ASSUME AiAssumption ==
  /\ {AaTurns, AaTrouble, AaIterations} \subseteq Nat /\ AaFirst \in AaProjects /\ AaProjects \subseteq Nat
  /\ AaNone \notin Nat
  /\ \A call \in AaTools : /\ call.to \in Int
                           /\ call.tool \in {"load", "update", "delete"} => call.to \in AaProjects

Turns == 1..AaTurns
AaConvs == 1..AaTurns

VARIABLES
  aaTab,       \* the editor
  aaNet,       \* requests and replies under way
  aaChats,     \* [Turns -> the server's work on a turn]
  aaStore,     \* id -> [revision, design, last]: revision 0 when there is no such
               \* project, last the largest revision ever stored under the id
  aaStored,    \* [AaConvs -> set of turns; AaNone before, AaGone after]
  aaOwn,       \* the turns of the chat the tab is in, however it went on
  aaTurn,      \* turns begun
  aaLeft

aaVars == <<aaTab, aaNet, aaChats, aaStore, aaStored, aaOwn, aaTurn, aaLeft>>

AaCanvas(design, project, revision) ==
  [design |-> design, project |-> project, revision |-> revision,
   pages |-> <<0>>, actions |-> <<>>]
AaIdle == [phase |-> "idle", canvas |-> AaCanvas(0, AaNone, 0),
           calls |-> <<>>, iteration |-> 0, preview |-> FALSE, manual |-> FALSE]
AaNoTask == [turn |-> 0, step |-> "none", edits |-> 0, version |-> 0,
             conv |-> AaNone, messages |-> {}]

AaAbsent == [revision |-> 0, design |-> 0, last |-> 0]
AaExists(store, p) == store[p].revision # 0
AaPut(store, p, revision, design) ==
  [store EXCEPT ![p] = [revision |-> revision, design |-> design,
                        last |-> IF revision > @.last THEN revision ELSE @.last]]

AaInit ==
  /\ aaStore = AaPut([p \in AaProjects |-> AaAbsent], AaFirst, 1, 0)
  /\ aaTab = [design |-> 0, project |-> AaFirst, revision |-> 1, edits |-> 0,
              version |-> 0, conv |-> AaNone, messages |-> {}, task |-> AaNoTask,
              scheduled |-> FALSE, round |-> 0]
  /\ aaNet = {} /\ aaChats = [t \in Turns |-> AaIdle]
  /\ aaStored = [c \in AaConvs |-> AaNone]
  /\ aaOwn = {}
  /\ aaTurn = 0 /\ aaLeft = AaTrouble

-----------------------------------------------------------------------------
(* The tools: what one call makes of the canvas and the saved projects.    *)
AaDid(canvas, store) == [canvas |-> canvas, store |-> store, ok |-> TRUE]
AaError(canvas, store) == [canvas |-> canvas, store |-> store, ok |-> FALSE]
AaActs(canvas, action) == [canvas EXCEPT !.actions = Append(@, action)]
AaLoadedAction(p, r) == [action |-> "loaded", project |-> p, revision |-> r]
AaPlain(name) == [action |-> name, project |-> AaNone, revision |-> 0]

(* Text, codes, sizes, presets, records: checked first, then drawn.        *)
AaDraw(canvas, turn) == [canvas EXCEPT !.design = turn]

(* Pages up to the one asked for are appended, and it is replaced; a       *)
(* negative number counts from the end, or fails when there is no page.    *)
AaLayout(canvas, at, turn) ==
  LET pages == canvas.pages \o [i \in 1..(at + 1 - Len(canvas.pages)) |-> Len(canvas.pages) + i - 1]
      slot == IF at < 0 THEN Len(pages) + at + 1 ELSE at + 1
  IN [AaDraw(canvas, turn) EXCEPT !.pages = [pages EXCEPT ![slot] = at]]

AaClear(canvas, turn) ==
  [AaDraw(canvas, turn) EXCEPT !.pages = <<0>>, !.project = AaNone, !.revision = 0]

(* The canvas becomes what was saved, with nothing of what it was.         *)
AaLoad(store, p) ==
  AaActs(AaCanvas(store[p].design, p, store[p].revision), AaLoadedAction(p, store[p].revision))

(* One above the largest id there is.                                      *)
AaNewId(store) ==
  {p \in AaProjects : /\ \A q \in AaProjects : AaExists(store, q) => q < p
                      /\ \A q \in AaProjects : q < p => \E o \in AaProjects : o >= q /\ AaExists(store, o)}

AaSave(canvas, store) ==
  LET p == CHOOSE q \in AaNewId(store) : TRUE
  IN AaDid([AaActs(AaActs(canvas, AaLoadedAction(p, 1)), AaPlain("refresh"))
              EXCEPT !.project = p, !.revision = 1],
           AaPut(store, p, 1, canvas.design))

(* Only the loaded project, only at the revision that was loaded.          *)
AaUpdate(canvas, store, p) ==
  LET r == canvas.revision + 1
  IN IF canvas.project # p \/ ~AaExists(store, p) \/ store[p].revision # canvas.revision
     THEN AaError(canvas, store)
     ELSE AaDid([AaActs(AaActs(canvas, AaLoadedAction(p, r)), AaPlain("refresh"))
                   EXCEPT !.revision = r],
                AaPut(store, p, r, canvas.design))

(* Deleting and printing are only proposed.                                *)
AaReview(canvas, name) ==
  IF AaPlain(name) \in Range(canvas.actions) THEN canvas ELSE AaActs(canvas, AaPlain(name))

AaExecute(call, canvas, store, turn) ==
  CASE call.tool = "draw" -> AaDid(AaDraw(canvas, turn), store)
    [] call.tool = "page" -> AaDid(AaLayout(canvas, call.to, turn), store)
    [] call.tool = "clear" -> AaDid(AaClear(canvas, turn), store)
    [] call.tool = "load" ->
         IF ~AaExists(store, call.to) THEN AaError(canvas, store)
         ELSE AaDid(AaLoad(store, call.to), store)
    [] call.tool = "save" ->
         IF AaNewId(store) = {} THEN AaError(canvas, store) ELSE AaSave(canvas, store)
    [] call.tool = "update" -> AaUpdate(canvas, store, call.to)
    [] call.tool = "delete" ->
         IF ~AaExists(store, call.to) THEN AaError(canvas, store)
         ELSE AaDid(AaReview(canvas, "deletion_review"), store)
    [] call.tool = "print" -> AaDid(AaActs(canvas, AaPlain("print_review")), store)
    [] call.tool \in {"folder", "bounds"} -> AaDid(AaActs(canvas, AaPlain("refresh")), store)
    [] call.tool \in {"list", "preview"} -> AaDid(canvas, store)
    [] OTHER -> AaError(canvas, store)   \* unknown tool, malformed arguments

-----------------------------------------------------------------------------
(* The server.                                                             *)
AaOther == UNCHANGED <<aaStored, aaOwn, aaTurn>>

AaServeCreate(r) ==
  /\ r.kind = "create"
  /\ \E c \in AaConvs :
       /\ \A d \in AaConvs : (aaStored[d] = AaNone) <=> (d >= c)
       /\ aaStored' = [aaStored EXCEPT ![c] = r.messages]
       /\ aaNet' = (aaNet \ {r}) \cup {[r EXCEPT !.kind = "created", !.conv = c]}
  /\ UNCHANGED <<aaTab, aaChats, aaStore, aaOwn, aaTurn, aaLeft>>

AaServeChat(r) ==
  /\ r.kind = "chat"
  /\ aaNet' = aaNet \ {r}
  /\ aaChats' = [aaChats EXCEPT ![r.turn] =
       [AaIdle EXCEPT !.phase = "asking", !.canvas = r.canvas]]
  /\ UNCHANGED <<aaTab, aaStore, aaLeft>> /\ AaOther

(* /manual/execute: the calls come with the request.                       *)
AaServeManual(r) ==
  /\ r.kind = "manual"
  /\ aaNet' = aaNet \ {r}
  /\ \E call \in AaTools :
       aaChats' = [aaChats EXCEPT ![r.turn] =
         [AaIdle EXCEPT !.phase = "running", !.canvas = r.canvas, !.calls = <<call>>,
                        !.iteration = AaIterations, !.manual = TRUE]]
  /\ UNCHANGED <<aaTab, aaStore, aaLeft>> /\ AaOther

AaServePut(r) ==
  /\ r.kind = "put"
  /\ aaStored' = IF aaStored[r.conv] = AaGone THEN aaStored
                 ELSE [aaStored EXCEPT ![r.conv] = r.messages]
  /\ aaNet' = (aaNet \ {r}) \cup {[r EXCEPT !.kind = "kept"]}
  /\ UNCHANGED <<aaTab, aaChats, aaStore, aaOwn, aaTurn, aaLeft>>

AaReply(t, kind, canvas) ==
  aaNet' = aaNet \cup {[kind |-> kind, turn |-> t, conv |-> AaNone, messages |-> {},
                        canvas |-> canvas]}

(* A completion: no tool calls, or some; at the last iteration the model   *)
(* is not offered any.                                                     *)
AaCompletes(t) ==
  /\ aaChats[t].phase = "asking"
  /\ \/ /\ aaChats' = [aaChats EXCEPT ![t] = AaIdle]
        /\ AaReply(t, "answer", aaChats[t].canvas)
     \/ /\ aaChats[t].iteration < AaIterations - 1
        /\ \E k \in 1..AaReplyCalls : \E calls \in [1..k -> AaTools] :
             aaChats' = [aaChats EXCEPT ![t].phase = "running", ![t].calls = calls,
                                        ![t].iteration = @ + 1]
        /\ UNCHANGED aaNet
  /\ UNCHANGED <<aaTab, aaStore, aaLeft>> /\ AaOther

(* The model, the provider or the trace fails: the reply carries the       *)
(* canvas of the request, whatever the tools have done by now.             *)
AaChatFails(t) ==
  /\ aaLeft > 0 /\ aaLeft' = aaLeft - 1
  /\ aaChats[t].phase = "asking"
  /\ aaChats' = [aaChats EXCEPT ![t] = AaIdle]
  /\ AaReply(t, "failed", AaCanvas(0, AaNone, 0))
  /\ UNCHANGED <<aaTab, aaStore>> /\ AaOther

(* The next call is executed and answered; a preview ends the turn when    *)
(* the calls of its reply are done.                                        *)
AaRuns(t) ==
  LET chat == aaChats[t]
      done == AaExecute(Head(chat.calls), chat.canvas, aaStore, t)
      preview == chat.preview \/ Head(chat.calls).tool = "preview"
      canvas == IF preview /\ Len(chat.calls) = 1 /\ ~chat.manual
                THEN AaActs(done.canvas, AaPlain("preview")) ELSE done.canvas
  IN /\ chat.phase = "running"
     /\ aaStore' = done.store
     /\ IF Len(chat.calls) > 1
        THEN /\ aaChats' = [aaChats EXCEPT ![t].calls = Tail(@), ![t].canvas = canvas,
                                           ![t].preview = preview]
             /\ UNCHANGED aaNet
        ELSE IF preview \/ chat.manual
        THEN /\ aaChats' = [aaChats EXCEPT ![t] = AaIdle]
             /\ AaReply(t, "answer", canvas)
        ELSE /\ aaChats' = [aaChats EXCEPT ![t].calls = <<>>, ![t].canvas = canvas,
                                           ![t].phase = "asking"]
             /\ UNCHANGED aaNet
     /\ UNCHANGED <<aaTab, aaLeft>> /\ AaOther

(* Another editor updates a saved project, deletes it, or saves a new one.  *)
AaOthers(p) ==
  /\ aaLeft > 0 /\ aaLeft' = aaLeft - 1
  /\ \/ /\ AaExists(aaStore, p)
        /\ \/ aaStore' = AaPut(aaStore, p, aaStore[p].revision + 1, 0)
           \/ aaStore' = [aaStore EXCEPT ![p].revision = 0]
     \/ p \in AaNewId(aaStore) /\ aaStore' = AaPut(aaStore, p, 1, 0)
  /\ UNCHANGED <<aaTab, aaNet, aaChats>> /\ AaOther

-----------------------------------------------------------------------------
(* The tab.                                                                *)

(* Mutated form of AaMatches: the conversation is not compared.            *)
AaMatchesDesign(tab) == tab.task.edits = tab.edits

(* useAiRequestOwner: the design and the conversation are those of then.   *)
AaMatches(tab) == tab.task.edits = tab.edits /\ tab.task.version = tab.version

AaBusy == aaTab.task.turn # 0
AaAwaits(r, step) ==
  aaTab.task.turn = r.turn /\ aaTab.task.step = step

(* A change of the store cancels the task and the scheduled preview unless *)
(* it still matches.                                                       *)
AaKeeps(tab) ==
  IF AaMatches(tab) /\ tab.conv = aaTab.conv THEN tab ELSE [tab EXCEPT !.task = AaNoTask, !.scheduled = FALSE]

AaRequest(kind, conv, messages) ==
  [kind |-> kind, turn |-> aaTurn + 1, conv |-> conv, messages |-> messages,
   canvas |-> AaCanvas(aaTab.design, aaTab.project, aaTab.revision)]

AaBegins(round, step) ==
  LET turn == aaTurn + 1
      messages == IF step = "manual" THEN aaTab.messages ELSE aaTab.messages \cup {turn}
  IN /\ aaTurn < AaTurns /\ aaTurn' = turn
     /\ ~AaBusy
     /\ aaTab' = [aaTab EXCEPT !.messages = messages, !.round = round, !.scheduled = FALSE,
          !.task = [turn |-> turn, step |-> step, edits |-> aaTab.edits,
                    version |-> aaTab.version, conv |-> aaTab.conv, messages |-> messages]]
     /\ aaOwn' = IF step = "manual" THEN aaOwn ELSE aaOwn \cup {turn}
     /\ UNCHANGED <<aaChats, aaStore, aaStored, aaLeft>>

(* handleSendLive: a new conversation is created first.                    *)
AaSends(round) ==
  IF aaTab.conv = AaNone
  THEN /\ AaBegins(round, "create")
       /\ aaNet' = aaNet \cup {AaRequest("create", AaNone, aaTab.messages)}
  ELSE /\ AaBegins(round, "chat")
       /\ aaNet' = aaNet \cup {AaRequest("chat", aaTab.conv, {})}

AaSend == ~aaTab.scheduled /\ AaSends(0)
AaSendPreview == aaTab.scheduled /\ AaSends(aaTab.round + 1)

(* handleExecuteExternal, for a prompt made of the same design.            *)
AaSendManual ==
  /\ ~aaTab.scheduled
  /\ AaBegins(0, "manual")
  /\ aaNet' = aaNet \cup {AaRequest("manual", AaNone, {})}

(* The conversation is adopted, or the turn goes on without one.           *)
AaCreated(r) ==
  /\ r.kind \in {"created", "lost"}
  /\ AaAwaits(r, "create")
  /\ aaTab' = [aaTab EXCEPT !.conv = r.conv, !.task.conv = r.conv, !.task.step = "chat"]
  /\ aaNet' = (aaNet \ {r}) \cup
       {[r EXCEPT !.kind = "chat", !.messages = {},
          !.canvas = AaCanvas(aaTab.design, aaTab.project, aaTab.revision)]}
  /\ UNCHANGED <<aaChats, aaStore, aaStored, aaOwn, aaTurn, aaLeft>>

(* applyAiCanvasResult: the canvas, then its actions in order, of which    *)
(* the last one that loads a project stays.                                *)
AaLoadedActions(canvas) == {i \in DOMAIN canvas.actions : canvas.actions[i].action = "loaded"}
AaLastLoaded(canvas) == canvas.actions[Max(AaLoadedActions(canvas))]
AaApplied(tab, canvas) ==
  LET loaded == AaLoadedActions(canvas)
      told == IF loaded = {} THEN AaLoadedAction(tab.project, tab.revision) ELSE AaLastLoaded(canvas)
      preview == AaPlain("preview") \in Range(canvas.actions)
  IN [tab EXCEPT !.design = canvas.design, !.project = told.project,
        !.revision = told.revision, !.edits = @ + 1,
        !.messages = IF tab.task.step = "manual" THEN @ ELSE tab.task.messages,
        !.task = AaNoTask,
        !.scheduled = preview /\ tab.round < AaRounds]

(* The answer of a turn: its messages are stored before it is applied.     *)
AaAnswered(r) ==
  /\ r.kind = "answer"
  /\ AaAwaits(r, "chat")
  /\ IF aaTab.task.conv # AaNone
     THEN /\ aaTab' = [aaTab EXCEPT !.task.step = "put"]
          /\ aaNet' = (aaNet \ {r}) \cup
               {[r EXCEPT !.kind = "put", !.conv = aaTab.task.conv,
                          !.messages = aaTab.task.messages]}
     ELSE /\ aaNet' = aaNet \ {r}
          /\ aaTab' = AaApplied(aaTab, r.canvas)
  /\ UNCHANGED <<aaChats, aaStore, aaStored, aaOwn, aaTurn, aaLeft>>

(* Stored or not, the reply is taken.                                      *)
AaKept(r) ==
  /\ r.kind \in {"kept", "lost"}
  /\ AaAwaits(r, "put")
  /\ aaNet' = aaNet \ {r}
  /\ aaTab' = AaApplied(aaTab, r.canvas)
  /\ UNCHANGED <<aaChats, aaStore, aaStored, aaOwn, aaTurn, aaLeft>>

AaManualDone(r) ==
  /\ r.kind = "answer"
  /\ AaAwaits(r, "manual")
  /\ aaNet' = aaNet \ {r}
  /\ aaTab' = AaApplied(aaTab, r.canvas)
  /\ UNCHANGED <<aaChats, aaStore, aaStored, aaOwn, aaTurn, aaLeft>>

AaFailed(r) ==
  /\ \/ r.kind = "failed" /\ AaAwaits(r, "chat")
     \/ r.kind = "lost" /\ aaTab.task.turn = r.turn /\ aaTab.task.step \in {"chat", "manual"}
  /\ aaNet' = aaNet \ {r}
  /\ aaTab' = [aaTab EXCEPT !.task = AaNoTask]
  /\ UNCHANGED <<aaChats, aaStore, aaStored, aaOwn, aaTurn, aaLeft>>

(* A reply nobody waits for any more.                                      *)
AaDropped(r) ==
  /\ r.kind \in {"created", "answer", "kept", "failed", "lost"}
  /\ aaTab.task.turn # r.turn
  /\ aaNet' = aaNet \ {r}
  /\ UNCHANGED <<aaTab, aaChats, aaStore, aaLeft>> /\ AaOther

(* The connection breaks, or the timeout ends the wait: the tab sees an    *)
(* error whether or not the server goes on.                                *)
AaLoses(r) ==
  /\ aaLeft > 0 /\ aaLeft' = aaLeft - 1
  /\ r.kind # "lost"
  /\ \E served \in BOOLEAN :
       LET lost == [r EXCEPT !.kind = "lost", !.conv = AaNone] IN
       aaNet' = IF served /\ r.kind \in {"create", "chat", "manual", "put"}
                THEN aaNet \cup {lost} ELSE (aaNet \ {r}) \cup {lost}
  /\ UNCHANGED <<aaTab, aaChats, aaStore>> /\ AaOther

(* The user edits, starts a new chat, opens a stored conversation or       *)
(* deletes one; the last two own the tab while they run.                   *)
AaUserDoes(tab, own) ==
  /\ aaLeft > 0 /\ aaLeft' = aaLeft - 1
  /\ aaTab' = AaKeeps(tab)
  /\ aaOwn' = own
  /\ UNCHANGED <<aaNet, aaChats, aaStore, aaTurn>>

AaEdits == AaUserDoes([aaTab EXCEPT !.edits = @ + 1], aaOwn) /\ UNCHANGED aaStored

AaResets ==
  /\ AaUserDoes([aaTab EXCEPT !.version = @ + 1, !.conv = AaNone, !.messages = {}], {})
  /\ UNCHANGED aaStored

AaIsOpen(c) == aaStored[c] \notin {AaNone, AaGone}

AaOpensHistory(c) ==
  /\ ~AaBusy /\ AaIsOpen(c)
  /\ AaUserDoes([aaTab EXCEPT !.conv = c, !.messages = aaStored[c], !.version = @ + 1],
                aaStored[c])
  /\ UNCHANGED aaStored

AaDeletesHistory(c) ==
  /\ ~AaBusy /\ AaIsOpen(c)
  /\ aaStored' = [aaStored EXCEPT ![c] = AaGone]
  /\ AaUserDoes(IF aaTab.conv = c THEN [aaTab EXCEPT !.conv = AaNone] ELSE aaTab, aaOwn)

AaServerStep ==
  \/ \E r \in aaNet : AaServeCreate(r) \/ AaServeChat(r) \/ AaServeManual(r) \/ AaServePut(r)
  \/ \E t \in Turns : AaCompletes(t) \/ AaRuns(t)
AaTabStep ==
  \/ \E r \in aaNet : AaCreated(r) \/ AaAnswered(r) \/ AaKept(r) \/ AaManualDone(r)
                      \/ AaFailed(r) \/ AaDropped(r)
  \/ AaSendPreview
AaStep == AaServerStep \/ AaTabStep

AaMeets ==
  \/ \E r \in aaNet : AaLoses(r)
  \/ \E t \in Turns : AaChatFails(t)
  \/ \E p \in AaProjects : AaOthers(p)
  \/ AaEdits \/ AaResets \/ AaSend \/ AaSendManual
  \/ \E c \in AaConvs : AaOpensHistory(c) \/ AaDeletesHistory(c)

AaNext == AaStep \/ AaMeets
AaSpec == AaInit /\ [][AaNext]_aaVars /\ WF_aaVars(AaStep)

-----------------------------------------------------------------------------
(* The messages shown are those of the chat the tab is in: the reply of a  *)
(* chat that was left does not come back (useAiRequestOwner.js).           *)
AaChatsApart == aaTab.messages = aaOwn

(* What an answer tells the editor about the project it now has open is    *)
(* what the tools left: the editor's next save names the revision that was *)
(* stored, whatever was loaded, saved and updated before it, unless the    *)
(* canvas was cleared (services/ai_tools.py, utils/aiCanvas.js).           *)
AaActionsTell ==
  \A r \in aaNet :
    (r.kind = "answer" /\ r.canvas.project # AaNone /\ AaLoadedActions(r.canvas) # {}) =>
      /\ AaLastLoaded(r.canvas).project = r.canvas.project
      /\ AaLastLoaded(r.canvas).revision = r.canvas.revision

(* The project and the revision the tab names were stored, by it, by its   *)
(* assistant or by somebody else, though the project may be gone by now    *)
(* and its id another project's.                                           *)
AaRevisionIsStored ==
  aaTab.project # AaNone => aaTab.revision \in 1..aaStore[aaTab.project].last

AaEnded == ~AaBusy /\ aaNet = {} /\ \A t \in Turns : aaChats[t].phase = "idle"

(* What the proofs add: a turn the tab waits for tells the chat it is in,  *)
(* and no canvas, wherever it is, and none of its actions names a revision *)
(* that was never stored; the last project it loaded is the one it has.      *)
AaProject == AaProjects \cup {AaNone}
AaAction == [action : {"loaded", "refresh", "deletion_review", "print_review", "preview"},
             project : AaProject, revision : Nat]
AaCanvases == [design : 0..AaTurns, project : AaProject, revision : Nat,
               pages : Seq(Int), actions : Seq(AaAction)]
AaConv == AaConvs \cup {AaNone}
AaTasks == [turn : 0..AaTurns, step : {"none", "create", "chat", "manual", "put"}, edits : Nat,
            version : Nat, conv : AaConv, messages : SUBSET Turns]
AaTabs == [design : 0..AaTurns, project : AaProject, revision : Nat, edits : Nat, version : Nat,
           conv : AaConv, messages : SUBSET Turns, task : AaTasks, scheduled : BOOLEAN, round : Nat]
AaLetters == [kind : {"create", "created", "chat", "manual", "put", "kept", "answer", "failed", "lost"},
              turn : Turns, conv : AaConv, messages : SUBSET Turns, canvas : AaCanvases]
AaChat == [phase : {"idle", "asking", "running"}, canvas : AaCanvases, calls : Seq(AaTools),
           iteration : Nat, preview : BOOLEAN, manual : BOOLEAN]
AaTypeOK ==
  /\ aaTab \in AaTabs /\ aaNet \subseteq AaLetters /\ aaChats \in [Turns -> AaChat]
  /\ aaStore \in [AaProjects -> [revision : Nat, design : 0..AaTurns, last : Nat]]
  /\ \A p \in AaProjects : aaStore[p].revision <= aaStore[p].last
  /\ aaStored \in [AaConvs -> (SUBSET Turns) \cup {AaNone, AaGone}]
  /\ aaOwn \subseteq Turns /\ aaTurn \in 0..AaTurns /\ aaLeft \in Nat
AaChatInv ==
  aaTab.task.turn # 0 =>
    /\ aaTab.task.version <= aaTab.version
    /\ aaTab.task.step # "manual" => aaTab.task.messages = aaTab.messages
AaKnown(store, p, revision) ==
  p # AaNone => revision \in 1..store[p].last
AaTells(canvas) ==
  AaLoadedActions(canvas) # {} =>
    \E i \in AaLoadedActions(canvas) :
      /\ \A j \in AaLoadedActions(canvas) : j <= i
      /\ canvas.project # AaNone =>
           /\ canvas.actions[i].project = canvas.project
           /\ canvas.actions[i].revision = canvas.revision
AaCanvasOK(store, canvas) ==
  /\ AaKnown(store, canvas.project, canvas.revision) /\ AaTells(canvas)
  /\ \A i \in AaLoadedActions(canvas) :
       AaKnown(store, canvas.actions[i].project, canvas.actions[i].revision)
AaCanvasInv ==
  /\ \A r \in aaNet : AaCanvasOK(aaStore, r.canvas)
  /\ \A t \in Turns : /\ AaCanvasOK(aaStore, aaChats[t].canvas)
                      /\ aaChats[t].phase = "running" => aaChats[t].calls # <<>>
AaInv == AaTypeOK /\ AaChatsApart /\ AaChatInv /\ AaCanvasInv /\ AaRevisionIsStored
=============================================================================
