---------------------------- MODULE Editor_proofs ----------------------------
(* What the editor keeps, for every number of edits, answers and troubles:   *)
(* a design that is shown as saved is stored and no answer undoes an edit    *)
(* (EdInv), the printer shown is the one chosen and a design keeps its size  *)
(* (PfInv), and a sheet stays whole while its elements and pages move about  *)
(* (EpInv).                                                                  *)
EXTENDS EditorDocument, EditorPrinter, EditorPages, Folds_proofs

-----------------------------------------------------------------------------
(* The design in the editor and its copies (state/documentLifecycle.js,    *)
(* history.js, slices/persistence.js).                                     *)

\* What the store of the editor may be.
EdIsStore(e) == e \in EdStores /\ e.idx <= Len(e.hist)

\* The same project at the same revision, with what was saved of it.
EdKeeps(e, n) ==
  n.project = e.project /\ n.known = e.known /\ n.born = e.born /\ n.drifted = e.drifted /\ n.base = e.base

\* A later store: the design only changes with the revision.
EdFollows(e, n) ==
  /\ EdIsStore(n) /\ n.session >= e.session /\ n.revision >= e.revision
  /\ (n.session = e.session /\ n.revision = e.revision) => n.doc = e.doc

\* A status is one.
LEMMA EdStatusIs ==
  ASSUME NEW e PROVE EdStatus(e) \in {"saved", "dirty", "saving", "failed"}
BY DEF EdStatus

\* What an update of the design leaves of the store.
LEMMA EdChangedIs ==
  ASSUME NEW e, EdIsStore(e), NEW doc \in Nat
  PROVE  EdFollows(e, EdChanged(e, doc)) /\ EdKeeps(e, EdChanged(e, doc)) /\ EdChanged(e, doc).doc = doc
         /\ EdChanged(e, doc).idx = e.idx /\ EdChanged(e, doc).hist = e.hist
<1> DEFINE next == [e EXCEPT !.doc = doc, !.revision = @ + (IF doc # e.doc THEN 1 ELSE 0)]
<1>1. next \in EdStores /\ EdFollows(e, next) /\ EdKeeps(e, next) /\ next.doc = doc
      /\ next.idx = e.idx /\ next.hist = e.hist
  <2>1. PICK revision \in Nat : /\ revision = e.revision + (IF doc # e.doc THEN 1 ELSE 0)
                                /\ revision >= e.revision /\ (revision = e.revision => doc = e.doc)
    <3>1. e.revision \in Nat
      BY DEF EdIsStore, EdStores
    <3> QED BY <3>1
  <2>2. next = [e EXCEPT !.doc = doc, !.revision = revision]
    BY <2>1
  <2> HIDE DEF next
  <2>3. /\ next \in EdStores /\ next.doc = doc /\ next.revision = revision /\ next.session = e.session
        /\ next.idx = e.idx /\ next.hist = e.hist /\ next.base = e.base
        /\ next.project = e.project /\ next.known = e.known /\ next.born = e.born /\ next.drifted = e.drifted
    BY <2>1, <2>2 DEF EdIsStore, EdStores
  <2>4. next.session >= e.session
    BY <2>3 DEF EdIsStore, EdStores
  <2>5. EdKeeps(e, next) /\ EdIsStore(next)
    BY <2>3 DEF EdKeeps, EdIsStore
  <2> QED BY <2>1, <2>3, <2>4, <2>5 DEF EdFollows
<1> HIDE DEF next
<1>2. PICK st \in {"saved", "dirty", "saving", "failed"} : st = EdStatus(next)
  BY EdStatusIs
<1>3. EdChanged(e, doc) = IF doc # e.doc /\ e.status # "saving" THEN [next EXCEPT !.status = st] ELSE next
  BY <1>2 DEF EdChanged, next
<1>4. [next EXCEPT !.status = st] \in EdStores /\ EdFollows(e, [next EXCEPT !.status = st])
      /\ EdKeeps(e, [next EXCEPT !.status = st]) /\ [next EXCEPT !.status = st].doc = doc
      /\ [next EXCEPT !.status = st].idx = e.idx /\ [next EXCEPT !.status = st].hist = e.hist
  BY <1>1 DEF EdIsStore, EdStores, EdFollows, EdKeeps
<1> QED BY <1>1, <1>3, <1>4

\* What another design leaves of it.
EdIsReplaced(e, doc, base, n) ==
  /\ EdIsStore(n) /\ n.doc = doc /\ n.base = base /\ n.session = e.session + 1
  /\ n.revision = e.revision + 1
  /\ n.project = e.project /\ n.known = e.known /\ n.born = e.born /\ n.drifted = e.drifted

LEMMA EdReplacedIs ==
  ASSUME NEW e, EdIsStore(e), NEW doc \in Nat, NEW base \in Nat,
         NEW n, n = EdReplaced(e, doc, base)
  PROVE  EdIsReplaced(e, doc, base, n)
<1> DEFINE next == [e EXCEPT !.doc = doc, !.base = base, !.session = @ + 1, !.revision = @ + 1]
<1>1. next \in EdStores /\ next.doc = doc /\ next.base = base /\ next.session = e.session + 1
      /\ next.revision = e.revision + 1 /\ next.idx = e.idx /\ next.hist = e.hist
      /\ next.project = e.project /\ next.known = e.known /\ next.born = e.born /\ next.drifted = e.drifted
  <2>1. PICK session \in Nat, revision \in Nat : session = e.session + 1 /\ revision = e.revision + 1
    BY DEF EdIsStore, EdStores
  <2>2. next = [e EXCEPT !.doc = doc, !.base = base, !.session = session, !.revision = revision]
    BY <2>1
  <2> HIDE DEF next
  <2> QED BY <2>1, <2>2 DEF EdIsStore, EdStores
<1> HIDE DEF next
<1>2. PICK st \in {"saved", "dirty", "saving", "failed"} : st = EdStatus(next)
  BY EdStatusIs
<1>3. n = [next EXCEPT !.status = st]
  BY <1>2 DEF EdReplaced, next
<1> QED BY <1>1, <1>3 DEF EdIsReplaced, EdIsStore, EdStores

\* The history leaves the rest alone.
LEMMA EdRecordedIs ==
  ASSUME NEW e, EdIsStore(e), NEW n, EdIsStore(n)
  PROVE  LET m == EdRecorded(e, n) IN
         /\ EdIsStore(m) /\ m.doc = n.doc /\ m.session = n.session /\ m.revision = n.revision
         /\ EdKeeps(n, m)
BY DEF EdRecorded, EdIsStore, EdStores, EdKeeps

LEMMA EdForgottenIs ==
  ASSUME NEW e, EdIsStore(e)
  PROVE  LET m == EdForgotten(e) IN
         /\ EdIsStore(m) /\ m.doc = e.doc /\ m.session = e.session /\ m.revision = e.revision
         /\ EdKeeps(e, m)
<1>1. PICK none \in Seq(Nat) : none = <<>> /\ Len(none) = 0
  <2>1. <<>> \in Seq(Nat) /\ Len(<<>>) = 0
    OBVIOUS
  <2> QED BY <2>1
<1>0. PICK off \in BOOLEAN : off = FALSE
  OBVIOUS
<1>2. EdForgotten(e) = [e EXCEPT !.hist = none, !.idx = 0, !.stored = 0, !.timer = off]
  BY <1>0, <1>1 DEF EdForgotten, EdNone
<1>3. PICK m : m = EdForgotten(e)
  OBVIOUS
<1>4. /\ m \in EdStores /\ m.hist = none /\ m.idx = 0 /\ m.doc = e.doc /\ m.session = e.session
      /\ m.revision = e.revision /\ m.base = e.base
      /\ m.project = e.project /\ m.known = e.known /\ m.born = e.born /\ m.drifted = e.drifted
  <2>2. e \in EdStores
    BY DEF EdIsStore
  <2>3. PICK S : S = Seq(Nat) /\ none \in S
    BY <1>1
  <2>4. e \in [doc : Nat, base : Nat, session : Nat, revision : Nat,
               status : {"saved", "dirty", "saving", "failed"}, project : EdProjects \cup {EdNowhere},
               known : Nat, born : Nat, hist : S, idx : Nat, stored : Nat, timer : BOOLEAN, drifted : BOOLEAN]
    BY <2>2, <2>3 DEF EdStores
  <2>5. none \in S
    BY <2>3
  <2>7. off \in BOOLEAN
    BY <1>0
  <2>8. m = [e EXCEPT !.hist = none, !.idx = 0, !.stored = 0, !.timer = off]
    BY <1>2, <1>3
  <2>6. m \in [doc : Nat, base : Nat, session : Nat, revision : Nat,
               status : {"saved", "dirty", "saving", "failed"}, project : EdProjects \cup {EdNowhere},
               known : Nat, born : Nat, hist : S, idx : Nat, stored : Nat, timer : BOOLEAN, drifted : BOOLEAN]
    BY ONLY <2>4, <2>5, <2>7, <2>8
  <2>1. m \in EdStores
    BY <2>3, <2>6 DEF EdStores
  <2> QED BY <1>0, <1>2, <1>3, <2>1, <2>4
<1>5. EdIsStore(m) /\ EdKeeps(e, m)
  BY <1>1, <1>4 DEF EdIsStore, EdKeeps
<1> QED BY <1>3, <1>4, <1>5

\* The design is of another project, or of none.
EdIsNamed(e, id, known, born, n) ==
  /\ EdIsStore(n) /\ n.doc = e.doc /\ n.session = e.session /\ n.revision = e.revision
  /\ n.project = id /\ n.known = known /\ n.born = born /\ n.base = e.base

LEMMA EdNamedIs ==
  ASSUME NEW e, EdIsStore(e), NEW id \in EdProjects \cup {EdNowhere}, NEW known \in Nat, NEW born \in Nat,
         NEW n, n = EdNamed(e, id, known, born)
  PROVE  EdIsNamed(e, id, known, born, n)
<1>1. PICK off : off = FALSE
  OBVIOUS
<1>2. off \in BOOLEAN
  BY <1>1
<1>3. n = [e EXCEPT !.project = id, !.known = known, !.born = born, !.drifted = off]
  BY <1>1 DEF EdNamed
<1>4. e \in EdStores /\ e.idx <= Len(e.hist)
  BY DEF EdIsStore
<1>5. n \in EdStores
  BY ONLY <1>2, <1>3, <1>4, id \in EdProjects \cup {EdNowhere}, known \in Nat, born \in Nat DEF EdStores
<1>6. /\ n.doc = e.doc /\ n.session = e.session /\ n.revision = e.revision
      /\ n.project = id /\ n.known = known /\ n.born = born /\ n.base = e.base /\ n.idx = e.idx
      /\ n.hist = e.hist
  BY ONLY <1>3, <1>4 DEF EdStores
<1> QED BY <1>4, <1>5, <1>6 DEF EdIsStore, EdIsNamed

\* What a saved design leaves of it: the project has the one that was sent.
EdIsSavedAs(e, id, known, born, doc, n) ==
  /\ EdIsStore(n) /\ n.doc = e.doc /\ n.base = doc /\ n.session = e.session
  /\ n.revision = e.revision /\ n.project = id /\ n.known = known /\ n.born = born

LEMMA EdSavedAsIs ==
  ASSUME NEW e, EdIsStore(e), NEW r, NEW id \in EdProjects, NEW known \in Nat, NEW born \in Nat,
         NEW doc \in Nat, id = r.id, known = r.given, born = r.born, doc = r.snapshot,
         NEW n, n = EdSavedAs(e, r)
  PROVE  EdIsSavedAs(e, id, known, born, doc, n)
<1>1. PICK m : m = [e EXCEPT !.base = doc]
  OBVIOUS
<1>2. EdIsStore(m) /\ m.doc = e.doc /\ m.base = doc /\ m.session = e.session /\ m.revision = e.revision
  <2>1. e \in EdStores /\ e.idx <= Len(e.hist)
    BY DEF EdIsStore
  <2>2. /\ m \in EdStores /\ m.doc = e.doc /\ m.base = doc /\ m.session = e.session
        /\ m.revision = e.revision /\ m.idx = e.idx /\ m.hist = e.hist
    BY <1>1, <2>1 DEF EdStores
  <2> QED BY <2>1, <2>2 DEF EdIsStore
<1>3. PICK next : next = EdNamed(m, id, known, born)
  OBVIOUS
<1>4. EdIsNamed(m, id, known, born, next)
  BY <1>2, <1>3, EdNamedIs
<1>5. PICK st \in {"saved", "dirty", "saving", "failed"} : st = EdStatus(next)
  BY EdStatusIs
<1>6. n = [next EXCEPT !.status = st]
  BY <1>1, <1>3, <1>5 DEF EdSavedAs
<1> QED BY <1>2, <1>4, <1>6 DEF EdIsNamed, EdIsSavedAs, EdIsStore, EdStores

\* The store knows a revision that holds what was saved.
EdKnows ==
  (ed.project # EdNowhere /\ ~ed.drifted /\ ed.base # EdNone)
    => EdHolds(ed.project, ed.born, ed.known, ed.base)

\* A request of this step.
EdBegins(new) ==
  /\ EdNames(new, new.over)'
  /\ new.kind \in EdUpdates => new.id \in EdProjects \/ new.kind = "create"
  /\ new.at = "done" => new.kind \notin EdUpdates
  /\ new.kind \in {"import", "assistant"} => new.at = "done"

\* What is the same, or has no project, knows it.
LEMMA EdKnowsOn ==
  ASSUME EdInv, edServer' = edServer, EdKeeps(ed, ed') \/ ed'.project = EdNowhere
  PROVE  EdKnows'
BY DEF EdInv, EdStoredInv, EdKeeps, EdKnows, EdHolds, EdRows, EdLife, EdPast

\* A name of a design stays one where the store follows the one before it.
LEMMA EdNamesOn ==
  ASSUME EdTypeOK, EdFollows(ed, ed'), NEW r, NEW doc, EdNames(r, doc), r.session \in Nat, r.revision \in Nat
  PROVE  EdNames(r, doc)'
<1>1. /\ ed.session \in Nat /\ ed.revision \in Nat /\ ed'.session \in Nat /\ ed'.revision \in Nat
      /\ ed'.session >= ed.session /\ ed'.revision >= ed.revision
      /\ (ed'.session = ed.session /\ ed'.revision = ed.revision) => ed'.doc = ed.doc
  BY DEF EdTypeOK, EdIsStore, EdStores, EdFollows
<1>2. /\ r.session <= ed.session /\ r.revision <= ed.revision
      /\ (ed.session = r.session /\ ed.revision = r.revision) => ed.doc = doc
  BY DEF EdNames, EdSame
<1>3. /\ r.session <= ed'.session /\ r.revision <= ed'.revision
      /\ (ed'.session = r.session /\ ed'.revision = r.revision) => ed'.doc = doc
  BY <1>1, <1>2
<1> QED BY <1>3 DEF EdNames, EdSame

\* The invariant holds on where the server rests, requests begin or end, and
\* the store follows the one before it.
LEMMA EdGoesOn ==
  ASSUME EdInv, EdTypeOK', EdFollows(ed, ed'), edServer' = edServer, EdKnows',
         NEW News, edReqs' \subseteq edReqs \cup News, \A new \in News : EdBegins(new),
         edAsk' = edAsk \/ edAsk'.kind = "none" \/ EdNames(edAsk, edAsk.doc)'
  PROVE  EdInv'
<1>1. EdTypeOK
  BY DEF EdInv
<1>2. EdNamesInv'
  <2>1. ASSUME NEW r \in edReqs' PROVE EdNames(r, r.over)'
    <3>1. CASE r \in edReqs
      <4>1. r.session \in Nat /\ r.revision \in Nat
        BY <1>1, <3>1 DEF EdTypeOK, EdRequests
      <4>2. PICK doc : doc = r.over /\ EdNames(r, doc)
        BY <3>1 DEF EdInv, EdNamesInv
      <4>3. EdNames(r, doc)'
        BY <1>1, <4>1, <4>2, EdNamesOn
      <4> QED BY <4>2, <4>3
    <3> QED BY <3>1, <2>1 DEF EdBegins
  <2>2. ASSUME edAsk'.kind # "none" PROVE EdNames(edAsk, edAsk.doc)'
    <3>1. CASE edAsk' = edAsk
      <4>1. edAsk.session \in Nat /\ edAsk.revision \in Nat
        BY <1>1 DEF EdTypeOK, EdAsks
      <4>2. EdNames(edAsk, edAsk.doc)
        BY <2>2, <3>1 DEF EdInv, EdNamesInv
      <4>3. PICK r, doc : r = edAsk /\ doc = edAsk.doc
        OBVIOUS
      <4>4. EdNames(r, doc)'
        BY <1>1, <4>1, <4>2, <4>3, EdNamesOn
      <4> QED BY <3>1, <4>3, <4>4
    <3> QED BY <2>2, <3>1
  <2> QED BY <2>1, <2>2 DEF EdNamesInv
<1>3. EdStoredInv'
  <2>1. ASSUME NEW r \in edReqs'
        PROVE  /\ r.kind \in EdUpdates => r.id \in EdProjects \/ r.kind = "create"
               /\ r.kind \in {"create", "save", "load"} /\ r.at = "done" =>
                    EdHolds(r.id, r.born, r.given, r.snapshot)
               /\ r.kind = "rename" /\ r.at = "done" =>
                    /\ EdHolds(r.id, r.born, r.given, EdRows(r.id)[r.expected])
                    /\ r.born = EdLife(r.id) => r.expected \in 1..Len(EdRows(r.id))
               /\ r.kind \in {"import", "assistant"} => r.at = "done"
    <3>1. CASE r \in edReqs
      BY <3>1 DEF EdInv, EdStoredInv
    <3>2. CASE r \in News
      <4>1. /\ r.kind \in EdUpdates => r.id \in EdProjects \/ r.kind = "create"
            /\ r.at = "done" => r.kind \notin EdUpdates
            /\ r.kind \in {"import", "assistant"} => r.at = "done"
        BY <3>2 DEF EdBegins
      <4> QED BY ONLY <4>1 DEF EdUpdates
    <3> QED BY <2>1, <3>1, <3>2
  <2> QED BY <2>1 DEF EdStoredInv, EdKnows, EdHolds, EdRows, EdLife, EdPast
<1> QED BY <1>2, <1>3 DEF EdInv

\* What a step of the user uses up.
LEMMA EdUses ==
  ASSUME EdTypeOK, (EdClick /\ EdClicked) \/ (EdClick /\ EdClickedAnew) \/ EdTrouble
  PROVE  edLeft' \in [fresh : Nat, clicks : Nat, others : Nat]
<1>1. edLeft \in [fresh : Nat, clicks : Nat, others : Nat]
  BY DEF EdTypeOK
<1>2. CASE EdClick /\ EdClicked
  BY <1>1, <1>2 DEF EdClick, EdClicked
<1>3. CASE EdClick /\ EdClickedAnew
  <2>1. PICK clicks \in Nat, fresh \in Nat : clicks = edLeft.clicks - 1 /\ fresh = edLeft.fresh + 1
    BY <1>1, <1>3 DEF EdClick
  <2>2. edLeft' = [edLeft EXCEPT !.clicks = clicks, !.fresh = fresh]
    BY <1>3, <2>1 DEF EdClickedAnew
  <2> QED BY <1>1, <2>2
<1>4. CASE EdTrouble
  BY <1>1, <1>4 DEF EdTrouble
<1> QED BY <1>2, <1>3, <1>4

\* What a request begins as.
LEMMA EdRequestIs ==
  ASSUME EdTypeOK, NEW kind \in EdUpdates \cup {"settings", "import", "assistant"},
         NEW id \in EdProjects \cup {EdNowhere}
  PROVE  LET r == EdRequest(kind, id) IN
         /\ r \in EdRequests /\ r.kind = kind /\ r.id = id /\ r.session = ed.session
         /\ r.revision = ed.revision /\ r.over = ed.doc /\ r.snapshot = ed.doc /\ r.at = "sent"
BY DEF EdTypeOK, EdRequest, EdRequests, EdStores

\* Who names the design that is there, names it.
LEMMA EdNamesNow ==
  ASSUME EdTypeOK, NEW r, r.session = ed.session, r.revision = ed.revision
  PROVE  EdNames(r, ed.doc)
BY DEF EdTypeOK, EdStores, EdNames

\* A store that stays is itself.
LEMMA EdStands ==
  ASSUME EdTypeOK
  PROVE  EdIsStore(ed) /\ EdFollows(ed, ed) /\ EdKeeps(ed, ed)
BY DEF EdTypeOK, EdIsStore, EdStores, EdFollows, EdKeeps

\* What a step keeps: the invariant, and what an answer may not give up.
EdGood == EdInv' /\ EdAnswersKeepEdits

\* The requests rest.
LEMMA EdRests ==
  ASSUME EdInv, EdTypeOK', EdFollows(ed, ed'), edServer' = edServer, EdKnows', edReqs' = edReqs,
         edAsk' = edAsk \/ edAsk'.kind = "none" \/ EdNames(edAsk, edAsk.doc)'
  PROVE  EdGood
<1>1. EdInv'
  <2>1. PICK News : News = {}
    OBVIOUS
  <2>3. edReqs' \subseteq edReqs \cup News /\ \A new \in News : EdBegins(new)
    BY <2>1
  <2> QED BY <2>3, EdGoesOn
<1>2. EdAnswersKeepEdits
  BY DEF EdAnswersKeepEdits
<1> QED BY <1>1, <1>2 DEF EdGood

\* One begins.
LEMMA EdSends ==
  ASSUME EdInv, EdTypeOK', EdFollows(ed, ed'), edServer' = edServer, EdKnows',
         NEW new, edReqs' = edReqs \cup {new}, EdBegins(new),
         edAsk' = edAsk \/ edAsk'.kind = "none" \/ EdNames(edAsk, edAsk.doc)',
         new.kind # "load" \/ ~EdDirty(ed) \/ edAsk.doc = ed.doc
  PROVE  EdGood
<1>1. EdInv'
  <2>1. \A q \in {new} : EdBegins(q)
    OBVIOUS
  <2>2. PICK News : News = {new}
    OBVIOUS
  <2> QED BY <2>1, <2>2, EdGoesOn
<1>2. EdAnswersKeepEdits
  BY DEF EdAnswersKeepEdits
<1> QED BY <1>1, <1>2 DEF EdGood

\* One is answered: only of the design it was sent from may the answer change
\* anything.
LEMMA EdHears ==
  ASSUME EdInv, EdFollows(ed, ed'), EdKnows', NEW r \in edReqs, edReqs' = edReqs \ {r},
         ed'.doc = ed.doc \/ EdSame(r), UNCHANGED <<edAsk, edLoadId, edServer, edDraft, edKept, edLeft>>
  PROVE  EdGood
<1>1. EdTypeOK'
  BY DEF EdInv, EdTypeOK, EdFollows, EdIsStore
<1>2. EdInv'
  <2>1. PICK News : News = {}
    OBVIOUS
  <2>3. edReqs' \subseteq edReqs \cup News /\ \A new \in News : EdBegins(new)
    BY <2>1
  <2>2. /\ edServer' = edServer
        /\ edAsk' = edAsk \/ edAsk'.kind = "none" \/ EdNames(edAsk, edAsk.doc)'
    OBVIOUS
  <2> QED BY <1>1, <2>2, <2>3, EdGoesOn
<1>3. EdSame(r) => ed.doc = r.over
  BY DEF EdInv, EdNamesInv, EdNames
<1>4. EdAnswersKeepEdits
  BY <1>3 DEF EdAnswersKeepEdits
<1> QED BY <1>2, <1>4 DEF EdGood

-----------------------------------------------------------------------------
(* The history and the clear canvas.                                        *)

\* A store whose history grows or is left.
LEMMA EdTimerInv == ASSUME EdInv, EdTimer PROVE EdGood
<1>1. EdTypeOK /\ EdIsStore(ed) /\ ed \in EdStores /\ ed.hist \in Seq(Nat) /\ ed.idx \in Nat
      /\ ed.idx <= Len(ed.hist) /\ ed.stored \in Nat /\ ed.doc \in Nat
  BY DEF EdInv, EdTypeOK, EdIsStore, EdStores
<1>2. PICK off \in BOOLEAN : off = FALSE
  OBVIOUS
<1>3. off \in BOOLEAN
  BY <1>2
<1>4. PICK hist \in Seq(Nat), idx \in Nat :
        /\ idx <= Len(hist)
        /\ ed' = [ed EXCEPT !.hist = hist, !.idx = idx, !.stored = 0, !.timer = off]
  <2> DEFINE start == SubSeq(ed.hist, 1, ed.idx)
             grown == (IF start = <<>> THEN <<ed.stored>> ELSE start) \o <<ed.doc>>
             hist == IF Len(grown) > EdHistory THEN Tail(grown) ELSE grown
  <2>1. start \in Seq(Nat)
    BY <1>1, SubSeqProperties
  <2>2. grown \in Seq(Nat) /\ grown # <<>>
    <3> HIDE DEF start
    <3>1. (IF start = <<>> THEN <<ed.stored>> ELSE start) \in Seq(Nat)
      BY <1>1, <2>1
    <3>2. <<ed.doc>> \in Seq(Nat) /\ Len(<<ed.doc>>) = 1
      BY <1>1
    <3>3. PICK a, b \in Seq(Nat) : a = (IF start = <<>> THEN <<ed.stored>> ELSE start) /\ b = <<ed.doc>>
      BY <3>1, <3>2
    <3>4. a \o b \in Seq(Nat) /\ Len(a \o b) = Len(a) + 1
      BY <3>2, <3>3
    <3>5. a \o b # <<>>
      BY <3>4
    <3> QED BY <3>3, <3>4, <3>5
  <2>3. hist \in Seq(Nat) /\ Len(hist) \in Nat
    <3> HIDE DEF grown
    <3>1. Tail(grown) \in Seq(Nat)
      BY <2>2
    <3> QED BY <2>2, <3>1
  <2>4. CASE ed.stored \in {EdNone, ed.doc}
    <3>1. ed' = [ed EXCEPT !.stored = 0, !.timer = off]
      BY <1>2, <2>4 DEF EdTimer, EdNone
    <3>2. [ed EXCEPT !.stored = 0, !.timer = off]
            = [ed EXCEPT !.hist = ed.hist, !.idx = ed.idx, !.stored = 0, !.timer = off]
      BY <1>1, <1>3 DEF EdStores
    <3> QED BY <1>1, <3>1, <3>2
  <2>5. CASE ed.stored \notin {EdNone, ed.doc}
    <3>1. ed' = [ed EXCEPT !.hist = hist, !.idx = Len(hist), !.stored = 0, !.timer = off]
      BY <1>2, <2>5 DEF EdTimer, EdNone
    <3>2. PICK h \in Seq(Nat), i \in Nat : h = hist /\ i = Len(hist)
      <4> HIDE DEF hist
      <4> QED BY <2>3
    <3>3. ed' = [ed EXCEPT !.hist = h, !.idx = i, !.stored = 0, !.timer = off] /\ i <= Len(h)
      <4> HIDE DEF hist
      <4> QED BY <3>1, <3>2
    <3> QED BY ONLY <3>2, <3>3
  <2> QED BY <2>4, <2>5
<1>5. ed' \in EdStores
  <2>1. hist \in Seq(Nat) /\ idx \in Nat
    BY <1>4
  <2> QED BY <1>1, <1>3, <1>4, <2>1 DEF EdStores
<1>6. /\ ed'.hist = hist /\ ed'.idx = idx /\ ed'.doc = ed.doc /\ ed'.session = ed.session
      /\ ed'.revision = ed.revision /\ ed'.base = ed.base
      /\ ed'.project = ed.project /\ ed'.known = ed.known /\ ed'.born = ed.born /\ ed'.drifted = ed.drifted
  BY <1>1, <1>4 DEF EdStores
<1>7. EdFollows(ed, ed') /\ EdKeeps(ed, ed')
  <2>1. ed'.session >= ed.session /\ ed'.revision >= ed.revision /\ idx <= Len(hist)
    BY <1>1, <1>4, <1>6 DEF EdStores
  <2> QED BY <1>5, <1>6, <2>1 DEF EdFollows, EdIsStore, EdKeeps
<1>8. EdTypeOK'
  BY <1>1, <1>7 DEF EdTimer, EdTypeOK, EdFollows, EdIsStore
<1> QED BY <1>7, <1>8, EdRests, EdKnowsOn DEF EdTimer

\* Undo and redo.
LEMMA EdTravelInv == ASSUME EdInv, NEW to \in 1..EdHistory, EdTravel(to) PROVE EdGood
<1>1. EdTypeOK /\ EdIsStore(ed) /\ ed.hist \in Seq(Nat)
  BY DEF EdInv, EdTypeOK, EdIsStore, EdStores
<1>2. to \in 1..Len(ed.hist) /\ ed.hist[to] \in Nat
  BY <1>1 DEF EdTravel
<1>3. PICK n : n = EdChanged(ed, ed.hist[to])
  OBVIOUS
<1>4. EdFollows(ed, n) /\ EdKeeps(ed, n) /\ n.hist = ed.hist
  BY <1>1, <1>2, <1>3, EdChangedIs
<1>5. ed' = [n EXCEPT !.idx = to, !.stored = 0]
  BY <1>3 DEF EdTravel, EdNone
<1>6. n \in EdStores
  BY <1>4 DEF EdFollows, EdIsStore
<1>7. ed' \in EdStores
  <2>1. to \in Nat
    OBVIOUS
  <2> QED BY <1>5, <1>6, <2>1 DEF EdStores
<1>8. /\ ed'.hist = n.hist /\ ed'.idx = to /\ ed'.doc = n.doc /\ ed'.session = n.session
      /\ ed'.revision = n.revision /\ ed'.base = n.base
      /\ ed'.project = n.project /\ ed'.known = n.known /\ ed'.born = n.born /\ ed'.drifted = n.drifted
  BY <1>5, <1>6 DEF EdStores
<1>9. EdFollows(ed, ed') /\ EdKeeps(ed, ed')
  BY <1>2, <1>4, <1>7, <1>8 DEF EdFollows, EdIsStore, EdKeeps
<1>10. EdTypeOK'
  BY <1>1, <1>9, EdUses DEF EdTravel, EdTypeOK, EdFollows, EdIsStore
<1> QED BY <1>9, <1>10, EdRests, EdKnowsOn DEF EdTravel

\* An edit, recorded.
LEMMA EdEdited ==
  ASSUME EdTypeOK, NEW doc \in Nat
  PROVE  LET n == EdRecorded(ed, EdChanged(ed, doc)) IN
         EdFollows(ed, n) /\ EdKeeps(ed, n) /\ n.doc = doc
<1>1. EdIsStore(ed)
  BY DEF EdTypeOK, EdIsStore
<1>2. PICK n : n = EdChanged(ed, doc)
  OBVIOUS
<1>3. EdFollows(ed, n) /\ EdKeeps(ed, n) /\ n.doc = doc
  BY <1>1, <1>2, EdChangedIs
<1>4. EdIsStore(n)
  BY <1>3 DEF EdFollows
<1>5. PICK m : m = EdRecorded(ed, n)
  OBVIOUS
<1>6. EdIsStore(m) /\ m.doc = n.doc /\ m.session = n.session /\ m.revision = n.revision /\ EdKeeps(n, m)
  BY <1>1, <1>4, <1>5, EdRecordedIs
<1>7. EdFollows(ed, m) /\ EdKeeps(ed, m) /\ m.doc = doc
  BY <1>3, <1>6 DEF EdFollows, EdKeeps
<1> QED BY <1>2, <1>5, <1>7

LEMMA EdEditInv == ASSUME EdInv, EdEdit PROVE EdGood
<1>1. EdTypeOK /\ edLeft.fresh \in Nat
  BY DEF EdInv, EdTypeOK
<1>2. EdFollows(ed, ed') /\ EdKeeps(ed, ed')
  BY <1>1, EdEdited DEF EdEdit
<1>3. EdTypeOK'
  BY <1>1, <1>2, EdUses DEF EdEdit, EdTypeOK, EdFollows, EdIsStore
<1> QED BY <1>2, <1>3, EdRests, EdKnowsOn DEF EdEdit

\* Another design, of another project or of none.
EdIsAnew(doc, base, id, known, born, n) ==
  /\ EdFollows(ed, n) /\ n.project = id /\ n.known = known /\ n.born = born /\ n.base = base
  /\ n.session = ed.session + 1 /\ n.doc = doc

LEMMA EdAnew ==
  ASSUME EdTypeOK, NEW doc \in Nat, NEW base \in Nat,
         NEW e, e = EdReplaced(ed, doc, base) \/ e = EdForgotten(EdReplaced(ed, doc, base)),
         NEW n, NEW id \in EdProjects \cup {EdNowhere}, NEW known \in Nat,
         NEW born \in Nat, n = EdNamed(e, id, known, born)
  PROVE  EdIsAnew(doc, base, id, known, born, n)
<1>1. EdIsStore(ed) /\ ed.session \in Nat /\ ed.revision \in Nat
  BY DEF EdTypeOK, EdIsStore, EdStores
<1>2. PICK m : m = EdReplaced(ed, doc, base)
  OBVIOUS
<1>3. EdIsStore(m) /\ m.session = ed.session + 1 /\ m.revision = ed.revision + 1 /\ m.doc = doc /\ m.base = base
  <2>1. EdIsReplaced(ed, doc, base, m)
    BY <1>1, <1>2, EdReplacedIs
  <2> QED BY <2>1 DEF EdIsReplaced
<1>4. EdIsStore(e) /\ e.session = ed.session + 1 /\ e.revision = ed.revision + 1 /\ e.doc = doc /\ e.base = base
  BY <1>2, <1>3, EdForgottenIs DEF EdKeeps
<1>6. /\ EdIsStore(n) /\ n.session = e.session /\ n.revision = e.revision /\ n.project = id
      /\ n.doc = e.doc /\ n.known = known /\ n.born = born /\ n.base = e.base
  <2>1. EdIsNamed(e, id, known, born, n)
    BY <1>4, EdNamedIs
  <2> QED BY <2>1 DEF EdIsNamed
<1>7. EdFollows(ed, n)
  BY <1>1, <1>4, <1>6 DEF EdFollows
<1> QED BY <1>4, <1>6, <1>7 DEF EdIsAnew

LEMMA EdClearInv == ASSUME EdInv, EdClear PROVE EdGood
<1>1. EdTypeOK /\ edLeft.fresh \in Nat /\ EdIsStore(ed) /\ 0 \in Nat
  BY DEF EdInv, EdTypeOK, EdIsStore
<1>2. PICK n : n = EdUnnamed(EdReplaced(ed, edLeft.fresh, EdNone))
  OBVIOUS
<1>3. EdFollows(ed, n) /\ n.project = EdNowhere
  <2>1. PICK e, none, fresh : e = EdReplaced(ed, fresh, 0) /\ none = EdNowhere /\ fresh = edLeft.fresh
    OBVIOUS
  <2>2. n = EdNamed(e, none, 0, 0) /\ none \in EdProjects \cup {EdNowhere} /\ fresh \in Nat
    BY <1>1, <1>2, <2>1 DEF EdNone, EdUnnamed
  <2>3. e = EdReplaced(ed, fresh, 0)
    BY <2>1
  <2>4. EdIsAnew(fresh, 0, none, 0, 0, n)
    BY ONLY <1>1, <2>2, <2>3, EdAnew
  <2> QED BY <2>1, <2>4 DEF EdIsAnew
<1>4. ed' = EdRecorded(ed, n)
  BY <1>2 DEF EdClear
<1>5. EdIsStore(ed') /\ ed'.doc = n.doc /\ ed'.session = n.session /\ ed'.revision = n.revision /\ EdKeeps(n, ed')
  <2>1. PICK m : m = EdRecorded(ed, n)
    OBVIOUS
  <2>2. EdIsStore(n)
    BY <1>3 DEF EdFollows
  <2>3. EdIsStore(m) /\ m.doc = n.doc /\ m.session = n.session /\ m.revision = n.revision /\ EdKeeps(n, m)
    BY <1>1, <2>1, <2>2, EdRecordedIs
  <2> QED BY <1>4, <2>1, <2>3
<1>6. EdFollows(ed, ed') /\ ed'.project = EdNowhere
  BY <1>3, <1>5 DEF EdFollows, EdKeeps
<1>7. EdTypeOK'
  BY <1>1, <1>6, EdUses DEF EdClear, EdTypeOK, EdFollows, EdIsStore
<1> QED BY <1>6, <1>7, EdRests, EdKnowsOn DEF EdClear

-----------------------------------------------------------------------------
(* Requests of the user.                                                    *)

\* r is what a request begins as.
EdIsRequest(kind, id, r) ==
  /\ r \in EdRequests /\ r.kind = kind /\ r.id = id /\ r.session = ed.session
  /\ r.revision = ed.revision /\ r.over = ed.doc /\ r.at = "sent"

LEMMA EdExpects ==
  ASSUME EdTypeOK, NEW kind \in EdUpdates, NEW id \in EdProjects \cup {EdNowhere}, NEW expected \in Nat,
         NEW r, r = EdRequest(kind, id) \/ r = [EdRequest(kind, id) EXCEPT !.expected = expected]
  PROVE  EdIsRequest(kind, id, r)
<1>1. PICK q : q = EdRequest(kind, id)
  OBVIOUS
<1>2. /\ q \in EdRequests /\ q.kind = kind /\ q.id = id /\ q.session = ed.session
      /\ q.revision = ed.revision /\ q.over = ed.doc /\ q.at = "sent"
  BY <1>1, EdRequestIs
<1>3. CASE r = q
  BY <1>2, <1>3 DEF EdIsRequest
<1>4. CASE r = [q EXCEPT !.expected = expected]
  BY <1>2, <1>4 DEF EdIsRequest, EdRequests
<1> QED BY <1>1, <1>3, <1>4

\* It names the design it is sent from.
LEMMA EdBeginning ==
  ASSUME EdInv, EdFollows(ed, ed'), NEW kind, NEW id, NEW new, EdIsRequest(kind, id, new),
         kind \in EdUpdates, id \in EdProjects \/ kind = "create"
  PROVE  EdBegins(new)
<1>1. EdTypeOK
  BY DEF EdInv
<1>2. new.session \in Nat /\ new.revision \in Nat /\ new.over = ed.doc
  BY DEF EdIsRequest, EdRequests
<1>3. PICK doc : doc = ed.doc
  OBVIOUS
<1>4. EdNames(new, doc)
  BY <1>1, <1>3, EdNamesNow DEF EdIsRequest
<1>5. EdNames(new, doc)'
  BY <1>1, <1>2, <1>4, EdNamesOn
<1>6. EdNames(new, new.over)'
  BY <1>2, <1>3, <1>5
<1> QED BY <1>6 DEF EdBegins, EdIsRequest, EdUpdates

\* The store that only saves is the same but for its status.
LEMMA EdSavingIs ==
  ASSUME EdTypeOK
  PROVE  EdFollows(ed, EdSaving) /\ EdKeeps(ed, EdSaving)
<1>1. ed \in EdStores /\ ed.idx <= Len(ed.hist)
  BY DEF EdTypeOK
<1>2. PICK n : n = EdSaving
  OBVIOUS
<1>3. n = [ed EXCEPT !.status = "saving"]
  BY <1>2 DEF EdSaving
<1>4. n \in EdStores
  BY <1>1, <1>3 DEF EdStores
<1>5. /\ n.doc = ed.doc /\ n.session = ed.session /\ n.revision = ed.revision
      /\ n.project = ed.project /\ n.known = ed.known /\ n.base = ed.base /\ n.idx = ed.idx /\ n.hist = ed.hist
      /\ n.born = ed.born /\ n.drifted = ed.drifted
  BY <1>1, <1>3 DEF EdStores
<1>6. n.session >= ed.session /\ n.revision >= ed.revision
  BY <1>1, <1>5 DEF EdStores
<1> QED BY <1>1, <1>2, <1>4, <1>5, <1>6 DEF EdFollows, EdKeeps, EdIsStore

\* A question names the design it was asked over.
LEMMA EdAsking ==
  ASSUME EdInv, EdFollows(ed, ed'), edAsk'.session = ed.session, edAsk'.revision = ed.revision,
         edAsk'.doc = ed.doc
  PROVE  EdNames(edAsk, edAsk.doc)'
<1>1. PICK a, doc : a = edAsk' /\ doc = ed.doc
  OBVIOUS
<1>2. a.session = ed.session /\ a.revision = ed.revision /\ a.session \in Nat /\ a.revision \in Nat /\ EdTypeOK
  BY <1>1 DEF EdInv, EdTypeOK, EdStores
<1>3. EdNames(a, doc)
  BY <1>1, <1>2, EdNamesNow
<1>4. EdNames(a, doc)'
  BY <1>2, <1>3, EdNamesOn
<1> QED BY <1>1, <1>4

\* One request of an update begins, of a store that is the same but for its status.
LEMMA EdUpdates1 ==
  ASSUME EdInv, NEW kind \in EdUpdates, NEW id \in EdProjects \cup {EdNowhere}, NEW expected \in Nat,
         id \in EdProjects \/ kind = "create",
         NEW new, new = EdRequest(kind, id) \/ new = [EdRequest(kind, id) EXCEPT !.expected = expected],
         edReqs' = edReqs \cup {new}, ed' \in {ed, EdSaving},
         kind # "load" \/ ~EdDirty(ed) \/ edAsk.doc = ed.doc,
         edAsk' \in {edAsk, EdNoAsk}, edLoadId' \in Nat, UNCHANGED <<edServer, edDraft, edKept>>,
         edLeft' \in [fresh : Nat, clicks : Nat, others : Nat]
  PROVE  EdGood
<1>1. EdTypeOK
  BY DEF EdInv
<1>2. EdIsRequest(kind, id, new)
  BY <1>1, EdExpects
<1>3. EdFollows(ed, ed') /\ EdKeeps(ed, ed')
  BY <1>1, EdStands, EdSavingIs
<1>4. EdBegins(new) /\ new \in EdRequests /\ new.kind = kind
  BY <1>2, <1>3, EdBeginning DEF EdIsRequest
<1>5. edAsk' = edAsk \/ edAsk'.kind = "none"
  BY DEF EdNoAsk
<1>6. EdNoAsk \in EdAsks /\ EdNoAsk.kind = "none"
  BY DEF EdNoAsk, EdAsks, EdNone
<1>7. EdTypeOK'
  BY <1>1, <1>3, <1>4, <1>6 DEF EdTypeOK, EdFollows, EdIsStore
<1>8. EdKnows'
  BY <1>3, EdKnowsOn
<1> QED BY <1>3, <1>4, <1>5, <1>7, <1>8, EdSends

LEMMA EdOpenInv == ASSUME EdInv, NEW id \in EdProjects, EdOpen(id) PROVE EdGood
<1>1. EdTypeOK /\ edLeft' \in [fresh : Nat, clicks : Nat, others : Nat] /\ edLoadId + 1 \in Nat
  BY EdUses DEF EdInv, EdTypeOK, EdOpen
<1>2. CASE EdDirty(ed)
  <2>1. /\ edAsk' = [EdNoAsk EXCEPT !.kind = "load", !.id = id, !.session = ed.session,
                                     !.revision = ed.revision, !.doc = ed.doc]
        /\ edLoadId' = edLoadId + 1 /\ edReqs' = edReqs /\ UNCHANGED <<ed, edServer, edDraft, edKept>>
    BY <1>2 DEF EdOpen
  <2>2. /\ edAsk' \in EdAsks /\ edAsk'.session = ed.session /\ edAsk'.revision = ed.revision
        /\ edAsk'.doc = ed.doc /\ edAsk'.id = id
    BY <1>1, <2>1 DEF EdAsks, EdNoAsk, EdNone, EdTypeOK, EdStores
  <2>3. EdFollows(ed, ed') /\ EdKeeps(ed, ed')
    BY <1>1, <2>1, EdStands
  <2>4. EdTypeOK'
    BY <1>1, <2>1, <2>2 DEF EdTypeOK
  <2> QED BY <2>1, <2>2, <2>3, <2>4, EdAsking, EdRests, EdKnowsOn
<1>3. CASE ~EdDirty(ed)
  <2>1. PICK new, expected : /\ expected = edLoadId + 1
                             /\ new = [EdRequest("load", id) EXCEPT !.expected = expected]
    OBVIOUS
  <2>2. /\ edReqs' = edReqs \cup {new} /\ edLoadId' = edLoadId + 1 /\ edAsk' \in {edAsk, EdNoAsk}
        /\ UNCHANGED <<ed, edServer, edDraft, edKept>>
    BY <1>3, <2>1 DEF EdOpen, EdStartLoad
  <2>3. "load" \in EdUpdates /\ expected \in Nat
    BY <1>1, <2>1 DEF EdUpdates
  <2>4. PICK kind : kind = "load" /\ kind # "create"
    OBVIOUS
  <2>5. kind \in EdUpdates /\ new = [EdRequest(kind, id) EXCEPT !.expected = expected]
    BY <2>1, <2>3, <2>4
  <2> QED BY <1>1, <1>3, <2>2, <2>3, <2>4, <2>5, EdUpdates1
<1> QED BY <1>2, <1>3

LEMMA EdConfirmLoadInv == ASSUME EdInv, EdConfirmLoad PROVE EdGood
<1>1. EdTypeOK /\ edLeft' \in [fresh : Nat, clicks : Nat, others : Nat] /\ edLoadId + 1 \in Nat
  BY DEF EdInv, EdTypeOK, EdConfirmLoad
<1>2. PICK id \in EdProjects : id = edAsk.id
  BY <1>1 DEF EdTypeOK, EdConfirmLoad
<1>3. CASE EdSame(edAsk)
  <2>1. PICK new, expected : /\ expected = edLoadId + 1
                             /\ new = [EdRequest("load", id) EXCEPT !.expected = expected]
    OBVIOUS
  <2>2. /\ edReqs' = edReqs \cup {new} /\ edLoadId' = edLoadId + 1 /\ edAsk' \in {edAsk, EdNoAsk}
        /\ UNCHANGED <<ed, edServer, edDraft, edKept>>
    BY <1>2, <1>3, <2>1 DEF EdConfirmLoad, EdStartLoad
  <2>3. "load" \in EdUpdates /\ expected \in Nat
    BY <1>1, <2>1 DEF EdUpdates
  <2>4. PICK kind : kind = "load" /\ kind # "create"
    OBVIOUS
  <2>5. kind \in EdUpdates /\ new = [EdRequest(kind, id) EXCEPT !.expected = expected]
    BY <2>1, <2>3, <2>4
  <2>6. edAsk.doc = ed.doc
    BY <1>3 DEF EdInv, EdNamesInv, EdNames, EdConfirmLoad
  <2> QED BY <1>1, <1>3, <2>2, <2>3, <2>4, <2>5, <2>6, EdUpdates1
<1>4. CASE ~EdSame(edAsk)
  <2>1. /\ edAsk' = EdNoAsk /\ edLoadId' = edLoadId + 1 /\ edReqs' = edReqs
        /\ UNCHANGED <<ed, edServer, edDraft, edKept, edLeft>>
    BY <1>4 DEF EdConfirmLoad
  <2>2. EdNoAsk \in EdAsks /\ EdNoAsk.kind = "none"
    BY DEF EdNoAsk, EdAsks, EdNone
  <2>3. EdFollows(ed, ed') /\ EdKeeps(ed, ed')
    BY <1>1, <2>1, EdStands
  <2>4. EdTypeOK'
    BY <1>1, <2>1, <2>2 DEF EdTypeOK
  <2> QED BY <2>1, <2>2, <2>3, <2>4, EdRests, EdKnowsOn
<1> QED BY <1>3, <1>4

LEMMA EdSaveNewInv == ASSUME EdInv, EdSaveNew PROVE EdGood
<1>1. edLeft' \in [fresh : Nat, clicks : Nat, others : Nat] /\ edLoadId' \in Nat
  BY EdUses DEF EdInv, EdTypeOK, EdSaveNew
<1>2. PICK kind \in EdUpdates : kind = "create"
  BY DEF EdUpdates
<1>3. PICK id \in EdProjects \cup {EdNowhere} : id = EdNowhere
  OBVIOUS
<1>4. PICK new : new = EdRequest(kind, id)
  OBVIOUS
<1>5. edReqs' = edReqs \cup {new} /\ ed' \in {ed, EdSaving} /\ edAsk' \in {edAsk, EdNoAsk}
  BY <1>2, <1>3, <1>4 DEF EdSaveNew
<1>6. kind # "load" /\ 0 \in Nat
  BY <1>2
<1> QED BY <1>1, <1>2, <1>4, <1>5, <1>6, EdUpdates1 DEF EdSaveNew

\* An update begins.
LEMMA EdUpdateInv ==
  ASSUME EdInv, NEW kind \in {"save", "rename"}, NEW id \in EdProjects, NEW expected \in Nat,
         EdUpdate(kind, id, expected), edAsk' \in {edAsk, EdNoAsk},
         UNCHANGED <<edLoadId, edServer, edDraft, edKept>>,
         edLeft' \in [fresh : Nat, clicks : Nat, others : Nat]
  PROVE  EdGood
<1>1. edLoadId' \in Nat /\ kind \in EdUpdates /\ kind # "create" /\ kind # "load"
  BY DEF EdInv, EdTypeOK, EdUpdates
<1>2. PICK new : new = [EdRequest(kind, id) EXCEPT !.expected = expected]
  OBVIOUS
<1>3. edReqs' = edReqs \cup {new} /\ ed' \in {ed, EdSaving}
  BY <1>2 DEF EdUpdate
<1> QED BY <1>1, <1>2, <1>3, EdUpdates1

LEMMA EdSaveInv == ASSUME EdInv, EdSave PROVE EdGood
<1>1. edLeft' \in [fresh : Nat, clicks : Nat, others : Nat] /\ ed.project \in EdProjects /\ ed.known \in Nat
  BY EdUses DEF EdInv, EdTypeOK, EdStores, EdSave
<1>2. PICK id \in EdProjects, known \in Nat : id = ed.project /\ known = ed.known
  BY <1>1
<1>3. EdUpdate("save", id, known)
  BY <1>2 DEF EdSave
<1> QED BY <1>1, <1>3, EdUpdateInv DEF EdSave

\* A revision that is known is a number.
LEMMA EdKnownIs ==
  ASSUME EdTypeOK, NEW id \in EdProjects, NEW known \in EdKnown(id)
  PROVE  known \in Nat
<1>1. CASE known \in EdListed(id)
  <2>1. edServer[id] \in [rows : Seq(Nat), past : Seq(Nat)]
    BY DEF EdTypeOK
  <2>2. EdPast(id) \in Seq(Nat) /\ Len(EdRows(id)) \in Nat
    BY <2>1 DEF EdPast, EdRows
  <2>3. CASE known \in 1..Len(EdRows(id))
    BY <2>2, <2>3
  <2>4. CASE \E k \in DOMAIN EdPast(id) : known \in 1..EdPast(id)[k]
    <3>1. PICK k \in DOMAIN EdPast(id) : known \in 1..EdPast(id)[k]
      BY <2>4
    <3>2. EdPast(id)[k] \in Nat
      BY <2>2, <3>1
    <3> QED BY <3>1, <3>2
  <2> QED BY <1>1, <2>3, <2>4 DEF EdListed
<1>2. CASE known = ed.known
  BY <1>2 DEF EdTypeOK, EdStores
<1> QED BY <1>1, <1>2 DEF EdKnown

LEMMA EdRenameInv == ASSUME EdInv, NEW id \in EdProjects, EdRename(id) PROVE EdGood
<1>1. edLeft' \in [fresh : Nat, clicks : Nat, others : Nat]
  BY EdUses DEF EdInv, EdRename
<1>2. PICK known \in EdKnown(id) : EdUpdate("rename", id, known)
  BY DEF EdRename
<1>3. known \in Nat
  BY EdKnownIs DEF EdInv
<1> QED BY <1>1, <1>2, <1>3, EdUpdateInv DEF EdRename

LEMMA EdOverwriteInv == ASSUME EdInv, EdOverwrite PROVE EdGood
<1>1. EdTypeOK /\ edLeft' \in [fresh : Nat, clicks : Nat, others : Nat]
  BY DEF EdInv, EdTypeOK, EdOverwrite
<1>2. PICK id \in EdProjects, known \in Nat : id = edAsk.id /\ known = edAsk.target
  BY <1>1 DEF EdTypeOK, EdAsks, EdOverwrite
<1>3. CASE EdUpdate("save", edAsk.id, edAsk.target)
  <2>1. EdUpdate("save", id, known)
    BY <1>2, <1>3
  <2>2. "save" \in {"save", "rename"} /\ edAsk' \in {edAsk, EdNoAsk}
    BY DEF EdOverwrite
  <2> QED BY <1>1, <2>1, <2>2, EdUpdateInv DEF EdOverwrite
<1>4. CASE UNCHANGED <<ed, edReqs>>
  <2>1. /\ edAsk' = EdNoAsk /\ UNCHANGED <<ed, edReqs, edLoadId, edServer, edDraft, edKept, edLeft>>
    BY <1>4 DEF EdOverwrite
  <2>2. EdNoAsk \in EdAsks /\ EdNoAsk.kind = "none"
    BY DEF EdNoAsk, EdAsks, EdNone
  <2>3. EdFollows(ed, ed') /\ EdKeeps(ed, ed')
    BY <1>1, <2>1, EdStands
  <2>4. EdTypeOK'
    BY <1>1, <2>1, <2>2 DEF EdTypeOK
  <2> QED BY <2>1, <2>2, <2>3, <2>4, EdRests, EdKnowsOn
<1> QED BY <1>3, <1>4 DEF EdOverwrite

LEMMA EdDeleteInv == ASSUME EdInv, NEW id \in EdProjects, EdDelete(id) PROVE EdGood
<1>1. edLeft' \in [fresh : Nat, clicks : Nat, others : Nat] /\ edLoadId' \in Nat
  BY EdUses DEF EdInv, EdTypeOK, EdDelete
<1>5. PICK kind \in EdUpdates : kind = "delete"
  BY DEF EdUpdates
<1>2. PICK new : new = EdRequest(kind, id)
  OBVIOUS
<1>3. edReqs' = edReqs \cup {new} /\ ed' \in {ed, EdSaving} /\ edAsk' \in {edAsk, EdNoAsk}
  BY <1>2, <1>5 DEF EdDelete
<1>4. kind # "create" /\ kind # "load" /\ 0 \in Nat
  BY <1>5
<1> QED BY <1>1, <1>2, <1>3, <1>4, EdUpdates1 DEF EdDelete

\* Asking for an overwrite, or no more.
LEMMA EdAskOverwriteInv == ASSUME EdInv, NEW id \in EdProjects, EdAskOverwrite(id) PROVE EdGood
<1>1. EdTypeOK /\ edLeft' \in [fresh : Nat, clicks : Nat, others : Nat]
  BY EdUses DEF EdInv, EdAskOverwrite
<1>2. PICK known \in EdKnown(id) :
        edAsk' = [kind |-> "overwrite", id |-> id, session |-> ed.session, revision |-> ed.revision,
                  target |-> known, doc |-> ed.doc]
  BY DEF EdAskOverwrite
<1>3. known \in Nat
  BY <1>1, EdKnownIs
<1>4. /\ edAsk' \in EdAsks /\ edAsk'.session = ed.session /\ edAsk'.revision = ed.revision
      /\ edAsk'.doc = ed.doc /\ edAsk'.id = id
  BY <1>1, <1>2, <1>3 DEF EdAsks, EdTypeOK, EdStores
<1>5. UNCHANGED <<ed, edReqs, edLoadId, edServer, edDraft, edKept>>
  BY DEF EdAskOverwrite
<1>6. EdFollows(ed, ed') /\ EdKeeps(ed, ed')
  BY <1>1, <1>5, EdStands
<1>7. EdTypeOK'
  BY <1>1, <1>4, <1>5 DEF EdTypeOK
<1> QED BY <1>4, <1>5, <1>6, <1>7, EdAsking, EdRests, EdKnowsOn

LEMMA EdCancelAskInv == ASSUME EdInv, EdCancelAsk PROVE EdGood
<1>1. EdTypeOK
  BY DEF EdInv
<1>2. EdNoAsk \in EdAsks /\ EdNoAsk.kind = "none"
  BY DEF EdNoAsk, EdAsks, EdNone
<1>3. EdFollows(ed, ed') /\ EdKeeps(ed, ed')
  BY <1>1, EdStands DEF EdCancelAsk
<1>4. EdTypeOK'
  BY <1>1, <1>2 DEF EdTypeOK, EdCancelAsk
<1> QED BY <1>2, <1>3, <1>4, EdRests, EdKnowsOn DEF EdCancelAsk

-----------------------------------------------------------------------------
(* Answers.                                                                 *)

\* What is held and known is known.
LEMMA EdKnowsHeld ==
  ASSUME edServer' = edServer, NEW id, NEW born, NEW known, NEW base, EdHolds(id, born, known, base),
         ed'.project = id, ed'.base # EdNone => ed'.known = known /\ ed'.born = born /\ ed'.base = base
  PROVE  EdKnows'
BY DEF EdKnows, EdHolds, EdRows, EdLife, EdPast

\* A request has the types of one.
LEMMA EdAsked ==
  ASSUME EdInv, NEW r \in edReqs
  PROVE  /\ r.session \in Nat /\ r.revision \in Nat /\ r.over \in Nat /\ r.snapshot \in Nat
         /\ r.expected \in Nat /\ r.given \in Nat /\ r.born \in Nat /\ r.id \in EdProjects \cup {EdNowhere}
         /\ r.kind \in EdUpdates \ {"create"} => r.id \in EdProjects
         /\ r.kind \in {"create", "save", "load"} /\ r.at = "done" =>
              r.id \in EdProjects /\ EdHolds(r.id, r.born, r.given, r.snapshot)
         /\ EdTypeOK /\ EdIsStore(ed) /\ ed \in EdStores
BY DEF EdInv, EdTypeOK, EdRequests, EdStoredInv, EdIsStore, EdHolds

LEMMA EdOpenedInv == ASSUME EdInv, NEW r \in edReqs, EdOpened(r) PROVE EdGood
<1>1. EdTypeOK /\ r.snapshot \in Nat /\ r.given \in Nat /\ r.born \in Nat
  BY EdAsked
<1>2. CASE ed' = ed
  BY <1>1, <1>2, EdStands, EdKnowsOn, EdHears DEF EdOpened
<1>3. CASE ed' # ed
  <2>1. EdSame(r) /\ ed' = EdNamed(EdForgotten(EdReplaced(ed, r.snapshot, r.snapshot)), r.id, r.given, r.born)
    BY <1>3 DEF EdOpened
  <2>2. PICK doc \in Nat, known \in Nat, born \in Nat : doc = r.snapshot /\ known = r.given /\ born = r.born
    BY <1>1
  <2>3. PICK id \in EdProjects \cup {EdNowhere} : id = r.id
    BY EdAsked
  <2>4. PICK e : e = EdForgotten(EdReplaced(ed, doc, doc))
    OBVIOUS
  <2>5. ed' = EdNamed(e, id, known, born)
    BY <2>1, <2>2, <2>3, <2>4
  <2>6. EdIsAnew(doc, doc, id, known, born, ed')
    <3>1. PICK n : n = ed'
      OBVIOUS
    <3>2. EdIsAnew(doc, doc, id, known, born, n)
      BY <1>1, <2>4, <2>5, <3>1, EdAnew
    <3> QED BY <3>1, <3>2
  <2>7. EdHolds(id, born, known, doc)
    BY <2>2, <2>3, EdAsked DEF EdOpened
  <2>8. EdKnows'
    BY <2>6, <2>7, EdKnowsHeld DEF EdIsAnew, EdOpened
  <2>9. EdFollows(ed, ed')
    BY <2>6 DEF EdIsAnew
  <2> QED BY <2>1, <2>8, <2>9, EdHears DEF EdOpened
<1> QED BY <1>2, <1>3

\* Of the store only the status is another.
LEMMA EdStatusOnly ==
  ASSUME EdTypeOK, NEW st \in {"saved", "dirty", "saving", "failed"},
         NEW n, n = [ed EXCEPT !.status = st]
  PROVE  EdFollows(ed, n) /\ EdKeeps(ed, n) /\ n.doc = ed.doc
<1>1. ed \in EdStores /\ ed.idx <= Len(ed.hist)
  BY DEF EdTypeOK
<1>2. n \in EdStores
  BY <1>1 DEF EdStores
<1>3. /\ n.doc = ed.doc /\ n.session = ed.session /\ n.revision = ed.revision
      /\ n.project = ed.project /\ n.known = ed.known /\ n.base = ed.base /\ n.idx = ed.idx /\ n.hist = ed.hist
      /\ n.born = ed.born /\ n.drifted = ed.drifted
  BY <1>1 DEF EdStores
<1>4. n.session >= ed.session /\ n.revision >= ed.revision
  BY <1>1, <1>3 DEF EdStores
<1> QED BY <1>1, <1>2, <1>3, <1>4 DEF EdFollows, EdKeeps, EdIsStore

\* A design that was saved while this one is open, under a project that holds it.
LEMMA EdSavedHere ==
  ASSUME EdInv, NEW r \in edReqs, r.kind \in {"create", "save"}, r.at = "done",
         ed' = EdSavedAs(ed, r), edReqs' = edReqs \ {r},
         UNCHANGED <<edAsk, edLoadId, edServer, edDraft, edKept, edLeft>>
  PROVE  EdGood
<1>1. PICK id \in EdProjects, known \in Nat, born \in Nat, doc \in Nat :
        id = r.id /\ known = r.given /\ born = r.born /\ doc = r.snapshot
  BY EdAsked
<1>2. EdIsStore(ed) /\ ed \in EdStores
  BY EdAsked
<1>3. EdIsSavedAs(ed, id, known, born, doc, ed')
  <2>1. PICK n : n = ed'
    OBVIOUS
  <2>2. EdIsSavedAs(ed, id, known, born, doc, n)
    BY <1>1, <1>2, <2>1, EdSavedAsIs
  <2> QED BY <2>1, <2>2
<1>4. EdFollows(ed, ed') /\ ed'.doc = ed.doc
  <2>1. ed.session \in Nat /\ ed.revision \in Nat
    BY <1>2 DEF EdStores
  <2> QED BY <1>3, <2>1 DEF EdIsSavedAs, EdFollows
<1>5. EdHolds(id, born, known, doc)
  BY <1>1, EdAsked
<1>6. EdKnows'
  BY <1>3, <1>5, EdKnowsHeld DEF EdIsSavedAs
<1> QED BY <1>4, <1>6, EdHears

\* A project that was renamed holds the design it held, one revision later.
LEMMA EdRenamedHere ==
  ASSUME EdInv, NEW r \in edReqs, r.kind = "rename", r.at = "done", ed.project = r.id,
         ed' = [ed EXCEPT !.known = r.given, !.drifted = @ \/ r.expected # ed.known \/ r.born # ed.born],
         edReqs' = edReqs \ {r}, UNCHANGED <<edAsk, edLoadId, edServer, edDraft, edKept, edLeft>>
  PROVE  EdGood
<1>1. PICK id \in EdProjects, known \in Nat : id = r.id /\ known = r.given
  BY EdAsked DEF EdUpdates
<1>2. PICK d : d = (ed.drifted \/ r.expected # ed.known \/ r.born # ed.born)
  OBVIOUS
<1>3. d \in BOOLEAN /\ (~d => ~ed.drifted /\ r.expected = ed.known /\ r.born = ed.born)
  BY <1>2, Zenon
<1>4. ed' = [ed EXCEPT !.known = known, !.drifted = d]
  BY <1>1, <1>2
<1>5. ed \in EdStores /\ ed.idx <= Len(ed.hist) /\ EdTypeOK
  BY DEF EdInv, EdTypeOK
<1>6. d \in BOOLEAN
  BY <1>3
<1>7. ed' \in EdStores
  BY ONLY <1>1, <1>4, <1>5, <1>6 DEF EdStores
<1>8. /\ ed'.doc = ed.doc /\ ed'.session = ed.session /\ ed'.revision = ed.revision
      /\ ed'.project = ed.project /\ ed'.known = known /\ ed'.idx = ed.idx /\ ed'.hist = ed.hist
      /\ ed'.base = ed.base /\ ed'.born = ed.born /\ ed'.drifted = d
  BY ONLY <1>4, <1>5 DEF EdStores
<1>9. EdFollows(ed, ed') /\ ed'.doc = ed.doc
  <2>1. ed.session \in Nat /\ ed.revision \in Nat
    BY <1>5 DEF EdStores
  <2>2. EdIsStore(ed')
    BY <1>5, <1>7, <1>8 DEF EdIsStore
  <2> QED BY <1>8, <2>1, <2>2 DEF EdFollows
<1>10. EdKnows'
  <2>1. edServer' = edServer /\ id # EdNowhere
    BY EdAssumption
  <2>2. ASSUME ~ed'.drifted, ed'.base # EdNone PROVE EdHolds(id, ed.born, known, ed.base)
    <3>1. ~ed.drifted /\ r.expected = ed.known /\ r.born = ed.born /\ ed.base # EdNone
      BY <1>3, <1>8, <2>2
    <3>2. EdHolds(id, ed.born, ed.known, ed.base)
      BY <1>1, <2>1, <3>1 DEF EdInv, EdStoredInv
    <3>3. EdHolds(id, ed.born, known, EdRows(id)[ed.known])
      BY <1>1, <3>1 DEF EdInv, EdStoredInv
    <3> QED BY <3>2, <3>3 DEF EdHolds
  <2> QED BY <1>1, <1>8, <2>1, <2>2 DEF EdKnows, EdHolds, EdRows, EdLife, EdPast
<1> QED BY <1>9, <1>10, EdHears

LEMMA EdSavedInv == ASSUME EdInv, NEW r \in edReqs, EdSaved(r) PROVE EdGood
<1>1. EdTypeOK
  BY DEF EdInv
<1>2. r.at = "done" /\ edReqs' = edReqs \ {r} /\ UNCHANGED <<edAsk, edLoadId, edServer, edDraft, edKept, edLeft>>
  BY DEF EdSaved
<1>3. CASE ed' = ed
  BY <1>1, <1>2, <1>3, EdStands, EdKnowsOn, EdHears
<1>4. CASE r.kind \in {"create", "save"} /\ ed' = EdSavedAs(ed, r)
  BY <1>2, <1>4, EdSavedHere
<1>5. CASE r.kind = "save" /\ ed' = [ed EXCEPT !.status = EdStatus(ed)]
  <2>1. PICK st \in {"saved", "dirty", "saving", "failed"} : st = EdStatus(ed)
    BY EdStatusIs
  <2>2. EdFollows(ed, ed') /\ EdKeeps(ed, ed') /\ ed'.doc = ed.doc
    <3>1. PICK n : n = ed'
      OBVIOUS
    <3>2. n = [ed EXCEPT !.status = st]
      BY <1>5, <2>1, <3>1
    <3>3. EdFollows(ed, n) /\ EdKeeps(ed, n) /\ n.doc = ed.doc
      BY <1>1, <3>2, EdStatusOnly
    <3> QED BY <3>1, <3>3
  <2> QED BY <1>2, <2>2, EdKnowsOn, EdHears
<1>6. CASE /\ r.kind = "rename" /\ ed.project = r.id
           /\ ed' = [ed EXCEPT !.known = r.given,
                               !.drifted = @ \/ r.expected # ed.known \/ r.born # ed.born]
  BY <1>2, <1>6, EdRenamedHere
<1> QED BY <1>3, <1>4, <1>5, <1>6 DEF EdSaved

LEMMA EdFailedInv == ASSUME EdInv, NEW r \in edReqs, EdFailed(r) PROVE EdGood
<1>1. EdTypeOK
  BY DEF EdInv
<1>2. EdFollows(ed, ed') /\ EdKeeps(ed, ed') /\ ed'.doc = ed.doc
  <2>1. PICK n : n = ed'
    OBVIOUS
  <2>2. PICK st \in {"saved", "dirty", "saving", "failed"} : st = "failed"
    OBVIOUS
  <2>3. n = [ed EXCEPT !.status = st] \/ n = ed
    BY <2>1, <2>2 DEF EdFailed
  <2> QED BY <1>1, <2>1, <2>3, EdStatusOnly, EdStands
<1> QED BY <1>2, EdKnowsOn, EdHears DEF EdFailed

LEMMA EdDeletedInv == ASSUME EdInv, NEW r \in edReqs, EdDeleted(r) PROVE EdGood
<1>1. EdTypeOK /\ ed.doc \in Nat /\ 0 \in Nat
  BY DEF EdInv, EdTypeOK, EdStores
<1>2. CASE ed' = ed
  BY <1>1, <1>2, EdStands, EdKnowsOn, EdHears DEF EdDeleted
<1>3. CASE ed' = EdUnnamed(EdReplaced(ed, ed.doc, EdNone))
  <2>1. PICK e, none, doc, n : e = EdReplaced(ed, doc, 0) /\ none = EdNowhere /\ doc = ed.doc /\ n = ed'
    OBVIOUS
  <2>2. n = EdNamed(e, none, 0, 0) /\ none \in EdProjects \cup {EdNowhere} /\ doc \in Nat
    BY <1>1, <1>3, <2>1 DEF EdNone, EdUnnamed
  <2>3. e = EdReplaced(ed, doc, 0)
    BY <2>1
  <2>4. EdIsAnew(doc, 0, none, 0, 0, n)
    BY ONLY <1>1, <2>2, <2>3, EdAnew
  <2>5. EdFollows(ed, ed') /\ ed'.project = EdNowhere /\ ed'.doc = ed.doc
    BY <2>1, <2>4 DEF EdIsAnew
  <2> QED BY <2>5, EdKnowsOn, EdHears DEF EdDeleted
<1> QED BY <1>2, <1>3 DEF EdDeleted

\* The default resolution is changed and, refused, put back.
LEMMA EdSettingsInv == ASSUME EdInv, EdSettings PROVE EdGood
<1>1. EdTypeOK /\ edLeft.fresh \in Nat /\ edLeft' \in [fresh : Nat, clicks : Nat, others : Nat]
  BY EdUses DEF EdInv, EdTypeOK, EdSettings
<1>2. EdFollows(ed, ed') /\ EdKeeps(ed, ed')
  BY <1>1, EdEdited DEF EdSettings
<1>3. PICK session \in Nat, revision \in Nat, doc \in Nat, old \in Nat :
        /\ session = ed'.session /\ revision = ed'.revision /\ doc = ed'.doc /\ old = ed.doc
  BY <1>1, <1>2 DEF EdFollows, EdIsStore, EdStores, EdTypeOK
<1>4. PICK new : new = [EdRequest("settings", EdNowhere) EXCEPT !.session = session, !.revision = revision,
                                                           !.over = doc, !.snapshot = old]
  OBVIOUS
<1>5. edReqs' = edReqs \cup {new}
  BY <1>3, <1>4 DEF EdSettings
<1>6. /\ new \in EdRequests /\ new.kind = "settings" /\ new.session = session /\ new.revision = revision
      /\ new.over = doc /\ new.at = "sent"
  <2>1. PICK q, kind, none : q = EdRequest(kind, none) /\ kind = "settings" /\ none = EdNowhere
    OBVIOUS
  <2>2. q \in EdRequests /\ q.kind = "settings" /\ q.at = "sent"
    BY <1>1, <2>1, EdRequestIs
  <2> QED BY <1>3, <1>4, <2>1, <2>2 DEF EdRequests
<1>7. EdNames(new, new.over)'
  BY <1>3, <1>6 DEF EdNames, EdSame
<1>8. EdBegins(new)
  BY <1>6, <1>7 DEF EdBegins, EdUpdates
<1>9. EdTypeOK'
  BY <1>1, <1>2, <1>5, <1>6 DEF EdSettings, EdTypeOK, EdFollows, EdIsStore
<1>10. EdKnows'
  BY <1>2, EdKnowsOn DEF EdSettings
<1>11. edServer' = edServer /\ edAsk' = edAsk /\ new.kind # "load"
  BY <1>6 DEF EdSettings
<1> QED BY <1>2, <1>5, <1>8, <1>9, <1>10, <1>11, EdSends

LEMMA EdSettingsAnsweredInv == ASSUME EdInv, NEW r \in edReqs, EdSettingsAnswered(r) PROVE EdGood
<1>1. EdTypeOK /\ r.snapshot \in Nat
  BY EdAsked
<1>2. CASE ed' = ed
  BY <1>1, <1>2, EdStands, EdKnowsOn, EdHears DEF EdSettingsAnswered
<1>3. CASE EdSame(r) /\ ed' = EdRecorded(ed, EdChanged(ed, r.snapshot))
  <2>1. EdFollows(ed, ed') /\ EdKeeps(ed, ed')
    BY <1>1, <1>3, EdEdited
  <2> QED BY <1>3, <2>1, EdKnowsOn, EdHears DEF EdSettingsAnswered
<1> QED BY <1>2, <1>3 DEF EdSettingsAnswered

\* Imports and the assistant.
LEMMA EdAskForInv == ASSUME EdInv, NEW kind \in {"import", "assistant"}, EdAskFor(kind) PROVE EdGood
<1>1. EdTypeOK /\ edLeft.fresh \in Nat /\ edLeft' \in [fresh : Nat, clicks : Nat, others : Nat]
  BY EdUses DEF EdInv, EdTypeOK, EdAskFor
<1>2. PICK none, fresh : none = EdNowhere /\ fresh = edLeft.fresh
  OBVIOUS
<1>3. PICK q : q = EdRequest(kind, none)
  OBVIOUS
<1>4. /\ q \in EdRequests /\ q.kind = kind /\ q.session = ed.session /\ q.revision = ed.revision
      /\ q.over = ed.doc
  BY <1>1, <1>2, <1>3, EdRequestIs
<1>5. PICK new : new = [q EXCEPT !.snapshot = fresh, !.at = "done"]
  OBVIOUS
<1>6. edReqs' = edReqs \cup {new}
  BY <1>2, <1>3, <1>5 DEF EdAskFor
<1>7. /\ new \in EdRequests /\ new.kind = kind /\ new.session = ed.session /\ new.revision = ed.revision
      /\ new.over = ed.doc /\ new.at = "done"
  <2>1. fresh \in Nat
    BY <1>1, <1>2
  <2> QED BY <1>4, <1>5, <2>1 DEF EdRequests
<1>8. /\ EdFollows(ed, ed') /\ EdKeeps(ed, ed') /\ ed' = ed /\ edServer' = edServer /\ edAsk' = edAsk
      /\ UNCHANGED <<edLoadId, edDraft, edKept>>
  BY <1>1, EdStands DEF EdAskFor
<1>9. EdNames(new, new.over)'
  <2>1. PICK doc : doc = ed.doc
    OBVIOUS
  <2>2. EdNames(new, doc)
    BY <1>1, <1>7, <2>1, EdNamesNow
  <2> QED BY <1>7, <1>8, <2>1, <2>2 DEF EdNames, EdSame
<1>10. EdBegins(new)
  BY <1>7, <1>9 DEF EdBegins, EdUpdates
<1>11. EdTypeOK'
  BY <1>1, <1>6, <1>7, <1>8 DEF EdTypeOK
<1>12. EdKnows'
  BY <1>8, EdKnowsOn
<1>13. new.kind # "load"
  BY <1>7
<1> QED BY <1>6, <1>8, <1>10, <1>11, <1>12, <1>13, EdSends

LEMMA EdImportedInv == ASSUME EdInv, NEW r \in edReqs, EdImported(r) PROVE EdGood
<1>1. EdTypeOK /\ r.snapshot \in Nat /\ EdIsStore(ed)
  BY EdAsked
<1>2. CASE ed' = ed
  BY <1>1, <1>2, EdStands, EdKnowsOn, EdHears DEF EdImported
<1>3. CASE EdSame(r) /\ ed' = EdChanged(ed, r.snapshot)
  <2>1. EdFollows(ed, ed') /\ EdKeeps(ed, ed')
    BY <1>1, <1>3, EdChangedIs
  <2> QED BY <1>3, <2>1, EdKnowsOn, EdHears DEF EdImported
<1> QED BY <1>2, <1>3 DEF EdImported

LEMMA EdAssistedInv == ASSUME EdInv, NEW r \in edReqs, EdAssisted(r) PROVE EdGood
<1>1. EdTypeOK /\ r.snapshot \in Nat /\ edReqs' = edReqs \ {r}
      /\ UNCHANGED <<edAsk, edLoadId, edServer, edDraft, edKept, edLeft>>
  BY EdAsked DEF EdAssisted
<1>2. CASE ~EdSame(r)
  <2>1. ed' = ed
    BY <1>2 DEF EdAssisted
  <2> QED BY <1>1, <2>1, EdStands, EdKnowsOn, EdHears
<1>3. CASE EdSame(r)
  <2>1. PICK next : next = EdRecorded(ed, EdChanged(ed, r.snapshot))
    OBVIOUS
  <2>2. EdFollows(ed, next) /\ EdKeeps(ed, next)
    BY <1>1, <2>1, EdEdited
  <2>3. CASE ed' = next
    BY <1>1, <1>3, <2>2, <2>3, EdKnowsOn, EdHears
  <2>4. CASE ed' # next
    <3>1. PICK id \in EdProjects :
            EdExists(id) /\ ed' = [next EXCEPT !.project = id, !.known = Len(EdRows(id)),
                                               !.born = EdLife(id), !.drifted = TRUE]
      BY <1>3, <2>1, <2>4 DEF EdAssisted
    <3>2. PICK known, born, on : known = Len(EdRows(id)) /\ born = EdLife(id) /\ on = TRUE
      OBVIOUS
    <3>3. on \in BOOLEAN
      BY ONLY <3>2
    <3>4. next \in EdStores /\ next.idx <= Len(next.hist)
      BY <2>2 DEF EdFollows, EdIsStore
    <3>5. ed' = [next EXCEPT !.project = id, !.known = known, !.born = born, !.drifted = on]
      BY <3>1, <3>2
    <3>6. known \in Nat /\ born \in Nat /\ id \in EdProjects \cup {EdNowhere}
      <4>1. EdRows(id) \in Seq(Nat) /\ EdPast(id) \in Seq(Nat)
        BY <1>1 DEF EdTypeOK, EdRows, EdPast
      <4>2. known = Len(EdRows(id)) /\ born = Len(EdPast(id)) + 1
        BY <3>2 DEF EdLife
      <4> QED BY <4>1, <4>2
    <3>7. ed' \in EdStores
      BY ONLY <3>3, <3>4, <3>5, <3>6 DEF EdStores
    <3>8. /\ ed'.doc = next.doc /\ ed'.session = next.session /\ ed'.revision = next.revision
          /\ ed'.project = id /\ ed'.idx = next.idx /\ ed'.hist = next.hist /\ ed'.drifted = on
      BY ONLY <3>4, <3>5 DEF EdStores
    <3>9. EdFollows(ed, ed')
      BY <2>2, <3>4, <3>7, <3>8 DEF EdFollows, EdIsStore
    <3>10. ed'.drifted
      BY ONLY <3>2, <3>8
    <3>11. EdKnows'
      BY <3>10 DEF EdKnows
    <3> QED BY <1>1, <1>3, <3>9, <3>11, EdHears
  <2> QED BY <2>3, <2>4
<1> QED BY <1>2, <1>3

-----------------------------------------------------------------------------
(* The recovery copy.                                                       *)

LEMMA EdReloadInv == ASSUME EdInv, NEW closing \in BOOLEAN, EdReload(closing) PROVE EdGood
<1>1. EdTypeOK /\ edLeft' \in [fresh : Nat, clicks : Nat, others : Nat] /\ ed.doc \in Nat /\ edDraft \in Nat
  BY EdUses DEF EdInv, EdTypeOK, EdStores, EdReload
<1>2. edDraft' \in Nat /\ edKept' \in BOOLEAN
  BY <1>1 DEF EdReload, EdPersisted, EdNone
<1>3. ed' = EdFresh /\ edAsk' = EdNoAsk /\ edReqs' = {} /\ edLoadId' = 0 /\ edServer' = edServer
  BY DEF EdReload
<1>4. EdFresh \in EdStores /\ EdFresh.idx <= Len(EdFresh.hist) /\ EdFresh.project = EdNowhere
  BY DEF EdFresh, EdStores, EdBlank, EdNone
<1>5. EdNoAsk \in EdAsks /\ EdNoAsk.kind = "none"
  BY DEF EdNoAsk, EdAsks, EdNone
<1>6. EdTypeOK'
  BY <1>1, <1>2, <1>3, <1>4, <1>5 DEF EdTypeOK
<1>7. EdNamesInv' /\ EdStoredInv'
  BY <1>3, <1>4, <1>5 DEF EdNamesInv, EdStoredInv
<1>8. EdAnswersKeepEdits
  BY <1>3 DEF EdAnswersKeepEdits
<1> QED BY <1>6, <1>7, <1>8 DEF EdGood, EdInv

\* What is recovered is a design of no project.
LEMMA EdRecoversIs ==
  ASSUME EdTypeOK, NEW n, n = EdRecovers PROVE EdFollows(ed, n) /\ n.project = EdNowhere
<1>1. PICK e, none, doc : e = EdForgotten(EdReplaced(ed, doc, 0)) /\ none = EdNowhere /\ doc = edDraft
  OBVIOUS
<1>2. n = EdNamed(e, none, 0, 0) /\ none \in EdProjects \cup {EdNowhere} /\ doc \in Nat /\ 0 \in Nat /\ EdTypeOK
  BY <1>1 DEF EdNone, EdTypeOK, EdRecovers, EdUnnamed
<1>3. e = EdForgotten(EdReplaced(ed, doc, 0))
  BY <1>1
<1>4. EdIsAnew(doc, 0, none, 0, 0, n)
  BY ONLY <1>2, <1>3, EdAnew
<1> QED BY <1>1, <1>4 DEF EdIsAnew

LEMMA EdRecoverInv == ASSUME EdInv, EdRecover PROVE EdGood
<1>1. EdTypeOK /\ edLeft' \in [fresh : Nat, clicks : Nat, others : Nat]
  BY EdUses DEF EdInv, EdRecover
<1>2. CASE EdDirty(ed)
  <2>1. /\ edAsk' = [EdNoAsk EXCEPT !.kind = "draft", !.session = ed.session,
                                    !.revision = ed.revision, !.doc = ed.doc]
        /\ UNCHANGED <<ed, edReqs, edLoadId, edServer, edDraft, edKept>>
    BY <1>2 DEF EdRecover
  <2>2. /\ edAsk' \in EdAsks /\ edAsk'.session = ed.session /\ edAsk'.revision = ed.revision
        /\ edAsk'.doc = ed.doc /\ edAsk'.kind = "draft"
    BY <1>1, <2>1 DEF EdAsks, EdNoAsk, EdNone, EdTypeOK, EdStores
  <2>3. EdFollows(ed, ed') /\ EdKeeps(ed, ed')
    BY <1>1, <2>1, EdStands
  <2>4. EdTypeOK'
    BY <1>1, <2>1, <2>2 DEF EdTypeOK
  <2> QED BY <2>1, <2>2, <2>3, <2>4, EdAsking, EdRests, EdKnowsOn
<1>3. CASE ~EdDirty(ed)
  <2>1. /\ ed' = EdRecovers /\ edKept' \in BOOLEAN
        /\ UNCHANGED <<edAsk, edDraft, edReqs, edLoadId, edServer>>
    BY <1>3 DEF EdRecover
  <2>2. EdFollows(ed, ed') /\ ed'.project = EdNowhere
    BY <1>1, <2>1, EdRecoversIs
  <2>3. EdTypeOK'
    BY <1>1, <2>1, <2>2 DEF EdTypeOK, EdFollows, EdIsStore
  <2> QED BY <2>1, <2>2, <2>3, EdRests, EdKnowsOn
<1> QED BY <1>2, <1>3

LEMMA EdConfirmRecoverInv == ASSUME EdInv, EdConfirmRecover PROVE EdGood
<1>1. EdTypeOK /\ EdNoAsk \in EdAsks /\ EdNoAsk.kind = "none"
  BY DEF EdInv, EdNoAsk, EdAsks, EdNone
<1>2. /\ edAsk' = EdNoAsk /\ UNCHANGED <<edReqs, edLoadId, edServer, edDraft, edLeft>>
      /\ ed' \in {ed, EdRecovers} /\ edKept' \in BOOLEAN
  BY <1>1 DEF EdConfirmRecover, EdTypeOK
<1>3. EdFollows(ed, ed') /\ (EdKeeps(ed, ed') \/ ed'.project = EdNowhere)
  BY <1>1, <1>2, EdRecoversIs, EdStands
<1>4. EdTypeOK'
  BY <1>1, <1>2, <1>3 DEF EdTypeOK, EdFollows, EdIsStore
<1> QED BY <1>1, <1>2, <1>3, <1>4, EdRests, EdKnowsOn

LEMMA EdDiscardInv == ASSUME EdInv, EdDiscard PROVE EdGood
<1>1. EdTypeOK /\ edLeft' \in [fresh : Nat, clicks : Nat, others : Nat] /\ ed.doc \in Nat
  BY EdUses DEF EdInv, EdTypeOK, EdStores, EdDiscard
<1>2. UNCHANGED <<ed, edAsk, edReqs, edLoadId, edServer>> /\ edKept' \in BOOLEAN /\ edDraft' \in Nat
  BY <1>1 DEF EdDiscard, EdNone
<1>3. EdFollows(ed, ed') /\ EdKeeps(ed, ed')
  BY <1>1, <1>2, EdStands
<1>4. EdTypeOK'
  BY <1>1, <1>2 DEF EdTypeOK
<1> QED BY <1>2, <1>3, <1>4, EdRests, EdKnowsOn

-----------------------------------------------------------------------------
(* The server.                                                              *)

\* A project grows, or is another one than before.
EdGrows ==
  /\ edServer' \in [EdProjects -> [rows : Seq(Nat), past : Seq(Nat)]]
  /\ \A id \in EdProjects :
       \/ EdLife(id)' > EdLife(id)
       \/ /\ EdLife(id)' = EdLife(id) /\ Len(EdRows(id)) <= Len(EdRows(id)')
          /\ \A k \in 1..Len(EdRows(id)) : EdRows(id)'[k] = EdRows(id)[k]

\* What the server has of a project.
LEMMA EdServerIs ==
  ASSUME EdTypeOK, NEW id \in EdProjects
  PROVE  /\ EdRows(id) \in Seq(Nat) /\ EdPast(id) \in Seq(Nat) /\ Len(EdRows(id)) \in Nat /\ EdLife(id) \in Nat
         /\ EdExists(id) => Len(EdRows(id)) # 0 /\ EdRows(id)[Len(EdRows(id))] \in Nat
<1>1. edServer[id] \in [rows : Seq(Nat), past : Seq(Nat)]
  BY DEF EdTypeOK
<1>2. EdRows(id) \in Seq(Nat) /\ EdPast(id) \in Seq(Nat)
  BY <1>1 DEF EdRows, EdPast
<1>3. Len(EdRows(id)) \in Nat /\ EdLife(id) \in Nat
  BY <1>2 DEF EdLife
<1>4. ASSUME EdExists(id) PROVE Len(EdRows(id)) # 0 /\ EdRows(id)[Len(EdRows(id))] \in Nat
  <2>1. PICK rows \in Seq(Nat) : rows = EdRows(id)
    BY <1>2
  <2>2. rows # <<>>
    BY <1>4, <2>1 DEF EdExists
  <2>3. Len(rows) # 0 /\ rows[Len(rows)] \in Nat
    BY <2>2
  <2> QED BY <2>1, <2>3
<1> QED BY <1>2, <1>3, <1>4

LEMMA EdServerStands ==
  ASSUME EdTypeOK, edServer' = edServer PROVE EdGrows
<1>1. edServer' \in [EdProjects -> [rows : Seq(Nat), past : Seq(Nat)]]
  BY DEF EdTypeOK
<1>2. ASSUME NEW id \in EdProjects
      PROVE  /\ EdLife(id)' = EdLife(id) /\ Len(EdRows(id)) <= Len(EdRows(id)')
             /\ \A k \in 1..Len(EdRows(id)) : EdRows(id)'[k] = EdRows(id)[k]
  <2>1. EdRows(id)' = EdRows(id) /\ EdLife(id)' = EdLife(id)
    BY DEF EdRows, EdLife, EdPast
  <2> QED BY <2>1, EdServerIs
<1> QED BY <1>1, <1>2 DEF EdGrows

\* A revision more.
LEMMA EdCommits ==
  ASSUME EdTypeOK, NEW x \in EdProjects, NEW doc \in Nat, EdCommit(x, doc)
  PROVE  /\ EdGrows /\ EdLife(x)' = EdLife(x) /\ EdRows(x)' = Append(EdRows(x), doc)
         /\ Len(EdRows(x)') = Len(EdRows(x)) + 1 /\ EdRows(x)'[Len(EdRows(x)) + 1] = doc
         /\ \A k \in 1..Len(EdRows(x)) : EdRows(x)'[k] = EdRows(x)[k]
<1>1. PICK rows \in Seq(Nat), past \in Seq(Nat) : rows = EdRows(x) /\ past = EdPast(x)
  BY EdServerIs
<1>2. PICK next : next = Append(rows, doc)
  OBVIOUS
<1>3. /\ next \in Seq(Nat) /\ Len(next) = Len(rows) + 1 /\ next[Len(rows) + 1] = doc
      /\ Len(rows) <= Len(next) /\ \A k \in 1..Len(rows) : next[k] = rows[k]
  BY <1>2
<1>4. PICK row : row = [edServer[x] EXCEPT !.rows = next]
  OBVIOUS
<1>5. edServer[x] \in [rows : Seq(Nat), past : Seq(Nat)] /\ edServer \in [EdProjects -> [rows : Seq(Nat), past : Seq(Nat)]]
  BY DEF EdTypeOK
<1>6. row \in [rows : Seq(Nat), past : Seq(Nat)] /\ row.rows = next /\ row.past = past
  BY <1>1, <1>3, <1>4, <1>5 DEF EdPast
<1>7. edServer' = [edServer EXCEPT ![x] = row]
  BY <1>1, <1>2, <1>4 DEF EdCommit, EdRows
<1>8. /\ edServer' \in [EdProjects -> [rows : Seq(Nat), past : Seq(Nat)]] /\ edServer'[x] = row
      /\ \A id \in EdProjects : id # x => edServer'[id] = edServer[id]
  BY <1>5, <1>6, <1>7
<1>9. EdRows(x)' = next /\ EdLife(x)' = EdLife(x)
  BY <1>1, <1>6, <1>8 DEF EdRows, EdLife, EdPast
<1>10. ASSUME NEW id \in EdProjects
       PROVE  /\ EdLife(id)' = EdLife(id) /\ Len(EdRows(id)) <= Len(EdRows(id)')
              /\ \A k \in 1..Len(EdRows(id)) : EdRows(id)'[k] = EdRows(id)[k]
  <2>1. CASE id = x
    BY <1>1, <1>3, <1>9, <2>1
  <2>2. CASE id # x
    <3>1. EdRows(id)' = EdRows(id) /\ EdLife(id)' = EdLife(id)
      BY <1>8, <2>2 DEF EdRows, EdLife, EdPast
    <3> QED BY <3>1, EdServerIs
  <2> QED BY <2>1, <2>2
<1>11. EdGrows
  BY <1>8, <1>10 DEF EdGrows
<1> QED BY <1>1, <1>2, <1>3, <1>9, <1>11

\* The end of a project: the next one with its id is another.
LEMMA EdRemoves ==
  ASSUME EdTypeOK, NEW x \in EdProjects, EdRemove(x)
  PROVE  EdGrows
<1>1. PICK past \in Seq(Nat), last \in Nat : past = EdPast(x) /\ last = Len(EdRows(x))
  BY EdServerIs
<1>2. PICK next, none : next = Append(past, last) /\ none = <<>>
  OBVIOUS
<1>3. next \in Seq(Nat) /\ Len(next) = Len(past) + 1 /\ none \in Seq(Nat) /\ Len(past) \in Nat
  BY <1>1, <1>2
<1>4. PICK row : row = [rows |-> none, past |-> next]
  OBVIOUS
<1>5. row \in [rows : Seq(Nat), past : Seq(Nat)] /\ row.past = next
  BY <1>3, <1>4
<1>6. edServer \in [EdProjects -> [rows : Seq(Nat), past : Seq(Nat)]] /\ edServer' = [edServer EXCEPT ![x] = row]
  BY <1>1, <1>2, <1>4 DEF EdTypeOK, EdRemove
<1>7. /\ edServer' \in [EdProjects -> [rows : Seq(Nat), past : Seq(Nat)]] /\ edServer'[x] = row
      /\ \A id \in EdProjects : id # x => edServer'[id] = edServer[id]
  BY <1>5, <1>6
<1>8. EdLife(x)' > EdLife(x)
  <2>1. EdLife(x)' = Len(next) + 1 /\ EdLife(x) = Len(past) + 1
    BY <1>1, <1>5, <1>7 DEF EdLife, EdPast
  <2> QED BY <1>3, <2>1
<1>9. ASSUME NEW id \in EdProjects, id # x
      PROVE  /\ EdLife(id)' = EdLife(id) /\ Len(EdRows(id)) <= Len(EdRows(id)')
             /\ \A k \in 1..Len(EdRows(id)) : EdRows(id)'[k] = EdRows(id)[k]
  <2>1. EdRows(id)' = EdRows(id) /\ EdLife(id)' = EdLife(id)
    BY <1>7, <1>9 DEF EdRows, EdLife, EdPast
  <2> QED BY <2>1, EdServerIs
<1> QED BY <1>7, <1>8, <1>9 DEF EdGrows

\* What is held stays held, as long as the project is there.
LEMMA EdHoldsOn ==
  ASSUME EdTypeOK, EdGrows, NEW id, NEW born \in Nat, NEW revision, NEW doc, EdHolds(id, born, revision, doc)
  PROVE  EdHolds(id, born, revision, doc)'
<1>1. id \in EdProjects /\ born <= EdLife(id)
  BY DEF EdHolds
<1>2. EdLife(id) \in Nat /\ Len(EdRows(id)) \in Nat
  BY <1>1, EdServerIs
<1>3. EdLife(id)' \in Nat /\ Len(EdRows(id)') \in Nat
  <2>1. edServer'[id] \in [rows : Seq(Nat), past : Seq(Nat)]
    BY <1>1 DEF EdGrows
  <2>2. EdRows(id)' \in Seq(Nat) /\ EdPast(id)' \in Seq(Nat)
    BY <2>1 DEF EdRows, EdPast
  <2> QED BY <2>2 DEF EdLife
<1>4. CASE EdLife(id)' > EdLife(id)
  <2>1. born <= EdLife(id)' /\ born # EdLife(id)'
    BY <1>1, <1>2, <1>3, <1>4
  <2> QED BY <1>1, <2>1 DEF EdHolds
<1>5. CASE /\ EdLife(id)' = EdLife(id) /\ Len(EdRows(id)) <= Len(EdRows(id)')
           /\ \A k \in 1..Len(EdRows(id)) : EdRows(id)'[k] = EdRows(id)[k]
  <2>1. ASSUME born = EdLife(id)' PROVE revision \in 1..Len(EdRows(id)') /\ EdRows(id)'[revision] = doc
    <3>1. revision \in 1..Len(EdRows(id)) /\ EdRows(id)[revision] = doc
      BY <1>5, <2>1 DEF EdHolds
    <3> QED BY <1>2, <1>3, <1>5, <3>1
  <2> QED BY <1>1, <1>5, <2>1 DEF EdHolds
<1> QED BY <1>1, <1>4, <1>5 DEF EdGrows

\* q is the answer to r.
EdAnswers(r, q) ==
  /\ q \in EdRequests /\ q.kind = r.kind /\ (q.kind # "create" => q.id = r.id) /\ q.session = r.session
  /\ q.revision = r.revision /\ q.over = r.over /\ q.at # "sent"
  /\ q.kind \in {"import", "assistant"} => q.at = "done"
  /\ q.kind \in {"create", "save", "load"} /\ q.at = "done" => EdHolds(q.id, q.born, q.given, q.snapshot)'
  /\ q.kind = "rename" /\ q.at = "done" =>
       /\ EdHolds(q.id, q.born, q.given, EdRows(q.id)[q.expected])'
       /\ q.born = EdLife(q.id)' => q.expected \in 1..Len(EdRows(q.id)')

\* A step of the server: some requests are answered, projects change.
LEMMA EdServesInv ==
  ASSUME EdInv, EdGrows, UNCHANGED <<ed, edAsk, edLoadId, edDraft, edKept>>,
         edLeft' \in [fresh : Nat, clicks : Nat, others : Nat],
         NEW Old \in SUBSET edReqs, NEW New, edReqs' = (edReqs \ Old) \cup New,
         \A q \in New : \E r \in Old : EdAnswers(r, q)
  PROVE  EdGood
<1>1. EdTypeOK
  BY DEF EdInv
<1>2. EdTypeOK'
  <2>1. New \subseteq EdRequests
    BY DEF EdAnswers
  <2> QED BY <1>1, <2>1 DEF EdTypeOK, EdGrows
<1>3. EdNamesInv'
  <2>1. ASSUME NEW q \in New PROVE EdNames(q, q.over)
    <3>1. PICK r \in Old : EdAnswers(r, q)
      OBVIOUS
    <3> QED BY <3>1 DEF EdAnswers, EdInv, EdNamesInv, EdNames, EdSame
  <2>2. \A r \in edReqs' : EdNames(r, r.over)
    BY <2>1 DEF EdInv, EdNamesInv
  <2> QED BY <2>2 DEF EdInv, EdNamesInv, EdNames, EdSame
<1>4. EdKnows'
  <2>1. EdKnows
    BY DEF EdInv, EdStoredInv, EdKnows
  <2>2. ed.born \in Nat
    BY <1>1 DEF EdTypeOK, EdStores
  <2>3. PICK id, born, known, base : id = ed.project /\ born = ed.born /\ known = ed.known /\ base = ed.base
    OBVIOUS
  <2>4. EdHolds(id, born, known, base) => EdHolds(id, born, known, base)'
    BY <1>1, <2>2, <2>3, EdHoldsOn
  <2> QED BY <2>1, <2>3, <2>4 DEF EdKnows
<1>5. EdStoredInv'
  <2>1. ASSUME NEW r \in edReqs'
        PROVE  /\ r.kind \in EdUpdates => r.id \in EdProjects \/ r.kind = "create"
               /\ r.kind \in {"create", "save", "load"} /\ r.at = "done" =>
                    EdHolds(r.id, r.born, r.given, r.snapshot)'
               /\ r.kind = "rename" /\ r.at = "done" =>
                    /\ EdHolds(r.id, r.born, r.given, EdRows(r.id)[r.expected])'
                    /\ r.born = EdLife(r.id)' => r.expected \in 1..Len(EdRows(r.id)')
               /\ r.kind \in {"import", "assistant"} => r.at = "done"
    <3>1. CASE r \in edReqs
      <4>1. /\ r.kind \in EdUpdates => r.id \in EdProjects \/ r.kind = "create"
            /\ r.kind \in {"create", "save", "load"} /\ r.at = "done" =>
                 EdHolds(r.id, r.born, r.given, r.snapshot)
            /\ r.kind = "rename" /\ r.at = "done" =>
                 /\ EdHolds(r.id, r.born, r.given, EdRows(r.id)[r.expected])
                 /\ r.born = EdLife(r.id) => r.expected \in 1..Len(EdRows(r.id))
            /\ r.kind \in {"import", "assistant"} => r.at = "done"
        BY <3>1 DEF EdInv, EdStoredInv
      <4>2. r.born \in Nat
        BY <1>1, <3>1 DEF EdTypeOK, EdRequests
      <4>3. EdHolds(r.id, r.born, r.given, r.snapshot) => EdHolds(r.id, r.born, r.given, r.snapshot)'
        <5>1. PICK id, born, given, doc : id = r.id /\ born = r.born /\ given = r.given /\ doc = r.snapshot
          OBVIOUS
        <5>2. EdHolds(id, born, given, doc) => EdHolds(id, born, given, doc)'
          BY <1>1, <4>2, <5>1, EdHoldsOn
        <5> QED BY <5>1, <5>2
      <4>4. ASSUME r.kind = "rename", r.at = "done"
            PROVE  /\ EdHolds(r.id, r.born, r.given, EdRows(r.id)[r.expected])'
                   /\ r.born = EdLife(r.id)' => r.expected \in 1..Len(EdRows(r.id)')
        <5>1. PICK id, born, given, expected, doc :
                id = r.id /\ born = r.born /\ given = r.given /\ expected = r.expected /\ doc = EdRows(id)[expected]
          OBVIOUS
        <5>2. EdHolds(id, born, given, doc) /\ EdHolds(id, born, expected, doc)
          BY <4>1, <4>4, <5>1 DEF EdHolds
        <5>3. EdHolds(id, born, given, doc)' /\ EdHolds(id, born, expected, doc)'
          BY <1>1, <4>2, <5>1, <5>2, EdHoldsOn
        <5>4. EdHolds(id, born, given, EdRows(id)[expected])'
          BY <5>3 DEF EdHolds
        <5> QED BY <5>1, <5>3, <5>4 DEF EdHolds
      <4> QED BY <4>1, <4>3, <4>4
    <3>2. CASE r \in New
      <4>1. PICK o \in Old : EdAnswers(o, r)
        BY <3>2
      <4>2. o.kind \in EdUpdates => o.id \in EdProjects \/ o.kind = "create"
        BY DEF EdInv, EdStoredInv
      <4> QED BY <4>1, <4>2 DEF EdAnswers
    <3> QED BY <2>1, <3>1, <3>2
  <2> QED BY <1>4, <2>1 DEF EdStoredInv, EdKnows
<1>6. EdAnswersKeepEdits
  <2>1. \A q \in New : q.at # "sent"
    BY DEF EdAnswers
  <2> QED BY <2>1 DEF EdAnswersKeepEdits
<1> QED BY <1>2, <1>3, <1>5, <1>6 DEF EdGood, EdInv

\* A request that was sent is answered.
LEMMA EdServesOne ==
  ASSUME EdInv, NEW r \in edReqs, NEW q, edReqs' = (edReqs \ {r}) \cup {q}, EdAnswers(r, q), EdGrows,
         UNCHANGED <<ed, edAsk, edLoadId, edDraft, edKept>>,
         edLeft' \in [fresh : Nat, clicks : Nat, others : Nat]
  PROVE  EdGood
<1>1. PICK Old, New : Old = {r} /\ New = {q}
  OBVIOUS
<1>2. Old \in SUBSET edReqs
  BY <1>1
<1>3. edReqs' = (edReqs \ Old) \cup New /\ \A p \in New : \E o \in Old : EdAnswers(o, p)
  BY <1>1
<1> QED BY <1>2, <1>3, EdServesInv

\* It is, and the server stays as it is.
LEMMA EdRestsServer ==
  ASSUME EdInv, NEW r \in edReqs, NEW q, edReqs' = (edReqs \ {r}) \cup {q}, EdAnswers(r, q),
         UNCHANGED <<ed, edAsk, edLoadId, edServer, edDraft, edKept>>,
         edLeft' \in [fresh : Nat, clicks : Nat, others : Nat]
  PROVE  EdGood
<1>1. EdGrows
  BY EdServerStands DEF EdInv
<1> QED BY <1>1, EdServesOne

\* A request that fails is answered by that.
LEMMA EdRefusing ==
  ASSUME EdInv, NEW r \in edReqs, r.kind \notin {"import", "assistant"}, NEW q, q = [r EXCEPT !.at = "failed"]
  PROVE  EdAnswers(r, q)
<1>1. r \in EdRequests
  BY DEF EdInv, EdTypeOK
<1>2. /\ q \in EdRequests /\ q.kind = r.kind /\ q.id = r.id /\ q.session = r.session
      /\ q.revision = r.revision /\ q.over = r.over /\ q.at = "failed"
  BY <1>1 DEF EdRequests
<1> QED BY <1>2 DEF EdAnswers

\* A request that is done says of which project, at which revision.
EdIsDone(r, id, revision, doc, q) ==
  /\ q \in EdRequests /\ q.kind = r.kind /\ q.id = id /\ q.session = r.session
  /\ q.revision = r.revision /\ q.over = r.over /\ q.at = "done" /\ q.given = revision
  /\ q.snapshot = doc /\ q.expected = r.expected /\ q.born = EdLife(id)

LEMMA EdDoing ==
  ASSUME EdInv, NEW r \in edReqs, NEW id \in EdProjects, NEW revision \in Nat, NEW doc \in Nat,
         EdDone(r, id, revision, doc)
  PROVE  \E q : edReqs' = (edReqs \ {r}) \cup {q} /\ EdIsDone(r, id, revision, doc, q)
<1>1. r \in EdRequests /\ EdTypeOK
  BY DEF EdInv, EdTypeOK
<1>2. PICK born \in Nat : born = EdLife(id)
  BY <1>1, EdServerIs
<1>3. PICK q : q = [r EXCEPT !.at = "done", !.id = id, !.given = revision, !.born = born, !.snapshot = doc]
  OBVIOUS
<1>4. edReqs' = (edReqs \ {r}) \cup {q}
  BY <1>2, <1>3 DEF EdDone, EdAnswer
<1>5. EdIsDone(r, id, revision, doc, q)
  BY <1>1, <1>2, <1>3 DEF EdRequests, EdIsDone
<1> QED BY <1>4, <1>5

\* A change of a project that is there.
LEMMA EdServeUpdate ==
  ASSUME EdInv, NEW r \in edReqs, EdServe(r), r.kind \in {"save", "rename"}
  PROVE  EdGood
<1>1. EdTypeOK /\ r.id \in EdProjects /\ r.at = "sent" /\ r.snapshot \in Nat
      /\ UNCHANGED <<ed, edAsk, edLoadId, edDraft, edKept, edLeft>>
      /\ edLeft' \in [fresh : Nat, clicks : Nat, others : Nat]
  BY EdAsked DEF EdServe, EdUpdates, EdTypeOK
<1>2. PICK rows \in Seq(Nat), id \in EdProjects : rows = EdRows(r.id) /\ id = r.id
  BY <1>1, EdServerIs
<1>3. r.kind # "create" /\ r.kind # "load" /\ r.kind # "delete" /\ r.kind # "settings"
  OBVIOUS
<1>4. IF ~EdExists(r.id) \/ Len(rows) # r.expected THEN EdRefuse(r) /\ UNCHANGED edServer
      ELSE /\ EdCommit(r.id, IF r.kind = "save" THEN r.snapshot ELSE rows[Len(rows)])
           /\ EdDone(r, r.id, Len(rows) + 1, r.snapshot)
  BY <1>2, <1>3 DEF EdServe
<1>5. CASE ~EdExists(r.id) \/ Len(rows) # r.expected
  <2>1. PICK q : q = [r EXCEPT !.at = "failed"]
    OBVIOUS
  <2>2. edReqs' = (edReqs \ {r}) \cup {q} /\ UNCHANGED edServer
    BY <1>4, <1>5, <2>1 DEF EdRefuse, EdAnswer
  <2>3. EdAnswers(r, q)
    BY <2>1, EdRefusing
  <2> QED BY <1>1, <2>2, <2>3, EdRestsServer
<1>6. CASE EdExists(r.id) /\ Len(rows) = r.expected
  <2>1. PICK doc, snapshot : doc = (IF r.kind = "save" THEN r.snapshot ELSE rows[Len(rows)]) /\ snapshot = r.snapshot
    OBVIOUS
  <2>2. Len(rows) \in Nat \ {0} /\ rows[Len(rows)] \in Nat
    BY <1>1, <1>2, <1>6, EdServerIs
  <2>3. doc \in Nat /\ snapshot \in Nat
    BY <1>1, <2>1, <2>2
  <2>4. EdCommit(id, doc)
    BY <1>2, <1>4, <1>6, <2>1
  <2>5. PICK next : next = EdRows(id)'
    OBVIOUS
  <2>6. /\ EdGrows /\ EdLife(id)' = EdLife(id) /\ Len(next) = Len(rows) + 1 /\ next[Len(rows) + 1] = doc
        /\ \A k \in 1..Len(rows) : next[k] = rows[k]
    BY <1>1, <1>2, <2>3, <2>4, <2>5, EdCommits
  <2>7. PICK revision \in Nat : revision = Len(rows) + 1
    BY <2>2
  <2>8. EdDone(r, id, revision, snapshot)
    BY <1>2, <1>4, <1>6, <2>1, <2>7
  <2>9. PICK q : edReqs' = (edReqs \ {r}) \cup {q} /\ EdIsDone(r, id, revision, snapshot, q)
    BY <2>3, <2>7, <2>8, EdDoing
  <2>10. /\ q \in EdRequests /\ q.kind = r.kind /\ q.id = id /\ q.session = r.session
         /\ q.revision = r.revision /\ q.over = r.over /\ q.at = "done" /\ q.given = revision
         /\ q.snapshot = snapshot /\ q.expected = r.expected /\ q.born = EdLife(id)
    BY <2>9 DEF EdIsDone
  <2>11. q.born <= EdLife(id)' /\ EdRows(id)' = next
    BY <1>1, <1>2, <2>5, <2>6, <2>10, EdServerIs
  <2>12. EdHolds(id, q.born, revision, doc)'
    BY <2>2, <2>6, <2>7, <2>11 DEF EdHolds
  <2>13. EdAnswers(r, q)
    <3>1. ASSUME r.kind = "save" PROVE EdHolds(q.id, q.born, q.given, q.snapshot)'
      BY <2>1, <2>10, <2>12, <3>1 DEF EdHolds
    <3>2. ASSUME r.kind = "rename"
          PROVE  /\ EdHolds(q.id, q.born, q.given, EdRows(q.id)[q.expected])'
                 /\ q.born = EdLife(q.id)' => q.expected \in 1..Len(EdRows(q.id)')
      <4>1. Len(rows) \in 1..Len(rows) /\ Len(rows) \in 1..Len(next)
        BY <2>2, <2>6
      <4>2. next[Len(rows)] = rows[Len(rows)] /\ q.expected = Len(rows)
        BY <1>6, <2>6, <2>10, <4>1
      <4>3. doc = rows[Len(rows)]
        BY <2>1, <3>2
      <4>4. EdRows(q.id)'[q.expected] = doc /\ q.expected \in 1..Len(EdRows(q.id)')
        BY ONLY <2>10, <2>11, <4>1, <4>2, <4>3
      <4> QED BY <2>10, <2>12, <4>4 DEF EdHolds
    <3> QED BY <1>2, <1>3, <2>10, <3>1, <3>2 DEF EdAnswers
  <2> QED BY <1>1, <2>6, <2>9, <2>13, EdServesOne
<1> QED BY <1>5, <1>6

LEMMA EdServeCreateInv ==
  ASSUME EdInv, NEW r \in edReqs, EdServe(r), r.kind = "create"
  PROVE  EdGood
<1>1. EdTypeOK /\ r.snapshot \in Nat
      /\ UNCHANGED <<ed, edAsk, edLoadId, edDraft, edKept, edLeft>>
      /\ edLeft' \in [fresh : Nat, clicks : Nat, others : Nat]
  BY EdAsked DEF EdServe, EdInv, EdTypeOK
<1>2. EdServeCreate(r)
  BY DEF EdServe
<1>3. PICK id \in EdProjects : EdNewId(id) /\ EdCommit(id, r.snapshot) /\ EdDone(r, id, 1, r.snapshot)
  BY <1>2 DEF EdServeCreate
<1>4. PICK doc \in Nat, revision \in Nat : doc = r.snapshot /\ revision = 1
  BY <1>1
<1>5. PICK q : edReqs' = (edReqs \ {r}) \cup {q} /\ EdIsDone(r, id, revision, doc, q)
  <2>1. EdDone(r, id, revision, doc)
    BY <1>3, <1>4
  <2> QED BY <2>1, EdDoing
<1>6. EdCommit(id, doc) /\ ~EdExists(id)
  <2>1. ~(id < id)
    BY EdAssumption
  <2> QED BY <1>3, <1>4, <2>1 DEF EdNewId
<1>7. EdGrows /\ EdLife(id)' = EdLife(id) /\ Len(EdRows(id)') = 1 /\ EdRows(id)'[1] = doc
  <2>1. PICK last : last = Len(EdRows(id))
    OBVIOUS
  <2>2. last = 0
    BY <1>6, <2>1 DEF EdExists
  <2>3. EdGrows /\ EdLife(id)' = EdLife(id) /\ Len(EdRows(id)') = last + 1 /\ EdRows(id)'[last + 1] = doc
    BY <1>1, <1>6, <2>1, EdCommits
  <2> QED BY <2>2, <2>3
<1>8. EdHolds(q.id, q.born, q.given, q.snapshot)'
  <2>1. q.id = id /\ q.born = EdLife(id) /\ q.given = 1 /\ q.snapshot = doc
    BY <1>4, <1>5 DEF EdIsDone
  <2>2. q.born <= EdLife(id)'
    BY <1>1, <1>7, <2>1, EdServerIs
  <2>3. EdHolds(id, q.born, 1, doc)'
    BY <1>7, <2>2 DEF EdHolds
  <2> QED BY <2>1, <2>3 DEF EdHolds
<1>9. EdAnswers(r, q)
  BY <1>5, <1>8 DEF EdAnswers, EdIsDone
<1> QED BY <1>1, <1>5, <1>7, <1>9, EdServesOne

LEMMA EdServeLoad ==
  ASSUME EdInv, NEW r \in edReqs, EdServe(r), r.kind = "load"
  PROVE  EdGood
<1>1. EdTypeOK /\ r.id \in EdProjects
      /\ UNCHANGED <<ed, edAsk, edLoadId, edServer, edDraft, edKept, edLeft>>
      /\ edLeft' \in [fresh : Nat, clicks : Nat, others : Nat]
  BY EdAsked DEF EdServe, EdUpdates, EdInv, EdTypeOK
<1>2. CASE ~EdExists(r.id)
  <2>1. PICK q : q = [r EXCEPT !.at = "failed"]
    OBVIOUS
  <2>2. edReqs' = (edReqs \ {r}) \cup {q}
    BY <1>2, <2>1 DEF EdServe, EdRefuse, EdAnswer
  <2>3. EdAnswers(r, q)
    BY <2>1, EdRefusing
  <2> QED BY <1>1, <2>2, <2>3, EdRestsServer
<1>3. CASE EdExists(r.id)
  <2>1. PICK id \in EdProjects, given \in Nat, doc \in Nat :
          id = r.id /\ given = Len(EdRows(r.id)) /\ doc = EdRows(r.id)[given]
    BY <1>1, <1>3, EdServerIs
  <2>2. EdDone(r, id, given, doc)
    BY <1>3, <2>1 DEF EdServe
  <2>3. PICK q : edReqs' = (edReqs \ {r}) \cup {q} /\ EdIsDone(r, id, given, doc, q)
    BY <2>2, EdDoing
  <2>4. EdHolds(q.id, q.born, q.given, q.snapshot)'
    <3>1. EdRows(id)' = EdRows(id) /\ EdLife(id)' = EdLife(id)
      BY <1>1 DEF EdRows, EdLife, EdPast
    <3>2. q.id = id /\ q.born = EdLife(id) /\ q.given = given /\ q.snapshot = doc
      BY <2>3 DEF EdIsDone
    <3>3. given # 0 /\ given \in Nat /\ given = Len(EdRows(id)) /\ doc = EdRows(id)[given] /\ EdLife(id) \in Nat
      BY <1>1, <1>3, <2>1, EdServerIs
    <3> QED BY <3>1, <3>2, <3>3 DEF EdHolds
  <2>5. EdAnswers(r, q)
    BY <2>1, <2>3, <2>4 DEF EdAnswers, EdIsDone
  <2> QED BY <1>1, <2>3, <2>5, EdRestsServer
<1> QED BY <1>2, <1>3

LEMMA EdServeDelete ==
  ASSUME EdInv, NEW r \in edReqs, EdServe(r), r.kind = "delete"
  PROVE  EdGood
<1>1. EdTypeOK /\ r.id \in EdProjects /\ r.snapshot \in Nat
      /\ UNCHANGED <<ed, edAsk, edLoadId, edDraft, edKept, edLeft>>
      /\ edLeft' \in [fresh : Nat, clicks : Nat, others : Nat]
  BY EdAsked DEF EdServe, EdUpdates, EdInv, EdTypeOK
<1>2. CASE ~EdExists(r.id)
  <2>1. PICK q : q = [r EXCEPT !.at = "failed"]
    OBVIOUS
  <2>2. edReqs' = (edReqs \ {r}) \cup {q} /\ edServer' = edServer
    BY <1>2, <2>1 DEF EdServe, EdRefuse, EdAnswer
  <2>3. EdAnswers(r, q)
    BY <2>1, EdRefusing
  <2> QED BY <1>1, <2>2, <2>3, EdRestsServer
<1>3. CASE EdExists(r.id)
  <2>1. PICK id \in EdProjects, revision \in Nat, doc \in Nat : id = r.id /\ revision = 0 /\ doc = r.snapshot
    BY <1>1
  <2>2. EdRemove(id) /\ EdDone(r, id, revision, doc)
    BY <1>3, <2>1 DEF EdServe
  <2>3. PICK q : edReqs' = (edReqs \ {r}) \cup {q} /\ EdIsDone(r, id, revision, doc, q)
    BY <2>2, EdDoing
  <2>4. EdAnswers(r, q)
    BY <2>1, <2>3 DEF EdAnswers, EdIsDone
  <2>5. EdGrows
    BY <1>1, <2>2, EdRemoves
  <2> QED BY <1>1, <2>3, <2>4, <2>5, EdServesOne
<1> QED BY <1>2, <1>3

LEMMA EdServeInv == ASSUME EdInv, NEW r \in edReqs, EdServe(r) PROVE EdGood
<1>1. r.kind \in EdUpdates \cup {"settings"}
  BY DEF EdServe, EdInv, EdTypeOK, EdRequests, EdStoredInv
<1>2. CASE r.kind = "settings"
  <2>1. UNCHANGED <<ed, edAsk, edLoadId, edServer, edDraft, edKept, edLeft>>
        /\ edLeft' \in [fresh : Nat, clicks : Nat, others : Nat]
        /\ (EdAnswer(r, [r EXCEPT !.at = "done"]) \/ EdRefuse(r))
    BY <1>2 DEF EdServe, EdInv, EdTypeOK
  <2>2. CASE EdAnswer(r, [r EXCEPT !.at = "done"])
    <3>1. PICK q : q = [r EXCEPT !.at = "done"]
      OBVIOUS
    <3>2. r \in EdRequests
      BY DEF EdInv, EdTypeOK
    <3>3. /\ q \in EdRequests /\ q.kind = r.kind /\ q.id = r.id /\ q.session = r.session
          /\ q.revision = r.revision /\ q.over = r.over /\ q.at = "done"
      BY <3>1, <3>2 DEF EdRequests
    <3>4. EdAnswers(r, q)
      BY <1>2, <3>3 DEF EdAnswers
    <3>5. edReqs' = (edReqs \ {r}) \cup {q}
      BY <2>2, <3>1 DEF EdAnswer
    <3> QED BY <2>1, <3>4, <3>5, EdRestsServer
  <2>3. CASE EdRefuse(r)
    <3>1. PICK q : q = [r EXCEPT !.at = "failed"]
      OBVIOUS
    <3>2. edReqs' = (edReqs \ {r}) \cup {q}
      BY <2>3, <3>1 DEF EdRefuse, EdAnswer
    <3>3. EdAnswers(r, q)
      BY <1>2, <3>1, EdRefusing
    <3> QED BY <2>1, <3>2, <3>3, EdRestsServer
  <2> QED BY <2>1, <2>2, <2>3
<1> QED BY <1>1, <1>2, EdServeUpdate, EdServeCreateInv, EdServeLoad, EdServeDelete DEF EdUpdates

\* An answer is lost.
LEMMA EdAnswerLostInv == ASSUME EdInv, NEW r \in edReqs, EdAnswerLost(r) PROVE EdGood
<1>1. edLeft' \in [fresh : Nat, clicks : Nat, others : Nat]
      /\ UNCHANGED <<ed, edAsk, edLoadId, edServer, edDraft, edKept>>
  BY EdUses DEF EdAnswerLost, EdInv
<1>2. PICK q : q = [r EXCEPT !.at = "failed"]
  OBVIOUS
<1>3. edReqs' = (edReqs \ {r}) \cup {q}
  BY <1>2 DEF EdAnswerLost, EdRefuse, EdAnswer
<1>4. EdAnswers(r, q)
  BY <1>2, EdRefusing DEF EdAnswerLost
<1> QED BY <1>1, <1>3, <1>4, EdRestsServer

\* Somebody else changes a project, deletes it or creates one.
LEMMA EdElsewhereInv == ASSUME EdInv, NEW id \in EdProjects, EdElsewhere(id) PROVE EdGood
<1>1. edLeft' \in [fresh : Nat, clicks : Nat, others : Nat] /\ EdTypeOK
      /\ UNCHANGED <<ed, edAsk, edReqs, edLoadId, edDraft, edKept>>
  BY EdUses DEF EdElsewhere, EdInv
<1>2. PICK doc \in Nat : doc = 2
  OBVIOUS
<1>3. EdCommit(id, doc) \/ EdRemove(id)
  BY <1>2 DEF EdElsewhere
<1>4. EdGrows
  BY <1>1, <1>3, EdCommits, EdRemoves
<1>5. PICK Old, New : Old = {} /\ New = {}
  OBVIOUS
<1>6. Old \in SUBSET edReqs /\ edReqs' = (edReqs \ Old) \cup New
      /\ \A q \in New : \E r \in Old : EdAnswers(r, q)
  BY <1>1, <1>5
<1> QED BY <1>1, <1>4, <1>6, EdServesInv

-----------------------------------------------------------------------------
\* It holds at the start, and what is there is known.
LEMMA EdInitHolds == EdInit => EdInv
<1> SUFFICES ASSUME EdInit PROVE EdInv
  OBVIOUS
<1>1. EdFresh \in EdStores /\ EdFresh.idx <= Len(EdFresh.hist) /\ EdFresh.project = EdNowhere
  BY DEF EdFresh, EdStores, EdBlank, EdNone
<1>2. EdNoAsk \in EdAsks /\ EdNoAsk.kind = "none"
  BY DEF EdNoAsk, EdAsks, EdNone
<1>3. edServer \in [EdProjects -> [rows : Seq(Nat), past : Seq(Nat)]]
  <2>1. PICK one, none : one = <<2>> /\ none = <<>>
    OBVIOUS
  <2>2. one \in Seq(Nat) /\ none \in Seq(Nat)
    BY <2>1
  <2>3. edServer = [p \in EdProjects |-> [rows |-> IF p = EdFirst THEN one ELSE none, past |-> none]]
    BY <2>1 DEF EdInit
  <2> QED BY <2>2, <2>3
<1>4. edLeft \in [fresh : Nat, clicks : Nat, others : Nat]
  BY EdAssumption DEF EdInit
<1>5. EdTypeOK
  BY <1>1, <1>2, <1>3, <1>4 DEF EdInit, EdTypeOK, EdNone
<1>6. EdNamesInv /\ EdStoredInv
  BY <1>1, <1>2 DEF EdInit, EdNamesInv, EdStoredInv
<1> QED BY <1>5, <1>6 DEF EdInv

LEMMA EdNextKeeps == EdInv /\ [EdNext]_edVars => EdInv' /\ [EdAnswersKeepEdits]_edVars
<1> SUFFICES ASSUME EdInv, [EdNext]_edVars PROVE EdInv' /\ [EdAnswersKeepEdits]_edVars
  OBVIOUS
<1>1. CASE UNCHANGED edVars
  BY <1>1 DEF edVars, EdInv, EdTypeOK, EdNamesInv, EdNames, EdSame, EdStoredInv, EdHolds, EdRows, EdLife, EdPast
<1>2. ASSUME EdGood PROVE EdInv' /\ [EdAnswersKeepEdits]_edVars
  BY <1>2 DEF EdGood
<1>3. ASSUME EdNext PROVE EdGood
  <2>1. ASSUME EdStep PROVE EdGood
    <3>1. ASSUME NEW r \in edReqs, EdAnswered(r) PROVE EdGood
      BY <3>1, EdOpenedInv, EdSavedInv, EdFailedInv, EdDeletedInv, EdSettingsAnsweredInv, EdImportedInv,
         EdAssistedInv DEF EdAnswered
    <3> QED BY <2>1, <3>1, EdTimerInv, EdServeInv DEF EdStep
  <2>2. ASSUME EdAskFor("import") \/ EdAskFor("assistant") PROVE EdGood
    <3>1. PICK kind \in {"import", "assistant"} : EdAskFor(kind)
      BY <2>2
    <3> QED BY <3>1, EdAskForInv
  <2> QED BY <1>3, <2>1, <2>2, EdTravelInv, EdEditInv, EdClearInv, EdSaveInv, EdOverwriteInv, EdSettingsInv,
         EdOpenInv, EdSaveNewInv, EdRenameInv, EdAskOverwriteInv, EdDeleteInv, EdConfirmLoadInv, EdCancelAskInv,
         EdConfirmRecoverInv, EdRecoverInv, EdDiscardInv, EdReloadInv, EdAnswerLostInv, EdElsewhereInv
         DEF EdNext
<1> QED BY <1>1, <1>2, <1>3

LEMMA EdSavedIsHeld == EdInv => EdSavedIsStored
BY DEF EdInv, EdStoredInv, EdSavedIsStored, EdDirty, EdHolds

\* As long as the project is there that the editor opened or saved, it never
\* shows a design as saved that the project does not hold (a project that is
\* deleted elsewhere takes its designs with it, and the next one may get its id),
\* and an answer never takes away what its user did meanwhile
\* (slices/persistence.js).
THEOREM DesignIsKept == EdSpec => []EdSavedIsStored /\ [][EdAnswersKeepEdits]_edVars
<1>1. EdInit => EdInv
  BY EdInitHolds
<1>2. EdInv /\ [EdNext]_edVars => EdInv'
  BY EdNextKeeps
<1>3. EdInv /\ [EdNext]_edVars => [EdAnswersKeepEdits]_edVars
  BY EdNextKeeps
<1>4. EdInv => EdSavedIsStored
  BY EdSavedIsHeld
<1> QED BY <1>1, <1>2, <1>3, <1>4, PTL DEF EdSpec

-----------------------------------------------------------------------------
(* The printer an editor prints to (slices/printer.js).                     *)

\* What rounding does.
PfIsRound(x, y, q) == q \in Nat /\ 2 * (q * y) <= 2 * x + y /\ 2 * x + y < 2 * (q * y) + 2 * y

LEMMA PfRounds ==
  ASSUME NEW x \in Nat, NEW y \in Nat \ {0}
  PROVE  PfIsRound(x, y, PfRound(x, y))
<1>1. PICK a \in Nat, d \in Nat \ {0} : a = 2 * x + y /\ d = 2 * y
  OBVIOUS
<1>2. PICK q \in Nat, r \in 0..d - 1 : q = a \div d /\ r = a % d /\ a = q * d + r
  BY Division
<1>3. q * d = 2 * (q * y)
  BY <1>1
<1>4. PICK n \in Nat : n = q * y
  OBVIOUS
<1>5. 2 * n <= 2 * x + y /\ 2 * x + y < 2 * n + 2 * y
  <2>1. a = 2 * n + r /\ r \in Nat /\ r < d
    BY <1>2, <1>3, <1>4
  <2> QED BY <1>1, <2>1
<1>6. q = PfRound(x, y)
  BY <1>1, <1>2 DEF PfRound
<1> QED BY <1>4, <1>5, <1>6 DEF PfIsRound

\* One more is a dot more.
LEMMA PfMore ==
  ASSUME NEW q \in Nat, NEW m \in Nat, NEW y \in Nat \ {0}, q < m
  PROVE  q * y + y <= m * y
<1>1. q + 1 \in Nat /\ q + 1 <= m /\ (q + 1) * y = q * y + y
  OBVIOUS
<1> QED BY <1>1, ProductsGrow

\* What lies that near a number is rounded to it.
LEMMA PfRoundsTo ==
  ASSUME NEW x \in Nat, NEW y \in Nat \ {0}, NEW m \in Nat,
         2 * (m * y) <= 2 * x + y, 2 * x + y < 2 * (m * y) + 2 * y
  PROVE  PfRound(x, y) = m
<1>1. PICK q \in Nat : q = PfRound(x, y) /\ 2 * (q * y) <= 2 * x + y /\ 2 * x + y < 2 * (q * y) + 2 * y
  BY PfRounds DEF PfIsRound
<1>2. PICK a \in Nat, b \in Nat : a = q * y /\ b = m * y
  OBVIOUS
<1>3. ~(q < m)
  <2>1. q < m => a + y <= b
    BY <1>2, PfMore
  <2> QED BY <1>1, <1>2, <2>1
<1>4. ~(m < q)
  <2>1. m < q => b + y <= a
    BY <1>2, PfMore
  <2> QED BY <1>1, <1>2, <2>1
<1> QED BY <1>1, <1>3, <1>4

\* A size at its own resolution is itself.
LEMMA PfRoundsBack ==
  ASSUME NEW w \in Nat, NEW d \in Nat \ {0} PROVE PfRound(w * d, d) = w
<1>1. PICK x \in Nat : x = w * d
  OBVIOUS
<1>2. PfRound(x, d) = w
  BY <1>1, PfRoundsTo
<1> QED BY <1>1, <1>2

\* Whole numbers are not rounded past.
LEMMA PfRoundsAbove ==
  ASSUME NEW x \in Nat, NEW y \in Nat \ {0}, NEW m \in Nat, m * y <= x
  PROVE  m <= PfRound(x, y)
<1>1. PICK q \in Nat : q = PfRound(x, y) /\ 2 * (q * y) <= 2 * x + y /\ 2 * x + y < 2 * (q * y) + 2 * y
  BY PfRounds DEF PfIsRound
<1>2. PICK a \in Nat, b \in Nat : a = q * y /\ b = m * y
  OBVIOUS
<1>3. q < m => a + y <= b
  BY <1>2, PfMore
<1> QED BY <1>1, <1>2, <1>3

LEMMA PfRoundsBelow ==
  ASSUME NEW x \in Nat, NEW y \in Nat \ {0}, NEW m \in Nat, x <= m * y
  PROVE  PfRound(x, y) <= m
<1>1. PICK q \in Nat : q = PfRound(x, y) /\ 2 * (q * y) <= 2 * x + y /\ 2 * x + y < 2 * (q * y) + 2 * y
  BY PfRounds DEF PfIsRound
<1>2. PICK a \in Nat, b \in Nat : a = q * y /\ b = m * y
  OBVIOUS
<1>3. m < q => b + y <= a
  BY <1>2, PfMore
<1> QED BY <1>1, <1>2, <1>3

\* A scaled canvas.
PfIsScaled(c, d, n) ==
  /\ n \in PfCanvases /\ n.w = PfRound(c.w * d, c.dpi) /\ n.h = PfRound(c.h * d, c.dpi) /\ n.dpi = d
  /\ n.rotated = c.rotated /\ n.document = c.document /\ n.made = c.made

LEMMA PfDpisAre == PfDpis \subseteq Nat \ {0} /\ \A p \in PfPrinters : PfInfo[p].dpi \in PfDpis
BY PfAssumption DEF PfDpis

LEMMA PfScales ==
  ASSUME NEW c \in PfCanvases, NEW d \in PfDpis, NEW n, n = PfScaled(c, d)
  PROVE  PfIsScaled(c, d, n)
<1>1. c.w \in Nat /\ c.h \in Nat /\ c.dpi \in Nat \ {0} /\ d \in Nat
  BY PfDpisAre DEF PfCanvases
<1>2. PICK x \in Nat, y \in Nat : x = c.w * d /\ y = c.h * d
  BY <1>1
<1>3. PICK w, h : w = PfRound(x, c.dpi) /\ h = PfRound(y, c.dpi)
  OBVIOUS
<1>4. w \in Nat /\ h \in Nat
  BY <1>1, <1>3, PfRounds DEF PfIsRound
<1>5. n = [c EXCEPT !.w = w, !.h = h, !.dpi = d]
  BY <1>2, <1>3 DEF PfScaled
<1>6. n \in PfCanvases
  BY ONLY <1>4, <1>5, c \in PfCanvases, d \in PfDpis DEF PfCanvases
<1>7. /\ n.w = w /\ n.h = h /\ n.dpi = d /\ n.rotated = c.rotated /\ n.document = c.document
      /\ n.made = c.made
  BY ONLY <1>5, c \in PfCanvases DEF PfCanvases
<1> QED BY <1>2, <1>3, <1>6, <1>7 DEF PfIsScaled

\* What PfCanvasInv says of a canvas with a design.
PfDrawn(c) ==
  c.document =>
    /\ \A inch \in Nat : inch * c.made.dpi <= c.made.w => inch * c.dpi <= c.w
    /\ \A inch \in Nat : c.made.w <= inch * c.made.dpi => c.w <= inch * c.dpi
    /\ PfTwoMeet => PfDrift(c)

\* Scaling one rounds whole inches to whole inches, and ...
LEMMA PfScaledInches ==
  ASSUME NEW c \in PfCanvases, PfDrawn(c), c.document, NEW d \in PfDpis, NEW n, PfIsScaled(c, d, n),
         NEW inch \in Nat
  PROVE  /\ inch * n.made.dpi <= n.made.w => inch * n.dpi <= n.w
         /\ n.made.w <= inch * n.made.dpi => n.w <= inch * n.dpi
<1>1. c.w \in Nat /\ c.dpi \in Nat \ {0} /\ d \in Nat \ {0}
  BY PfDpisAre DEF PfCanvases
<1>2. PICK x \in Nat, a \in Nat \ {0} : x = c.w * d /\ a = c.dpi
  BY <1>1
<1>3. n.w = PfRound(x, a) /\ n.made = c.made /\ n.dpi = d
  BY <1>2 DEF PfIsScaled
<1>4. PICK m \in Nat : m = inch * d
  BY <1>1
<1>5. PICK i \in Nat : i = inch * a
  BY <1>1
<1>6. m * a = i * d /\ x = c.w * d
  BY <1>1, <1>2, <1>4, <1>5
<1>7. ASSUME i <= c.w PROVE m <= n.w
  <2>1. m * a <= x
    BY <1>1, <1>6, <1>7, ProductsGrow
  <2> QED BY <1>2, <1>3, <2>1, PfRoundsAbove
<1>8. ASSUME c.w <= i PROVE n.w <= m
  <2>1. x <= m * a
    BY <1>1, <1>6, <1>8, ProductsGrow
  <2> QED BY <1>2, <1>3, <2>1, PfRoundsBelow
<1>9. /\ inch * c.made.dpi <= c.made.w => i <= c.w
      /\ c.made.w <= inch * c.made.dpi => c.w <= i
  BY <1>2, <1>5 DEF PfDrawn
<1> QED BY <1>3, <1>4, <1>7, <1>8, <1>9

\* A size that is rounded is close to what it was, and from there it is found
\* again at a coarser resolution.
LEMMA PfRoundIsClose ==
  ASSUME NEW w \in Nat, NEW a \in Nat \ {0}, NEW b \in Nat \ {0}
  PROVE  PfRound(w * b, a) \in Nat /\ PfClose(PfRound(w * b, a), b, w, a)
<1>1. PICK x \in Nat : x = w * b
  OBVIOUS
<1>2. PICK q \in Nat : q = PfRound(x, a) /\ 2 * (q * a) <= 2 * x + a /\ 2 * x + a < 2 * (q * a) + 2 * a
  BY PfRounds DEF PfIsRound
<1>3. PICK y \in Nat : y = q * a
  OBVIOUS
<1>4. 2 * y - 2 * x \in (-a)..a
  BY <1>2, <1>3
<1>5. 2 * (q * a) - 2 * (w * b) \in (-a)..a
  BY <1>1, <1>3, <1>4
<1> QED BY <1>1, <1>2, <1>5 DEF PfClose

LEMMA PfCloseIsFound ==
  ASSUME NEW w \in Nat, NEW m \in Nat, NEW a \in Nat \ {0}, NEW b \in Nat \ {0}, a < b, PfClose(w, b, m, a)
  PROVE  PfRound(w * a, b) = m
<1>1. PICK x \in Nat, y \in Nat : x = w * a /\ y = m * b
  OBVIOUS
<1>2. 2 * x - 2 * y \in (-a)..a
  BY <1>1 DEF PfClose
<1>3. 2 * y <= 2 * x + b /\ 2 * x + b < 2 * y + 2 * b
  BY <1>2
<1>4. PfRound(x, b) = m
  BY <1>1, <1>3, PfRoundsTo
<1> QED BY <1>1, <1>4

LEMMA PfScaledDrifts ==
  ASSUME PfTwoMeet, NEW c \in PfCanvases, PfDrift(c), NEW d \in PfDpis, NEW n, PfIsScaled(c, d, n)
  PROVE  PfDrift(n)
<1>1. /\ c.w \in Nat /\ c.dpi \in Nat \ {0} /\ d \in Nat \ {0} /\ c.made.w \in Nat /\ c.made.dpi \in Nat \ {0}
      /\ c.dpi \in PfDpis /\ c.made.dpi \in PfDpis
  BY PfDpisAre DEF PfCanvases
<1>2. PICK a \in Nat \ {0}, b \in Nat \ {0} : a = c.made.dpi /\ b = c.dpi
  BY <1>1
<1>3. PICK m \in Nat, w \in Nat : m = c.made.w /\ w = c.w
  BY <1>1
<1>4. n.w = PfRound(w * d, b) /\ n.made.w = m /\ n.made.dpi = a /\ n.dpi = d
  BY <1>2, <1>3 DEF PfIsScaled
<1>5. a \in PfDpis /\ b \in PfDpis
  BY <1>1, <1>2
<1>6. CASE d = b
  <2>1. n.w = w
    BY <1>4, <1>6, PfRoundsBack
  <2> QED BY <1>2, <1>3, <1>4, <1>6, <2>1 DEF PfDrift
<1>7. CASE b # a /\ d # b
  <2>1. d = a
    BY <1>5, <1>7 DEF PfTwoMeet
  <2>2. PfClose(w, b, m, a)
    BY <1>2, <1>3, <1>7 DEF PfDrift
  <2>3. CASE a < b
    <3>1. n.w = m
      BY <1>4, <2>1, <2>2, <2>3, PfCloseIsFound
    <3> QED BY <1>4, <2>1, <3>1 DEF PfDrift
  <2>4. CASE b < a
    <3>1. PfClose(n.w, a, w, b)
      BY <1>4, <2>1, PfRoundIsClose
    <3> QED BY <1>4, <1>5, <2>1, <2>2, <2>4, <3>1 DEF PfDrift
  <2> QED BY <1>7, <2>3, <2>4
<1>8. CASE b = a /\ d # b
  <2>1. CASE w = m
    <3>1. PfClose(n.w, d, m, a)
      BY <1>1, <1>4, <1>8, <2>1, PfRoundIsClose
    <3> QED BY <1>4, <1>8, <3>1 DEF PfDrift
  <2>2. CASE w # m
    <3>1. PICK e \in PfDpis, k \in Nat : e < b /\ PfClose(k, e, m, b) /\ PfClose(w, b, k, e)
      BY <1>2, <1>3, <1>8, <2>2 DEF PfDrift
    <3>2. e = d
      <4>1. e # b
        BY <1>1, <1>2, <3>1, PfDpisAre
      <4> QED BY <1>5, <1>8, <4>1 DEF PfTwoMeet
    <3>3. n.w = k
      BY <1>1, <1>4, <3>1, <3>2, PfCloseIsFound
    <3> QED BY <1>4, <1>8, <3>1, <3>2, <3>3 DEF PfDrift
  <2> QED BY <2>1, <2>2
<1> QED BY <1>6, <1>7, <1>8

LEMMA PfScaledStaysDrawn ==
  ASSUME NEW c \in PfCanvases, PfDrawn(c), NEW d \in PfDpis, NEW n, PfIsScaled(c, d, n)
  PROVE  PfDrawn(n)
<1> SUFFICES ASSUME n.document PROVE PfDrawn(n)
  BY DEF PfDrawn
<1>1. c.document
  BY DEF PfIsScaled
<1>2. \A inch \in Nat : /\ inch * n.made.dpi <= n.made.w => inch * n.dpi <= n.w
                        /\ n.made.w <= inch * n.made.dpi => n.w <= inch * n.dpi
  BY <1>1, PfScaledInches
<1>3. PfTwoMeet => PfDrift(n)
  BY <1>1, PfScaledDrifts DEF PfDrawn
<1> QED BY <1>2, <1>3 DEF PfDrawn

\* A product of what is between two numbers is between theirs.
LEMMA PfProducts ==
  ASSUME NEW x \in Int, NEW y \in Nat, NEW z \in Nat, x \in (-y)..y
  PROVE  x * z \in (-(y * z))..(y * z)
<1>1. PICK u \in Nat : y = x + u
  <2>1. y - x \in Nat /\ y = x + (y - x)
    OBVIOUS
  <2> QED BY <2>1
<1>2. PICK v \in Nat : x = v - y
  <2>1. x + y \in Nat /\ x = (x + y) - y
    OBVIOUS
  <2> QED BY <2>1
<1>3. PICK uz \in Nat, vz \in Nat, yz \in Nat, xz \in Int : uz = u * z /\ vz = v * z /\ yz = y * z /\ xz = x * z
  OBVIOUS
<1>4. yz = xz + uz
  BY <1>1, <1>3
<1>5. xz = vz - yz
  BY <1>2, <1>3
<1>6. xz \in (-yz)..yz
  BY <1>4, <1>5
<1> QED BY <1>3, <1>6

\* What is rounded there and back is off by a dot of the coarser at most.
LEMMA PfOff ==
  ASSUME NEW c \in PfCanvases, PfDrift(c)
  PROVE  \E d \in PfDpis : (c.w * c.made.dpi - c.made.w * c.dpi) * d
                              \in -(c.dpi * c.made.dpi)..(c.dpi * c.made.dpi)
<1>1. /\ c.w \in Nat /\ c.dpi \in Nat \ {0} /\ c.made.w \in Nat /\ c.made.dpi \in Nat \ {0}
      /\ c.dpi \in PfDpis /\ c.made.dpi \in PfDpis
  BY PfDpisAre DEF PfCanvases
<1>2. PICK a \in Nat \ {0}, b \in Nat \ {0}, m \in Nat, w \in Nat :
        a = c.made.dpi /\ b = c.dpi /\ m = c.made.w /\ w = c.w
  BY <1>1
<1>3. PICK x \in Nat, y \in Nat, off \in Int : x = w * a /\ y = m * b /\ off = x - y
  OBVIOUS
<1>4. \E d \in PfDpis : off * d \in -(b * a)..(b * a)
  <2>1. CASE a # b
    <3>1. 2 * x - 2 * y \in (-a)..a
      BY <1>2, <1>3, <2>1 DEF PfDrift, PfClose
    <3>2. off \in (-a)..a
      BY <1>3, <3>1
    <3>3. off * b \in (-(a * b))..(a * b)
      BY <3>2, PfProducts
    <3>4. a * b = b * a
      OBVIOUS
    <3> QED BY <1>1, <1>2, <3>3, <3>4
  <2>2. CASE a = b /\ w = m
    <3>1. off = 0
      BY <1>3, <2>2
    <3>2. b * a \in Nat
      OBVIOUS
    <3>3. off * b = 0
      BY <3>1
    <3>4. 0 \in -(b * a)..(b * a)
      BY <3>2
    <3> QED BY <1>1, <1>2, <3>3, <3>4
  <2>3. CASE a = b /\ w # m
    <3>1. PICK e \in PfDpis, n \in Nat : e < b /\ PfClose(n, e, m, b) /\ PfClose(w, b, n, e)
      BY <1>2, <2>3 DEF PfDrift
    <3>2. PICK f \in Nat \ {0} : f = e
      BY PfDpisAre
    <3>3. PICK nb \in Nat, mf \in Nat, wf \in Nat : nb = n * b /\ mf = m * f /\ wf = w * f
      OBVIOUS
    <3>4. 2 * nb - 2 * mf \in (-b)..b /\ 2 * wf - 2 * nb \in (-f)..f /\ f < b
      BY <3>1, <3>2, <3>3 DEF PfClose
    <3>5. PICK z \in Int : z = wf - mf
      OBVIOUS
    <3>6. z \in (-b)..b
      BY <3>4, <3>5
    <3>7. z * b \in (-(b * b))..(b * b)
      BY <3>6, PfProducts
    <3>8. off * f = z * b
      <4>1. off = w * b - m * b
        BY <1>3, <2>3
      <4>2. z = w * f - m * f
        BY <3>3, <3>5
      <4> QED BY <4>1, <4>2
    <3> QED BY <2>3, <3>2, <3>7, <3>8
  <2> QED BY <2>1, <2>2, <2>3
<1> QED BY <1>2, <1>3, <1>4

LEMMA PfSizeIsKept == PfInv => PfSizeKept
<1> SUFFICES ASSUME PfInv, pfCanvas.document PROVE PfSizeKept
  BY DEF PfSizeKept
<1>1. PICK c \in PfCanvases : c = pfCanvas
  BY DEF PfInv, PfTypeOK
<1>2. PfDrawn(c) /\ c.document
  BY <1>1 DEF PfInv, PfCanvasInv, PfDrawn
<1>3. c.w \in Nat /\ c.dpi \in Nat /\ c.made.w \in Nat /\ c.made.dpi \in Nat \ {0}
  BY PfDpisAre DEF PfCanvases
<1>4. PICK m \in Nat, a \in Nat \ {0} : m = c.made.w /\ a = c.made.dpi
  BY <1>3
<1>5. PICK inch \in Nat, r \in 0..a - 1 : inch = m \div a /\ r = m % a /\ m = inch * a + r
  BY Division
<1>6. PICK ia \in Nat : ia = inch * a
  OBVIOUS
<1>7. inch + 1 \in Nat /\ (inch + 1) * a = ia + a
  BY <1>6
<1>8. ia <= m /\ m <= ia + a
  BY <1>5, <1>6
<1>9. inch * c.dpi <= c.w /\ c.w <= (inch + 1) * c.dpi
  BY <1>2, <1>4, <1>6, <1>7, <1>8 DEF PfDrawn
<1>10. c.w \in (inch * c.dpi)..((inch + 1) * c.dpi)
  BY <1>3, <1>9
<1>11. inch = c.made.w \div c.made.dpi
  BY <1>4, <1>5
<1>12. PfTwoMeet => \E d \in PfDpis : (c.w * c.made.dpi - c.made.w * c.dpi) * d
                                          \in -(c.dpi * c.made.dpi)..(c.dpi * c.made.dpi)
  BY <1>2, PfOff DEF PfDrawn
<1> QED BY <1>1, <1>10, <1>11, <1>12 DEF PfSizeKept

\* A canvas of another size.
PfIsSized(c, w, h, rotated, n) ==
  /\ n \in PfCanvases /\ n.dpi = c.dpi /\ (n.document <=> c.document)
  /\ PfAcross(n) = IF rotated THEN h ELSE w

LEMMA PfSizes ==
  ASSUME NEW c \in PfCanvases, NEW w \in Nat, NEW h \in Nat, NEW rotated \in BOOLEAN,
         NEW n, n = PfSized(c, w, h, rotated)
  PROVE  PfIsSized(c, w, h, rotated, n)
BY DEF PfSized, PfCanvases, PfAcross, PfIsSized

\* One that is fitted to a printer.
PfIsFitted(c, p, n) ==
  /\ n \in PfCanvases /\ PfDrawn(n) /\ n.dpi = PfInfo[p].dpi
  /\ (~n.document /\ ~PfInfo[p].precut) => PfAcross(n) <= PfInfo[p].head

LEMMA PfFits ==
  ASSUME NEW c \in PfCanvases, PfDrawn(c), NEW p \in PfPrinters, NEW n, n = PfFitted(c, PfInfo[p])
  PROVE  PfIsFitted(c, p, n)
<1>1. PICK d \in PfDpis, head \in Nat : d = PfInfo[p].dpi /\ head = PfInfo[p].head
  BY PfAssumption, PfDpisAre
<1>2. PICK s : s = PfScaled(c, d)
  OBVIOUS
<1>3. PfIsScaled(c, d, s)
  BY <1>2, PfScales
<1>4. s \in PfCanvases /\ s.dpi = d /\ s.document = c.document /\ PfDrawn(s)
  BY <1>3, PfScaledStaysDrawn DEF PfIsScaled
<1>5. PICK mm \in [{15, 40} -> Nat] : \A x \in {15, 40} : mm[x] = PfRound(x * d * 10, 254)
  <2>1. \A x \in {15, 40} : PfRound(x * d * 10, 254) \in Nat
    <3>1. ASSUME NEW x \in {15, 40} PROVE PfRound(x * d * 10, 254) \in Nat
      <4>2. d \in Nat /\ x \in Nat
        BY PfDpisAre
      <4>1. PICK y \in Nat : y = x * d * 10
        BY <4>2
      <4>3. PICK z : z = 254
        OBVIOUS
      <4>4. z \in Nat \ {0}
        BY <4>3
      <4>5. PfRound(y, z) \in Nat
        BY ONLY <4>1, <4>2, <4>4, PfRounds DEF PfIsRound
      <4> QED BY <4>1, <4>3, <4>5
    <3> QED BY <3>1
  <2>2. [x \in {15, 40} |-> PfRound(x * d * 10, 254)] \in [{15, 40} -> Nat]
    BY <2>1
  <2> QED BY <2>2
<1>6. CASE c.document
  <2>1. n = s
    BY <1>1, <1>2, <1>6 DEF PfFitted
  <2> QED BY <1>1, <1>4, <1>6, <2>1 DEF PfIsFitted
<1>7. ASSUME ~c.document, NEW w \in Nat, NEW h \in Nat, NEW rotated \in BOOLEAN,
             n = PfSized(s, w, h, rotated), PfInfo[p].precut \/ (IF rotated THEN h ELSE w) <= head
      PROVE  PfIsFitted(c, p, n)
  <2>1. /\ n \in PfCanvases /\ n.dpi = s.dpi /\ (n.document <=> s.document)
        /\ PfAcross(n) = IF rotated THEN h ELSE w
    <3>1. PfIsSized(s, w, h, rotated, n)
      BY <1>4, <1>7, PfSizes
    <3> QED BY <3>1 DEF PfIsSized
  <2> QED BY <1>1, <1>4, <1>7, <2>1 DEF PfIsFitted, PfDrawn
<1>8. PICK on, off : on = TRUE /\ off = FALSE
  OBVIOUS
<1>9. on \in BOOLEAN /\ off \in BOOLEAN
  BY ONLY <1>8
<1>10. CASE ~c.document /\ PfInfo[p].precut
  <2>1. n = PfSized(s, mm[40], mm[15], on)
    BY <1>1, <1>2, <1>5, <1>8, <1>10 DEF PfFitted
  <2> QED BY <1>5, <1>7, <1>9, <1>10, <2>1
<1>11. CASE ~c.document /\ ~PfInfo[p].precut
  <2>1. CASE PfAcross(s) <= head
    <3>1. n = s
      BY <1>1, <1>2, <1>11, <2>1 DEF PfFitted
    <3> QED BY <1>1, <1>4, <1>11, <2>1, <3>1 DEF PfIsFitted
  <2>2. CASE ~(PfAcross(s) <= head) /\ head = 384
    <3>1. n = PfSized(s, 384, 384, off)
      BY <1>1, <1>2, <1>8, <1>11, <2>2 DEF PfFitted
    <3>2. (IF off THEN 384 ELSE 384) <= head
      BY <2>2
    <3>3. 384 \in Nat
      OBVIOUS
    <3> QED BY <1>7, <1>9, <1>11, <3>1, <3>2, <3>3
  <2>3. CASE ~(PfAcross(s) <= head) /\ head # 384 /\ head > 384
    <3>1. PICK h : h = PfRound(head * 3, 2)
      OBVIOUS
    <3>2. n = PfSized(s, head, h, off)
      BY <1>1, <1>2, <1>8, <1>11, <2>3, <3>1 DEF PfFitted
    <3>3. h \in Nat
      <4>1. PICK y \in Nat : y = head * 3
        OBVIOUS
      <4> QED BY <3>1, <4>1, PfRounds DEF PfIsRound
    <3>4. (IF off THEN h ELSE head) <= head
      BY <1>8
    <3> QED BY <1>7, <1>9, <1>11, <3>2, <3>3, <3>4
  <2>4. CASE ~(PfAcross(s) <= head) /\ head # 384 /\ ~(head > 384)
    <3>1. n = PfSized(s, mm[40], head, on)
      BY <1>1, <1>2, <1>5, <1>8, <1>11, <2>4 DEF PfFitted
    <3>2. (IF on THEN head ELSE mm[40]) <= head
      BY <1>8
    <3>3. mm[40] \in Nat
      BY <1>5
    <3> QED BY <1>7, <1>9, <1>11, <3>1, <3>2, <3>3
  <2> QED BY <2>1, <2>2, <2>3, <2>4
<1> QED BY <1>6, <1>10, <1>11

-----------------------------------------------------------------------------
\* A request for the choice of the moment is under way.
PfWaits == \E c \in pfCalls : c.kind # "save" /\ c.id = pfId /\ c.of = pfChosen

\* The parts that a step keeps.
LEMMA PfTogether ==
  ASSUME PfTypeOK', PfDrawn(pfCanvas)',
         (pfChosen # PfNone => pfCanvas.dpi = PfInfo[pfChosen].dpi)', PfFitsHead',
         (pfChosen # PfNone /\ ~PfWaits)' => pfShown'.owner \in {pfChosen', PfNone}
  PROVE  PfInv'
BY DEF PfInv, PfCanvasInv, PfDrawn, PfShowsChosen, PfWaits

\* The canvas and the choice rest.
LEMMA PfRests ==
  ASSUME PfInv, PfTypeOK', UNCHANGED <<pfCanvas, pfChosen>>,
         (pfChosen # PfNone /\ ~PfWaits)' => pfShown'.owner \in {pfChosen', PfNone}
  PROVE  PfInv'
<1>1. PfDrawn(pfCanvas)'
  BY DEF PfInv, PfCanvasInv, PfDrawn
<1>2. (pfChosen # PfNone => pfCanvas.dpi = PfInfo[pfChosen].dpi)' /\ PfFitsHead'
  BY DEF PfInv, PfCanvasInv, PfFitsHead
<1> QED BY <1>1, <1>2, PfTogether

\* What is shown and what is waited for stay as they are.
LEMMA PfShownStays ==
  ASSUME PfInv, UNCHANGED <<pfChosen, pfId>>, pfShown'.owner = pfShown.owner,
         \A c \in pfCalls : c.kind # "save" /\ c.id = pfId /\ c.of = pfChosen =>
           \E d \in pfCalls' : d.kind = c.kind /\ d.id = c.id /\ d.of = c.of
  PROVE  (pfChosen # PfNone /\ ~PfWaits)' => pfShown'.owner \in {pfChosen', PfNone}
BY DEF PfInv, PfShowsChosen, PfWaits

LEMMA PfCallIs ==
  ASSUME NEW kind \in PfKinds, NEW id \in Nat, NEW to \in PfPrinters, NEW of \in PfPrinters, NEW value \in Nat
  PROVE  LET c == PfCall(kind, id, to, of, value) IN
         c \in PfCallRecords /\ c.kind = kind /\ c.id = id /\ c.of = of
BY DEF PfCall, PfCallRecords

LEMMA PfBlankIs == PfBlank \in [owner : PfPrinters \cup {PfNone}, value : Nat, whole : BOOLEAN]
                   /\ PfBlank.owner = PfNone
BY DEF PfBlank

\* A printer is chosen, or none.
LEMMA PfSelectsInv ==
  ASSUME PfInv, NEW p \in PfPrinters \cup {PfNone}, PfSelects(p, pfCanvas),
         UNCHANGED <<pfStored, pfSave>>, pfManual' \subseteq PfPrinters
  PROVE  PfInv'
<1>1. PfTypeOK /\ pfCanvas \in PfCanvases /\ PfDrawn(pfCanvas) /\ pfId + 1 \in Nat
      /\ (pfChosen # PfNone => pfCanvas.dpi = PfInfo[pfChosen].dpi) /\ PfFitsHead
  BY DEF PfInv, PfTypeOK, PfCanvasInv, PfDrawn
<1>2. pfChosen' = p /\ pfId' = pfId + 1
  BY DEF PfSelects
<1>3. CASE p = PfNone
  <2>1. pfShown' = PfBlank /\ pfCanvas' = pfCanvas /\ pfCalls' = pfCalls
    BY <1>3 DEF PfSelects
  <2>2. PfTypeOK'
    BY <1>1, <1>2, <2>1, PfBlankIs DEF PfTypeOK
  <2>3. PfDrawn(pfCanvas)'
    BY <1>1, <2>1 DEF PfDrawn
  <2>4. PfFitsHead'
    BY <1>2, <1>3 DEF PfFitsHead
  <2> QED BY <1>2, <1>3, <2>2, <2>3, <2>4, PfTogether
<1>4. CASE p # PfNone
  <2>1. p \in PfPrinters
    BY <1>4
  <2>2. PICK call : call = PfCall("load", pfId + 1, p, p, 0)
    OBVIOUS
  <2>3. call \in PfCallRecords /\ call.kind = "load" /\ call.id = pfId + 1 /\ call.of = p
    <3>1. PICK kind, id, value : kind = "load" /\ id = pfId + 1 /\ value = 0
      OBVIOUS
    <3>2. kind \in PfKinds /\ id \in Nat /\ value \in Nat
      BY <1>1, <3>1 DEF PfKinds
    <3>3. call = PfCall(kind, id, p, p, value)
      BY <2>2, <3>1
    <3> QED BY <2>1, <3>1, <3>2, <3>3, PfCallIs
  <2>4. pfCalls' = pfCalls \cup {call} /\ pfShown' = pfShown
        /\ pfCanvas' = IF p = pfChosen THEN PfScaled(pfCanvas, PfInfo[p].dpi)
                                       ELSE PfFitted(pfCanvas, PfInfo[p])
    BY <1>4, <2>2 DEF PfSelects
  <2>5. pfCanvas' \in PfCanvases /\ PfDrawn(pfCanvas)' /\ pfCanvas'.dpi = PfInfo[p].dpi
        /\ ((~pfCanvas'.document /\ ~PfInfo[p].precut) => PfAcross(pfCanvas)' <= PfInfo[p].head)
    <3>1. PICK n, c, d : n = pfCanvas' /\ c = pfCanvas /\ d = PfInfo[p].dpi
      OBVIOUS
    <3>2. c \in PfCanvases /\ PfDrawn(c) /\ d \in PfDpis
      BY <1>1, <2>1, <3>1, PfDpisAre
    <3>3. CASE p # pfChosen
      <4>1. PfIsFitted(c, p, n)
        BY <2>1, <2>4, <3>1, <3>2, <3>3, PfFits
      <4> QED BY <3>1, <4>1 DEF PfIsFitted, PfDrawn, PfAcross
    <3>4. CASE p = pfChosen
      <4>1. PfIsScaled(c, d, n)
        BY <2>4, <3>1, <3>2, <3>4, PfScales
      <4>2. PfDrawn(n)
        BY <3>2, <4>1, PfScaledStaysDrawn
      <4>3. n.w = c.w /\ n.h = c.h
        <5>1. c.dpi = d /\ c.w \in Nat /\ c.h \in Nat /\ d \in Nat \ {0}
          BY <1>1, <1>4, <3>1, <3>2, <3>4, PfDpisAre DEF PfCanvases
        <5> QED BY <4>1, <5>1, PfRoundsBack DEF PfIsScaled
      <4>4. (~n.document /\ ~PfInfo[p].precut) => PfAcross(n) <= PfInfo[p].head
        BY <1>1, <1>4, <3>1, <3>4, <4>1, <4>3 DEF PfFitsHead, PfAcross, PfIsScaled
      <4> QED BY <3>1, <4>1, <4>2, <4>4 DEF PfDrawn, PfAcross, PfIsScaled
    <3> QED BY <3>3, <3>4
  <2>6. PfTypeOK'
    BY <1>1, <1>2, <2>3, <2>4, <2>5 DEF PfTypeOK
  <2>7. PfFitsHead' /\ (pfChosen # PfNone => pfCanvas.dpi = PfInfo[pfChosen].dpi)'
    BY <1>2, <2>5 DEF PfFitsHead
  <2>8. PfWaits'
    BY <1>2, <2>3, <2>4 DEF PfWaits
  <2> QED BY <2>5, <2>6, <2>7, <2>8, PfTogether
<1> QED BY <1>3, <1>4

\* The page anew.
LEMMA PfReloadInv == ASSUME PfInv, PfReload PROVE PfInv'
<1>1. PfTypeOK /\ pfId + 1 \in Nat /\ pfId' = pfId + 1
  BY DEF PfInv, PfTypeOK, PfReload
<1>2. PfFresh \in PfCanvases /\ PfDrawn(PfFresh) /\ ~PfFresh.document
  BY DEF PfFresh, PfCanvases, PfDrawn, PfDpis
<1>3. pfShown' = PfBlank /\ UNCHANGED <<pfStored, pfManual>>
      /\ pfSave' \in [id : Nat, printer : PfPrinters \cup {PfNone}, status : PfStatuses]
  <2>1. pfSave.id + 1 \in Nat /\ pfSave \in [id : Nat, printer : PfPrinters \cup {PfNone}, status : PfStatuses]
    BY <1>1 DEF PfTypeOK
  <2>2. PICK id \in Nat : id = pfSave.id + 1
    BY <2>1
  <2>3. PICK none, idle, save : none = PfNone /\ idle = "idle" /\ save = pfSave
    OBVIOUS
  <2>4. pfSave' = [save EXCEPT !.id = id, !.printer = none, !.status = idle]
    BY <2>2, <2>3 DEF PfReload
  <2>5. none \in PfPrinters \cup {PfNone} /\ idle \in PfStatuses
    BY <2>3 DEF PfStatuses
  <2>6. save \in [id : Nat, printer : PfPrinters \cup {PfNone}, status : PfStatuses] /\ id \in Nat
    BY <2>1, <2>2, <2>3
  <2>7. pfSave' \in [id : Nat, printer : PfPrinters \cup {PfNone}, status : PfStatuses]
    BY ONLY <2>4, <2>5, <2>6
  <2> QED BY <2>7 DEF PfReload
<1>4. CASE pfRemembered \in pfManual
  <2>1. PICK p \in PfPrinters : p = pfRemembered
    BY <1>1, <1>4 DEF PfTypeOK
  <2>2. PICK call : call = PfCall("load", pfId + 1, p, p, 0)
    OBVIOUS
  <2>3. call \in PfCallRecords /\ call.kind = "load" /\ call.id = pfId + 1 /\ call.of = p
    <3>1. PICK kind, id, value : kind = "load" /\ id = pfId + 1 /\ value = 0
      OBVIOUS
    <3>2. kind \in PfKinds /\ id \in Nat /\ value \in Nat
      BY <1>1, <3>1 DEF PfKinds
    <3>3. call = PfCall(kind, id, p, p, value)
      BY <2>2, <3>1
    <3> QED BY <3>1, <3>2, <3>3, PfCallIs
  <2>4. /\ pfChosen' = p /\ pfCanvas' = PfFitted(PfFresh, PfInfo[p])
        /\ pfCalls' = {c \in pfCalls : c.kind \in {"merge", "save"}} \cup {call}
    BY <1>4, <2>1, <2>2 DEF PfReload
  <2>5. PICK n, c : n = pfCanvas' /\ c = PfFresh
    OBVIOUS
  <2>6. PfIsFitted(c, p, n)
    BY <1>2, <2>4, <2>5, PfFits
  <2>7. pfCanvas' \in PfCanvases /\ PfDrawn(pfCanvas)' /\ pfCanvas'.dpi = PfInfo[p].dpi
        /\ ((~pfCanvas'.document /\ ~PfInfo[p].precut) => PfAcross(pfCanvas)' <= PfInfo[p].head)
    BY <2>5, <2>6 DEF PfIsFitted, PfDrawn, PfAcross
  <2>8. PfTypeOK'
    BY <1>1, <1>3, <2>3, <2>4, <2>7, PfBlankIs DEF PfTypeOK
  <2>9. PfFitsHead' /\ (pfChosen # PfNone => pfCanvas.dpi = PfInfo[pfChosen].dpi)'
    BY <2>4, <2>7 DEF PfFitsHead
  <2>10. pfShown'.owner = PfNone
    BY <1>3, PfBlankIs
  <2> QED BY <2>7, <2>8, <2>9, <2>10, PfTogether
<1>5. CASE pfRemembered \notin pfManual
  <2>1. pfChosen' = PfNone /\ pfCanvas' = PfFresh /\ pfCalls' = {c \in pfCalls : c.kind \in {"merge", "save"}}
    BY <1>5 DEF PfReload
  <2>2. PfTypeOK'
    BY <1>1, <1>2, <1>3, <2>1, PfBlankIs DEF PfTypeOK
  <2>3. PfFitsHead' /\ PfDrawn(pfCanvas)'
    BY <1>2, <2>1 DEF PfFitsHead, PfDrawn
  <2> QED BY <2>1, <2>2, <2>3, PfTogether
<1> QED BY <1>4, <1>5

\* The user at the panel and the canvas.
LEMMA PfDesignInv == ASSUME PfInv, PfDesign PROVE PfInv'
<1>1. PfTypeOK /\ pfCanvas \in PfCanvases
      /\ UNCHANGED <<pfStored, pfChosen, pfId, pfShown, pfCalls, pfSave, pfManual, pfRemembered>>
  BY DEF PfInv, PfTypeOK, PfDesign
<1>2. PICK on, made, n, c : on = TRUE /\ made = [w |-> c.w, dpi |-> c.dpi] /\ n = pfCanvas' /\ c = pfCanvas
  OBVIOUS
<1>3. on \in BOOLEAN
  BY ONLY <1>2
<1>4. c \in PfCanvases /\ made \in [w : Nat, dpi : PfDpis] /\ made.w = c.w /\ made.dpi = c.dpi
  BY <1>1, <1>2 DEF PfCanvases
<1>5. n = [c EXCEPT !.document = on, !.made = made]
  BY <1>2 DEF PfDesign
<1>6. n \in PfCanvases
  BY ONLY <1>3, <1>4, <1>5 DEF PfCanvases
<1>7. n.w = c.w /\ n.dpi = c.dpi /\ n.made = made /\ n.document = on
  BY ONLY <1>4, <1>5 DEF PfCanvases
<1>8. PfDrawn(n)
  <2>1. n.made.w = n.w /\ n.made.dpi = n.dpi
    BY <1>4, <1>7
  <2> QED BY <2>1 DEF PfDrawn, PfDrift
<1>9. PfDrawn(pfCanvas)' /\ pfCanvas' \in PfCanvases /\ pfCanvas'.dpi = pfCanvas.dpi
  BY <1>2, <1>6, <1>7, <1>8 DEF PfDrawn
<1>10. pfCanvas'.document
  BY ONLY <1>2, <1>7
<1>11. PfTypeOK' /\ PfFitsHead'
  BY <1>1, <1>9, <1>10 DEF PfTypeOK, PfFitsHead
<1>12. (pfChosen # PfNone => pfCanvas.dpi = PfInfo[pfChosen].dpi)'
  BY <1>1, <1>9 DEF PfInv, PfCanvasInv
<1>13. (pfChosen # PfNone /\ ~PfWaits)' => pfShown'.owner \in {pfChosen', PfNone}
  BY <1>1, PfShownStays
<1> QED BY <1>9, <1>11, <1>12, <1>13, PfTogether

LEMMA PfEditInv == ASSUME PfInv, PfEdit PROVE PfInv'
<1>1. PfTypeOK /\ pfShown \in [owner : PfPrinters \cup {PfNone}, value : Nat, whole : BOOLEAN]
      /\ UNCHANGED <<pfStored, pfChosen, pfId, pfCalls, pfSave, pfManual, pfRemembered, pfCanvas>>
      /\ pfShown' = [pfShown EXCEPT !.value = 2]
  BY DEF PfInv, PfTypeOK, PfEdit
<1>2. pfShown' \in [owner : PfPrinters \cup {PfNone}, value : Nat, whole : BOOLEAN]
      /\ pfShown'.owner = pfShown.owner
  BY <1>1
<1>3. PfTypeOK'
  BY <1>1, <1>2 DEF PfTypeOK
<1>4. (pfChosen # PfNone /\ ~PfWaits)' => pfShown'.owner \in {pfChosen', PfNone}
  BY <1>1, <1>2, PfShownStays
<1> QED BY <1>1, <1>3, <1>4, PfRests

LEMMA PfSaveProfileInv == ASSUME PfInv, PfSaveProfile PROVE PfInv'
<1>1. PfTypeOK /\ pfChosen \in PfPrinters /\ pfSave.id + 1 \in Nat /\ pfShown.value \in Nat
      /\ pfShown.whole \in BOOLEAN
      /\ UNCHANGED <<pfStored, pfChosen, pfId, pfShown, pfManual, pfRemembered, pfCanvas>>
  BY DEF PfInv, PfTypeOK, PfSaveProfile
<1>2. PICK kind, id, value, whole :
        kind = "save" /\ id = pfSave.id + 1 /\ value = pfShown.value /\ whole = pfShown.whole
  OBVIOUS
<1>3. kind \in PfKinds /\ id \in Nat /\ value \in Nat /\ whole \in BOOLEAN
  BY <1>1, <1>2 DEF PfKinds
<1>4. PICK call, new : call = PfCall(kind, id, pfChosen, pfChosen, value) /\ new = [call EXCEPT !.whole = whole]
  OBVIOUS
<1>5. call \in PfCallRecords
  BY <1>1, <1>3, <1>4, PfCallIs
<1>6. new \in PfCallRecords
  BY ONLY <1>3, <1>4, <1>5 DEF PfCallRecords
<1>7. pfCalls' = pfCalls \cup {new} /\ pfSave' = [id |-> id, printer |-> pfChosen, status |-> "saving"]
  BY <1>2, <1>4 DEF PfSaveProfile
<1>8. PfTypeOK'
  <2>1. PICK saving : saving = "saving"
    OBVIOUS
  <2>2. saving \in PfStatuses
    BY <2>1 DEF PfStatuses
  <2>3. pfSave' = [id |-> id, printer |-> pfChosen, status |-> saving]
    BY <1>7, <2>1
  <2>4. pfSave' \in [id : Nat, printer : PfPrinters \cup {PfNone}, status : PfStatuses]
    BY ONLY <1>1, <1>3, <2>2, <2>3
  <2> QED BY <1>1, <1>6, <1>7, <2>4 DEF PfTypeOK
<1>9. (pfChosen # PfNone /\ ~PfWaits)' => pfShown'.owner \in {pfChosen', PfNone}
  BY <1>1, <1>7, PfShownStays
<1> QED BY <1>1, <1>8, <1>9, PfRests

-----------------------------------------------------------------------------
\* The server and the network: a request is answered, or lost.
LEMMA PfAnswersInv ==
  ASSUME PfInv, NEW c \in pfCalls, NEW answer \in {"ok", "refused", "lost"}, NEW value \in Nat,
         PfAnswers(c, answer, value), pfStored' \in [PfPrinters -> Nat],
         UNCHANGED <<pfChosen, pfId, pfShown, pfSave, pfManual, pfRemembered, pfCanvas>>
  PROVE  PfInv'
<1>1. PfTypeOK /\ c \in PfCallRecords
  BY DEF PfInv, PfTypeOK
<1>2. PICK d : d = [c EXCEPT !.answer = answer, !.value = value]
  OBVIOUS
<1>3. d \in PfCallRecords /\ d.kind = c.kind /\ d.id = c.id /\ d.of = c.of
  BY <1>1, <1>2 DEF PfCallRecords
<1>4. pfCalls' = (pfCalls \ {c}) \cup {d}
  BY <1>2 DEF PfAnswers
<1>5. PfTypeOK'
  BY <1>1, <1>3, <1>4 DEF PfTypeOK
<1>6. (pfChosen # PfNone /\ ~PfWaits)' => pfShown'.owner \in {pfChosen', PfNone}
  BY <1>3, <1>4, PfShownStays
<1> QED BY <1>5, <1>6, PfRests

LEMMA PfServeInv == ASSUME PfInv, NEW c \in pfCalls, PfServe(c) PROVE PfInv'
<1>1. PfTypeOK /\ c \in PfCallRecords /\ c.to \in PfPrinters /\ c.value \in Nat /\ pfStored[c.to] \in Nat
      /\ UNCHANGED <<pfChosen, pfId, pfShown, pfSave, pfManual, pfRemembered, pfCanvas>>
  BY DEF PfInv, PfTypeOK, PfCallRecords, PfServe
<1>2. pfStored' \in [PfPrinters -> Nat]
  BY <1>1 DEF PfServe, PfTypeOK
<1>3. PICK answer \in {"ok", "refused", "lost"}, value \in Nat : PfAnswers(c, answer, value)
  BY <1>1 DEF PfServe
<1> QED BY <1>1, <1>2, <1>3, PfAnswersInv

LEMMA PfLoseInv == ASSUME PfInv, NEW c \in pfCalls, PfLose(c) PROVE PfInv'
<1>1. PfTypeOK /\ c \in PfCallRecords /\ c.value \in Nat
      /\ UNCHANGED <<pfStored, pfChosen, pfId, pfShown, pfSave, pfManual, pfRemembered, pfCanvas>>
  BY DEF PfInv, PfTypeOK, PfCallRecords, PfLose
<1>2. pfStored' \in [PfPrinters -> Nat]
  BY <1>1 DEF PfTypeOK
<1>3. PICK answer \in {"ok", "refused", "lost"}, value \in Nat : PfAnswers(c, answer, value)
  BY <1>1 DEF PfLose
<1> QED BY <1>1, <1>2, <1>3, PfAnswersInv

LEMMA PfOtherInv == ASSUME PfInv, NEW p \in PfPrinters, PfOther(p) PROVE PfInv'
<1>1. PfTypeOK /\ UNCHANGED <<pfChosen, pfId, pfShown, pfCalls, pfSave, pfManual, pfRemembered, pfCanvas>>
      /\ pfStored' \in [PfPrinters -> Nat]
  BY DEF PfInv, PfTypeOK, PfOther
<1>2. PfTypeOK'
  BY <1>1 DEF PfTypeOK
<1>3. (pfChosen # PfNone /\ ~PfWaits)' => pfShown'.owner \in {pfChosen', PfNone}
  BY <1>1, PfShownStays
<1> QED BY <1>1, <1>2, <1>3, PfRests

\* A request ends: another one for the same choice follows, or the profile is
\* shown, or nobody waited for it.
LEMMA PfEndsInv ==
  ASSUME PfInv, NEW c \in pfCalls, NEW d,
         \/ PfDone(c) /\ pfShown' = pfShown /\ (~PfIsCurrent(c) \/ c.kind = "save")
         \/ PfDone(c) /\ pfShown'.owner \in {pfChosen, PfNone}
         \/ /\ PfThen(c, d) /\ pfShown' = pfShown
            /\ d \in PfCallRecords /\ d.kind # "save" /\ d.id = pfId /\ d.of = pfChosen,
         pfShown' \in [owner : PfPrinters \cup {PfNone}, value : Nat, whole : BOOLEAN],
         pfSave' \in [id : Nat, printer : PfPrinters \cup {PfNone}, status : PfStatuses],
         UNCHANGED <<pfStored, pfChosen, pfId, pfManual, pfRemembered, pfCanvas>>
  PROVE  PfInv'
<1>1. PfTypeOK
  BY DEF PfInv
<1>2. PfTypeOK'
  BY <1>1 DEF PfTypeOK, PfDone, PfThen
<1>3. (pfChosen # PfNone /\ ~PfWaits)' => pfShown'.owner \in {pfChosen', PfNone}
  <2>1. CASE PfDone(c) /\ pfShown' = pfShown /\ (~PfIsCurrent(c) \/ c.kind = "save")
    <3>1. \A e \in pfCalls : e.kind # "save" /\ e.id = pfId /\ e.of = pfChosen =>
            \E f \in pfCalls' : f.kind = e.kind /\ f.id = e.id /\ f.of = e.of
      BY <2>1 DEF PfDone, PfIsCurrent
    <3> QED BY <2>1, <3>1, PfShownStays
  <2>2. CASE PfDone(c) /\ pfShown'.owner \in {pfChosen, PfNone}
    BY <2>2
  <2>3. CASE PfThen(c, d) /\ d.kind # "save" /\ d.id = pfId /\ d.of = pfChosen
    BY <2>3 DEF PfThen, PfWaits
  <2> QED BY <2>1, <2>2, <2>3
<1> QED BY <1>2, <1>3, PfRests

\* What is shown of a printer.
LEMMA PfShowsIs ==
  ASSUME NEW of \in PfPrinters, NEW value \in Nat, PfShows(of, value)
  PROVE  pfShown' \in [owner : PfPrinters \cup {PfNone}, value : Nat, whole : BOOLEAN] /\ pfShown'.owner = of
BY DEF PfShows

LEMMA PfLoadedInv == ASSUME PfInv, NEW c \in pfCalls, PfLoaded(c) PROVE PfInv'
<1>1. PfTypeOK /\ c \in PfCallRecords /\ c.of \in PfPrinters /\ c.value \in Nat /\ c.id \in Nat
      /\ UNCHANGED <<pfStored, pfChosen, pfId, pfSave, pfManual, pfRemembered, pfCanvas>>
  BY DEF PfInv, PfTypeOK, PfCallRecords, PfLoaded
<1>2. /\ pfShown \in [owner : PfPrinters \cup {PfNone}, value : Nat, whole : BOOLEAN]
      /\ pfSave' \in [id : Nat, printer : PfPrinters \cup {PfNone}, status : PfStatuses]
  BY <1>1 DEF PfTypeOK
<1>3. CASE PfDone(c) /\ pfShown' = pfShown /\ ~PfIsCurrent(c)
  BY <1>1, <1>2, <1>3, PfEndsInv
<1>4. CASE PfDone(c) /\ pfShown' = PfBlank
  BY <1>1, <1>2, <1>4, PfEndsInv, PfBlankIs
<1>5. CASE PfIsCurrent(c) /\ PfDone(c) /\ PfShows(c.of, c.value)
  <2>1. /\ pfShown' \in [owner : PfPrinters \cup {PfNone}, value : Nat, whole : BOOLEAN]
        /\ pfShown'.owner = pfChosen
    BY <1>1, <1>5, PfShowsIs DEF PfIsCurrent
  <2> QED BY <1>1, <1>2, <1>5, <2>1, PfEndsInv
<1>6. CASE PfIsCurrent(c) /\ pfShown' = pfShown
           /\ \E m \in PfMatches(c.of) : PfThen(c, PfCall("look", c.id, m, c.of, 0))
  <2>1. PICK m \in PfMatches(c.of) : PfThen(c, PfCall("look", c.id, m, c.of, 0))
    BY <1>6
  <2>2. PICK kind, value, d : kind = "look" /\ value = 0 /\ d = PfCall(kind, c.id, m, c.of, value)
    OBVIOUS
  <2>3. kind \in PfKinds /\ value \in Nat /\ m \in PfPrinters
    BY <1>1, <2>2 DEF PfKinds, PfMatches, PfTypeOK
  <2>4. d \in PfCallRecords /\ d.kind = kind /\ d.id = c.id /\ d.of = c.of
    BY <1>1, <2>2, <2>3, PfCallIs
  <2>5. /\ PfThen(c, d) /\ pfShown' = pfShown
        /\ d \in PfCallRecords /\ d.kind # "save" /\ d.id = pfId /\ d.of = pfChosen
    BY <1>6, <2>1, <2>2, <2>4 DEF PfIsCurrent
  <2> QED BY <1>1, <1>2, <2>5, PfEndsInv
<1> QED BY <1>3, <1>4, <1>5, <1>6 DEF PfLoaded

LEMMA PfLookedInv == ASSUME PfInv, NEW c \in pfCalls, PfLooked(c) PROVE PfInv'
<1>1. PfTypeOK /\ c \in PfCallRecords /\ c.of \in PfPrinters /\ c.value \in Nat /\ c.id \in Nat
      /\ UNCHANGED <<pfStored, pfChosen, pfId, pfSave, pfManual, pfRemembered, pfCanvas>>
  BY DEF PfInv, PfTypeOK, PfCallRecords, PfLooked
<1>2. /\ pfShown \in [owner : PfPrinters \cup {PfNone}, value : Nat, whole : BOOLEAN]
      /\ pfSave' \in [id : Nat, printer : PfPrinters \cup {PfNone}, status : PfStatuses]
  BY <1>1 DEF PfTypeOK
<1>3. CASE PfDone(c) /\ pfShown' = pfShown /\ ~PfIsCurrent(c)
  BY <1>1, <1>2, <1>3, PfEndsInv
<1>5. CASE PfIsCurrent(c) /\ PfDone(c) /\ PfShows(c.of, 0)
  <2>1. /\ pfShown' \in [owner : PfPrinters \cup {PfNone}, value : Nat, whole : BOOLEAN]
        /\ pfShown'.owner = pfChosen
    <3>1. PICK value : value = 0
      OBVIOUS
    <3>2. PfShows(c.of, value) /\ value \in Nat
      BY <1>5, <3>1
    <3> QED BY <1>1, <1>5, <3>2, PfShowsIs DEF PfIsCurrent
  <2> QED BY <1>1, <1>2, <1>5, <2>1, PfEndsInv
<1>6. CASE PfIsCurrent(c) /\ pfShown' = pfShown /\ PfThen(c, PfCall("merge", c.id, c.of, c.of, c.value))
  <2>2. PICK kind, d : kind = "merge" /\ d = PfCall(kind, c.id, c.of, c.of, c.value)
    OBVIOUS
  <2>3. kind \in PfKinds
    BY <2>2 DEF PfKinds
  <2>4. d \in PfCallRecords /\ d.kind = kind /\ d.id = c.id /\ d.of = c.of
    BY <1>1, <2>2, <2>3, PfCallIs
  <2>5. /\ PfThen(c, d) /\ pfShown' = pfShown
        /\ d \in PfCallRecords /\ d.kind # "save" /\ d.id = pfId /\ d.of = pfChosen
    BY <1>6, <2>2, <2>4 DEF PfIsCurrent
  <2> QED BY <1>1, <1>2, <2>5, PfEndsInv
<1> QED BY <1>3, <1>5, <1>6 DEF PfLooked

LEMMA PfMergedInv == ASSUME PfInv, NEW c \in pfCalls, PfMerged(c) PROVE PfInv'
<1>1. PfTypeOK /\ c \in PfCallRecords /\ c.of \in PfPrinters /\ c.value \in Nat /\ PfDone(c)
      /\ UNCHANGED <<pfStored, pfChosen, pfId, pfSave, pfManual, pfRemembered, pfCanvas>>
  BY DEF PfInv, PfTypeOK, PfCallRecords, PfMerged
<1>2. /\ pfShown \in [owner : PfPrinters \cup {PfNone}, value : Nat, whole : BOOLEAN]
      /\ pfSave' \in [id : Nat, printer : PfPrinters \cup {PfNone}, status : PfStatuses]
  BY <1>1 DEF PfTypeOK
<1>3. CASE pfShown' = pfShown /\ ~PfIsCurrent(c)
  BY <1>1, <1>2, <1>3, PfEndsInv
<1>5. CASE PfIsCurrent(c) /\ PfShows(c.of, c.value)
  <2>1. /\ pfShown' \in [owner : PfPrinters \cup {PfNone}, value : Nat, whole : BOOLEAN]
        /\ pfShown'.owner = pfChosen
    BY <1>1, <1>5, PfShowsIs DEF PfIsCurrent
  <2> QED BY <1>1, <1>2, <2>1, PfEndsInv
<1> QED BY <1>3, <1>5 DEF PfMerged

LEMMA PfSavedInv == ASSUME PfInv, NEW c \in pfCalls, PfSaved(c) PROVE PfInv'
<1>1. PfTypeOK /\ c \in PfCallRecords /\ PfDone(c) /\ c.kind = "save" /\ c.answer # "none"
      /\ UNCHANGED <<pfStored, pfChosen, pfId, pfShown, pfManual, pfRemembered, pfCanvas>>
  BY DEF PfInv, PfTypeOK, PfSaved
<1>2. PICK status, save : status = (IF c.answer = "ok" THEN "saved" ELSE c.answer) /\ save = pfSave
  OBVIOUS
<1>3. status \in PfStatuses
  <2>1. c.answer \in {"none", "ok", "refused", "lost"}
    BY <1>1 DEF PfCallRecords
  <2> QED BY <1>1, <1>2, <2>1 DEF PfStatuses
<1>4. save \in [id : Nat, printer : PfPrinters \cup {PfNone}, status : PfStatuses]
  BY <1>1, <1>2 DEF PfTypeOK
<1>5. pfSave' = save \/ pfSave' = [save EXCEPT !.status = status]
  BY <1>2 DEF PfSaved
<1>6. pfSave' \in [id : Nat, printer : PfPrinters \cup {PfNone}, status : PfStatuses]
  BY ONLY <1>3, <1>4, <1>5
<1>7. pfShown' \in [owner : PfPrinters \cup {PfNone}, value : Nat, whole : BOOLEAN]
  BY <1>1 DEF PfTypeOK
<1> QED BY <1>1, <1>6, <1>7, PfEndsInv

-----------------------------------------------------------------------------
LEMMA PfInitHolds == PfInit => PfInv
<1> SUFFICES ASSUME PfInit PROVE PfInv
  OBVIOUS
<1>1. PfFresh \in PfCanvases /\ ~PfFresh.document
  BY DEF PfFresh, PfCanvases, PfDpis
<1>2. PfTypeOK
  <2>1. PICK idle : idle = "idle"
    OBVIOUS
  <2>2. idle \in PfStatuses
    BY <2>1 DEF PfStatuses
  <2>3. pfSave = [id |-> 0, printer |-> PfNone, status |-> idle]
    BY <2>1 DEF PfInit, PfIdle
  <2>4. pfSave \in [id : Nat, printer : PfPrinters \cup {PfNone}, status : PfStatuses]
    BY ONLY <2>2, <2>3
  <2> QED BY <1>1, <2>4, PfBlankIs DEF PfInit, PfTypeOK
<1> QED BY <1>1, <1>2 DEF PfInit, PfInv, PfCanvasInv, PfFitsHead, PfShowsChosen

LEMMA PfNextKeeps == PfInv /\ [PfNext]_pfVars => PfInv'
<1> SUFFICES ASSUME PfInv, [PfNext]_pfVars PROVE PfInv'
  OBVIOUS
<1>1. CASE UNCHANGED pfVars
  BY <1>1 DEF pfVars, PfInv, PfTypeOK, PfCanvasInv, PfFitsHead, PfShowsChosen
<1>2. ASSUME PfStep PROVE PfInv'
  BY <1>2, PfServeInv, PfLoadedInv, PfLookedInv, PfMergedInv, PfSavedInv DEF PfStep
<1>3. ASSUME NEW p \in PfPrinters, PfSelect(p) \/ PfAddManual(p) \/ PfRemoveManual(p) PROVE PfInv'
  <2>1. pfManual' \subseteq PfPrinters /\ UNCHANGED <<pfStored, pfSave>>
    BY <1>3 DEF PfSelect, PfAddManual, PfRemoveManual, PfInv, PfTypeOK
  <2>2. CASE \E q \in PfPrinters \cup {PfNone} : PfSelects(q, pfCanvas)
    BY <2>1, <2>2, PfSelectsInv
  <2>3. CASE UNCHANGED <<pfId, pfChosen, pfRemembered, pfShown, pfCanvas, pfCalls>>
    <3>1. PfTypeOK'
      BY <2>1, <2>3 DEF PfInv, PfTypeOK
    <3>2. (pfChosen # PfNone /\ ~PfWaits)' => pfShown'.owner \in {pfChosen', PfNone}
      BY <2>3, PfShownStays
    <3> QED BY <2>3, <3>1, <3>2, PfRests
  <2> QED BY <1>3, <2>2, <2>3 DEF PfSelect, PfAddManual, PfRemoveManual
<1>4. ASSUME PfUser PROVE PfInv'
  BY <1>3, <1>4, PfReloadInv, PfDesignInv, PfEditInv, PfSaveProfileInv DEF PfUser
<1> QED BY <1>1, <1>2, <1>4, PfLoseInv, PfOtherInv DEF PfNext

\* The printer chosen in the editor: when nothing more is on its way the profile
\* shown is its own or the defaults, an empty canvas fits across its head, and a
\* design keeps its size through any number of changes of resolution.
THEOREM PrinterIsShown == PfSpec => [](PfShowsChosen /\ PfFitsHead /\ PfSizeKept)
<1>1. PfInv => PfShowsChosen /\ PfFitsHead /\ PfSizeKept
  BY PfSizeIsKept DEF PfInv
<1> QED BY <1>1, PfInitHolds, PfNextKeeps, PTL DEF PfSpec

-----------------------------------------------------------------------------
(* The pages of a design (slices/document.js).                              *)

\* f lists places of P up to n, each once.
EpIsPlaces(f, n, P) ==
  /\ f \in Seq(1..n) /\ \A k \in DOMAIN f : f[k] \in P
  /\ \A j, k \in DOMAIN f : f[j] = f[k] => j = k

LEMMA EpPlacesAre == ASSUME NEW n \in Nat, NEW P PROVE EpIsPlaces(EpPlaces(n, P), n, P)
<1> DEFINE seqs == [i \in 1..n |-> IF i \in P THEN <<i>> ELSE <<>>]
<1>1. seqs \in Seq(Seq(1..n)) /\ Len(seqs) = n
  <2>1. \A i \in 1..n : <<i>> \in Seq(1..n)
    OBVIOUS
  <2>2. <<>> \in Seq(1..n)
    OBVIOUS
  <2>3. seqs \in [1..n -> Seq(1..n)]
    BY <2>1, <2>2
  <2> QED BY <2>3
<1>2. PICK v : InARow(v, seqs, 1..n)
  <2> HIDE DEF seqs
  <2> QED BY ONLY <1>1, RowExists
<1>3. EpPlaces(n, P) = v[n] /\ v[n] \in Seq(1..n)
  <2>1. FlattenSeq(seqs) = v[Len(seqs)]
    <3> HIDE DEF seqs
    <3> QED BY ONLY <1>1, <1>2, FlattenedInARow
  <2>2. n \in 0..Len(seqs)
    BY <1>1
  <2> QED BY <1>1, <1>2, <2>1, <2>2 DEF EpPlaces, InARow
<1>4. LaidOut(v, seqs)
  <2> HIDE DEF seqs
  <2> QED BY ONLY <1>1, <1>2, RowLayout
<1>5. \A i \in 1..n : RowEnds(v, i) \in Nat /\ RowEnds(v, i - 1) \in Nat
  <2>1. \A i \in 0..n : RowEnds(v, i) \in Nat
    BY <1>1, <1>4 DEF LaidOut
  <2> QED BY <2>1
<1>6. ASSUME NEW k \in 1..Len(v[n])
      PROVE  \E i \in 1..n : k = RowEnds(v, i - 1) + 1 /\ v[n][k] = i /\ i \in P
  <2>1. n \in 0..n /\ k \in 1..RowEnds(v, n)
    BY DEF RowEnds
  <2>2. PICK i \in 1..n : \E j \in 1..Len(seqs[i]) : k = RowEnds(v, i - 1) + j /\ v[n][k] = seqs[i][j]
    <3> HIDE DEF seqs
    <3> QED BY <1>1, <1>4, <2>1 DEF LaidOut
  <2>3. PICK j \in 1..Len(seqs[i]) : k = RowEnds(v, i - 1) + j /\ v[n][k] = seqs[i][j]
    BY <2>2
  <2>4. CASE i \in P
    <3>1. seqs[i] = <<i>>
      BY <2>4
    <3>2. Len(<<i>>) = 1 /\ <<i>>[1] = i
      OBVIOUS
    <3>3. j = 1
      BY <2>3, <3>1, <3>2
    <3> QED BY <2>3, <2>4, <3>1, <3>2, <3>3
  <2>5. CASE i \notin P
    <3>1. seqs[i] = <<>> /\ Len(<<>>) = 0
      BY <2>5
    <3> QED BY <2>3, <3>1
  <2> QED BY <2>4, <2>5
<1>7. DOMAIN v[n] = 1..Len(v[n])
  BY <1>3
<1> HIDE DEF seqs
<1>8. \A k \in DOMAIN v[n] : v[n][k] \in P
  BY <1>6, <1>7
<1>9. ASSUME NEW j \in DOMAIN v[n], NEW k \in DOMAIN v[n], v[n][j] = v[n][k] PROVE j = k
  <2>1. PICK i \in 1..n : j = RowEnds(v, i - 1) + 1 /\ v[n][j] = i
    BY <1>6, <1>7
  <2>2. PICK h \in 1..n : k = RowEnds(v, h - 1) + 1 /\ v[n][k] = h
    BY <1>6, <1>7
  <2> QED BY <1>9, <2>1, <2>2
<1> QED BY <1>3, <1>8, <1>9 DEF EpIsPlaces

\* r keeps of s the places f, which are places of P.
EpIsKept(r, s, P, f) ==
  /\ DOMAIN f = DOMAIN r
  /\ \A k \in DOMAIN r : f[k] \in DOMAIN s /\ f[k] \in P /\ r[k] = s[f[k]]
  /\ \A j, k \in DOMAIN r : f[j] = f[k] => j = k

LEMMA EpKeeps ==
  ASSUME NEW T, NEW s \in Seq(T), NEW P
  PROVE  EpKept(s, P) \in Seq(T) /\ \E f : EpIsKept(EpKept(s, P), s, P, f)
<1>1. PICK f : f = EpPlaces(Len(s), P)
  OBVIOUS
<1>2. EpIsPlaces(f, Len(s), P)
  BY <1>1, EpPlacesAre
<1>3. PICK r : r = EpKept(s, P)
  OBVIOUS
<1>4. r = [k \in DOMAIN f |-> s[f[k]]]
  BY <1>1, <1>3 DEF EpKept
<1>5. DOMAIN f = 1..Len(f) /\ Len(f) \in Nat /\ DOMAIN s = 1..Len(s)
      /\ \A k \in DOMAIN f : f[k] \in 1..Len(s) /\ f[k] \in P
  BY <1>2 DEF EpIsPlaces
<1>6. r \in [1..Len(f) -> T]
  BY <1>4, <1>5
<1>7. r \in Seq(T)
  BY <1>5, <1>6
<1>8. EpIsKept(r, s, P, f)
  BY <1>2, <1>4, <1>5 DEF EpIsKept, EpIsPlaces
<1> QED BY <1>3, <1>7, <1>8

\* What is kept of a sequence was in it, at a place to be kept.
LEMMA EpKeptWas ==
  ASSUME NEW T, NEW s \in Seq(T), NEW P, NEW t \in ToSet(EpKept(s, P))
  PROVE  \E i \in DOMAIN s : i \in P /\ t = s[i]
<1>1. PICK r : r = EpKept(s, P)
  OBVIOUS
<1>2. PICK f : EpIsKept(r, s, P, f)
  BY <1>1, EpKeeps
<1>3. PICK k \in DOMAIN r : t = r[k]
  BY <1>1 DEF ToSet
<1> QED BY <1>2, <1>3 DEF EpIsKept

LEMMA EpSets ==
  ASSUME NEW T, NEW s \in Seq(T)
  PROVE  /\ ToSet(s) \subseteq T /\ (s # <<>> => \E t \in T : t = s[1] /\ t \in ToSet(s))
         /\ \A e \in T : Append(s, e) \in Seq(T) /\ ToSet(Append(s, e)) = ToSet(s) \cup {e}
         /\ \A r \in Seq(T) : s \o r \in Seq(T) /\ ToSet(s \o r) = ToSet(s) \cup ToSet(r)
<1>1. ToSet(s) \subseteq T /\ (s # <<>> => \E t \in T : t = s[1] /\ t \in ToSet(s))
  BY DEF ToSet
<1>2. ASSUME NEW e \in T PROVE Append(s, e) \in Seq(T) /\ ToSet(Append(s, e)) = ToSet(s) \cup {e}
  <2>1. PICK r : r = Append(s, e)
    OBVIOUS
  <2>2. r \in Seq(T) /\ Len(r) = Len(s) + 1 /\ r[Len(s) + 1] = e /\ (\A i \in 1..Len(s) : r[i] = s[i])
        /\ Len(s) \in Nat /\ DOMAIN s = 1..Len(s) /\ DOMAIN r = 1..Len(s) + 1
    BY <2>1
  <2>3. \A i \in 1..Len(s) + 1 : i \in 1..Len(s) \/ i = Len(s) + 1
    BY <2>2
  <2>4. 1..Len(s) \subseteq 1..Len(s) + 1 /\ Len(s) + 1 \in 1..Len(s) + 1
    BY <2>2
  <2> QED BY <2>1, <2>2, <2>3, <2>4 DEF ToSet
<1>3. ASSUME NEW r \in Seq(T) PROVE s \o r \in Seq(T) /\ ToSet(s \o r) = ToSet(s) \cup ToSet(r)
  <2>1. PICK q : q = s \o r
    OBVIOUS
  <2>2. /\ q \in Seq(T) /\ Len(q) = Len(s) + Len(r) /\ Len(s) \in Nat /\ Len(r) \in Nat
        /\ \A i \in 1..Len(q) : q[i] = IF i <= Len(s) THEN s[i] ELSE r[i - Len(s)]
    BY <2>1
  <2>3. \A i \in 1..Len(s) : i \in 1..Len(q) /\ q[i] = s[i]
    BY <2>2
  <2>4. \A i \in 1..Len(r) : Len(s) + i \in 1..Len(q) /\ q[Len(s) + i] = r[i]
    <3>1. ASSUME NEW i \in 1..Len(r) PROVE Len(s) + i \in 1..Len(q) /\ q[Len(s) + i] = r[i]
      <4>1. Len(s) + i \in 1..Len(q) /\ ~(Len(s) + i <= Len(s)) /\ Len(s) + i - Len(s) = i
        BY <2>2
      <4> QED BY <2>2, <4>1
    <3> QED BY <3>1
  <2>5. \A i \in 1..Len(q) : i \in 1..Len(s) \/ \E j \in 1..Len(r) : i = Len(s) + j
    <3>1. ASSUME NEW i \in 1..Len(q), i \notin 1..Len(s) PROVE \E j \in 1..Len(r) : i = Len(s) + j
      <4>1. i - Len(s) \in 1..Len(r) /\ i = Len(s) + (i - Len(s))
        BY <2>2, <3>1
      <4> QED BY <4>1
    <3> QED BY <3>1
  <2>6. DOMAIN q = 1..Len(q) /\ DOMAIN s = 1..Len(s) /\ DOMAIN r = 1..Len(r)
    BY <2>2
  <2>7. ASSUME NEW i \in 1..Len(q) PROVE q[i] \in ToSet(s) \cup ToSet(r)
    <3>1. CASE i \in 1..Len(s)
      BY <2>3, <2>6, <3>1 DEF ToSet
    <3>2. CASE \E j \in 1..Len(r) : i = Len(s) + j
      BY <2>4, <2>6, <3>2 DEF ToSet
    <3> QED BY <2>5, <3>1, <3>2
  <2>8. ToSet(s) \cup ToSet(r) \subseteq ToSet(q)
    BY <2>3, <2>4, <2>6 DEF ToSet
  <2>9. ToSet(q) \subseteq ToSet(s) \cup ToSet(r)
    BY <2>6, <2>7 DEF ToSet
  <2> QED BY <2>1, <2>2, <2>8, <2>9
<1> QED BY <1>1, <1>2, <1>3

\* r is a row of members of T, the set A of them.
EpIsRow(r, T, A) == r \in Seq(T) /\ ToSet(r) = A

LEMMA EpAppended ==
  ASSUME NEW T, NEW s, NEW e, s \in Seq(T), e \in T
  PROVE  EpIsRow(Append(s, e), T, ToSet(s) \cup {e})
BY EpSets DEF EpIsRow

LEMMA EpInARow ==
  ASSUME NEW T, NEW s, NEW q, s \in Seq(T), q \in Seq(T)
  PROVE  EpIsRow(s \o q, T, ToSet(s) \cup ToSet(q))
BY EpSets DEF EpIsRow

-----------------------------------------------------------------------------
\* t lies where u does.
EpLike(t, u) == t.page = u.page /\ t.sheet = u.sheet

\* things name their pages and sheets, the sheets below n.
EpFine(things, n) ==
  /\ n \in Nat /\ EpWhole(things) /\ EpBelow(things, n)
  /\ \A t \in things : t.page \in Nat /\ t.sheet \in Nat

\* The page and the sheet of spot belong together, as far as things go.
EpFits(things, spot) == \A t \in things : t.page = spot.page <=> t.sheet = spot.sheet

\* What lies where something lay, or on a page that fits, stays whole.
LEMMA EpJoins ==
  ASSUME NEW things, NEW n, EpFine(things, n), NEW m \in Nat, n <= m,
         NEW spot \in EpSpots, EpFits(things, spot), spot.sheet < m,
         NEW new, \A t \in new : EpLike(t, spot) \/ \E u \in things : EpLike(t, u)
  PROVE  EpFine(new, m)
<1>1. spot.page \in Nat /\ spot.sheet \in Nat
  BY DEF EpSpots
<1>2. ASSUME NEW t \in new PROVE t.page \in Nat /\ t.sheet \in Nat /\ t.sheet < m
  <2>1. CASE EpLike(t, spot)
    BY <1>1, <2>1 DEF EpLike
  <2>2. CASE \E u \in things : EpLike(t, u)
    BY <2>2 DEF EpLike, EpFine, EpBelow
  <2> QED BY <2>1, <2>2
<1>3. ASSUME NEW t \in new, NEW s \in new PROVE s.page = t.page <=> s.sheet = t.sheet
  <2>1. CASE EpLike(t, spot) /\ EpLike(s, spot)
    BY <2>1 DEF EpLike
  <2>2. CASE \E u \in things : EpLike(t, u) /\ EpLike(s, spot)
    BY <2>2 DEF EpLike, EpFits
  <2>3. CASE \E u \in things : EpLike(s, u) /\ EpLike(t, spot)
    BY <2>3 DEF EpLike, EpFits
  <2>4. CASE (\E u \in things : EpLike(t, u)) /\ (\E u \in things : EpLike(s, u))
    BY <2>4 DEF EpLike, EpFine, EpWhole
  <2> QED BY <2>1, <2>2, <2>3, <2>4
<1> QED BY <1>2, <1>3 DEF EpFine, EpWhole, EpBelow

LEMMA EpJoinsNone ==
  ASSUME NEW things, NEW n, EpFine(things, n), NEW m \in Nat, n <= m,
         NEW new, \A t \in new : \E u \in things : EpLike(t, u)
  PROVE  EpFine(new, m)
<1>1. ASSUME NEW t \in new PROVE t.page \in Nat /\ t.sheet \in Nat /\ t.sheet < m
  BY DEF EpLike, EpFine, EpBelow
<1>2. ASSUME NEW t \in new, NEW s \in new PROVE s.page = t.page <=> s.sheet = t.sheet
  BY DEF EpLike, EpFine, EpWhole
<1> QED BY <1>1, <1>2 DEF EpFine, EpWhole, EpBelow

\* The design, as the invariant has it.
EpState(things) ==
  /\ EpFine(things, epLeft.sheets) /\ epItems \in Seq(EpElements) /\ epLayouts \in Seq(EpSpots)
  /\ ToSet(epItems) \subseteq things /\ ToSet(epLayouts) \subseteq things
  /\ ToSet(epItems) \subseteq EpElements /\ ToSet(epLayouts) \subseteq EpSpots
  /\ EpTitled(ToSet(epItems), epLeft.ids) /\ EpOnePerPage(epLayouts) /\ (\A t \in ToSet(epItems) : EpIsPlaced(t))
  /\ epView \in [page : Nat, ids : Seq(Nat), print : Seq(EpSpots)] /\ ToSet(epView.print) \subseteq EpSpots
  /\ epView.page \in Nat /\ epView.ids \in Seq(Nat) /\ epView.print \in Seq(EpSpots)
  /\ epLeft \in [ops : Nat, ids : Nat, sheets : Nat]
  /\ epLeft.ops \in Nat /\ epLeft.ids \in Nat /\ epLeft.sheets \in Nat

LEMMA EpStates == EpInv => EpState(EpThings)
<1> SUFFICES ASSUME EpInv PROVE EpState(EpThings)
  OBVIOUS
<1>1. /\ EpTypeOK /\ epItems \in Seq(EpElements) /\ epLayouts \in Seq(EpSpots)
      /\ EpOnePerPage(epLayouts) /\ (\A t \in ToSet(epItems) : EpIsPlaced(t))
      /\ EpTitled(ToSet(epItems), epLeft.ids)
  BY DEF EpInv, EpMade
<1>2. /\ epView.page \in Nat /\ epView.ids \in Seq(Nat) /\ epView.print \in Seq(EpSpots)
      /\ epLeft.ops \in Nat /\ epLeft.ids \in Nat /\ epLeft.sheets \in Nat
  BY <1>1 DEF EpTypeOK
<1>3. ToSet(epItems) \subseteq EpElements /\ ToSet(epLayouts) \subseteq EpSpots
      /\ ToSet(epView.print) \subseteq EpSpots
  BY <1>1, <1>2, EpSets
<1>4. EpThings \subseteq EpElements \cup EpSpots
  BY <1>3 DEF EpThings, EpAll
<1>5. \A t \in EpThings : t.page \in Nat /\ t.sheet \in Nat
  BY <1>4 DEF EpElements, EpSpots
<1>6. EpFine(EpThings, epLeft.sheets)
  BY <1>2, <1>5 DEF EpFine, EpInv
<1>7. ToSet(epItems) \subseteq EpThings /\ ToSet(epLayouts) \subseteq EpThings
  BY DEF EpThings, EpAll
<1> QED BY <1>1, <1>2, <1>3, <1>6, <1>7 DEF EpState, EpTypeOK

\* The sheet of a page fits it.
LEMMA EpSheetFits ==
  ASSUME NEW things, EpFine(things, epLeft.sheets), NEW page \in Nat,
         NEW sheet, sheet = EpSheetOf(page, things)
  PROVE  sheet \in Nat /\ sheet < epLeft.sheets + 1 /\ \A t \in things : t.page = page <=> t.sheet = sheet
<1>1. epLeft.sheets \in Nat
  BY DEF EpFine
<1>2. CASE \E t \in things : t.page = page
  <2>1. PICK t \in things : t.page = page /\ sheet = t.sheet
    BY <1>2 DEF EpSheetOf
  <2> QED BY <1>1, <2>1 DEF EpFine, EpBelow, EpWhole
<1>3. CASE ~\E t \in things : t.page = page
  <2>1. sheet = epLeft.sheets
    BY <1>3 DEF EpSheetOf
  <2>2. ASSUME NEW t \in things PROVE t.page # page /\ t.sheet # sheet
    BY <1>1, <1>3, <2>1 DEF EpFine, EpBelow
  <2> QED BY <1>1, <2>1, <2>2
<1> QED BY <1>2, <1>3

\* A function has finitely many values, if it has finitely many arguments.
LEMMA FiniteRange ==
  ASSUME NEW S, IsFiniteSet(S), NEW f, DOMAIN f = S, f = [x \in S |-> f[x]]
  PROVE  IsFiniteSet({f[x] : x \in S})
<1> DEFINE T == {f[x] : x \in S}
<1>1. f \in Surjection(S, T)
  BY DEF Surjection
<1> HIDE DEF T
<1>2. IsFiniteSet(T)
  BY <1>1, FS_Surjection
<1> QED BY <1>2 DEF T

\* There is a last page, and nothing lies behind it.
LEMMA EpLasts ==
  ASSUME EpInv
  PROVE  EpLast \in Nat /\ (\A t \in EpThings : t.page <= EpLast) /\ \A q \in EpPages : q <= EpLast
<1>1. EpState(EpThings)
  BY EpStates
<1> DEFINE S == ToSet(epItems) \cup ToSet(epLayouts)
           P == {t.page : t \in S}
<1>2. IsFiniteSet(S)
  <2>1. epItems \in [1..Len(epItems) -> EpElements] /\ epLayouts \in [1..Len(epLayouts) -> EpSpots]
        /\ Len(epItems) \in Nat /\ Len(epLayouts) \in Nat
    BY <1>1 DEF EpState
  <2>2. IsFiniteSet(1..Len(epItems)) /\ IsFiniteSet(1..Len(epLayouts))
    BY <2>1, FS_Interval
  <2>3. IsFiniteSet({epItems[i] : i \in 1..Len(epItems)})
    BY <2>1, <2>2, FiniteRange
  <2>4. IsFiniteSet({epLayouts[i] : i \in 1..Len(epLayouts)})
    BY <2>1, <2>2, FiniteRange
  <2>5. ToSet(epItems) = {epItems[i] : i \in 1..Len(epItems)}
        /\ ToSet(epLayouts) = {epLayouts[i] : i \in 1..Len(epLayouts)}
    BY <2>1 DEF ToSet
  <2> QED BY <2>3, <2>4, <2>5, FS_Union
<1>3. IsFiniteSet(P)
  <2> HIDE DEF S
  <2>1. PICK f : f = [t \in S |-> t.page]
    OBVIOUS
  <2>2. IsFiniteSet({f[t] : t \in S})
    BY <1>2, <2>1, FiniteRange
  <2>3. {f[t] : t \in S} = P
    BY <2>1
  <2> QED BY <2>2, <2>3
<1>4. EpPages = {0, epView.page} \cup P
  BY DEF EpPages
<1>5. S \subseteq EpThings /\ EpPages \subseteq Nat /\ 0 \in EpPages
  <2>1. S \subseteq EpThings /\ \A t \in EpThings : t.page \in Nat
    BY <1>1 DEF EpState, EpFine
  <2>2. P \subseteq Nat
    BY <2>1
  <2> QED BY <1>1, <1>4, <2>1, <2>2 DEF EpState
<1>6. IsFiniteSet(EpPages)
  <2> HIDE DEF P
  <2>1. IsFiniteSet({0, epView.page})
    <3>1. {0, epView.page} = {0} \cup {epView.page}
      OBVIOUS
    <3>2. IsFiniteSet({0})
      BY FS_Singleton
    <3> QED BY <3>1, <3>2, FS_AddElement
  <2> QED BY <1>3, <1>4, <2>1, FS_Union
<1>7. PICK m \in EpPages : \A q \in EpPages : q <= m
  <2> HIDE DEF P, S
  <2>1. EpPages # {}
    BY <1>5
  <2> QED BY <1>5, <1>6, <2>1, HighestNumber
<1>8. EpLast \in EpPages /\ \A q \in EpPages : q <= EpLast
  <2>1. m \in EpPages /\ \A q \in EpPages : m >= q
    BY <1>5, <1>7
  <2>2. EpLast \in EpPages /\ \A q \in EpPages : EpLast >= q
    <3> HIDE DEF P, S
    <3> QED BY <2>1 DEF EpLast
  <2> QED BY <1>5, <2>2
<1>9. ASSUME NEW t \in EpThings PROVE t.page \in EpPages
  <2>1. CASE t \in S
    BY <1>4, <2>1
  <2>2. CASE ~epStale /\ t \in ToSet(epView.print)
    <3>1. ~EpPicksLost
      BY <2>2 DEF EpInv
    <3> QED BY <2>2, <3>1 DEF EpPicksLost
  <2> QED BY <2>1, <2>2 DEF EpThings, EpAll
<1> QED BY <1>5, <1>8, <1>9

-----------------------------------------------------------------------------
\* Identities given out stay so, and new ones on one page do.
LEMMA EpTitledMore ==
  ASSUME NEW A, A \subseteq EpElements, NEW n \in Nat, NEW m \in Nat, n <= m, EpTitled(A, n)
  PROVE  EpTitled(A, m)
<1>1. \A t \in A : t.id \in Nat
  BY DEF EpElements
<1> QED BY <1>1 DEF EpTitled

\* things on a page, of identities from n to below m.
EpOnPage(things, page, n, m) == \A t \in things : n <= t.id /\ t.id < m /\ t.page = page

LEMMA EpTitledNew ==
  ASSUME NEW A, NEW B, A \subseteq EpElements, B \subseteq EpElements, NEW n \in Nat, NEW m \in Nat, n <= m,
         EpTitled(A, n), NEW page, EpOnPage(B, page, n, m)
  PROVE  EpTitled(A \cup B, m)
<1>1. /\ (\A t \in A : t.id \in Nat /\ t.id < n) /\ (\A t \in B : t.id \in Nat)
      /\ \A t \in B : n <= t.id /\ t.id < m /\ t.page = page
  BY DEF EpElements, EpTitled, EpOnPage
<1>2. ASSUME NEW t \in A \cup B PROVE t.id < m
  BY <1>1
<1>3. ASSUME NEW t \in A \cup B, NEW s \in A \cup B, s.id = t.id PROVE s.page = t.page
  <2>1. CASE t \in A /\ s \in A
    BY <1>3, <2>1 DEF EpTitled
  <2>2. CASE t \in B /\ s \in B
    BY <1>1, <2>2
  <2>3. CASE t \in A /\ s \in B
    BY <1>1, <1>3, <2>3
  <2>4. CASE t \in B /\ s \in A
    BY <1>1, <1>3, <2>4
  <2> QED BY <2>1, <2>2, <2>3, <2>4
<1> QED BY <1>2, <1>3 DEF EpTitled

EpViews == [page : Nat, ids : Seq(Nat), print : Seq(EpSpots)]
EpLefts == [ops : Nat, ids : Nat, sheets : Nat]

\* What a step leaves is well made.
EpLeavesMade(items, layouts, view, left) ==
  /\ items \in Seq(EpElements) /\ layouts \in Seq(EpSpots) /\ view \in EpViews
  /\ EpOnePerPage(layouts) /\ \A t \in ToSet(items) : EpIsPlaced(t)
  /\ EpTitled(ToSet(items), left.ids) /\ EpFine(EpAll(items, layouts, view.print), left.sheets)
  /\ \A i \in DOMAIN view.ids : \E t \in ToSet(items) : t.id = view.ids[i] /\ t.page = view.page

\* A step that leaves a design well made keeps the invariant.
LEMMA EpStepHolds ==
  ASSUME EpInv, NEW items, NEW layouts, NEW view, NEW left \in EpLefts,
         epItems' = items, epLayouts' = layouts, epView' = view, epLeft' = left,
         EpLeavesMade(items, layouts, view, left),
         epLeft.sheets <= left.sheets, epLeft.ids <= left.ids,
         EpRecord \/ UNCHANGED epBefore,
         epStale' = (epStale \/ EpPicksLost')
  PROVE  EpInv'
<1>1. EpState(EpThings)
  BY EpStates
<1>2. epStale \in BOOLEAN /\ epStale' \in BOOLEAN /\ (~epStale' => ~epStale /\ ~EpPicksLost')
  <2>1. epStale \in BOOLEAN
    BY DEF EpInv, EpTypeOK
  <2> QED BY <2>1
<1>3. EpTypeOK'
  BY <1>2 DEF EpTypeOK, EpLeavesMade, EpViews, EpLefts
<1>4. EpThings' \subseteq EpAll(items, layouts, view.print)
      /\ ToSet(items) \cup ToSet(layouts) \subseteq EpAll(items, layouts, view.print)
  BY <1>2 DEF EpThings, EpAll
<1>5. EpWhole(EpThings)' /\ EpBelow(EpThings, epLeft.sheets)'
  BY <1>4 DEF EpLeavesMade, EpFine, EpWhole, EpBelow
<1>6. EpMade(items, layouts, left)
  BY <1>4 DEF EpLeavesMade, EpFine, EpWhole, EpBelow, EpMade
<1>7. ASSUME NEW a, NEW b, EpMade(a, b, epLeft) PROVE EpMade(a, b, left)
  <2>1. \A t \in ToSet(a) \cup ToSet(b) : t.sheet \in Nat
    <3>1. ToSet(a) \subseteq EpElements /\ ToSet(b) \subseteq EpSpots
      BY <1>7, EpSets DEF EpMade
    <3> QED BY <3>1 DEF EpElements, EpSpots
  <2>2. left.sheets \in Nat /\ epLeft.sheets \in Nat
    BY <1>1 DEF EpLefts, EpState
  <2>3. EpBelow(ToSet(a) \cup ToSet(b), left.sheets)
    BY <1>7, <2>1, <2>2 DEF EpMade, EpBelow
  <2>4. ToSet(a) \subseteq EpElements
    BY <1>7, EpSets DEF EpMade
  <2>5. EpTitled(ToSet(a), epLeft.ids)
    BY <1>7 DEF EpMade
  <2>6. epLeft.ids \in Nat /\ left.ids \in Nat
    BY <1>1 DEF EpLefts, EpState
  <2>7. EpTitled(ToSet(a), left.ids)
    BY <2>4, <2>5, <2>6, EpTitledMore
  <2> QED BY <1>7, <2>3, <2>7 DEF EpMade
<1>8. (epBefore # <<>> => EpMade(epBefore[1], epBefore[2], epLeft))'
  <2>1. CASE EpRecord
    <3>1. epBefore'[1] = epItems /\ epBefore'[2] = epLayouts
      BY <2>1 DEF EpRecord
    <3>2. EpMade(epItems, epLayouts, left)
      BY <1>7 DEF EpInv
    <3> QED BY <3>1, <3>2
  <2>2. CASE UNCHANGED epBefore
    <3>1. epBefore # <<>> => EpMade(epBefore[1], epBefore[2], left)
      BY <1>7 DEF EpInv
    <3> QED BY <2>2, <3>1
  <2> QED BY <2>1, <2>2
<1>9. EpSelectionShown'
  BY DEF EpSelectionShown, EpLeavesMade
<1> QED BY <1>2, <1>3, <1>5, <1>6, <1>8, <1>9 DEF EpInv

EpStaled == epStale' = (epStale \/ EpPicksLost')

\* left is what is left when so many identities and sheets were used.
EpUsed(left, ids, sheets) ==
  /\ left \in EpLefts /\ left.sheets = epLeft.sheets + sheets /\ left.ids = epLeft.ids + ids
  /\ epLeft.sheets <= left.sheets /\ epLeft.ids <= left.ids
  /\ left.sheets \in Nat /\ left.ids \in Nat

LEMMA EpUses ==
  ASSUME EpInv, NEW ids \in Nat, NEW sheets \in Nat, EpUse(ids, sheets)
  PROVE  EpUsed(epLeft', ids, sheets)
<1>1. epLeft.ops \in Nat /\ epLeft.ids \in Nat /\ epLeft.sheets \in Nat
  BY EpStates DEF EpState
<1>2. epLeft.ops - 1 \in Nat /\ epLeft.ids + ids \in Nat /\ epLeft.sheets + sheets \in Nat
  BY <1>1 DEF EpUse
<1> QED BY <1>1, <1>2 DEF EpUse, EpLefts, EpUsed

\* The elements as they were keep their identities.
LEMMA EpStillTitled ==
  ASSUME EpInv, NEW left, NEW ids, NEW sheets, EpUsed(left, ids, sheets)
  PROVE  EpTitled(ToSet(epItems), left.ids)
<1>1. ToSet(epItems) \subseteq EpElements /\ epLeft.ids \in Nat /\ EpTitled(ToSet(epItems), epLeft.ids)
  BY EpStates DEF EpState
<1> QED BY <1>1, EpTitledMore DEF EpUsed

\* What is drawn where something was drawn, or on a page that fits, beside the
\* picks as they were.
LEMMA EpDrawnOn ==
  ASSUME EpInv, NEW items, NEW layouts, NEW m \in Nat, epLeft.sheets <= m,
         NEW spot \in EpSpots, EpFits(EpThings, spot), spot.sheet < m,
         \A t \in ToSet(items) \cup ToSet(layouts) :
            EpLike(t, spot) \/ \E u \in EpThings : EpLike(t, u)
  PROVE  EpFine(EpAll(items, layouts, epView.print), m)
<1>1. EpFine(EpThings, epLeft.sheets)
  BY EpStates DEF EpState
<1>2. PICK new : new = EpAll(items, layouts, epView.print)
  OBVIOUS
<1>3. ASSUME NEW t \in new PROVE EpLike(t, spot) \/ \E u \in EpThings : EpLike(t, u)
  <2>1. CASE t \in ToSet(items) \cup ToSet(layouts)
    BY <2>1
  <2>2. CASE t \in EpThings
    BY <2>2 DEF EpLike
  <2> QED BY <1>2, <1>3, <2>1, <2>2 DEF EpAll, EpThings
<1>4. EpFine(new, m)
  BY <1>1, <1>3, EpJoins
<1> QED BY <1>2, <1>4

LEMMA EpDrawn ==
  ASSUME EpInv, NEW items, NEW layouts, NEW m \in Nat, epLeft.sheets <= m,
         \A t \in ToSet(items) \cup ToSet(layouts) : \E u \in EpThings : EpLike(t, u)
  PROVE  EpFine(EpAll(items, layouts, epView.print), m)
<1>1. EpFine(EpThings, epLeft.sheets)
  BY EpStates DEF EpState
<1>2. PICK new : new = EpAll(items, layouts, epView.print)
  OBVIOUS
<1>3. ASSUME NEW t \in new PROVE \E u \in EpThings : EpLike(t, u)
  <2>1. CASE t \in ToSet(items) \cup ToSet(layouts)
    BY <2>1
  <2>2. CASE t \in EpThings
    BY <2>2 DEF EpLike
  <2> QED BY <1>2, <1>3, <2>1, <2>2 DEF EpAll, EpThings
<1>4. EpFine(new, m)
  BY <1>1, <1>3, EpJoinsNone
<1> QED BY <1>2, <1>4

\* A page behind the last is a new one.
LEMMA EpNewPage ==
  ASSUME EpInv, NEW spot, spot = [page |-> EpLast + 1, sheet |-> epLeft.sheets]
  PROVE  spot \in EpSpots /\ EpFits(EpThings, spot) /\ spot.sheet = epLeft.sheets /\ spot.page = EpLast + 1
<1>1. /\ EpFine(EpThings, epLeft.sheets) /\ epLeft.sheets \in Nat
      /\ EpLast \in Nat /\ \A t \in EpThings : t.page <= EpLast
  BY EpStates, EpLasts DEF EpState
<1>2. spot \in EpSpots /\ spot.sheet = epLeft.sheets /\ spot.page = EpLast + 1
  BY <1>1 DEF EpSpots
<1>3. ASSUME NEW t \in EpThings PROVE t.page # spot.page /\ t.sheet # spot.sheet
  BY <1>1, <1>2 DEF EpFine, EpBelow
<1> QED BY <1>2, <1>3 DEF EpFits

\* The sheet of the page shown.
LEMMA EpSpotHere ==
  ASSUME EpInv, NEW page \in Nat, NEW spot, spot = [page |-> page, sheet |-> EpSheet(page)]
  PROVE  /\ spot \in EpSpots /\ EpFits(EpThings, spot) /\ spot.sheet < epLeft.sheets + 1
         /\ spot.page = page /\ spot.sheet = EpSheet(page) /\ EpSheet(page) \in Nat
<1>1. EpFine(EpThings, epLeft.sheets)
  BY EpStates DEF EpState
<1>2. PICK sheet, things : sheet = EpSheetOf(page, things) /\ things = EpThings
  OBVIOUS
<1>3. sheet \in Nat /\ sheet < epLeft.sheets + 1 /\ \A t \in things : t.page = page <=> t.sheet = sheet
  BY <1>1, <1>2, EpSheetFits
<1>4. spot = [page |-> page, sheet |-> sheet] /\ sheet = EpSheet(page)
  BY <1>2 DEF EpSheet
<1> QED BY <1>2, <1>3, <1>4 DEF EpSpots, EpFits

-----------------------------------------------------------------------------
(* The edits.                                                               *)

\* Only the view changes, not the picks.
LEMMA EpViewHolds ==
  ASSUME EpInv, NEW view \in EpViews, epView' = view, view.print = epView.print,
         \A i \in DOMAIN view.ids : \E t \in ToSet(epItems) : t.id = view.ids[i] /\ t.page = view.page,
         UNCHANGED <<epItems, epLayouts, epBefore>>, EpUse(0, 0), EpStaled
  PROVE  EpInv'
<1>1. EpState(EpThings) /\ epLeft.sheets \in Nat
  BY EpStates DEF EpState
<1>2. EpFine(EpAll(epItems, epLayouts, view.print), epLeft.sheets)
  BY <1>1 DEF EpState, EpThings
<1>3. PICK left : left = epLeft' /\ EpUsed(left, 0, 0)
  BY EpUses
<1>4. EpTitled(ToSet(epItems), left.ids)
  BY <1>3, EpStillTitled
<1>5. left \in EpLefts /\ left.sheets = epLeft.sheets /\ epLeft.sheets <= left.sheets /\ epLeft.ids <= left.ids
  BY <1>1, <1>3 DEF EpUsed
<1>6. EpLeavesMade(epItems, epLayouts, view, left)
  BY <1>1, <1>2, <1>4, <1>5 DEF EpLeavesMade, EpState
<1> QED BY <1>3, <1>5, <1>6, EpStepHolds DEF EpStaled

LEMMA EpPagesAre == EpInv => EpState(EpThings) /\ EpPages \subseteq Nat
<1> SUFFICES ASSUME EpInv PROVE EpState(EpThings) /\ EpPages \subseteq Nat
  OBVIOUS
<1>1. EpState(EpThings)
  BY EpStates
<1>2. \A t \in ToSet(epItems) \cup ToSet(epLayouts) : t.page \in Nat
  BY <1>1 DEF EpState, EpFine
<1> QED BY <1>1, <1>2 DEF EpState, EpPages

LEMMA EpSetCurrentPageInv ==
  ASSUME EpInv, NEW page \in EpPages, EpSetCurrentPage(page), EpStaled PROVE EpInv'
<1>1. EpState(EpThings) /\ page \in Nat
  BY EpPagesAre
<1>2. EpUse(0, 0)
  BY DEF EpSetCurrentPage
<1>3. PICK view, old, none : view = epView' /\ old = epView /\ none = <<>>
  OBVIOUS
<1>4. view = [old EXCEPT !.page = page, !.ids = none] /\ none \in Seq(Nat) /\ old \in EpViews
  BY <1>1, <1>3 DEF EpSetCurrentPage, EpShows, EpState, EpViews
<1>5. view \in EpViews
  BY ONLY <1>1, <1>4 DEF EpViews
<1>6. view.print = old.print /\ view.ids = none
  BY ONLY <1>4 DEF EpViews
<1>7. DOMAIN view.ids = {}
  BY <1>3, <1>6
<1> QED BY <1>2, <1>3, <1>5, <1>6, <1>7, EpViewHolds DEF EpSetCurrentPage

LEMMA EpSelectInv ==
  ASSUME EpInv, NEW item \in ToSet(epItems), NEW multi \in BOOLEAN, NEW canvas \in BOOLEAN,
         EpSelect(item, multi, canvas), EpStaled
  PROVE  EpInv'
<1>1. EpState(EpThings) /\ item \in EpElements /\ item.page \in Nat /\ item.id \in Nat
  <2>1. EpState(EpThings) /\ item \in EpElements
    BY EpStates DEF EpState
  <2> QED BY <2>1 DEF EpElements
<1>2. EpUse(0, 0)
  BY DEF EpSelect
<1>3. PICK ids : ids = IF canvas THEN <<>> ELSE epView.ids
  OBVIOUS
<1>4. ids \in Seq(Nat) /\ \A i \in DOMAIN ids : \E t \in ToSet(epItems) : t.id = ids[i] /\ t.page = item.page
  <2>1. CASE canvas
    <3>1. ids = <<>> /\ DOMAIN <<>> = {}
      BY <1>3, <2>1
    <3> QED BY <3>1
  <2>2. CASE ~canvas
    <3>1. ids = epView.ids /\ item.page = epView.page
      BY <1>3, <2>2 DEF EpSelect
    <3> QED BY <1>1, <3>1 DEF EpInv, EpSelectionShown, EpState
  <2> QED BY <2>1, <2>2
<1>5. PICK now : now = (IF ~multi THEN <<item.id>>
                        ELSE IF Contains(ids, item.id) THEN EpKept(ids, {i \in DOMAIN ids : ids[i] # item.id})
                        ELSE Append(ids, item.id))
  OBVIOUS
<1>6. now \in Seq(Nat) /\ \A e \in ToSet(now) : e = item.id \/ \E i \in DOMAIN ids : e = ids[i]
  <2>1. CASE ~multi
    <3>1. now = <<item.id>> /\ ToSet(<<item.id>>) = {item.id}
      BY <1>5, <2>1 DEF ToSet
    <3>2. <<item.id>> \in Seq(Nat)
      BY <1>1
    <3> QED BY <3>1, <3>2
  <2>2. CASE multi /\ Contains(ids, item.id)
    <3>1. now = EpKept(ids, {i \in DOMAIN ids : ids[i] # item.id})
      BY <1>5, <2>2
    <3>2. now \in Seq(Nat)
      BY <1>4, <3>1, EpKeeps
    <3>3. ASSUME NEW e \in ToSet(now) PROVE \E i \in DOMAIN ids : e = ids[i]
      <4>1. PICK P : P = {i \in DOMAIN ids : ids[i] # item.id}
        OBVIOUS
      <4>2. e \in ToSet(EpKept(ids, P))
        BY <3>1, <3>3, <4>1
      <4> QED BY <1>4, <4>2, EpKeptWas
    <3> QED BY <3>2, <3>3
  <2>3. CASE multi /\ ~Contains(ids, item.id)
    <3>1. now = Append(ids, item.id)
      BY <1>5, <2>3
    <3>2. now \in Seq(Nat) /\ ToSet(now) = ToSet(ids) \cup {item.id}
      BY <1>1, <1>4, <3>1, EpSets
    <3> QED BY <3>2 DEF ToSet
  <2> QED BY <2>1, <2>2, <2>3
<1>7. PICK view, old : view = epView' /\ old = epView
  OBVIOUS
<1>8. view = [old EXCEPT !.page = item.page, !.ids = now] /\ old \in EpViews
  BY <1>1, <1>3, <1>5, <1>7 DEF EpSelect, EpState, EpViews
<1>9. view \in EpViews
  BY ONLY <1>1, <1>6, <1>8 DEF EpViews
<1>10. view.print = old.print /\ view.ids = now /\ view.page = item.page
  BY ONLY <1>8 DEF EpViews
<1>11. ASSUME NEW i \in DOMAIN now PROVE \E t \in ToSet(epItems) : t.id = now[i] /\ t.page = item.page
  <2>1. now[i] \in ToSet(now)
    BY DEF ToSet
  <2> QED BY <1>4, <1>6, <2>1
<1>12. \A i \in DOMAIN view.ids : \E t \in ToSet(epItems) : t.id = view.ids[i] /\ t.page = view.page
  BY <1>10, <1>11
<1>13. epView' = view /\ view.print = epView.print /\ UNCHANGED <<epItems, epLayouts, epBefore>>
  BY <1>7, <1>10 DEF EpSelect
<1> QED BY <1>2, <1>9, <1>12, <1>13, EpViewHolds

\* A background on a page of its own.
LEMMA EpOneMore ==
  ASSUME NEW layouts \in Seq(EpSpots), EpOnePerPage(layouts), NEW spot \in EpSpots,
         \A t \in ToSet(layouts) : t.page # spot.page
  PROVE  EpOnePerPage(Append(layouts, spot))
<1>1. PICK r : r = Append(layouts, spot)
  OBVIOUS
<1>2. /\ DOMAIN r = 1..Len(layouts) + 1 /\ DOMAIN layouts = 1..Len(layouts) /\ Len(layouts) \in Nat
      /\ r[Len(layouts) + 1] = spot /\ \A i \in 1..Len(layouts) : r[i] = layouts[i]
  BY <1>1
<1>3. \A i \in 1..Len(layouts) : layouts[i].page # spot.page
  BY <1>2 DEF ToSet
<1>4. \A i \in 1..Len(layouts) + 1 : i \in 1..Len(layouts) \/ i = Len(layouts) + 1
  BY <1>2
<1>5. EpOnePerPage(r)
  BY <1>2, <1>3, <1>4 DEF EpOnePerPage
<1> QED BY <1>1, <1>5

\* What is kept of the backgrounds keeps to one a page.
LEMMA EpOneLess ==
  ASSUME NEW layouts, EpOnePerPage(layouts), NEW r, NEW P, NEW f, EpIsKept(r, layouts, P, f)
  PROVE  EpOnePerPage(r)
BY DEF EpOnePerPage, EpIsKept

\* The same selection, after an edit that takes nothing away.
LEMMA EpStillShown ==
  ASSUME EpInv, NEW items, ToSet(epItems) \subseteq ToSet(items)
  PROVE  \A i \in DOMAIN epView.ids : \E t \in ToSet(items) : t.id = epView.ids[i] /\ t.page = epView.page
BY DEF EpInv, EpSelectionShown

LEMMA EpAddPageInv == ASSUME EpInv, EpAddPage, EpStaled PROVE EpInv'
<1>1. EpState(EpThings)
  BY EpStates
<1>2. PICK left : left = epLeft' /\ EpUsed(left, 0, 1)
  <2>1. EpUse(0, 1)
    BY DEF EpAddPage
  <2> QED BY <2>1, EpUses
<1>20. left \in EpLefts /\ left.sheets = epLeft.sheets + 1 /\ left.sheets \in Nat /\ epLeft.sheets <= left.sheets
       /\ left.ids = epLeft.ids + 0 /\ epLeft.ids <= left.ids /\ left.ids \in Nat
  BY <1>2 DEF EpUsed
<1>21. EpTitled(ToSet(epItems), left.ids)
  BY <1>2, EpStillTitled
<1>3. PICK spot : spot = [page |-> EpLast + 1, sheet |-> epLeft.sheets]
  OBVIOUS
<1>4. spot \in EpSpots /\ EpFits(EpThings, spot) /\ spot.sheet < left.sheets /\ spot.page = EpLast + 1
      /\ EpLast + 1 \in Nat /\ \A t \in EpThings : t.page # spot.page
  <2>1. spot \in EpSpots /\ EpFits(EpThings, spot) /\ spot.sheet = epLeft.sheets /\ spot.page = EpLast + 1
    BY <1>3, EpNewPage
  <2>2. EpLast \in Nat /\ \A t \in EpThings : t.page <= EpLast
    BY EpLasts
  <2>3. \A t \in EpThings : t.page \in Nat
    BY <1>1 DEF EpState, EpFine
  <2> QED BY <1>1, <1>2, <1>20, <2>1, <2>2, <2>3 DEF EpState
<1>5. PICK layouts : layouts = Append(epLayouts, spot)
  OBVIOUS
<1>6. layouts \in Seq(EpSpots) /\ ToSet(layouts) = ToSet(epLayouts) \cup {spot} /\ EpOnePerPage(layouts)
  BY <1>1, <1>4, <1>5, EpSets, EpOneMore DEF EpState
<1>7. PICK view, old, none : view = epView' /\ old = epView /\ none = <<>>
  OBVIOUS
<1>8. view = [old EXCEPT !.page = EpLast + 1, !.ids = none] /\ none \in Seq(Nat) /\ old \in EpViews
  BY <1>1, <1>7 DEF EpAddPage, EpShows, EpState, EpViews
<1>9. view \in EpViews
  BY ONLY <1>4, <1>8 DEF EpViews
<1>10. view.print = old.print /\ view.ids = none
  BY ONLY <1>8 DEF EpViews
<1>11. EpFine(EpAll(epItems, layouts, view.print), left.sheets)
  <2>1. \A t \in ToSet(epItems) \cup ToSet(layouts) : EpLike(t, spot) \/ \E u \in EpThings : EpLike(t, u)
    BY <1>1, <1>6 DEF EpLike, EpState
  <2> QED BY <1>2, <1>20, <1>4, <1>7, <1>10, <2>1, EpDrawnOn
<1>12. EpLeavesMade(epItems, layouts, view, left)
  <2>1. DOMAIN view.ids = {}
    BY <1>7, <1>10
  <2> QED BY <1>1, <1>20, <1>21, <1>6, <1>9, <1>11, <2>1 DEF EpLeavesMade, EpState
<1>13. epItems' = epItems /\ epLayouts' = layouts /\ EpRecord
  BY <1>3, <1>5 DEF EpAddPage
<1> QED BY <1>2, <1>20, <1>7, <1>12, <1>13, EpStepHolds DEF EpStaled

\* The copies of a page.
EpAreCopies(c, to, sheet, first, n) ==
  /\ c \in Seq(EpElements) /\ \A t \in ToSet(c) : t.page = to /\ t.sheet = sheet /\ EpIsPlaced(t)
  /\ \A t \in ToSet(c) : first <= t.id /\ t.id < first + n

LEMMA EpCopies ==
  ASSUME EpInv, NEW page, NEW to \in Nat, NEW sheet \in Nat, NEW first \in Nat
  PROVE  /\ EpAreCopies(EpCopyOf(page, to, sheet, first), to, sheet, first, Len(EpOn(epItems, page)))
         /\ Len(EpOn(epItems, page)) \in Nat
<1>1. EpState(EpThings)
  BY EpStates
<1>2. PICK here, P : here = EpOn(epItems, page) /\ P = {i \in DOMAIN epItems : epItems[i].page = page}
                     /\ here = EpKept(epItems, P)
  BY DEF EpOn
<1>3. here \in Seq(EpElements)
  BY <1>1, <1>2, EpKeeps DEF EpState
<1>4. PICK c : c = EpCopyOf(page, to, sheet, first)
  OBVIOUS
<1>5. c = [i \in DOMAIN here |-> [here[i] EXCEPT !.id = first + i - 1, !.page = to, !.sheet = sheet]]
  BY <1>2, <1>4 DEF EpCopyOf
<1>6. ASSUME NEW i \in DOMAIN here
      PROVE  /\ c[i] \in EpElements /\ c[i].page = to /\ c[i].sheet = sheet /\ EpIsPlaced(c[i])
             /\ first <= c[i].id /\ c[i].id < first + Len(here)
  <2>1. PICK t \in EpElements, id \in Nat : t = here[i] /\ id = first + i - 1 /\ EpIsPlaced(t)
                                            /\ first <= id /\ id < first + Len(here)
    <3>5. i \in 1..Len(here) /\ Len(here) \in Nat
      BY <1>3
    <3>6. first <= first + i - 1 /\ first + i - 1 < first + Len(here)
      BY <3>5
    <3>1. here[i] \in ToSet(here) /\ here[i] \in EpElements /\ first + i - 1 \in Nat
      BY <1>3 DEF ToSet
    <3>2. here[i] \in ToSet(EpKept(epItems, P))
      BY <1>2, <3>1
    <3>3. PICK k \in DOMAIN epItems : here[i] = epItems[k]
      BY <1>1, <3>2, EpKeptWas DEF EpState
    <3>4. EpIsPlaced(here[i])
      BY <1>1, <3>3 DEF EpState, ToSet
    <3> QED BY <3>1, <3>4, <3>6
  <2>2. PICK d : d = c[i]
    OBVIOUS
  <2>3. d = [t EXCEPT !.id = id, !.page = to, !.sheet = sheet]
    BY <1>5, <2>1, <2>2
  <2>4. d \in EpElements
    BY ONLY <2>1, <2>3, to \in Nat, sheet \in Nat DEF EpElements
  <2>5. d.page = to /\ d.sheet = sheet /\ d.id = id /\ d.x = t.x /\ d.want = t.want /\ d.kids = t.kids
    BY ONLY <2>1, <2>3 DEF EpElements
  <2>6. EpIsPlaced(d)
    BY <2>1, <2>5 DEF EpIsPlaced
  <2> QED BY <2>1, <2>2, <2>4, <2>5, <2>6
<1>7. c \in Seq(EpElements) /\ DOMAIN c = DOMAIN here /\ Len(here) \in Nat
  <2>1. DOMAIN here = 1..Len(here) /\ Len(here) \in Nat
    BY <1>3
  <2>2. c \in [1..Len(here) -> EpElements]
    BY <1>5, <1>6, <2>1
  <2> QED BY <2>1, <2>2
<1>8. EpAreCopies(c, to, sheet, first, Len(here))
  BY <1>6, <1>7 DEF EpAreCopies, ToSet
<1> QED BY <1>2, <1>4, <1>7, <1>8

LEMMA EpDuplicatePageInv ==
  ASSUME EpInv, NEW page \in EpPages, EpDuplicatePage(page), EpStaled PROVE EpInv'
<1>1. EpState(EpThings) /\ page \in Nat
  BY EpPagesAre
<1>2. PICK spot : spot = [page |-> EpLast + 1, sheet |-> epLeft.sheets]
  OBVIOUS
<1>3. spot \in EpSpots /\ EpFits(EpThings, spot) /\ spot.sheet = epLeft.sheets /\ spot.page = EpLast + 1
      /\ EpLast + 1 \in Nat /\ \A t \in EpThings : t.page # spot.page
  <2>1. spot \in EpSpots /\ EpFits(EpThings, spot) /\ spot.sheet = epLeft.sheets /\ spot.page = EpLast + 1
    BY <1>2, EpNewPage
  <2>2. EpLast \in Nat /\ \A t \in EpThings : t.page <= EpLast
    BY EpLasts
  <2>3. \A t \in EpThings : t.page \in Nat
    BY <1>1 DEF EpState, EpFine
  <2> QED BY <2>1, <2>2, <2>3
<1>4. PICK c : c = EpCopyOf(page, EpLast + 1, epLeft.sheets, epLeft.ids)
  OBVIOUS
<1>17. PICK n : n = Len(EpOn(epItems, page))
  OBVIOUS
<1>5. EpAreCopies(c, EpLast + 1, epLeft.sheets, epLeft.ids, n) /\ n \in Nat
  <2>1. epLeft.ids \in Nat /\ epLeft.sheets \in Nat
    BY <1>1 DEF EpState
  <2> QED BY <1>3, <1>4, <1>17, <2>1, EpCopies
<1>6. PICK left : left = epLeft' /\ EpUsed(left, n, 1)
  <2>1. EpUse(n, 1)
    BY <1>17 DEF EpDuplicatePage
  <2> QED BY <1>5, <2>1, EpUses
<1>18. left \in EpLefts /\ left.sheets = epLeft.sheets + 1 /\ left.sheets \in Nat /\ epLeft.sheets <= left.sheets
       /\ epLeft.sheets < left.sheets /\ left.ids = epLeft.ids + n /\ epLeft.ids <= left.ids /\ left.ids \in Nat
       /\ epLeft.ids \in Nat
  BY <1>1, <1>6 DEF EpUsed, EpState
<1>7. PICK layouts, items : layouts = Append(epLayouts, spot) /\ items = epItems \o c
  OBVIOUS
<1>8. layouts \in Seq(EpSpots) /\ ToSet(layouts) = ToSet(epLayouts) \cup {spot} /\ EpOnePerPage(layouts)
  BY <1>1, <1>3, <1>7, EpSets, EpOneMore DEF EpState
<1>9. items \in Seq(EpElements) /\ ToSet(items) = ToSet(epItems) \cup ToSet(c)
  BY <1>1, <1>5, <1>7, EpSets DEF EpState, EpAreCopies
<1>10. PICK view, old, none : view = epView' /\ old = epView /\ none = <<>>
  OBVIOUS
<1>11. view = [old EXCEPT !.page = EpLast + 1, !.ids = none] /\ none \in Seq(Nat) /\ old \in EpViews
  BY <1>1, <1>10 DEF EpDuplicatePage, EpShows, EpState, EpViews
<1>12. view \in EpViews
  BY ONLY <1>3, <1>11 DEF EpViews
<1>13. view.print = old.print /\ view.ids = none
  BY ONLY <1>11 DEF EpViews
<1>14. EpFine(EpAll(items, layouts, view.print), left.sheets)
  <2>1. \A t \in ToSet(c) : EpLike(t, spot)
    BY <1>3, <1>5 DEF EpAreCopies, EpLike
  <2>2. \A t \in EpThings : EpLike(t, t)
    BY DEF EpLike
  <2>3. \A t \in ToSet(items) \cup ToSet(layouts) : EpLike(t, spot) \/ \E u \in EpThings : EpLike(t, u)
    <3>1. EpLike(spot, spot)
      BY DEF EpLike
    <3> QED BY <1>1, <1>8, <1>9, <2>1, <2>2, <3>1 DEF EpState
  <2> QED BY <1>3, <1>6, <1>18, <1>10, <1>13, <2>3, EpDrawnOn
<1>15. EpLeavesMade(items, layouts, view, left)
  <2>1. DOMAIN view.ids = {}
    BY <1>10, <1>13
  <2>2. \A t \in ToSet(items) : EpIsPlaced(t)
    BY <1>1, <1>5, <1>9 DEF EpState, EpAreCopies
  <2>3. EpTitled(ToSet(items), left.ids)
    <3>1. EpTitled(ToSet(epItems), epLeft.ids) /\ ToSet(epItems) \subseteq EpElements
      BY <1>1 DEF EpState
    <3>2. ToSet(c) \subseteq EpElements
      BY <1>5, EpSets DEF EpAreCopies
    <3>3. EpOnPage(ToSet(c), EpLast + 1, epLeft.ids, left.ids)
      BY <1>5, <1>18 DEF EpAreCopies, EpOnPage
    <3> QED BY <1>9, <1>18, <3>1, <3>2, <3>3, EpTitledNew
  <2> QED BY <1>8, <1>9, <1>12, <1>14, <2>1, <2>2, <2>3 DEF EpLeavesMade
<1>16. epItems' = items /\ epLayouts' = layouts /\ EpRecord
  BY <1>2, <1>4, <1>7 DEF EpDuplicatePage
<1> QED BY <1>6, <1>18, <1>10, <1>15, <1>16, EpStepHolds DEF EpStaled

LEMMA EpMultiplyInv == ASSUME EpInv, EpMultiply, EpStaled PROVE EpInv'
<1>1. EpState(EpThings) /\ epView.page \in Nat /\ epLeft.ids \in Nat /\ epLeft.sheets \in Nat
      /\ (\A t \in EpThings : t.page \in Nat /\ t.sheet \in Nat /\ t.sheet < epLeft.sheets)
  BY EpStates DEF EpState, EpFine, EpBelow
<1>2. PICK a, b : a = [page |-> EpLast + 1, sheet |-> epLeft.sheets]
                  /\ b = [page |-> EpLast + 2, sheet |-> epLeft.sheets + 1]
  OBVIOUS
<1>3. EpLast \in Nat /\ \A t \in EpThings : t.page <= EpLast
  BY EpLasts
<1>4. /\ a \in EpSpots /\ EpFits(EpThings, a) /\ a.sheet = epLeft.sheets /\ a.page = EpLast + 1
      /\ b \in EpSpots /\ b.sheet = epLeft.sheets + 1 /\ b.page = EpLast + 2
  <2>1. a \in EpSpots /\ EpFits(EpThings, a) /\ a.sheet = epLeft.sheets /\ a.page = EpLast + 1
    BY <1>2, EpNewPage
  <2>2. b \in EpSpots /\ b.sheet = epLeft.sheets + 1 /\ b.page = EpLast + 2
    BY <1>1, <1>2, <1>3 DEF EpSpots
  <2> QED BY <2>1, <2>2
<1>17. PICK n \in Nat : n = Len(EpOn(epItems, epView.page))
  BY <1>1, EpCopies
<1>5. PICK c, d : /\ c = EpCopyOf(epView.page, EpLast + 1, epLeft.sheets, epLeft.ids)
                 /\ d = EpCopyOf(epView.page, EpLast + 2, epLeft.sheets + 1, epLeft.ids + n)
  OBVIOUS
<1>6. EpAreCopies(c, EpLast + 1, epLeft.sheets, epLeft.ids, n)
      /\ EpAreCopies(d, EpLast + 2, epLeft.sheets + 1, epLeft.ids + n, n)
  <2>4. EpLast + 2 \in Nat /\ epLeft.sheets + 1 \in Nat /\ epLeft.ids + n \in Nat
    BY <1>1, <1>3, <1>17
  <2>1. PICK to \in Nat, sheet \in Nat, first \in Nat : to = EpLast + 2 /\ sheet = epLeft.sheets + 1 /\ first = epLeft.ids + n
    BY ONLY <2>4
  <2>2. EpAreCopies(d, to, sheet, first, n)
    BY <1>5, <1>17, <2>1, EpCopies
  <2>3. EpLast + 1 \in Nat
    BY <1>3
  <2> QED BY <1>1, <1>5, <1>17, <2>1, <2>2, <2>3, EpCopies
<1>7. PICK left : left = epLeft' /\ EpUsed(left, 2 * n, 2)
  <2>1. EpUse(2 * n, 2) /\ 2 * n \in Nat
    BY <1>17 DEF EpMultiply
  <2> QED BY <2>1, EpUses
<1>18. left \in EpLefts /\ left.sheets = epLeft.sheets + 2 /\ left.sheets \in Nat /\ epLeft.sheets <= left.sheets
       /\ left.ids = epLeft.ids + 2 * n /\ epLeft.ids <= left.ids /\ left.ids \in Nat
  BY <1>7 DEF EpUsed
<1>8. PICK layouts, more, items : layouts = Append(more, b) /\ more = Append(epLayouts, a) /\ items = epItems \o c \o d
  OBVIOUS
<1>9. more \in Seq(EpSpots) /\ ToSet(more) = ToSet(epLayouts) \cup {a} /\ EpOnePerPage(more)
  <2>1. \A t \in ToSet(epLayouts) : t.page # a.page
    BY <1>1, <1>3, <1>4 DEF EpState
  <2> QED BY <1>1, <1>4, <1>8, <2>1, EpSets, EpOneMore DEF EpState
<1>10. layouts \in Seq(EpSpots) /\ ToSet(layouts) = ToSet(epLayouts) \cup {a, b} /\ EpOnePerPage(layouts)
  <2>1. \A t \in ToSet(more) : t.page # b.page
    BY <1>1, <1>3, <1>4, <1>9 DEF EpState
  <2>2. layouts \in Seq(EpSpots) /\ ToSet(layouts) = ToSet(more) \cup {b}
    <3>1. layouts = Append(more, b) /\ more \in Seq(EpSpots) /\ b \in EpSpots
      BY <1>4, <1>8, <1>9
    <3>2. EpIsRow(Append(more, b), EpSpots, ToSet(more) \cup {b})
      BY ONLY <3>1, EpAppended
    <3> QED BY <3>1, <3>2 DEF EpIsRow
  <2>3. EpOnePerPage(Append(more, b))
    BY <1>4, <1>9, <2>1, EpOneMore
  <2>4. ToSet(epLayouts) \cup {a, b} = ToSet(more) \cup {b}
    BY <1>9
  <2> QED BY <1>8, <2>2, <2>3, <2>4
<1>11. items \in Seq(EpElements) /\ ToSet(items) = ToSet(epItems) \cup ToSet(c) \cup ToSet(d)
  <2>1. epItems \in Seq(EpElements) /\ c \in Seq(EpElements) /\ d \in Seq(EpElements)
    BY <1>1, <1>6 DEF EpState, EpAreCopies
  <2>2. PICK both : both = epItems \o c
    OBVIOUS
  <2>3. both \in Seq(EpElements) /\ ToSet(both) = ToSet(epItems) \cup ToSet(c)
    <3>1. EpIsRow(epItems \o c, EpElements, ToSet(epItems) \cup ToSet(c))
      BY ONLY <2>1, EpInARow
    <3> QED BY <2>2, <3>1 DEF EpIsRow
  <2>4. items = both \o d
    BY <1>8, <2>2
  <2>5. items \in Seq(EpElements) /\ ToSet(items) = ToSet(both) \cup ToSet(d)
    <3>1. EpIsRow(both \o d, EpElements, ToSet(both) \cup ToSet(d))
      BY ONLY <2>1, <2>3, EpInARow
    <3> QED BY <2>4, <3>1 DEF EpIsRow
  <2> QED BY <2>3, <2>5
<1>12. PICK mid : mid = EpThings \cup {a}
  OBVIOUS
<1>13. EpFine(mid, epLeft.sheets + 1)
  <2>1. \A t \in mid : EpLike(t, a) \/ \E u \in EpThings : EpLike(t, u)
    BY <1>12 DEF EpLike
  <2>2. PICK m \in Nat : m = epLeft.sheets + 1 /\ epLeft.sheets <= m /\ a.sheet < m
    BY <1>1, <1>4
  <2>3. EpFine(mid, m)
    BY <1>1, <1>4, <2>1, <2>2, EpJoins DEF EpState
  <2> QED BY <2>2, <2>3
<1>14. EpFine(EpAll(items, layouts, epView.print), left.sheets)
  <2>1. EpFits(mid, b)
    <3>1. ASSUME NEW t \in mid PROVE t.page # b.page /\ t.sheet # b.sheet
      BY <1>1, <1>3, <1>4, <1>12
    <3> QED BY <3>1 DEF EpFits
  <2>2. PICK new : new = EpAll(items, layouts, epView.print)
    OBVIOUS
  <2>3. \A t \in new : EpLike(t, b) \/ \E u \in mid : EpLike(t, u)
    <3>1. \A t \in ToSet(c) : EpLike(t, a)
      BY <1>4, <1>6 DEF EpAreCopies, EpLike
    <3>2. \A t \in ToSet(d) : EpLike(t, b)
      BY <1>4, <1>6 DEF EpAreCopies, EpLike
    <3>3. \A t \in mid \cup {b} : EpLike(t, t)
      BY DEF EpLike
    <3>4. new \subseteq EpThings \cup ToSet(c) \cup ToSet(d) \cup {a, b}
      BY <1>10, <1>11, <2>2 DEF EpAll, EpThings
    <3> QED BY <1>12, <3>1, <3>2, <3>3, <3>4
  <2>4. PICK m \in Nat : m = epLeft.sheets + 1 /\ m <= left.sheets /\ b.sheet < left.sheets
    BY <1>1, <1>4, <1>7, <1>18
  <2>5. EpFine(mid, m)
    BY <1>13, <2>4
  <2>6. EpFine(new, left.sheets)
    BY <1>4, <1>7, <1>18, <2>1, <2>3, <2>4, <2>5, EpJoins
  <2> QED BY <2>2, <2>6
<1>15. EpLeavesMade(items, layouts, epView, left)
  <2>1. \A i \in DOMAIN epView.ids : \E t \in ToSet(items) : t.id = epView.ids[i] /\ t.page = epView.page
    BY <1>11, EpStillShown
  <2>2. \A t \in ToSet(items) : EpIsPlaced(t)
    BY <1>1, <1>6, <1>11 DEF EpState, EpAreCopies
  <2>3. EpTitled(ToSet(items), left.ids)
    <3>1. EpTitled(ToSet(epItems), epLeft.ids) /\ ToSet(epItems) \subseteq EpElements
      BY <1>1 DEF EpState
    <3>2. ToSet(c) \subseteq EpElements /\ ToSet(d) \subseteq EpElements
      BY <1>6, EpSets DEF EpAreCopies
    <3>8. PICK first \in Nat : first = epLeft.ids
      BY <1>1
    <3>9. left.ids = first + 2 * n /\ n \in Nat
      BY <1>17, <1>18, <3>8
    <3>10. first + n \in Nat /\ first <= first + n /\ first + n <= left.ids /\ first + n + n = left.ids
      BY ONLY first \in Nat, <3>9
    <3>3. PICK mine \in Nat : mine = epLeft.ids + n /\ epLeft.ids <= mine /\ mine <= left.ids /\ mine + n = left.ids
      BY <3>8, <3>10
    <3>4. EpOnPage(ToSet(c), EpLast + 1, epLeft.ids, mine)
      BY <1>6, <3>3 DEF EpAreCopies, EpOnPage
    <3>5. EpOnPage(ToSet(d), EpLast + 2, mine, left.ids)
      BY <1>6, <3>3 DEF EpAreCopies, EpOnPage
    <3>6. EpTitled(ToSet(epItems) \cup ToSet(c), mine)
      BY <1>1, <3>1, <3>2, <3>3, <3>4, EpTitledNew
    <3>7. ToSet(epItems) \cup ToSet(c) \subseteq EpElements
      BY <3>1, <3>2
    <3> QED BY <1>11, <1>18, <3>2, <3>3, <3>5, <3>6, <3>7, EpTitledNew
  <2> QED BY <1>1, <1>10, <1>11, <1>14, <2>1, <2>2, <2>3 DEF EpLeavesMade, EpState, EpViews
<1>16. epItems' = items /\ epLayouts' = layouts /\ EpRecord /\ epView' = epView
  <2>1. epLayouts \o <<a, b>> = layouts
    BY <1>1, <1>4, <1>8 DEF EpState
  <2> QED BY <1>2, <1>5, <1>8, <1>17, <2>1 DEF EpMultiply
<1> QED BY <1>7, <1>18, <1>15, <1>16, EpStepHolds DEF EpStaled

\* Backgrounds without the one of a page.
LEMMA EpOffs ==
  ASSUME NEW layouts \in Seq(EpSpots), EpOnePerPage(layouts), NEW page, NEW r, r = EpOff(layouts, page)
  PROVE  /\ r \in Seq(EpSpots) /\ EpOnePerPage(r)
         /\ \A t \in ToSet(r) : t \in ToSet(layouts) /\ t.page # page
<1>1. PICK P : P = {i \in DOMAIN layouts : layouts[i].page # page} /\ r = EpKept(layouts, P)
  BY DEF EpOff
<1>2. r \in Seq(EpSpots) /\ \E f : EpIsKept(r, layouts, P, f)
  BY <1>1, EpKeeps
<1>3. EpOnePerPage(r)
  BY <1>2, EpOneLess
<1>4. ASSUME NEW t \in ToSet(r) PROVE t \in ToSet(layouts) /\ t.page # page
  <2>1. t \in ToSet(EpKept(layouts, P))
    BY <1>1, <1>4
  <2>2. PICK i \in DOMAIN layouts : i \in P /\ t = layouts[i]
    BY <2>1, EpKeptWas
  <2> QED BY <1>1, <2>2 DEF ToSet
<1> QED BY <1>2, <1>3, <1>4

LEMMA EpSetLayoutInv == ASSUME EpInv, NEW template \in BOOLEAN, EpSetLayout(template), EpStaled PROVE EpInv'
<1>1. EpState(EpThings) /\ epView.page \in Nat /\ epLeft.sheets \in Nat
  BY EpStates DEF EpState
<1>2. PICK left : left = epLeft' /\ EpUsed(left, 0, 1)
  <2>1. EpUse(0, 1)
    BY DEF EpSetLayout
  <2> QED BY <2>1, EpUses
<1>20. left \in EpLefts /\ left.sheets = epLeft.sheets + 1 /\ left.sheets \in Nat /\ epLeft.sheets <= left.sheets
       /\ left.ids = epLeft.ids + 0 /\ epLeft.ids <= left.ids /\ left.ids \in Nat
  BY <1>2 DEF EpUsed
<1>21. EpTitled(ToSet(epItems), left.ids)
  BY <1>2, EpStillTitled
<1>3. PICK spot, page : spot = [page |-> page, sheet |-> EpSheet(page)] /\ page = epView.page
  OBVIOUS
<1>4. spot \in EpSpots /\ EpFits(EpThings, spot) /\ spot.sheet < left.sheets /\ spot.page = page
  BY <1>1, <1>2, <1>20, <1>3, EpSpotHere
<1>5. PICK layouts, rest : layouts = epLayouts' /\ rest = EpOff(epLayouts, page)
  OBVIOUS
<1>6. layouts = epLayouts \/ layouts = Append(rest, spot)
  BY <1>3, <1>5 DEF EpSetLayout
<1>7. /\ rest \in Seq(EpSpots) /\ EpOnePerPage(rest)
      /\ \A t \in ToSet(rest) : t \in ToSet(epLayouts) /\ t.page # page
  BY <1>1, <1>5, EpOffs DEF EpState
<1>8. layouts \in Seq(EpSpots) /\ EpOnePerPage(layouts) /\ ToSet(layouts) \subseteq ToSet(epLayouts) \cup {spot}
  <2>1. CASE layouts = epLayouts
    BY <1>1, <2>1 DEF EpState
  <2>2. CASE layouts = Append(rest, spot)
    <3>1. EpIsRow(Append(rest, spot), EpSpots, ToSet(rest) \cup {spot})
      BY <1>4, <1>7, EpAppended
    <3>2. EpOnePerPage(Append(rest, spot))
      BY <1>4, <1>7, EpOneMore
    <3> QED BY <1>7, <2>2, <3>1, <3>2 DEF EpIsRow
  <2> QED BY <1>6, <2>1, <2>2
<1>9. EpFine(EpAll(epItems, layouts, epView.print), left.sheets)
  <2>1. \A t \in EpThings \cup {spot} : EpLike(t, t)
    BY DEF EpLike
  <2>2. \A t \in ToSet(epItems) \cup ToSet(layouts) : EpLike(t, spot) \/ \E u \in EpThings : EpLike(t, u)
    BY <1>1, <1>8, <2>1 DEF EpState
  <2> QED BY <1>2, <1>20, <1>4, <2>2, EpDrawnOn
<1>10. EpLeavesMade(epItems, layouts, epView, left)
  <2>1. \A i \in DOMAIN epView.ids : \E t \in ToSet(epItems) : t.id = epView.ids[i] /\ t.page = epView.page
    BY EpStillShown
  <2> QED BY <1>1, <1>20, <1>21, <1>8, <1>9, <2>1 DEF EpLeavesMade, EpState, EpViews
<1>11. epItems' = epItems /\ epView' = epView /\ EpRecord
  BY DEF EpSetLayout
<1> QED BY <1>2, <1>20, <1>5, <1>10, <1>11, EpStepHolds DEF EpStaled

LEMMA EpTogglePrintInv ==
  ASSUME EpInv, NEW page \in EpPages, EpTogglePrint(page), EpStaled PROVE EpInv'
<1>1. EpState(EpThings) /\ page \in Nat /\ epLeft.sheets \in Nat
  BY EpPagesAre DEF EpState
<1>2. PICK left : left = epLeft' /\ EpUsed(left, 0, 1)
  <2>1. EpUse(0, 1)
    BY DEF EpTogglePrint
  <2> QED BY <2>1, EpUses
<1>20. left \in EpLefts /\ left.sheets = epLeft.sheets + 1 /\ left.sheets \in Nat /\ epLeft.sheets <= left.sheets
       /\ left.ids = epLeft.ids + 0 /\ epLeft.ids <= left.ids /\ left.ids \in Nat
  BY <1>2 DEF EpUsed
<1>21. EpTitled(ToSet(epItems), left.ids)
  BY <1>2, EpStillTitled
<1>3. PICK spot : spot = [page |-> page, sheet |-> EpSheet(page)]
  OBVIOUS
<1>4. spot \in EpSpots /\ EpFits(EpThings, spot) /\ spot.sheet < left.sheets /\ spot.page = page
  BY <1>1, <1>2, <1>20, <1>3, EpSpotHere
<1>5. PICK old, view, print : old = epView /\ view = epView' /\ print = (
          IF \E t \in ToSet(epView.print) : t.page = page THEN EpOff(epView.print, page) ELSE Append(epView.print, spot))
  OBVIOUS
<1>6. view = [old EXCEPT !.print = print] /\ old \in EpViews
  BY <1>1, <1>3, <1>5 DEF EpTogglePrint, EpState, EpViews
<1>7. print \in Seq(EpSpots) /\ ToSet(print) \subseteq ToSet(epView.print) \cup {spot}
  <2>1. epView.print \in Seq(EpSpots)
    BY <1>1 DEF EpState
  <2>2. CASE print = EpOff(epView.print, page)
    <3>1. PICK P : P = {i \in DOMAIN epView.print : epView.print[i].page # page} /\ print = EpKept(epView.print, P)
      BY <2>2 DEF EpOff
    <3>2. print \in Seq(EpSpots)
      BY <2>1, <3>1, EpKeeps
    <3>3. ASSUME NEW t \in ToSet(print) PROVE t \in ToSet(epView.print)
      <4>1. t \in ToSet(EpKept(epView.print, P))
        BY <3>1, <3>3
      <4>2. PICK i \in DOMAIN epView.print : t = epView.print[i]
        BY <2>1, <4>1, EpKeptWas
      <4> QED BY <4>2 DEF ToSet
    <3> QED BY <3>2, <3>3
  <2>3. CASE print = Append(epView.print, spot)
    <3>1. EpIsRow(Append(epView.print, spot), EpSpots, ToSet(epView.print) \cup {spot})
      BY <1>4, <2>1, EpAppended
    <3> QED BY <2>3, <3>1 DEF EpIsRow
  <2> QED BY <1>5, <2>2, <2>3
<1>8. view \in EpViews
  BY ONLY <1>6, <1>7 DEF EpViews
<1>9. view.print = print /\ view.ids = old.ids /\ view.page = old.page
  BY ONLY <1>6 DEF EpViews
<1>10. EpFine(EpAll(epItems, epLayouts, view.print), left.sheets)
  <2>1. PICK new : new = EpAll(epItems, epLayouts, view.print)
    OBVIOUS
  <2>2. new \subseteq EpThings \cup {spot}
    BY <1>7, <1>9, <2>1 DEF EpAll, EpThings
  <2>3. \A t \in EpThings \cup {spot} : EpLike(t, t)
    BY DEF EpLike
  <2>4. \A t \in new : EpLike(t, spot) \/ \E u \in EpThings : EpLike(t, u)
    BY <2>2, <2>3
  <2>5. EpFine(new, left.sheets)
    BY <1>1, <1>2, <1>20, <1>4, <2>4, EpJoins DEF EpState
  <2> QED BY <2>1, <2>5
<1>11. EpLeavesMade(epItems, epLayouts, view, left)
  <2>1. \A i \in DOMAIN view.ids : \E t \in ToSet(epItems) : t.id = view.ids[i] /\ t.page = view.page
    BY <1>5, <1>9 DEF EpInv, EpSelectionShown
  <2> QED BY <1>1, <1>20, <1>21, <1>8, <1>10, <2>1 DEF EpLeavesMade, EpState
<1>12. epItems' = epItems /\ epLayouts' = epLayouts /\ UNCHANGED epBefore
  BY DEF EpTogglePrint
<1> QED BY <1>2, <1>20, <1>5, <1>11, <1>12, EpStepHolds DEF EpStaled

LEMMA EpAddItemInv == ASSUME EpInv, EpAddItem, EpStaled PROVE EpInv'
<1>1. EpState(EpThings) /\ epView.page \in Nat /\ epLeft.sheets \in Nat /\ epLeft.ids \in Nat
  BY EpStates DEF EpState
<1>2. PICK left : left = epLeft' /\ EpUsed(left, 1, 1)
  <2>1. EpUse(1, 1)
    BY DEF EpAddItem
  <2> QED BY <2>1, EpUses
<1>20. left \in EpLefts /\ left.sheets = epLeft.sheets + 1 /\ left.sheets \in Nat /\ epLeft.sheets <= left.sheets
       /\ left.ids = epLeft.ids + 1 /\ epLeft.ids <= left.ids /\ left.ids \in Nat
  BY <1>2 DEF EpUsed
<1>21. EpTitled(ToSet(epItems), left.ids)
  BY <1>2, EpStillTitled
<1>3. PICK spot, page : spot = [page |-> page, sheet |-> EpSheet(page)] /\ page = epView.page
  OBVIOUS
<1>4. spot \in EpSpots /\ EpFits(EpThings, spot) /\ spot.sheet < left.sheets /\ spot.page = page
      /\ spot.sheet = EpSheet(page) /\ EpSheet(page) \in Nat
  BY <1>1, <1>2, <1>20, <1>3, EpSpotHere
<1>5. PICK item, zero, none : zero = 0 /\ none = <<>> /\
        item = [id |-> epLeft.ids, page |-> page, sheet |-> EpSheet(page), x |-> zero, want |-> zero, kids |-> none]
  OBVIOUS
<1>6. zero \in Nat /\ none \in Seq(EpLeaves)
  BY <1>5
<1>7. item \in EpElements
  BY ONLY <1>1, <1>3, <1>4, <1>5, <1>6 DEF EpElements
<1>8. item.id = epLeft.ids /\ item.page = page /\ item.sheet = EpSheet(page) /\ item.x = item.want /\ item.kids = <<>>
  BY <1>5
<1>9. EpIsPlaced(item) /\ EpLike(item, spot)
  BY <1>4, <1>8 DEF EpIsPlaced, EpLike
<1>10. PICK items : items = Append(epItems, item)
  OBVIOUS
<1>11. items \in Seq(EpElements) /\ ToSet(items) = ToSet(epItems) \cup {item}
  <2>1. EpIsRow(Append(epItems, item), EpElements, ToSet(epItems) \cup {item})
    BY <1>1, <1>7, EpAppended DEF EpState
  <2> QED BY <1>10, <2>1 DEF EpIsRow
<1>12. PICK view, old, ids : view = epView' /\ old = epView /\ ids = <<item.id>>
  OBVIOUS
<1>13. epItems' = items /\ epLayouts' = epLayouts /\ EpRecord /\ view = [old EXCEPT !.ids = ids]
  BY <1>3, <1>5, <1>10, <1>12 DEF EpAddItem, EpElement, EpSelects
<1>14. ids \in Seq(Nat) /\ old \in EpViews
  BY <1>1, <1>8, <1>12 DEF EpState, EpViews
<1>15. view \in EpViews
  BY ONLY <1>13, <1>14 DEF EpViews
<1>16. view.print = old.print /\ view.ids = ids /\ view.page = old.page
  BY ONLY <1>13, <1>14 DEF EpViews
<1>17. EpFine(EpAll(items, epLayouts, view.print), left.sheets)
  <2>1. \A t \in EpThings : EpLike(t, t)
    BY DEF EpLike
  <2>2. \A t \in ToSet(items) \cup ToSet(epLayouts) : EpLike(t, spot) \/ \E u \in EpThings : EpLike(t, u)
    BY <1>1, <1>9, <1>11, <2>1 DEF EpState
  <2> QED BY <1>2, <1>20, <1>4, <1>12, <1>16, <2>2, EpDrawnOn
<1>18. EpLeavesMade(items, epLayouts, view, left)
  <2>1. ASSUME NEW i \in DOMAIN ids PROVE item.id = ids[i] /\ item.page = view.page
    <3>1. DOMAIN <<item.id>> = 1..1 /\ i = 1
      BY <1>12
    <3> QED BY <1>3, <1>8, <1>12, <1>16, <3>1
  <2>2. \A t \in ToSet(items) : EpIsPlaced(t)
    BY <1>1, <1>9, <1>11 DEF EpState
  <2>3. EpTitled(ToSet(items), left.ids)
    <3>1. EpTitled(ToSet(epItems), epLeft.ids) /\ ToSet(epItems) \subseteq EpElements
      BY <1>1 DEF EpState
    <3>2. EpOnPage({item}, page, epLeft.ids, left.ids)
      BY <1>1, <1>8, <1>20 DEF EpOnPage
    <3> QED BY <1>1, <1>7, <1>11, <1>20, <3>1, <3>2, EpTitledNew
  <2> QED BY <1>1, <1>11, <1>15, <1>16, <1>17, <2>1, <2>2, <2>3 DEF EpLeavesMade, EpState
<1> QED BY <1>2, <1>20, <1>12, <1>13, <1>18, EpStepHolds DEF EpStaled

\* Each element of items is well placed, where an element was.
EpAreFrom(items) ==
  items \in Seq(EpElements) /\ \A t \in ToSet(items) : EpIsPlaced(t) /\ \E u \in ToSet(epItems) : EpLike(t, u)

\* Only the elements change, and what is selected.
LEMMA EpItemsHold ==
  ASSUME EpInv, NEW items, EpAreFrom(items), epItems' = items, UNCHANGED epLayouts, EpRecord,
         NEW ids \in Seq(Nat), epView' = [epView EXCEPT !.ids = ids],
         \A i \in DOMAIN ids : \E t \in ToSet(items) : t.id = ids[i] /\ t.page = epView.page,
         NEW some \in Nat, EpUse(some, 0), EpTitled(ToSet(items), epLeft.ids + some), EpStaled
  PROVE  EpInv'
<1>1. EpState(EpThings) /\ epView.page \in Nat /\ epLeft.sheets \in Nat /\ epLeft.ids \in Nat
  BY EpStates DEF EpState
<1>2. PICK left : left = epLeft' /\ EpUsed(left, some, 0)
  BY EpUses
<1>9. left \in EpLefts /\ left.sheets = epLeft.sheets /\ left.sheets \in Nat /\ epLeft.sheets <= left.sheets
      /\ left.ids = epLeft.ids + some /\ epLeft.ids <= left.ids
  BY <1>1, <1>2 DEF EpUsed
<1>3. PICK view, old : view = epView' /\ old = epView
  OBVIOUS
<1>4. view = [old EXCEPT !.ids = ids] /\ old \in EpViews
  BY <1>1, <1>3 DEF EpState, EpViews
<1>5. view \in EpViews
  BY ONLY <1>4, ids \in Seq(Nat) DEF EpViews
<1>6. view.print = old.print /\ view.ids = ids /\ view.page = old.page
  BY ONLY <1>4 DEF EpViews
<1>7. EpFine(EpAll(items, epLayouts, view.print), left.sheets)
  <2>1. \A t \in EpThings : EpLike(t, t)
    BY DEF EpLike
  <2>2. \A t \in ToSet(items) \cup ToSet(epLayouts) : \E u \in EpThings : EpLike(t, u)
    BY <1>1, <2>1 DEF EpState, EpAreFrom
  <2> QED BY <1>2, <1>9, <1>3, <1>6, <2>2, EpDrawn
<1>8. EpLeavesMade(items, epLayouts, view, left)
  BY <1>1, <1>3, <1>5, <1>6, <1>7, <1>9 DEF EpLeavesMade, EpState, EpAreFrom
<1> QED BY <1>2, <1>9, <1>3, <1>8, EpStepHolds DEF EpStaled

\* Fewer elements, or more identities given out.
LEMMA EpTitledPart ==
  ASSUME EpInv, NEW A, A \subseteq ToSet(epItems), NEW some \in Nat
  PROVE  EpTitled(A, epLeft.ids + some)
<1>1. ToSet(epItems) \subseteq EpElements /\ epLeft.ids \in Nat /\ EpTitled(ToSet(epItems), epLeft.ids)
  BY EpStates DEF EpState
<1>2. EpTitled(A, epLeft.ids)
  BY <1>1 DEF EpTitled
<1>3. PICK m \in Nat : m = epLeft.ids + some /\ epLeft.ids <= m
  BY <1>1
<1>4. EpTitled(A, m)
  BY <1>1, <1>2, <1>3, EpTitledMore
<1> QED BY <1>3, <1>4

\* What is kept of the elements.
LEMMA EpKeptFrom ==
  ASSUME EpInv, NEW P, NEW r, r = EpKept(epItems, P)
  PROVE  EpAreFrom(r) /\ Len(r) \in Nat /\ \A t \in ToSet(r) : t \in EpElements /\ \E i \in DOMAIN epItems : i \in P /\ t = epItems[i]
<1>1. EpState(EpThings)
  BY EpStates
<1>2. r \in Seq(EpElements)
  BY <1>1, EpKeeps DEF EpState
<1>3. ASSUME NEW t \in ToSet(r) PROVE \E i \in DOMAIN epItems : i \in P /\ t = epItems[i]
  <2>1. t \in ToSet(EpKept(epItems, P))
    BY <1>3
  <2> QED BY <1>1, <2>1, EpKeptWas DEF EpState
<1>4. \A t \in ToSet(r) : t \in ToSet(epItems)
  BY <1>3 DEF ToSet
<1>5. \A t \in ToSet(r) : EpLike(t, t) /\ t \in EpElements
  BY <1>1, <1>4 DEF EpLike, EpState
<1> QED BY <1>1, <1>2, <1>3, <1>4, <1>5 DEF EpAreFrom, EpState

\* An element with a new place.
EpIsReplaced(d, t, x, want, kids) ==
  d \in EpElements /\ EpLike(d, t) /\ d.id = t.id /\ d.x = x /\ d.want = want /\ d.kids = kids

LEMMA EpReplaced ==
  ASSUME NEW t \in EpElements, NEW x \in Nat, NEW want \in Nat, NEW kids \in Seq(EpLeaves),
         NEW d, d = [t EXCEPT !.x = x, !.want = want, !.kids = kids]
  PROVE  EpIsReplaced(d, t, x, want, kids)
<1>1. d \in EpElements
  BY DEF EpElements
<1>2. d.page = t.page /\ d.sheet = t.sheet /\ d.id = t.id /\ d.x = x /\ d.want = want /\ d.kids = kids
  BY DEF EpElements
<1> QED BY <1>1, <1>2 DEF EpLike, EpIsReplaced

\* The identity of an element does not place it.
LEMMA EpRenamed ==
  ASSUME NEW t \in EpElements, EpIsPlaced(t), NEW id \in Nat, NEW d, d = [t EXCEPT !.id = id]
  PROVE  d \in EpElements /\ EpLike(d, t) /\ EpIsPlaced(d)
<1>1. d \in EpElements
  BY DEF EpElements
<1>2. d.page = t.page /\ d.sheet = t.sheet /\ d.x = t.x /\ d.want = t.want /\ d.kids = t.kids
  BY DEF EpElements
<1> QED BY <1>1, <1>2 DEF EpLike, EpIsPlaced

LEMMA EpDuplicateItemInv == ASSUME EpInv, EpDuplicateItem, EpStaled PROVE EpInv'
<1>1. EpState(EpThings) /\ epLeft.ids \in Nat /\ epView \in EpViews
  BY EpStates DEF EpState, EpViews
<1>2. PICK P : P = {i \in DOMAIN epItems : epItems[i].id = Last(epView.ids)}
  OBVIOUS
<1>3. PICK clones, c : clones = EpKept(epItems, P) /\ c = EpWithIds(clones, epLeft.ids)
  OBVIOUS
<1>4. EpAreFrom(clones) /\ Len(clones) \in Nat
  BY <1>3, EpKeptFrom
<1>5. PICK n \in Nat : n = Len(clones)
  BY <1>4
<1>6. DOMAIN clones = 1..n /\ \A i \in 1..n : clones[i] \in EpElements /\ clones[i] \in ToSet(clones)
  BY <1>4, <1>5 DEF EpAreFrom, ToSet
<1>7. c = [i \in 1..n |-> [clones[i] EXCEPT !.id = epLeft.ids + i - 1]]
  BY <1>3, <1>6 DEF EpWithIds
<1>17. \A t \in ToSet(clones) : t \in ToSet(epItems) /\ t.id = Last(epView.ids)
  <2>1. \A t \in ToSet(clones) : \E i \in DOMAIN epItems : i \in P /\ t = epItems[i]
    BY <1>3, EpKeptFrom
  <2> QED BY <1>2, <2>1 DEF ToSet
<1>18. PICK page : \A t \in ToSet(clones) : t.page = page
  <2>1. \A s, t \in ToSet(clones) : s.page = t.page
    BY <1>1, <1>17 DEF EpState, EpTitled
  <2> QED BY <2>1
<1>8. ASSUME NEW i \in 1..n
      PROVE  /\ c[i] \in EpElements /\ EpIsPlaced(c[i]) /\ \E u \in ToSet(epItems) : EpLike(c[i], u)
             /\ c[i].id = epLeft.ids + i - 1 /\ c[i].page = page
  <2>1. PICK t, id, d : t = clones[i] /\ id = epLeft.ids + i - 1 /\ d = c[i]
    OBVIOUS
  <2>2. t \in EpElements /\ EpIsPlaced(t) /\ (\E u \in ToSet(epItems) : EpLike(t, u)) /\ id \in Nat
    BY <1>1, <1>4, <1>6, <2>1 DEF EpAreFrom
  <2>3. d = [t EXCEPT !.id = id]
    BY <1>7, <2>1
  <2>4. d \in EpElements /\ EpLike(d, t) /\ EpIsPlaced(d)
    BY <2>2, <2>3, EpRenamed
  <2>5. d.id = id
    BY ONLY <2>2, <2>3 DEF EpElements
  <2>6. t.page = page
    BY <1>6, <1>18, <2>1
  <2> QED BY <2>1, <2>2, <2>4, <2>5, <2>6 DEF EpLike
<1>9. c \in Seq(EpElements) /\ \A t \in ToSet(c) : \E i \in 1..n : t = c[i]
  <2>1. c \in [1..n -> EpElements] /\ DOMAIN c = 1..n
    BY <1>7, <1>8
  <2> QED BY <2>1 DEF ToSet
<1>10. PICK items : items = epItems \o c
  OBVIOUS
<1>11. items \in Seq(EpElements) /\ ToSet(items) = ToSet(epItems) \cup ToSet(c)
  <2>1. EpIsRow(epItems \o c, EpElements, ToSet(epItems) \cup ToSet(c))
    BY <1>1, <1>9, EpInARow DEF EpState
  <2> QED BY <1>10, <2>1 DEF EpIsRow
<1>12. EpAreFrom(items)
  <2>1. \A t \in ToSet(epItems) : EpLike(t, t) /\ EpIsPlaced(t)
    BY <1>1 DEF EpLike, EpState
  <2>2. \A t \in ToSet(c) : EpIsPlaced(t) /\ \E u \in ToSet(epItems) : EpLike(t, u)
    BY <1>8, <1>9
  <2> QED BY <1>11, <2>1, <2>2 DEF EpAreFrom
<1>13. epItems' = items /\ UNCHANGED epLayouts /\ EpRecord /\ EpUse(n, 0) /\ epView' = epView
  BY <1>2, <1>3, <1>5, <1>10 DEF EpDuplicateItem
<1>14. PICK ids \in Seq(Nat) : ids = epView.ids
  BY <1>1 DEF EpState
<1>15. epView' = [epView EXCEPT !.ids = ids]
  BY <1>1, <1>13, <1>14 DEF EpViews
<1>16. \A i \in DOMAIN ids : \E t \in ToSet(items) : t.id = ids[i] /\ t.page = epView.page
  BY <1>11, <1>14, EpStillShown
<1>19. EpTitled(ToSet(items), epLeft.ids + n)
  <2>1. EpTitled(ToSet(epItems), epLeft.ids) /\ ToSet(epItems) \subseteq EpElements
    BY <1>1 DEF EpState
  <2>2. ToSet(c) \subseteq EpElements
    BY <1>9, EpSets
  <2>3. PICK m \in Nat : m = epLeft.ids + n /\ epLeft.ids <= m
    BY <1>1
  <2>6. ASSUME NEW t \in ToSet(c) PROVE epLeft.ids <= t.id /\ t.id < m /\ t.page = page
    <3>1. PICK i \in 1..n : t = c[i]
      BY <1>9
    <3>2. t.id = epLeft.ids + i - 1 /\ t.page = page
      BY <1>8, <3>1
    <3> QED BY <1>1, <2>3, <3>2
  <2>4. EpOnPage(ToSet(c), page, epLeft.ids, m)
    BY <2>6 DEF EpOnPage
  <2>5. EpTitled(ToSet(epItems) \cup ToSet(c), m)
    BY <1>1, <2>1, <2>2, <2>3, <2>4, EpTitledNew
  <2> QED BY <1>11, <2>3, <2>5
<1> QED BY <1>12, <1>13, <1>15, <1>16, <1>19, EpItemsHold

\* An edit that leaves the selection and puts at each place an element of the
\* same identity, from where it was.
LEMMA EpMapped ==
  ASSUME EpInv, NEW items, DOMAIN items = DOMAIN epItems, items = [i \in DOMAIN epItems |-> items[i]],
         \A i \in DOMAIN epItems : /\ items[i] \in EpElements /\ EpIsPlaced(items[i])
                                  /\ EpLike(items[i], epItems[i]) /\ items[i].id = epItems[i].id
  PROVE  /\ EpAreFrom(items) /\ EpTitled(ToSet(items), epLeft.ids + 0)
         /\ \A i \in DOMAIN epView.ids : \E t \in ToSet(items) : t.id = epView.ids[i] /\ t.page = epView.page
<1>1. EpState(EpThings)
  BY EpStates
<1>2. DOMAIN epItems = 1..Len(epItems) /\ Len(epItems) \in Nat
  BY <1>1 DEF EpState
<1>3. items \in Seq(EpElements)
  <2>1. items \in [1..Len(epItems) -> EpElements]
    BY <1>2
  <2> QED BY <1>2, <2>1
<1>4. EpAreFrom(items)
  BY <1>3 DEF EpAreFrom, ToSet
<1>5. ASSUME NEW i \in DOMAIN epView.ids PROVE \E t \in ToSet(items) : t.id = epView.ids[i] /\ t.page = epView.page
  <2>1. PICK k \in DOMAIN epItems : epItems[k].id = epView.ids[i] /\ epItems[k].page = epView.page
    BY DEF EpInv, EpSelectionShown, ToSet
  <2>2. items[k].id = epView.ids[i] /\ items[k].page = epView.page /\ items[k] \in ToSet(items)
    BY <2>1 DEF EpLike, ToSet
  <2> QED BY <2>2
<1>6. EpTitled(ToSet(items), epLeft.ids + 0)
  <2>1. epLeft.ids + 0 = epLeft.ids
    BY <1>1 DEF EpState
  <2>2. \A t \in ToSet(items) : \E u \in ToSet(epItems) : t.id = u.id /\ t.page = u.page
    BY DEF EpLike, ToSet
  <2>3. (\A u \in ToSet(epItems) : u.id < epLeft.ids)
        /\ \A s, t \in ToSet(epItems) : s.id = t.id => s.page = t.page
    BY <1>1 DEF EpState, EpTitled
  <2>4. \A s, t \in ToSet(items) : s.id = t.id => s.page = t.page
    BY <2>2, <2>3
  <2> QED BY <2>1, <2>2, <2>3, <2>4 DEF EpTitled
<1> QED BY <1>4, <1>5, <1>6

LEMMA EpMoveSelectedInv == ASSUME EpInv, EpMoveSelected, EpStaled PROVE EpInv'
<1>1. EpState(EpThings) /\ epView \in EpViews
  BY EpStates DEF EpState, EpViews
<1>2. PICK items : items = epItems'
  OBVIOUS
<1>3. items = [i \in DOMAIN epItems |-> IF EpIsPicked(epItems[i]) THEN EpMoved(epItems[i]) ELSE epItems[i]]
  BY <1>2 DEF EpMoveSelected, EpChanges
<1>4. ASSUME NEW i \in DOMAIN epItems
      PROVE  /\ items[i] \in EpElements /\ EpIsPlaced(items[i])
             /\ EpLike(items[i], epItems[i]) /\ items[i].id = epItems[i].id
  <2>1. PICK t \in EpElements : t = epItems[i] /\ EpIsPlaced(t)
    BY <1>1 DEF EpState, ToSet
  <2>2. CASE ~EpIsPicked(epItems[i])
    BY <1>3, <2>1, <2>2 DEF EpLike
  <2>3. CASE EpIsPicked(epItems[i])
    <3>1. t.x \in Nat /\ t.want \in Nat /\ t.kids \in Seq(EpLeaves)
      BY <2>1 DEF EpElements
    <3>2. PICK x, want, kids, d : x = t.x + 1 /\ want = t.want + 1 /\ d = items[i]
                              /\ kids = EpKidsMoved(t.kids)
      OBVIOUS
    <3>3. d = [t EXCEPT !.x = x, !.want = want, !.kids = kids]
      <4>1. d = EpMoved(t)
        BY <1>3, <2>1, <2>3, <3>2
      <4> QED BY ONLY <3>2, <4>1 DEF EpMoved
    <3>4. DOMAIN t.kids = 1..Len(t.kids) /\ Len(t.kids) \in Nat /\ DOMAIN kids = DOMAIN t.kids
      BY <3>1, <3>2 DEF EpKidsMoved
    <3>5. ASSUME NEW k \in DOMAIN t.kids
          PROVE  kids[k] \in EpLeaves /\ kids[k].x = t.kids[k].x /\ kids[k].want = t.kids[k].want + 1
                 /\ t.kids[k].x \in Nat /\ t.kids[k].want \in Nat
      <4>1. PICK old, more, new : old = t.kids[k] /\ more = t.kids[k].want + 1 /\ new = kids[k]
        OBVIOUS
      <4>2. old \in EpLeaves
        BY <3>1, <4>1
      <4>3. old.want \in Nat /\ old.x \in Nat /\ more \in Nat
        BY <4>1, <4>2 DEF EpLeaves
      <4>4. new = [old EXCEPT !.want = more]
        BY <3>2, <4>1 DEF EpKidsMoved
      <4>5. new \in EpLeaves
        BY ONLY <4>2, <4>3, <4>4 DEF EpLeaves
      <4>6. new.x = old.x /\ new.want = more
        BY ONLY <4>2, <4>4 DEF EpLeaves
      <4> QED BY <4>1, <4>3, <4>5, <4>6
    <3>6. kids \in Seq(EpLeaves)
      <4>1. kids \in [1..Len(t.kids) -> EpLeaves]
        BY <3>2, <3>4, <3>5 DEF EpKidsMoved
      <4> QED BY <3>4, <4>1
    <3>7. x \in Nat /\ want \in Nat
      BY <3>1, <3>2
    <3>8. d \in EpElements /\ EpLike(d, t) /\ d.id = t.id /\ d.x = x /\ d.want = want /\ d.kids = kids
      <4>1. EpIsReplaced(d, t, x, want, kids)
        BY ONLY t \in EpElements, <3>3, <3>6, <3>7, EpReplaced
      <4> QED BY <4>1 DEF EpIsReplaced
    <3>9. kids = <<>> <=> t.kids = <<>>
      BY <3>1, <3>4, <3>6
    <3>10. EpIsPlaced(d)
      <4>1. CASE t.kids = <<>>
        BY <2>1, <3>2, <3>8, <3>9, <4>1 DEF EpIsPlaced
      <4>2. CASE t.kids # <<>>
        <5>1. ASSUME NEW k \in DOMAIN t.kids PROVE x + kids[k].x = kids[k].want
          <6>2. t.kids[k] \in ToSet(t.kids)
            BY DEF ToSet
          <6>1. t.x + t.kids[k].x = t.kids[k].want
            BY <2>1, <4>2, <6>2 DEF EpIsPlaced
          <6>3. PICK a \in Nat, b \in Nat, c \in Nat : a = t.x /\ b = t.kids[k].x /\ c = t.kids[k].want
            BY <3>1, <3>5
          <6>4. a + b = c /\ x = a + 1 /\ kids[k].x = b /\ kids[k].want = c + 1
            BY <3>2, <3>5, <6>1, <6>3
          <6> QED BY ONLY <6>3, <6>4
        <5>2. \A q \in ToSet(kids) : x + q.x = q.want
          BY <3>4, <5>1 DEF ToSet
        <5> QED BY <3>8, <3>9, <4>2, <5>2 DEF EpIsPlaced
      <4> QED BY <4>1, <4>2
    <3> QED BY <2>1, <3>2, <3>8, <3>10
  <2> QED BY <2>2, <2>3
<1>5. EpAreFrom(items) /\ EpTitled(ToSet(items), epLeft.ids + 0)
      /\ \A i \in DOMAIN epView.ids : \E t \in ToSet(items) : t.id = epView.ids[i] /\ t.page = epView.page
  <2>1. DOMAIN items = DOMAIN epItems /\ items = [i \in DOMAIN epItems |-> items[i]]
    BY <1>3
  <2> QED BY <1>4, <2>1, EpMapped
<1>6. PICK ids \in Seq(Nat) : ids = epView.ids
  BY <1>1 DEF EpState
<1>7. epView' = [epView EXCEPT !.ids = ids]
  BY <1>1, <1>6 DEF EpViews, EpMoveSelected
<1>8. PICK some \in Nat : EpUse(some, 0) /\ some = 0
  <2>1. EpUse(0, 0)
    BY DEF EpMoveSelected
  <2> QED BY <2>1
<1>9. epItems' = items /\ UNCHANGED epLayouts /\ EpRecord
  BY <1>2 DEF EpMoveSelected, EpChanges
<1>10. \A i \in DOMAIN ids : \E t \in ToSet(items) : t.id = ids[i] /\ t.page = epView.page
  BY <1>5, <1>6
<1> QED BY <1>5, <1>7, <1>8, <1>9, <1>10, EpItemsHold

LEMMA EpMoveItemZInv == ASSUME EpInv, NEW up \in BOOLEAN, EpMoveItemZ(up), EpStaled PROVE EpInv'
<1>1. EpState(EpThings) /\ epView \in EpViews
  BY EpStates DEF EpState, EpViews
<1>2. PICK items : items = epItems'
  OBVIOUS
<1>3. PICK i \in DOMAIN epItems : \E j \in DOMAIN epItems : items = EpSwapped(i, j)
  BY <1>2 DEF EpMoveItemZ, EpChanges
<1>4. PICK j \in DOMAIN epItems : items = EpSwapped(i, j)
  BY <1>3
<1>5. PICK n \in Nat : DOMAIN epItems = 1..n /\ epItems \in [1..n -> EpElements]
  BY <1>1 DEF EpState
<1>6. PICK old, a, b : old = epItems /\ a = epItems[i] /\ b = epItems[j]
  OBVIOUS
<1>7. items = [old EXCEPT ![i] = b, ![j] = a] /\ old \in [1..n -> EpElements] /\ a \in EpElements /\ b \in EpElements
      /\ i \in 1..n /\ j \in 1..n /\ a = old[i] /\ b = old[j]
  BY <1>4, <1>5, <1>6 DEF EpSwapped
<1>8. items \in [1..n -> EpElements] /\ items[j] = a /\ (i # j => items[i] = b)
      /\ \A k \in 1..n : k # i /\ k # j => items[k] = old[k]
  BY ONLY <1>7
<1>9. items \in Seq(EpElements) /\ DOMAIN items = 1..n
  BY <1>8
<1>10. ToSet(items) \subseteq ToSet(epItems)
  <2>1. ASSUME NEW k \in 1..n PROVE \E h \in 1..n : items[k] = old[h]
    BY <1>7, <1>8
  <2>2. ASSUME NEW t \in ToSet(items) PROVE t \in ToSet(epItems)
    <3>1. PICK k \in 1..n : t = items[k]
      BY <1>5, <1>6, <1>9 DEF ToSet
    <3>2. PICK h \in 1..n : t = old[h]
      BY <2>1, <3>1
    <3> QED BY <1>5, <1>6, <1>9, <3>2 DEF ToSet
  <2> QED BY <2>2
<1>11. ToSet(epItems) \subseteq ToSet(items)
  <2>1. ASSUME NEW k \in 1..n PROVE \E h \in 1..n : old[k] = items[h]
    BY <1>7, <1>8
  <2>2. ASSUME NEW t \in ToSet(epItems) PROVE t \in ToSet(items)
    <3>1. PICK k \in 1..n : t = old[k]
      BY <1>5, <1>6, <1>9 DEF ToSet
    <3>2. PICK h \in 1..n : t = items[h]
      BY <2>1, <3>1
    <3> QED BY <1>5, <1>6, <1>9, <3>2 DEF ToSet
  <2> QED BY <2>2
<1>12. EpAreFrom(items)
  <2>1. \A t \in ToSet(epItems) : EpLike(t, t) /\ EpIsPlaced(t)
    BY <1>1 DEF EpLike, EpState
  <2> QED BY <1>9, <1>10, <2>1 DEF EpAreFrom
<1>13. PICK ids \in Seq(Nat) : ids = epView.ids
  BY <1>1 DEF EpState
<1>14. epView' = [epView EXCEPT !.ids = ids]
  BY <1>1, <1>13 DEF EpViews, EpMoveItemZ
<1>15. PICK some \in Nat : EpUse(some, 0) /\ some = 0
  <2>1. EpUse(0, 0)
    BY DEF EpMoveItemZ
  <2> QED BY <2>1
<1>16. epItems' = items /\ UNCHANGED epLayouts /\ EpRecord
  BY <1>2 DEF EpMoveItemZ, EpChanges
<1>17. \A k \in DOMAIN ids : \E t \in ToSet(items) : t.id = ids[k] /\ t.page = epView.page
  BY <1>11, <1>13, EpStillShown
<1>18. EpTitled(ToSet(items), epLeft.ids + some)
  BY <1>10, EpTitledPart
<1> QED BY <1>12, <1>14, <1>15, <1>16, <1>17, <1>18, EpItemsHold

\* What is selected is on the page that is shown.
LEMMA EpPickedHere ==
  ASSUME EpInv, NEW t \in ToSet(epItems), NEW i \in DOMAIN epView.ids, epView.ids[i] = t.id
  PROVE  t.page = epView.page
<1>1. PICK s \in ToSet(epItems) : s.id = t.id /\ s.page = epView.page
  BY DEF EpInv, EpSelectionShown
<1>2. EpTitled(ToSet(epItems), epLeft.ids)
  BY EpStates DEF EpState
<1> QED BY <1>1, <1>2 DEF EpTitled

LEMMA EpDeleteInv == ASSUME EpInv, EpDelete(epView.ids), EpStaled PROVE EpInv'
<1>1. EpState(EpThings) /\ epView \in EpViews
  BY EpStates DEF EpState, EpViews
<1>2. PICK P, items : P = {i \in DOMAIN epItems : ~Contains(epView.ids, epItems[i].id)} /\ items = EpKept(epItems, P)
  OBVIOUS
<1>3. EpAreFrom(items) /\ \A t \in ToSet(items) : \E i \in DOMAIN epItems : i \in P /\ t = epItems[i]
  BY <1>2, EpKeptFrom
<1>4. PICK old, Q, ids : old = epView.ids /\ Q = {i \in DOMAIN old : ~Contains(old, old[i])} /\ ids = EpKept(old, Q)
  OBVIOUS
<1>5. old \in Seq(Nat)
  BY <1>1, <1>4 DEF EpState
<1>6. ids \in Seq(Nat)
  BY <1>4, <1>5, EpKeeps
<1>7. Q = {}
  BY <1>4, <1>5 DEF Contains
<1>8. DOMAIN ids = {}
  <2> SUFFICES ASSUME NEW k \in DOMAIN ids PROVE FALSE
    OBVIOUS
  <2>1. ids[k] \in ToSet(EpKept(old, Q))
    BY <1>4 DEF ToSet
  <2>2. PICK i \in DOMAIN old : i \in Q /\ ids[k] = old[i]
    BY <1>5, <2>1, EpKeptWas
  <2> QED BY <1>7, <2>2
<1>9. PICK some \in Nat : EpUse(some, 0) /\ some = 0
  <2>1. EpUse(0, 0)
    BY DEF EpDelete
  <2> QED BY <2>1
<1>10. epItems' = items /\ UNCHANGED epLayouts /\ EpRecord /\ epView' = [epView EXCEPT !.ids = ids]
  BY <1>2, <1>4 DEF EpDelete, EpChanges, EpSelects
<1>11. EpTitled(ToSet(items), epLeft.ids + some)
  <2>1. ToSet(items) \subseteq ToSet(epItems)
    BY <1>3 DEF ToSet
  <2> QED BY <2>1, EpTitledPart
<1>12. \A k \in DOMAIN ids : \E t \in ToSet(items) : t.id = ids[k] /\ t.page = epView.page
  BY <1>8
<1> QED BY <1>3, <1>6, <1>9, <1>10, <1>11, <1>12, EpItemsHold

\* A group scaled to the canvas stays where it is said to be.
LEMMA EpScales ==
  ASSUME NEW g \in EpElements, g.kids # <<>>, NEW scale \in Nat, NEW d, d = EpFitted(g, scale)
  PROVE  d \in EpElements /\ EpLike(d, g) /\ d.id = g.id /\ EpIsPlaced(d)
<1>1. g.x \in Nat /\ g.want \in Nat /\ g.kids \in Seq(EpLeaves)
  BY DEF EpElements
<1>2. PICK zero, kids : zero = 0 /\ kids = EpScaled(g.kids, scale)
  OBVIOUS
<1>3. d = [g EXCEPT !.x = zero, !.want = zero, !.kids = kids]
  BY <1>2 DEF EpFitted
<1>4. DOMAIN g.kids = 1..Len(g.kids) /\ Len(g.kids) \in Nat /\ DOMAIN kids = DOMAIN g.kids
  <2>1. DOMAIN kids = DOMAIN g.kids
    BY <1>2 DEF EpScaled
  <2> QED BY <1>1, <2>1
<1>5. ASSUME NEW k \in DOMAIN g.kids
      PROVE  kids[k] \in EpLeaves /\ zero + kids[k].x = kids[k].want
  <2>1. PICK old, new, x : old = g.kids[k] /\ x = g.kids[k].x * scale /\ new = kids[k]
    OBVIOUS
  <2>2. old \in EpLeaves
    BY <1>1, <2>1
  <2>3. old.x \in Nat
    BY <2>2 DEF EpLeaves
  <2>4. x \in Nat
    BY <2>1, <2>3
  <2>5. new = [old EXCEPT !.x = x, !.want = x]
    BY <1>2, <2>1 DEF EpScaled
  <2>6. new \in EpLeaves
    BY ONLY <2>2, <2>4, <2>5 DEF EpLeaves
  <2>7. new.x = x /\ new.want = x
    BY ONLY <2>2, <2>5 DEF EpLeaves
  <2> QED BY <1>2, <2>1, <2>4, <2>6, <2>7
<1>6. kids \in Seq(EpLeaves)
  <2>1. kids \in [1..Len(g.kids) -> EpLeaves]
    BY <1>2, <1>4, <1>5 DEF EpScaled
  <2> QED BY <1>4, <2>1
<1>7. zero \in Nat
  BY <1>2
<1>8. d \in EpElements /\ EpLike(d, g) /\ d.id = g.id /\ d.x = zero /\ d.kids = kids
  <2>1. EpIsReplaced(d, g, zero, zero, kids)
    BY ONLY g \in EpElements, <1>3, <1>6, <1>7, EpReplaced
  <2> QED BY <2>1 DEF EpIsReplaced
<1>9. kids # <<>>
  BY <1>1, <1>4, <1>6
<1>10. \A q \in ToSet(kids) : zero + q.x = q.want
  BY <1>4, <1>5 DEF ToSet
<1> QED BY <1>8, <1>9, <1>10 DEF EpIsPlaced

LEMMA EpFitGroupInv == ASSUME EpInv, EpFitGroup, EpStaled PROVE EpInv'
<1>1. EpState(EpThings) /\ epView \in EpViews
  BY EpStates DEF EpState, EpViews
<1> DEFINE Right(g) == CHOOSE x \in {k.x : k \in ToSet(g.kids)} : \A k \in ToSet(g.kids) : x >= k.x
<1>2. PICK i \in DOMAIN epItems :
        /\ EpChosenGroup(epItems[i]) /\ EpUse(0, 0) /\ UNCHANGED epView
        /\ EpChanges([epItems EXCEPT ![i] = EpFitted(epItems[i], EpCanvas \div (1 + Right(epItems[i])))])
  BY DEF EpFitGroup
<1>3. PICK g \in EpElements : g = epItems[i] /\ g.kids # <<>> /\ g.kids \in Seq(EpLeaves) /\ EpIsPlaced(g)
  <2>1. epItems[i] \in EpElements /\ epItems[i].kids # <<>> /\ EpIsPlaced(epItems[i])
    BY <1>1, <1>2 DEF EpState, EpChosenGroup, ToSet
  <2>2. epItems[i].kids \in Seq(EpLeaves)
    BY <2>1 DEF EpElements
  <2> QED BY <2>1, <2>2
<1>4. PICK right \in Nat : right = Right(g)
  <2> DEFINE S == {k.x : k \in ToSet(g.kids)}
  <2>1. S \subseteq Nat /\ S # {}
    <3>1. ToSet(g.kids) \subseteq EpLeaves /\ g.kids[1] \in ToSet(g.kids)
      BY <1>3, EpSets
    <3> QED BY <3>1 DEF EpLeaves
  <2>2. IsFiniteSet(S)
    <3>1. PICK n \in Nat : DOMAIN g.kids = 1..n
      BY <1>3
    <3>2. PICK f : f = [k \in 1..n |-> g.kids[k].x]
      OBVIOUS
    <3>5. IsFiniteSet(1..n)
      BY <3>1, FS_Interval
    <3>3. IsFiniteSet({f[k] : k \in 1..n})
      BY <3>2, <3>5, FiniteRange
    <3>4. {f[k] : k \in 1..n} = S
      BY <3>1, <3>2 DEF ToSet
    <3> QED BY <3>3, <3>4
  <2>3. PICK m \in S : \A x \in S : x <= m
    <3> HIDE DEF S
    <3> QED BY <2>1, <2>2, HighestNumber
  <2>4. \A k \in ToSet(g.kids) : m >= k.x
    BY <2>1, <2>3
  <2>5. Right(g) \in S
    BY <2>4
  <2> QED BY <2>1, <2>5
<1> HIDE DEF Right
<1>5. PICK scale \in Nat : scale = EpCanvas \div (1 + right)
  <2>1. EpCanvas \in Nat /\ 1 + right \in Nat \ {0}
    BY EpAssumption
  <2>2. PICK d \in Nat \ {0} : d = 1 + right
    BY <2>1
  <2>3. \E q \in Nat, r \in 0..d - 1 : q = EpCanvas \div d /\ r = EpCanvas % d /\ EpCanvas = q * d + r
    BY <2>1, <2>2, Division
  <2> QED BY <2>2, <2>3
<1>6. PICK items, d : items = epItems' /\ d = EpFitted(g, scale)
  OBVIOUS
<1>7. items = [epItems EXCEPT ![i] = d]
  BY <1>2, <1>3, <1>4, <1>5, <1>6 DEF EpChanges
<1>8. d \in EpElements /\ EpLike(d, g) /\ d.id = g.id /\ EpIsPlaced(d)
  BY <1>3, <1>6, EpScales
<1>9. ASSUME NEW k \in DOMAIN epItems
      PROVE  /\ items[k] \in EpElements /\ EpIsPlaced(items[k])
             /\ EpLike(items[k], epItems[k]) /\ items[k].id = epItems[k].id
  <2>1. CASE k = i
    BY <1>3, <1>7, <1>8, <2>1
  <2>2. CASE k # i
    BY <1>1, <1>7, <2>2 DEF EpState, EpLike, ToSet
  <2> QED BY <2>1, <2>2
<1>10. EpAreFrom(items) /\ EpTitled(ToSet(items), epLeft.ids + 0)
       /\ \A k \in DOMAIN epView.ids : \E t \in ToSet(items) : t.id = epView.ids[k] /\ t.page = epView.page
  <2>1. DOMAIN items = DOMAIN epItems /\ items = [k \in DOMAIN epItems |-> items[k]]
    BY <1>7
  <2> QED BY <1>9, <2>1, EpMapped
<1>11. PICK ids \in Seq(Nat) : ids = epView.ids
  BY <1>1 DEF EpState
<1>12. epView' = [epView EXCEPT !.ids = ids]
  BY <1>1, <1>2, <1>11 DEF EpViews
<1>13. PICK some \in Nat : EpUse(some, 0) /\ some = 0
  BY <1>2
<1>14. epItems' = items /\ UNCHANGED epLayouts /\ EpRecord
  BY <1>2, <1>6 DEF EpChanges
<1>15. \A k \in DOMAIN ids : \E t \in ToSet(items) : t.id = ids[k] /\ t.page = epView.page
  BY <1>10, <1>11
<1> QED BY <1>10, <1>12, <1>13, <1>14, <1>15, EpItemsHold

\* An element taken out of its group.
EpIsOut(d, k, g, id) == d = [k EXCEPT !.id = id, !.x = k.x + g.x, !.page = g.page, !.sheet = g.sheet]

LEMMA EpTakenOut ==
  ASSUME NEW g \in EpElements, EpIsPlaced(g), NEW k \in ToSet(g.kids), NEW id \in Nat,
         NEW d, EpIsOut(d, k, g, id)
  PROVE  d \in EpElements /\ EpLike(d, g) /\ d.id = id /\ EpIsPlaced(d)
<1>1. g.x \in Nat /\ g.page \in Nat /\ g.sheet \in Nat /\ g.kids \in Seq(EpLeaves)
  BY DEF EpElements
<1>2. k \in EpLeaves /\ g.kids # <<>>
  <2>1. k \in EpLeaves
    BY <1>1, EpSets
  <2>2. DOMAIN <<>> = {}
    OBVIOUS
  <2> QED BY <2>1, <2>2 DEF ToSet
<1>3. PICK x, page, sheet, old : x = k.x + g.x /\ page = g.page /\ sheet = g.sheet /\ old = k
  OBVIOUS
<1>4. old.x \in Nat /\ old.kids = <<>> /\ g.x + old.x = old.want /\ old.want \in Nat /\ old \in EpLeaves
  BY <1>2, <1>3 DEF EpLeaves, EpIsPlaced
<1>5. x \in Nat /\ page \in Nat /\ sheet \in Nat /\ x = old.want
  BY <1>1, <1>3, <1>4
<1>6. d = [old EXCEPT !.id = id, !.x = x, !.page = page, !.sheet = sheet]
  BY <1>3 DEF EpIsOut
<1>7. d \in EpLeaves
  BY ONLY <1>4, <1>5, <1>6, id \in Nat DEF EpLeaves
<1>8. d.page = page /\ d.sheet = sheet /\ d.id = id /\ d.x = x /\ d.want = old.want /\ d.kids = old.kids
  BY ONLY <1>4, <1>6 DEF EpLeaves
<1>9. d \in EpElements
  <2>1. {<<>>} \subseteq Seq(EpLeaves)
    OBVIOUS
  <2> QED BY <1>7, <2>1 DEF EpElements, EpLeaves
<1> QED BY <1>3, <1>4, <1>5, <1>8, <1>9 DEF EpLike, EpIsPlaced

LEMMA EpUngroupInv == ASSUME EpInv, EpUngroup, EpStaled PROVE EpInv'
<1>1. EpState(EpThings) /\ epView \in EpViews /\ epLeft.ids \in Nat
  BY EpStates DEF EpState, EpViews
<1> DEFINE Out(g) == [i \in DOMAIN g.kids |->
                        [g.kids[i] EXCEPT !.id = epLeft.ids + i - 1, !.x = @ + g.x, !.page = g.page, !.sheet = g.sheet]]
<1>2. PICK g \in ToSet(epItems) :
        /\ EpChosenGroup(g) /\ EpUse(Len(Out(g)), 0)
        /\ EpChanges(EpKept(epItems, {i \in DOMAIN epItems : epItems[i].id # g.id}) \o Out(g))
        /\ epView' = EpSelects([i \in DOMAIN Out(g) |-> Out(g)[i].id])
  BY DEF EpUngroup
<1>3. PICK out : out = Out(g)
  OBVIOUS
<1>4. /\ EpUse(Len(out), 0) /\ epView' = EpSelects([i \in DOMAIN out |-> out[i].id])
      /\ EpChanges(EpKept(epItems, {i \in DOMAIN epItems : epItems[i].id # g.id}) \o out)
  <2> HIDE DEF Out
  <2> QED BY <1>2, <1>3
<1>5. PICK n \in Nat : n = Len(g.kids) /\ DOMAIN g.kids = 1..n /\ g \in EpElements /\ EpIsPlaced(g) /\ g.kids # <<>>
  <2>1. g \in EpElements /\ EpIsPlaced(g) /\ g.kids # <<>>
    BY <1>1, <1>2 DEF EpState, EpChosenGroup
  <2>2. g.kids \in Seq(EpLeaves)
    BY <2>1 DEF EpElements
  <2> QED BY <2>1, <2>2
<1>6. ASSUME NEW i \in 1..n
      PROVE out[i] \in EpElements /\ EpLike(out[i], g) /\ EpIsPlaced(out[i]) /\ out[i].id = epLeft.ids + i - 1
  <2>1. PICK k, id, d : k = g.kids[i] /\ id = epLeft.ids + i - 1 /\ d = out[i]
    OBVIOUS
  <2>2. k \in ToSet(g.kids) /\ id \in Nat
    BY <1>1, <1>5, <2>1 DEF ToSet
  <2>3. EpIsOut(d, k, g, id)
    BY <1>3, <1>5, <2>1 DEF EpIsOut
  <2>4. d \in EpElements /\ EpLike(d, g) /\ d.id = id /\ EpIsPlaced(d)
    BY <1>5, <2>2, <2>3, EpTakenOut
  <2> QED BY <2>1, <2>4
<1>7. DOMAIN out = 1..n
  BY <1>3, <1>5
<1>8. out \in Seq(EpElements) /\ Len(out) = n
  <2>1. out \in [1..n -> EpElements]
    <3>1. out = [i \in 1..n |-> out[i]]
      BY <1>3, <1>5
    <3> QED BY <1>6, <3>1
  <2> QED BY <2>1
<1> HIDE DEF Out
<1>9. PICK P, rest : P = {i \in DOMAIN epItems : epItems[i].id # g.id} /\ rest = EpKept(epItems, P)
  OBVIOUS
<1>10. EpAreFrom(rest) /\ ToSet(rest) \subseteq ToSet(epItems)
  <2>1. EpAreFrom(rest) /\ \A t \in ToSet(rest) : \E i \in DOMAIN epItems : i \in P /\ t = epItems[i]
    BY <1>9, EpKeptFrom
  <2> QED BY <2>1 DEF ToSet
<1>11. PICK items : items = rest \o out
  OBVIOUS
<1>12. items \in Seq(EpElements) /\ ToSet(items) = ToSet(rest) \cup ToSet(out)
  <2>1. EpIsRow(rest \o out, EpElements, ToSet(rest) \cup ToSet(out))
    BY <1>8, <1>10, EpInARow DEF EpAreFrom
  <2> QED BY <1>11, <2>1 DEF EpIsRow
<1>13. ASSUME NEW t \in ToSet(out) PROVE \E i \in 1..n : t = out[i]
  BY <1>7 DEF ToSet
<1>14. EpAreFrom(items)
  <2>1. \A t \in ToSet(out) : EpIsPlaced(t) /\ EpLike(t, g)
    BY <1>6, <1>13
  <2> QED BY <1>10, <1>12, <2>1 DEF EpAreFrom
<1>15. EpTitled(ToSet(items), epLeft.ids + n)
  <2>1. EpTitled(ToSet(rest), epLeft.ids + 0)
    BY <1>10, EpTitledPart
  <2>2. EpTitled(ToSet(rest), epLeft.ids)
    BY <1>1, <2>1
  <2>3. PICK m \in Nat : m = epLeft.ids + n /\ epLeft.ids <= m
    BY <1>1
  <2>4. ASSUME NEW t \in ToSet(out) PROVE epLeft.ids <= t.id /\ t.id < m /\ t.page = g.page
    <3>1. PICK i \in 1..n : t = out[i]
      BY <1>13
    <3>2. t.id = epLeft.ids + i - 1 /\ t.page = g.page
      BY <1>6, <3>1 DEF EpLike
    <3> QED BY <1>1, <2>3, <3>2
  <2>5. EpOnPage(ToSet(out), g.page, epLeft.ids, m)
    BY <2>4 DEF EpOnPage
  <2>6. ToSet(rest) \subseteq EpElements /\ ToSet(out) \subseteq EpElements
    BY <1>8, <1>10, EpSets DEF EpAreFrom
  <2>7. EpTitled(ToSet(rest) \cup ToSet(out), m)
    BY <1>1, <2>2, <2>3, <2>5, <2>6, EpTitledNew
  <2> QED BY <1>12, <2>3, <2>7
<1>16. g.page = epView.page
  <2>1. epView.ids # <<>> /\ g.id = Last(epView.ids) /\ epView.ids \in Seq(Nat)
    BY <1>1, <1>2 DEF EpChosenGroup, EpState
  <2>2. PICK i \in DOMAIN epView.ids : epView.ids[i] = g.id
    <3>1. Len(epView.ids) \in DOMAIN epView.ids /\ epView.ids[Len(epView.ids)] = g.id
      BY <2>1 DEF Last
    <3> QED BY <3>1
  <2> QED BY <2>2, EpPickedHere
<1>17. PICK ids : ids = [i \in DOMAIN out |-> out[i].id]
  OBVIOUS
<1>18. ids \in Seq(Nat)
  <2>1. \A i \in 1..n : out[i].id \in Nat
    BY <1>6 DEF EpElements
  <2>2. ids \in [1..n -> Nat]
    BY <1>7, <1>17, <2>1
  <2> QED BY <2>2
<1>19. \A i \in DOMAIN ids : \E t \in ToSet(items) : t.id = ids[i] /\ t.page = epView.page
  <2>1. ASSUME NEW i \in DOMAIN ids PROVE out[i] \in ToSet(items) /\ out[i].id = ids[i] /\ out[i].page = epView.page
    <3>1. i \in 1..n /\ ids[i] = out[i].id
      BY <1>7, <1>17
    <3> QED BY <1>6, <1>7, <1>12, <1>16, <3>1 DEF ToSet, EpLike
  <2> QED BY <2>1
<1>20. epItems' = items /\ UNCHANGED epLayouts /\ EpRecord /\ epView' = [epView EXCEPT !.ids = ids]
  BY <1>4, <1>9, <1>11, <1>17 DEF EpChanges, EpSelects
<1>21. EpUse(n, 0)
  BY <1>4, <1>8
<1> QED BY <1>14, <1>15, <1>18, <1>19, <1>20, <1>21, EpItemsHold

\* An element taken into a group that starts at left.
LEMMA EpTakenIn ==
  ASSUME NEW t \in EpElements, EpIsPlaced(t), t.kids = <<>>, NEW left \in Nat, left <= t.x,
         NEW d, d = [t EXCEPT !.x = t.x - left]
  PROVE  d \in EpLeaves /\ left + d.x = d.want
<1>1. PICK x : x = t.x - left
  OBVIOUS
<1>2. x \in Nat /\ left + x = t.x /\ t.x = t.want
  BY <1>1 DEF EpElements, EpIsPlaced
<1>3. t \in EpLeaves
  BY DEF EpElements, EpLeaves
<1>4. d = [t EXCEPT !.x = x]
  BY <1>1
<1>5. d \in EpLeaves
  BY ONLY <1>2, <1>3, <1>4 DEF EpLeaves
<1>6. d.x = x /\ d.want = t.want
  BY ONLY <1>3, <1>4 DEF EpLeaves
<1> QED BY <1>2, <1>5, <1>6

LEMMA EpGroupInv == ASSUME EpInv, EpGroup, EpStaled PROVE EpInv'
<1>1. EpState(EpThings) /\ epView \in EpViews /\ epLeft.ids \in Nat
  BY EpStates DEF EpState, EpViews
<1>2. PICK P, picked : P = {i \in DOMAIN epItems : EpIsPicked(epItems[i])} /\ picked = EpKept(epItems, P)
  OBVIOUS
<1>3. PICK left : left = CHOOSE x \in {t.x : t \in ToSet(picked)} : \A t \in ToSet(picked) : x <= t.x
  OBVIOUS
<1>4. PICK alone, group : /\ alone = EpElement(epLeft.ids, picked[1].page, picked[1].sheet, left)
                         /\ group = [alone EXCEPT !.kids = EpInside(picked, left)]
  OBVIOUS
<1>5. PICK Q, rest : Q = {i \in DOMAIN epItems : ~EpIsPicked(epItems[i])} /\ rest = EpKept(epItems, Q)
  OBVIOUS
<1>6. /\ Len(picked) >= 2 /\ EpUse(1, 0) /\ (\A t \in ToSet(picked) : t.kids = <<>>)
      /\ EpChanges(Append(rest, group)) /\ epView' = EpSelects(<<group.id>>)
  BY <1>2, <1>3, <1>4, <1>5 DEF EpGroup
<1>7. /\ picked \in Seq(EpElements) /\ (\A t \in ToSet(picked) : t \in EpElements /\ EpIsPlaced(t))
      /\ \A t \in ToSet(picked) : \E i \in DOMAIN epItems : i \in P /\ t = epItems[i]
  BY <1>2, EpKeptFrom DEF EpAreFrom
<1>8. PICK n \in Nat : n = Len(picked) /\ DOMAIN picked = 1..n /\ n >= 2 /\ 1 \in 1..n
  BY <1>6, <1>7
<1>9. left \in Nat /\ \A t \in ToSet(picked) : left <= t.x
  <2> DEFINE S == {t.x : t \in ToSet(picked)}
  <2>1. S \in SUBSET Nat /\ S # {}
    <3>1. \A t \in ToSet(picked) : t.x \in Nat
      BY <1>7 DEF EpElements
    <3>2. picked[1] \in ToSet(picked)
      BY <1>8 DEF ToSet
    <3> QED BY <3>1, <3>2
  <2>2. PICK m \in S : \A x \in S : m <= x
    <3> HIDE DEF S
    <3> QED BY <2>1, LeastNumber
  <2>3. \A t \in ToSet(picked) : m <= t.x
    BY <2>2
  <2>4. left \in S /\ \A t \in ToSet(picked) : left <= t.x
    BY <1>3, <2>3
  <2> QED BY <2>1, <2>4
<1>10. PICK kids : kids = EpInside(picked, left)
  OBVIOUS
<1>11. ASSUME NEW i \in 1..n PROVE kids[i] \in EpLeaves /\ left + kids[i].x = kids[i].want
  <2>1. PICK t, d : t = picked[i] /\ d = kids[i]
    OBVIOUS
  <2>2. t \in ToSet(picked)
    BY <1>8, <2>1 DEF ToSet
  <2>3. d = [t EXCEPT !.x = t.x - left]
    BY <1>8, <1>10, <2>1 DEF EpInside
  <2>5. t \in EpElements /\ EpIsPlaced(t) /\ t.kids = <<>> /\ left <= t.x
    BY <1>6, <1>7, <1>9, <2>2
  <2>4. d \in EpLeaves /\ left + d.x = d.want
    BY <1>9, <2>3, <2>5, EpTakenIn
  <2> QED BY <2>1, <2>4
<1>12. kids \in Seq(EpLeaves) /\ kids # <<>> /\ DOMAIN kids = 1..n
  <2>1. kids = [i \in 1..n |-> kids[i]]
    BY <1>8, <1>10 DEF EpInside
  <2>2. kids \in [1..n -> EpLeaves]
    BY <1>11, <2>1
  <2>3. DOMAIN <<>> = {} /\ DOMAIN kids = 1..n
    BY <2>1
  <2> QED BY <1>8, <2>2, <2>3
<1>13. PICK first \in EpElements : first = picked[1] /\ first \in ToSet(picked) /\ first.page \in Nat /\ first.sheet \in Nat
  <2>1. picked[1] \in ToSet(picked) /\ picked[1] \in EpElements
    BY <1>7, <1>8 DEF ToSet
  <2> QED BY <2>1 DEF EpElements
<1>14. PICK id, page, sheet, none : id = epLeft.ids /\ page = first.page /\ sheet = first.sheet /\ none = <<>>
  OBVIOUS
<1>15. group = [id |-> id, page |-> page, sheet |-> sheet, x |-> left, want |-> left, kids |-> kids]
  <2>1. alone = [id |-> id, page |-> page, sheet |-> sheet, x |-> left, want |-> left, kids |-> none]
    BY <1>4, <1>13, <1>14 DEF EpElement
  <2>2. group = [alone EXCEPT !.kids = kids]
    BY <1>4, <1>10
  <2> QED BY ONLY <2>1, <2>2
<1>16. id \in Nat /\ page \in Nat /\ sheet \in Nat
  BY <1>1, <1>13, <1>14
<1>17. group \in EpElements
  BY ONLY <1>9, <1>12, <1>15, <1>16 DEF EpElements
<1>18. group.id = id /\ group.page = page /\ group.sheet = sheet /\ group.x = left /\ group.kids = kids
  BY ONLY <1>15
<1>19. EpIsPlaced(group) /\ EpLike(group, first)
  <2>1. \A k \in ToSet(kids) : left + k.x = k.want
    BY <1>11, <1>12 DEF ToSet
  <2> QED BY <1>12, <1>14, <1>18, <2>1 DEF EpIsPlaced, EpLike
<1>20. first \in ToSet(epItems) /\ first.page = epView.page
  <2>1. PICK i \in DOMAIN epItems : EpIsPicked(epItems[i]) /\ first = epItems[i]
    BY <1>2, <1>7, <1>13
  <2>2. first \in ToSet(epItems)
    BY <2>1 DEF ToSet
  <2>3. PICK j \in DOMAIN epView.ids : epView.ids[j] = first.id
    BY <1>1, <2>1 DEF EpIsPicked, Contains, EpState
  <2> QED BY <2>2, <2>3, EpPickedHere
<1>21. EpAreFrom(rest) /\ ToSet(rest) \subseteq ToSet(epItems)
  <2>1. EpAreFrom(rest) /\ \A t \in ToSet(rest) : \E i \in DOMAIN epItems : i \in Q /\ t = epItems[i]
    BY <1>5, EpKeptFrom
  <2> QED BY <2>1 DEF ToSet
<1>22. PICK items : items = Append(rest, group)
  OBVIOUS
<1>23. items \in Seq(EpElements) /\ ToSet(items) = ToSet(rest) \cup {group}
  <2>1. EpIsRow(Append(rest, group), EpElements, ToSet(rest) \cup {group})
    BY <1>17, <1>21, EpAppended DEF EpAreFrom
  <2> QED BY <1>22, <2>1 DEF EpIsRow
<1>24. EpAreFrom(items)
  BY <1>19, <1>20, <1>21, <1>23 DEF EpAreFrom
<1>25. EpTitled(ToSet(items), epLeft.ids + 1)
  <2>1. EpTitled(ToSet(rest), epLeft.ids + 0)
    BY <1>21, EpTitledPart
  <2>2. EpTitled(ToSet(rest), epLeft.ids)
    BY <1>1, <2>1
  <2>3. PICK m \in Nat : m = epLeft.ids + 1 /\ epLeft.ids <= m /\ epLeft.ids < m
    BY <1>1
  <2>4. EpOnPage({group}, page, epLeft.ids, m)
    BY <1>14, <1>16, <1>18, <2>3 DEF EpOnPage
  <2>5. ToSet(rest) \subseteq EpElements /\ {group} \subseteq EpElements
    BY <1>17, <1>21, EpSets DEF EpAreFrom
  <2>6. EpTitled(ToSet(rest) \cup {group}, m)
    BY <1>1, <2>2, <2>3, <2>4, <2>5, EpTitledNew
  <2> QED BY <1>23, <2>3, <2>6
<1>26. PICK ids : ids = <<group.id>>
  OBVIOUS
<1>27. ids \in Seq(Nat) /\ \A i \in DOMAIN ids : \E t \in ToSet(items) : t.id = ids[i] /\ t.page = epView.page
  <2>1. ids \in Seq(Nat) /\ DOMAIN ids = {1} /\ ids[1] = group.id
    BY <1>16, <1>18, <1>26
  <2> QED BY <1>14, <1>18, <1>20, <1>23, <2>1
<1>28. epItems' = items /\ UNCHANGED epLayouts /\ EpRecord /\ epView' = [epView EXCEPT !.ids = ids]
  BY <1>6, <1>22, <1>26 DEF EpChanges, EpSelects
<1>29. PICK some \in Nat : EpUse(some, 0) /\ some = 1
  BY <1>6
<1> QED BY <1>24, <1>25, <1>27, <1>28, <1>29, EpItemsHold

-----------------------------------------------------------------------------
(* A page goes, and the ones behind it move up.                             *)
LEMMA EpMovesUp ==
  ASSUME NEW page \in Nat
  PROVE  /\ \A p \in Nat : p # page => EpMovedUp(p, page) \in Nat
         /\ \A p, q \in Nat : p # page /\ q # page /\ EpMovedUp(p, page) = EpMovedUp(q, page) => p = q
<1>1. ASSUME NEW p \in Nat, p # page PROVE EpMovedUp(p, page) \in Nat
  BY <1>1 DEF EpMovedUp
<1>2. ASSUME NEW p \in Nat, NEW q \in Nat, p # page, q # page, EpMovedUp(p, page) = EpMovedUp(q, page) PROVE p = q
  BY <1>2 DEF EpMovedUp
<1> QED BY <1>1, <1>2

\* new is what lay on the other pages, moved up.
EpMovedFrom(new, things, page) ==
  \A d \in new : \E t \in things : t.page # page /\ d.page = EpMovedUp(t.page, page) /\ d.sheet = t.sheet

LEMMA EpShifted ==
  ASSUME NEW things, NEW n, EpFine(things, n), NEW page \in Nat, NEW new, EpMovedFrom(new, things, page)
  PROVE  EpFine(new, n)
<1>1. ASSUME NEW d \in new PROVE d.page \in Nat /\ d.sheet \in Nat /\ d.sheet < n
  <2>1. PICK t \in things : t.page # page /\ d.page = EpMovedUp(t.page, page) /\ d.sheet = t.sheet
    BY DEF EpMovedFrom
  <2>2. t.page \in Nat /\ t.sheet \in Nat /\ t.sheet < n
    BY DEF EpFine, EpBelow
  <2> QED BY <2>1, <2>2, EpMovesUp
<1>2. ASSUME NEW d \in new, NEW e \in new PROVE d.page = e.page <=> d.sheet = e.sheet
  <2>1. PICK t \in things : t.page # page /\ d.page = EpMovedUp(t.page, page) /\ d.sheet = t.sheet
    BY DEF EpMovedFrom
  <2>2. PICK u \in things : u.page # page /\ e.page = EpMovedUp(u.page, page) /\ e.sheet = u.sheet
    BY DEF EpMovedFrom
  <2>3. t.page \in Nat /\ u.page \in Nat /\ (t.page = u.page <=> t.sheet = u.sheet)
    BY DEF EpFine, EpWhole
  <2>4. d.page = e.page => t.page = u.page
    BY <2>1, <2>2, <2>3, EpMovesUp
  <2> QED BY <2>1, <2>2, <2>3, <2>4
<1> QED BY <1>1, <1>2 DEF EpFine, EpWhole, EpBelow

\* r is rest, moved up.
EpAreUp(r, rest, page) ==
  r = [i \in DOMAIN rest |-> [rest[i] EXCEPT !.page = EpMovedUp(rest[i].page, page)]]

\* rest lay on other pages of things.
EpAreOthers(rest, T, things, page) ==
  rest \in Seq(T) /\ \A i \in DOMAIN rest : rest[i] \in ToSet(things) /\ rest[i].page # page

LEMMA EpRestIs ==
  ASSUME NEW T, NEW things \in Seq(T), NEW page, NEW r, r = EpRest(things, page)
  PROVE  EpAreUp(r, EpOff(things, page), page) /\ EpAreOthers(EpOff(things, page), T, things, page)
<1>1. PICK P, rest : P = {i \in DOMAIN things : things[i].page # page} /\ rest = EpKept(things, P)
                     /\ rest = EpOff(things, page)
  BY DEF EpOff
<1>2. rest \in Seq(T)
  BY <1>1, EpKeeps
<1>3. ASSUME NEW i \in DOMAIN rest PROVE rest[i] \in ToSet(things) /\ rest[i].page # page
  <2>1. rest[i] \in ToSet(EpKept(things, P))
    BY <1>1 DEF ToSet
  <2>2. PICK k \in DOMAIN things : k \in P /\ rest[i] = things[k]
    BY <2>1, EpKeptWas
  <2> QED BY <1>1, <2>2 DEF ToSet
<1>4. EpAreUp(r, rest, page)
  BY <1>1 DEF EpRest, EpAreUp
<1> QED BY <1>1, <1>2, <1>3, <1>4 DEF EpAreOthers

\* Spots moved up are spots.
EpSpotsUp(r, rest, page) ==
  /\ r \in Seq(EpSpots) /\ DOMAIN r = DOMAIN rest
  /\ \A i \in DOMAIN rest : r[i].page = EpMovedUp(rest[i].page, page) /\ r[i].sheet = rest[i].sheet

LEMMA EpSpotsMoveUp ==
  ASSUME NEW page \in Nat, NEW things \in Seq(EpSpots), NEW r, NEW rest,
         EpAreUp(r, rest, page), EpAreOthers(rest, EpSpots, things, page)
  PROVE  EpSpotsUp(r, rest, page)
<1>1. PICK n \in Nat : DOMAIN rest = 1..n /\ rest \in Seq(EpSpots)
  BY DEF EpAreOthers
<1>2. r = [i \in 1..n |-> r[i]]
  BY <1>1 DEF EpAreUp
<1>3. ASSUME NEW i \in 1..n
      PROVE  r[i] \in EpSpots /\ r[i].page = EpMovedUp(rest[i].page, page) /\ r[i].sheet = rest[i].sheet
  <2>1. PICK t, p, d : t = rest[i] /\ p = EpMovedUp(rest[i].page, page) /\ d = r[i]
    OBVIOUS
  <2>2. t \in EpSpots /\ t.page # page
    BY <1>1, <2>1 DEF EpAreOthers
  <2>3. t.page \in Nat
    BY <2>2 DEF EpSpots
  <2>4. p \in Nat
    BY <2>1, <2>2, <2>3, EpMovesUp
  <2>5. d = [t EXCEPT !.page = p]
    BY <1>1, <2>1 DEF EpAreUp
  <2>6. d \in EpSpots
    BY ONLY <2>2, <2>4, <2>5 DEF EpSpots
  <2>7. d.page = p /\ d.sheet = t.sheet
    BY ONLY <2>2, <2>5 DEF EpSpots
  <2> QED BY <2>1, <2>6, <2>7
<1>4. r \in [1..n -> EpSpots]
  BY <1>2, <1>3
<1>5. r \in Seq(EpSpots) /\ DOMAIN r = 1..n
  BY <1>4
<1> QED BY <1>1, <1>3, <1>5 DEF EpSpotsUp

\* Elements moved up are elements, as they were but for the page.
EpElementsUp(r, rest, page) ==
  /\ r \in Seq(EpElements) /\ DOMAIN r = DOMAIN rest
  /\ \A i \in DOMAIN rest : /\ r[i].page = EpMovedUp(rest[i].page, page) /\ r[i].sheet = rest[i].sheet
                            /\ r[i].id = rest[i].id /\ (EpIsPlaced(rest[i]) => EpIsPlaced(r[i]))

LEMMA EpElementsMoveUp ==
  ASSUME NEW page \in Nat, NEW things \in Seq(EpElements), NEW r, NEW rest,
         EpAreUp(r, rest, page), EpAreOthers(rest, EpElements, things, page)
  PROVE  EpElementsUp(r, rest, page)
<1>1. PICK n \in Nat : DOMAIN rest = 1..n /\ rest \in Seq(EpElements)
  BY DEF EpAreOthers
<1>2. r = [i \in 1..n |-> r[i]]
  BY <1>1 DEF EpAreUp
<1>3. ASSUME NEW i \in 1..n
      PROVE  /\ r[i] \in EpElements /\ r[i].page = EpMovedUp(rest[i].page, page) /\ r[i].sheet = rest[i].sheet
             /\ r[i].id = rest[i].id /\ (EpIsPlaced(rest[i]) => EpIsPlaced(r[i]))
  <2>1. PICK t, p, d : t = rest[i] /\ p = EpMovedUp(rest[i].page, page) /\ d = r[i]
    OBVIOUS
  <2>2. t \in EpElements /\ t.page # page
    BY <1>1, <2>1 DEF EpAreOthers
  <2>3. t.page \in Nat
    BY <2>2 DEF EpElements
  <2>4. p \in Nat
    BY <2>1, <2>2, <2>3, EpMovesUp
  <2>5. d = [t EXCEPT !.page = p]
    BY <1>1, <2>1 DEF EpAreUp
  <2>6. d \in EpElements
    BY ONLY <2>2, <2>4, <2>5 DEF EpElements
  <2>7. d.page = p /\ d.sheet = t.sheet /\ d.id = t.id /\ d.x = t.x /\ d.want = t.want /\ d.kids = t.kids
    BY ONLY <2>2, <2>5 DEF EpElements
  <2>8. EpIsPlaced(t) => EpIsPlaced(d)
    BY <2>7 DEF EpIsPlaced
  <2> QED BY <2>1, <2>6, <2>7, <2>8
<1>4. r \in [1..n -> EpElements]
  BY <1>2, <1>3
<1>5. r \in Seq(EpElements) /\ DOMAIN r = 1..n
  BY <1>4
<1> QED BY <1>1, <1>3, <1>5 DEF EpElementsUp

\* Backgrounds, or picks, without a page.
EpSpotsRest(r, things, page) ==
  /\ r \in Seq(EpSpots) /\ EpMovedFrom(ToSet(r), ToSet(things), page)
  /\ EpOnePerPage(things) => EpOnePerPage(r)

LEMMA EpSpotsLeft ==
  ASSUME NEW page \in Nat, NEW things \in Seq(EpSpots), NEW r, r = EpRest(things, page)
  PROVE  EpSpotsRest(r, things, page)
<1>1. PICK rest : rest = EpOff(things, page)
  OBVIOUS
<1>2. EpAreUp(r, rest, page) /\ EpAreOthers(rest, EpSpots, things, page)
  BY <1>1, EpRestIs
<1>3. EpSpotsUp(r, rest, page)
  BY <1>2, EpSpotsMoveUp
<1>4. EpMovedFrom(ToSet(r), ToSet(things), page)
  BY <1>2, <1>3 DEF EpMovedFrom, EpSpotsUp, EpAreOthers, ToSet
<1>5. ASSUME EpOnePerPage(things), NEW i \in DOMAIN r, NEW j \in DOMAIN r, r[i].page = r[j].page PROVE i = j
  <2>1. EpOnePerPage(rest)
    BY <1>1, <1>5, EpOffs
  <2>2. \A k \in DOMAIN rest : rest[k].page # page /\ rest[k].page \in Nat
    <3>1. \A k \in DOMAIN rest : rest[k].page # page /\ rest[k] \in EpSpots
      BY <1>2 DEF EpAreOthers
    <3> QED BY <3>1 DEF EpSpots
  <2>3. DOMAIN r = DOMAIN rest /\ r[i].page = EpMovedUp(rest[i].page, page) /\ r[j].page = EpMovedUp(rest[j].page, page)
    BY <1>3 DEF EpSpotsUp
  <2>4. rest[i].page = rest[j].page
    BY <1>5, <2>2, <2>3, EpMovesUp
  <2> QED BY <2>1, <2>3, <2>4 DEF EpOnePerPage
<1>6. EpOnePerPage(things) => EpOnePerPage(r)
  BY <1>5 DEF EpOnePerPage
<1> QED BY <1>3, <1>4, <1>6 DEF EpSpotsRest, EpSpotsUp

\* The elements without a page.
EpElementsRest(items, page) ==
  /\ items \in Seq(EpElements) /\ EpMovedFrom(ToSet(items), ToSet(epItems), page)
  /\ (\A t \in ToSet(items) : EpIsPlaced(t)) /\ EpTitled(ToSet(items), epLeft.ids)

LEMMA EpElementsLeft ==
  ASSUME EpInv, NEW page \in Nat, NEW items, items = EpRest(epItems, page)
  PROVE  EpElementsRest(items, page)
<1>1. EpState(EpThings)
  BY EpStates
<1>2. PICK rest, old : rest = EpOff(old, page) /\ old = epItems
  OBVIOUS
<1>3. old \in Seq(EpElements)
  BY <1>1, <1>2 DEF EpState
<1>4. EpAreUp(items, rest, page) /\ EpAreOthers(rest, EpElements, old, page)
  BY <1>2, <1>3, EpRestIs
<1>5. EpElementsUp(items, rest, page)
  BY <1>3, <1>4, EpElementsMoveUp
<1>6. ASSUME NEW t \in ToSet(items)
      PROVE  \E u \in ToSet(epItems) : /\ u.page # page /\ t.page = EpMovedUp(u.page, page) /\ t.sheet = u.sheet
                                       /\ t.id = u.id /\ EpIsPlaced(t)
  <2>1. PICK i \in DOMAIN rest : t = items[i]
    BY <1>5 DEF EpElementsUp, ToSet
  <2>2. rest[i] \in ToSet(epItems) /\ rest[i].page # page
    BY <1>2, <1>4 DEF EpAreOthers
  <2>3. EpIsPlaced(rest[i])
    BY <1>1, <2>2 DEF EpState
  <2> QED BY <1>5, <2>1, <2>2, <2>3 DEF EpElementsUp
<1>7. EpMovedFrom(ToSet(items), ToSet(epItems), page)
  BY <1>6 DEF EpMovedFrom
<1>8. EpTitled(ToSet(items), epLeft.ids)
  <2>1. EpTitled(ToSet(epItems), epLeft.ids)
    BY <1>1 DEF EpState
  <2>2. \A t \in ToSet(items) : t.id < epLeft.ids
    BY <1>6, <2>1 DEF EpTitled
  <2>3. ASSUME NEW s \in ToSet(items), NEW t \in ToSet(items), s.id = t.id PROVE s.page = t.page
    <3>1. PICK u \in ToSet(epItems) : t.page = EpMovedUp(u.page, page) /\ t.id = u.id
      BY <1>6
    <3>2. PICK v \in ToSet(epItems) : s.page = EpMovedUp(v.page, page) /\ s.id = v.id
      BY <1>6
    <3>3. u.page = v.page
      BY <2>1, <2>3, <3>1, <3>2 DEF EpTitled
    <3> QED BY <3>1, <3>2, <3>3
  <2> QED BY <2>2, <2>3 DEF EpTitled
<1> QED BY <1>5, <1>6, <1>7, <1>8 DEF EpElementsRest, EpElementsUp

LEMMA EpDeletePageInv ==
  ASSUME EpInv, NEW page \in EpPages, EpDeletePage(page), EpStaled PROVE EpInv'
<1>1. EpState(EpThings) /\ page \in Nat /\ epLeft.sheets \in Nat /\ epLeft.ids \in Nat
  BY EpPagesAre DEF EpState
<1>2. PICK left : left = epLeft' /\ EpUsed(left, 0, 1)
  <2>1. EpUse(0, 1)
    BY DEF EpDeletePage
  <2> QED BY <2>1, EpUses
<1>3. left \in EpLefts /\ left.sheets = epLeft.sheets + 1 /\ left.sheets \in Nat /\ epLeft.sheets <= left.sheets
      /\ left.ids = epLeft.ids /\ epLeft.ids <= left.ids
  BY <1>1, <1>2 DEF EpUsed
<1>4. PICK items, view, layouts, up, print :
        /\ items = epItems' /\ view = epView' /\ layouts = epLayouts'
        /\ up = EpRest(epLayouts, page) /\ print = EpRest(epView.print, page)
  OBVIOUS
<1>5. items = EpRest(epItems, page)
  BY <1>4 DEF EpDeletePage
<1>6. EpElementsRest(items, page)
  BY <1>1, <1>5, EpElementsLeft
<1>7. EpSpotsRest(up, epLayouts, page) /\ EpSpotsRest(print, epView.print, page)
  <2>1. epLayouts \in Seq(EpSpots) /\ epView.print \in Seq(EpSpots)
    BY <1>1 DEF EpState
  <2>2. PICK a \in Seq(EpSpots), b \in Seq(EpSpots) : a = epLayouts /\ b = epView.print
    BY <2>1
  <2>3. EpSpotsRest(up, a, page)
    BY <1>1, <1>4, <2>2, EpSpotsLeft
  <2>4. EpSpotsRest(print, b, page)
    BY <1>1, <1>4, <2>2, EpSpotsLeft
  <2> QED BY <2>2, <2>3, <2>4
<1>8. PICK shown : shown = IF epView.page = page THEN (IF page = 0 THEN 0 ELSE page - 1)
                           ELSE EpMovedUp(epView.page, page)
  OBVIOUS
<1>9. shown \in Nat
  <2>1. epView.page \in Nat
    BY <1>1 DEF EpState
  <2>2. CASE epView.page = page
    BY <1>1, <1>8, <2>2
  <2>3. CASE epView.page # page
    BY <1>1, <1>8, <2>1, <2>3, EpMovesUp
  <2> QED BY <2>2, <2>3
<1>10. PICK none : none = <<>>
  OBVIOUS
<1>11. view = [page |-> shown, ids |-> none, print |-> print]
  BY <1>4, <1>8, <1>10 DEF EpDeletePage
<1>12. none \in Seq(Nat) /\ print \in Seq(EpSpots)
  BY <1>7, <1>10 DEF EpSpotsRest
<1>13. view \in EpViews
  BY ONLY <1>9, <1>11, <1>12 DEF EpViews
<1>14. view.print = print /\ view.ids = none
  BY ONLY <1>11
\* What is left lies as it lay.
<1>15. ASSUME NEW a, NEW new, a = <<>> \/ a = up, new = EpAll(items, a, print)
       PROVE  EpFine(new, epLeft.sheets)
  <2>1. DOMAIN <<>> = {}
    OBVIOUS
  <2>2. EpMovedFrom(ToSet(items), ToSet(epItems), page) /\ EpMovedFrom(ToSet(up), ToSet(epLayouts), page)
        /\ EpMovedFrom(ToSet(print), ToSet(epView.print), page)
    BY <1>6, <1>7 DEF EpElementsRest, EpSpotsRest
  <2>3. ToSet(a) \subseteq ToSet(up)
    <3>1. CASE a = <<>>
      BY <2>1, <3>1 DEF ToSet
    <3>2. CASE a = up
      BY <3>2
    <3> QED BY <1>15, <3>1, <3>2
  <2>4. EpMovedFrom(new, EpThings, page)
    <3>1. ASSUME NEW d \in new
          PROVE  \E t \in EpThings : t.page # page /\ d.page = EpMovedUp(t.page, page) /\ d.sheet = t.sheet
      <4>1. CASE d \in ToSet(items)
        BY <2>2, <4>1 DEF EpMovedFrom, EpThings, EpAll
      <4>2. CASE d \in ToSet(up)
        BY <2>2, <4>2 DEF EpMovedFrom, EpThings, EpAll
      <4>3. CASE ~epStale /\ d \in ToSet(print)
        BY <2>2, <4>3 DEF EpMovedFrom, EpThings, EpAll
      <4> QED BY <1>15, <2>3, <3>1, <4>1, <4>2, <4>3 DEF EpAll
    <3> QED BY <3>1 DEF EpMovedFrom
  <2> QED BY <1>1, <2>4, EpShifted DEF EpState
<1>16. PICK bare, zero : bare = EpAll(items, <<>>, print) /\ zero = 0
  OBVIOUS
<1>17. PICK spot, sheet : spot = [page |-> zero, sheet |-> sheet] /\ sheet = EpSheetOf(zero, bare)
  OBVIOUS
<1>18. EpFine(bare, epLeft.sheets)
  BY <1>15, <1>16
<1>19. spot \in EpSpots /\ EpFits(bare, spot) /\ spot.sheet < left.sheets
  <2>1. zero \in Nat
    BY <1>16
  <2>2. sheet \in Nat /\ sheet < epLeft.sheets + 1 /\ \A t \in bare : t.page = zero <=> t.sheet = sheet
    BY <1>17, <1>18, <2>1, EpSheetFits
  <2>3. spot \in EpSpots /\ spot.page = zero /\ spot.sheet = sheet
    BY ONLY <1>17, <2>1, <2>2 DEF EpSpots
  <2> QED BY <1>3, <2>2, <2>3 DEF EpFits
<1>20. (up # <<>> /\ layouts = up) \/ layouts = <<spot>>
  BY <1>4, <1>11, <1>14, <1>16, <1>17 DEF EpDeletePage
<1>21. layouts \in Seq(EpSpots) /\ EpOnePerPage(layouts)
  <2>1. CASE layouts = up
    BY <1>1, <1>7, <2>1 DEF EpSpotsRest, EpState
  <2>2. CASE layouts = <<spot>>
    <3>1. layouts \in Seq(EpSpots)
      BY <1>19, <2>2
    <3>2. DOMAIN layouts = {1}
      BY <2>2
    <3> QED BY <3>1, <3>2 DEF EpOnePerPage
  <2> QED BY <1>20, <2>1, <2>2
<1>22. EpFine(EpAll(items, layouts, view.print), left.sheets)
  <2>1. PICK new : new = EpAll(items, layouts, view.print)
    OBVIOUS
  <2>2. CASE layouts = up
    <3>1. EpFine(new, epLeft.sheets)
      BY <1>14, <1>15, <2>1, <2>2
    <3>2. \A t \in new : EpLike(t, t)
      BY DEF EpLike
    <3>3. EpFine(new, left.sheets)
      BY <1>1, <1>3, <3>1, <3>2, EpJoinsNone
    <3> QED BY <2>1, <3>3
  <2>3. CASE layouts = <<spot>>
    <3>1. ToSet(layouts) = {spot}
      BY <2>3 DEF ToSet
    <3>2. \A t \in bare \cup {spot} : EpLike(t, t)
      BY DEF EpLike
    <3>3. new \subseteq bare \cup {spot}
      BY <1>14, <1>16, <2>1, <3>1 DEF EpAll
    <3>4. \A t \in new : EpLike(t, spot) \/ \E u \in bare : EpLike(t, u)
      BY <3>2, <3>3
    <3>5. EpFine(new, left.sheets)
      BY <1>1, <1>3, <1>18, <1>19, <3>4, EpJoins
    <3> QED BY <2>1, <3>5
  <2> QED BY <1>20, <2>2, <2>3
<1>23. EpLeavesMade(items, layouts, view, left)
  <2>1. DOMAIN view.ids = {}
    BY <1>10, <1>14
  <2>2. EpTitled(ToSet(items), left.ids)
    BY <1>3, <1>6 DEF EpElementsRest
  <2> QED BY <1>6, <1>13, <1>21, <1>22, <2>1, <2>2 DEF EpLeavesMade, EpElementsRest
<1>24. EpRecord
  BY DEF EpDeletePage
<1> QED BY <1>2, <1>3, <1>4, <1>23, <1>24, EpStepHolds DEF EpStaled

LEMMA EpUndoInv == ASSUME EpInv, EpUndo, epStale' = TRUE PROVE EpInv'
<1>1. EpState(EpThings)
  BY EpStates
<1>2. PICK items, layouts, left, view, old, none :
        /\ items = epBefore[1] /\ layouts = epBefore[2] /\ left = epLeft' /\ view = epView' /\ old = epView
        /\ none = <<>>
  OBVIOUS
<1>3. EpUsed(left, 0, 0)
  <2>1. EpUse(0, 0)
    BY DEF EpUndo
  <2> QED BY <1>2, <2>1, EpUses
<1>4. left \in EpLefts /\ left.sheets = epLeft.sheets /\ left.ids = epLeft.ids
  BY <1>1, <1>3 DEF EpUsed, EpState
<1>5. EpMade(items, layouts, left)
  <2>1. EpMade(items, layouts, epLeft)
    BY <1>2 DEF EpInv, EpUndo
  <2> QED BY <1>4, <2>1 DEF EpMade
<1>6. epItems' = items /\ epLayouts' = layouts /\ epBefore' = <<>> /\ epLeft' = left /\ epView' = view
  BY <1>2 DEF EpUndo
<1>7. view = [old EXCEPT !.ids = none] /\ old \in EpViews /\ none \in Seq(Nat)
  BY <1>1, <1>2 DEF EpUndo, EpState, EpViews
<1>8. view \in EpViews
  BY ONLY <1>7 DEF EpViews
<1>9. DOMAIN view.ids = {}
  <2>1. view.ids = none
    BY ONLY <1>7 DEF EpViews
  <2> QED BY <1>2, <2>1
<1>10. EpTypeOK'
  BY <1>4, <1>6, <1>8 DEF EpTypeOK, EpViews, EpLefts
<1>11. EpThings' = ToSet(items) \cup ToSet(layouts)
  BY <1>6 DEF EpThings, EpAll
<1>12. EpWhole(EpThings)' /\ EpBelow(EpThings, epLeft.sheets)'
  BY <1>5, <1>6, <1>11 DEF EpMade, EpWhole, EpBelow
<1>13. EpSelectionShown'
  BY <1>6, <1>9 DEF EpSelectionShown
<1>14. EpMade(epItems, epLayouts, epLeft)'
  BY <1>5, <1>6
<1> QED BY <1>6, <1>10, <1>12, <1>13, <1>14 DEF EpInv

-----------------------------------------------------------------------------
LEMMA EpInitHolds == EpInit => EpInv
<1> SUFFICES ASSUME EpInit PROVE EpInv
  OBVIOUS
<1>1. PICK a, b, c, none : /\ a = EpElement(1, 1, 2, 0) /\ b = EpElement(2, 0, 1, 1) /\ c = EpElement(3, 1, 2, 2)
                          /\ none = <<>>
  OBVIOUS
<1>2. PICK spot : spot = [page |-> 0, sheet |-> 1]
  OBVIOUS
<1>3. none \in Seq(EpLeaves) /\ none \in Seq(EpSpots)
  BY <1>1
<1>4. /\ a = [id |-> 1, page |-> 1, sheet |-> 2, x |-> 0, want |-> 0, kids |-> none]
      /\ b = [id |-> 2, page |-> 0, sheet |-> 1, x |-> 1, want |-> 1, kids |-> none]
      /\ c = [id |-> 3, page |-> 1, sheet |-> 2, x |-> 2, want |-> 2, kids |-> none]
  BY <1>1 DEF EpElement
<1>5. a \in EpElements /\ b \in EpElements /\ c \in EpElements
  BY ONLY <1>3, <1>4 DEF EpElements
<1>6. /\ a.id = 1 /\ a.page = 1 /\ a.sheet = 2 /\ a.x = a.want /\ a.kids = none
      /\ b.id = 2 /\ b.page = 0 /\ b.sheet = 1 /\ b.x = b.want /\ b.kids = none
      /\ c.id = 3 /\ c.page = 1 /\ c.sheet = 2 /\ c.x = c.want /\ c.kids = none
  BY ONLY <1>4
<1>7. spot \in EpSpots /\ spot.page = 0 /\ spot.sheet = 1
  BY <1>2 DEF EpSpots
<1>8. PICK items, layouts, view, left :
        /\ items = epItems /\ layouts = epLayouts /\ view = epView /\ left = epLeft
  OBVIOUS
<1>9. items = <<a, b, c>> /\ layouts = <<spot>> /\ epStale = FALSE /\ epBefore = <<>>
  BY <1>1, <1>2, <1>8 DEF EpInit
<1>10. PICK ids, ops : ids = <<1, 3>> /\ ops = EpOps
  OBVIOUS
<1>11. view = [page |-> 1, ids |-> ids, print |-> none] /\ left = [ops |-> ops, ids |-> 4, sheets |-> 3]
  BY <1>1, <1>8, <1>10 DEF EpInit
<1>12. ids \in Seq(Nat) /\ ops \in Nat
  BY <1>10, EpAssumption
<1>13. view \in [page : Nat, ids : Seq(Nat), print : Seq(EpSpots)] /\ left \in [ops : Nat, ids : Nat, sheets : Nat]
  BY ONLY <1>3, <1>11, <1>12
<1>14. view.page = 1 /\ view.ids = ids /\ view.print = none /\ left.ids = 4 /\ left.sheets = 3
  BY ONLY <1>11
<1>15. items \in Seq(EpElements) /\ ToSet(items) = {a, b, c}
  <2>1. items \in Seq(EpElements)
    BY <1>5, <1>9
  <2>2. DOMAIN items = {1, 2, 3} /\ items[1] = a /\ items[2] = b /\ items[3] = c
    BY <1>9
  <2> QED BY <2>1, <2>2 DEF ToSet
<1>16. layouts \in Seq(EpSpots) /\ ToSet(layouts) = {spot} /\ DOMAIN layouts = {1}
  <2>1. layouts \in Seq(EpSpots) /\ DOMAIN layouts = {1} /\ layouts[1] = spot
    BY <1>7, <1>9
  <2> QED BY <2>1 DEF ToSet
<1>17. \A t \in {a, b, c} : EpIsPlaced(t)
  BY <1>1, <1>6 DEF EpIsPlaced
<1>18. EpTitled({a, b, c}, 4)
  BY <1>6 DEF EpTitled
<1>19. EpWhole({a, b, c} \cup {spot}) /\ EpBelow({a, b, c} \cup {spot}, 3)
  BY <1>6, <1>7 DEF EpWhole, EpBelow
<1>20. EpOnePerPage(layouts)
  BY <1>16 DEF EpOnePerPage
<1>21. EpMade(items, layouts, left)
  BY <1>14, <1>15, <1>16, <1>17, <1>18, <1>19, <1>20 DEF EpMade
<1>22. ToSet(view.print) = {}
  <2>1. DOMAIN <<>> = {}
    OBVIOUS
  <2> QED BY <1>1, <1>14, <2>1 DEF ToSet
<1>23. EpThings = {a, b, c} \cup {spot}
  BY <1>8, <1>15, <1>16, <1>22 DEF EpThings, EpAll
<1>24. ~EpPicksLost
  BY <1>8, <1>22 DEF EpPicksLost
<1>25. EpSelectionShown
  <2>1. ASSUME NEW i \in DOMAIN ids PROVE \E t \in {a, b, c} : t.id = ids[i] /\ t.page = 1
    <3>1. DOMAIN ids = {1, 2} /\ ids[1] = 1 /\ ids[2] = 3
      BY <1>10
    <3> QED BY <1>6, <3>1
  <2> QED BY <1>8, <1>14, <1>15, <2>1 DEF EpSelectionShown
<1>26. EpTypeOK
  BY <1>8, <1>9, <1>13 DEF EpTypeOK
<1> QED BY <1>8, <1>9, <1>14, <1>19, <1>21, <1>23, <1>24, <1>25, <1>26 DEF EpInv

LEMMA EpNextKeeps == EpInv /\ [EpNext]_epVars => EpInv'
<1> SUFFICES ASSUME EpInv, [EpNext]_epVars PROVE EpInv'
  OBVIOUS
<1>1. CASE EpEdit /\ EpStaled
  <2>1. CASE \E page \in EpPages :
               EpSetCurrentPage(page) \/ EpDeletePage(page) \/ EpDuplicatePage(page) \/ EpTogglePrint(page)
    BY <1>1, <2>1, EpSetCurrentPageInv, EpDeletePageInv, EpDuplicatePageInv, EpTogglePrintInv
  <2>2. CASE EpAddPage \/ EpMultiply \/ EpAddItem \/ EpDuplicateItem
    BY <1>1, <2>2, EpAddPageInv, EpMultiplyInv, EpAddItemInv, EpDuplicateItemInv
  <2>3. CASE \E template \in BOOLEAN : EpSetLayout(template)
    BY <1>1, <2>3, EpSetLayoutInv
  <2>4. CASE \E item \in ToSet(epItems), multi, canvas \in BOOLEAN : EpSelect(item, multi, canvas)
    BY <1>1, <2>4, EpSelectInv
  <2>5. CASE EpMoveSelected
    BY <1>1, <2>5, EpMoveSelectedInv
  <2>6. CASE \E up \in BOOLEAN : EpMoveItemZ(up)
    BY <1>1, <2>6, EpMoveItemZInv
  <2>7. CASE EpGroup
    BY <1>1, <2>7, EpGroupInv
  <2>8. CASE EpUngroup
    BY <1>1, <2>8, EpUngroupInv
  <2>9. CASE EpFitGroup
    BY <1>1, <2>9, EpFitGroupInv
  <2>10. CASE EpDelete(epView.ids)
    BY <1>1, <2>10, EpDeleteInv
  <2> QED BY <1>1, <2>1, <2>2, <2>3, <2>4, <2>5, <2>6, <2>7, <2>8, <2>9, <2>10 DEF EpEdit
<1>2. CASE EpUndo /\ epStale' = TRUE
  BY <1>2, EpUndoInv
<1>3. CASE UNCHANGED epVars
  <2>1. UNCHANGED <<epItems, epLayouts, epView, epStale, epBefore, epLeft>>
    BY <1>3 DEF epVars
  <2>2. EpThings' = EpThings /\ EpPicksLost' = EpPicksLost /\ EpSelectionShown' = EpSelectionShown
    BY <2>1 DEF EpThings, EpAll, EpPicksLost, EpPages, EpSelectionShown
  <2>3. EpTypeOK' = EpTypeOK
    BY <2>1 DEF EpTypeOK
  <2> QED BY <2>1, <2>2, <2>3 DEF EpInv
<1> QED BY <1>1, <1>2, <1>3 DEF EpNext, EpStaled

\* What the invariant says of what is drawn.
LEMMA EpPagesHold == EpInv => EpSheetsStayWhole /\ EpSelectionShown /\ EpPlaced
BY DEF EpInv, EpMade, EpSheetsStayWhole, EpPlaced

\* A sheet of a design stays whole through every edit: what shares an index
\* shares the sheet, a page has one background, what is selected is on the page
\* that is shown, and an element is where it was moved to, through any grouping.
THEOREM PagesAreKept == EpSpec => [](EpSheetsStayWhole /\ EpSelectionShown /\ EpPlaced)
<1>1. EpInit => EpInv
  BY EpInitHolds
<1>2. EpInv /\ [EpNext]_epVars => EpInv'
  BY EpNextKeeps
<1>3. EpInv => EpSheetsStayWhole /\ EpSelectionShown /\ EpPlaced
  BY EpPagesHold
<1> QED BY <1>1, <1>2, <1>3, PTL DEF EpSpec
=============================================================================
