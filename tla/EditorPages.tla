---------------------------- MODULE EditorPages ----------------------------
(* The pages of a design and what is drawn on them (frontend               *)
(* state/slices/document.js, selection.js, batch.js, with the handlers of  *)
(* the canvas).  A page is an index that changes when a page before it     *)
(* goes; "sheet" says which sheet of paper an element was put on, "want"   *)
(* where on it.  One coordinate stands for two, every element is one wide. *)
EXTENDS Integers, Sequences, FiniteSets, SequencesExt

CONSTANTS
  EpCanvas,      \* width of the canvas
  EpOps          \* edits (bound)

ASSUME EpAssumption == EpCanvas \in Nat /\ EpOps \in Nat

VARIABLES
  epItems,       \* elements: [id, page, sheet, x, want, kids]; kids of a group, relative
  epLayouts,     \* backgrounds: [page, sheet]
  epView,        \* [page, ids, print]: currentPage, selectedIds and
                 \*   selectedPagesForPrint, each [page, sheet] with the sheet meant
  epStale,       \* a page picked for printing went without deletePage
  epBefore,      \* the step undo goes back to: <<items, layouts>>
  epLeft         \* [ops, ids, sheets]: what is left, the next id and sheet

epVars == <<epItems, epLayouts, epView, epStale, epBefore, epLeft>>

EpElement(id, page, sheet, x) == [id |-> id, page |-> page, sheet |-> sheet, x |-> x, want |-> x, kids |-> <<>>]
EpInit ==
  /\ epItems = <<EpElement(1, 1, 2, 0), EpElement(2, 0, 1, 1), EpElement(3, 1, 2, 2)>>
  /\ epLayouts = <<[page |-> 0, sheet |-> 1]>>
  /\ epView = [page |-> 1, ids |-> <<1, 3>>, print |-> <<>>]
  /\ epStale = FALSE /\ epBefore = <<>>
  /\ epLeft = [ops |-> EpOps, ids |-> 4, sheets |-> 3]

(* What a sequence keeps of its places, in their order.                    *)
EpPlaces(n, places) == FlattenSeq([i \in 1..n |-> IF i \in places THEN <<i>> ELSE <<>>])
EpKept(things, places) ==
  LET at == EpPlaces(Len(things), places) IN [k \in DOMAIN at |-> things[at[k]]]
EpOn(things, page) == EpKept(things, {i \in DOMAIN things : things[i].page = page})
EpOff(things, page) == EpKept(things, {i \in DOMAIN things : things[i].page # page})

EpPages == {0, epView.page} \cup {t.page : t \in ToSet(epItems) \cup ToSet(epLayouts)}
EpLast == CHOOSE p \in EpPages : \A q \in EpPages : p >= q
(* What shows which sheet an index is: the elements and backgrounds on it,  *)
(* and the picks, unless they went stale.                                  *)
EpAll(items, layouts, picks) ==
  ToSet(items) \cup ToSet(layouts) \cup (IF epStale THEN {} ELSE ToSet(picks))
EpThings == EpAll(epItems, epLayouts, epView.print)
EpSheetOf(page, things) ==
  IF \E t \in things : t.page = page THEN (CHOOSE t \in things : t.page = page).sheet
  ELSE epLeft.sheets
EpSheet(page) == EpSheetOf(page, EpThings)
EpIsPicked(t) == Contains(epView.ids, t.id)
EpSelects(ids) == [epView EXCEPT !.ids = ids]
EpShows(page) == [epView EXCEPT !.page = page, !.ids = <<>>]
EpUse(ids, sheets) ==
  /\ epLeft.ops > 0
  /\ epLeft' = [ops |-> epLeft.ops - 1, ids |-> epLeft.ids + ids, sheets |-> epLeft.sheets + sheets]
EpRecord == epBefore' = <<epItems, epLayouts>>
EpWithIds(things, first) == [i \in DOMAIN things |-> [things[i] EXCEPT !.id = first + i - 1]]

-----------------------------------------------------------------------------
(* Pages.                                                                   *)
EpSetCurrentPage(page) ==
  /\ page \in EpPages /\ page # epView.page /\ epView' = EpShows(page)
  /\ EpUse(0, 0) /\ UNCHANGED <<epItems, epLayouts, epBefore>>

EpAddPage ==
  /\ EpUse(0, 1) /\ EpRecord
  /\ epLayouts' = Append(epLayouts, [page |-> EpLast + 1, sheet |-> epLeft.sheets])
  /\ epView' = EpShows(EpLast + 1) /\ UNCHANGED epItems

EpMovedUp(p, page) == IF p > page THEN p - 1 ELSE p
EpRest(things, page) ==
  LET rest == EpOff(things, page) IN [i \in DOMAIN rest |-> [rest[i] EXCEPT !.page = EpMovedUp(@, page)]]
(* The page shown is the one before; a document keeps one background.      *)
EpDeletePage(page) ==
  /\ page \in EpPages /\ EpUse(0, 1) /\ EpRecord
  /\ epItems' = EpRest(epItems, page)
  /\ epView' = [page |-> IF epView.page = page THEN (IF page = 0 THEN 0 ELSE page - 1)
                         ELSE EpMovedUp(epView.page, page),
                ids |-> <<>>, print |-> EpRest(epView.print, page)]
  /\ LET layouts == EpRest(epLayouts, page) IN
     epLayouts' = IF layouts # <<>> THEN layouts
                  ELSE <<[page |-> 0, sheet |-> EpSheetOf(0, EpAll(epItems', <<>>, epView'.print))]>>

(* duplicatePage and multiplyWorkspace put copies on new last pages.       *)
EpCopyOf(page, to, sheet, first) ==
  LET items == EpOn(epItems, page) IN
  [i \in DOMAIN items |-> [items[i] EXCEPT !.id = first + i - 1, !.page = to, !.sheet = sheet]]
EpDuplicatePage(page) ==
  LET here == EpOn(epItems, page) IN
  /\ page \in EpPages /\ EpUse(Len(here), 1) /\ EpRecord
  /\ epItems' = epItems \o EpCopyOf(page, EpLast + 1, epLeft.sheets, epLeft.ids)
  /\ epLayouts' = Append(epLayouts, [page |-> EpLast + 1, sheet |-> epLeft.sheets])
  /\ epView' = EpShows(EpLast + 1)

EpMultiply ==
  LET here == EpOn(epItems, epView.page) IN
  /\ EpUse(2 * Len(here), 2) /\ EpRecord
  /\ epItems' = epItems \o EpCopyOf(epView.page, EpLast + 1, epLeft.sheets, epLeft.ids)
                        \o EpCopyOf(epView.page, EpLast + 2, epLeft.sheets + 1, epLeft.ids + Len(here))
  /\ epLayouts' = epLayouts \o <<[page |-> EpLast + 1, sheet |-> epLeft.sheets],
                                 [page |-> EpLast + 2, sheet |-> epLeft.sheets + 1]>>
  /\ UNCHANGED epView

(* setHtmlContent keeps the place of a background, setTemplateConfig puts  *)
(* it last.                                                                *)
EpSetLayout(template) ==
  LET mine == [page |-> epView.page, sheet |-> EpSheet(epView.page)] IN
  /\ EpUse(0, 1) /\ EpRecord
  /\ epLayouts' = IF ~template /\ EpOn(epLayouts, epView.page) # <<>> THEN epLayouts
                  ELSE Append(EpOff(epLayouts, epView.page), mine)
  /\ UNCHANGED <<epItems, epView>>

EpTogglePrint(page) ==
  LET picked == \E t \in ToSet(epView.print) : t.page = page IN
  /\ page \in EpPages /\ EpUse(0, 1)
  /\ epView' = [epView EXCEPT !.print =
                  IF picked THEN EpOff(@, page) ELSE Append(@, [page |-> page, sheet |-> EpSheet(page)])]
  /\ UNCHANGED <<epItems, epLayouts, epBefore>>

-----------------------------------------------------------------------------
(* Elements.                                                                *)
EpAddItem ==
  LET item == EpElement(epLeft.ids, epView.page, EpSheet(epView.page), 0) IN
  /\ EpUse(1, 1) /\ EpRecord /\ epItems' = Append(epItems, item)
  /\ epView' = EpSelects(<<item.id>>) /\ UNCHANGED epLayouts

EpDuplicateItem ==
  /\ epView.ids # <<>>
  /\ LET clones == EpKept(epItems, {i \in DOMAIN epItems : epItems[i].id = Last(epView.ids)}) IN
     /\ EpUse(Len(clones), 0) /\ EpRecord
     /\ epItems' = epItems \o EpWithIds(clones, epLeft.ids)
  /\ UNCHANGED <<epLayouts, epView>>

(* The list of objects shows the current page.  On the canvas the page is  *)
(* set first, which clears the selection whatever key is held.             *)
EpSelect(item, multi, canvas) ==
  /\ EpUse(0, 0) /\ (canvas \/ item.page = epView.page)
  /\ LET ids == IF canvas THEN <<>> ELSE epView.ids IN
     epView' = [epView EXCEPT !.page = item.page,
                  !.ids = IF ~multi THEN <<item.id>>
                          ELSE IF Contains(ids, item.id) THEN EpKept(ids, {i \in DOMAIN ids : ids[i] # item.id})
                          ELSE Append(ids, item.id)]
  /\ UNCHANGED <<epItems, epLayouts, epBefore>>

EpChanges(items) == EpRecord /\ epItems' = items /\ UNCHANGED epLayouts
EpKidsMoved(kids) == [k \in DOMAIN kids |-> [kids[k] EXCEPT !.want = @ + 1]]
EpMoved(t) == [t EXCEPT !.x = @ + 1, !.want = @ + 1, !.kids = EpKidsMoved(@)]
EpMoveSelected ==
  /\ epView.ids # <<>> /\ EpUse(0, 0)
  /\ EpChanges([i \in DOMAIN epItems |-> IF EpIsPicked(epItems[i]) THEN EpMoved(epItems[i]) ELSE epItems[i]])
  /\ UNCHANGED epView

EpSwapped(i, j) == [epItems EXCEPT ![i] = epItems[j], ![j] = epItems[i]]
EpMoveItemZ(up) ==
  /\ epView.ids # <<>> /\ EpUse(0, 0)
  /\ \E i, j \in DOMAIN epItems :
       /\ epItems[i].id = Last(epView.ids) /\ epItems[j].page = epItems[i].page
       /\ IF up THEN j > i ELSE j < i
       /\ \A k \in DOMAIN epItems :
            epItems[k].page = epItems[i].page => ~(i < k /\ k < j) /\ ~(j < k /\ k < i)
       /\ EpChanges(EpSwapped(i, j))
  /\ UNCHANGED epView

(* Groups of groups are left out.                                          *)
EpInside(picked, left) == [i \in DOMAIN picked |-> [picked[i] EXCEPT !.x = @ - left]]
EpGroup ==
  LET picked == EpKept(epItems, {i \in DOMAIN epItems : EpIsPicked(epItems[i])})
      left == CHOOSE x \in {t.x : t \in ToSet(picked)} : \A t \in ToSet(picked) : x <= t.x
      alone == EpElement(epLeft.ids, picked[1].page, picked[1].sheet, left)
      group == [alone EXCEPT !.kids = EpInside(picked, left)]
  IN /\ Len(picked) >= 2 /\ EpUse(1, 0) /\ \A t \in ToSet(picked) : t.kids = <<>>
     /\ EpChanges(Append(EpKept(epItems, {i \in DOMAIN epItems : ~EpIsPicked(epItems[i])}), group))
     /\ epView' = EpSelects(<<group.id>>)

EpChosenGroup(g) == g.kids # <<>> /\ epView.ids # <<>> /\ g.id = Last(epView.ids)
EpUngroup ==
  \E g \in ToSet(epItems) :
    LET out == [i \in DOMAIN g.kids |->
                  [g.kids[i] EXCEPT !.id = epLeft.ids + i - 1, !.x = @ + g.x, !.page = g.page, !.sheet = g.sheet]]
    IN /\ EpChosenGroup(g) /\ EpUse(Len(out), 0)
       /\ EpChanges(EpKept(epItems, {i \in DOMAIN epItems : epItems[i].id # g.id}) \o out)
       /\ epView' = EpSelects([i \in DOMAIN out |-> out[i].id])

(* The children are scaled to the width of the canvas, whole numbers only. *)
EpScaled(kids, scale) ==
  [k \in DOMAIN kids |-> [kids[k] EXCEPT !.x = @ * scale, !.want = kids[k].x * scale]]
EpFitted(g, scale) == [g EXCEPT !.x = 0, !.want = 0, !.kids = EpScaled(@, scale)]
EpFitGroup ==
  \E i \in DOMAIN epItems :
    LET g == epItems[i]
        right == CHOOSE x \in {k.x : k \in ToSet(g.kids)} : \A k \in ToSet(g.kids) : x >= k.x
        width == 1 + right
    IN /\ EpChosenGroup(g) /\ EpCanvas % width = 0 /\ EpUse(0, 0)
       /\ EpChanges([epItems EXCEPT ![i] = EpFitted(g, EpCanvas \div width)])
       /\ UNCHANGED epView

EpDelete(ids) ==
  /\ ids # <<>> /\ EpUse(0, 0)
  /\ EpChanges(EpKept(epItems, {i \in DOMAIN epItems : ~Contains(ids, epItems[i].id)}))
  /\ epView' = EpSelects(EpKept(epView.ids, {i \in DOMAIN epView.ids : ~Contains(ids, epView.ids[i])}))

(* Undo brings the elements and backgrounds back and clears the selection; *)
(* the page shown and the pages picked for printing stay as they are, and  *)
(* may then name another sheet or none.                                    *)
EpUndo ==
  /\ epBefore # <<>> /\ EpUse(0, 0)
  /\ epItems' = epBefore[1] /\ epLayouts' = epBefore[2] /\ epBefore' = <<>>
  /\ epView' = [epView EXCEPT !.ids = <<>>]

EpEdit ==
  \/ \E page \in EpPages :
       EpSetCurrentPage(page) \/ EpDeletePage(page) \/ EpDuplicatePage(page) \/ EpTogglePrint(page)
  \/ EpAddPage \/ EpMultiply \/ EpAddItem \/ EpDuplicateItem
  \/ \E template \in BOOLEAN : EpSetLayout(template)
  \/ \E item \in ToSet(epItems), multi, canvas \in BOOLEAN : EpSelect(item, multi, canvas)
  \/ EpMoveSelected \/ (\E up \in BOOLEAN : EpMoveItemZ(up))
  \/ EpGroup \/ EpUngroup \/ EpFitGroup
  \/ EpDelete(epView.ids)
(* A page with nothing on it is gone as soon as another one is shown; its  *)
(* pick stays and a later page with that index inherits it.                *)
EpPicksLost == ~({t.page : t \in ToSet(epView.print)} \subseteq EpPages)
EpNext ==
  \/ EpEdit /\ epStale' = (epStale \/ EpPicksLost')
  \/ EpUndo /\ epStale' = TRUE
EpSpec == EpInit /\ [][EpNext]_epVars

-----------------------------------------------------------------------------
(* A sheet stays whole: what shares an index shares a sheet, what shares a *)
(* sheet shares an index, and an index picked for printing is the sheet    *)
(* that was picked, unless picks went stale (deletePage, document.js).      *)
EpWhole(things) == \A s, t \in things : s.page = t.page <=> s.sheet = t.sheet
EpOnePerPage(layouts) == \A i, j \in DOMAIN layouts : layouts[i].page = layouts[j].page => i = j
EpSheetsStayWhole == EpWhole(EpThings) /\ EpOnePerPage(epLayouts)

(* What is selected exists and is on the page that is shown, so grouping   *)
(* never moves an element to another page (groupSelected).                 *)
EpSelectionShown ==
  \A i \in DOMAIN epView.ids : \E t \in ToSet(epItems) : t.id = epView.ids[i] /\ t.page = epView.page

(* An element is where it was moved to, through any grouping.              *)
EpIsPlaced(t) == IF t.kids = <<>> THEN t.x = t.want ELSE \A k \in ToSet(t.kids) : t.x + k.x = k.want
EpPlaced == \A t \in ToSet(epItems) : EpIsPlaced(t)

-----------------------------------------------------------------------------
(* What the properties rest on: a design is well made, also the one that   *)
(* undo goes back to, and no sheet comes back that is not there.           *)
EpLeaves == [id : Nat, page : Nat, sheet : Nat, x : Nat, want : Nat, kids : {<<>>}]
EpElements == [id : Nat, page : Nat, sheet : Nat, x : Nat, want : Nat, kids : Seq(EpLeaves)]
EpSpots == [page : Nat, sheet : Nat]
EpBelow(things, sheets) == \A t \in things : t.sheet < sheets
(* An identity is on one page, and given out.                              *)
EpTitled(items, ids) ==
  (\A t \in items : t.id < ids) /\ \A s, t \in items : s.id = t.id => s.page = t.page
EpMade(items, layouts, left) ==
  /\ items \in Seq(EpElements) /\ layouts \in Seq(EpSpots)
  /\ EpOnePerPage(layouts) /\ \A t \in ToSet(items) : EpIsPlaced(t)
  /\ EpTitled(ToSet(items), left.ids)
  /\ EpWhole(ToSet(items) \cup ToSet(layouts)) /\ EpBelow(ToSet(items) \cup ToSet(layouts), left.sheets)
EpTypeOK ==
  /\ epView \in [page : Nat, ids : Seq(Nat), print : Seq(EpSpots)] /\ epStale \in BOOLEAN
  /\ epLeft \in [ops : Nat, ids : Nat, sheets : Nat]
EpInv ==
  /\ EpTypeOK /\ EpMade(epItems, epLayouts, epLeft)
  /\ epBefore # <<>> => EpMade(epBefore[1], epBefore[2], epLeft)
  /\ EpWhole(EpThings) /\ EpBelow(EpThings, epLeft.sheets)
  /\ ~epStale => ~EpPicksLost
  /\ EpSelectionShown
=============================================================================
