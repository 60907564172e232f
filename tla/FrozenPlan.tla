----------------------------- MODULE FrozenPlan -----------------------------
(* What is printed and with what (services/harness.py, mcp/server.py,      *)
(* api/routes_print.py, services/print_executor.py): an agent previews a   *)
(* saved design, prepares a plan from the preview and starts it; a direct  *)
(* print makes a plan of its own on the way.  Designs, settings, profiles  *)
(* and the printer found at the address change meanwhile.                  *)
EXTENDS Integers, Sequences, FiniteSets, SequencesExt

CONSTANTS
  FzPages,       \* pages of the design
  FzRecords,     \* its batch records
  FzEdits,       \* changes of design, settings, profile and printer (bound)
  FzCalls        \* previews, plans and direct prints asked for (bound)

ASSUME FzAssumption ==
  /\ FzPages \in SUBSET Nat /\ IsFiniteSet(FzPages) /\ FzPages # {}
  /\ FzRecords \in Nat /\ FzEdits \in Nat /\ FzCalls \in Nat

VARIABLES
  fzNow,         \* versions there are now: [design, settings, profile, model]
  fzCache,       \* the model in scanned_devices_cache, "none" when it is not there
  fzAgent,       \* the call of the agent
  fzDirect,      \* the direct print, likewise
  fzPreviews,    \* previews: [asked, images, per, kept]
  fzPlans,       \* plans and their jobs
  fzPrinted,     \* what was printed, in order: [plan, images, model, settings, profile]
  fzLeft         \* [edits, calls] left

fzVars == <<fzNow, fzCache, fzAgent, fzDirect, fzPreviews, fzPlans, fzPrinted, fzLeft>>

FzModels == {"m1", "m2"}
FzCallIdle ==
  [at |-> "idle", asked |-> 0, images |-> <<>>, per |-> 0, copies |-> 1, model |-> "none", settings |-> 0]
FzInit ==
  /\ fzNow = [design |-> 1, settings |-> 1, profile |-> 1, model |-> "m1"] /\ fzCache = "none"
  /\ fzAgent = FzCallIdle /\ fzDirect = FzCallIdle
  /\ fzPreviews = {} /\ fzPlans = <<>> /\ fzPrinted = <<>>
  /\ fzLeft = [edits |-> FzEdits, calls |-> FzCalls]

FzAsked == fzLeft.calls > 0 /\ fzLeft' = [fzLeft EXCEPT !.calls = @ - 1]

(* Every record with the chosen pages, in the order of the pages.          *)
FzInOrder(pages) ==
  CHOOSE order \in [1..Cardinality(pages) -> pages] : \A i, j \in DOMAIN order : i < j => order[i] < order[j]
FzRendered(design, records, pages) ==
  LET order == FzInOrder(pages)
  IN [i \in 1..(records * Len(order)) |->
        [design |-> design, record |-> ((i - 1) \div Len(order)) + 1,
         page |-> order[((i - 1) % Len(order)) + 1]]]

(* _execute: the pages of a record as often as there are copies, then those*)
(* of the next one.                                                        *)
FzExpanded(images, per, copies) ==
  LET Group(k) == SubSeq(images, (k - 1) * per + 1, k * per)
  IN FlattenSeq([k \in 1..(Len(images) \div per) |-> FlattenSeq([n \in 1..copies |-> Group(k)])])

-----------------------------------------------------------------------------
(* preview: the revision is compared, the document copied; then it renders.*)
FzPreview(expected, pages) ==
  /\ fzAgent.at = "idle" /\ FzAsked
  /\ fzAgent' = IF expected # fzNow.design THEN FzCallIdle
                ELSE [FzCallIdle EXCEPT !.at = "rendering", !.asked = expected, !.per = Cardinality(pages),
                                        !.images = FzRendered(expected, FzRecords, pages)]
  /\ UNCHANGED <<fzNow, fzCache, fzDirect, fzPreviews, fzPlans, fzPrinted>>
(* Its images and manifest are stored and pinned for a day, or it failed.  *)
FzPreviewed ==
  /\ fzAgent.at = "rendering" /\ fzAgent' = FzCallIdle
  /\ \E stored \in BOOLEAN :
       fzPreviews' = IF stored
                     THEN fzPreviews \cup {[asked |-> fzAgent.asked, images |-> fzAgent.images,
                                            per |-> fzAgent.per, kept |-> TRUE]}
                     ELSE fzPreviews
  /\ UNCHANGED <<fzNow, fzCache, fzDirect, fzPlans, fzPrinted, fzLeft>>
(* The day is over, and the reaper comes.                                  *)
FzExpires ==
  /\ \E p \in fzPreviews : p.kept /\ fzPreviews' = (fzPreviews \ {p}) \cup {[p EXCEPT !.kept = FALSE]}
  /\ UNCHANGED <<fzNow, fzCache, fzAgent, fzDirect, fzPlans, fzPrinted, fzLeft>>

(* prepare: of a preview that has not expired.                             *)
FzPrepare(p, copies) ==
  /\ fzAgent.at = "idle" /\ FzAsked /\ p.kept
  /\ fzAgent' = [FzCallIdle EXCEPT !.at = "scanning", !.asked = p.asked, !.images = p.images,
                                   !.per = p.per, !.copies = copies]
  /\ UNCHANGED <<fzNow, fzCache, fzDirect, fzPreviews, fzPlans, fzPrinted>>

(* submit_legacy: the images of a direct print become sources of a plan.   *)
FzDirectPrint(pages) ==
  /\ fzDirect.at = "idle" /\ FzAsked
  /\ fzDirect' = [FzCallIdle EXCEPT !.at = "scanning", !.asked = fzNow.design,
                    !.images = FzRendered(fzNow.design, 1, pages), !.per = Cardinality(pages)]
  /\ UNCHANGED <<fzNow, fzCache, fzAgent, fzPreviews, fzPlans, fzPrinted>>

-----------------------------------------------------------------------------
(* The scan finds the printer or not; its result replaces the cache when it*)
(* ends, which may be after a later one has ended.                         *)
FzSeen(call, model) == [call EXCEPT !.at = "seen", !.model = model]
FzSees(agent) ==
  /\ \E model \in {fzNow.model, "none"} :
       IF agent THEN fzAgent.at = "scanning" /\ fzAgent' = FzSeen(fzAgent, model) /\ UNCHANGED fzDirect
       ELSE fzDirect.at = "scanning" /\ fzDirect' = FzSeen(fzDirect, model) /\ UNCHANGED fzAgent
  /\ UNCHANGED <<fzNow, fzCache, fzPreviews, fzPlans, fzPrinted, fzLeft>>
FzFound(call) == IF call.model = "none" THEN FzCallIdle ELSE [call EXCEPT !.at = "reading"]
FzScanned(agent) ==
  /\ IF agent
     THEN fzAgent.at = "seen" /\ fzCache' = fzAgent.model /\ fzAgent' = FzFound(fzAgent) /\ UNCHANGED fzDirect
     ELSE fzDirect.at = "seen" /\ fzCache' = fzDirect.model /\ fzDirect' = FzFound(fzDirect) /\ UNCHANGED fzAgent
  /\ UNCHANGED <<fzNow, fzPreviews, fzPlans, fzPrinted, fzLeft>>

(* The settings are read, then the profile; another thread may store either*)
(* between.  What was previewed must still be there when the plan is made. *)
FzReads(agent) ==
  /\ IF agent
     THEN /\ fzAgent.at = "reading"
          /\ fzAgent' = [fzAgent EXCEPT !.at = "planning", !.settings = fzNow.settings]
          /\ UNCHANGED fzDirect
     ELSE /\ fzDirect.at = "reading"
          /\ fzDirect' = [fzDirect EXCEPT !.at = "planning", !.settings = fzNow.settings]
          /\ UNCHANGED fzAgent
  /\ UNCHANGED <<fzNow, fzCache, fzPreviews, fzPlans, fzPrinted, fzLeft>>
FzPlan(call, direct) ==
  [at |-> IF direct THEN "started" ELSE "planned", direct |-> direct, asked |-> call.asked,
   images |-> call.images, per |-> call.per, copies |-> call.copies, model |-> call.model, settings |-> call.settings, profile |-> fzNow.profile]
FzPlanned ==
  /\ fzAgent.at = "planning" /\ fzAgent' = FzCallIdle
  /\ fzPlans' = IF \E p \in fzPreviews : p.kept /\ p.images = fzAgent.images
                THEN Append(fzPlans, FzPlan(fzAgent, FALSE)) ELSE fzPlans
  /\ UNCHANGED <<fzNow, fzCache, fzDirect, fzPreviews, fzPrinted, fzLeft>>
FzDirectStarts ==
  /\ fzDirect.at = "planning" /\ fzDirect' = [FzCallIdle EXCEPT !.at = "waiting"]
  /\ fzPlans' = Append(fzPlans, FzPlan(fzDirect, TRUE))
  /\ UNCHANGED <<fzNow, fzCache, fzAgent, fzPreviews, fzPrinted, fzLeft>>
FzStart(i) ==
  /\ fzPlans[i].at = "planned" /\ fzPlans' = [fzPlans EXCEPT ![i].at = "started"]
  /\ UNCHANGED <<fzNow, fzCache, fzAgent, fzDirect, fzPreviews, fzPrinted, fzLeft>>

-----------------------------------------------------------------------------
(* execute_claimed_print_jobs: a printer that is in the cache is not looked*)
(* for again; one that is found to be another model is refused.            *)
FzEnds(i, how) ==
  /\ fzPlans' = [fzPlans EXCEPT ![i].at = how]
  /\ fzDirect' = IF fzPlans[i].direct THEN FzCallIdle ELSE fzDirect
FzSends(i, model) ==
  fzPrinted' = Append(fzPrinted,
    [plan |-> i, images |-> FzExpanded(fzPlans[i].images, fzPlans[i].per, fzPlans[i].copies),
     model |-> model, settings |-> fzPlans[i].settings, profile |-> fzPlans[i].profile])
FzExecutes(i) ==
  /\ fzPlans[i].at = "started"
  /\ \E model \in IF fzCache # "none" THEN {fzCache} ELSE {fzNow.model, "none"} :
       /\ fzCache' = model
       /\ IF model = fzPlans[i].model
          THEN FzEnds(i, "printed") /\ FzSends(i, model)
          ELSE FzEnds(i, "refused") /\ UNCHANGED fzPrinted
  /\ UNCHANGED <<fzNow, fzAgent, fzPreviews, fzLeft>>

(* What others do: save the design, the settings, the profile; replace or  *)
(* rename the printer at the address.                                      *)
FzChange ==
  /\ fzLeft.edits > 0 /\ fzLeft' = [fzLeft EXCEPT !.edits = @ - 1]
  /\ \/ \E field \in {"design", "settings", "profile"} : fzNow' = [fzNow EXCEPT ![field] = @ + 1]
     \/ \E model \in FzModels \ {fzNow.model} : fzNow' = [fzNow EXCEPT !.model = model]
  /\ UNCHANGED <<fzCache, fzAgent, fzDirect, fzPreviews, fzPlans, fzPrinted>>

FzNext ==
  \/ \E expected \in 1..fzNow.design, pages \in (SUBSET FzPages) \ {{}} : FzPreview(expected, pages)
  \/ \E p \in fzPreviews, copies \in {1, 2} : FzPrepare(p, copies)
  \/ FzDirectPrint(FzPages)
  \/ FzPreviewed \/ FzExpires \/ FzPlanned \/ FzDirectStarts \/ FzChange
  \/ \E agent \in BOOLEAN : FzSees(agent) \/ FzScanned(agent) \/ FzReads(agent)
  \/ \E i \in DOMAIN fzPlans : FzStart(i) \/ FzExecutes(i)

FzSpec == FzInit /\ [][FzNext]_fzVars

-----------------------------------------------------------------------------
(* What is printed is the plan (mcp/server.py:370, "prepared plans retain  *)
(* their frozen settings"): its images are those of one state of the design*)
(* that were previewed, every record's pages as often as asked; the driver *)
(* is that of the planned model, the settings those of the plan; and a plan*)
(* is printed once.                                                        *)
FzPrintsThePlan ==
  /\ \A out \in ToSet(fzPrinted) :
       LET plan == fzPlans[out.plan] IN
       /\ out.model = plan.model /\ out.settings = plan.settings /\ out.profile = plan.profile
       /\ Len(out.images) = Len(plan.images) * plan.copies
       /\ \A i \in DOMAIN out.images :
            out.images[i] = plan.images[((i - 1) \div (plan.per * plan.copies)) * plan.per
                                        + ((i - 1) % plan.per) + 1]
       /\ \A i \in DOMAIN plan.images : plan.images[i].design = plan.asked
  /\ \A x, y \in DOMAIN fzPrinted : fzPrinted[x].plan = fzPrinted[y].plan => x = y

-----------------------------------------------------------------------------
(* What the proofs add: what a call, a preview or a plan holds was rendered *)
(* of one state of the design, in whole groups of pages, and what was       *)
(* printed is what its plan says, of a plan that is over.                   *)
FzImages == [design : Nat, record : Nat, page : FzPages]
FzCallRecords ==
  [at : {"idle", "rendering", "scanning", "seen", "reading", "planning", "waiting"}, asked : Nat,
   images : Seq(FzImages), per : Nat, copies : {1, 2}, model : FzModels \cup {"none"}, settings : Nat]
FzPreviewRecords == [asked : Nat, images : Seq(FzImages), per : Nat, kept : BOOLEAN]
FzPlanRecords ==
  [at : {"planned", "started", "printed", "refused"}, direct : BOOLEAN, asked : Nat,
   images : Seq(FzImages), per : Nat, copies : {1, 2}, model : FzModels \cup {"none"},
   settings : Nat, profile : Nat]
FzTypeOK ==
  /\ fzNow \in [design : Nat, settings : Nat, profile : Nat, model : FzModels]
  /\ fzCache \in FzModels \cup {"none"}
  /\ fzAgent \in FzCallRecords /\ fzDirect \in FzCallRecords
  /\ fzPreviews \subseteq FzPreviewRecords /\ fzPlans \in Seq(FzPlanRecords)
  /\ fzLeft \in [edits : Nat, calls : Nat]
FzOfOneDesign(x) ==
  /\ x.per # 0 /\ Len(x.images) % x.per = 0
  /\ \A i \in DOMAIN x.images : x.images[i].design = x.asked
FzFrozenInv ==
  /\ fzAgent.at \notin {"idle", "waiting"} => FzOfOneDesign(fzAgent)
  /\ fzDirect.at \notin {"idle", "waiting"} => FzOfOneDesign(fzDirect)
  /\ \A p \in fzPreviews : FzOfOneDesign(p)
  /\ \A i \in DOMAIN fzPlans : FzOfOneDesign(fzPlans[i])
FzOut(i) ==
  [plan |-> i, images |-> FzExpanded(fzPlans[i].images, fzPlans[i].per, fzPlans[i].copies),
   model |-> fzPlans[i].model, settings |-> fzPlans[i].settings, profile |-> fzPlans[i].profile]
FzPrintedInv ==
  /\ Len(fzPrinted) \in Nat /\ fzPrinted = [k \in 1..Len(fzPrinted) |-> FzOut(fzPrinted[k].plan)]
  /\ \A k \in DOMAIN fzPrinted :
       fzPrinted[k].plan \in DOMAIN fzPlans /\ fzPlans[fzPrinted[k].plan].at = "printed"
  /\ \A x, y \in DOMAIN fzPrinted : fzPrinted[x].plan = fzPrinted[y].plan => x = y
FzInv == FzTypeOK /\ FzFrozenInv /\ FzPrintedInv
=============================================================================
