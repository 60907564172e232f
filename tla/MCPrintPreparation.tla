------------------------- MODULE MCPrintPreparation -------------------------
(* How pages become images and images prints, on small instances: tabs     *)
(* that print over the store of prepared pages, the browser that renders on*)
(* the server, the plans an agent and direct prints make, and the sheets of a  *)
(* generic printer.  They share nothing, so a behaviour picks one of them. *)
EXTENDS PrintPreparation, BrowserRenderer, FrozenPlan, PaperLayout, TLC

VARIABLE path

pathVars == <<path, vars, rdVars, fzVars, plVars>>

MCPlJob(sizes, width, height, turn, split) ==
  [sizes |-> sizes, width |-> width, height |-> height, turn |-> turn, split |-> split]
MCPlSizes == {<<<<w, h>>>> : w \in 1..7, h \in 1..5} \cup {<<<<w, 2>>, <<v, 3>>>> : w \in 1..5, v \in {2, 3, 7}}
MCPlJobs ==
  {MCPlJob(sizes, 3, height, turn, split) : sizes \in MCPlSizes, height \in {0, 2, 4}, turn \in BOOLEAN, split \in BOOLEAN}

PathInit ==
  /\ path \in {"editor", "renderer", "plan", "paper"} /\ PrepInit /\ RdInit /\ FzInit
  /\ PlInit /\ (path # "paper" => plJob = MCPlJob(<<<<3, 1>>>>, 3, 0, FALSE, FALSE))
PathNext ==
  \/ path = "editor" /\ PrepNext /\ UNCHANGED <<path, rdVars, fzVars, plVars>>
  \/ path = "renderer" /\ RdNext /\ UNCHANGED <<path, vars, fzVars, plVars>>
  \/ path = "plan" /\ FzNext /\ UNCHANGED <<path, vars, rdVars, plVars>>
  \/ path = "paper" /\ PlNext /\ UNCHANGED <<path, vars, rdVars, fzVars>>

PathSpec == PathInit /\ [][PathNext]_pathVars

PrepSymmetry == Permutations(Jobs) \cup Permutations(Tabs) \cup Permutations(Handlers)

(* Images belong to one owner at a time, who closes them or hands them     *)
(* over; so do the slots, the contexts and the browser they are made with, *)
(* and a renderer that closed well has left none (rendering/template.py,   *)
(* paper_layout.py).                                                       *)
ImagesAreOwned == RdImagesOwned /\ RdPlacesReturn /\ RdOneBrowser /\ RdNothingLeft /\ PlImagesOwned

(* What one is told of a print is so: its outcome in the editor, the plan  *)
(* it was started with, and the whole image, on the paper                  *)
(* (frontend/src/printPreparation.js, mcp/server.py,                       *)
(* rendering/paper_layout.py).                                             *)
PrintsAreAsTold == OutcomeIsTold /\ FzPrintsThePlan /\ PlPlanIsWhole
=============================================================================
