----------------------------- MODULE PaperLayout -----------------------------
(* Label images on the paper of a generic printer                           *)
(* (rendering/paper_layout.py, vendors/generic/client.py): the plan of      *)
(* strips, made before any image is touched, and the generator that makes   *)
(* one sheet at a time while its caller prints it.  An image is a number,   *)
(* those of the caller are negative; colours and PIL's resampling are left  *)
(* out.                                                                     *)
EXTENDS Integers, Sequences, FiniteSets, SequencesExt

CONSTANTS
  PlJobs,        \* what is asked for: [sizes, width, height (0 is none), turn, split]
  PlMaxJobs,     \* MAX_PRINT_JOBS
  PlMaxSide,     \* MAX_DIMENSION
  PlMaxPixels    \* MAX_RENDER_PIXELS

(* An image has at least one dot, and so has the paper in its width.        *)
ASSUME PlAssumption ==
  /\ PlMaxJobs \in Nat /\ PlMaxSide \in Nat /\ PlMaxPixels \in Nat
  /\ PlJobs \subseteq [sizes : Seq((Nat \ {0}) \X (Nat \ {0})), width : Nat \ {0}, height : Nat,
                      turn : BOOLEAN, split : BOOLEAN]

VARIABLES
  plJob, plPlan,     \* the job, and its strips; <<>> is a refused one
  plAt,          \* "open", "given" (suspended at its yield), "ended"
  plStrip,       \* strips made
  plImages,      \* the generator's names: [source, working, content, normalized, fitted]
  plOwned,       \* owned
  plMade,        \* images made
  plClosed,      \* images closed
  plTaken        \* sheets handed to the caller

plVars == <<plJob, plPlan, plAt, plStrip, plImages, plOwned, plMade, plClosed, plTaken>>

-----------------------------------------------------------------------------
(* round: to the nearest, halves to the even one.                           *)
PlRound(a, b) ==
  LET down == a \div b
      twice == 2 * (a % b)
  IN IF twice > b \/ (twice = b /\ down % 2 = 1) THEN down + 1 ELSE down
PlAtLeastOne(n) == IF n < 1 THEN 1 ELSE n

(* One strip of an image of that size, whose columns are left + 1 .. right. *)
PlFit(job, index, left, right, high, cut) ==
  LET wide == right - left
      squeezed == ~cut /\ wide > job.width
      tall == IF squeezed THEN PlAtLeastOne((high * job.width) \div wide) ELSE high
      over == job.height # 0 /\ tall > job.height
      fit == IF over THEN PlAtLeastOne(PlRound(job.width * job.height, tall)) ELSE job.width
  IN [image |-> index, left |-> left, right |-> right, whole |-> <<wide, high>>,
      normal |-> <<job.width, tall>>,
      offset |-> IF cut \/ wide >= job.width THEN 0 ELSE (job.width - wide) \div 2,
      fitted |-> <<fit, IF over THEN job.height ELSE tall>>,
      canvas |-> <<job.width, IF job.height # 0 THEN job.height ELSE tall>>,
      paste |-> <<IF over THEN (job.width - fit) \div 2 ELSE 0,
                  IF over \/ job.height = 0 THEN 0 ELSE (job.height - tall) \div 2>>]

PlTurned(size, turn) == IF turn THEN <<size[2], size[1]>> ELSE size
PlStripsOf(job, index) ==
  LET size == PlTurned(job.sizes[index], job.turn)
      cut == job.split /\ size[1] > job.width
      count == IF cut THEN (size[1] + job.width - 1) \div job.width ELSE 1
      Edge(k) == IF ~cut \/ k * job.width > size[1] THEN size[1] ELSE k * job.width
  IN [k \in 1..count |-> PlFit(job, index, IF cut THEN (k - 1) * job.width ELSE 0, Edge(k), size[2], cut)]

(* _build_image_plan: what is over a limit is refused as a whole.           *)
PlPixels(sizes) == FoldLeft(LAMBDA n, s : n + s[1] * s[2], 0, sizes)
PlWithin(size) == size[1] <= PlMaxSide /\ size[2] <= PlMaxSide /\ size[1] * size[2] <= PlMaxPixels
PlPlanOf(job) ==
  LET strips == FlattenSeq([i \in DOMAIN job.sizes |-> PlStripsOf(job, i)])
  IN IF \/ Len(strips) > PlMaxJobs
        \/ PlPixels(job.sizes) > PlMaxPixels
        \/ PlPixels([k \in DOMAIN strips |-> strips[k].canvas]) > PlMaxPixels
        \/ \E s \in ToSet(job.sizes) : ~PlWithin(s)
        \/ \E s \in ToSet(strips) : ~PlWithin(s.normal) \/ ~PlWithin(s.fitted) \/ ~PlWithin(s.canvas)
     THEN <<>> ELSE strips

-----------------------------------------------------------------------------
PlNone == [source |-> 0, working |-> 0, content |-> 0, normalized |-> 0, fitted |-> 0]
PlInit ==
  /\ plJob \in PlJobs /\ plPlan = PlPlanOf(plJob)
  /\ plAt = IF plPlan = <<>> THEN "ended" ELSE "open"
  /\ plStrip = 0 /\ plImages = PlNone /\ plOwned = {} /\ plMade = 0 /\ plClosed = {} /\ plTaken = {}

(* What the generator lets go when it goes on after a yield: names may      *)
(* stand for one image.                                                     *)
PlDropped(last) ==
  LET n == plImages IN
  (IF n.fitted # n.normalized THEN {n.fitted} ELSE {})
    \cup (IF n.normalized # n.content THEN {n.normalized} ELSE {})
    \cup (IF n.content # n.working THEN {n.content} ELSE {})
    \cup (IF last /\ n.working # 0 THEN {n.working} ELSE {})

(* Up to the next yield.  Where convert gives back what it was given, the   *)
(* source is copied and a turned image is used as it is.                    *)
PlSheet(same) ==
  LET s == plPlan[plStrip + 1]
      fresh == plStrip = 0 \/ plImages.source # s.image
      copies == IF ~fresh THEN 0 ELSE IF plJob.turn /\ ~same THEN 2 ELSE 1
      working == IF fresh THEN plMade + copies ELSE plImages.working
      size == PlTurned(plJob.sizes[s.image], plJob.turn)
      c == IF s.whole = size THEN 0 ELSE 1
      content == IF c = 0 THEN working ELSE plMade + copies + 1
      n == IF s.whole = s.normal THEN 0 ELSE 1
      normalized == IF n = 0 THEN content ELSE plMade + copies + c + 1
      f == IF s.fitted = s.normal THEN 0 ELSE 1
      fitted == IF f = 0 THEN normalized ELSE plMade + copies + c + n + 1
      sheet == plMade + copies + c + n + f + 1
      dropped == IF plStrip = 0 THEN {} ELSE PlDropped(fresh)
      turned == IF copies = 2 THEN {plMade + 1} ELSE {}
  IN /\ plStrip < Len(plPlan)
     /\ plImages' = [source |-> s.image, working |-> working, content |-> content,
                     normalized |-> normalized, fitted |-> fitted]
     /\ plMade' = sheet
     /\ plClosed' = plClosed \cup dropped \cup turned
     /\ plOwned' = (plOwned \ dropped) \cup ((plMade + 1 .. sheet - 1) \ turned)
     /\ plTaken' = plTaken \cup {sheet}
     /\ plStrip' = plStrip + 1 /\ plAt' = "given" /\ UNCHANGED <<plJob, plPlan>>

PlAdvance == plAt \in {"open", "given"} /\ \E same \in BOOLEAN : PlSheet(same)

(* The last sheet has been taken.                                           *)
PlFinish ==
  /\ plAt = "given" /\ plStrip = Len(plPlan)
  /\ plClosed' = plClosed \cup PlDropped(TRUE) \cup (plOwned \ PlDropped(TRUE))
  /\ plOwned' = {} /\ plAt' = "ended"
  /\ UNCHANGED <<plJob, plPlan, plStrip, plImages, plMade, plTaken>>

(* PIL fails at some image, or the caller closes the generator: "finally".  *)
PlStop ==
  /\ plAt \in {"open", "given"} /\ plAt' = "ended"
  /\ \E made \in 0..2 :
       /\ made > 0 => plStrip < Len(plPlan)
       /\ plMade' = plMade + made
       /\ plClosed' = plClosed \cup plOwned \cup (plMade + 1 .. plMade + made)
  /\ plOwned' = {} /\ UNCHANGED <<plJob, plPlan, plStrip, plImages, plTaken>>

PlNext == PlAdvance \/ PlFinish \/ PlStop
PlSpec == PlInit /\ [][PlNext]_plVars

-----------------------------------------------------------------------------
(* A plan prints every image whole, once and in order; its strips lie on    *)
(* their paper, and those of one image are printed at one scale, so that    *)
(* they fit together.                                                       *)
PlPlanIsWhole ==
  plPlan # <<>> =>
    /\ \A i \in DOMAIN plJob.sizes : \E k \in DOMAIN plPlan : plPlan[k].image = i
    /\ \A k \in DOMAIN plPlan :
         LET s == plPlan[k]
             begins == k = 1 \/ plPlan[k - 1].image # s.image
             ends == k = Len(plPlan) \/ plPlan[k + 1].image # s.image
         IN /\ s.left < s.right
            /\ begins => s.left = 0
            /\ ends => s.right = PlTurned(plJob.sizes[s.image], plJob.turn)[1]
            /\ ~begins => LET t == plPlan[k - 1]
                          IN s.left = t.right /\ s.fitted = t.fitted /\ s.normal = t.normal
            /\ k > 1 => plPlan[k - 1].image <= s.image
            /\ \A d \in {1, 2} : s.paste[d] >= 0 /\ s.paste[d] + s.fitted[d] <= s.canvas[d] /\ s.fitted[d] > 0
            /\ s.right - s.left <= plJob.width => s.offset + s.right - s.left <= s.normal[1]
            /\ plJob.height # 0 => s.canvas[2] = plJob.height

(* The caller's sheets stay open, what the generator still names is open,   *)
(* and when it has ended nothing it made is left but the caller's sheets.   *)
PlImagesOwned ==
  /\ plTaken \cap plClosed = {} /\ plOwned \cap (plClosed \cup plTaken) = {}
  /\ plAt = "given" => {plImages.working, plImages.content, plImages.normalized, plImages.fitted} \subseteq plOwned
  /\ plAt = "ended" => 1..plMade = plClosed \cup plTaken

-----------------------------------------------------------------------------
(* What the proofs add: every image made has one holder, and the names      *)
(* stand for images in the order they were made, or for one image.          *)
PlPoolInv ==
  /\ plOwned \cap plClosed = {} /\ plOwned \cap plTaken = {} /\ plClosed \cap plTaken = {}
  /\ plOwned \cup plClosed \cup plTaken = 1..plMade
PlNamesInv ==
  /\ plAt = "open" => plStrip = 0
  /\ plAt = "ended" => plOwned = {}
  /\ plAt = "given" =>
       /\ plStrip > 0 /\ {plImages.working, plImages.content, plImages.normalized, plImages.fitted} \subseteq plOwned
       /\ plImages.working <= plImages.content /\ plImages.content <= plImages.normalized
       /\ plImages.normalized <= plImages.fitted
PlInv ==
  /\ plAt \in {"open", "given", "ended"} /\ plStrip \in Nat /\ plMade \in Nat
  /\ PlPoolInv /\ PlNamesInv
=============================================================================
