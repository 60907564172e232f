-------------------------- MODULE Preparation_proofs --------------------------
(***************************************************************************)
(* The store of prepared pages, the editor that fills it, and the renderer *)
(* and the paper layout that draw what it is filled with, each by itself   *)
(* and for any number of them:                                             *)
(*  - a commit can read every page of its lease until it gives it back, a  *)
(*    session is printed at most once and whole, and its directory stays   *)
(*    within its budget, whatever expires, is discarded, fails or is shut  *)
(*    down meanwhile (StoreInv, DiskInv);                                  *)
(*  - a tab that lost its answers tells its user what became of a print    *)
(*    (ClientInv);                                                         *)
(*  - the images of the renderer, its slots, its contexts and its browser  *)
(*    have one owner each, who gives them back, and so do those of a paper *)
(*    layout (RdInv, PlInv);                                               *)
(*  - what is printed of a plan is what was previewed, with the settings   *)
(*    it was prepared with (FzInv), and the strips of an image are all of  *)
(*    it (PlPlanIsWhole).                                                  *)
(***************************************************************************)
EXTENDS MCPrintPreparation, Folds_proofs

-----------------------------------------------------------------------------
(* What a plan holds, and what is printed of it (services/harness.py).      *)

\* Sequences of the length l in a row.
RowAlike(out, seqs, T, l) ==
  /\ out \in Seq(T) /\ Len(out) = Len(seqs) * l
  /\ \A i \in 1..Len(seqs) : \A j \in 1..l :
       (i - 1) * l + j \in 1..Len(seqs) * l /\ out[(i - 1) * l + j] = seqs[i][j]

\* Of one length, they lie at its multiples.
LEMMA FlattenedAlike ==
  ASSUME NEW T, NEW seqs \in Seq(Seq(T)), NEW l \in Nat, \A i \in 1..Len(seqs) : Len(seqs[i]) = l
  PROVE  RowAlike(FlattenSeq(seqs), seqs, T, l)
<1> DEFINE n == Len(seqs)
<1>0. n \in Nat
  OBVIOUS
<1>1. PICK v : InARow(v, seqs, T)
  BY RowExists
<1>2. FlattenSeq(seqs) = v[n] /\ v[n] \in Seq(T)
  <2>1. n \in 0..n
    BY <1>0
  <2> QED BY <1>1, <2>1, FlattenedInARow DEF InARow
<1>3. /\ RowEnds(v, 0) = 0
      /\ \A i \in 1..n : RowEnds(v, i) = RowEnds(v, i - 1) + l
      /\ \A i \in 0..n : RowEnds(v, i) \in Nat
      /\ \A i \in 1..n : \A j \in 1..l :
           RowEnds(v, i - 1) + j \in 1..RowEnds(v, n) /\ v[n][RowEnds(v, i - 1) + j] = seqs[i][j]
  <2>1. n \in 0..n
    BY <1>0
  <2>2. /\ RowEnds(v, 0) = 0
        /\ \A i \in 1..n : RowEnds(v, i) = RowEnds(v, i - 1) + Len(seqs[i])
        /\ \A i \in 0..n : RowEnds(v, i) \in Nat
        /\ \A m \in 0..n : \A i \in 1..m : \A j \in 1..Len(seqs[i]) :
             RowEnds(v, i - 1) + j \in 1..RowEnds(v, m) /\ v[m][RowEnds(v, i - 1) + j] = seqs[i][j]
    BY <1>1, RowLayout DEF LaidOut
  <2>3. \A i \in 1..n : Len(seqs[i]) = l
    OBVIOUS
  <2> HIDE DEF n
  <2> QED BY <2>1, <2>2, <2>3
<1> DEFINE B == {i \in 0..n : RowEnds(v, i) # i * l}
<1> HIDE DEF n
<1>4. ASSUME B # {} PROVE FALSE
  <2>1. PICK m \in B : \A k \in B : m <= k
    <3>1. B \in SUBSET Nat
      BY <1>0
    <3> HIDE DEF B
    <3> QED BY <1>4, <3>1, LeastNumber
  <2>2. m \in 0..n /\ RowEnds(v, m) # m * l
    OBVIOUS
  <2>3. m # 0
    BY <1>3, <2>2
  <2>4. m \in 1..n /\ m - 1 \in 0..n /\ m - 1 \notin B
    <3> HIDE DEF B
    <3> QED BY <1>0, <2>1, <2>2, <2>3
  <2>5. RowEnds(v, m - 1) = (m - 1) * l
    BY <2>4
  <2>6. RowEnds(v, m) = (m - 1) * l + l
    BY <1>3, <2>4, <2>5
  <2>7. m \in Nat /\ (m - 1) * l + l = m * l
    BY <2>2
  <2> QED BY <2>2, <2>6, <2>7
<1>5. \A i \in 0..n : RowEnds(v, i) = i * l
  BY <1>4
<1>6. ASSUME NEW i \in 1..n, NEW j \in 1..l
      PROVE  (i - 1) * l + j \in 1..n * l /\ v[n][(i - 1) * l + j] = seqs[i][j]
  <2>1. i - 1 \in 0..n /\ n \in 0..n
    BY <1>0
  <2>2. RowEnds(v, i - 1) = (i - 1) * l /\ RowEnds(v, n) = n * l
    BY <1>5, <2>1
  <2> QED BY <1>3, <2>2
<1>7. Len(v[n]) = n * l
  <2>1. n \in 0..n
    BY <1>0
  <2> QED BY <1>5, <2>1 DEF RowEnds
<1> QED BY <1>2, <1>6, <1>7 DEF n, RowAlike

\* The images of a plan come out group by group, each group as often as there
\* are copies.
LEMMA ExpandedAsAsked ==
  ASSUME NEW T, NEW images \in Seq(T), NEW per \in Nat \ {0}, NEW copies \in Nat \ {0}, NEW m \in Nat,
         Len(images) = m * per
  PROVE  LET out == FzExpanded(images, per, copies) IN
         /\ Len(out) = Len(images) * copies
         /\ \A i \in DOMAIN out :
              out[i] = images[((i - 1) \div (per * copies)) * per + ((i - 1) % per) + 1]
<1> DEFINE q == copies * per
           Group(k) == SubSeq(images, (k - 1) * per + 1, k * per)
           Copied(k) == FlattenSeq([c \in 1..copies |-> Group(k)])
           parts == [k \in 1..m |-> Copied(k)]
           out == FzExpanded(images, per, copies)
<1>0. /\ q \in Nat /\ q # 0 /\ per * copies = q /\ m * per \in Nat /\ m * q = Len(images) * copies
  BY Quotients
<1>1. Len(images) \div per = m
  <2>1. m * per \in Nat /\ per \in Nat \ {0}
    BY <1>0
  <2>2. PICK a \in Nat : a = m * per
    BY <2>1
  <2>3. PICK p \in Nat, r \in 0..per - 1 : p = a \div per /\ r = a % per /\ a = p * per + r
    BY Division
  <2>4. 0 \in 0..per - 1 /\ m * per + 0 = p * per + r
    BY <2>2, <2>3
  <2>5. m = p
    BY <2>4, Quotients
  <2> QED BY <2>2, <2>3, <2>5
<1>2. out = FlattenSeq(parts)
  BY <1>1 DEF FzExpanded
<1>3. ASSUME NEW k \in 1..m
      PROVE  /\ Group(k) \in Seq(T) /\ Len(Group(k)) = per
             /\ \A d \in 1..per : Group(k)[d] = images[(k - 1) * per + d]
  <2> DEFINE from == (k - 1) * per + 1
             to == k * per
  <2>1. from \in Nat /\ to \in Nat /\ from >= 1 /\ to = from + per - 1 /\ to <= m * per
    <3>1. PICK x \in Nat : m = k + x
      <4>1. m - k \in Nat /\ m = k + (m - k)
        OBVIOUS
      <4> QED BY <4>1
    <3>2. PICK y \in Nat : k = y + 1
      <4>1. k - 1 \in Nat /\ k = (k - 1) + 1
        OBVIOUS
      <4> QED BY <4>1
    <3>3. m * per = k * per + x * per /\ x * per \in Nat /\ y * per \in Nat /\ k * per = y * per + per
          /\ k - 1 = y
      BY <3>1, <3>2
    <3> QED BY <3>3
  <2> HIDE DEF from, to
  <2>2. \A i \in from..to : images[i] \in T
    <3>1. \A i \in from..to : i \in 1..Len(images)
      BY <2>1
    <3> QED BY <3>1
  <2>3. /\ SubSeq(images, from, to) \in Seq(T)
        /\ Len(SubSeq(images, from, to)) = IF from <= to THEN to - from + 1 ELSE 0
        /\ \A d \in 1..to - from + 1 : SubSeq(images, from, to)[d] = images[from + d - 1]
    BY <2>1, <2>2, SubSeqProperties
  <2>4. from <= to /\ to - from + 1 = per
    BY <2>1
  <2>5. ASSUME NEW d \in 1..per PROVE images[from + d - 1] = images[(k - 1) * per + d]
    <3>1. (k - 1) * per \in Int
      OBVIOUS
    <3>2. from + d - 1 = (k - 1) * per + d
      BY <3>1 DEF from
    <3> QED BY <3>2
  <2>6. Group(k) = SubSeq(images, from, to)
    BY DEF from, to
  <2> HIDE DEF Group
  <2> QED BY <2>3, <2>4, <2>5, <2>6
<1>4. ASSUME NEW k \in 1..m
      PROVE  /\ Copied(k) \in Seq(T) /\ Len(Copied(k)) = q
             /\ \A c \in 1..copies : \A d \in 1..per :
                  Copied(k)[(c - 1) * per + d] = images[(k - 1) * per + d]
  <2> DEFINE same == [c \in 1..copies |-> Group(k)]
  <2>1. Group(k) \in Seq(T) /\ Len(Group(k)) = per
        /\ \A d \in 1..per : Group(k)[d] = images[(k - 1) * per + d]
    BY <1>3
  <2> HIDE DEF Group
  <2>2. /\ same \in Seq(Seq(T)) /\ Len(same) = copies
        /\ \A c \in 1..copies : same[c] = Group(k) /\ Len(same[c]) = per
    BY <2>1
  <2>3. RowAlike(FlattenSeq(same), same, T, per)
    <3>1. \A c \in 1..Len(same) : Len(same[c]) = per
      BY <2>2
    <3>2. per \in Nat
      OBVIOUS
    <3> HIDE DEF same
    <3> QED BY <2>2, <3>1, <3>2, FlattenedAlike
  <2>4. Copied(k) = FlattenSeq(same)
    OBVIOUS
  <2> HIDE DEF same, Copied
  <2>5. Copied(k) \in Seq(T) /\ Len(Copied(k)) = q
    BY <2>2, <2>3, <2>4 DEF RowAlike
  <2>6. ASSUME NEW c \in 1..copies, NEW d \in 1..per
        PROVE  Copied(k)[(c - 1) * per + d] = images[(k - 1) * per + d]
    <3>1. Copied(k)[(c - 1) * per + d] = same[c][d]
      BY <2>2, <2>3, <2>4 DEF RowAlike
    <3> QED BY <2>1, <2>2, <3>1
  <2> QED BY <2>5, <2>6
<1> HIDE DEF Copied, Group
<1>5. /\ out \in Seq(T) /\ Len(out) = m * q
      /\ \A k \in 1..m : \A j \in 1..q : out[(k - 1) * q + j] = Copied(k)[j]
  <2>1. parts \in Seq(Seq(T)) /\ Len(parts) = m
    BY <1>4
  <2>2. \A k \in 1..Len(parts) : Len(parts[k]) = q /\ parts[k] = Copied(k)
    BY <1>4, <2>1
  <2> HIDE DEF parts, out, q
  <2>3. RowAlike(FlattenSeq(parts), parts, T, q)
    BY <1>0, <2>1, <2>2, FlattenedAlike
  <2>4. out \in Seq(T) /\ Len(out) = m * q
    BY <1>2, <2>1, <2>3 DEF RowAlike
  <2>5. ASSUME NEW k \in 1..m, NEW j \in 1..q PROVE out[(k - 1) * q + j] = Copied(k)[j]
    <3>1. out[(k - 1) * q + j] = parts[k][j]
      BY <1>2, <2>1, <2>3 DEF RowAlike
    <3> QED BY <2>1, <2>2, <3>1
  <2> QED BY <2>4, <2>5
<1> HIDE DEF out, parts
<1>6. ASSUME NEW i \in DOMAIN out
      PROVE  out[i] = images[((i - 1) \div (per * copies)) * per + ((i - 1) % per) + 1]
  <2>1. i \in 1..m * q
    BY <1>5
  <2>2. PICK n \in Nat : n = i - 1 /\ n < m * q
    <3>1. i - 1 \in Nat /\ i - 1 < m * q
      BY <1>0, <2>1
    <3> QED BY <3>1
  <2>3. PICK a \in Nat, b \in 0..q - 1 : a = n \div q /\ b = n % q /\ n = a * q + b
    BY <1>0, Division
  <2>4. PICK c \in Nat, d \in 0..per - 1 : c = b \div per /\ d = b % per /\ b = c * per + d
    <3>1. b \in Nat /\ per \in Nat \ {0}
      BY <1>0
    <3> QED BY <3>1, Division
  <2> HIDE DEF q
  <2>5. a < m
    <3>1. b \in Nat /\ a * q + b < m * q
      BY <1>0, <2>2, <2>3
    <3> QED BY <1>0, <3>1, QuotientBelow
  <2>6. c < copies
    <3>1. c * per + d < copies * per /\ d \in Nat /\ per \in Nat /\ copies \in Nat
      BY <1>0, <2>3, <2>4 DEF q
    <3> QED BY <3>1, QuotientBelow
  <2>7. n % per = d
    <3>1. PICK p \in Nat, r \in 0..per - 1 : p = n \div per /\ r = n % per /\ n = p * per + r
      BY Division
    <3>2. /\ a * (copies * per) + (c * per + d) = (a * copies + c) * per + d
          /\ a * copies + c \in Nat
      BY BlockOfParts
    <3>3. PICK z \in Nat : z = a * copies + c /\ n = z * per + d
      BY <2>3, <2>4, <3>2 DEF q
    <3>4. p * per + r = z * per + d
      BY <3>1, <3>3
    <3>5. r = d
      BY <3>4, Quotients
    <3> QED BY <3>1, <3>5
  <2>8. PICK k \in 1..m, e \in 1..copies, f \in 1..per, j \in 1..q :
          k = a + 1 /\ e = c + 1 /\ f = d + 1 /\ j = b + 1
    <3>1. a + 1 \in 1..m /\ c + 1 \in 1..copies /\ d + 1 \in 1..per /\ b + 1 \in 1..q
      BY <1>0, <2>5, <2>6
    <3> QED BY <3>1
  <2>9. i = (k - 1) * q + j /\ j = (e - 1) * per + f
    <3>1. k - 1 = a /\ e - 1 = c
      BY <2>8
    <3>2. (k - 1) * q = a * q /\ (e - 1) * per = c * per /\ a * q \in Nat /\ c * per \in Nat
      BY <1>0, <3>1
    <3>3. i = n + 1
      BY <2>1, <2>2
    <3>4. (k - 1) * q + j = a * q + b + 1 /\ (e - 1) * per + f = c * per + d + 1
      BY <2>8, <3>2
    <3>5. a * q + b + 1 = n + 1
      BY <2>3, <3>2
    <3>6. c * per + d + 1 = b + 1
      BY <2>4, <3>2
    <3> QED BY <2>8, <3>3, <3>4, <3>5, <3>6
  <2>10. out[i] = images[(k - 1) * per + f]
    BY <1>4, <1>5, <2>9
  <2>11. (k - 1) * per + f = a * per + d + 1
    <3>1. k - 1 = a /\ a * per \in Nat
      BY <2>8
    <3> QED BY <2>8, <3>1
  <2> QED BY <1>0, <2>2, <2>3, <2>7, <2>10, <2>11
<1>7. Len(out) = Len(images) * copies
  BY <1>0, <1>5
<1> QED BY <1>6, <1>7 DEF out

\* Images of one design, in whole groups of pages.
FzGrouped(images, per, design) ==
  /\ images \in Seq(FzImages) /\ per \in Nat /\ per # 0 /\ Len(images) % per = 0
  /\ \A i \in DOMAIN images : images[i].design = design

\* What is rendered is of one design, in whole groups of pages.
LEMMA RenderedInGroups ==
  ASSUME NEW design \in Nat, NEW records \in Nat, NEW pages \in SUBSET FzPages, pages # {}
  PROVE  FzGrouped(FzRendered(design, records, pages), Cardinality(pages), design)
<1> DEFINE order == FzInOrder(pages)
           images == FzRendered(design, records, pages)
<1>1. IsFiniteSet(pages) /\ pages \in SUBSET Nat
  BY FzAssumption, FS_Subset
<1>2. PICK per \in Nat : per = Cardinality(pages)
  BY <1>1, FS_CardinalityType
<1>3. per # 0
  BY <1>1, <1>2, FS_EmptySet
<1>4. order \in [1..per -> pages]
  <2>1. \E s \in [1..Cardinality(pages) -> pages] : \A i, j \in DOMAIN s : i < j => s[i] < s[j]
    BY <1>1, OrderExists DEF CountsUp
  <2>2. order \in [1..Cardinality(pages) -> pages]
    BY <2>1 DEF FzInOrder
  <2> QED BY <1>2, <2>2
<1>5. order \in Seq(pages) /\ Len(order) = per
  BY <1>4
<1> HIDE DEF order
<1>6. PICK n \in Nat : n = records * per
  <2>1. records * per \in Nat
    OBVIOUS
  <2> QED BY <2>1
<1>7. images = [i \in 1..n |-> [design |-> design, record |-> ((i - 1) \div per) + 1,
                                page |-> order[((i - 1) % per) + 1]]]
  BY <1>5, <1>6 DEF FzRendered, order
<1>8. ASSUME NEW i \in 1..n
      PROVE  [design |-> design, record |-> ((i - 1) \div per) + 1, page |-> order[((i - 1) % per) + 1]] \in FzImages
  <2>1. i - 1 \in Nat /\ per \in Nat \ {0}
    BY <1>3
  <2>2. PICK q \in Nat, r \in 0..per - 1 : q = (i - 1) \div per /\ r = (i - 1) % per
    BY <2>1, Division
  <2>3. r + 1 \in 1..per /\ q + 1 \in Nat
    BY <1>3
  <2>4. order[r + 1] \in FzPages
    BY <1>4, <2>3
  <2> QED BY <2>2, <2>3, <2>4 DEF FzImages
<1> HIDE DEF images
<1>9. images \in Seq(FzImages) /\ Len(images) = n /\ DOMAIN images = 1..n
  <2>1. images \in [1..n -> FzImages]
    BY <1>7, <1>8
  <2> QED BY <2>1
<1>10. n % per = 0
  <2>1. per \in Nat \ {0}
    BY <1>3
  <2>2. PICK q \in Nat, r \in 0..per - 1 : q = n \div per /\ r = n % per /\ n = q * per + r
    BY <2>1, Division
  <2>3. 0 \in 0..per - 1 /\ records * per + 0 = q * per + r
    BY <1>6, <2>1, <2>2
  <2>4. r = 0
    BY <2>1, <2>3, Quotients
  <2> QED BY <2>2, <2>4
<1>11. \A i \in DOMAIN images : images[i].design = design
  BY <1>7, <1>9
<1> QED BY <1>2, <1>3, <1>9, <1>10, <1>11 DEF images, FzGrouped

\* Nothing is asked for yet.
LEMMA FzInitHolds == FzInit => FzInv
<1> SUFFICES ASSUME FzInit PROVE FzInv
  OBVIOUS
<1>1. <<>> \in Seq(FzImages) /\ <<>> \in Seq(FzPlanRecords) /\ Len(<<>>) = 0 /\ DOMAIN <<>> = {}
      /\ <<>> = [k \in 1..0 |-> FzOut(<<>>[k].plan)]
  OBVIOUS
<1>2. FzCallIdle \in FzCallRecords
  BY <1>1 DEF FzCallIdle, FzCallRecords
<1>3. FzTypeOK
  BY <1>1, <1>2, FzAssumption DEF FzInit, FzTypeOK, FzModels
<1>4. FzFrozenInv
  BY <1>1 DEF FzInit, FzFrozenInv, FzCallIdle
<1>5. FzPrintedInv
  BY <1>1 DEF FzInit, FzPrintedInv
<1> QED BY <1>3, <1>4, <1>5 DEF FzInv

\* Where plans and prints stay, what was printed stays what its plan says.
LEMMA FzPrintsStay ==
  ASSUME FzPrintedInv, UNCHANGED <<fzPlans, fzPrinted>>
  PROVE  FzPrintedInv'
BY DEF FzPrintedInv, FzOut

\* A call at rest is one.
LEMMA FzRests ==
  /\ FzCallIdle \in FzCallRecords /\ FzCallIdle.at = "idle"
  /\ [FzCallIdle EXCEPT !.at = "waiting"] \in FzCallRecords
  /\ [FzCallIdle EXCEPT !.at = "waiting"].at = "waiting"
<1>1. <<>> \in Seq(FzImages)
  OBVIOUS
<1> QED BY <1>1 DEF FzCallIdle, FzCallRecords

\* A call that goes on, with another model or other settings, keeps its images.
LEMMA FzGoesOn ==
  ASSUME NEW c \in FzCallRecords, FzOfOneDesign(c),
         NEW at \in {"seen", "reading", "planning"}, NEW m \in FzModels \cup {"none"}, NEW n \in Nat
  PROVE  /\ [c EXCEPT !.at = at, !.model = m] \in FzCallRecords
         /\ FzOfOneDesign([c EXCEPT !.at = at, !.model = m])
         /\ [c EXCEPT !.at = at] \in FzCallRecords /\ FzOfOneDesign([c EXCEPT !.at = at])
         /\ [c EXCEPT !.at = at, !.settings = n] \in FzCallRecords
         /\ FzOfOneDesign([c EXCEPT !.at = at, !.settings = n])
BY DEF FzCallRecords, FzOfOneDesign

\* A step that keeps plans and prints, and what it puts in the place of a call
\* or a preview is of one design, keeps the invariant.
LEMMA FzCallsMove ==
  ASSUME FzInv, UNCHANGED <<fzPlans, fzPrinted>>, FzTypeOK',
         fzAgent'.at \notin {"idle", "waiting"} => FzOfOneDesign(fzAgent'),
         fzDirect'.at \notin {"idle", "waiting"} => FzOfOneDesign(fzDirect'),
         \A p \in fzPreviews' : FzOfOneDesign(p)
  PROVE  FzInv'
<1>1. FzPrintedInv'
  BY FzPrintsStay DEF FzInv
<1>2. \A i \in DOMAIN fzPlans' : FzOfOneDesign(fzPlans'[i])
  BY DEF FzInv, FzFrozenInv
<1>3. FzFrozenInv'
  BY <1>2 DEF FzFrozenInv, FzOfOneDesign
<1> QED BY <1>1, <1>3 DEF FzInv

\* A request uses up a call.
LEMMA FzAsks == ASSUME FzTypeOK, FzAsked PROVE fzLeft' \in [edits : Nat, calls : Nat]
BY DEF FzTypeOK, FzAsked

\* A preview or a direct print begins with rendered images.
LEMMA FzBegins ==
  ASSUME NEW design \in Nat, NEW records \in Nat, NEW pages \in SUBSET FzPages, pages # {},
         NEW at \in {"rendering", "scanning"}
  PROVE  LET c == [FzCallIdle EXCEPT !.at = at, !.asked = design, !.per = Cardinality(pages),
                                     !.images = FzRendered(design, records, pages)]
         IN c \in FzCallRecords /\ FzOfOneDesign(c)
<1>1. FzGrouped(FzRendered(design, records, pages), Cardinality(pages), design)
  BY RenderedInGroups
<1>2. PICK images \in Seq(FzImages), per \in Nat :
        images = FzRendered(design, records, pages) /\ per = Cardinality(pages)
  BY <1>1 DEF FzGrouped
<1>3. per # 0 /\ Len(images) % per = 0 /\ \A i \in DOMAIN images : images[i].design = design
  BY <1>1, <1>2 DEF FzGrouped
<1> DEFINE c == [at |-> at, asked |-> design, images |-> images, per |-> per, copies |-> 1,
                 model |-> "none", settings |-> 0]
<1>4. ASSUME NEW s, s = [FzCallIdle EXCEPT !.at = at, !.asked = design, !.per = per, !.images = images]
      PROVE  s = c
  BY <1>4 DEF FzCallIdle
<1>5. c \in FzCallRecords
  BY DEF FzCallRecords
<1>6. FzOfOneDesign(c)
  BY <1>3 DEF FzOfOneDesign
<1> QED BY <1>2, <1>4, <1>5, <1>6

\* A preview of the revision there is begins to render, one of another is refused.
LEMMA FzPreviewInv ==
  ASSUME FzInv, NEW expected \in 1..fzNow.design, NEW pages \in (SUBSET FzPages) \ {{}},
         FzPreview(expected, pages)
  PROVE  FzInv'
<1>1. expected \in Nat /\ FzRecords \in Nat /\ pages \in SUBSET FzPages /\ pages # {}
  BY FzAssumption DEF FzInv, FzTypeOK
<1> DEFINE c == [FzCallIdle EXCEPT !.at = "rendering", !.asked = expected, !.per = Cardinality(pages),
                                   !.images = FzRendered(expected, FzRecords, pages)]
<1>2. c \in FzCallRecords /\ FzOfOneDesign(c)
  BY <1>1, FzBegins
<1>3. fzAgent' = c \/ fzAgent' = FzCallIdle
  BY DEF FzPreview
<1> HIDE DEF c
<1>4. fzAgent' \in FzCallRecords /\ (fzAgent'.at \notin {"idle", "waiting"} => FzOfOneDesign(fzAgent'))
  BY <1>2, <1>3, FzRests
<1>5. fzLeft' \in [edits : Nat, calls : Nat]
  BY FzAsks DEF FzInv, FzPreview
<1>6. FzTypeOK'
  BY <1>4, <1>5 DEF FzInv, FzTypeOK, FzPreview
<1>7. /\ UNCHANGED <<fzPlans, fzPrinted>>
      /\ fzDirect'.at \notin {"idle", "waiting"} => FzOfOneDesign(fzDirect')
      /\ \A p \in fzPreviews' : FzOfOneDesign(p)
  BY DEF FzInv, FzFrozenInv, FzPreview
<1> QED BY <1>4, <1>6, <1>7, FzCallsMove

\* A direct print begins with what it was given.
LEMMA FzDirectPrintInv == ASSUME FzInv, FzDirectPrint(FzPages) PROVE FzInv'
<1>1. fzNow.design \in Nat /\ 1 \in Nat /\ FzPages \in SUBSET FzPages /\ FzPages # {}
  BY FzAssumption DEF FzInv, FzTypeOK
<1> DEFINE c == [FzCallIdle EXCEPT !.at = "scanning", !.asked = fzNow.design, !.per = Cardinality(FzPages),
                                   !.images = FzRendered(fzNow.design, 1, FzPages)]
<1>2. c \in FzCallRecords /\ FzOfOneDesign(c)
  BY <1>1, FzBegins
<1>3. fzDirect' = c
  BY DEF FzDirectPrint, FzCallIdle
<1> HIDE DEF c
<1>5. fzLeft' \in [edits : Nat, calls : Nat]
  BY FzAsks DEF FzInv, FzDirectPrint
<1>6. FzTypeOK'
  BY <1>2, <1>3, <1>5 DEF FzInv, FzTypeOK, FzDirectPrint
<1>7. /\ UNCHANGED <<fzPlans, fzPrinted>>
      /\ fzAgent'.at \notin {"idle", "waiting"} => FzOfOneDesign(fzAgent')
      /\ \A p \in fzPreviews' : FzOfOneDesign(p)
  BY DEF FzInv, FzFrozenInv, FzDirectPrint
<1> QED BY <1>2, <1>3, <1>6, <1>7, FzCallsMove

\* A preview is kept as it was rendered, or it failed.
LEMMA FzPreviewedInv == ASSUME FzInv, FzPreviewed PROVE FzInv'
<1> DEFINE p == [asked |-> fzAgent.asked, images |-> fzAgent.images, per |-> fzAgent.per, kept |-> TRUE]
<1>1. p \in FzPreviewRecords /\ FzOfOneDesign(p)
  BY DEF FzInv, FzTypeOK, FzFrozenInv, FzPreviewed, FzCallRecords, FzPreviewRecords, FzOfOneDesign
<1>2. fzPreviews' = fzPreviews \cup {p} \/ fzPreviews' = fzPreviews
  BY DEF FzPreviewed
<1> HIDE DEF p
<1>3. FzTypeOK'
  BY <1>1, <1>2, FzRests DEF FzInv, FzTypeOK, FzPreviewed
<1>4. /\ UNCHANGED <<fzPlans, fzPrinted>>
      /\ fzAgent'.at \notin {"idle", "waiting"} => FzOfOneDesign(fzAgent')
      /\ fzDirect'.at \notin {"idle", "waiting"} => FzOfOneDesign(fzDirect')
  BY FzRests DEF FzInv, FzFrozenInv, FzPreviewed
<1>5. \A q \in fzPreviews' : FzOfOneDesign(q)
  BY <1>1, <1>2 DEF FzInv, FzFrozenInv
<1> QED BY <1>3, <1>4, <1>5, FzCallsMove

\* An expired preview is the one it was.
LEMMA FzExpiresInv == ASSUME FzInv, FzExpires PROVE FzInv'
<1>1. PICK p \in fzPreviews : fzPreviews' = (fzPreviews \ {p}) \cup {[p EXCEPT !.kept = FALSE]}
  BY DEF FzExpires
<1>2. p \in FzPreviewRecords /\ FzOfOneDesign(p)
  BY DEF FzInv, FzTypeOK, FzFrozenInv
<1>3. PICK q : q = [p EXCEPT !.kept = FALSE]
  OBVIOUS
<1>4. q \in FzPreviewRecords /\ FzOfOneDesign(q)
  BY <1>2, <1>3 DEF FzPreviewRecords, FzOfOneDesign
<1>5. FzTypeOK'
  BY <1>1, <1>3, <1>4 DEF FzInv, FzTypeOK, FzExpires
<1>6. /\ UNCHANGED <<fzPlans, fzPrinted>>
      /\ fzAgent'.at \notin {"idle", "waiting"} => FzOfOneDesign(fzAgent')
      /\ fzDirect'.at \notin {"idle", "waiting"} => FzOfOneDesign(fzDirect')
  BY DEF FzInv, FzFrozenInv, FzExpires
<1>7. \A r \in fzPreviews' : FzOfOneDesign(r)
  BY <1>1, <1>3, <1>4 DEF FzInv, FzFrozenInv
<1> QED BY <1>5, <1>6, <1>7, FzCallsMove

\* A plan is prepared of the images that were previewed.
LEMMA FzPrepareInv ==
  ASSUME FzInv, NEW p \in fzPreviews, NEW copies \in {1, 2}, FzPrepare(p, copies)
  PROVE  FzInv'
<1>1. p \in FzPreviewRecords /\ FzOfOneDesign(p)
  BY DEF FzInv, FzTypeOK, FzFrozenInv
<1>2. fzAgent' = [at |-> "scanning", asked |-> p.asked, images |-> p.images, per |-> p.per,
                  copies |-> copies, model |-> "none", settings |-> 0]
  BY DEF FzPrepare, FzCallIdle
<1>3. fzAgent' \in FzCallRecords /\ FzOfOneDesign(fzAgent')
  BY <1>1, <1>2 DEF FzPreviewRecords, FzCallRecords, FzOfOneDesign
<1>4. fzLeft' \in [edits : Nat, calls : Nat]
  BY FzAsks DEF FzInv, FzPrepare
<1>5. FzTypeOK'
  BY <1>3, <1>4 DEF FzInv, FzTypeOK, FzPrepare
<1>6. /\ UNCHANGED <<fzPlans, fzPrinted>>
      /\ fzDirect'.at \notin {"idle", "waiting"} => FzOfOneDesign(fzDirect')
      /\ \A q \in fzPreviews' : FzOfOneDesign(q)
  BY DEF FzInv, FzFrozenInv, FzPrepare
<1> QED BY <1>3, <1>5, <1>6, FzCallsMove

\* The scan, its end and the reading of the settings: a call goes on, or ends.
LEMMA FzCallInv ==
  ASSUME FzInv, NEW agent \in BOOLEAN, FzSees(agent) \/ FzScanned(agent) \/ FzReads(agent)
  PROVE  FzInv'
<1>1. /\ fzAgent \in FzCallRecords /\ fzDirect \in FzCallRecords
      /\ fzNow.model \in FzModels /\ fzNow.settings \in Nat
      /\ fzAgent.at \notin {"idle", "waiting"} => FzOfOneDesign(fzAgent)
      /\ fzDirect.at \notin {"idle", "waiting"} => FzOfOneDesign(fzDirect)
      /\ fzAgent.model \in FzModels \cup {"none"} /\ fzDirect.model \in FzModels \cup {"none"}
  BY DEF FzInv, FzTypeOK, FzFrozenInv, FzCallRecords
<1> DEFINE Goes(c, d) == d = c \/ (d \in FzCallRecords /\ (d.at \notin {"idle", "waiting"} => FzOfOneDesign(d)))
<1>2. ASSUME NEW c \in FzCallRecords, c.at \notin {"idle", "waiting"} => FzOfOneDesign(c),
             c.at = "scanning", NEW m \in FzModels \cup {"none"}
      PROVE  Goes(c, FzSeen(c, m))
  BY <1>2, FzGoesOn DEF FzSeen
<1>3. ASSUME NEW c \in FzCallRecords, c.at \notin {"idle", "waiting"} => FzOfOneDesign(c), c.at = "seen"
      PROVE  Goes(c, FzFound(c))
  BY <1>3, FzGoesOn, FzRests DEF FzFound
<1>4. ASSUME NEW c \in FzCallRecords, c.at \notin {"idle", "waiting"} => FzOfOneDesign(c), c.at = "reading"
      PROVE  Goes(c, [c EXCEPT !.at = "planning", !.settings = fzNow.settings])
  BY <1>1, <1>4, FzGoesOn
<1>5. /\ Goes(fzAgent, fzAgent') /\ Goes(fzDirect, fzDirect') /\ fzCache' \in FzModels \cup {"none"}
      /\ UNCHANGED <<fzNow, fzPreviews, fzPlans, fzPrinted, fzLeft>>
  <2>1. CASE FzSees(agent)
    <3>1. PICK m \in {fzNow.model, "none"} :
            IF agent THEN fzAgent.at = "scanning" /\ fzAgent' = FzSeen(fzAgent, m) /\ UNCHANGED fzDirect
            ELSE fzDirect.at = "scanning" /\ fzDirect' = FzSeen(fzDirect, m) /\ UNCHANGED fzAgent
      BY <2>1 DEF FzSees
    <3>2. m \in FzModels \cup {"none"}
      BY <1>1
    <3>3. fzCache' \in FzModels \cup {"none"} /\ UNCHANGED <<fzNow, fzPreviews, fzPlans, fzPrinted, fzLeft>>
      BY <2>1 DEF FzSees, FzInv, FzTypeOK
    <3>4. agent => Goes(fzAgent, FzSeen(fzAgent, m))
      BY <1>1, <1>2, <3>1, <3>2
    <3>5. ~agent => Goes(fzDirect, FzSeen(fzDirect, m))
      BY <1>1, <1>2, <3>1, <3>2
    <3> QED BY <3>1, <3>3, <3>4, <3>5
  <2>2. CASE FzScanned(agent)
    <3>1. IF agent
          THEN fzAgent.at = "seen" /\ fzCache' = fzAgent.model /\ fzAgent' = FzFound(fzAgent) /\ UNCHANGED fzDirect
          ELSE fzDirect.at = "seen" /\ fzCache' = fzDirect.model /\ fzDirect' = FzFound(fzDirect) /\ UNCHANGED fzAgent
      BY <2>2 DEF FzScanned
    <3>2. UNCHANGED <<fzNow, fzPreviews, fzPlans, fzPrinted, fzLeft>>
      BY <2>2 DEF FzScanned
    <3>3. agent => Goes(fzAgent, FzFound(fzAgent))
      BY <1>1, <1>3, <3>1
    <3>4. ~agent => Goes(fzDirect, FzFound(fzDirect))
      BY <1>1, <1>3, <3>1
    <3> QED BY <1>1, <3>1, <3>2, <3>3, <3>4
  <2>3. CASE FzReads(agent)
    <3>1. IF agent
          THEN fzAgent.at = "reading" /\ UNCHANGED fzDirect
               /\ fzAgent' = [fzAgent EXCEPT !.at = "planning", !.settings = fzNow.settings]
          ELSE fzDirect.at = "reading" /\ UNCHANGED fzAgent
               /\ fzDirect' = [fzDirect EXCEPT !.at = "planning", !.settings = fzNow.settings]
      BY <2>3 DEF FzReads
    <3>2. fzCache' \in FzModels \cup {"none"} /\ UNCHANGED <<fzNow, fzPreviews, fzPlans, fzPrinted, fzLeft>>
      BY <2>3 DEF FzReads, FzInv, FzTypeOK
    <3>3. agent => Goes(fzAgent, fzAgent')
      BY <1>1, <1>4, <3>1
    <3>4. ~agent => Goes(fzDirect, fzDirect')
      BY <1>1, <1>4, <3>1
    <3> QED BY <3>1, <3>2, <3>3, <3>4
  <2> QED BY <2>1, <2>2, <2>3
<1>6. FzTypeOK'
  BY <1>1, <1>5 DEF FzInv, FzTypeOK
<1>7. /\ fzAgent'.at \notin {"idle", "waiting"} => FzOfOneDesign(fzAgent')
      /\ fzDirect'.at \notin {"idle", "waiting"} => FzOfOneDesign(fzDirect')
      /\ \A q \in fzPreviews' : FzOfOneDesign(q)
  BY <1>1, <1>5 DEF FzInv, FzFrozenInv
<1> QED BY <1>5, <1>6, <1>7, FzCallsMove

\* What others change, calls, previews and plans do not hold.
LEMMA FzChangeInv == ASSUME FzInv, FzChange PROVE FzInv'
<1>1. fzNow' \in [design : Nat, settings : Nat, profile : Nat, model : FzModels]
  BY DEF FzInv, FzTypeOK, FzChange
<1>2. fzLeft' \in [edits : Nat, calls : Nat]
  BY DEF FzInv, FzTypeOK, FzChange
<1>3. FzTypeOK'
  BY <1>1, <1>2 DEF FzInv, FzTypeOK, FzChange
<1>4. /\ UNCHANGED <<fzPlans, fzPrinted>>
      /\ fzAgent'.at \notin {"idle", "waiting"} => FzOfOneDesign(fzAgent')
      /\ fzDirect'.at \notin {"idle", "waiting"} => FzOfOneDesign(fzDirect')
      /\ \A q \in fzPreviews' : FzOfOneDesign(q)
  BY DEF FzInv, FzFrozenInv, FzChange
<1> QED BY <1>3, <1>4, FzCallsMove

\* A plan more leaves the others, and what was printed of them.
LEMMA FzPlanMore ==
  ASSUME FzInv, NEW p \in FzPlanRecords, FzOfOneDesign(p), fzPlans' = Append(fzPlans, p), UNCHANGED fzPrinted
  PROVE  /\ fzPlans' \in Seq(FzPlanRecords) /\ (\A i \in DOMAIN fzPlans' : FzOfOneDesign(fzPlans'[i]))
         /\ FzPrintedInv'
<1>1. /\ fzPlans' \in Seq(FzPlanRecords) /\ Len(fzPlans') = Len(fzPlans) + 1 /\ Len(fzPlans) \in Nat
      /\ DOMAIN fzPlans' = 1..Len(fzPlans) + 1 /\ DOMAIN fzPlans = 1..Len(fzPlans)
      /\ \A i \in DOMAIN fzPlans : fzPlans'[i] = fzPlans[i] /\ i \in DOMAIN fzPlans'
      /\ fzPlans'[Len(fzPlans) + 1] = p
  BY DEF FzInv, FzTypeOK
<1>2. \A i \in DOMAIN fzPlans' : FzOfOneDesign(fzPlans'[i])
  BY <1>1 DEF FzInv, FzFrozenInv
<1>3. \A i \in DOMAIN fzPlans : FzOut(i)' = FzOut(i)
  BY <1>1 DEF FzOut
<1>4. FzPrintedInv'
  <2>1. /\ fzPrinted = [k \in 1..Len(fzPrinted) |-> FzOut(fzPrinted[k].plan)]
        /\ DOMAIN fzPrinted = 1..Len(fzPrinted)
        /\ \A k \in DOMAIN fzPrinted :
             fzPrinted[k].plan \in DOMAIN fzPlans /\ fzPlans[fzPrinted[k].plan].at = "printed"
        /\ \A x, y \in DOMAIN fzPrinted : fzPrinted[x].plan = fzPrinted[y].plan => x = y
    BY DEF FzInv, FzPrintedInv
  <2>2. fzPrinted = [k \in 1..Len(fzPrinted) |-> FzOut(fzPrinted[k].plan)']
    BY <1>3, <2>1
  <2>3. \A k \in DOMAIN fzPrinted :
          fzPrinted[k].plan \in DOMAIN fzPlans' /\ fzPlans'[fzPrinted[k].plan].at = "printed"
    BY <1>1, <2>1
  <2> QED BY <2>1, <2>2, <2>3 DEF FzPrintedInv
<1> QED BY <1>1, <1>2, <1>4

\* A call becomes a plan.
LEMMA FzPlanFrozen ==
  ASSUME FzTypeOK, NEW c \in FzCallRecords, FzOfOneDesign(c), NEW direct \in BOOLEAN
  PROVE  FzPlan(c, direct) \in FzPlanRecords /\ FzOfOneDesign(FzPlan(c, direct))
<1>1. fzNow.profile \in Nat
  BY DEF FzTypeOK
<1> QED BY <1>1 DEF FzPlan, FzCallRecords, FzPlanRecords, FzOfOneDesign

\* A prepared plan is frozen, unless its preview is gone.
LEMMA FzPlannedInv == ASSUME FzInv, FzPlanned PROVE FzInv'
<1>1. fzAgent \in FzCallRecords /\ FzOfOneDesign(fzAgent)
  BY DEF FzInv, FzTypeOK, FzFrozenInv, FzPlanned
<1> DEFINE p == FzPlan(fzAgent, FALSE)
<1>2. p \in FzPlanRecords /\ FzOfOneDesign(p)
  BY <1>1, FzPlanFrozen DEF FzInv
<1>3. fzPlans' = Append(fzPlans, p) \/ fzPlans' = fzPlans
  BY DEF FzPlanned
<1> HIDE DEF p
<1>4. /\ fzAgent' = FzCallIdle
      /\ UNCHANGED <<fzNow, fzCache, fzDirect, fzPreviews, fzPrinted, fzLeft>>
  BY DEF FzPlanned
<1>5. /\ fzPlans' \in Seq(FzPlanRecords) /\ (\A i \in DOMAIN fzPlans' : FzOfOneDesign(fzPlans'[i]))
      /\ FzPrintedInv'
  <2>1. CASE fzPlans' = fzPlans
    BY <1>4, <2>1, FzPrintsStay DEF FzInv, FzTypeOK, FzFrozenInv
  <2>2. CASE fzPlans' = Append(fzPlans, p)
    BY <1>2, <1>4, <2>2, FzPlanMore
  <2> QED BY <1>3, <2>1, <2>2
<1>6. FzTypeOK'
  BY <1>4, <1>5, FzRests DEF FzInv, FzTypeOK
<1>7. FzFrozenInv'
  BY <1>4, <1>5, FzRests DEF FzInv, FzFrozenInv, FzOfOneDesign
<1> QED BY <1>5, <1>6, <1>7 DEF FzInv

\* The plan of a direct print is frozen and started.
LEMMA FzDirectStartsInv == ASSUME FzInv, FzDirectStarts PROVE FzInv'
<1>1. fzDirect \in FzCallRecords /\ FzOfOneDesign(fzDirect)
  BY DEF FzInv, FzTypeOK, FzFrozenInv, FzDirectStarts
<1> DEFINE p == FzPlan(fzDirect, TRUE)
<1>2. p \in FzPlanRecords /\ FzOfOneDesign(p)
  BY <1>1, FzPlanFrozen DEF FzInv
<1>3. /\ fzPlans' = Append(fzPlans, p) /\ fzDirect' = [FzCallIdle EXCEPT !.at = "waiting"]
      /\ UNCHANGED <<fzNow, fzCache, fzAgent, fzPreviews, fzPrinted, fzLeft>>
  BY DEF FzDirectStarts
<1> HIDE DEF p
<1>5. /\ fzPlans' \in Seq(FzPlanRecords) /\ (\A i \in DOMAIN fzPlans' : FzOfOneDesign(fzPlans'[i]))
      /\ FzPrintedInv'
  BY <1>2, <1>3, FzPlanMore
<1>6. FzTypeOK'
  BY <1>3, <1>5, FzRests DEF FzInv, FzTypeOK
<1>7. FzFrozenInv'
  BY <1>3, <1>5, FzRests DEF FzInv, FzFrozenInv, FzOfOneDesign
<1> QED BY <1>5, <1>6, <1>7 DEF FzInv

\* A plan that is not yet printed goes on to another place.
LEMMA FzPlanGoes ==
  ASSUME FzInv, NEW i \in DOMAIN fzPlans, fzPlans[i].at # "printed",
         NEW at \in {"started", "printed", "refused"}, fzPlans' = [fzPlans EXCEPT ![i].at = at]
  PROVE  /\ fzPlans' \in Seq(FzPlanRecords) /\ DOMAIN fzPlans' = DOMAIN fzPlans
         /\ \A k \in DOMAIN fzPlans : FzOfOneDesign(fzPlans'[k]) /\ FzOut(k)' = FzOut(k)
         /\ \A k \in DOMAIN fzPlans : fzPlans[k].at = "printed" => fzPlans'[k].at = "printed"
         /\ fzPlans'[i].at = at
<1>1. fzPlans \in Seq(FzPlanRecords) /\ \A k \in DOMAIN fzPlans : FzOfOneDesign(fzPlans[k])
  BY DEF FzInv, FzTypeOK, FzFrozenInv
<1>2. fzPlans[i] \in FzPlanRecords
  BY <1>1
<1>3. PICK p : p = [fzPlans[i] EXCEPT !.at = at]
  OBVIOUS
<1>4. /\ p \in FzPlanRecords /\ p.at = at
      /\ p.images = fzPlans[i].images /\ p.per = fzPlans[i].per /\ p.copies = fzPlans[i].copies
      /\ p.model = fzPlans[i].model /\ p.settings = fzPlans[i].settings /\ p.profile = fzPlans[i].profile
      /\ p.asked = fzPlans[i].asked
  BY <1>2, <1>3 DEF FzPlanRecords
<1>5. fzPlans' = [fzPlans EXCEPT ![i] = p]
  BY <1>3
<1>6. fzPlans' \in Seq(FzPlanRecords) /\ DOMAIN fzPlans' = DOMAIN fzPlans
      /\ fzPlans'[i] = p /\ \A k \in DOMAIN fzPlans : k # i => fzPlans'[k] = fzPlans[k]
  BY <1>1, <1>4, <1>5
<1>7. ASSUME NEW k \in DOMAIN fzPlans PROVE FzOfOneDesign(fzPlans'[k]) /\ FzOut(k)' = FzOut(k)
  <2>1. CASE k = i
    <3>1. FzOfOneDesign(p)
      BY <1>1, <1>4 DEF FzOfOneDesign
    <3>2. FzOut(i)' = FzOut(i)
      BY <1>4, <1>6 DEF FzOut
    <3> QED BY <1>6, <2>1, <3>1, <3>2
  <2>2. CASE k # i
    BY <1>1, <1>6, <2>2 DEF FzOut
  <2> QED BY <2>1, <2>2
<1> QED BY <1>4, <1>6, <1>7

\* Where plans keep what they are printed as, and printed ones stay printed, so
\* do the prints.
LEMMA FzPrintsKept ==
  ASSUME FzPrintedInv, UNCHANGED fzPrinted, DOMAIN fzPlans' = DOMAIN fzPlans,
         \A k \in DOMAIN fzPlans : FzOut(k)' = FzOut(k),
         \A k \in DOMAIN fzPlans : fzPlans[k].at = "printed" => fzPlans'[k].at = "printed"
  PROVE  FzPrintedInv'
<1>1. /\ fzPrinted = [k \in 1..Len(fzPrinted) |-> FzOut(fzPrinted[k].plan)]
      /\ DOMAIN fzPrinted = 1..Len(fzPrinted)
      /\ \A k \in DOMAIN fzPrinted :
           fzPrinted[k].plan \in DOMAIN fzPlans /\ fzPlans[fzPrinted[k].plan].at = "printed"
      /\ \A x, y \in DOMAIN fzPrinted : fzPrinted[x].plan = fzPrinted[y].plan => x = y
  BY DEF FzPrintedInv
<1>2. fzPrinted = [k \in 1..Len(fzPrinted) |-> FzOut(fzPrinted[k].plan)']
  BY <1>1
<1>3. \A k \in DOMAIN fzPrinted :
        fzPrinted[k].plan \in DOMAIN fzPlans' /\ fzPlans'[fzPrinted[k].plan].at = "printed"
  BY <1>1
<1> QED BY <1>1, <1>2, <1>3 DEF FzPrintedInv

\* A plan that is started has not been printed.
LEMMA FzStartInv == ASSUME FzInv, NEW i \in DOMAIN fzPlans, FzStart(i) PROVE FzInv'
<1>1. /\ fzPlans[i].at # "printed" /\ fzPlans' = [fzPlans EXCEPT ![i].at = "started"]
      /\ UNCHANGED <<fzNow, fzCache, fzAgent, fzDirect, fzPreviews, fzPrinted, fzLeft>>
  BY DEF FzStart
<1>2. /\ fzPlans' \in Seq(FzPlanRecords) /\ DOMAIN fzPlans' = DOMAIN fzPlans
      /\ \A k \in DOMAIN fzPlans : FzOfOneDesign(fzPlans'[k]) /\ FzOut(k)' = FzOut(k)
      /\ \A k \in DOMAIN fzPlans : fzPlans[k].at = "printed" => fzPlans'[k].at = "printed"
  BY <1>1, FzPlanGoes
<1>3. FzPrintedInv'
  BY <1>1, <1>2, FzPrintsKept DEF FzInv
<1>4. FzTypeOK'
  BY <1>1, <1>2 DEF FzInv, FzTypeOK
<1>5. FzFrozenInv'
  BY <1>1, <1>2 DEF FzInv, FzFrozenInv, FzOfOneDesign
<1> QED BY <1>3, <1>4, <1>5 DEF FzInv

\* One print more, of a plan that was not printed.
LEMMA PrintsOneMore ==
  ASSUME NEW n \in Nat, NEW D, NEW out, NEW s, Len(s) = n,
         s = [k \in 1..n |-> out[s[k].plan]], \A k \in 1..n : s[k].plan \in D,
         \A x, y \in 1..n : s[x].plan = s[y].plan => x = y,
         NEW i \in D, out[i].plan = i, \A k \in 1..n : s[k].plan # i,
         NEW t, t = Append(s, out[i])
  PROVE  /\ Len(t) = n + 1 /\ DOMAIN t = 1..n + 1
         /\ t = [k \in 1..n + 1 |-> out[t[k].plan]]
         /\ \A k \in 1..n + 1 : t[k].plan \in D /\ (t[k].plan = i \/ (k \in 1..n /\ t[k].plan = s[k].plan))
         /\ \A x, y \in 1..n + 1 : t[x].plan = t[y].plan => x = y
<1>1. PICK S : S = {s[k] : k \in 1..n} \cup {out[i]}
  OBVIOUS
<1>2. s \in [1..n -> S] /\ out[i] \in S
  BY <1>1
<1>3. s \in Seq(S)
  BY <1>2
<1>4. PICK e \in S : e = out[i]
  BY <1>2
<1>5. /\ t \in Seq(S) /\ Len(t) = n + 1 /\ t[n + 1] = e /\ \A k \in 1..n : t[k] = s[k]
  BY <1>3, <1>4
<1>6. DOMAIN t = 1..n + 1 /\ \A k \in 1..n + 1 : k \in 1..n \/ k = n + 1
  BY <1>5
<1>7. \A k \in 1..n + 1 : t[k] = out[t[k].plan]
  BY <1>4, <1>5, <1>6
<1>8. t = [k \in 1..n + 1 |-> t[k]]
  BY <1>5, <1>6
<1>9. t = [k \in 1..n + 1 |-> out[t[k].plan]]
  BY <1>7, <1>8
<1>10. \A k \in 1..n + 1 : t[k].plan \in D /\ (t[k].plan = i \/ (k \in 1..n /\ t[k].plan = s[k].plan))
  BY <1>4, <1>5, <1>6
<1>11. \A x, y \in 1..n + 1 : t[x].plan = t[y].plan => x = y
  BY <1>4, <1>5, <1>6
<1> QED BY <1>5, <1>6, <1>9, <1>10, <1>11

\* What is printed of a plan is what it says, and it is printed now for the
\* first time.
LEMMA FzExecutesInv == ASSUME FzInv, NEW i \in DOMAIN fzPlans, FzExecutes(i) PROVE FzInv'
<1>1. PICK model \in IF fzCache # "none" THEN {fzCache} ELSE {fzNow.model, "none"} :
        /\ fzCache' = model
        /\ IF model = fzPlans[i].model
           THEN FzEnds(i, "printed") /\ FzSends(i, model)
           ELSE FzEnds(i, "refused") /\ UNCHANGED fzPrinted
  BY DEF FzExecutes
<1>2. fzPlans[i].at = "started" /\ UNCHANGED <<fzNow, fzAgent, fzPreviews, fzLeft>>
  BY DEF FzExecutes
<1>3. model \in FzModels \cup {"none"}
  BY <1>1 DEF FzInv, FzTypeOK
<1> DEFINE how == IF model = fzPlans[i].model THEN "printed" ELSE "refused"
<1>4. how \in {"printed", "refused"} /\ FzEnds(i, how)
  BY <1>1
<1>5. fzPlans' = [fzPlans EXCEPT ![i].at = how] /\ (fzDirect' = FzCallIdle \/ fzDirect' = fzDirect)
  BY <1>4 DEF FzEnds
<1>6. /\ fzPlans' \in Seq(FzPlanRecords) /\ DOMAIN fzPlans' = DOMAIN fzPlans
      /\ \A k \in DOMAIN fzPlans : FzOfOneDesign(fzPlans'[k]) /\ FzOut(k)' = FzOut(k)
      /\ \A k \in DOMAIN fzPlans : fzPlans[k].at = "printed" => fzPlans'[k].at = "printed"
      /\ fzPlans'[i].at = how
  <2> HIDE DEF how
  <2>1. fzPlans[i].at # "printed" /\ how \in {"started", "printed", "refused"}
    BY <1>2, <1>4
  <2> QED BY <1>5, <2>1, FzPlanGoes
<1>7. FzTypeOK'
  BY <1>1, <1>2, <1>3, <1>5, <1>6, FzRests DEF FzInv, FzTypeOK
<1>8. FzFrozenInv'
  <2>1. fzDirect'.at \notin {"idle", "waiting"} => FzOfOneDesign(fzDirect')
    BY <1>5, FzRests DEF FzInv, FzFrozenInv
  <2> QED BY <1>2, <1>6, <2>1 DEF FzInv, FzFrozenInv, FzOfOneDesign
<1>9. CASE model # fzPlans[i].model
  <2>1. FzPrintedInv'
    BY <1>1, <1>6, <1>9, FzPrintsKept DEF FzInv
  <2> QED BY <1>7, <1>8, <2>1 DEF FzInv
<1>10. CASE model = fzPlans[i].model
  <2>1. fzPrinted' = Append(fzPrinted, FzOut(i)) /\ fzPlans'[i].at = "printed"
    BY <1>1, <1>6, <1>10 DEF FzSends, FzOut
  <2>2. PICK n \in Nat : n = Len(fzPrinted)
    BY DEF FzInv, FzPrintedInv
  <2>3. PICK D, out : D = DOMAIN fzPlans /\ out = [k \in DOMAIN fzPlans |-> FzOut(k)]
    OBVIOUS
  <2>4. D = DOMAIN fzPlans' /\ out = [k \in DOMAIN fzPlans' |-> FzOut(k)']
    BY <1>6, <2>3
  <2>5. /\ fzPrinted = [k \in 1..n |-> FzOut(fzPrinted[k].plan)] /\ DOMAIN fzPrinted = 1..n
        /\ \A k \in 1..n : fzPrinted[k].plan \in D /\ fzPlans[fzPrinted[k].plan].at = "printed"
        /\ \A x, y \in 1..n : fzPrinted[x].plan = fzPrinted[y].plan => x = y
    BY <2>2, <2>3 DEF FzInv, FzPrintedInv
  <2>6. fzPrinted = [k \in 1..n |-> out[fzPrinted[k].plan]]
    BY <2>3, <2>5
  <2>7. i \in D /\ out[i] = FzOut(i) /\ out[i].plan = i
    BY <2>3 DEF FzOut
  <2>8. \A k \in 1..n : fzPrinted[k].plan # i
    BY <1>2, <2>5
  <2>9. PICK s, t : s = fzPrinted /\ t = fzPrinted'
    OBVIOUS
  <2>10. t = Append(s, out[i])
    BY <2>1, <2>7, <2>9
  <2>11. /\ Len(t) = n + 1 /\ DOMAIN t = 1..n + 1
         /\ t = [k \in 1..n + 1 |-> out[t[k].plan]]
         /\ \A k \in 1..n + 1 : t[k].plan \in D /\ (t[k].plan = i \/ (k \in 1..n /\ t[k].plan = s[k].plan))
         /\ \A x, y \in 1..n + 1 : t[x].plan = t[y].plan => x = y
    <3>1. /\ Len(s) = n /\ s = [k \in 1..n |-> out[s[k].plan]] /\ \A k \in 1..n : s[k].plan \in D
          /\ \A x, y \in 1..n : s[x].plan = s[y].plan => x = y
          /\ \A k \in 1..n : s[k].plan # i
      BY <2>2, <2>5, <2>6, <2>8, <2>9
    <3> QED BY ONLY n \in Nat, <2>7, <2>10, <3>1, PrintsOneMore
  <2>12. \A k \in 1..n + 1 : t[k].plan \in DOMAIN fzPlans' /\ fzPlans'[t[k].plan].at = "printed"
    <3> SUFFICES ASSUME NEW k \in 1..n + 1
                 PROVE  t[k].plan \in DOMAIN fzPlans' /\ fzPlans'[t[k].plan].at = "printed"
      OBVIOUS
    <3>1. PICK p : p = t[k].plan
      OBVIOUS
    <3>2. p \in DOMAIN fzPlans' /\ (p = i \/ (k \in 1..n /\ p = fzPrinted[k].plan))
      BY <1>6, <2>3, <2>9, <2>11, <3>1
    <3>3. p # i => fzPlans[p].at = "printed" /\ p \in DOMAIN fzPlans
      BY <2>3, <2>5, <3>2
    <3>4. fzPlans'[p].at = "printed"
      BY <1>6, <2>1, <3>3
    <3> QED BY <3>1, <3>2, <3>4
  <2>13. n + 1 \in Nat
    OBVIOUS
  <2>14. t = [k \in 1..Len(t) |-> FzOut(t[k].plan)']
    BY <2>4, <2>11, <2>12
  <2>15. FzPrintedInv'
    BY <2>9, <2>11, <2>12, <2>13, <2>14 DEF FzPrintedInv
  <2> QED BY <1>7, <1>8, <2>15 DEF FzInv
<1> QED BY <1>9, <1>10

\* Every step of the plans.
LEMMA FzNextInv == ASSUME FzInv, [FzNext]_fzVars PROVE FzInv'
<1>1. CASE UNCHANGED fzVars
  <2>1. UNCHANGED <<fzNow, fzCache, fzAgent, fzDirect, fzPreviews, fzPlans, fzPrinted, fzLeft>>
    BY <1>1 DEF fzVars
  <2>2. FzTypeOK'
    BY <2>1 DEF FzInv, FzTypeOK
  <2>3. FzPrintedInv' /\ FzFrozenInv'
    BY <2>1, FzPrintsStay DEF FzInv, FzFrozenInv, FzOfOneDesign
  <2> QED BY <2>2, <2>3 DEF FzInv
<1>2. CASE FzNext
  BY <1>2, FzPreviewInv, FzPrepareInv, FzDirectPrintInv, FzPreviewedInv, FzExpiresInv, FzPlannedInv,
     FzDirectStartsInv, FzChangeInv, FzCallInv, FzStartInv, FzExecutesInv DEF FzNext
<1> QED BY <1>1, <1>2

\* The images out are the given ones, group by group, as often as asked.
FzAsAsked(out, images, per, copies) ==
  /\ Len(out) = Len(images) * copies
  /\ \A i \in DOMAIN out :
       out[i] = images[((i - 1) \div (per * copies)) * per + ((i - 1) % per) + 1]
LEMMA ExpandedIsAsAsked ==
  ASSUME NEW images \in Seq(FzImages), NEW per \in Nat \ {0}, NEW copies \in Nat \ {0}, NEW m \in Nat,
         Len(images) = m * per
  PROVE  FzAsAsked(FzExpanded(images, per, copies), images, per, copies)
BY ExpandedAsAsked DEF FzAsAsked

\* What was printed is the plan.
LEMMA FzInvPrints == FzInv => FzPrintsThePlan
<1> SUFFICES ASSUME FzInv PROVE FzPrintsThePlan
  OBVIOUS
<1>1. ASSUME NEW out \in ToSet(fzPrinted)
      PROVE  LET plan == fzPlans[out.plan] IN
             /\ out.model = plan.model /\ out.settings = plan.settings /\ out.profile = plan.profile
             /\ Len(out.images) = Len(plan.images) * plan.copies
             /\ \A i \in DOMAIN out.images :
                  out.images[i] = plan.images[((i - 1) \div (plan.per * plan.copies)) * plan.per
                                              + ((i - 1) % plan.per) + 1]
             /\ \A i \in DOMAIN plan.images : plan.images[i].design = plan.asked
  <2>1. PICK k \in DOMAIN fzPrinted : out = fzPrinted[k]
    BY DEF ToSet
  <2>2. PICK p : p = out.plan
    OBVIOUS
  <2>3. out = FzOut(p) /\ p \in DOMAIN fzPlans
    BY <2>1, <2>2 DEF FzInv, FzPrintedInv
  <2>4. fzPlans[p] \in FzPlanRecords /\ FzOfOneDesign(fzPlans[p])
    BY <2>3 DEF FzInv, FzTypeOK, FzFrozenInv
  <2>5. PICK images \in Seq(FzImages), per \in Nat \ {0}, copies \in {1, 2} :
          images = fzPlans[p].images /\ per = fzPlans[p].per /\ copies = fzPlans[p].copies
    BY <2>4 DEF FzPlanRecords, FzOfOneDesign
  <2>6. Len(images) % per = 0 /\ \A i \in DOMAIN images : images[i].design = fzPlans[p].asked
    BY <2>4, <2>5 DEF FzOfOneDesign
  <2>7. PICK m \in Nat : Len(images) = m * per
    <3>1. Len(images) \in Nat
      OBVIOUS
    <3>2. PICK n \in Nat : n = Len(images)
      BY <3>1
    <3>3. PICK q \in Nat, r \in 0..per - 1 : q = n \div per /\ r = n % per /\ n = q * per + r
      BY Division
    <3>4. n = q * per
      BY <2>6, <3>2, <3>3
    <3> QED BY <3>2, <3>4
  <2>8. PICK e : e = FzExpanded(images, per, copies)
    OBVIOUS
  <2>9. /\ Len(e) = Len(images) * copies
        /\ \A i \in DOMAIN e :
             e[i] = images[((i - 1) \div (per * copies)) * per + ((i - 1) % per) + 1]
    <3>1. copies \in Nat \ {0}
      OBVIOUS
    <3> QED BY <2>7, <2>8, <3>1, ExpandedIsAsAsked DEF FzAsAsked
  <2>10. /\ out.images = e /\ out.model = fzPlans[p].model /\ out.settings = fzPlans[p].settings
         /\ out.profile = fzPlans[p].profile
    BY <2>3, <2>5, <2>8 DEF FzOut
  <2> QED BY <2>2, <2>5, <2>6, <2>9, <2>10
<1> QED BY <1>1 DEF FzPrintsThePlan, FzInv, FzPrintedInv

-----------------------------------------------------------------------------
(* The plan of a paper layout (rendering/paper_layout.py).                  *)

\* The paper takes as many strips as cover the image: the last begins on it and
\* reaches its edge, and those before it are full.
IsCovered(w, paper, c) ==
  /\ c \in Nat \ {0} /\ c * paper >= w
  /\ \A k \in 1..c : (k - 1) * paper < w /\ (k - 1) * paper \in Nat /\ k * paper = (k - 1) * paper + paper
  /\ \A k \in 1..c : k # c => k * paper < w
LEMMA StripsCover ==
  ASSUME NEW w \in Nat, NEW paper \in Nat \ {0}, w > paper,
         NEW c, c = (w + paper - 1) \div paper
  PROVE  IsCovered(w, paper, c)
<1>1. PICK a \in Nat : a = w + paper - 1
  OBVIOUS
<1>2. PICK q \in Nat, r \in 0..paper - 1 : q = a \div paper /\ a = q * paper + r
  BY Division
<1>3. c = q /\ c \in Nat
  BY <1>1, <1>2
<1>4. PICK p \in Nat : p = c * paper
  BY <1>3
<1>5. p >= w /\ p - paper < w
  BY <1>1, <1>2, <1>3, <1>4
<1>6. c # 0
  <2>1. c = 0 => p = 0
    BY <1>4
  <2> QED BY <1>5, <2>1
<1>7. c \in Nat \ {0} /\ c - 1 \in Nat
  BY <1>3, <1>6
<1>8. (c - 1) * paper = p - paper
  <2>1. c * paper = (c - 1) * paper + paper /\ (c - 1) * paper \in Nat
    BY <1>7, OneLess
  <2> QED BY <1>4, <2>1
<1>9. ASSUME NEW k \in 1..c
      PROVE  /\ (k - 1) * paper < w /\ (k - 1) * paper \in Nat /\ k * paper = (k - 1) * paper + paper
             /\ k # c => k * paper < w
  <2>1. k \in Nat \ {0} /\ k - 1 \in Nat /\ k - 1 <= c - 1 /\ (k # c => k <= c - 1)
    BY <1>7
  <2>2. k * paper = (k - 1) * paper + paper /\ (k - 1) * paper \in Nat
    BY <2>1, OneLess
  <2>3. (k - 1) * paper <= (c - 1) * paper
    BY <1>7, <2>1, ProductsGrow
  <2>4. k # c => k * paper <= (c - 1) * paper
    BY <1>7, <2>1, ProductsGrow
  <2>5. k * paper \in Nat /\ (c - 1) * paper < w
    BY <1>5, <1>8, <2>2
  <2> QED BY <1>8, <2>2, <2>3, <2>4, <2>5
<1> QED BY <1>4, <1>5, <1>7, <1>9 DEF IsCovered

\* What is rounded is no more than a whole it is less than.
LEMMA RoundedBelow ==
  ASSUME NEW paper \in Nat \ {0}, NEW height \in Nat, NEW tall \in Nat, tall > height
  PROVE  PlRound(paper * height, tall) \in Nat /\ PlRound(paper * height, tall) <= paper
<1>1. tall \in Nat \ {0} /\ paper * height \in Nat
  OBVIOUS
<1>2. PICK a \in Nat : a = paper * height
  BY <1>1
<1>3. PICK q \in Nat, r \in 0..tall - 1 : q = a \div tall /\ r = a % tall /\ a = q * tall + r
  BY <1>1, Division
<1>4. q < paper
  <2>1. a < paper * tall
    <3>1. PICK x \in Nat : tall = height + 1 + x
      <4>1. tall - height - 1 \in Nat /\ tall = height + 1 + (tall - height - 1)
        OBVIOUS
      <4> QED BY <4>1
    <3>2. paper * (height + 1 + x) = paper * height + paper + paper * x /\ paper * x \in Nat
      OBVIOUS
    <3> QED BY <1>1, <1>2, <3>1, <3>2
  <2>2. q * tall + r < paper * tall
    BY <1>3, <2>1
  <2> QED BY <1>1, <1>3, <2>2, QuotientBelow
<1>5. PlRound(a, tall) \in {q, q + 1}
  BY <1>3 DEF PlRound
<1> QED BY <1>2, <1>4, <1>5

\* A strip lies on its paper.
PlLies(asked, s) ==
  /\ s.left < s.right
  /\ \A d \in {1, 2} : s.paste[d] >= 0 /\ s.paste[d] + s.fitted[d] <= s.canvas[d] /\ s.fitted[d] > 0
  /\ s.right - s.left <= asked.width => s.offset + s.right - s.left <= s.normal[1]
  /\ asked.height # 0 => s.canvas[2] = asked.height
LEMMA FittedLies ==
  ASSUME NEW asked, asked.width \in Nat \ {0}, asked.height \in Nat, NEW index,
         NEW left \in Nat, NEW right \in Nat, left < right, NEW high \in Nat \ {0}, NEW cut \in BOOLEAN
  PROVE  PlLies(asked, PlFit(asked, index, left, right, high, cut))
<1>1. PICK width \in Nat \ {0}, height \in Nat : width = asked.width /\ height = asked.height
  OBVIOUS
<1>2. PICK wide \in Nat \ {0} : wide = right - left
  OBVIOUS
<1>3. PICK tall : tall = IF ~cut /\ wide > width THEN PlAtLeastOne((high * width) \div wide) ELSE high
  OBVIOUS
<1>4. tall \in Nat \ {0}
  <2>1. high * width \in Nat
    OBVIOUS
  <2>2. PICK a \in Nat : a = high * width
    BY <2>1
  <2>3. PICK q \in Nat, r \in 0..wide - 1 : q = a \div wide
    BY Division
  <2>4. PlAtLeastOne(q) \in Nat \ {0}
    BY DEF PlAtLeastOne
  <2> QED BY <1>3, <2>2, <2>3, <2>4
<1>5. PICK over \in BOOLEAN : over <=> (height # 0 /\ tall > height)
  OBVIOUS
<1>6. PICK fit : fit = IF over THEN PlAtLeastOne(PlRound(width * height, tall)) ELSE width
  OBVIOUS
<1>7. fit \in Nat \ {0} /\ fit <= width
  <2>1. CASE over
    <3>1. PlRound(width * height, tall) \in Nat /\ PlRound(width * height, tall) <= width
      BY <1>4, <1>5, <2>1, RoundedBelow
    <3> QED BY <1>6, <2>1, <3>1 DEF PlAtLeastOne
  <2>2. CASE ~over
    BY <1>6, <2>2
  <2> QED BY <2>1, <2>2
<1>8. PICK s : s = PlFit(asked, index, left, right, high, cut)
  OBVIOUS
<1>9. /\ s.left = left /\ s.right = right /\ s.normal = <<width, tall>>
      /\ s.offset = IF cut \/ wide >= width THEN 0 ELSE (width - wide) \div 2
      /\ s.fitted = <<fit, IF over THEN height ELSE tall>>
      /\ s.canvas = <<width, IF height # 0 THEN height ELSE tall>>
      /\ s.paste = <<IF over THEN (width - fit) \div 2 ELSE 0,
                     IF over \/ height = 0 THEN 0 ELSE (height - tall) \div 2>>
  BY <1>1, <1>2, <1>3, <1>5, <1>6, <1>8 DEF PlFit
<1>10. ASSUME NEW x \in Nat, NEW y \in Nat, y <= x PROVE (x - y) \div 2 \in Nat /\ ((x - y) \div 2) + y <= x
  BY <1>10
<1>11. s.paste[1] >= 0 /\ s.paste[1] + s.fitted[1] <= s.canvas[1] /\ s.fitted[1] > 0
  <2>1. CASE over
    BY <1>7, <1>9, <1>10, <2>1
  <2>2. CASE ~over
    BY <1>7, <1>9, <2>2
  <2> QED BY <2>1, <2>2
<1>12. s.paste[2] >= 0 /\ s.paste[2] + s.fitted[2] <= s.canvas[2] /\ s.fitted[2] > 0
  <2>1. CASE over
    BY <1>5, <1>9, <2>1
  <2>2. CASE ~over /\ height = 0
    BY <1>4, <1>9, <2>2
  <2>3. CASE ~over /\ height # 0
    <3>1. tall <= height /\ tall \in Nat
      BY <1>4, <1>5, <2>3
    <3> QED BY <1>4, <1>9, <1>10, <2>3, <3>1
  <2> QED BY <2>1, <2>2, <2>3
<1>13. ASSUME s.right - s.left <= width PROVE s.offset + s.right - s.left <= s.normal[1]
  <2>1. wide <= width /\ s.normal[1] = width
    BY <1>2, <1>9, <1>13
  <2>2. s.offset \in Nat /\ s.offset + wide <= width
    <3>1. CASE cut \/ wide >= width
      BY <1>9, <2>1, <3>1
    <3>2. CASE ~(cut \/ wide >= width)
      <4>1. (width - wide) \div 2 \in Nat /\ ((width - wide) \div 2) + wide <= width
        BY <1>10, <2>1
      <4> QED BY <1>9, <3>2, <4>1
    <3> QED BY <3>1, <3>2
  <2> QED BY <1>2, <1>9, <2>1, <2>2
<1>14. \A d \in {1, 2} : s.paste[d] >= 0 /\ s.paste[d] + s.fitted[d] <= s.canvas[d] /\ s.fitted[d] > 0
  BY <1>11, <1>12
<1>15. height # 0 => s.canvas[2] = height
  BY <1>9
<1>16. PlLies(asked, s)
  BY <1>1, <1>9, <1>13, <1>14, <1>15 DEF PlLies
<1> QED BY <1>8, <1>16

\* What is right of the strips of one image: they lie on their paper, begin and
\* end with it, and fit together.
PlCovers(asked, i, part) ==
  /\ Len(part) \in Nat \ {0} /\ part = [k \in 1..Len(part) |-> part[k]]
  /\ \A k \in 1..Len(part) : part[k].image = i /\ PlLies(asked, part[k])
  /\ part[1].left = 0 /\ part[Len(part)].right = PlTurned(asked.sizes[i], asked.turn)[1]
  /\ \A k \in 2..Len(part) :
       part[k].left = part[k - 1].right /\ part[k].fitted = part[k - 1].fitted /\ part[k].normal = part[k - 1].normal
LEMMA StripsAreRight ==
  ASSUME NEW asked, asked.width \in Nat \ {0}, asked.height \in Nat, asked.turn \in BOOLEAN, asked.split \in BOOLEAN,
         NEW i, asked.sizes[i] \in (Nat \ {0}) \X (Nat \ {0})
  PROVE  PlCovers(asked, i, PlStripsOf(asked, i))
<1>1. PICK size \in (Nat \ {0}) \X (Nat \ {0}) : size = PlTurned(asked.sizes[i], asked.turn)
  BY DEF PlTurned
<1>2. PICK paper \in Nat \ {0}, w \in Nat \ {0}, high \in Nat \ {0} :
        paper = asked.width /\ w = size[1] /\ high = size[2]
  OBVIOUS
<1>3. PICK part : part = PlStripsOf(asked, i)
  OBVIOUS
<1>4. CASE ~(asked.split /\ w > paper)
  <2>1. part = [k \in 1..1 |-> PlFit(asked, i, 0, w, high, FALSE)]
    BY <1>1, <1>2, <1>3, <1>4 DEF PlStripsOf
  <2>2. PICK s : s = PlFit(asked, i, 0, w, high, FALSE)
    OBVIOUS
  <2>3. PlLies(asked, s)
    <3>1. 0 \in Nat /\ 0 < w /\ FALSE \in BOOLEAN
      OBVIOUS
    <3> QED BY <2>2, <3>1, FittedLies
  <2>4. s.image = i /\ s.left = 0 /\ s.right = w
    BY <2>2 DEF PlFit
  <2>5. part \in Seq({s}) /\ Len(part) = 1 /\ part[1] = s /\ part = [k \in 1..Len(part) |-> part[k]]
    <3>1. part = [k \in 1..1 |-> s]
      BY <2>1, <2>2
    <3>2. part \in Seq({s}) /\ Len(part) = 1 /\ part[1] = s
      BY <3>1
    <3> QED BY <3>1, <3>2
  <2>6. \A k \in 1..Len(part) : k = 1
    BY <2>5
  <2>7. 2..Len(part) = {}
    BY <2>5
  <2>8. PlCovers(asked, i, part)
    BY <1>1, <1>2, <2>3, <2>4, <2>5, <2>6, <2>7 DEF PlCovers
  <2> QED BY <1>3, <2>8
<1>5. CASE asked.split /\ w > paper
  <2>1. PICK c : c = (w + paper - 1) \div paper
    OBVIOUS
  <2>2. /\ c \in Nat \ {0} /\ c * paper >= w
        /\ \A k \in 1..c : (k - 1) * paper < w /\ (k - 1) * paper \in Nat /\ k * paper = (k - 1) * paper + paper
        /\ \A k \in 1..c : k # c => k * paper < w
    <3>1. w \in Nat
      OBVIOUS
    <3>2. IsCovered(w, paper, c)
      BY <1>5, <2>1, <3>1, StripsCover
    <3> QED BY <3>2 DEF IsCovered
  <2>3. PICK edge : edge = [k \in 0..c |-> IF k * paper > w THEN w ELSE k * paper]
    OBVIOUS
  <2>4. part = [k \in 1..c |-> PlFit(asked, i, (k - 1) * paper, edge[k], high, TRUE)]
    <3>1. part = [k \in 1..c |-> PlFit(asked, i, (k - 1) * paper, IF k * paper > w THEN w ELSE k * paper, high, TRUE)]
      BY <1>1, <1>2, <1>3, <1>5, <2>1 DEF PlStripsOf
    <3>2. \A k \in 1..c : edge[k] = IF k * paper > w THEN w ELSE k * paper
      BY <2>2, <2>3
    <3> QED BY <3>1, <3>2
  <2>5. ASSUME NEW k \in 1..c
        PROVE  edge[k] \in Nat /\ (k - 1) * paper < edge[k] /\ (k # c => edge[k] = k * paper) /\ (k = c => edge[k] = w)
    <3>1. PICK p \in Nat : p = (k - 1) * paper
      BY <2>2
    <3>2. p < w /\ k * paper = p + paper /\ (k # c => p + paper < w) /\ (k = c => p + paper >= w)
      BY <2>2, <3>1
    <3>3. edge[k] = IF k * paper > w THEN w ELSE k * paper
      BY <2>2, <2>3
    <3>4. edge[k] = IF p + paper > w THEN w ELSE p + paper
      BY <3>2, <3>3
    <3> QED BY <3>1, <3>2, <3>4
  <2>6. ASSUME NEW k \in 1..c
        PROVE  /\ part[k].image = i /\ PlLies(asked, part[k]) /\ part[k].left = (k - 1) * paper /\ part[k].right = edge[k]
    <3>1. PICK p \in Nat, e \in Nat : p = (k - 1) * paper /\ e = edge[k] /\ p < e
      BY <2>2, <2>5
    <3>2. part[k] = PlFit(asked, i, p, e, high, TRUE)
      BY <2>4, <3>1
    <3>3. PlLies(asked, PlFit(asked, i, p, e, high, TRUE))
      BY <3>1, FittedLies
    <3>4. /\ PlFit(asked, i, p, e, high, TRUE).image = i /\ PlFit(asked, i, p, e, high, TRUE).left = p
          /\ PlFit(asked, i, p, e, high, TRUE).right = e
      BY DEF PlFit
    <3> QED BY <3>1, <3>2, <3>3, <3>4
  <2>7. ASSUME NEW k \in 1..c, NEW h \in 1..c
        PROVE  part[k].fitted = part[h].fitted /\ part[k].normal = part[h].normal
    <3>1. \A p, e, q, f : /\ PlFit(asked, i, p, e, high, TRUE).fitted = PlFit(asked, i, q, f, high, TRUE).fitted
                          /\ PlFit(asked, i, p, e, high, TRUE).normal = PlFit(asked, i, q, f, high, TRUE).normal
      BY DEF PlFit
    <3>2. part[k] = PlFit(asked, i, (k - 1) * paper, edge[k], high, TRUE)
      BY <2>4
    <3>3. part[h] = PlFit(asked, i, (h - 1) * paper, edge[h], high, TRUE)
      BY <2>4
    <3> QED BY <3>1, <3>2, <3>3
  <2>8. Len(part) = c /\ part = [k \in 1..c |-> part[k]]
    <3>1. part = [k \in 1..c |-> part[k]]
      BY <2>4
    <3>2. PICK S : S = {part[k] : k \in 1..c}
      OBVIOUS
    <3>3. part \in [1..c -> S]
      BY <3>1, <3>2
    <3>4. part \in Seq(S)
      BY <2>2, <3>3
    <3> QED BY <2>2, <3>1, <3>3, <3>4
  <2>9. part[1].left = 0
    <3>1. 1 \in 1..c /\ (1 - 1) * paper = 0
      BY <2>2
    <3> QED BY <2>6, <3>1
  <2>10. part[c].right = w
    <3>1. c \in 1..c
      BY <2>2
    <3> QED BY <2>5, <2>6, <3>1
  <2>11. ASSUME NEW k \in 2..c
         PROVE  part[k].left = part[k - 1].right /\ part[k].fitted = part[k - 1].fitted
                /\ part[k].normal = part[k - 1].normal
    <3>1. PICK h \in 1..c : h = k - 1 /\ h # c /\ k \in 1..c
      BY <2>2
    <3>2. part[k].left = h * paper /\ part[h].right = h * paper
      BY <2>5, <2>6, <3>1
    <3> QED BY <2>7, <3>1, <3>2
  <2>12. PlCovers(asked, i, part)
    BY <1>1, <1>2, <2>2, <2>6, <2>8, <2>9, <2>10, <2>11 DEF PlCovers
  <2> QED BY <1>3, <2>12
<1> QED BY <1>4, <1>5

\* What is right of a strip of a plan.
PlStripRight(asked, plan, k) ==
  LET s == plan[k]
      begins == k = 1 \/ plan[k - 1].image # s.image
      ends == k = Len(plan) \/ plan[k + 1].image # s.image
  IN /\ s.left < s.right
     /\ begins => s.left = 0
     /\ ends => s.right = PlTurned(asked.sizes[s.image], asked.turn)[1]
     /\ ~begins => LET t == plan[k - 1]
                   IN s.left = t.right /\ s.fitted = t.fitted /\ s.normal = t.normal
     /\ k > 1 => plan[k - 1].image <= s.image
     /\ \A d \in {1, 2} : s.paste[d] >= 0 /\ s.paste[d] + s.fitted[d] <= s.canvas[d] /\ s.fitted[d] > 0
     /\ s.right - s.left <= asked.width => s.offset + s.right - s.left <= s.normal[1]
     /\ asked.height # 0 => s.canvas[2] = asked.height

\* The strips of a asked, image after image, are whole.
LEMMA PlPlanStarts == PlInit => PlPlanIsWhole
<1> SUFFICES ASSUME PlInit, plPlan # <<>> PROVE PlPlanIsWhole
  BY DEF PlPlanIsWhole
<1>1. PICK asked \in PlJobs : asked = plJob /\ plPlan = PlPlanOf(asked)
  BY DEF PlInit
<1>2. /\ asked.width \in Nat \ {0} /\ asked.height \in Nat /\ asked.turn \in BOOLEAN /\ asked.split \in BOOLEAN
      /\ asked.sizes \in Seq((Nat \ {0}) \X (Nat \ {0}))
  BY PlAssumption
<1>3. PICK n \in Nat : n = Len(asked.sizes) /\ DOMAIN asked.sizes = 1..n
  BY <1>2
<1>4. PICK parts : parts = [i \in 1..n |-> PlStripsOf(asked, i)]
  OBVIOUS
<1>5. plPlan = FlattenSeq(parts)
  BY <1>1, <1>3, <1>4 DEF PlPlanOf
<1>6. \A i \in 1..n : PlCovers(asked, i, parts[i])
  <2>1. \A i \in 1..n : asked.sizes[i] \in (Nat \ {0}) \X (Nat \ {0})
    BY <1>2, <1>3
  <2>2. \A i \in 1..n : PlCovers(asked, i, PlStripsOf(asked, i))
    BY <1>2, <2>1, StripsAreRight
  <2> QED BY <1>4, <2>2
<1>7. PICK T : parts \in Seq(Seq(T)) /\ Len(parts) = n
  <2>1. PICK T : T = UNION {{parts[i][k] : k \in 1..Len(parts[i])} : i \in 1..n}
    OBVIOUS
  <2>2. ASSUME NEW i \in 1..n PROVE parts[i] \in Seq(T)
    <3>1. PICK m \in Nat : m = Len(parts[i])
      BY <1>6 DEF PlCovers
    <3>2. parts[i] = [k \in 1..m |-> parts[i][k]]
      BY <1>6, <3>1 DEF PlCovers
    <3>3. \A k \in 1..m : parts[i][k] \in T
      BY <2>1, <3>1
    <3>4. PICK part : part = parts[i]
      OBVIOUS
    <3>5. part \in [1..m -> T]
      BY <3>2, <3>3, <3>4
    <3> QED BY <3>4, <3>5
  <2>3. parts \in Seq(Seq(T)) /\ Len(parts) = n
    <3>1. parts = [i \in 1..n |-> parts[i]]
      BY <1>4
    <3>2. PICK S : S = Seq(T)
      OBVIOUS
    <3>3. \A i \in 1..n : parts[i] \in S
      BY <2>2, <3>2
    <3>4. parts \in [1..n -> S]
      BY <3>1, <3>3
    <3> QED BY <3>2, <3>4
  <2> QED BY <2>3
<1>8. PICK v : InARow(v, parts, T)
  BY <1>7, RowExists
<1>9. plPlan = v[Len(parts)]
  BY <1>5, <1>7, <1>8, FlattenedInARow
<1>10. \A i \in 1..Len(parts) : Len(parts[i]) # 0
  BY <1>6, <1>7 DEF PlCovers
<1>11. PICK plan : plan = plPlan
  OBVIOUS
<1>12. \A k \in 1..Len(plan) : \E i, j : IsBeside(plan, parts, k, i, j)
  BY <1>7, <1>8, <1>9, <1>10, <1>11, RowNeighbours
<1>13. plan \in Seq(T) /\ DOMAIN plan = 1..Len(plan) /\ Len(plan) \in Nat
  BY <1>7, <1>8, <1>9, <1>11 DEF InARow
<1>14. ASSUME NEW h \in 1..n PROVE \E k \in DOMAIN plan : plan[k].image = h
  <2>1. PlCovers(asked, h, parts[h])
    BY <1>6
  <2>2. PICK part, m : part = parts[h] /\ m = Len(part)
    OBVIOUS
  <2>3. m \in Nat \ {0} /\ \A k \in 1..m : part[k].image = h
    BY <2>1, <2>2 DEF PlCovers
  <2>4. 1 \in 1..m
    BY <2>3
  <2>5. /\ RowEnds(v, h - 1) + 1 \in 1..Len(v[Len(parts)])
        /\ v[Len(parts)][RowEnds(v, h - 1) + 1] = parts[h][1]
    <3>1. h \in 1..Len(parts) /\ 1 \in 1..Len(parts[h])
      BY <1>7, <2>2, <2>4
    <3>2. parts \in Seq(Seq(T))
      BY <1>7
    <3>3. PICK e \in 1..Len(parts[h]) : e = 1
      BY <3>1
    <3>4. /\ RowEnds(v, h - 1) + e \in 1..Len(v[Len(parts)])
          /\ v[Len(parts)][RowEnds(v, h - 1) + e] = parts[h][e]
      BY ONLY <1>8, <3>1, <3>2, RowHolds
    <3> QED BY <3>3, <3>4
  <2>6. RowEnds(v, h - 1) + 1 \in 1..Len(plan) /\ plan[RowEnds(v, h - 1) + 1] = part[1]
    BY <1>9, <1>11, <2>2, <2>5
  <2> QED BY <1>13, <2>3, <2>4, <2>6
<1>15. ASSUME NEW k \in 1..Len(plan) PROVE PlStripRight(asked, plan, k)
  <2>1. PICK i, j : IsBeside(plan, parts, k, i, j)
    BY <1>12
  <2>2. /\ i \in 1..n /\ j \in 1..Len(parts[i]) /\ plan[k] = parts[i][j]
        /\ j > 1 => k > 1 /\ plan[k - 1] = parts[i][j - 1]
        /\ j < Len(parts[i]) => k < Len(plan) /\ plan[k + 1] = parts[i][j + 1]
        /\ j = 1 /\ k > 1 => i > 1 /\ plan[k - 1] = parts[i - 1][Len(parts[i - 1])]
    BY <1>7, <2>1 DEF IsBeside
  <2>14. PlCovers(asked, i, parts[i]) /\ Len(parts[i]) \in Nat \ {0}
    BY <1>6, <2>2 DEF PlCovers
  <2>15. PICK part : part = parts[i]
    OBVIOUS
  <2>3. PICK m \in Nat \ {0} : part = parts[i] /\ m = Len(part) /\ PlCovers(asked, i, part)
    BY <2>14, <2>15
  <2>9. k \in Nat /\ k >= 1
    BY <1>13
  <2>4. /\ \A x \in 1..m : part[x].image = i /\ PlLies(asked, part[x])
        /\ part[1].left = 0 /\ part[m].right = PlTurned(asked.sizes[i], asked.turn)[1]
        /\ \A x \in 2..m : /\ part[x].left = part[x - 1].right
                           /\ part[x].fitted = part[x - 1].fitted /\ part[x].normal = part[x - 1].normal
    BY <2>3 DEF PlCovers
  <2>5. j \in 1..m /\ plan[k] = part[j] /\ plan[k].image = i /\ PlLies(asked, plan[k]) /\ i \in Nat /\ j \in Nat
    BY <2>2, <2>3, <2>4
  <2>6. j > 1 => /\ k # 1 /\ plan[k - 1].image = i /\ plan[k].left = plan[k - 1].right
                 /\ plan[k].fitted = plan[k - 1].fitted /\ plan[k].normal = plan[k - 1].normal
    <3> SUFFICES ASSUME j > 1
                 PROVE  /\ k # 1 /\ plan[k - 1].image = i /\ plan[k].left = plan[k - 1].right
                        /\ plan[k].fitted = plan[k - 1].fitted /\ plan[k].normal = plan[k - 1].normal
      OBVIOUS
    <3>1. j \in 2..m /\ j - 1 \in 1..m
      BY <2>3, <2>5
    <3>2. k # 1 /\ plan[k - 1] = part[j - 1]
      BY <2>2, <2>3
    <3> QED BY <2>4, <2>5, <3>1, <3>2
  <2>7. j < m => k # Len(plan) /\ plan[k + 1].image = i
    <3> SUFFICES ASSUME j < m PROVE k # Len(plan) /\ plan[k + 1].image = i
      OBVIOUS
    <3>1. j + 1 \in 1..m
      BY <2>3, <2>5
    <3>2. k < Len(plan) /\ plan[k + 1] = part[j + 1]
      BY <2>2, <2>3
    <3>3. part[j + 1].image = i
      BY <2>4, <3>1
    <3>4. PICK z \in Nat : z = Len(plan)
      BY <1>13
    <3>5. k # Len(plan)
      BY <2>9, <3>2, <3>4
    <3> QED BY <3>2, <3>3, <3>5
  <2>8. j = 1 /\ k > 1 => plan[k - 1].image = i - 1
    <3> SUFFICES ASSUME j = 1, k > 1 PROVE plan[k - 1].image = i - 1
      OBVIOUS
    <3>1. PICK h \in 1..n : h = i - 1
      BY <2>2
    <3>2. PICK before, q : before = parts[h] /\ q = Len(before)
      OBVIOUS
    <3>3. PlCovers(asked, h, before)
      BY <1>6, <3>2
    <3>4. q \in Nat \ {0} /\ \A x \in 1..q : before[x].image = h
      BY <3>2, <3>3 DEF PlCovers
    <3>5. q \in 1..q
      BY <3>4
    <3>6. before[q].image = h
      BY <3>4, <3>5
    <3>7. plan[k - 1] = before[q]
      BY <2>2, <3>1, <3>2
    <3> QED BY <3>1, <3>6, <3>7
  <2>10. k = 1 \/ plan[k - 1].image # i => plan[k].left = 0
    BY <2>4, <2>5, <2>6
  <2>11. k = Len(plan) \/ plan[k + 1].image # i => plan[k].right = PlTurned(asked.sizes[i], asked.turn)[1]
    BY <2>3, <2>4, <2>5, <2>7
  <2>12. ~(k = 1 \/ plan[k - 1].image # i) =>
           /\ plan[k].left = plan[k - 1].right
           /\ plan[k].fitted = plan[k - 1].fitted /\ plan[k].normal = plan[k - 1].normal
    <3>1. k # 1 /\ j = 1 => plan[k - 1].image # i
      BY <2>5, <2>8, <2>9
    <3> QED BY <2>5, <2>6, <3>1
  <2>13. k > 1 => plan[k - 1].image <= i
    <3>1. j = 1 \/ j > 1
      BY <2>5
    <3> QED BY <2>5, <2>6, <2>8, <3>1
  <2> QED BY <2>5, <2>10, <2>11, <2>12, <2>13 DEF PlLies, PlStripRight
<1>16. \A k \in DOMAIN plPlan : PlStripRight(plJob, plPlan, k)
  BY <1>1, <1>11, <1>13, <1>15
<1>17. \A i \in DOMAIN plJob.sizes : \E k \in DOMAIN plPlan : plPlan[k].image = i
  BY <1>1, <1>3, <1>11, <1>14
<1> QED BY <1>16, <1>17 DEF PlPlanIsWhole, PlStripRight

\* The plan is made once, and stays.
LEMMA PlPlanStays == ASSUME PlPlanIsWhole, [PlNext]_plVars PROVE PlPlanIsWhole'
<1>1. UNCHANGED <<plJob, plPlan>>
  BY DEF PlNext, PlAdvance, PlSheet, PlFinish, PlStop, plVars
<1> QED BY <1>1 DEF PlPlanIsWhole

-----------------------------------------------------------------------------
(* The store (services/prepared_prints.py).                                 *)
USE StoreAssumption

\* Null is none of the values it stands for the absence of.
LEMMA NotNull ==
  /\ \A r \in Session : r # Null
  /\ \A c \in Commit : c # Null
  /\ \A d \in [Indexes -> File] : d # Null
BY NullAssumption

\* A session with a page more, and one that is committed, are sessions.
LEMMA SessionFields ==
  ASSUME NEW r \in Session
  PROVE  /\ r.expected \in 1..MaxPages /\ r.next \in Nat /\ r.bytes \in Nat
         /\ r.paths \in Seq(Indexes)
BY DEF Session, Indexes

LEMMA LongerSession ==
  ASSUME NEW r \in Session, NEW z \in Nat, NEW p \in Seq(Indexes)
  PROVE  [r EXCEPT !.paths = p, !.bytes = @ + z, !.next = @ + 1, !.age = 0] \in Session
<1>1. 0 \in 0..TTL /\ r.bytes + z \in Nat /\ r.next + 1 \in Nat
  BY SessionFields
<1> QED BY <1>1 DEF Session

LEMMA CommittedSession ==
  ASSUME NEW r \in Session
  PROVE  [r EXCEPT !.committing = TRUE, !.age = 0] \in Session
<1>1. 0 \in 0..TTL
  OBVIOUS
<1> QED BY <1>1 DEF Session

\* The page lists are the lists 1, 2, ..., n, and grow by their next number.
LEMMA UptoFacts ==
  ASSUME NEW n \in Nat
  PROVE  /\ Upto(n) \in Seq(Nat) /\ Len(Upto(n)) = n
         /\ \A i \in 1..n : Upto(n)[i] = i
         /\ n <= MaxPages => Upto(n) \in Seq(Indexes)
         /\ Append(Upto(n), n + 1) = Upto(n + 1)
<1>1. Upto(n) \in [1..n -> 1..n]
  BY DEF Upto
<1>2. Upto(n) \in Seq(Nat) /\ Len(Upto(n)) = n
  BY <1>1
<1>3. ASSUME n <= MaxPages PROVE Upto(n) \in Seq(Indexes)
  BY <1>1, <1>3 DEF Indexes
<1>4. Append(Upto(n), n + 1) = Upto(n + 1)
  <2>1. /\ Append(Upto(n), n + 1) \in Seq(Nat)
        /\ Len(Append(Upto(n), n + 1)) = n + 1
        /\ \A i \in 1..(n + 1) : Append(Upto(n), n + 1)[i] = i
    BY <1>2 DEF Upto
  <2> QED BY <2>1 DEF Upto
<1> QED BY <1>1, <1>2, <1>3, <1>4 DEF Upto

\* The store starts empty.
LEMMA StoreInitInv == Init => StoreInv
<1> SUFFICES ASSUME Init PROVE StoreInv
  OBVIOUS
<1> USE DEF Init, Live, Preparing
<1>1. TypeOK
  <2>1. <<>> \in Seq(Seq(Indexes))
    OBVIOUS
  <2>2. /\ session \in [Sessions -> Session \cup {Null}]
        /\ disk \in [Sessions -> [Indexes -> File] \cup {Null}]
        /\ commit \in [Handlers -> Commit \cup {Null}]
    OBVIOUS
  <2>3. printed \in [Sessions -> Seq(Seq(Indexes))]
    BY <2>1
  <2> QED BY <2>2, <2>3 DEF TypeOK
<1>2. DiskOwned /\ SessionInv
  BY DEF DiskOwned, SessionInv
<1>3. CommitInv
  BY DEF CommitInv
<1>4. PrintedInv
  BY DEF PrintedInv, PrintedOnce, PrintedInOrder
<1> QED BY <1>1, <1>2, <1>3, <1>4 DEF StoreInv

\* Sessions that are not being committed may be dropped at any time.
LEMMA DropInv ==
  ASSUME StoreInv, NEW S \in SUBSET Preparing,
         session' = Without(S), disk' = Cleaned(S),
         UNCHANGED <<issued, commit, printed>>, stopped' \in BOOLEAN
  PROVE  StoreInv'
<1> USE DEF StoreInv, Live, Preparing, Without, Cleaned
<1>1. TypeOK'
  BY DEF TypeOK
<1>2. DiskOwned'
  BY DEF DiskOwned, TypeOK
<1>3. SessionInv'
  BY DEF SessionInv, Readable, TypeOK
<1>4. CommitInv'
  BY DEF CommitInv, TypeOK, Commit
<1>5. PrintedInv'
  BY DEF PrintedInv, PrintedOnce, PrintedInOrder, TypeOK
<1> QED BY <1>1, <1>2, <1>3, <1>4, <1>5

\* A started session has an id of its own, an empty list and a directory.
LEMMA StartInv ==
  ASSUME StoreInv, NEW s \in Sessions, NEW n \in Indexes, Start(s, n)
  PROVE  StoreInv'
<1> DEFINE new == [expected |-> n, paths |-> <<>>, bytes |-> 0, next |-> 1,
                   age |-> 0, committing |-> FALSE]
<1> USE DEF StoreInv
<1>1. /\ new \in Session /\ new # Null
      /\ [i \in Indexes |-> Absent] \in [Indexes -> File]
      /\ [i \in Indexes |-> Absent] # Null
  <2>1. new \in Session
    BY DEF Session
  <2>2. [i \in Indexes |-> Absent] \in [Indexes -> File]
    BY DEF File
  <2> QED BY <2>1, <2>2, NotNull
<1>2. /\ session' = [Without(Expired) EXCEPT ![s] = new]
      /\ disk' = [Cleaned(Expired) EXCEPT ![s] = [i \in Indexes |-> Absent]]
      /\ issued' = issued \cup {s} /\ s \notin issued
      /\ UNCHANGED <<commit, printed, stopped>>
  BY DEF Start
<1>3. /\ session'[s] = new /\ disk'[s] # Null
      /\ \A r \in Sessions \ {s} :
           \/ session'[r] = session[r] /\ disk'[r] = disk[r]
           \/ session'[r] = Null /\ r \in Preparing /\ (r \notin Stuck => disk'[r] = Null)
  BY <1>1, <1>2 DEF Without, Cleaned, Expired, TypeOK
<1>4. TypeOK'
  <2>1. session' \in [Sessions -> Session \cup {Null}]
    BY <1>1, <1>2 DEF Without, TypeOK
  <2>2. disk' \in [Sessions -> [Indexes -> File] \cup {Null}]
    BY <1>1, <1>2 DEF Cleaned, TypeOK
  <2> QED BY <1>2, <2>1, <2>2 DEF TypeOK
<1>5. s \notin Live /\ printed[s] = <<>>
  BY <1>2 DEF SessionInv, PrintedInv
<1>6. DiskOwned'
  BY <1>1, <1>3 DEF DiskOwned, Live
<1>7. SessionInv'
  <2>1. Upto(0) = <<>>
    BY UptoFacts
  <2>2. ASSUME NEW r \in Live', r # s
        PROVE  /\ r \in Live /\ session'[r] = session[r] /\ disk'[r] = disk[r]
    BY <1>3, <2>2 DEF Live
  <2>3. /\ new.next = 1 /\ new.expected = n /\ new.paths = <<>> /\ s \in issued'
        /\ n + 1 \in Nat /\ 1 \in 1..(n + 1) /\ 1 - 1 = 0 /\ 1..0 = {}
    BY <1>2 DEF Indexes
  <2> QED BY <1>2, <1>3, <2>1, <2>2, <2>3 DEF SessionInv, Readable
<1>8. CommitInv'
  BY <1>2, <1>3, <1>5 DEF CommitInv, Live, Preparing, TypeOK, Commit
<1>9. PrintedInv'
  <2>1. PrintedOnce'
    BY <1>2 DEF PrintedInv, PrintedOnce
  <2>2. \A r \in Sessions : printed[r] # <<>> => r \in issued' \ Preparing'
    BY <1>2, <1>3, <1>5 DEF PrintedInv, Live, Preparing
  <2>3. PrintedInOrder'
    BY <1>2, <1>3, <1>5 DEF PrintedInv, PrintedInOrder, Live
  <2> QED BY <1>2, <2>1, <2>2, <2>3 DEF PrintedInv
<1> QED BY <1>4, <1>6, <1>7, <1>8, <1>9

\* A written page is the next of its list; a failed write changes only a file
\* that is on no list.
LEMMA AppendInv ==
  ASSUME StoreInv, NEW s \in Sessions, NEW i \in Indexes, NEW z \in Sizes,
         AppendPage(s, i, z) \/ AppendFails(s, i, z)
  PROVE  StoreInv'
<1> USE DEF StoreInv
<1>1. /\ session[s] \in Session /\ session[s] # Null /\ s \in Preparing
      /\ session[s].paths = Upto(i - 1)
      /\ i = session[s].next /\ i <= session[s].expected
      /\ disk[s] \in [Indexes -> File] /\ disk[s] # Null
  BY DEF AppendPage, AppendFails, Appendable, Found, SessionInv, TypeOK, Live, Preparing
<1>2. CASE AppendPage(s, i, z)
  <2> DEFINE new == [session[s] EXCEPT !.paths = Append(@, i), !.bytes = @ + z,
                                       !.next = @ + 1, !.age = 0]
             file == [size |-> z, whole |-> TRUE]
  <2>1. session' = [session EXCEPT ![s] = new]
    BY <1>2 DEF AppendPage, TypeOK
  <2>2. disk' = [disk EXCEPT ![s] = [disk[s] EXCEPT ![i] = file]]
    BY <1>2 DEF AppendPage, TypeOK
  <2>3. UNCHANGED <<issued, commit, printed, stopped>>
    BY <1>2 DEF AppendPage
  <2>4. Append(Upto(i - 1), i) = Upto(i) /\ Upto(i) \in Seq(Indexes)
    <3>1. i - 1 \in Nat /\ i \in Nat /\ i <= MaxPages /\ (i - 1) + 1 = i
      BY DEF Indexes
    <3> QED BY <3>1, UptoFacts
  <2>5. /\ new.paths = Upto(i) /\ new.next = i + 1
        /\ new.expected = session[s].expected /\ new.committing = FALSE
        /\ new \in Session
    <3>1. z \in Nat
      OBVIOUS
    <3>2. new = [session[s] EXCEPT !.paths = Upto(i), !.bytes = @ + z,
                                   !.next = @ + 1, !.age = 0]
      BY <1>1, <2>4 DEF Session
    <3>3. new \in Session
      BY <1>1, <2>4, <3>1, <3>2, LongerSession
    <3>4. /\ new.paths = Upto(i) /\ new.next = i + 1
          /\ new.expected = session[s].expected
          /\ new.committing = session[s].committing
      BY <1>1, <3>2 DEF Session
    <3> QED BY <1>1, <3>3, <3>4 DEF Preparing
  <2>6. /\ session'[s] = new /\ session'[s] # Null
        /\ \A r \in Sessions \ {s} : session'[r] = session[r] /\ disk'[r] = disk[r]
    BY <2>1, <2>2, <2>5, NotNull DEF TypeOK
  <2>7. /\ disk'[s] \in [Indexes -> File] /\ disk'[s] # Null /\ disk'[s][i].whole
        /\ \A k \in Indexes \ {i} : disk'[s][k] = disk[s][k]
    <3>1. file \in File
      BY DEF File
    <3> QED BY <1>1, <2>2, <3>1, NotNull DEF TypeOK
  <2>8. TypeOK'
    <3>1. session' \in [Sessions -> Session \cup {Null}]
      BY <2>1, <2>5 DEF TypeOK
    <3>2. disk' \in [Sessions -> [Indexes -> File] \cup {Null}]
      BY <2>2, <2>7 DEF TypeOK
    <3> QED BY <2>3, <3>1, <3>2 DEF TypeOK
  <2>9. Live' = Live /\ Preparing' = Preparing
    BY <1>1, <2>5, <2>6 DEF Live, Preparing
  <2>10. DiskOwned'
    BY <1>1, <2>6, <2>9 DEF DiskOwned, Preparing
  <2>11. SessionInv'
    <3>1. s \in issued /\ (\A k \in 1..(i - 1) : disk[s][k].whole)
      BY <1>1 DEF SessionInv, Readable, Preparing
    <3>2. \A k \in 1..i : k = i \/ (k \in 1..(i - 1) /\ k \in Indexes \ {i})
      BY DEF Indexes
    <3>3. \A k \in 1..i : disk'[s][k].whole
      BY <2>7, <3>1, <3>2
    <3>4. i \in Nat /\ session[s].expected \in Nat /\ i <= session[s].expected /\ i >= 1
      BY <1>1, SessionFields DEF Indexes
    <3>5. i + 1 \in 1..(session[s].expected + 1) /\ i + 1 - 1 = i
      BY <3>4
    <3>6. ASSUME NEW r \in Live', r # s
          PROVE  r \in Live /\ session'[r] = session[r] /\ disk'[r] = disk[r]
      BY <2>6, <2>9, <3>6 DEF Live
    <3>7. /\ session'[s].next = i + 1 /\ session'[s].paths = Upto(i)
          /\ session'[s].expected = session[s].expected
      BY <2>5, <2>6
    <3>8. session'[s].next - 1 = i
      <4>1. session'[s].next = i + 1 /\ i \in Nat
        BY <3>4, <3>7
      <4> QED BY <4>1
    <3>9. /\ session'[s].next \in 1..(session'[s].expected + 1)
          /\ session'[s].paths = Upto(session'[s].next - 1)
          /\ \A k \in 1..(session'[s].next - 1) : disk'[s][k].whole
      BY <3>3, <3>5, <3>7, <3>8
    <3> QED BY <2>3, <2>7, <3>1, <3>6, <3>9 DEF SessionInv, Readable
  <2>12. CommitInv'
    BY <1>1, <2>3, <2>6, <2>9 DEF CommitInv, Live
  <2>13. PrintedInv'
    <3>1. \A r \in Sessions : r \in Live => session'[r].expected = session[r].expected
      BY <2>5, <2>6
    <3> QED BY <2>3, <2>9, <3>1 DEF PrintedInv, PrintedOnce, PrintedInOrder, Live
  <2> QED BY <2>8, <2>10, <2>11, <2>12, <2>13
<1>3. CASE AppendFails(s, i, z)
  <2>1. PICK left \in File : disk' = [disk EXCEPT ![s] = [disk[s] EXCEPT ![i] = left]]
    BY <1>1, <1>3 DEF AppendFails, File, Absent, TypeOK
  <2>2. UNCHANGED <<session, issued, commit, printed, stopped>>
    BY <1>3 DEF AppendFails
  <2>3. /\ disk'[s] \in [Indexes -> File] /\ disk'[s] # Null
        /\ \A k \in Indexes \ {i} : disk'[s][k] = disk[s][k]
        /\ \A r \in Sessions \ {s} : disk'[r] = disk[r]
    BY <1>1, <2>1, NotNull DEF TypeOK
  <2>4. TypeOK'
    <3>1. disk' \in [Sessions -> [Indexes -> File] \cup {Null}]
      BY <2>1, <2>3 DEF TypeOK
    <3> QED BY <2>2, <3>1 DEF TypeOK
  <2>5. Live' = Live /\ Preparing' = Preparing
    BY <2>2 DEF Live, Preparing
  <2>6. DiskOwned'
    BY <1>1, <2>3, <2>5 DEF DiskOwned, Preparing
  <2>7. SessionInv'
    <3>1. \A k \in 1..(i - 1) : k \in Indexes \ {i}
      BY DEF Indexes
    <3> QED BY <1>1, <2>2, <2>3, <2>5, <3>1 DEF SessionInv, Readable, Live
  <2>8. CommitInv' /\ PrintedInv'
    BY <2>2, <2>5 DEF CommitInv, PrintedInv, PrintedOnce, PrintedInOrder
  <2> QED BY <2>4, <2>6, <2>7, <2>8
<1> QED BY <1>2, <1>3

\* A lease is taken of a complete session, by one commit only.
LEMMA TakeInv ==
  ASSUME StoreInv, NEW h \in Handlers, NEW s \in Sessions, TakeForCommit(h, s)
  PROVE  StoreInv'
<1> DEFINE new == [session[s] EXCEPT !.committing = TRUE, !.age = 0]
           lease == [id |-> s, paths |-> session[s].paths, read |-> 0, sent |-> FALSE, over |-> FALSE]
<1> USE DEF StoreInv
<1>1. /\ session[s] \in Session /\ session[s] # Null /\ s \in Preparing
      /\ session[s].next = session[s].expected + 1
      /\ session[s].expected \in Indexes
  BY DEF TakeForCommit, Takeable, Found, TypeOK, Live, Preparing, Session
<1>2. session[s].paths = Upto(session[s].expected) /\ printed[s] = <<>>
  <2>1. session[s].next - 1 = session[s].expected
    BY <1>1 DEF Indexes
  <2>2. session[s].paths = Upto(session[s].next - 1)
    BY <1>1 DEF SessionInv, Preparing
  <2> QED BY <1>1, <2>1, <2>2 DEF PrintedInv
<1>3. /\ session' = [session EXCEPT ![s] = new]
      /\ commit' = [commit EXCEPT ![h] = lease] /\ commit[h] = Null
      /\ UNCHANGED <<issued, disk, printed, stopped>>
  BY DEF TakeForCommit, TypeOK
<1>4. /\ new \in Session /\ new # Null /\ new.committing
      /\ new.expected = session[s].expected /\ new.next = session[s].next
      /\ new.paths = session[s].paths
  <2>1. new \in Session
    BY <1>1, CommittedSession
  <2>2. /\ new.committing /\ new.expected = session[s].expected
        /\ new.next = session[s].next /\ new.paths = session[s].paths
    BY <1>1 DEF Session
  <2> QED BY <2>1, <2>2, NotNull
<1>5. lease \in Commit /\ lease # Null
  <2>1. lease \in Commit
    BY <1>1, SessionFields DEF Commit
  <2> QED BY <2>1, NotNull
<1>6. /\ session'[s] = new
      /\ \A r \in Sessions \ {s} : session'[r] = session[r]
      /\ commit'[h] = lease
      /\ \A g \in Handlers \ {h} : commit'[g] = commit[g]
  BY <1>3 DEF TypeOK
<1>7. Live' = Live /\ Preparing' = Preparing \ {s}
  <2>1. Live' = Live
    BY <1>1, <1>4, <1>6 DEF Live
  <2>2. session'[s].committing
    BY <1>4, <1>6
  <2>3. \A r \in Sessions : r # s => session'[r].committing = session[r].committing
    BY <1>6
  <2>4. \A r \in Live : session'[r].committing <=> session[r].committing \/ r = s
    BY <2>2, <2>3 DEF Live
  <2> QED BY <2>1, <2>4 DEF Preparing
<1>8. TypeOK'
  <2>1. session' \in [Sessions -> Session \cup {Null}]
    BY <1>3, <1>4 DEF TypeOK
  <2>2. commit' \in [Handlers -> Commit \cup {Null}]
    BY <1>3, <1>5 DEF TypeOK
  <2> QED BY <1>3, <2>1, <2>2 DEF TypeOK
<1>9. DiskOwned'
  BY <1>3, <1>7 DEF DiskOwned
<1>10. SessionInv'
  BY <1>3, <1>4, <1>6, <1>7 DEF SessionInv, Readable, Live
<1>11. CommitInv'
  <2>1. \A g \in Handlers : commit[g] # Null => commit[g].id # s
    BY <1>1 DEF CommitInv
  <2>2. 0 <= session[s].expected
    BY <1>1 DEF Indexes
  <2>3. \A g \in Handlers : commit[g] # Null => commit[g].id \in Sessions
    BY DEF TypeOK, Commit
  <2> QED BY <1>1, <1>2, <1>3, <1>4, <1>6, <1>7, <2>1, <2>2, <2>3 DEF CommitInv, Preparing
<1>12. PrintedInv'
  BY <1>3, <1>4, <1>6, <1>7 DEF PrintedInv, PrintedOnce, PrintedInOrder, Live
<1> QED BY <1>8, <1>9, <1>10, <1>11, <1>12

\* What a commit holds while it has not given its lease back.
LEMMA LeaseFacts ==
  ASSUME StoreInv, NEW h \in Handlers, commit[h] # Null
  PROVE  /\ commit[h] \in Commit /\ commit[h].id \in Live \ Preparing
         /\ session[commit[h].id] \in Session
         /\ Len(commit[h].paths) = session[commit[h].id].expected
         /\ commit[h].paths = Upto(session[commit[h].id].expected)
<1>1. /\ commit[h] \in Commit /\ commit[h].id \in Live \ Preparing
      /\ session[commit[h].id] \in Session
      /\ commit[h].paths = Upto(session[commit[h].id].expected)
  BY DEF StoreInv, CommitInv, TypeOK, Live
<1>2. session[commit[h].id].expected \in Nat
  BY <1>1, SessionFields
<1> QED BY <1>1, <1>2, UptoFacts

\* Reading only counts the pages read, of which there are no more than listed.
LEMMA ReadInv ==
  ASSUME StoreInv, NEW h \in Handlers, ReadPage(h)
  PROVE  StoreInv'
<1> DEFINE new == [commit[h] EXCEPT !.read = @ + 1]
<1> USE DEF StoreInv
<1>1. /\ commit[h] # Null /\ commit[h].read < Len(commit[h].paths)
      /\ commit' = [commit EXCEPT ![h] = new]
      /\ UNCHANGED <<session, issued, disk, printed, stopped>>
  BY DEF ReadPage
<1>2. commit[h] \in Commit /\ Len(commit[h].paths) = session[commit[h].id].expected
  BY <1>1, LeaseFacts
<1>3. /\ new \in Commit /\ new.id = commit[h].id /\ new.paths = commit[h].paths
      /\ new.sent = commit[h].sent /\ new.read = commit[h].read + 1
  BY <1>2 DEF Commit
<1>4. new # Null
  BY <1>3, NotNull
<1>5. commit'[h] = new /\ \A g \in Handlers \ {h} : commit'[g] = commit[g]
  BY <1>1 DEF TypeOK
<1>6. TypeOK'
  <2>1. commit' \in [Handlers -> Commit \cup {Null}]
    BY <1>1, <1>3 DEF TypeOK
  <2> QED BY <1>1, <2>1 DEF TypeOK
<1>7. Live' = Live /\ Preparing' = Preparing
  BY <1>1 DEF Live, Preparing
<1>8. DiskOwned' /\ SessionInv' /\ PrintedInv'
  BY <1>1, <1>7 DEF DiskOwned, SessionInv, Readable, PrintedInv, PrintedOnce, PrintedInOrder
<1>9. CommitInv'
  <2>1. session[commit[h].id].expected \in Nat /\ commit[h].read \in Nat
    BY <1>1, <1>2, LeaseFacts, SessionFields DEF Commit
  <2>2. new.read <= session[commit[h].id].expected
    BY <1>1, <1>2, <1>3, <2>1
  <2> QED BY <1>1, <1>3, <1>4, <1>5, <1>7, <2>2 DEF CommitInv
<1> QED BY <1>6, <1>8, <1>9

\* A job that is settled changes nothing of the store.
LEMMA SettlesInv ==
  ASSUME StoreInv, NEW h \in Handlers, JobSettles(h)
  PROVE  StoreInv'
<1> DEFINE new == [commit[h] EXCEPT !.over = TRUE]
<1> USE DEF StoreInv
<1>1. /\ commit[h] # Null /\ commit' = [commit EXCEPT ![h] = new]
      /\ UNCHANGED <<session, issued, disk, printed, stopped>>
  BY DEF JobSettles, Waiting
<1>2. commit[h] \in Commit
  BY <1>1, LeaseFacts
<1>3. /\ new \in Commit /\ new.id = commit[h].id /\ new.paths = commit[h].paths
      /\ new.sent = commit[h].sent /\ new.read = commit[h].read
  BY <1>2 DEF Commit
<1>4. new # Null
  BY <1>3, NotNull
<1>5. commit'[h] = new /\ \A g \in Handlers \ {h} : commit'[g] = commit[g]
  BY <1>1 DEF TypeOK
<1>6. TypeOK'
  <2>1. commit' \in [Handlers -> Commit \cup {Null}]
    BY <1>1, <1>3 DEF TypeOK
  <2> QED BY <1>1, <2>1 DEF TypeOK
<1>7. Live' = Live /\ Preparing' = Preparing
  BY <1>1 DEF Live, Preparing
<1>8. DiskOwned' /\ SessionInv' /\ PrintedInv'
  BY <1>1, <1>7 DEF DiskOwned, SessionInv, Readable, PrintedInv, PrintedOnce, PrintedInOrder
<1>9. CommitInv'
  BY <1>1, <1>3, <1>4, <1>5, <1>7 DEF CommitInv
<1> QED BY <1>6, <1>8, <1>9

\* The list that goes to the printer is the lease's, for the first time.
LEMMA SubmitInv ==
  ASSUME StoreInv, NEW h \in Handlers, Submit(h)
  PROVE  StoreInv'
<1> DEFINE new == [commit[h] EXCEPT !.sent = TRUE]
           s == commit[h].id
<1> USE DEF StoreInv
<1>1. /\ commit[h] # Null /\ ~commit[h].sent
      /\ commit' = [commit EXCEPT ![h] = new]
      /\ printed' = [printed EXCEPT ![s] = Append(@, commit[h].paths)]
      /\ UNCHANGED <<session, issued, disk, stopped>>
  BY DEF Submit
<1>2. /\ commit[h] \in Commit /\ s \in Sessions /\ s \in Live \ Preparing
      /\ commit[h].paths = Upto(session[s].expected)
      /\ commit[h].paths \in Seq(Indexes)
  BY <1>1, LeaseFacts DEF Live, Commit
<1>3. printed[s] = <<>> /\ s \in issued
  BY <1>1, <1>2 DEF CommitInv, SessionInv
<1>4. /\ new \in Commit /\ new.id = s /\ new.paths = commit[h].paths
      /\ new.sent /\ new.read = commit[h].read
  BY <1>2 DEF Commit
<1>5. new # Null
  BY <1>4, NotNull
<1>6. /\ commit'[h] = new /\ \A g \in Handlers \ {h} : commit'[g] = commit[g]
      /\ printed'[s] = <<commit[h].paths>>
      /\ \A r \in Sessions \ {s} : printed'[r] = printed[r]
  <2>1. Append(<<>>, commit[h].paths) = <<commit[h].paths>>
    BY <1>2
  <2> QED BY <1>1, <1>2, <1>3, <2>1 DEF TypeOK
<1>7. TypeOK'
  <2>1. commit' \in [Handlers -> Commit \cup {Null}]
    BY <1>1, <1>4 DEF TypeOK
  <2>2. <<commit[h].paths>> \in Seq(Seq(Indexes))
    BY <1>2
  <2>3. printed' \in [Sessions -> Seq(Seq(Indexes))]
    BY <1>1, <1>6, <2>2 DEF TypeOK
  <2> QED BY <1>1, <2>1, <2>3 DEF TypeOK
<1>8. Live' = Live /\ Preparing' = Preparing
  BY <1>1 DEF Live, Preparing
<1>9. DiskOwned' /\ SessionInv'
  BY <1>1, <1>8 DEF DiskOwned, SessionInv, Readable
<1>10. CommitInv'
  <2>1. \A g \in Handlers \ {h} : commit[g] # Null => commit[g].id # s
    BY <1>1 DEF CommitInv
  <2>2. \A g \in Handlers \ {h} : commit[g] # Null => commit[g].id \in Sessions
    BY DEF TypeOK, Commit
  <2>3. ASSUME NEW g \in Handlers, commit'[g] # Null
        PROVE  /\ commit[g] # Null /\ commit'[g].id = commit[g].id
               /\ commit'[g].paths = commit[g].paths /\ commit'[g].read = commit[g].read
               /\ ~commit'[g].sent => /\ ~commit[g].sent
                                      /\ printed'[commit[g].id] = printed[commit[g].id]
    <3>1. CASE g = h
      BY <1>1, <1>4, <1>6, <3>1
    <3>2. CASE g # h
      BY <1>6, <2>1, <2>2, <2>3, <3>2
    <3> QED BY <3>1, <3>2
  <2>4. ASSUME NEW g \in Handlers, commit'[g] # Null
        PROVE  /\ commit'[g].id \in Live' \ Preparing'
               /\ session'[commit'[g].id].next = session'[commit'[g].id].expected + 1
               /\ commit'[g].paths = Upto(session'[commit'[g].id].expected)
               /\ commit'[g].read <= session'[commit'[g].id].expected
               /\ ~commit'[g].sent => printed'[commit'[g].id] = <<>>
    <3>1. /\ commit[g].id \in Live \ Preparing
          /\ session[commit[g].id].next = session[commit[g].id].expected + 1
          /\ commit[g].paths = Upto(session[commit[g].id].expected)
          /\ commit[g].read <= session[commit[g].id].expected
          /\ ~commit[g].sent => printed[commit[g].id] = <<>>
      BY <2>3, <2>4 DEF CommitInv
    <3> QED BY <1>1, <1>8, <2>3, <2>4, <3>1
  <2>5. \A g, f \in Handlers : commit'[g] # Null /\ commit'[f] # Null
           /\ commit'[f].id = commit'[g].id => f = g
    BY <2>3 DEF CommitInv
  <2> QED BY <2>4, <2>5 DEF CommitInv
<1>11. PrintedInv'
  <2>1. Len(printed'[s]) = 1 /\ printed'[s][1] = Upto(session[s].expected)
    BY <1>2, <1>6
  <2>2. PrintedOnce'
    <3>1. \A r \in Sessions : r = s \/ printed'[r] = printed[r]
      BY <1>6
    <3>2. \A r \in Sessions : Len(printed[r]) <= 1
      BY DEF PrintedInv, PrintedOnce
    <3>3. Len(printed'[s]) <= 1
      BY <2>1
    <3> QED BY <3>1, <3>2, <3>3 DEF PrintedOnce
  <2>3. PrintedInOrder'
    BY <1>1, <1>2, <1>6, <1>8, <2>1 DEF PrintedInv, PrintedInOrder, Live
  <2>4. \A r \in Sessions : printed'[r] # <<>> => r \in issued' \ Preparing'
    BY <1>1, <1>2, <1>3, <1>6, <1>8 DEF PrintedInv
  <2> QED BY <2>2, <2>3, <2>4 DEF PrintedInv
<1> QED BY <1>7, <1>9, <1>10, <1>11

\* A route that ends takes its own session with it and no other commit's.
LEMMA FinishInv ==
  ASSUME StoreInv, NEW h \in Handlers, Finish(h)
  PROVE  StoreInv'
<1> DEFINE s == commit[h].id
<1> USE DEF StoreInv
<1>1. commit[h] # Null /\ s \in Live \ Preparing /\ s \in Sessions
  BY LeaseFacts DEF Finish, Live
<1>2. /\ session' = Without({s}) /\ disk' = Cleaned({s})
      /\ commit' = [commit EXCEPT ![h] = Null]
      /\ UNCHANGED <<issued, printed, stopped>>
  BY <1>1 DEF Finish, Live, Preparing
<1>3. /\ session'[s] = Null /\ (s \notin Stuck => disk'[s] = Null)
      /\ \A r \in Sessions \ {s} : session'[r] = session[r] /\ disk'[r] = disk[r]
      /\ commit'[h] = Null
      /\ \A g \in Handlers \ {h} : commit'[g] = commit[g]
  BY <1>1, <1>2 DEF Without, Cleaned, TypeOK
<1>4. Live' = Live \ {s} /\ Preparing' = Preparing
  BY <1>1, <1>3 DEF Live, Preparing
<1>5. TypeOK'
  <2>1. session' \in [Sessions -> Session \cup {Null}]
    BY <1>2 DEF TypeOK, Without
  <2>2. disk' \in [Sessions -> [Indexes -> File] \cup {Null}]
    BY <1>2 DEF TypeOK, Cleaned
  <2>3. commit' \in [Handlers -> Commit \cup {Null}]
    BY <1>2 DEF TypeOK
  <2> QED BY <1>2, <2>1, <2>2, <2>3 DEF TypeOK
<1>6. DiskOwned'
  BY <1>3, <1>4 DEF DiskOwned
<1>7. SessionInv'
  BY <1>2, <1>3, <1>4 DEF SessionInv, Readable, Live
<1>8. CommitInv'
  <2>1. \A g \in Handlers \ {h} : commit[g] # Null =>
           commit[g].id # s /\ commit[g].id \in Sessions
    BY <1>1 DEF CommitInv, TypeOK, Commit
  <2>2. ASSUME NEW g \in Handlers, commit'[g] # Null
        PROVE  /\ commit'[g] = commit[g] /\ commit[g].id # s
               /\ session'[commit[g].id] = session[commit[g].id]
    BY <1>3, <2>1, <2>2
  <2>3. ASSUME NEW g \in Handlers, commit'[g] # Null
        PROVE  /\ commit'[g].id \in Live' \ Preparing'
               /\ session'[commit'[g].id].next = session'[commit'[g].id].expected + 1
               /\ commit'[g].paths = Upto(session'[commit'[g].id].expected)
               /\ commit'[g].read <= session'[commit'[g].id].expected
               /\ ~commit'[g].sent => printed'[commit'[g].id] = <<>>
    <3>1. /\ commit[g].id \in Live \ Preparing
          /\ session[commit[g].id].next = session[commit[g].id].expected + 1
          /\ commit[g].paths = Upto(session[commit[g].id].expected)
          /\ commit[g].read <= session[commit[g].id].expected
          /\ ~commit[g].sent => printed[commit[g].id] = <<>>
      BY <2>2, <2>3 DEF CommitInv
    <3>2. commit'[g] = commit[g] /\ commit[g].id # s
      BY <2>2, <2>3
    <3>3. commit[g].id \in Live' \ Preparing'
      BY <1>4, <3>1, <3>2
    <3>4. session'[commit[g].id] = session[commit[g].id] /\ printed' = printed
      BY <1>2, <2>2, <2>3
    <3> QED BY <3>1, <3>2, <3>3, <3>4
  <2>4. \A g, f \in Handlers : commit'[g] # Null /\ commit'[f] # Null
           /\ commit'[f].id = commit'[g].id => f = g
    BY <2>2 DEF CommitInv
  <2> QED BY <2>3, <2>4 DEF CommitInv
<1>9. PrintedInv'
  <2>1. /\ \A r \in Sessions : printed'[r] = printed[r]
        /\ \A r \in Live' : r \in Live /\ session'[r] = session[r]
    BY <1>2, <1>3, <1>4 DEF Live
  <2> QED BY <1>2, <1>4, <2>1 DEF PrintedInv, PrintedOnce, PrintedInOrder
<1> QED BY <1>5, <1>6, <1>7, <1>8, <1>9

\* Time changes ages only.
LEMMA TickInv == ASSUME StoreInv, Tick PROVE StoreInv'
<1> USE DEF StoreInv
<1>1. UNCHANGED <<issued, disk, commit, printed, stopped>>
  BY DEF Tick
<1>2. ASSUME NEW s \in Sessions
      PROVE  /\ session'[s] \in Session \cup {Null}
             /\ session'[s] = Null <=> session[s] = Null
             /\ session[s] # Null =>
                  /\ session'[s].expected = session[s].expected
                  /\ session'[s].next = session[s].next
                  /\ session'[s].paths = session[s].paths
                  /\ session'[s].committing = session[s].committing
  <2>1. session'[s] = Aged(s) /\ session[s] \in Session \cup {Null}
    BY DEF Tick, TypeOK
  <2>2. CASE session[s] = Null
    BY <2>1, <2>2 DEF Aged
  <2>3. CASE session[s] # Null
    <3> DEFINE old == session[s]
               age == IF old.age < TTL THEN old.age + 1 ELSE old.age
    <3>1. old \in Session /\ Aged(s) = [old EXCEPT !.age = age]
      BY <2>1, <2>3 DEF Aged
    <3>2. age \in 0..TTL
      <4>1. old.age \in 0..TTL
        BY <3>1 DEF Session
      <4> QED BY <4>1
    <3>3. Aged(s) \in Session
      BY <3>1, <3>2 DEF Session
    <3>4. /\ Aged(s).expected = old.expected /\ Aged(s).next = old.next
          /\ Aged(s).paths = old.paths /\ Aged(s).committing = old.committing
      BY <3>1 DEF Session
    <3> QED BY <2>1, <2>3, <3>3, <3>4, NotNull
  <2> QED BY <2>2, <2>3
<1>3. Live' = Live /\ Preparing' = Preparing
  BY <1>2 DEF Live, Preparing
<1>4. TypeOK'
  <2>1. session' \in [Sessions -> Session \cup {Null}]
    BY <1>2 DEF Tick
  <2> QED BY <1>1, <2>1 DEF TypeOK
<1>5. DiskOwned' /\ SessionInv'
  BY <1>1, <1>2, <1>3 DEF DiskOwned, SessionInv, Readable, Live
<1>6. CommitInv'
  BY <1>1, <1>2, <1>3 DEF CommitInv, Live
<1>7. PrintedInv'
  BY <1>1, <1>2, <1>3 DEF PrintedInv, PrintedOnce, PrintedInOrder, Live
<1> QED BY <1>4, <1>5, <1>6, <1>7

LEMMA StoreStep == StoreInv /\ [Next]_storeVars => StoreInv'
<1> SUFFICES ASSUME StoreInv, [Next]_storeVars PROVE StoreInv'
  OBVIOUS
<1>1. ASSUME NEW s \in Sessions, NEW n \in Indexes, Start(s, n) PROVE StoreInv'
  BY <1>1, StartInv
<1>2. ASSUME NEW s \in Sessions, NEW i \in Indexes, NEW z \in Sizes,
             AppendPage(s, i, z) \/ AppendFails(s, i, z)
      PROVE  StoreInv'
  BY <1>2, AppendInv
<1>3. ASSUME NEW S \in SUBSET Preparing, session' = Without(S), disk' = Cleaned(S),
             UNCHANGED <<issued, commit, printed>>, stopped' \in BOOLEAN
      PROVE  StoreInv'
  BY <1>3, DropInv
<1>4. ASSUME NEW s \in Sessions, Cancel(s) \/ LookupExpired(s) PROVE StoreInv'
  <2>1. {s} \in SUBSET Preparing
    BY <1>4 DEF Cancel, LookupExpired, Found, Expired
  <2> QED BY <1>3, <1>4, <2>1 DEF Cancel, LookupExpired, StoreInv, TypeOK
<1>5. ASSUME NEW h \in Handlers, NEW s \in Sessions, TakeForCommit(h, s) PROVE StoreInv'
  BY <1>5, TakeInv
<1>6. ASSUME NEW h \in Handlers, ReadPage(h) \/ Submit(h) \/ JobSettles(h) \/ Finish(h)
      PROVE  StoreInv'
  BY <1>6, ReadInv, SubmitInv, SettlesInv, FinishInv
<1>7. CASE Reap
  <2>1. Expired \in SUBSET Preparing
    BY DEF Expired
  <2> QED BY <1>3, <1>7, <2>1 DEF Reap, StoreInv, TypeOK
<1>8. CASE Close
  BY <1>3, <1>8 DEF Close
<1>9. CASE Tick
  BY <1>9, TickInv
<1>10. CASE UNCHANGED storeVars
  BY <1>10 DEF storeVars, StoreInv, TypeOK, DiskOwned, SessionInv, CommitInv, PrintedInv,
     PrintedOnce, PrintedInOrder, Readable, Live, Preparing
<1> QED BY <1>1, <1>2, <1>4, <1>5, <1>6, <1>7, <1>8, <1>9, <1>10 DEF Next

-----------------------------------------------------------------------------
\* The store of prepared pages keeps its inductive invariant in every state
\* (services/prepared_prints.py with the commit route).
THEOREM PreparedCorrect == Spec => []StoreInv
BY StoreInitInv, StoreStep, PTL DEF Spec

\* What the invariant says of leases, prints and the disk.
LEMMA StoreInvSafe == StoreInv => LeaseReadable /\ PrintedWhole /\ DiskOwned
<1>1. ASSUME StoreInv PROVE LeaseReadable
  <2> SUFFICES ASSUME NEW h \in Handlers, commit[h] # Null,
                      NEW k \in 1..Len(commit[h].paths)
               PROVE  Readable(commit[h].id, commit[h].paths[k])
    BY DEF LeaseReadable
  <2> DEFINE s == commit[h].id
  <2>1. /\ s \in Live /\ session[s] \in Session
        /\ Len(commit[h].paths) = session[s].expected
        /\ commit[h].paths = Upto(session[s].expected)
    BY <1>1, LeaseFacts
  <2>2. session[s].expected \in Nat /\ session[s].next - 1 = session[s].expected
    BY <1>1, <2>1, SessionFields DEF StoreInv, CommitInv
  <2>3. commit[h].paths[k] = k
    BY <2>1, <2>2, UptoFacts
  <2> QED BY <1>1, <2>1, <2>2, <2>3 DEF StoreInv, SessionInv
<1>2. StoreInv => PrintedWhole /\ DiskOwned
  BY DEF StoreInv, PrintedInv, PrintedWhole
<1> QED BY <1>1, <1>2

\* A commit can read every page of its lease until it ends: expiry, discards
\* and shutdown leave committing sessions alone.
THEOREM LeasesStayReadable == Spec => []LeaseReadable
<1>1. StoreInv => LeaseReadable
  BY StoreInvSafe
<1> QED BY <1>1, PreparedCorrect, PTL

\* A session is handed to the printer at most once, whole and in order, and
\* leaves no directory behind that could be removed.
THEOREM PrintsAreWholeAndSingle == Spec => [](PrintedWhole /\ DiskOwned)
<1>1. StoreInv => PrintedWhole /\ DiskOwned
  BY StoreInvSafe
<1> QED BY <1>1, PreparedCorrect, PTL

-----------------------------------------------------------------------------
(* The budget of a session.                                                 *)

\* The sizes of what a directory has, which may be added up.
SizesOf(d) == [i \in Indexes |-> d[i].size]
LEMMA FileSizes ==
  ASSUME NEW d \in [Indexes -> File]
  PROVE  SizesOf(d) \in [Indexes -> Nat] /\ \A i \in Indexes : SizesOf(d)[i] = d[i].size /\ d[i].size \in Nat
<1>1. ASSUME NEW f \in File PROVE f.size \in Nat
  <2>1. CASE f = Absent
    BY <2>1 DEF Absent
  <2>2. CASE f \in [size : Sizes, whole : BOOLEAN]
    <3>1. f.size \in Sizes
      BY <2>2
    <3> QED BY <3>1
  <2> QED BY <2>1, <2>2 DEF File
<1> QED BY <1>1 DEF SizesOf

LEMMA IndexesFinite == IsFiniteSet(Indexes)
BY FS_Interval DEF Indexes

\* What one file less and another more make of a directory's bytes.
LEMMA FileReplaced ==
  ASSUME NEW d \in [Indexes -> File], NEW i \in Indexes, NEW file \in File
  PROVE  /\ SumFunction(SizesOf(d)) \in Nat /\ SumFunction(SizesOf([d EXCEPT ![i] = file])) \in Nat
         /\ SumFunction(SizesOf([d EXCEPT ![i] = file])) + d[i].size = SumFunction(SizesOf(d)) + file.size
<1> DEFINE e == [d EXCEPT ![i] = file]
<1>1. e \in [Indexes -> File] /\ e[i] = file /\ \A k \in Indexes : k # i => e[k] = d[k]
  OBVIOUS
<1> HIDE DEF e
<1> DEFINE f == SizesOf(d)
           g == SizesOf(e)
<1>2. f \in [Indexes -> Nat] /\ g \in [Indexes -> Nat] /\ f[i] = d[i].size /\ g[i] = file.size
  BY <1>1, FileSizes
<1>3. \A k \in Indexes : k # i => f[k] = g[k]
  BY <1>1 DEF SizesOf
<1> HIDE DEF f, g
<1>4. SumFunction(f) \in Nat /\ SumFunction(g) \in Nat /\ SumFunction(g) + f[i] = SumFunction(f) + g[i]
  BY <1>2, <1>3, IndexesFinite, SumOfUpdate
<1> QED BY <1>2, <1>4 DEF e, f, g

\* A session whose directory and counts stay keeps its account.
LEMMA DiskKept ==
  ASSUME DiskInv,
         \A r \in Live' : /\ r \in Live /\ disk'[r] = disk[r] /\ session'[r].next = session[r].next
                          /\ session'[r].bytes = session[r].bytes
  PROVE  DiskInv'
<1> SUFFICES ASSUME NEW r \in Live'
             PROVE  /\ DiskBytes(r)' = session'[r].bytes + LeftOver(r)'
                    /\ session'[r].bytes + LeftOver(r)' <= MaxBytes
                    /\ \A k \in Indexes : k > session'[r].next => disk'[r][k] = Absent
  BY DEF DiskInv
<1>1. /\ r \in Live /\ disk'[r] = disk[r] /\ session'[r].next = session[r].next
      /\ session'[r].bytes = session[r].bytes
  OBVIOUS
<1>2. DiskBytes(r)' = DiskBytes(r) /\ LeftOver(r)' = LeftOver(r)
  BY <1>1 DEF DiskBytes, LeftOver
<1> QED BY <1>1, <1>2 DEF DiskInv

\* A started session has an empty directory.
LEMMA StartDisk ==
  ASSUME StoreInv, DiskInv, NEW s \in Sessions, NEW n \in Indexes, Start(s, n)
  PROVE  DiskInv'
<1> DEFINE new == [expected |-> n, paths |-> <<>>, bytes |-> 0, next |-> 1,
                   age |-> 0, committing |-> FALSE]
           none == [i \in Indexes |-> Absent]
<1>1. /\ session' = [Without(Expired) EXCEPT ![s] = new]
      /\ disk' = [Cleaned(Expired) EXCEPT ![s] = none]
  BY DEF Start
<1>2. session'[s] = new /\ disk'[s] = none
  BY <1>1 DEF Without, Cleaned
<1>3. ASSUME NEW r \in Live', r # s
      PROVE  /\ r \in Live /\ disk'[r] = disk[r] /\ session'[r] = session[r]
  BY <1>1, <1>3 DEF Without, Cleaned, Live
<1>4. DiskBytes(s)' = 0
  <2>1. none \in [Indexes -> File]
    BY DEF File
  <2>2. SizesOf(none) \in [Indexes -> Nat]
    BY <2>1, FileSizes
  <2>3. \A i \in Indexes : SizesOf(none)[i] = 0
    BY DEF SizesOf, Absent
  <2>4. SumFunction(SizesOf(none)) = 0
    <3> DEFINE f == SizesOf(none)
    <3> HIDE DEF f
    <3>1. SumFunction(f) = 0
      BY <2>2, <2>3, IndexesFinite, SumOfZeros DEF f
    <3> QED BY <3>1 DEF f
  <2> QED BY <1>2, <2>4 DEF DiskBytes, SizesOf
<1>5. LeftOver(s)' = 0
  BY <1>2 DEF LeftOver, Absent
<1>6. \A k \in Indexes : disk'[s][k] = Absent
  BY <1>2
<1>7. ASSUME NEW r \in Live'
      PROVE  /\ DiskBytes(r)' = session'[r].bytes + LeftOver(r)'
             /\ session'[r].bytes + LeftOver(r)' <= MaxBytes
             /\ \A k \in Indexes : k > session'[r].next => disk'[r][k] = Absent
  <2>1. CASE r = s
    BY <1>2, <1>4, <1>5, <1>6, <2>1
  <2>2. CASE r # s
    <3>1. r \in Live /\ disk'[r] = disk[r] /\ session'[r] = session[r]
      BY <1>3, <2>2
    <3>2. DiskBytes(r)' = DiskBytes(r) /\ LeftOver(r)' = LeftOver(r)
      BY <3>1 DEF DiskBytes, LeftOver
    <3> QED BY <3>1, <3>2 DEF DiskInv
  <2> QED BY <2>1, <2>2
<1> QED BY <1>7 DEF DiskInv

\* A page is written where nothing was, within the budget; what a failed write
\* leaves is within it too, and is counted with the page that comes there.
LEMMA AppendDisk ==
  ASSUME StoreInv, DiskInv, NEW s \in Sessions, NEW i \in Indexes, NEW z \in Sizes,
         AppendPage(s, i, z) \/ AppendFails(s, i, z)
  PROVE  DiskInv'
<1>1. /\ session[s] \in Session /\ s \in Live
      /\ i = session[s].next /\ session[s].bytes \in Nat /\ session[s].bytes + z <= MaxBytes
      /\ disk[s] \in [Indexes -> File] /\ i \in Nat /\ z \in Nat
  BY SessionFields DEF AppendPage, AppendFails, Appendable, Found, StoreInv, SessionInv, TypeOK, Live,
     Preparing, Expired, Indexes
<1>2. /\ DiskBytes(s) = session[s].bytes + disk[s][i].size
      /\ session[s].bytes + disk[s][i].size <= MaxBytes
      /\ \A k \in Indexes : k > i => disk[s][k] = Absent
  BY <1>1 DEF DiskInv, LeftOver
<1>3. DiskBytes(s) = SumFunction(SizesOf(disk[s])) /\ DiskBytes(s)' = SumFunction(SizesOf(disk'[s]))
  BY DEF DiskBytes, SizesOf
<1>4. ASSUME NEW r \in Live', r # s
      PROVE  /\ DiskBytes(r)' = session'[r].bytes + LeftOver(r)'
             /\ session'[r].bytes + LeftOver(r)' <= MaxBytes
             /\ \A k \in Indexes : k > session'[r].next => disk'[r][k] = Absent
  <2>1. r \in Live /\ disk'[r] = disk[r] /\ session'[r] = session[r]
    BY <1>4 DEF AppendPage, AppendFails, StoreInv, TypeOK, Live
  <2>2. DiskBytes(r)' = DiskBytes(r) /\ LeftOver(r)' = LeftOver(r)
    BY <2>1 DEF DiskBytes, LeftOver
  <2> QED BY <2>1, <2>2 DEF DiskInv
<1>5. CASE AppendPage(s, i, z)
  <2> DEFINE file == [size |-> z, whole |-> TRUE]
  <2>1. disk' = [disk EXCEPT ![s] = [disk[s] EXCEPT ![i] = file]] /\ disk[s][i] = Absent
    BY <1>5 DEF AppendPage, StoreInv, TypeOK
  <2>2. disk'[s] = [disk[s] EXCEPT ![i] = file]
    BY <2>1 DEF StoreInv, TypeOK
  <2>3. session'[s].next = i + 1 /\ session'[s].bytes = session[s].bytes + z
    <3>1. session'[s] = [session[s] EXCEPT !.paths = Append(@, i), !.bytes = @ + z, !.next = @ + 1, !.age = 0]
      BY <1>5 DEF AppendPage, StoreInv, TypeOK
    <3> QED BY <1>1, <3>1 DEF Session
  <2>4. file \in File /\ file.size = z /\ disk[s][i].size = 0
    BY <2>1 DEF File, Absent
  <2>5. DiskBytes(s)' = session[s].bytes + z
    <3> HIDE DEF file
    <3>1. /\ SumFunction(SizesOf(disk[s])) \in Nat /\ SumFunction(SizesOf(disk'[s])) \in Nat
          /\ SumFunction(SizesOf(disk'[s])) + disk[s][i].size = SumFunction(SizesOf(disk[s])) + file.size
      BY <1>1, <2>2, <2>4, FileReplaced
    <3> QED BY <1>1, <1>2, <1>3, <2>4, <3>1
  <2>6. ASSUME NEW k \in Indexes, k > i PROVE disk'[s][k] = Absent
    BY <1>1, <1>2, <2>2, <2>6
  <2>7. LeftOver(s)' = 0
    BY <1>1, <2>3, <2>6 DEF LeftOver, Absent
  <2>8. \A k \in Indexes : k > i + 1 => disk'[s][k] = Absent
    BY <1>1, <2>6 DEF Indexes
  <2>9. /\ DiskBytes(s)' = session'[s].bytes + LeftOver(s)'
        /\ session'[s].bytes + LeftOver(s)' <= MaxBytes
        /\ \A k \in Indexes : k > session'[s].next => disk'[s][k] = Absent
    BY <1>1, <2>3, <2>5, <2>7, <2>8
  <2> QED BY <1>4, <2>9 DEF DiskInv
<1>6. CASE AppendFails(s, i, z)
  <2>1. PICK left \in File : /\ disk' = [disk EXCEPT ![s] = [disk[s] EXCEPT ![i] = left]]
                             /\ left.size \in {0, z, disk[s][i].size}
    <3>1. PICK left \in {Absent, IF disk[s][i] = Absent THEN [size |-> z, whole |-> FALSE] ELSE disk[s][i]} :
                 disk' = [disk EXCEPT ![s][i] = left]
      BY <1>6 DEF AppendFails
    <3>2. disk' = [disk EXCEPT ![s] = [disk[s] EXCEPT ![i] = left]]
      BY <3>1 DEF StoreInv, TypeOK
    <3>3. Absent \in File /\ Absent.size = 0
      BY DEF File, Absent
    <3>4. [size |-> z, whole |-> FALSE] \in File /\ [size |-> z, whole |-> FALSE].size = z
      BY DEF File
    <3>5. disk[s][i] \in File
      BY <1>1
    <3>6. left \in File /\ left.size \in {0, z, disk[s][i].size}
      BY <3>1, <3>3, <3>4, <3>5
    <3> QED BY <3>2, <3>6
  <2>2. disk'[s] = [disk[s] EXCEPT ![i] = left] /\ disk'[s][i] = left /\ session' = session
    BY <1>1, <1>6, <2>1 DEF AppendFails, StoreInv, TypeOK
  <2>3. disk[s][i].size \in Nat
    BY <1>1, FileSizes
  <2>4. DiskBytes(s)' = session[s].bytes + left.size
    <3>1. /\ SumFunction(SizesOf(disk[s])) \in Nat /\ SumFunction(SizesOf(disk'[s])) \in Nat
          /\ SumFunction(SizesOf(disk'[s])) + disk[s][i].size = SumFunction(SizesOf(disk[s])) + left.size
      BY <1>1, <2>2, FileReplaced
    <3>2. left.size \in Nat
      BY <1>1, <2>1, <2>3
    <3> QED BY <1>1, <1>2, <1>3, <2>3, <3>1, <3>2
  <2>5. LeftOver(s)' = left.size
    BY <1>1, <2>2 DEF LeftOver
  <2>6. session[s].bytes + left.size <= MaxBytes
    BY <1>1, <1>2, <2>1
  <2>7. \A k \in Indexes : k > i => disk'[s][k] = Absent
    BY <1>1, <1>2, <2>2
  <2> QED BY <1>1, <1>4, <2>2, <2>4, <2>5, <2>6, <2>7 DEF DiskInv
<1> QED BY <1>5, <1>6

\* Every step keeps every account.
LEMMA DiskStep ==
  ASSUME StoreInv, DiskInv, [Next]_storeVars
  PROVE  DiskInv'
<1>1. ASSUME NEW s \in Sessions, NEW n \in Indexes, Start(s, n) PROVE DiskInv'
  BY <1>1, StartDisk
<1>2. ASSUME NEW s \in Sessions, NEW i \in Indexes, NEW z \in Sizes,
             AppendPage(s, i, z) \/ AppendFails(s, i, z)
      PROVE  DiskInv'
  BY <1>2, AppendDisk
<1>3. ASSUME NEW S, session' = Without(S), disk' = Cleaned(S) PROVE DiskInv'
  BY <1>3, DiskKept DEF Without, Cleaned, Live
<1>4. ASSUME NEW s \in Sessions, Cancel(s) \/ LookupExpired(s) PROVE DiskInv'
  BY <1>3, <1>4 DEF Cancel, LookupExpired
<1>5. ASSUME session' = session, disk' = disk PROVE DiskInv'
  BY <1>5, DiskKept DEF Live
<1>6. ASSUME NEW h \in Handlers, NEW s \in Sessions, TakeForCommit(h, s) PROVE DiskInv'
  <2>1. session[s] \in Session /\ s \in Live
    BY <1>6 DEF TakeForCommit, Takeable, Found, Preparing, Live, StoreInv, TypeOK
  <2>2. session' = [session EXCEPT ![s] = [session[s] EXCEPT !.committing = TRUE, !.age = 0]] /\ disk' = disk
    BY <1>6 DEF TakeForCommit, StoreInv, TypeOK
  <2>3. \A r \in Sessions : /\ session'[r].next = session[r].next /\ session'[r].bytes = session[r].bytes
                            /\ r # s => session'[r] = session[r]
    BY <2>1, <2>2 DEF Session, StoreInv, TypeOK
  <2>4. \A r \in Live' : r \in Live
    BY <2>1, <2>3 DEF Live
  <2> QED BY <2>2, <2>3, <2>4, DiskKept DEF Live
<1>7. ASSUME NEW h \in Handlers, ReadPage(h) \/ Submit(h) \/ JobSettles(h) PROVE DiskInv'
  BY <1>5, <1>7 DEF ReadPage, Submit, JobSettles
<1>8. ASSUME NEW h \in Handlers, Finish(h) PROVE DiskInv'
  <2>1. CASE session' = session /\ disk' = disk
    BY <1>5, <2>1
  <2>2. CASE session' = Without({commit[h].id}) /\ disk' = Cleaned({commit[h].id})
    BY <1>3, <2>2
  <2> QED BY <1>8, <2>1, <2>2 DEF Finish
<1>9. CASE Reap \/ Close
  BY <1>3, <1>9 DEF Reap, Close
<1>10. CASE Tick
  <2>1. disk' = disk /\ \A r \in Sessions : session'[r] = Aged(r)
    BY <1>10 DEF Tick
  <2>2. ASSUME NEW r \in Live'
        PROVE  r \in Live /\ session'[r].next = session[r].next /\ session'[r].bytes = session[r].bytes
    <3>1. r \in Sessions /\ Aged(r) # Null /\ session[r] # Null
      BY <2>1 DEF Live, Aged
    <3>2. session[r] \in Session
      BY <3>1 DEF StoreInv, TypeOK
    <3>3. Aged(r).next = session[r].next /\ Aged(r).bytes = session[r].bytes
      BY <3>1, <3>2 DEF Aged, Session
    <3> QED BY <2>1, <3>1, <3>3 DEF Live
  <2> QED BY <2>1, <2>2, DiskKept
<1>11. CASE UNCHANGED storeVars
  BY <1>5, <1>11 DEF storeVars
<1> QED BY <1>1, <1>2, <1>4, <1>6, <1>7, <1>8, <1>9, <1>10, <1>11 DEF Next

\* Every directory that can be removed has an owner, and every owner stays
\* within the budget, files that failed writes left included.
THEOREM DiskStaysAccounted == Spec => []DiskAccounted
<1>1. Init => DiskInv
  BY DEF Init, DiskInv, Live
<1>2. StoreInv /\ DiskInv /\ [Next]_storeVars => DiskInv'
  BY DiskStep
<1>3. StoreInv /\ DiskInv => DiskAccounted
  <2>1. ASSUME StoreInv, DiskInv PROVE DiskBounded
    BY <2>1 DEF DiskInv, DiskBounded
  <2> QED BY <2>1 DEF StoreInv, DiskAccounted
<1> QED BY <1>1, <1>2, <1>3, PreparedCorrect, PTL DEF Spec

-----------------------------------------------------------------------------
(* The editor (services/editorPrintSubmission.js).                          *)
USE ClientAssumption DEF Jobs

ClientInv ==
  PrepTypeOK /\ TabsInv /\ FreshInv /\ EvidenceInv /\ WholeInv /\ HookInv /\ TransitInv /\ NextInv

\* What most steps of the store leave alone.
Kept(j) ==
  \/ session'[j] = Null
  \/ /\ session[j] # Null /\ session'[j].next = session[j].next
     /\ session'[j].expected = session[j].expected
CommitsKept ==
  \A h \in Handlers : commit'[h] # Null =>
    /\ commit[h] # Null /\ commit'[h].id = commit[h].id
    /\ commit'[h].sent => commit[h].sent
Calm ==
  /\ \A j \in Sessions : Kept(j)
  /\ CommitsKept /\ UNCHANGED <<issued, printed>>

LEMMA DropsAreCalm ==
  ASSUME StoreInv, NEW S \in SUBSET Sessions, session' = Without(S),
         UNCHANGED <<issued, commit, printed>>
  PROVE  Calm
BY DEF StoreInv, TypeOK, Without, Calm, Kept, CommitsKept

LEMMA CalmSteps ==
  ASSUME StoreInv,
         \/ Reap \/ Close \/ Tick \/ UNCHANGED storeVars
         \/ \E s \in Sessions : LookupExpired(s) \/ Cancel(s)
         \/ \E s \in Sessions, i \in Indexes, z \in Sizes : AppendFails(s, i, z)
         \/ \E h \in Handlers : ReadPage(h) \/ JobSettles(h) \/ Finish(h)
  PROVE  Calm
<1>1. CASE Reap \/ Close
  <2>1. Expired \subseteq Sessions /\ Preparing \subseteq Sessions
    BY DEF Expired, Preparing, Live
  <2> QED BY <1>1, <2>1, DropsAreCalm DEF Reap, Close
<1>2. CASE Tick
  <2>1. ASSUME NEW s \in Sessions PROVE Kept(s)
    BY <1>2, <2>1 DEF Tick, Aged, Kept, StoreInv, TypeOK, Session
  <2> QED BY <1>2, <2>1 DEF Tick, Calm, CommitsKept
<1>3. CASE UNCHANGED storeVars
  BY <1>3 DEF storeVars, Calm, Kept, CommitsKept
<1>4. CASE \E s \in Sessions : LookupExpired(s) \/ Cancel(s)
  <2>1. PICK s \in Sessions : LookupExpired(s) \/ Cancel(s)
    BY <1>4
  <2> QED BY <2>1, DropsAreCalm DEF LookupExpired, Cancel
<1>5. CASE \E s \in Sessions, i \in Indexes, z \in Sizes : AppendFails(s, i, z)
  BY <1>5 DEF AppendFails, Calm, Kept, CommitsKept
<1>6. ASSUME NEW h \in Handlers, ReadPage(h) PROVE Calm
  <2>1. commit[h] \in Commit
    BY <1>6 DEF ReadPage, StoreInv, TypeOK
  <2>2. commit' = [commit EXCEPT ![h] = [commit[h] EXCEPT !.read = @ + 1]]
    BY <1>6 DEF ReadPage
  <2>3. CommitsKept
    BY <1>6, <2>1, <2>2 DEF ReadPage, CommitsKept, StoreInv, TypeOK, Commit
  <2> QED BY <1>6, <2>3 DEF ReadPage, Calm, Kept
<1>7. ASSUME NEW h \in Handlers, Finish(h) PROVE Calm
  <2>1. \A s \in Sessions : Kept(s)
    BY <1>7 DEF Finish, Kept, Without, StoreInv, TypeOK
  <2>2. CommitsKept
    BY <1>7 DEF Finish, CommitsKept, StoreInv, TypeOK
  <2> QED BY <1>7, <2>1, <2>2 DEF Finish, Calm
<1>8. ASSUME NEW h \in Handlers, JobSettles(h) PROVE Calm
  <2>1. commit[h] \in Commit
    BY <1>8 DEF JobSettles, Waiting, StoreInv, TypeOK
  <2>2. commit' = [commit EXCEPT ![h] = [commit[h] EXCEPT !.over = TRUE]]
    BY <1>8 DEF JobSettles
  <2>3. CommitsKept
    BY <1>8, <2>1, <2>2 DEF JobSettles, Waiting, CommitsKept, StoreInv, TypeOK, Commit
  <2> QED BY <1>8, <2>3 DEF JobSettles, Calm, Kept
<1> QED BY <1>1, <1>2, <1>3, <1>4, <1>5, <1>6, <1>7, <1>8

\* The client's side of a step of the store that disturbs no session.
LEMMA CalmKeeps ==
  ASSUME StoreInv, ClientInv, Calm, UNCHANGED <<clientVars, netVars>>
  PROVE  ClientInv'
<1> USE DEF ClientInv, clientVars, netVars
<1>1. PrepTypeOK'
  BY DEF PrepTypeOK
<1>2. TabsInv'
  BY DEF TabsInv
<1>3. FreshInv'
  BY DEF FreshInv, Untouched, Preparation, Calm
<1>4. EvidenceInv'
  BY DEF EvidenceInv, Committing, Preparation, Calm, CommitsKept
<1>5. WholeInv'
  BY DEF WholeInv, Calm, CommitsKept, Kept, Live
<1>6. HookInv'
  BY DEF HookInv, Calm
<1>7. TransitInv'
  BY DEF TransitInv, Calm
<1>8. NextInv'
  BY DEF NextInv, NextOf, Calm, Kept, Live
<1> QED BY <1>1, <1>2, <1>3, <1>4, <1>5, <1>6, <1>7, <1>8

\* A tab takes up a print that nobody has printed.
LEMMA PrintPagesKeeps ==
  ASSUME ClientInv, NEW t \in Tabs, NEW j \in Jobs, PrintPages(t, j)
  PROVE  ClientInv'
<1> USE DEF ClientInv, PrintPages, netVars, storeVars
<1>1. PrepTypeOK'
  BY DEF PrepTypeOK
<1>2. j # Null /\ t # Null /\ pending[t] = Null /\ Untouched(j) /\ outcome[j] = Null
  BY NullAssumption DEF TabsInv, FreshInv
<1>3. TabsInv'
  BY <1>2 DEF TabsInv, PrepTypeOK
<1>4. mounted[t] # j /\ \A u \in Tabs : pending[u] # j
  BY <1>2 DEF TabsInv, PrepTypeOK
<1>5. FreshInv'
  BY <1>2, <1>4 DEF FreshInv, Untouched, Preparation, PrepTypeOK, TabsInv
<1>6. ~Committing(j)
  BY DEF EvidenceInv
<1>7. EvidenceInv'
  BY <1>2, <1>4, <1>6 DEF EvidenceInv, Committing, Preparation, PrepTypeOK, TabsInv
<1>8. WholeInv' /\ HookInv' /\ TransitInv' /\ NextInv'
  BY DEF WholeInv, HookInv, TransitInv, NextInv, NextOf, Live
<1> QED BY <1>1, <1>3, <1>5, <1>7, <1>8

\* The end of a preparation, whatever becomes of its component.
LEMMA EndKeeps ==
  ASSUME ClientInv, NEW j \in Jobs, owner[j] # Null, EndPreparation(j),
         UNCHANGED <<storeVars, mounted, owner>>
  PROVE  /\ TabsInv' /\ UNCHANGED <<issued, session, printed, commit>>
         /\ pending' \in [Tabs -> Jobs \cup {Null}]
         /\ mode' \in [Tabs -> {"idle", "preparing", "printing"}]
         /\ outcome' \in [Jobs -> {Null, "stopped", "printed", "failed"}]
         /\ ~Preparation(j)'
         /\ \A k \in Jobs : owner[k] # Null /\ Preparation(k)' => Preparation(k)
         /\ \A k \in Jobs : \/ outcome'[k] = outcome[k]
                            \/ k = j /\ Preparation(j) /\ outcome'[j] = "stopped"
<1> USE DEF ClientInv, EndPreparation, Preparation, storeVars
<1>1. TabsInv'
  BY NullAssumption DEF TabsInv, PrepTypeOK
<1>2. CASE Preparation(j)
  <2>1. /\ owner[j] \in Tabs /\ pending' = [pending EXCEPT ![owner[j]] = Null]
        /\ mode' = [mode EXCEPT ![owner[j]] = "idle"]
        /\ outcome' = [outcome EXCEPT ![j] = "stopped"]
    BY <1>2 DEF PrepTypeOK
  <2>2. ~Preparation(j)'
    BY <2>1 DEF PrepTypeOK
  <2>3. ASSUME NEW k \in Jobs, owner[k] # Null, Preparation(k)' PROVE Preparation(k)
    BY <2>1, <2>3, NullAssumption DEF PrepTypeOK
  <2> QED BY <1>1, <1>2, <2>1, <2>2, <2>3 DEF PrepTypeOK
<1>3. CASE ~Preparation(j)
  <2>1. UNCHANGED <<pending, mode, outcome>>
    BY <1>3
  <2>2. /\ UNCHANGED owner /\ ~Preparation(j)'
        /\ UNCHANGED <<issued, session, printed, commit>>
    BY <1>3, <2>1
  <2>3. \A k \in Jobs : Preparation(k)' => Preparation(k)
    BY <2>1, <2>2
  <2> QED BY <1>1, <2>1, <2>2, <2>3 DEF PrepTypeOK
<1> QED BY <1>2, <1>3

LEMMA CancelPreparationKeeps ==
  ASSUME ClientInv, NEW t \in Tabs, CancelPreparation(t)
  PROVE  ClientInv'
<1> USE DEF ClientInv, netVars
<1> DEFINE j == pending[t]
<1>1. j \in Jobs /\ owner[j] = t /\ t # Null /\ EndPreparation(j)
      /\ UNCHANGED <<storeVars, mounted, owner, job, requests, replies>>
  BY DEF CancelPreparation, PrepTypeOK, TabsInv
<1>2. PrepTypeOK' /\ TabsInv' /\ UNCHANGED <<issued, session, printed, commit>>
  BY <1>1, EndKeeps DEF PrepTypeOK
<1>3. FreshInv'
  BY <1>1, EndKeeps DEF FreshInv, Untouched
<1>4. EvidenceInv'
  BY <1>1, EndKeeps DEF EvidenceInv, Committing
<1>5. WholeInv'
  BY <1>1, EndKeeps DEF WholeInv, Live
<1>6. HookInv' /\ TransitInv' /\ NextInv'
  BY <1>1, <1>2 DEF HookInv, TransitInv, NextInv, NextOf, Live
<1> QED BY <1>2, <1>3, <1>4, <1>5, <1>6
\* The fields of a component's state, and the state written out.
LEMMA JobFields ==
  ASSUME NEW r \in JobState
  PROVE  /\ r.creating \in BOOLEAN /\ r.ready \in BOOLEAN /\ r.cancelled \in BOOLEAN
         /\ r.handedOff \in BOOLEAN /\ r.completed \in BOOLEAN
         /\ r.acked \in Unknown..Total /\ r.acked \in Int /\ r.index \in 1..Total
         /\ r.queued \in 0..Total /\ r.sending \in 0..Total /\ r.waiting \in 0..Total
         /\ Total \in Nat /\ 1 \in 1..Total /\ 0 \in 0..Total /\ Unknown \in Unknown..Total
         /\ 0 \in Unknown..Total
         /\ r = [creating |-> r.creating, ready |-> r.ready, acked |-> r.acked,
                 cancelled |-> r.cancelled, handedOff |-> r.handedOff,
                 completed |-> r.completed, index |-> r.index, queued |-> r.queued,
                 sending |-> r.sending, waiting |-> r.waiting]
<1>1. Total \in Nat /\ Total >= 1
  OBVIOUS
<1> QED BY <1>1 DEF JobState, Unknown

\* The state a component starts from.
LEMMA NewFacts ==
  /\ NewJob = [creating |-> FALSE, ready |-> FALSE, acked |-> Unknown,
               cancelled |-> FALSE, handedOff |-> FALSE, completed |-> FALSE,
               index |-> 1, queued |-> 0, sending |-> 0, waiting |-> 0]
  /\ [NewJob EXCEPT !.creating = TRUE] =
              [creating |-> TRUE, ready |-> FALSE, acked |-> Unknown,
               cancelled |-> FALSE, handedOff |-> FALSE, completed |-> FALSE,
               index |-> 1, queued |-> 0, sending |-> 0, waiting |-> 0]
  /\ ~NewJob.ready /\ ~NewJob.completed /\ ~NewJob.creating /\ NewJob.sending = 0
  /\ NewJob \in JobState /\ [NewJob EXCEPT !.creating = TRUE] \in JobState
<1>1. NewJob = [creating |-> FALSE, ready |-> FALSE, acked |-> Unknown,
                cancelled |-> FALSE, handedOff |-> FALSE, completed |-> FALSE,
                index |-> 1, queued |-> 0, sending |-> 0, waiting |-> 0]
  BY DEF NewJob
<1>2. ASSUME NEW x, x = [NewJob EXCEPT !.creating = TRUE]
      PROVE  x = [creating |-> TRUE, ready |-> FALSE, acked |-> Unknown,
               cancelled |-> FALSE, handedOff |-> FALSE, completed |-> FALSE,
               index |-> 1, queued |-> 0, sending |-> 0, waiting |-> 0]
  BY <1>2 DEF NewJob
<1>3. Total \in Nat /\ 1 \in 1..Total /\ 0 \in 0..Total /\ Unknown \in Unknown..Total
  BY DEF Unknown
<1>4. NewJob \in JobState
  BY <1>1, <1>3 DEF JobState
<1>5. ASSUME NEW x, x = [NewJob EXCEPT !.creating = TRUE] PROVE x \in JobState
  <2>1. x = [creating |-> TRUE, ready |-> FALSE, acked |-> Unknown,
             cancelled |-> FALSE, handedOff |-> FALSE, completed |-> FALSE,
             index |-> 1, queued |-> 0, sending |-> 0, waiting |-> 0]
    BY <1>2, <1>5
  <2> QED BY <1>3, <2>1 DEF JobState
<1> QED BY <1>1, <1>2, <1>4, <1>5

\* What a component that is cleaned up leaves behind.
LEMMA ReleasedFacts ==
  ASSUME PrepTypeOK, NEW j \in Jobs
  PROVE  LET rec == Released(j)
             kept == [Released(j) EXCEPT !.creating = job[j].creating]
         IN /\ rec \in JobState
            /\ rec.completed /\ rec.cancelled /\ rec.sending = 0 /\ rec.waiting = 0
            /\ rec.ready = job[j].ready /\ rec.creating = FALSE
            /\ kept \in JobState
            /\ kept.completed /\ kept.cancelled /\ kept.sending = 0 /\ kept.waiting = 0
            /\ kept.ready = job[j].ready /\ kept.creating = job[j].creating
<1> DEFINE acked == IF job[j].handedOff THEN job[j].acked ELSE Unknown
           rec == Released(j)
<1>1. job[j] \in JobState
  BY DEF PrepTypeOK
<1>2. acked \in Unknown..Total
  BY <1>1, JobFields
<1>3. ASSUME NEW x, x = rec
      PROVE  x = [creating |-> FALSE, ready |-> job[j].ready, acked |-> acked,
                  cancelled |-> TRUE, handedOff |-> job[j].handedOff,
                  completed |-> TRUE, index |-> job[j].index, queued |-> job[j].queued,
                  sending |-> 0, waiting |-> 0]
  BY <1>1, <1>3 DEF Released, JobState
<1> HIDE DEF acked, rec
<1>4. ASSUME NEW x, x = rec
      PROVE  /\ x \in JobState
             /\ x.completed /\ x.cancelled /\ x.sending = 0 /\ x.waiting = 0
             /\ x.ready = job[j].ready /\ x.creating = FALSE
  <2>1. x = [creating |-> FALSE, ready |-> job[j].ready, acked |-> acked,
             cancelled |-> TRUE, handedOff |-> job[j].handedOff,
             completed |-> TRUE, index |-> job[j].index, queued |-> job[j].queued,
             sending |-> 0, waiting |-> 0]
    BY <1>3, <1>4
  <2> QED BY <1>1, <1>2, <2>1, JobFields DEF JobState
<1>5. /\ rec \in JobState
      /\ rec.completed /\ rec.cancelled /\ rec.sending = 0 /\ rec.waiting = 0
      /\ rec.ready = job[j].ready /\ rec.creating = FALSE
  BY <1>4
<1> DEFINE c == job[j].creating
           kept == [rec EXCEPT !.creating = c]
<1>6. c \in BOOLEAN
  BY <1>1, JobFields
<1> HIDE DEF c
<1>7. /\ kept \in JobState
      /\ kept.completed /\ kept.cancelled /\ kept.sending = 0 /\ kept.waiting = 0
      /\ kept.ready = job[j].ready /\ kept.creating = c
  BY <1>5, <1>6 DEF JobState
<1> QED BY <1>5, <1>7 DEF rec, c

\* What the session expects next stays right when no label is sent and none is
\* acknowledged: a component starts, learns its session or stops.
LEMMA NextKeeps ==
  ASSUME NextInv,
         \A k \in Live' : k \in Live /\ session'[k].next = session[k].next,
         \A r \in requests' \ requests : r.kind # "page",
         \A r \in replies' \ replies : r.kind # "page",
         \A k \in Jobs :
           \/ /\ job'[k].ready = job[k].ready /\ job'[k].completed = job[k].completed
              /\ job'[k].sending = job[k].sending /\ job'[k].acked = job[k].acked
           \/ job'[k].ready = job[k].ready /\ job'[k].completed
           \/ ~job'[k].ready /\ ~job[k].ready
           \/ job'[k].ready /\ ~job[k].ready /\ job'[k].sending = 0 /\ job'[k].acked = 0
  PROVE  NextInv'
<1> SUFFICES ASSUME NEW k \in Live' PROVE NextOf(k)'
  BY DEF NextInv
<1>1. k \in Jobs /\ NextOf(k) /\ session'[k].next = session[k].next
  BY DEF NextInv, Live
<1>2. \A i : /\ Req("page", k, i) \in requests' => Req("page", k, i) \in requests
             /\ Ans(Req("page", k, i), TRUE) \in replies' => Ans(Req("page", k, i), TRUE) \in replies
  BY DEF Req, Ans
<1>3. CASE ~job'[k].ready \/ job'[k].completed
  BY <1>1, <1>3 DEF NextOf
<1>4. CASE job'[k].ready /\ ~job'[k].completed /\ job[k].ready
  BY <1>1, <1>2, <1>4 DEF NextOf
<1>5. CASE job'[k].ready /\ ~job[k].ready
  <2>1. job'[k].sending = 0 /\ (job'[k].completed \/ job'[k].acked = 0)
    BY <1>1, <1>5
  <2>2. session'[k].next = 1
    BY <1>1, <1>5 DEF NextOf
  <2> QED BY <1>5, <2>1, <2>2 DEF NextOf
<1> QED BY <1>3, <1>4, <1>5

\* React unmounts the old component and mounts the new one.
LEMMA RerenderKeeps ==
  ASSUME ClientInv, NEW t \in Tabs, Rerender(t)
  PROVE  ClientInv'
<1> USE DEF ClientInv
<1> DEFINE new == IF mode[t] = "preparing" THEN pending[t] ELSE Null
           old == mounted[t]
           kept == [Released(old) EXCEPT !.creating = job[old].creating]
           fresh == [NewJob EXCEPT !.creating = TRUE]
           asked == (IF old # Null THEN Discarding(old) ELSE {})
                      \cup (IF new # Null THEN {Req("start", new, 0)} ELSE {})
<1>1. /\ old # new /\ mounted' = [mounted EXCEPT ![t] = new]
      /\ job' = [k \in Jobs |-> IF k = old THEN kept ELSE IF k = new THEN fresh ELSE job[k]]
      /\ requests' = requests \cup asked
      /\ UNCHANGED <<session, issued, disk, commit, printed, stopped,
                     pending, mode, owner, outcome, replies>>
  BY DEF Rerender, storeVars
<1>2. /\ new # Null => /\ new \in Jobs /\ owner[new] = t /\ Preparation(new)
                        /\ Untouched(new)
      /\ old # Null => old \in Jobs /\ owner[old] = t /\ owner[old] # Null /\ ~(Preparation(old) /\ new = Null)
      /\ t # Null /\ Null \notin Jobs
  BY <1>1, NullAssumption DEF TabsInv, FreshInv, PrepTypeOK, Preparation
<1>3. old # Null => ~Preparation(old)
  BY <1>1, <1>2 DEF Preparation
<1>4. fresh \in JobState /\ fresh.creating /\ ~fresh.ready /\ ~fresh.completed
      /\ fresh.sending = 0 /\ fresh.waiting = 0 /\ fresh.queued = 0 /\ fresh.index = 1
      /\ ~NewJob.ready
  BY NewFacts
<1>43. old # Null =>
         /\ kept \in JobState
         /\ kept.completed /\ kept.cancelled /\ kept.sending = 0 /\ kept.waiting = 0
         /\ kept.ready = job[old].ready /\ kept.creating = job[old].creating
  BY <1>2, ReleasedFacts
<1>5. \A r \in asked : /\ r \in Request /\ r.kind \in {"discard", "start"}
                        /\ \/ r.job = old /\ old # Null
                           \/ r.job = new /\ new # Null
  BY <1>2 DEF Discarding, Req, Request, Kinds
<1> HIDE DEF new, old, kept, fresh, asked
<1>6. PrepTypeOK'
  BY <1>1, <1>2, <1>4, <1>43, <1>5 DEF PrepTypeOK
<1>7. TabsInv'
  BY <1>1, <1>2 DEF TabsInv, PrepTypeOK
<1>8. FreshInv'
  BY <1>1, <1>2, <1>3, <1>5 DEF FreshInv, Untouched, Preparation, PrepTypeOK, TabsInv, old
<1>9. EvidenceInv'
  BY <1>1, <1>5 DEF EvidenceInv, Committing, Preparation
<1>10. WholeInv'
  BY <1>1 DEF WholeInv, Live
<1>11. HookInv'
  BY <1>1, <1>2, <1>4, <1>43 DEF HookInv, PrepTypeOK
<1>12. TransitInv'
  BY <1>1, <1>2, <1>4, <1>43, <1>5 DEF TransitInv, PrepTypeOK, Untouched, Request, Reply, Req
<1>13. NextInv'
  <2>1. \A k \in Jobs : \/ job'[k] = job[k]
                        \/ job'[k].ready = job[k].ready /\ job'[k].completed
                        \/ ~job'[k].ready /\ ~job[k].ready
    BY <1>1, <1>2, <1>4, <1>43 DEF Untouched
  <2>2. \A r \in requests' \ requests : r.kind # "page"
    BY <1>1, <1>5
  <2> QED BY <1>1, <2>1, <2>2, NextKeeps DEF Live
<1> QED BY <1>6, <1>7, <1>8, <1>9, <1>10, <1>11, <1>12, <1>13
\* A page error: the component releases its session and the tab is told once.
LEMMA PageErrorKeeps ==
  ASSUME ClientInv, NEW j \in Jobs, owner[j] # Null, PageError(j), replies' \subseteq replies
  PROVE  ClientInv'
<1> USE DEF ClientInv
<1>1. CASE job[j].completed
  <2> DEFINE rec == [job[j] EXCEPT !.creating = FALSE]
  <2>1. /\ job' = [job EXCEPT ![j] = rec]
        /\ UNCHANGED <<session, issued, disk, commit, printed, stopped,
                       pending, mode, mounted, owner, outcome, requests>>
    BY <1>1 DEF PageError, storeVars
  <2>2. /\ rec \in JobState /\ rec.creating = FALSE /\ rec.ready = job[j].ready
        /\ rec.completed = job[j].completed /\ rec.cancelled = job[j].cancelled
        /\ rec.sending = job[j].sending /\ rec.waiting = job[j].waiting
    <3>1. job[j] \in JobState
      BY DEF PrepTypeOK
    <3> QED BY <3>1 DEF JobState
  <2> HIDE DEF rec
  <2>3. PrepTypeOK'
    BY <2>1, <2>2 DEF PrepTypeOK
  <2>4. TabsInv' /\ EvidenceInv' /\ WholeInv'
    BY <2>1 DEF TabsInv, EvidenceInv, Committing, Preparation, WholeInv, Live
  <2>5. FreshInv'
    <3>1. ~Untouched(j)
      BY <1>1, NewFacts DEF Untouched
    <3>2. \A k \in Jobs : Untouched(k) => Untouched(k)'
      BY <2>1, <3>1 DEF Untouched, PrepTypeOK
    <3> QED BY <2>1, <3>2 DEF FreshInv, Preparation
  <2>6. HookInv'
    BY <1>1, <2>1, <2>2 DEF HookInv, PrepTypeOK
  <2>7. TransitInv'
    BY <2>1, <2>2 DEF TransitInv, PrepTypeOK, Request, Reply
  <2>8. NextInv'
    BY <1>1, <2>1, <2>2, NextKeeps DEF Live, PrepTypeOK
  <2> QED BY <2>3, <2>4, <2>5, <2>6, <2>7, <2>8
<1>2. CASE ~job[j].completed
  <2> DEFINE rec == Released(j)
  <2>1. /\ job' = [job EXCEPT ![j] = rec]
        /\ requests' = requests \cup Discarding(j)
        /\ EndPreparation(j)
        /\ UNCHANGED <<storeVars, mounted, owner>>
    BY <1>2 DEF PageError
  <2>2. /\ rec \in JobState /\ rec.completed /\ rec.cancelled /\ rec.sending = 0
        /\ rec.waiting = 0 /\ rec.ready = job[j].ready /\ rec.creating = FALSE
    BY ReleasedFacts
  <2>3. \A r \in Discarding(j) : r \in Request /\ r.kind = "discard" /\ r.job = j
    BY DEF Discarding, Req, Request, Kinds
  <2> HIDE DEF rec
  <2>4. /\ TabsInv' /\ UNCHANGED <<issued, session, printed, commit, owner, mounted>>
        /\ ~Preparation(j)'
    BY <2>1, EndKeeps
  <2>5. PrepTypeOK'
    BY <2>1, <2>2, <2>3, EndKeeps DEF PrepTypeOK
  <2>6. FreshInv'
    BY <2>1, <2>3, EndKeeps DEF FreshInv, Untouched, PrepTypeOK
  <2>7. EvidenceInv'
    BY <2>1, <2>3, EndKeeps DEF EvidenceInv, Committing
  <2>8. WholeInv'
    BY <2>1, EndKeeps DEF WholeInv, Live
  <2>9. HookInv'
    BY <2>1, <2>2, <2>4 DEF HookInv, PrepTypeOK
  <2>10. TransitInv'
    BY <2>1, <2>2, <2>3, <2>4 DEF TransitInv, PrepTypeOK, Request, Reply, Req
  <2>11. NextInv'
    BY <2>1, <2>2, <2>3, <2>4, NextKeeps, replies' \ replies = {} DEF Live, PrepTypeOK
  <2> QED BY <2>4, <2>5, <2>6, <2>7, <2>8, <2>9, <2>10, <2>11
<1> QED BY <1>1, <1>2

\* A job whose component has begun anything has a tab.
LEMMA BegunHasOwner ==
  ASSUME ClientInv, NEW j \in Jobs,
         job[j].creating \/ job[j].ready \/ job[j].sending # 0
  PROVE  owner[j] # Null
BY DEF ClientInv, FreshInv, Untouched, NewJob

LEMMA FailuresKeep ==
  ASSUME ClientInv, NEW j \in Jobs, CreationFails(j) \/ RenderFails(j) \/ UploadFails(j)
  PROVE  ClientInv'
<1>1. replies' \subseteq replies /\ PageError(j)
  BY DEF CreationFails, RenderFails, UploadFails, Drop
<1>2. owner[j] # Null
  BY BegunHasOwner DEF CreationFails, RenderFails, UploadFails, Rendering
<1> QED BY <1>1, <1>2, PageErrorKeeps

\* The session's id arrives, perhaps too late for its component.
LEMMA GotCreationKeeps ==
  ASSUME StoreInv, ClientInv, NEW j \in Jobs, GotCreation(j)
  PROVE  ClientInv'
<1> USE DEF ClientInv
<1>1. /\ job[j].creating /\ ~job[j].ready /\ owner[j] # Null
      /\ [kind |-> "start", job |-> j, index |-> 0, ok |-> TRUE] \in replies
      /\ replies' = {r \in replies : ~(r.kind = "start" /\ r.job = j)}
      /\ UNCHANGED <<session, issued, disk, commit, printed, stopped,
                     pending, mode, mounted, owner, outcome>>
  BY BegunHasOwner DEF GotCreation, HookInv, Drop, storeVars
<1>2. j \in issued /\ job[j] # NewJob
  BY <1>1 DEF TransitInv, NewJob
<1>3. TabsInv'
  BY <1>1 DEF TabsInv
<1>4. WholeInv'
  BY <1>1 DEF WholeInv, Live
<1>0. job[j] \in JobState /\ \A k \in Live' : k \in Live /\ session'[k].next = session[k].next
  BY <1>1 DEF Live, PrepTypeOK
<1>5. CASE job[j].cancelled
  <2> DEFINE rec == [job[j] EXCEPT !.creating = FALSE]
  <2>1. job' = [job EXCEPT ![j] = rec] /\ requests' = requests \cup {Req("discard", j, 0)}
    BY <1>5 DEF GotCreation
  <2>2. /\ rec \in JobState /\ ~rec.creating
        /\ rec.ready = job[j].ready /\ rec.completed = job[j].completed
        /\ rec.cancelled = job[j].cancelled /\ rec.sending = job[j].sending
        /\ rec.waiting = job[j].waiting /\ rec.queued = job[j].queued
        /\ rec.index = job[j].index /\ rec.acked = job[j].acked
    BY <1>0 DEF JobState
  <2>3. Req("discard", j, 0) \in Request /\ Req("discard", j, 0).kind = "discard" /\ Req("discard", j, 0).job = j
    BY DEF Req, Request, Kinds
  <2> HIDE DEF rec
  <2>4. PrepTypeOK'
    BY <1>1, <2>1, <2>2, <2>3 DEF PrepTypeOK
  <2>5. FreshInv'
    BY <1>1, <1>2, <2>1, <2>3 DEF FreshInv, Untouched, Preparation, PrepTypeOK
  <2>6. EvidenceInv'
    BY <1>1, <2>1, <2>3 DEF EvidenceInv, Committing, Preparation
  <2>7. HookInv'
    BY <1>1, <1>5, <2>1, <2>2 DEF HookInv, PrepTypeOK
  <2>8. TransitInv'
    BY <1>1, <2>1, <2>2, <2>3 DEF TransitInv, PrepTypeOK, Request, Reply, Req
  <2>9. NextInv'
    BY <1>0, <1>1, <2>1, <2>2, <2>3, NextKeeps DEF PrepTypeOK
  <2> QED BY <1>3, <1>4, <2>4, <2>5, <2>6, <2>7, <2>8, <2>9
<1>6. CASE ~job[j].cancelled
  <2> DEFINE rec == [job[j] EXCEPT !.creating = FALSE, !.ready = TRUE, !.acked = 0]
  <2>1. job' = [job EXCEPT ![j] = rec] /\ requests' = requests
    BY <1>6 DEF GotCreation, PrepTypeOK
  <2>2. ~job[j].completed /\ job[j].sending = 0 /\ job[j].waiting = 0
        /\ job[j].queued = 0 /\ job[j].index = 1
    BY <1>1, <1>6 DEF HookInv
  <2>3. /\ rec \in JobState /\ ~rec.creating /\ rec.ready /\ rec.acked = 0
        /\ rec.completed = FALSE /\ rec.sending = 0
        /\ rec.waiting = 0 /\ rec.queued = 0 /\ rec.index = 1
    BY <1>0, <2>2, JobFields DEF JobState
  <2> HIDE DEF rec
  <2>4. PrepTypeOK'
    BY <1>1, <2>1, <2>3 DEF PrepTypeOK
  <2>5. FreshInv'
    BY <1>1, <1>2, <2>1 DEF FreshInv, Untouched, Preparation, PrepTypeOK
  <2>6. EvidenceInv'
    BY <1>1, <2>1 DEF EvidenceInv, Committing, Preparation
  <2>7. HookInv'
    BY <1>1, <1>2, <2>1, <2>3 DEF HookInv, PrepTypeOK, Counters
  <2>8. TransitInv'
    BY <1>1, <2>1, <2>2, <2>3 DEF TransitInv, PrepTypeOK, Request, Reply, Req
  <2>9. NextInv'
    BY <1>0, <1>1, <2>1, <2>3, NextKeeps DEF PrepTypeOK
  <2> QED BY <1>3, <1>4, <2>4, <2>5, <2>6, <2>7, <2>8, <2>9
<1> QED BY <1>5, <1>6
\* A step of a component that goes on with its labels: what it changes of the
\* counters, and which label, if any, it sends next.
LEMMA LabelStepKeeps ==
  ASSUME StoreInv, ClientInv, NEW j \in Jobs, NEW rec \in JobState, NEW sent,
         job[j].ready, ~job[j].completed, ~rec.completed, rec.ready, ~rec.creating, Counters(rec),
         job' = [job EXCEPT ![j] = rec],
         requests' = requests \cup sent,
         replies' \subseteq replies,
         UNCHANGED <<storeVars, pending, mode, mounted, owner, outcome>>,
         \/ /\ sent = {} /\ rec.sending = job[j].sending
            /\ rec.sending = 0 => rec.acked = job[j].acked
         \/ /\ \A r \in replies' : ~(r.kind = "page" /\ r.job = j)
            /\ \A r \in requests : ~(r.kind = "page" /\ r.job = j)
            /\ j \in Live => session[j].next = IF rec.sending = 0 THEN rec.acked + 1 ELSE rec.sending
            /\ sent = IF rec.sending = 0 THEN {} ELSE {Req("page", j, rec.sending)}
  PROVE  ClientInv'
<1> USE DEF ClientInv, storeVars
<1>1. \A r \in sent : /\ r \in Request /\ r.kind = "page" /\ r.job = j
                       /\ r.index = rec.sending /\ r.index # 0
  BY DEF Req, Request, Kinds, JobState
<1>2. owner[j] # Null /\ j \in issued
  BY BegunHasOwner DEF HookInv
<1>3. PrepTypeOK'
  BY <1>1 DEF PrepTypeOK
<1>4. TabsInv' /\ WholeInv'
  BY DEF TabsInv, WholeInv, Live
<1>5. FreshInv'
  BY <1>1, <1>2 DEF FreshInv, Untouched, Preparation, PrepTypeOK
<1>6. EvidenceInv'
  BY <1>1 DEF EvidenceInv, Committing, Preparation
<1>7. HookInv'
  BY <1>2 DEF HookInv, PrepTypeOK
<1>8. TransitInv'
  BY <1>1 DEF TransitInv, PrepTypeOK, Request, Reply, Req
<1>9. NextInv'
  BY <1>1 DEF NextInv, NextOf, PrepTypeOK, Live, Req, Ans
<1> QED BY <1>3, <1>4, <1>5, <1>6, <1>7, <1>8, <1>9

\* A rendered label is sent, or waits for the one before it.
LEMMA RenderPageKeeps ==
  ASSUME StoreInv, ClientInv, NEW j \in Jobs, RenderPage(j)
  PROVE  ClientInv'
<1> DEFINE i == job[j].index
           queued == [job[j] EXCEPT !.queued = i]
           sent == Sent(queued, i)
           waits == [queued EXCEPT !.waiting = i]
<1>1. /\ job[j] \in JobState /\ job[j].ready /\ ~job[j].completed /\ ~job[j].creating
      /\ i > job[j].queued /\ Counters(job[j])
      /\ UNCHANGED <<storeVars, pending, mode, mounted, owner, outcome, replies>>
  BY DEF RenderPage, Rendering, ClientInv, PrepTypeOK, HookInv
<1>2. CASE job[j].sending = 0
  <2>1. job' = [job EXCEPT ![j] = sent] /\ requests' = requests \cup {Req("page", j, i)}
    BY <1>2, <1>1 DEF RenderPage, JobState
  <2>2. /\ sent \in JobState /\ ~sent.completed /\ sent.ready /\ ~sent.creating
        /\ sent.sending = i /\ Counters(sent)
    <3> SUFFICES ASSUME NEW x, x = sent
        PROVE  /\ x \in JobState /\ ~x.completed /\ x.ready /\ ~x.creating
               /\ x.sending = i /\ Counters(x)
      OBVIOUS
    <3>1. x = [creating |-> FALSE, ready |-> TRUE, acked |-> job[j].acked,
                  cancelled |-> job[j].cancelled, handedOff |-> job[j].handedOff,
                  completed |-> FALSE, index |-> IF i < Total THEN i + 1 ELSE i,
                  queued |-> i, sending |-> i, waiting |-> 0]
      BY <1>1 DEF Sent, JobState
    <3>2. i \in 1..Total /\ i = job[j].acked + 1 /\ job[j].acked \in Unknown..Total
      BY <1>1, <1>2, JobFields DEF Counters
    <3> HIDE DEF i, sent
    <3>3. (IF i < Total THEN i + 1 ELSE i) \in 1..Total /\ i \in 0..Total /\ 0 \in 0..Total
          /\ (i < Total \/ i = Total)
      BY <3>2
    <3>4. x \in JobState
      BY <1>1, <3>1, <3>2, <3>3, JobFields DEF JobState
    <3>5. Counters(x)
      BY <3>1, <3>2, <3>3 DEF Counters, Unknown
    <3> QED BY <3>1, <3>4, <3>5
  <2>3. /\ \A r \in replies : ~(r.kind = "page" /\ r.job = j)
        /\ \A r \in requests : ~(r.kind = "page" /\ r.job = j)
    <3>1. \A r \in requests \cup replies : r.kind = "page" /\ r.job = j => r.index = 0
      BY <1>1, <1>2 DEF ClientInv, TransitInv
    <3>2. \A r \in requests : r.kind = "page" => r.index # 0
      BY DEF ClientInv, TransitInv
    <3>3. \A r \in replies : r.kind = "page" => r.index # 0
      BY DEF ClientInv, TransitInv
    <3> QED BY <3>1, <3>2, <3>3
  <2>4. j \in Live => session[j].next = i
    BY <1>1, <1>2, JobFields DEF ClientInv, NextInv, NextOf, Counters
  <2>5. i # 0
    BY <1>1 DEF JobState
  <2> HIDE DEF sent, i
  <2> QED BY <1>1, <2>1, <2>2, <2>3, <2>4, <2>5, LabelStepKeeps
<1>3. CASE job[j].sending # 0
  <2>1. job' = [job EXCEPT ![j] = waits] /\ requests' = requests \cup {}
    BY <1>3, <1>1 DEF RenderPage, JobState
  <2>2. /\ waits \in JobState /\ ~waits.completed /\ waits.ready /\ ~waits.creating
        /\ waits.sending = job[j].sending /\ Counters(waits)
    <3> SUFFICES ASSUME NEW x, x = waits
        PROVE  /\ x \in JobState /\ ~x.completed /\ x.ready /\ ~x.creating
               /\ x.sending = job[j].sending /\ Counters(x)
      OBVIOUS
    <3>1. x = [creating |-> FALSE, ready |-> TRUE, acked |-> job[j].acked,
                   cancelled |-> job[j].cancelled, handedOff |-> job[j].handedOff,
                   completed |-> FALSE, index |-> i, queued |-> i,
                   sending |-> job[j].sending, waiting |-> i]
      BY <1>1 DEF JobState
    <3> HIDE DEF waits
    <3>2. x \in JobState
      BY <1>1, <3>1, JobFields DEF JobState
    <3>3. Counters(x)
      BY <1>1, <1>3, <3>1, JobFields DEF Counters
    <3> QED BY <3>1, <3>2, <3>3
  <2> HIDE DEF waits
  <2> QED BY <1>1, <1>3, <2>1, <2>2, LabelStepKeeps
<1> QED BY <1>2, <1>3

\* What an acknowledged label says of its job.
LEMMA AckedFacts ==
  ASSUME StoreInv, ClientInv, NEW j \in Jobs, Acked(j)
  PROVE  /\ job[j] \in JobState /\ job[j].ready /\ ~job[j].completed /\ ~job[j].creating
         /\ job[j].sending # 0 /\ Counters(job[j])
         /\ replies' \subseteq replies /\ owner[j] # Null
         /\ \A r \in replies' : ~(r.kind = "page" /\ r.job = j)
         /\ \A r \in requests : ~(r.kind = "page" /\ r.job = j)
         /\ j \in Live => session[j].next = job[j].sending + 1
<1> DEFINE p == Ans(Req("page", j, job[j].sending), TRUE)
<1> USE DEF ClientInv
<1>1. job[j] \in JobState /\ job[j].sending # 0 /\ p \in replies
      /\ replies' = {r \in replies : ~(r.kind = "page" /\ r.job = j)}
  BY DEF Acked, PrepTypeOK, Drop
<1>2. job[j].ready /\ ~job[j].completed /\ ~job[j].creating /\ Counters(job[j])
  BY <1>1 DEF HookInv
<1>3. p.kind = "page" /\ p.job = j /\ p.index = job[j].sending
  BY DEF Ans, Req
<1>4. Req("page", j, job[j].sending) \notin requests
  BY <1>1, <1>2, <1>3 DEF TransitInv
<1>5. \A r \in requests : ~(r.kind = "page" /\ r.job = j)
  <2> SUFFICES ASSUME NEW r \in requests, r.kind = "page", r.job = j PROVE FALSE
    OBVIOUS
  <2>1. r.index = job[j].sending /\ r \in Request
    BY <1>2 DEF TransitInv, PrepTypeOK
  <2>2. r = Req("page", j, job[j].sending)
    BY <2>1 DEF Req, Request
  <2> QED BY <1>4, <2>2
<1>6. j \in Live => session[j].next = job[j].sending + 1
  BY <1>1, <1>2 DEF NextInv, NextOf
<1>7. owner[j] # Null
  BY <1>2, BegunHasOwner
<1> QED BY <1>1, <1>2, <1>5, <1>6, <1>7

\* The next label goes, or none is rendered yet.
LEMMA GotAckKeeps ==
  ASSUME StoreInv, ClientInv, NEW j \in Jobs, GotAck(j)
  PROVE  ClientInv'
<1> DEFINE rec == [job[j] EXCEPT !.acked = @ + 1, !.sending = 0]
           sent == Sent(rec, rec.waiting)
<1>1. /\ Acked(j) /\ job[j].sending < Total
      /\ UNCHANGED <<storeVars, pending, mode, mounted, owner, outcome>>
  BY DEF GotAck
<1>0. /\ job[j] \in JobState /\ job[j].ready /\ ~job[j].completed /\ ~job[j].creating
      /\ job[j].sending # 0 /\ Counters(job[j])
  BY <1>1, AckedFacts
<1>2. rec.waiting = job[j].waiting
  BY <1>0 DEF JobState
<1>3. CASE job[j].waiting = 0
  <2>1. job' = [job EXCEPT ![j] = rec] /\ requests' = requests \cup {}
    BY <1>2, <1>3 DEF GotAck
  <2>2. /\ rec \in JobState /\ ~rec.completed /\ rec.ready /\ ~rec.creating
        /\ rec.sending = 0 /\ rec.acked = job[j].sending /\ Counters(rec)
    <3> SUFFICES ASSUME NEW x, x = rec
        PROVE  /\ x \in JobState /\ ~x.completed /\ x.ready /\ ~x.creating
               /\ x.sending = 0 /\ x.acked = job[j].sending /\ Counters(x)
      OBVIOUS
    <3>1. x = [creating |-> FALSE, ready |-> TRUE, acked |-> job[j].acked + 1,
                 cancelled |-> job[j].cancelled, handedOff |-> job[j].handedOff,
                 completed |-> FALSE, index |-> job[j].index, queued |-> job[j].queued,
                 sending |-> 0, waiting |-> job[j].waiting]
      BY <1>0 DEF JobState
    <3> HIDE DEF rec
    <3>2. job[j].acked = job[j].sending - 1
      BY <1>1, AckedFacts DEF Counters
    <3>3. x \in JobState
      BY <1>1, <3>1, <3>2, AckedFacts, JobFields DEF JobState, Unknown
    <3>4. Counters(x)
      BY <1>1, <1>3, <3>1, <3>2, AckedFacts, JobFields DEF Counters
    <3> QED BY <1>1, <3>1, <3>2, <3>3, <3>4, AckedFacts, JobFields
  <2> HIDE DEF rec
  <2> QED BY <1>1, <2>1, <2>2, AckedFacts, LabelStepKeeps
<1>4. CASE job[j].waiting # 0
  <2>1. job' = [job EXCEPT ![j] = sent] /\ requests' = requests \cup {Req("page", j, job[j].waiting)}
    BY <1>2, <1>4 DEF GotAck
  <2>2. /\ sent \in JobState /\ ~sent.completed /\ sent.ready /\ ~sent.creating
        /\ sent.sending = job[j].waiting /\ job[j].waiting = job[j].sending + 1 /\ Counters(sent)
    <3> SUFFICES ASSUME NEW x, x = sent
        PROVE  /\ x \in JobState /\ ~x.completed /\ x.ready /\ ~x.creating
               /\ x.sending = job[j].waiting /\ job[j].waiting = job[j].sending + 1 /\ Counters(x)
      OBVIOUS
    <3>1. job[j].waiting = job[j].sending + 1 /\ job[j].acked = job[j].sending - 1
          /\ job[j].queued = job[j].waiting /\ job[j].index = job[j].waiting
      BY <1>1, <1>4, AckedFacts, JobFields DEF Counters
    <3>2. x = [creating |-> FALSE, ready |-> TRUE, acked |-> job[j].acked + 1,
                  cancelled |-> job[j].cancelled, handedOff |-> job[j].handedOff,
                  completed |-> FALSE,
                  index |-> IF job[j].waiting < Total THEN job[j].waiting + 1 ELSE job[j].index,
                  queued |-> job[j].queued, sending |-> job[j].waiting, waiting |-> 0]
      BY <1>0, <1>2 DEF JobState, Sent
    <3> HIDE DEF sent
    <3>3. x \in JobState
      BY <1>1, <3>1, <3>2, AckedFacts, JobFields DEF JobState, Unknown
    <3>4. Counters(x)
      BY <1>1, <1>4, <3>1, <3>2, AckedFacts, JobFields DEF Counters
    <3> QED BY <3>1, <3>2, <3>3, <3>4
  <2>3. job[j].waiting # 0 /\ (j \in Live => session[j].next = job[j].waiting)
    BY <1>1, <1>4, <2>2, AckedFacts
  <2> HIDE DEF sent
  <2>4. /\ replies' \subseteq replies /\ \A r \in replies' : ~(r.kind = "page" /\ r.job = j)
        /\ \A r \in requests : ~(r.kind = "page" /\ r.job = j)
    BY <1>1, AckedFacts
  <2> QED BY <1>0, <1>1, <2>1, <2>2, <2>3, <2>4, LabelStepKeeps
<1> QED BY <1>3, <1>4

\* The last label is acknowledged: the print is handed over for good, or, when
\* its tab no longer wants it, its session is discarded.
LEMMA HandOffKeeps ==
  ASSUME StoreInv, ClientInv, NEW j \in Jobs, HandOff(j)
  PROVE  ClientInv'
<1> USE DEF ClientInv
<1> DEFINE rec == [job[j] EXCEPT !.acked = Total, !.sending = 0,
                                 !.handedOff = TRUE, !.completed = TRUE]
           lost == [rec EXCEPT !.acked = Unknown]
           next == IF Preparation(j) THEN rec ELSE lost
           kind == IF Preparation(j) THEN "commit" ELSE "discard"
<1>1. /\ job[j] \in JobState /\ job[j].ready /\ ~job[j].creating /\ owner[j] # Null
      /\ replies' \subseteq replies
  BY AckedFacts DEF HandOff
<1>2. Total \in Unknown..Total /\ Unknown \in Unknown..Total /\ 0 \in 0..Total
  BY DEF Unknown
<1>3. ASSUME NEW x, x \in {rec, lost}
      PROVE  /\ x \in JobState /\ x.completed /\ x.sending = 0 /\ x.ready /\ ~x.creating
             /\ x.waiting = job[j].waiting
  <2>1. CASE x = rec
    BY <1>1, <1>2, <2>1 DEF JobState
  <2>2. CASE x = lost
    BY <1>1, <1>2, <2>2 DEF JobState
  <2> QED BY <1>3, <2>1, <2>2
<1>4. /\ job' = [job EXCEPT ![j] = next]
      /\ requests' = requests \cup {Req(kind, j, 0)}
      /\ mode' = IF Preparation(j) THEN [mode EXCEPT ![owner[j]] = "printing"] ELSE mode
      /\ UNCHANGED <<session, issued, disk, commit, printed, stopped,
                     pending, mounted, owner, outcome>>
  BY DEF HandOff, storeVars
<1>5. /\ Req(kind, j, 0) \in Request /\ Req(kind, j, 0).job = j
      /\ Req(kind, j, 0).kind \in {"commit", "discard"}
      /\ Req(kind, j, 0).kind = "commit" => Preparation(j)
  BY <1>2 DEF Req, Request, Kinds
<1>6. /\ next \in JobState /\ next.completed /\ next.sending = 0 /\ next.ready
      /\ ~next.creating
  BY <1>3
<1> HIDE DEF rec, lost, next
<1>7. /\ ~Preparation(j)'
      /\ \A k \in Jobs : owner[k] # Null /\ Preparation(k)' => Preparation(k)
      /\ Preparation(j) => outcome[j] = Null
  BY <1>1, <1>4 DEF Preparation, PrepTypeOK, TabsInv
<1>8. PrepTypeOK'
  BY <1>1, <1>4, <1>5, <1>6 DEF PrepTypeOK
<1>9. TabsInv'
  BY <1>1, <1>4, NullAssumption DEF TabsInv, PrepTypeOK, Preparation
<1>10. FreshInv'
  <2>1. ~Untouched(j)
    BY <1>1, NewFacts DEF Untouched
  <2>2. \A k \in Jobs : Untouched(k) => Untouched(k)'
    BY <1>1, <1>4, <1>5, <2>1 DEF Untouched, PrepTypeOK
  <2> QED BY <1>4, <1>7, <2>2 DEF FreshInv
<1>11. EvidenceInv'
  <2>1. \A k \in Jobs : Committing(k)' => Committing(k) \/ (k = j /\ Preparation(j))
    BY <1>4, <1>5 DEF Committing
  <2> QED BY <1>1, <1>4, <1>7, <2>1 DEF EvidenceInv
<1>12. WholeInv'
  BY <1>1, <1>4 DEF WholeInv, Live
<1>13. HookInv'
  BY <1>4, <1>6, <1>1 DEF HookInv, PrepTypeOK
<1>14. TransitInv'
  BY <1>1, <1>4, <1>5, <1>6 DEF TransitInv, PrepTypeOK, Request, Reply, Req
<1>15. NextInv'
  <2>1. \A r \in requests' \ requests : r.kind # "page"
    BY <1>4, <1>5
  <2> QED BY <1>1, <1>4, <1>6, <2>1, NextKeeps DEF Live, PrepTypeOK
<1> QED BY <1>8, <1>9, <1>10, <1>11, <1>12, <1>13, <1>14, <1>15

\* The commit is answered, or the connection is lost: the tab is free again.
LEMMA PrintEndsKeeps ==
  ASSUME ClientInv, NEW j \in Jobs, PrintEnds(j)
  PROVE  ClientInv'
<1> USE DEF ClientInv
<1>1. PICK ok \in BOOLEAN :
        /\ Ans(Req("commit", j, 0), ok) \in replies \/ (Unreliable /\ ~ok)
        /\ outcome' = [outcome EXCEPT ![j] = IF ok THEN "printed" ELSE "failed"]
  BY DEF PrintEnds
<1>2. /\ owner[j] # Null /\ owner[j] \in Tabs /\ pending[owner[j]] = j
      /\ mode[owner[j]] = "printing"
      /\ pending' = [pending EXCEPT ![owner[j]] = Null]
      /\ mode' = [mode EXCEPT ![owner[j]] = "idle"]
      /\ replies' \subseteq replies
      /\ UNCHANGED <<session, issued, disk, commit, printed, stopped,
                     mounted, owner, job, requests>>
  BY DEF PrintEnds, Printing, Drop, storeVars, PrepTypeOK
<1>3. ok => printed[j] # <<>>
  <2>1. Ans(Req("commit", j, 0), TRUE).kind = "commit" /\ Ans(Req("commit", j, 0), TRUE).ok
        /\ Ans(Req("commit", j, 0), TRUE).job = j
    BY DEF Ans, Req
  <2> QED BY <1>1, <2>1 DEF WholeInv
<1>4. /\ outcome'[j] \in {"printed", "failed"} /\ (outcome'[j] = "printed" => ok)
      /\ \A k \in Jobs \ {j} : outcome'[k] = outcome[k]
  BY <1>1 DEF PrepTypeOK
<1>5. \A k \in Jobs : owner[k] # Null /\ Preparation(k)' => Preparation(k)
  BY <1>2, NullAssumption DEF Preparation, PrepTypeOK
<1>6. PrepTypeOK'
  BY <1>1, <1>2 DEF PrepTypeOK
<1>7. TabsInv'
  BY <1>2, <1>4, NullAssumption DEF TabsInv, PrepTypeOK
<1>8. FreshInv'
  BY <1>2, <1>4, <1>5 DEF FreshInv, Untouched
<1>9. EvidenceInv'
  BY <1>2, <1>4, <1>5 DEF EvidenceInv, Committing
<1>10. WholeInv'
  BY <1>2, <1>3, <1>4 DEF WholeInv, Live
<1>11. HookInv' /\ TransitInv'
  BY <1>2 DEF HookInv, TransitInv
<1>12. NextInv'
  BY <1>2, NextKeeps DEF Live
<1> QED BY <1>6, <1>7, <1>8, <1>9, <1>10, <1>11, <1>12

\* A request and its reply agree on what they are about.
LEMMA AnswerFacts ==
  ASSUME NEW r \in Request, NEW ok \in BOOLEAN
  PROVE  /\ Ans(r, ok) \in Reply /\ Ans(r, ok).kind = r.kind /\ Ans(r, ok).job = r.job
         /\ Ans(r, ok).index = r.index /\ Ans(r, ok).ok = ok
         /\ r = Req(r.kind, r.job, r.index) /\ r.job \in Jobs /\ r.index \in 0..Total
BY DEF Ans, Req, Request, Reply

\* What an answer never disturbs: the tabs, and what a print goes on with.
LEMMA AnswerKeeps ==
  ASSUME StoreInv, ClientInv, NEW r \in Request, NEW ok \in BOOLEAN, Answer(r, ok),
         r \in requests \/ r.kind = "commit", ~Untouched(r.job),
         issued \subseteq issued', issued' \subseteq issued \cup {r.job},
         ok /\ r.kind = "start" => r.job \in issued'
  PROVE  PrepTypeOK' /\ TabsInv' /\ FreshInv' /\ HookInv' /\ TransitInv'
<1> USE DEF ClientInv
<1>1. /\ requests' = requests \ {r} /\ replies' \subseteq replies \cup {Ans(r, ok)}
      /\ Awaited(r) \/ replies' = replies
      /\ UNCHANGED <<pending, mode, mounted, owner, job, outcome>>
  BY DEF Answer, clientVars
<1>2. PrepTypeOK'
  BY <1>1, AnswerFacts DEF PrepTypeOK
<1>3. TabsInv'
  BY <1>1 DEF TabsInv
<1>4. FreshInv'
  <2>1. \A k \in Jobs : Untouched(k) => Untouched(k)'
    BY <1>1, AnswerFacts DEF Untouched
  <2> QED BY <1>1, <2>1 DEF FreshInv, Preparation
<1>5. HookInv'
  BY <1>1 DEF HookInv
<1>6. TransitInv'
  <2>1. r.kind = "page" => r \in requests
    OBVIOUS
  <2>2. ASSUME NEW p \in replies', p.kind = "page"
        PROVE  /\ p.index # 0 /\ job[p.job].ready
               /\ ~job[p.job].completed =>
                    p.index = job[p.job].sending /\ Req("page", p.job, p.index) \notin requests'
    BY <1>1, <2>1, <2>2, AnswerFacts DEF TransitInv
  <2>3. \A p \in replies' : p.kind = "start" /\ p.ok => p.job \in issued'
    BY <1>1, AnswerFacts DEF TransitInv
  <2> QED BY <1>1, <2>2, <2>3 DEF TransitInv
<1> QED BY <1>2, <1>3, <1>4, <1>5, <1>6

\* An answer to a request that did nothing the print goes on with.
LEMMA CalmAnswerKeeps ==
  ASSUME StoreInv, ClientInv, NEW r \in Request, NEW ok \in BOOLEAN, Answer(r, ok), Calm,
         r \in requests \/ r.kind = "commit", ~Untouched(r.job),
         ok => r.kind = "discard" \/ (r.kind = "commit" /\ printed[r.job] # <<>>)
  PROVE  ClientInv'
<1> USE DEF ClientInv
<1>1. /\ requests' = requests \ {r} /\ replies' \subseteq replies \cup {Ans(r, ok)}
      /\ UNCHANGED <<pending, mode, mounted, owner, job, outcome>>
  BY DEF Answer, clientVars
<1>2. UNCHANGED <<issued, printed>>
  BY DEF Calm
<1>3. PrepTypeOK' /\ TabsInv' /\ FreshInv' /\ HookInv' /\ TransitInv'
  BY <1>2, AnswerKeeps
<1>4. EvidenceInv'
  BY <1>1, <1>2 DEF EvidenceInv, Committing, Preparation, Calm, CommitsKept
<1>5. WholeInv'
  BY <1>1, <1>2, AnswerFacts DEF WholeInv, Calm, CommitsKept, Kept, Live
<1>6. NextInv'
  <2> SUFFICES ASSUME NEW k \in Live' PROVE NextOf(k)'
    BY DEF NextInv
  <2>1. k \in Jobs /\ NextOf(k) /\ session'[k].next = session[k].next
    BY DEF NextInv, Live, Calm, Kept
  <2>2. ASSUME NEW i, Ans(Req("page", k, i), TRUE) \in replies'
        PROVE  Ans(Req("page", k, i), TRUE) \in replies
    BY <1>1, <2>2 DEF Ans, Req
  <2> QED BY <1>1, <2>1, <2>2 DEF NextOf
<1> QED BY <1>3, <1>4, <1>5, <1>6

\* A request on its way is of a print that has begun.
LEMMA RequestFacts ==
  ASSUME ClientInv, NEW r \in requests
  PROVE  r \in Request /\ r.job \in Jobs /\ r.index \in 0..Total /\ ~Untouched(r.job)
BY DEF ClientInv, PrepTypeOK, Request, Untouched

\* The page a request asks to append is a number of the session's list.
LEMMA AppendIndex ==
  ASSUME StoreInv, NEW s \in Sessions, NEW i \in 0..Total, NEW z \in Sizes,
         Appendable(s, i, z)
  PROVE  i \in Indexes
<1>1. session[s].next \in 1..(session[s].expected + 1) /\ session[s] \in Session
  BY DEF Appendable, Found, Preparing, Live, StoreInv, TypeOK, SessionInv
<1>2. session[s].expected \in 1..MaxPages
  BY <1>1, SessionFields
<1>3. i = session[s].next /\ i <= session[s].expected
  BY DEF Appendable
<1>4. session[s].expected \in Nat /\ MaxPages \in Nat /\ session[s].expected <= MaxPages
  BY <1>2, StoreAssumption
<1>5. i \in 1..(session[s].expected + 1) /\ i \in Nat
  BY <1>1, <1>3
<1> QED BY <1>3, <1>4, <1>5 DEF Indexes

\* A creation is served: a session for Total labels, or none.
LEMMA ServeStartKeeps ==
  ASSUME StoreInv, ClientInv, NEW r \in requests, ServeStart(r)
  PROVE  StoreInv' /\ ClientInv'
<1>1. r \in Request /\ r.job \in Sessions /\ ~Untouched(r.job) /\ r.kind = "start"
      /\ Total \in Indexes
  BY RequestFacts DEF ServeStart, Indexes
<1>2. CASE Start(r.job, Total) /\ Answer(r, TRUE)
  <2> DEFINE s == r.job
  <2>1. StoreInv'
    BY <1>1, <1>2, StartInv
  <2>2. /\ s \notin issued /\ issued' = issued \cup {s} /\ UNCHANGED <<commit, printed>>
        /\ session' = [Without(Expired) EXCEPT ![s] =
                         [expected |-> Total, paths |-> <<>>, bytes |-> 0, next |-> 1,
                          age |-> 0, committing |-> FALSE]]
    BY <1>2 DEF Start
  <2>3. /\ session'[s].next = 1 /\ session'[s].expected = Total
        /\ \A k \in Live' : k # s => k \in Live /\ session'[k] = session[k]
    BY <1>1, <2>2 DEF Without, Live
  <2>4. PrepTypeOK' /\ TabsInv' /\ FreshInv' /\ HookInv' /\ TransitInv'
    BY <1>1, <1>2, <2>2, AnswerKeeps
  <2>5. /\ requests' = requests \ {r} /\ replies' \subseteq replies \cup {Ans(r, TRUE)}
        /\ UNCHANGED <<pending, mode, mounted, owner, job, outcome>>
    BY <1>2 DEF Answer, clientVars
  <2>6. EvidenceInv'
    BY <2>2, <2>5 DEF ClientInv, EvidenceInv, Committing, Preparation
  <2>7. WholeInv'
    <3>1. \A k \in Live' : session'[k].expected = Total
      BY <2>3 DEF ClientInv, WholeInv
    <3>2. \A p \in replies' : p.kind = "commit" => p \in replies
      BY <1>1, <2>5, AnswerFacts
    <3> QED BY <2>2, <2>5, <3>1, <3>2 DEF ClientInv, WholeInv
  <2>8. NextInv'
    <3> SUFFICES ASSUME NEW k \in Live' PROVE NextOf(k)'
      BY DEF NextInv
    <3>1. CASE k = s
      <4>1. ~job[s].ready
        BY <1>1, <2>2 DEF ClientInv, HookInv
      <4> QED BY <2>3, <2>5, <3>1, <4>1 DEF NextOf
    <3>2. CASE k # s
      <4>1. NextOf(k) /\ session'[k] = session[k]
        BY <2>3, <3>2 DEF ClientInv, NextInv
      <4>2. ASSUME NEW i, Ans(Req("page", k, i), TRUE) \in replies'
            PROVE  Ans(Req("page", k, i), TRUE) \in replies
        BY <1>1, <2>5, <4>2 DEF Ans, Req
      <4> QED BY <2>5, <4>1, <4>2 DEF NextOf
    <3> QED BY <3>1, <3>2
  <2> QED BY <2>1, <2>4, <2>6, <2>7, <2>8 DEF ClientInv
<1>3. CASE (Reap \/ UNCHANGED storeVars) /\ Answer(r, FALSE)
  <2>1. Calm
    BY <1>3, CalmSteps
  <2>2. StoreInv'
    BY <1>3, StoreStep DEF Next
  <2> QED BY <1>1, <1>3, <2>1, <2>2, CalmAnswerKeeps
<1> QED BY <1>2, <1>3 DEF ServeStart

\* An operation that is refused, for a session that is gone or for its state.
LEMMA RefuseKeeps ==
  ASSUME StoreInv, ClientInv, NEW r \in requests, NEW ok \in BOOLEAN,
         \/ LookupExpired(r.job) \/ Cancel(r.job) \/ UNCHANGED storeVars
         \/ \E i \in Indexes, z \in Sizes : AppendFails(r.job, i, z),
         Answer(r, ok), ok => r.kind = "discard"
  PROVE  StoreInv' /\ ClientInv'
<1>1. r \in Request /\ r.job \in Sessions /\ ~Untouched(r.job)
  BY RequestFacts
<1>2. Calm
  BY <1>1, CalmSteps
<1>3. StoreInv'
  BY <1>1, StoreStep DEF Next
<1> QED BY <1>1, <1>2, <1>3, CalmAnswerKeeps

\* A label is stored: it is the one its component waits for, if it still does.
LEMMA ServePageKeeps ==
  ASSUME StoreInv, ClientInv, NEW r \in requests, ServePage(r)
  PROVE  StoreInv' /\ ClientInv'
<1> DEFINE s == r.job
<1>1. r \in Request /\ s \in Sessions /\ ~Untouched(s) /\ r.kind = "page" /\ r.index \in 0..Total
  BY RequestFacts DEF ServePage
<1>2. ASSUME NEW z \in Sizes, AppendPage(s, r.index, z), Answer(r, TRUE)
      PROVE  StoreInv' /\ ClientInv'
  <2>1. r.index \in Indexes /\ Appendable(s, r.index, z)
    BY <1>1, <1>2, AppendIndex DEF AppendPage
  <2>2. StoreInv'
    BY <1>1, <1>2, <2>1, AppendInv
  <2>3. /\ session' = [session EXCEPT ![s] =
             [session[s] EXCEPT !.paths = Append(@, r.index), !.bytes = @ + z,
                                !.next = @ + 1, !.age = 0]]
        /\ UNCHANGED <<issued, commit, printed>>
    BY <1>1, <1>2 DEF AppendPage, StoreInv, TypeOK
  <2>4. session[s] \in Session /\ session[s] # Null /\ r.index = session[s].next
    BY <1>1, <2>1 DEF Appendable, Found, Preparing, Live, StoreInv, TypeOK
  <2>5. /\ session'[s].next = r.index + 1 /\ session'[s].expected = session[s].expected
        /\ \A k \in Sessions \ {s} : session'[k] = session[k]
    BY <1>1, <2>3, <2>4 DEF Session, StoreInv, TypeOK
  <2>6. PrepTypeOK' /\ TabsInv' /\ FreshInv' /\ HookInv' /\ TransitInv'
    BY <1>1, <1>2, <2>3, AnswerKeeps
  <2>7. /\ requests' = requests \ {r} /\ replies' \subseteq replies \cup {Ans(r, TRUE)}
        /\ UNCHANGED <<pending, mode, mounted, owner, job, outcome>>
    BY <1>2 DEF Answer, clientVars
  <2>8. EvidenceInv'
    BY <2>3, <2>7 DEF ClientInv, EvidenceInv, Committing, Preparation
  <2>9. Live' \subseteq Live
    BY <2>4, <2>5 DEF Live
  <2>10. WholeInv'
    <3>1. \A k \in Live' : session'[k].expected = Total
      BY <2>5, <2>9 DEF ClientInv, WholeInv, Live
    <3>2. \A p \in replies' : p.kind = "commit" => p \in replies
      BY <1>1, <2>7, AnswerFacts
    <3> QED BY <2>3, <2>7, <3>1, <3>2 DEF ClientInv, WholeInv
  <2>11. NextInv'
    <3> SUFFICES ASSUME NEW k \in Live' PROVE NextOf(k)'
      BY DEF NextInv
    <3>1. k \in Jobs /\ NextOf(k)
      BY <2>9 DEF ClientInv, NextInv, Live
    <3>2. CASE k = s
      <4>1. job[s].ready /\ (~job[s].completed => r.index = job[s].sending /\ r.index # 0)
        BY <1>1 DEF ClientInv, TransitInv
      <4>2. Req("page", s, r.index) \notin requests'
        BY <1>1, <2>7, AnswerFacts
      <4> QED BY <2>5, <2>7, <3>2, <4>1, <4>2 DEF NextOf
    <3>3. CASE k # s
      <4>1. session'[k] = session[k]
        BY <2>5, <3>1, <3>3
      <4>2. ASSUME NEW i, Ans(Req("page", k, i), TRUE) \in replies'
            PROVE  Ans(Req("page", k, i), TRUE) \in replies
        BY <1>1, <2>7, <3>3, <4>2 DEF Ans, Req
      <4> QED BY <2>7, <3>1, <4>1, <4>2 DEF NextOf
    <3> QED BY <3>2, <3>3
  <2> QED BY <2>2, <2>6, <2>8, <2>10, <2>11 DEF ClientInv
<1>3. ASSUME NEW z \in Sizes, AppendFails(s, r.index, z), Answer(r, FALSE)
      PROVE  StoreInv' /\ ClientInv'
  <2>1. r.index \in Indexes
    BY <1>1, <1>3, AppendIndex DEF AppendFails
  <2> QED BY <1>3, <2>1, RefuseKeeps
<1>4. ASSUME NEW z \in Sizes, Refuse(r, Appendable(s, r.index, z)), Answer(r, FALSE)
      PROVE  StoreInv' /\ ClientInv'
  BY <1>4, RefuseKeeps DEF Refuse
<1> QED BY <1>2, <1>3, <1>4 DEF ServePage

LEMMA ServeDiscardKeeps ==
  ASSUME StoreInv, ClientInv, NEW r \in requests, ServeDiscard(r)
  PROVE  StoreInv' /\ ClientInv'
BY RefuseKeeps DEF ServeDiscard, Refuse

\* A session is taken for its commit: the print was handed off.
LEMMA ServeCommitKeeps ==
  ASSUME StoreInv, ClientInv, NEW r \in requests, NEW h \in Handlers, ServeCommit(h, r)
  PROVE  StoreInv' /\ ClientInv'
<1> DEFINE s == r.job
<1>1. r \in Request /\ s \in Sessions /\ r.kind = "commit"
  BY RequestFacts DEF ServeCommit
<1>2. CASE Refuse(r, Takeable(s)) /\ Answer(r, FALSE)
  BY <1>2, RefuseKeeps DEF Refuse
<1>3. CASE /\ TakeForCommit(h, s) /\ requests' = requests \ {r}
           /\ UNCHANGED <<clientVars, replies>>
  <2> DEFINE new == [session[s] EXCEPT !.committing = TRUE, !.age = 0]
             taken == [id |-> s, paths |-> session[s].paths, read |-> 0, sent |-> FALSE, over |-> FALSE]
  <2>1. StoreInv'
    BY <1>1, <1>3, StoreStep DEF Next
  <2>2. session[s] \in Session /\ session[s] # Null
    BY <1>1, <1>3 DEF TakeForCommit, Takeable, Found, Preparing, Live, StoreInv, TypeOK
  <2>3. /\ session' = [session EXCEPT ![s] = new]
        /\ commit' = [commit EXCEPT ![h] = taken]
        /\ requests' = requests \ {r}
        /\ UNCHANGED <<issued, printed, pending, mode, mounted, owner, job, outcome, replies>>
    BY <1>1, <1>3 DEF TakeForCommit, StoreInv, TypeOK, clientVars
  <2>4. new.next = session[s].next /\ new.expected = session[s].expected
    BY <2>2 DEF Session
  <2>5. taken.id = s /\ ~taken.sent
    OBVIOUS
  <2> HIDE DEF new, taken
  <2>6. \A k \in Live' : /\ k \in Live /\ session'[k].next = session[k].next
                         /\ session'[k].expected = session[k].expected
    BY <2>2, <2>3, <2>4 DEF Live, StoreInv, TypeOK
  <2>7. \A g \in Handlers : commit'[g] # Null =>
          \/ commit'[g].id = s /\ ~commit'[g].sent
          \/ commit'[g] = commit[g]
    BY <2>3, <2>5 DEF StoreInv, TypeOK
  <2>8. PrepTypeOK' /\ TabsInv' /\ FreshInv' /\ HookInv' /\ TransitInv'
    BY <2>3 DEF ClientInv, PrepTypeOK, TabsInv, FreshInv, Untouched, Preparation,
                HookInv, TransitInv
  <2>9. EvidenceInv'
    <3>1. \A k \in Jobs : Committing(k)' => Committing(k)
      BY <1>1, <2>3, <2>7 DEF Committing
    <3> QED BY <2>3, <3>1 DEF ClientInv, EvidenceInv, Preparation
  <2>10. WholeInv'
    BY <2>3, <2>6, <2>7 DEF ClientInv, WholeInv
  <2>11. NextInv'
    BY <2>3, <2>6, NextKeeps DEF ClientInv
  <2> QED BY <2>1, <2>8, <2>9, <2>10, <2>11 DEF ClientInv
<1> QED BY <1>2, <1>3 DEF ServeCommit

\* The commit's route ends and answers; a success was sent to the printer.
LEMMA RouteEndsKeeps ==
  ASSUME StoreInv, ClientInv, NEW h \in Handlers, RouteEnds(h)
  PROVE  StoreInv' /\ ClientInv'
<1> DEFINE r == Req("commit", commit[h].id, 0)
<1>1. PICK ok \in BOOLEAN : (ok => commit[h].sent /\ commit[h].over) /\ Answer(r, ok)
  BY DEF RouteEnds
<1>2. Finish(h) /\ commit[h] # Null /\ commit[h] \in Commit /\ commit[h].id \in issued
      /\ commit[h].id \in Sessions
  BY LeaseFacts DEF RouteEnds, Finish, StoreInv, SessionInv, Live
<1>3. r \in Request /\ r.kind = "commit" /\ r.job = commit[h].id
  BY <1>2 DEF Req, Request, Kinds
<1>4. ~Untouched(r.job) /\ (ok => printed[r.job] # <<>>)
  BY <1>1, <1>2, <1>3 DEF Untouched, ClientInv, WholeInv
<1>5. StoreInv' /\ Calm
  BY <1>2, CalmSteps, StoreStep DEF Next
<1> QED BY <1>1, <1>3, <1>4, <1>5, CalmAnswerKeeps

\* A request is lost; its caller finds out by its deadline.
LEMMA LoseKeeps ==
  ASSUME StoreInv, ClientInv, NEW r \in requests, Lose(r)
  PROVE  StoreInv' /\ ClientInv'
<1>1. /\ requests' = requests \ {r} /\ UNCHANGED storeVars
      /\ UNCHANGED <<session, issued, disk, commit, printed, stopped, replies>>
      /\ UNCHANGED <<pending, mode, mounted, owner, job, outcome>>
  BY DEF Lose, clientVars, storeVars
<1>2. StoreInv'
  BY <1>1, StoreStep
<1>3. PrepTypeOK' /\ TabsInv' /\ FreshInv' /\ EvidenceInv' /\ WholeInv'
  BY <1>1 DEF ClientInv, PrepTypeOK, TabsInv, FreshInv, Untouched, EvidenceInv,
              Committing, Preparation, WholeInv, Live
<1>4. HookInv' /\ TransitInv'
  BY <1>1 DEF ClientInv, HookInv, TransitInv
<1>5. NextInv'
  BY <1>1, NextKeeps DEF ClientInv, Live
<1> QED BY <1>2, <1>3, <1>4, <1>5 DEF ClientInv

\* The pages are handed to the printer: the whole list, of a print handed off.
LEMMA SubmitKeeps ==
  ASSUME StoreInv, ClientInv, NEW h \in Handlers, Submit(h),
         UNCHANGED <<clientVars, netVars>>
  PROVE  StoreInv' /\ ClientInv'
<1> USE DEF clientVars, netVars
<1> DEFINE s == commit[h].id
<1>1. StoreInv'
  BY StoreStep DEF Next
<1>2. /\ commit[h] # Null /\ commit[h] \in Commit /\ s \in Sessions /\ s \in Live
      /\ printed[s] = <<>> /\ commit[h].paths = Upto(session[s].expected)
  BY LeaseFacts DEF Submit, StoreInv, CommitInv, Live
<1>3. /\ commit' = [commit EXCEPT ![h] = [commit[h] EXCEPT !.sent = TRUE]]
      /\ printed' = [printed EXCEPT ![s] = Append(printed[s], commit[h].paths)]
      /\ UNCHANGED <<session, issued>>
  BY <1>2 DEF Submit
<1>4. commit[h].paths = Upto(Total)
  BY <1>2 DEF ClientInv, WholeInv
<1>5. Append(<<>>, Upto(Total)) = <<Upto(Total)>> /\ <<Upto(Total)>> # <<>>
  OBVIOUS
<1>6. printed' = [printed EXCEPT ![s] = <<Upto(Total)>>]
  BY <1>2, <1>3, <1>4, <1>5
<1>7. printed'[s] = <<Upto(Total)>> /\ \A k \in Sessions \ {s} : printed'[k] = printed[k]
  BY <1>2, <1>6 DEF StoreInv, TypeOK
<1>8. \A g \in Handlers : commit'[g] # Null =>
        \/ g = h /\ commit'[g].id = s
        \/ commit'[g] = commit[g]
  BY <1>2, <1>3 DEF StoreInv, TypeOK, Commit
<1>9. PrepTypeOK' /\ TabsInv' /\ FreshInv' /\ HookInv' /\ TransitInv'
  BY <1>3 DEF ClientInv, PrepTypeOK, TabsInv, FreshInv, Untouched, Preparation,
              HookInv, TransitInv
<1>10. EvidenceInv'
  <2>1. \A k \in Jobs : Committing(k)' => Committing(k)
    BY <1>2, <1>7, <1>8 DEF Committing
  <2> QED BY <2>1 DEF ClientInv, EvidenceInv, Preparation
<1>11. WholeInv'
  <2>1. \A k \in Sessions : printed[k] # <<>> => printed'[k] # <<>>
    BY <1>5, <1>7
  <2>2. \A k \in Sessions : printed'[k] \in {<<>>, <<Upto(Total)>>}
    BY <1>7 DEF ClientInv, WholeInv
  <2>3. \A g \in Handlers : commit'[g] # Null /\ commit'[g].sent => printed'[commit'[g].id] # <<>>
    <3> SUFFICES ASSUME NEW g \in Handlers, commit'[g] # Null, commit'[g].sent
                 PROVE  printed'[commit'[g].id] # <<>>
      OBVIOUS
    <3>1. CASE commit'[g].id = s
      BY <1>5, <1>7, <3>1
    <3>2. CASE commit'[g] = commit[g]
      <4>1. commit[g].id \in Sessions /\ printed[commit[g].id] # <<>>
        BY <3>2, LeaseFacts DEF ClientInv, WholeInv, Live
      <4> QED BY <2>1, <3>2, <4>1
    <3> QED BY <1>8, <3>1, <3>2
  <2>4. \A r \in replies : r.job \in Sessions
    BY DEF ClientInv, PrepTypeOK, Reply
  <2> QED BY <1>3, <2>1, <2>2, <2>3, <2>4 DEF ClientInv, WholeInv, Live
<1>12. NextInv'
  BY <1>3, NextKeeps DEF ClientInv, Live
<1> QED BY <1>1, <1>9, <1>10, <1>11, <1>12 DEF ClientInv

\* The editor starts with no print, the network empty.
LEMMA PrepInitInv == PrepInit => PrepInv
<1> SUFFICES ASSUME PrepInit PROVE PrepInv
  OBVIOUS
<1> USE DEF PrepInit, Init
<1>1. StoreInv
  BY StoreInitInv
<1>2. PrepTypeOK
  BY NewFacts DEF PrepTypeOK
<1>3. TabsInv /\ FreshInv
  BY DEF TabsInv, FreshInv, Untouched
<1>4. EvidenceInv
  BY DEF EvidenceInv, Committing
<1>5. WholeInv
  BY NullAssumption DEF WholeInv, Live
<1>6. HookInv
  <2>1. /\ ~NewJob.ready /\ ~NewJob.completed /\ NewJob.sending = 0 /\ NewJob.waiting = 0
        /\ NewJob.queued = 0 /\ NewJob.index = 1
    BY NewFacts
  <2> QED BY <2>1 DEF HookInv
<1>7. TransitInv
  BY DEF TransitInv
<1>8. NextInv
  BY DEF NextInv, Live
<1> QED BY <1>1, <1>2, <1>3, <1>4, <1>5, <1>6, <1>7, <1>8 DEF PrepInv

\* Every step of a tab, of the network and of the server preserves it.
LEMMA PrepStep == PrepInv /\ [PrepNext]_vars => PrepInv'
<1> SUFFICES ASSUME StoreInv, ClientInv, [PrepNext]_vars PROVE StoreInv' /\ ClientInv'
  BY DEF PrepInv, ClientInv
<1>1. ASSUME UNCHANGED storeVars PROVE StoreInv'
  BY <1>1, StoreStep
<1>2. ASSUME NEW t \in Tabs, NEW j \in Jobs, PrintPages(t, j)
      PROVE  StoreInv' /\ ClientInv'
  BY <1>1, <1>2, PrintPagesKeeps DEF PrintPages
<1>3. ASSUME NEW t \in Tabs, CancelPreparation(t) \/ Rerender(t)
      PROVE  StoreInv' /\ ClientInv'
  BY <1>1, <1>3, CancelPreparationKeeps, RerenderKeeps DEF CancelPreparation, Rerender
<1>4. ASSUME NEW j \in Jobs, GotCreation(j) \/ RenderPage(j)
      PROVE  StoreInv' /\ ClientInv'
  BY <1>1, <1>4, GotCreationKeeps, RenderPageKeeps DEF GotCreation, RenderPage
<1>5. ASSUME NEW j \in Jobs, CreationFails(j) \/ RenderFails(j) \/ UploadFails(j)
      PROVE  StoreInv' /\ ClientInv'
  BY <1>1, <1>5, FailuresKeep DEF CreationFails, RenderFails, UploadFails, PageError
<1>6. ASSUME NEW j \in Jobs, GotAck(j) \/ HandOff(j) \/ PrintEnds(j)
      PROVE  StoreInv' /\ ClientInv'
  BY <1>1, <1>6, GotAckKeeps, HandOffKeeps, PrintEndsKeeps DEF GotAck, HandOff, PrintEnds
<1>7. ASSUME NEW r \in requests, Serve(r) \/ Lose(r)
      PROVE  StoreInv' /\ ClientInv'
  BY <1>7, ServeStartKeeps, ServePageKeeps, ServeDiscardKeeps, ServeCommitKeeps, LoseKeeps
     DEF Serve
<1>8. ASSUME NEW h \in Handlers, Alone(ReadPage(h)) \/ Alone(JobSettles(h))
      PROVE  StoreInv' /\ ClientInv'
  <2>1. (ReadPage(h) \/ JobSettles(h)) /\ UNCHANGED <<clientVars, netVars>>
    BY <1>8 DEF Alone
  <2> QED BY <2>1, CalmSteps, CalmKeeps, StoreStep DEF Next
<1>9. ASSUME NEW h \in Handlers, Alone(Submit(h))
      PROVE  StoreInv' /\ ClientInv'
  BY <1>9, SubmitKeeps DEF Alone
<1>10. CASE Alone(Reap) \/ Alone(Close) \/ Alone(Tick)
  <2>1. (Reap \/ Close \/ Tick) /\ UNCHANGED <<clientVars, netVars>>
    BY <1>10 DEF Alone
  <2> QED BY <2>1, CalmSteps, CalmKeeps, StoreStep DEF Next
<1>11. CASE UNCHANGED vars
  <2>1. UNCHANGED storeVars /\ UNCHANGED <<clientVars, netVars>>
    BY <1>11 DEF vars
  <2> QED BY <2>1, CalmSteps, CalmKeeps, StoreStep
<1> QED BY <1>2, <1>3, <1>4, <1>5, <1>6, <1>7, <1>8, <1>9, <1>10, <1>11, RouteEndsKeeps
        DEF PrepNext

\* The editors, the network and the store agree at any moment on how far every
\* print is, however their steps interleave.
THEOREM PreparationCorrect == PrepSpec => []PrepInv
BY PrepInitInv, PrepStep, PTL DEF PrepSpec

\* The state of tabs, components and messages keeps its types.
THEOREM PreparationTypes == PrepSpec => []PrepTypeOK
<1>1. PrepInv => PrepTypeOK
  BY DEF PrepInv
<1> QED BY <1>1, PreparationCorrect, PTL

\* Where tabs, messages and store agree, an outcome is told as it is.
LEMMA OutcomeToldNow == PrepInv => OutcomeIsTold
<1> SUFFICES ASSUME PrepInv PROVE OutcomeIsTold
  OBVIOUS
<1>1. StoppedIsUnprinted
  <2>1. \A j : Req("commit", j, 0).kind = "commit" /\ Req("commit", j, 0).job = j
    BY DEF Req
  <2> QED BY <2>1 DEF PrepInv, EvidenceInv, Committing, StoppedIsUnprinted
<1>2. ReportedIsPrinted
  BY DEF PrepInv, WholeInv, ReportedIsPrinted
<1> QED BY <1>1, <1>2 DEF OutcomeIsTold

\* A print whose tab was told that it stopped is not printed, then or later, and
\* one reported as a success was printed once and whole.
THEOREM WhatTheUserIsTold == PrepSpec => []OutcomeIsTold
BY OutcomeToldNow, PreparationCorrect, PTL

\* The label a component waits for is the one its session expects next, so the
\* server never has to refuse it for its order.
THEOREM LabelsArriveInOrder == PrepSpec => []UploadsInOrder
<1>1. PrepInv => UploadsInOrder
  <2> SUFFICES ASSUME PrepInv, NEW r \in requests, r.kind = "page", Awaited(r), r.job \in Live
               PROVE  session[r.job].next = r.index
    BY DEF UploadsInOrder
  <2>1. /\ job[r.job].sending = r.index /\ r.index # 0 /\ job[r.job].ready
        /\ r \in Request /\ r.job \in Jobs
    BY DEF PrepInv, TransitInv, PrepTypeOK, Request, Awaited
  <2>2. ~job[r.job].completed
    BY <2>1 DEF PrepInv, HookInv
  <2>3. r = Req("page", r.job, r.index)
    BY <2>1 DEF Req, Request
  <2>4. NextOf(r.job)
    BY DEF PrepInv, NextInv
  <2> QED BY <2>1, <2>2, <2>3, <2>4 DEF NextOf
<1> QED BY <1>1, PreparationCorrect, PTL

\* Every step that the editor makes the store take is one of the store's own
\* specification, which lets any caller ask for anything: an upload's number is
\* one of the session's list, a creation asks for a number of labels in bounds.
LEMMA StepsOfStore == PrepInv /\ [PrepNext]_vars => [Next]_storeVars
<1> SUFFICES ASSUME StoreInv, ClientInv, [PrepNext]_vars PROVE [Next]_storeVars
  BY DEF PrepInv, ClientInv
<1>1. ASSUME NEW r \in requests, Serve(r) PROVE [Next]_storeVars
  <2> DEFINE s == r.job
  <2>1. s \in Sessions /\ r.index \in 0..Total /\ Total \in Indexes
    BY RequestFacts DEF Indexes
  <2>2. CASE ServeStart(r)
    BY <2>1, <2>2 DEF ServeStart, Next
  <2>3. CASE ServePage(r)
    <3>1. ASSUME NEW z \in Sizes, Appendable(s, r.index, z) PROVE r.index \in Indexes
      BY <2>1, <3>1, AppendIndex
    <3>2. CASE \E z \in Sizes : AppendPage(s, r.index, z) \/ AppendFails(s, r.index, z)
      <4>1. r.index \in Indexes
        BY <3>1, <3>2 DEF AppendPage, AppendFails
      <4> QED BY <2>1, <3>2, <4>1 DEF Next
    <3>3. CASE \E z \in Sizes : Refuse(r, Appendable(s, r.index, z))
      BY <2>1, <3>3 DEF Refuse, Next
    <3> QED BY <2>3, <3>2, <3>3 DEF ServePage
  <2>4. CASE ServeDiscard(r)
    BY <2>1, <2>4 DEF ServeDiscard, Refuse, Next
  <2>5. ASSUME NEW h \in Handlers, ServeCommit(h, r) PROVE [Next]_storeVars
    BY <2>1, <2>5 DEF ServeCommit, Refuse, Next
  <2> QED BY <1>1, <2>2, <2>3, <2>4, <2>5 DEF Serve
<1>2. ASSUME NEW h \in Handlers,
             Alone(ReadPage(h)) \/ Alone(Submit(h)) \/ Alone(JobSettles(h)) \/ RouteEnds(h)
      PROVE  [Next]_storeVars
  BY <1>2 DEF Alone, RouteEnds, Next
<1>3. CASE Alone(Reap) \/ Alone(Close) \/ Alone(Tick)
  BY <1>3 DEF Alone, Next
<1>4. ASSUME NEW t \in Tabs, \/ \E j \in Jobs : PrintPages(t, j)
                             \/ CancelPreparation(t) \/ Rerender(t)
      PROVE  UNCHANGED storeVars
  BY <1>4 DEF PrintPages, CancelPreparation, Rerender
<1>5. ASSUME NEW j \in Jobs,
             \/ GotCreation(j) \/ CreationFails(j) \/ RenderPage(j) \/ RenderFails(j)
             \/ GotAck(j) \/ HandOff(j) \/ UploadFails(j) \/ PrintEnds(j)
      PROVE  UNCHANGED storeVars
  BY <1>5 DEF GotCreation, CreationFails, RenderPage, RenderFails, GotAck, HandOff,
              UploadFails, PrintEnds, PageError
<1>6. (\E r \in requests : Lose(r)) \/ UNCHANGED vars => UNCHANGED storeVars
  BY DEF Lose, vars
<1> QED BY <1>1, <1>2, <1>3, <1>4, <1>5, <1>6 DEF PrepNext

\* The editors use the store as its specification allows.
THEOREM PreparationImplementsStore == PrepSpec => Spec
<1>1. PrepInit => Init
  BY DEF PrepInit
<1> QED BY <1>1, StepsOfStore, PreparationCorrect, PTL DEF PrepSpec, Spec

\* So whatever is on its way between the editors and the server, a session is
\* printed at most once and whole, and its pages are readable until it is.
THEOREM PreparedPrintsAreSafe == PrepSpec => [](PrintedWhole /\ LeaseReadable)
BY PreparationImplementsStore, LeasesStayReadable, PrintsAreWholeAndSingle, PTL

-----------------------------------------------------------------------------
(* The renderer and the paper layout.                                       *)
HIDE DEF Jobs
USE RdAssumption DEF RdJobs

LEMMA RdBounds ==
  /\ RdFrames \in Nat /\ RdActive \in Nat /\ RdRequests \in Nat
  /\ 0 \in 0..RdFrames /\ RdFrames \in 0..RdFrames /\ 0 \in 0..RdRequests
  /\ RdJobs \subseteq 0..RdRequests /\ 0 \notin RdJobs
OBVIOUS

\* A job's state field by field.
LEMMA RdFields ==
  ASSUME NEW r \in RdState
  PROVE  /\ r.at \in {"unused", "slot", "lock", "resetting", "starting", "launching", "late",
                      "context", "frames", "closing", "decoding", "over"}
         /\ r.aborted \in BOOLEAN /\ r.slot \in BOOLEAN /\ r.raised \in BOOLEAN
         /\ r.context \in {"none", "open", "closing", "closed", "broken"}
         /\ r.images \in 0..RdFrames /\ r.held \in {"no", "job", "result", "user"}
         /\ r.request \in {"none", "waiting", "closing", "joining", "failed", "answered"}
         /\ r.bad \in BOOLEAN
BY DEF RdState

\* One job changes: what it is then, and what that does to slots and places.
LEMMA RdCountKept ==
  ASSUME RdTypeOK, RdCountInv, NEW j \in RdJobs, NEW r, rdJob' = [rdJob EXCEPT ![j] = r],
         r.slot \in BOOLEAN,
         rdFree' = rdFree + (IF rdJob[j].slot THEN 1 ELSE 0) - (IF r.slot THEN 1 ELSE 0),
         rdCount' = rdCount + (IF r.at \notin {"unused", "over"} THEN 1 ELSE 0)
                            - (IF rdJob[j].at \notin {"unused", "over"} THEN 1 ELSE 0)
  PROVE  RdCountInv'
<1>1. /\ RdSlots' = IF r.slot THEN RdSlots \cup {j} ELSE RdSlots \ {j}
      /\ RdBusy' = IF r.at \notin {"unused", "over"} THEN RdBusy \cup {j} ELSE RdBusy \ {j}
  BY DEF RdTypeOK, RdSlots, RdBusy
<1>2. IsFiniteSet(RdSlots) /\ IsFiniteSet(RdBusy)
  <2>1. IsFiniteSet(RdJobs)
    BY FS_Interval
  <2> QED BY <2>1, FS_Subset DEF RdSlots, RdBusy
<1>3. ASSUME NEW S, IsFiniteSet(S)
      PROVE  /\ Cardinality(S) \in Nat
             /\ j \notin S => Cardinality(S \cup {j}) = Cardinality(S) + 1 /\ S \ {j} = S
             /\ j \in S => Cardinality(S \ {j}) = Cardinality(S) - 1 /\ S \cup {j} = S
  <2>1. Cardinality(S) \in Nat
    BY <1>3, FS_CardinalityType
  <2>2. j \notin S => Cardinality(S \cup {j}) = Cardinality(S) + 1
    BY <1>3, FS_AddElement
  <2>3. j \in S => Cardinality(S \ {j}) = Cardinality(S) - 1
    BY <1>3, FS_RemoveElement
  <2> QED BY <2>1, <2>2, <2>3
<1>4. (j \in RdSlots <=> rdJob[j].slot) /\ (j \in RdBusy <=> rdJob[j].at \notin {"unused", "over"})
  BY DEF RdSlots, RdBusy
<1> DEFINE slots == Cardinality(RdSlots)
           busy == Cardinality(RdBusy)
<1>5. /\ slots \in Nat /\ busy \in Nat /\ rdCount = busy /\ rdFree + slots = RdActive
      /\ rdFree \in Int /\ rdCount \in Int
  <2>1. slots \in Nat /\ busy \in Nat
    BY <1>2, <1>3
  <2>2. rdCount = busy /\ rdFree + slots = RdActive
    BY DEF RdCountInv
  <2>3. rdFree \in Nat /\ rdCount \in Int
    BY DEF RdTypeOK
  <2> HIDE DEF slots, busy
  <2> QED BY <2>1, <2>2, <2>3
<1>6. Cardinality(RdSlots') = slots + (IF r.slot THEN 1 ELSE 0) - (IF rdJob[j].slot THEN 1 ELSE 0)
  <2>1. CASE r.slot /\ ~rdJob[j].slot
    <3>1. RdSlots' = RdSlots \cup {j} /\ j \notin RdSlots
      BY <1>1, <1>4, <2>1
    <3> QED BY <1>2, <1>3, <1>5, <2>1, <3>1
  <2>2. CASE ~r.slot /\ rdJob[j].slot
    <3>1. RdSlots' = RdSlots \ {j} /\ j \in RdSlots
      BY <1>1, <1>4, <2>2
    <3> QED BY <1>2, <1>3, <1>5, <2>2, <3>1
  <2>3. CASE r.slot <=> rdJob[j].slot
    <3>1. RdSlots' = RdSlots
      BY <1>1, <1>4, <2>3
    <3> QED BY <1>5, <2>3, <3>1
  <2> QED BY <2>1, <2>2, <2>3
<1>7. Cardinality(RdBusy') = busy + (IF r.at \notin {"unused", "over"} THEN 1 ELSE 0)
                                  - (IF rdJob[j].at \notin {"unused", "over"} THEN 1 ELSE 0)
  <2>1. CASE (r.at \notin {"unused", "over"}) /\ ~(rdJob[j].at \notin {"unused", "over"})
    <3>1. RdBusy' = RdBusy \cup {j} /\ j \notin RdBusy
      BY <1>1, <1>4, <2>1
    <3> QED BY <1>2, <1>3, <1>5, <2>1, <3>1
  <2>2. CASE ~(r.at \notin {"unused", "over"}) /\ (rdJob[j].at \notin {"unused", "over"})
    <3>1. RdBusy' = RdBusy \ {j} /\ j \in RdBusy
      BY <1>1, <1>4, <2>2
    <3> QED BY <1>2, <1>3, <1>5, <2>2, <3>1
  <2>3. CASE (r.at \notin {"unused", "over"}) <=> (rdJob[j].at \notin {"unused", "over"})
    <3>1. RdBusy' = RdBusy
      BY <1>1, <1>4, <2>3
    <3> QED BY <1>5, <2>3, <3>1
  <2> QED BY <2>1, <2>2, <2>3
<1> HIDE DEF slots, busy
<1>8. rdFree' + Cardinality(RdSlots') = RdActive /\ rdCount' = Cardinality(RdBusy')
  BY <1>5, <1>6, <1>7
<1> QED BY <1>8 DEF RdCountInv

LEMMA RdJobFacts ==
  ASSUME RdInv, NEW j \in RdJobs
  PROVE  rdJob[j] \in RdState /\ RdJobOK(rdJob[j])
BY DEF RdInv, RdTypeOK

\* A step that turns job j into r, with the slots and places it takes or gives
\* back.
RdTurns(j, r) ==
  /\ rdJob' = [rdJob EXCEPT ![j] = r] /\ r \in RdState /\ RdJobOK(r)
  /\ rdFree' = rdFree + (IF rdJob[j].slot THEN 1 ELSE 0) - (IF r.slot THEN 1 ELSE 0)
  /\ rdCount' = rdCount + (IF r.at \notin {"unused", "over"} THEN 1 ELSE 0)
                        - (IF rdJob[j].at \notin {"unused", "over"} THEN 1 ELSE 0)
  /\ rdJob[j].aborted \/ rdJob[j].at = "over" => r.aborted \/ r.at = "over"
  /\ r.at = "unused" => rdJob[j].at = "unused"
  /\ r.slot /\ ~rdJob[j].slot => rdFree > 0
RdNotHanded(j, r) == r.held \notin {"result", "user"} \/ ~(rdJob[j].aborted \/ rdJob[j].at = "over")

\* What such a step leaves of the invariant, when it starts or ends no browser.
LEMMA RdTurnKeeps ==
  ASSUME RdInv, NEW j \in RdJobs, NEW r, RdTurns(j, r),
         r.at \in RdStarting \/ rdJob[j].at \in RdStarting => r.at = rdJob[j].at,
         j \in rdClose.jobs => r.held \notin {"result", "user"},
         rdStopped => (r.at \in {"unused", "over"} \/ rdJob[j].at \notin {"unused", "over"}),
         rdStopped' \in BOOLEAN, rdStopped => rdStopped',
         UNCHANGED <<rdLock, rdBrowser, rdLive, rdLost, rdClose>>
  PROVE  RdInv'
<1> USE DEF RdInv, RdTurns
<1>0. rdFree' \in Nat /\ rdCount' \in Int
  <2>1. rdFree \in Nat /\ rdCount \in Int /\ rdJob[j].slot \in BOOLEAN /\ r.slot \in BOOLEAN
    BY RdFields DEF RdTypeOK
  <2> QED BY <2>1
<1>1. RdTypeOK'
  BY <1>0 DEF RdTypeOK
<1>2. \A k \in RdJobs : RdJobOK(rdJob'[k])
  BY DEF RdTypeOK
<1>3. RdLockInv'
  BY DEF RdLockInv, RdTypeOK, RdStarting
<1>4. RdOwnerInv'
  BY DEF RdOwnerInv, RdTypeOK, RdResource, RdStarting
<1>5. RdCloseInv'
  <2>1. rdClose.at # "idle" => RdBusy' \subseteq RdBusy
    BY DEF RdBusy, RdTypeOK, RdCloseInv
  <2>2. \A k \in rdClose.jobs :
          /\ rdJob'[k].aborted \/ RdDone(k)'
          /\ rdJob'[k].at # "unused" /\ rdJob'[k].held \notin {"result", "user"}
    BY DEF RdDone, RdTypeOK, RdCloseInv
  <2> QED BY <2>1, <2>2 DEF RdCloseInv
<1>6. RdCountInv'
  BY RdCountKept DEF RdState
<1> QED BY <1>1, <1>2, <1>3, <1>4, <1>5, <1>6

\* A job at work, whatever it just made.
RdWorks(j, work) ==
  /\ work \in RdState /\ work.at = rdJob[j].at /\ work.slot = rdJob[j].slot
  /\ work.aborted = rdJob[j].aborted /\ work.request = rdJob[j].request
  /\ work.held \in {"no", "job"}

\* The end of a job: its slot and its place come back, its images are closed
\* unless they are whole and their request still waits.
LEMMA FinishedTurns ==
  ASSUME RdInv, NEW j \in RdJobs, NEW work, NEW handed \in BOOLEAN, RdWorks(j, work),
         rdJob[j].at \notin {"unused", "over"}, work.context \in {"none", "closed", "broken"},
         handed => work.images = RdFrames /\ ~work.aborted,
         RdFinished(j, work, handed)
  PROVE  \E r : RdTurns(j, r) /\ r.at = "over" /\ RdNotHanded(j, r)
<1> DEFINE r == [work EXCEPT !.at = "over", !.slot = FALSE, !.aborted = FALSE, !.raised = FALSE,
                            !.held = IF handed THEN "result" ELSE "no",
                            !.images = IF handed THEN @ ELSE 0]
<1>1. /\ rdJob' = [rdJob EXCEPT ![j] = r]
      /\ rdFree' = IF work.slot THEN rdFree + 1 ELSE rdFree
      /\ rdCount' = rdCount - 1
  BY DEF RdFinished
<1>2. rdJob[j] \in RdState /\ RdJobOK(rdJob[j]) /\ work \in RdState
  BY RdJobFacts DEF RdWorks
<1>3. ASSUME NEW x, x = r
      PROVE  /\ x \in RdState /\ x.at = "over" /\ ~x.slot /\ ~x.aborted /\ x.context = work.context
             /\ x.held = (IF handed THEN "result" ELSE "no")
             /\ handed => x.images = work.images
             /\ x.request = work.request
  <2>1. CASE handed
    <3>1. x = [work EXCEPT !.at = "over", !.slot = FALSE, !.aborted = FALSE, !.raised = FALSE,
                           !.held = "result"]
      BY <1>2, <1>3, <2>1 DEF RdState
    <3> HIDE DEF r
    <3> QED BY <1>2, <2>1, <3>1 DEF RdState
  <2>2. CASE ~handed
    <3>1. x = [work EXCEPT !.at = "over", !.slot = FALSE, !.aborted = FALSE, !.raised = FALSE,
                           !.held = "no", !.images = 0]
      BY <1>2, <1>3, <2>2 DEF RdState
    <3> HIDE DEF r
    <3> QED BY <1>2, <2>2, <3>1, RdBounds DEF RdState
  <2> QED BY <2>1, <2>2
<1> HIDE DEF r
<1>7. /\ r \in RdState /\ r.at = "over" /\ ~r.slot /\ ~r.aborted /\ r.context = work.context
      /\ r.held = (IF handed THEN "result" ELSE "no")
      /\ handed => r.images = work.images
      /\ r.request = work.request
  BY <1>3
<1>8. /\ work.at \notin {"unused", "over"} /\ work.at = rdJob[j].at
      /\ work.aborted = rdJob[j].aborted /\ work.request = rdJob[j].request
  BY DEF RdWorks
<1>9. /\ work.request # "none" /\ work.request # "answered"
      /\ work.request \in {"closing", "joining", "failed"} => work.aborted
      /\ work.request \in {"none", "waiting", "closing", "joining", "failed", "answered"}
  BY <1>2, <1>8 DEF RdJobOK, RdState
<1>4. RdJobOK(r)
  <2>1. CASE handed
    BY <1>7, <1>8, <1>9, <2>1 DEF RdJobOK, RdIdle, RdStarting
  <2>2. CASE ~handed
    BY <1>7, <1>8, <1>9, <2>2 DEF RdJobOK, RdIdle, RdStarting
  <2> QED BY <2>1, <2>2
<1>5. rdFree \in Int /\ rdCount \in Int
  BY DEF RdInv, RdTypeOK
<1>6. RdTurns(j, r) /\ RdNotHanded(j, r)
  BY <1>1, <1>2, <1>3, <1>4, <1>5 DEF RdTurns, RdNotHanded, RdWorks
<1> QED BY <1>3, <1>6

\* An exception: the context, if there is one, is closed first.
LEMMA UnwindsTurns ==
  ASSUME RdInv, NEW j \in RdJobs, NEW work, RdWorks(j, work), work.at \notin RdIdle,
         RdUnwinds(j, work)
  PROVE  \E r : RdTurns(j, r) /\ r.at \in {"closing", "over"} /\ RdNotHanded(j, r)
<1>1. CASE work.context = "none"
  BY <1>1, FinishedTurns DEF RdUnwinds, RdIdle, RdWorks
<1>2. CASE work.context # "none"
  <2> DEFINE ending == RdContextEnding(work)
             r == [ending EXCEPT !.at = "closing", !.raised = TRUE, !.held = "no", !.images = 0]
  <2>1. rdJob' = [rdJob EXCEPT ![j] = r] /\ UNCHANGED <<rdFree, rdCount>>
    BY <1>2 DEF RdUnwinds
  <2>2. rdJob[j] \in RdState /\ RdJobOK(rdJob[j]) /\ work \in RdState
    BY RdJobFacts DEF RdWorks
  <2>3. ASSUME NEW x, x = ending
        PROVE  /\ x \in RdState /\ x.at = work.at /\ x.slot = work.slot /\ x.aborted = work.aborted
               /\ x.request = work.request /\ x.context \in {"closing", "closed", "broken"}
    BY <1>2, <2>2, <2>3 DEF RdState, RdContextEnding
  <2> HIDE DEF ending
  <2>8. /\ ending \in RdState /\ ending.at = work.at /\ ending.slot = work.slot
        /\ ending.aborted = work.aborted /\ ending.request = work.request
        /\ ending.context \in {"closing", "closed", "broken"}
    BY <2>3
  <2>4. ASSUME NEW x, x = r
        PROVE  /\ x \in RdState /\ x.at = "closing" /\ x.raised /\ x.held = "no" /\ x.images = 0
               /\ x.slot = work.slot /\ x.aborted = work.aborted /\ x.request = work.request
               /\ x.context \in {"closing", "closed", "broken"}
    BY <2>8, <2>4, RdBounds DEF RdState
  <2> HIDE DEF r
  <2>5. RdJobOK(r)
    BY <2>2, <2>4 DEF RdJobOK, RdWorks, RdIdle, RdStarting
  <2>6. rdFree \in Int /\ rdCount \in Int
    BY DEF RdInv, RdTypeOK
  <2>7. RdTurns(j, r) /\ RdNotHanded(j, r)
    BY <2>1, <2>2, <2>4, <2>5, <2>6 DEF RdTurns, RdNotHanded, RdWorks, RdIdle
  <2> QED BY <2>4, <2>7
<1> QED BY <1>1, <1>2

\* The next await of a job that may go on.
LEMMA GoesOnTurns ==
  ASSUME RdInv, NEW j \in RdJobs, NEW work, NEW at, RdWorks(j, work), work.at \notin RdIdle,
         at \notin RdIdle, [work EXCEPT !.at = at] \in RdState, RdJobOK([work EXCEPT !.at = at]),
         RdGoesOn(j, work, at)
  PROVE  \E r : RdTurns(j, r) /\ r.at \in {at, "closing", "over"} /\ RdNotHanded(j, r)
<1>1. CASE work.aborted \/ rdStopped
  <2>1. RdUnwinds(j, work)
    BY <1>1 DEF RdGoesOn
  <2> QED BY <2>1, UnwindsTurns
<1>2. CASE ~(work.aborted \/ rdStopped)
  <2> DEFINE r == [work EXCEPT !.at = at]
  <2>1. rdJob' = [rdJob EXCEPT ![j] = r] /\ UNCHANGED <<rdFree, rdCount>>
    BY <1>2 DEF RdGoesOn
  <2>2. rdJob[j] \in RdState /\ RdJobOK(rdJob[j]) /\ work \in RdState
    BY RdJobFacts DEF RdWorks
  <2>3. r \in RdState /\ RdJobOK(r)
    OBVIOUS
  <2>4. /\ r.at = at /\ r.slot = work.slot /\ r.aborted = work.aborted /\ r.held = work.held
    BY <2>2 DEF RdState
  <2> HIDE DEF r
  <2>5. rdFree \in Int /\ rdCount \in Int
    BY DEF RdInv, RdTypeOK
  <2>6. RdTurns(j, r) /\ RdNotHanded(j, r)
    BY <1>2, <2>1, <2>2, <2>3, <2>4, <2>5 DEF RdTurns, RdNotHanded, RdWorks, RdIdle
  <2> QED BY <2>4, <2>6
<1> QED BY <1>1, <1>2

\* A job that is neither new nor the starter keeps the invariant as it turns.
LEMMA RdWorkKeeps ==
  ASSUME RdInv, NEW j \in RdJobs, rdJob[j].at \notin RdStarting \cup {"unused"},
         NEW r, RdTurns(j, r), r.at \notin RdStarting, RdNotHanded(j, r),
         rdJob[j].at = "over" => r.at = "over",
         rdStopped' \in BOOLEAN, rdStopped => rdStopped',
         UNCHANGED <<rdLock, rdBrowser, rdLive, rdLost, rdClose>>
  PROVE  RdInv'
<1>1. j \in rdClose.jobs => rdJob[j].aborted \/ rdJob[j].at = "over"
  BY DEF RdInv, RdCloseInv, RdDone
<1>2. j \in rdClose.jobs => r.held \notin {"result", "user"}
  BY <1>1 DEF RdNotHanded
<1> QED BY <1>2, RdTurnKeeps

-----------------------------------------------------------------------------
LEMMA RdRenderKeeps ==
  ASSUME RdInv, NEW j \in RdJobs, RdRender(j)
  PROVE  RdInv'
<1>1. /\ rdJob[j] \in RdState /\ RdJobOK(rdJob[j]) /\ rdJob[j].at = "unused"
      /\ rdFree \in Int /\ rdCount \in Int /\ rdStopped \in BOOLEAN
  BY RdJobFacts DEF RdRender, RdInv, RdTypeOK
<1>2. /\ ~rdJob[j].slot /\ rdJob[j].context = "none" /\ rdJob[j].held = "no"
      /\ rdJob[j].request = "none"
  BY <1>1 DEF RdJobOK, RdState, RdIdle
<1>3. j \notin rdClose.jobs
  BY <1>1 DEF RdInv, RdCloseInv
<1>4. CASE rdStopped \/ rdCount >= RdAdmitted
  <2> DEFINE r == [rdJob[j] EXCEPT !.at = "over", !.request = "failed"]
  <2>1. rdJob' = [rdJob EXCEPT ![j] = r] /\ UNCHANGED <<rdFree, rdCount>>
    BY <1>4 DEF RdRender
  <2>2. ASSUME NEW x, x = r
        PROVE  /\ x \in RdState /\ x.at = "over" /\ x.request = "failed" /\ x.slot = rdJob[j].slot
               /\ x.context = rdJob[j].context /\ x.held = rdJob[j].held
    BY <1>1, <2>2 DEF RdState
  <2> HIDE DEF r
  <2>3. /\ r \in RdState /\ r.at = "over" /\ r.request = "failed" /\ r.slot = rdJob[j].slot
        /\ r.context = rdJob[j].context /\ r.held = rdJob[j].held
    BY <2>2
  <2>4. RdJobOK(r)
    BY <1>2, <2>3 DEF RdJobOK, RdIdle, RdStarting
  <2>5. RdTurns(j, r)
    BY <1>1, <1>2, <2>1, <2>3, <2>4 DEF RdTurns
  <2> QED BY <1>1, <1>2, <1>3, <2>3, <2>5, RdTurnKeeps DEF RdRender, RdStarting
<1>5. CASE ~(rdStopped \/ rdCount >= RdAdmitted)
  <2> DEFINE r == [rdJob[j] EXCEPT !.at = "slot", !.request = "waiting"]
  <2>1. rdJob' = [rdJob EXCEPT ![j] = r] /\ UNCHANGED rdFree /\ rdCount' = rdCount + 1
    BY <1>5 DEF RdRender
  <2>2. ASSUME NEW x, x = r
        PROVE  /\ x \in RdState /\ x.at = "slot" /\ x.request = "waiting" /\ x.slot = rdJob[j].slot
               /\ x.context = rdJob[j].context /\ x.held = rdJob[j].held
               /\ x.aborted = rdJob[j].aborted
    BY <1>1, <2>2 DEF RdState
  <2> HIDE DEF r
  <2>3. /\ r \in RdState /\ r.at = "slot" /\ r.request = "waiting" /\ r.slot = rdJob[j].slot
        /\ r.context = rdJob[j].context /\ r.held = rdJob[j].held
        /\ r.aborted = rdJob[j].aborted
    BY <2>2
  <2>4. RdJobOK(r)
    BY <1>2, <2>3 DEF RdJobOK, RdIdle, RdStarting
  <2>5. RdTurns(j, r)
    BY <1>1, <1>2, <2>1, <2>3, <2>4 DEF RdTurns
  <2> QED BY <1>1, <1>2, <1>3, <1>5, <2>3, <2>5, RdTurnKeeps DEF RdRender, RdStarting
<1> QED BY <1>4, <1>5

LEMMA RdSlotKeeps ==
  ASSUME RdInv, NEW j \in RdJobs, RdSlot(j)
  PROVE  RdInv'
<1>1. /\ rdJob[j] \in RdState /\ RdJobOK(rdJob[j]) /\ rdJob[j].at = "slot"
      /\ rdFree \in Int /\ rdCount \in Int /\ rdStopped \in BOOLEAN
      /\ UNCHANGED <<rdStopped, rdLock, rdBrowser, rdLive, rdLost, rdClose>>
  BY RdJobFacts DEF RdSlot, RdInv, RdTypeOK
<1>2. RdWorks(j, rdJob[j]) /\ rdJob[j].context = "none" /\ ~rdJob[j].slot
  BY <1>1 DEF RdJobOK, RdState, RdIdle, RdWorks
<1>3. CASE RdFinished(j, rdJob[j], FALSE)
  <2>1. PICK r : RdTurns(j, r) /\ r.at = "over" /\ RdNotHanded(j, r)
    BY <1>1, <1>2, <1>3, FinishedTurns
  <2> QED BY <1>1, <2>1, RdWorkKeeps DEF RdStarting
<1>4. CASE ~RdFinished(j, rdJob[j], FALSE)
  <2> DEFINE r == [rdJob[j] EXCEPT !.at = "lock", !.slot = TRUE]
  <2>1. /\ rdJob' = [rdJob EXCEPT ![j] = r] /\ rdFree' = rdFree - 1 /\ UNCHANGED rdCount
        /\ ~rdJob[j].aborted /\ rdFree > 0
    BY <1>4 DEF RdSlot
  <2>2. ASSUME NEW x, x = r
        PROVE  /\ x \in RdState /\ x.at = "lock" /\ x.slot
               /\ \A f \in {"context", "held", "request", "images", "aborted", "raised"} :
                    x[f] = rdJob[j][f]
    BY <1>1, <2>2 DEF RdState
  <2> HIDE DEF r
  <2>3. /\ r \in RdState /\ r.at = "lock" /\ r.slot /\ r.context = rdJob[j].context
        /\ r.held = rdJob[j].held /\ r.request = rdJob[j].request /\ r.images = rdJob[j].images
        /\ r.aborted = rdJob[j].aborted
    BY <2>2
  <2>4. RdJobOK(r) /\ RdNotHanded(j, r)
    BY <1>1, <1>2, <2>1, <2>3 DEF RdJobOK, RdIdle, RdStarting, RdNotHanded
  <2>5. RdTurns(j, r)
    BY <1>1, <1>2, <2>1, <2>3, <2>4 DEF RdTurns
  <2> QED BY <1>1, <2>3, <2>4, <2>5, RdWorkKeeps DEF RdStarting
<1> QED BY <1>3, <1>4

\* A job that works, up to its context.
LEMMA RdWorker ==
  ASSUME RdInv, NEW j \in RdJobs, rdJob[j].at \notin RdIdle
  PROVE  /\ rdJob[j] \in RdState /\ RdJobOK(rdJob[j]) /\ RdWorks(j, rdJob[j])
         /\ rdFree \in Int /\ rdCount \in Int /\ rdStopped \in BOOLEAN
BY RdJobFacts DEF RdInv, RdTypeOK, RdWorks, RdJobOK, RdState, RdIdle

\* An exception anywhere but while the browser is started.
LEMMA RdUnwindsKeeps ==
  ASSUME RdInv, NEW j \in RdJobs, rdJob[j].at \notin RdIdle \cup RdStarting,
         RdUnwinds(j, rdJob[j]), rdStopped' \in BOOLEAN, rdStopped => rdStopped',
         UNCHANGED <<rdLock, rdBrowser, rdLive, rdLost, rdClose>>
  PROVE  RdInv'
<1>1. RdWorks(j, rdJob[j])
  BY RdWorker
<1>2. PICK r : RdTurns(j, r) /\ r.at \in {"closing", "over"} /\ RdNotHanded(j, r)
  BY <1>1, UnwindsTurns
<1> QED BY <1>2, RdWorkKeeps DEF RdStarting, RdIdle

\* The next await, anywhere but while the browser is started.
LEMMA RdGoesOnKeeps ==
  ASSUME RdInv, NEW j \in RdJobs, rdJob[j].at \notin RdIdle \cup RdStarting,
         NEW work, RdWorks(j, work), NEW at, at \notin RdIdle \cup RdStarting,
         [work EXCEPT !.at = at] \in RdState, RdJobOK([work EXCEPT !.at = at]),
         RdGoesOn(j, work, at), rdStopped' \in BOOLEAN, rdStopped => rdStopped',
         UNCHANGED <<rdLock, rdBrowser, rdLive, rdLost, rdClose>>
  PROVE  RdInv'
<1>1. PICK r : RdTurns(j, r) /\ r.at \in {at, "closing", "over"} /\ RdNotHanded(j, r)
  BY GoesOnTurns DEF RdWorks
<1> QED BY <1>1, RdWorkKeeps DEF RdStarting, RdIdle

LEMMA RdContextKeeps ==
  ASSUME RdInv, NEW j \in RdJobs, RdContext(j)
  PROVE  RdInv'
<1>1. /\ rdJob[j].at = "context" /\ rdJob[j].at \notin RdIdle \cup RdStarting
      /\ UNCHANGED <<rdStopped, rdLock, rdBrowser, rdLive, rdLost, rdClose>>
  BY DEF RdContext, RdIdle, RdStarting
<1>2. /\ rdJob[j] \in RdState /\ RdJobOK(rdJob[j]) /\ RdWorks(j, rdJob[j])
      /\ rdStopped \in BOOLEAN
  BY <1>1, RdWorker
<1>3. CASE RdUnwinds(j, rdJob[j])
  BY <1>1, <1>2, <1>3, RdUnwindsKeeps
<1>4. CASE ~RdUnwinds(j, rdJob[j])
  <2> DEFINE work == [rdJob[j] EXCEPT !.context = "open"]
             r == [work EXCEPT !.at = "frames"]
  <2>1. RdGoesOn(j, work, "frames")
    BY <1>4 DEF RdContext
  <2>2. ASSUME NEW x, x = work
        PROVE  /\ x \in RdState /\ x.context = "open"
               /\ \A f \in {"at", "slot", "aborted", "request", "held", "images"} : x[f] = rdJob[j][f]
    BY <1>2, <2>2 DEF RdState
  <2> HIDE DEF work
  <2>3. /\ work \in RdState /\ work.context = "open" /\ work.at = rdJob[j].at
        /\ work.slot = rdJob[j].slot /\ work.aborted = rdJob[j].aborted
        /\ work.request = rdJob[j].request /\ work.held = rdJob[j].held
        /\ work.images = rdJob[j].images
    BY <2>2
  <2>4. RdWorks(j, work)
    BY <1>2, <2>3 DEF RdWorks
  <2>5. ASSUME NEW x, x = r
        PROVE  /\ x \in RdState /\ x.at = "frames"
               /\ \A f \in {"context", "slot", "aborted", "request", "held", "images"} : x[f] = work[f]
    BY <2>3, <2>5 DEF RdState
  <2> HIDE DEF r
  <2>6. /\ r \in RdState /\ r.at = "frames" /\ r.context = "open" /\ r.slot = work.slot
        /\ r.aborted = work.aborted /\ r.request = work.request /\ r.held = work.held
        /\ r.images = work.images
    BY <2>3, <2>5
  <2>7. RdJobOK(r)
    BY <1>1, <1>2, <2>3, <2>6 DEF RdJobOK, RdIdle, RdStarting
  <2> USE DEF r
  <2>8. [work EXCEPT !.at = "frames"] \in RdState /\ RdJobOK([work EXCEPT !.at = "frames"])
    BY <2>6, <2>7
  <2>9. "frames" \notin RdIdle \cup RdStarting
    BY DEF RdIdle, RdStarting
  <2> QED BY <1>1, <1>2, <2>1, <2>4, <2>8, <2>9, RdGoesOnKeeps
<1> QED BY <1>3, <1>4

LEMMA RdPageFailsKeeps ==
  ASSUME RdInv, NEW j \in RdJobs, RdPageFails(j)
  PROVE  RdInv'
<1>1. /\ rdJob[j].at = "frames" /\ rdJob[j].at \notin RdIdle \cup RdStarting
      /\ RdUnwinds(j, rdJob[j])
      /\ UNCHANGED <<rdStopped, rdLock, rdBrowser, rdLive, rdLost, rdClose>>
  BY DEF RdPageFails, RdIdle, RdStarting
<1>2. rdStopped \in BOOLEAN
  BY <1>1, RdWorker
<1> QED BY <1>1, <1>2, RdUnwindsKeeps

LEMMA RdFrameKeeps ==
  ASSUME RdInv, NEW j \in RdJobs, RdFrame(j)
  PROVE  RdInv'
<1>1. /\ rdJob[j].at = "frames" /\ rdJob[j].at \notin RdIdle \cup RdStarting
      /\ UNCHANGED <<rdStopped, rdLock, rdBrowser, rdLive, rdLost, rdClose>>
      /\ rdJob[j].context = "open"
  BY DEF RdFrame, RdIdle, RdStarting, RdUsable
<1>2. /\ rdJob[j] \in RdState /\ RdJobOK(rdJob[j]) /\ RdWorks(j, rdJob[j])
      /\ rdFree \in Int /\ rdCount \in Int /\ rdStopped \in BOOLEAN
  BY <1>1, RdWorker
<1>3. CASE RdUnwinds(j, rdJob[j])
  BY <1>1, <1>2, <1>3, RdUnwindsKeeps
<1>4. CASE /\ rdJob[j].images < RdFrames
           /\ RdGoesOn(j, [rdJob[j] EXCEPT !.images = @ + 1, !.held = "job"], "frames")
  <2> DEFINE work == [rdJob[j] EXCEPT !.images = @ + 1, !.held = "job"]
             r == [work EXCEPT !.at = "frames"]
  <2>1. rdJob[j].images + 1 \in 0..RdFrames
    BY <1>2, <1>4, RdFields, RdBounds
  <2>2. ASSUME NEW x, x = work
        PROVE  /\ x \in RdState /\ x.held = "job"
               /\ \A f \in {"at", "slot", "aborted", "request", "context"} : x[f] = rdJob[j][f]
    BY <1>2, <2>1, <2>2 DEF RdState
  <2> HIDE DEF work
  <2>3. /\ work \in RdState /\ work.held = "job" /\ work.at = rdJob[j].at
        /\ work.slot = rdJob[j].slot /\ work.aborted = rdJob[j].aborted
        /\ work.request = rdJob[j].request /\ work.context = rdJob[j].context
    BY <2>2
  <2>4. RdWorks(j, work)
    BY <1>2, <2>3 DEF RdWorks
  <2>5. ASSUME NEW x, x = r
        PROVE  /\ x \in RdState /\ x.at = "frames"
               /\ \A f \in {"context", "slot", "aborted", "request", "held"} : x[f] = work[f]
    BY <2>3, <2>5 DEF RdState
  <2> HIDE DEF r
  <2>6. /\ r \in RdState /\ r.at = "frames" /\ r.context = work.context /\ r.slot = work.slot
        /\ r.aborted = work.aborted /\ r.request = work.request /\ r.held = work.held
    BY <2>3, <2>5
  <2>7. RdJobOK(r)
    BY <1>1, <1>2, <2>3, <2>6 DEF RdJobOK, RdIdle, RdStarting
  <2> USE DEF r
  <2>8. [work EXCEPT !.at = "frames"] \in RdState /\ RdJobOK([work EXCEPT !.at = "frames"])
    BY <2>6, <2>7
  <2>9. "frames" \notin RdIdle \cup RdStarting
    BY DEF RdIdle, RdStarting
  <2>10. RdGoesOn(j, work, "frames")
    BY <1>4 DEF work
  <2> QED BY <1>1, <1>2, <2>4, <2>8, <2>9, <2>10, RdGoesOnKeeps
<1>5. CASE /\ rdJob[j].images \in {0, RdFrames} /\ ~rdJob[j].aborted /\ ~rdStopped
           /\ rdJob' = [rdJob EXCEPT ![j] = [RdContextEnding(@) EXCEPT !.at = "closing"]]
           /\ UNCHANGED <<rdFree, rdCount>>
  <2> DEFINE ending == RdContextEnding(rdJob[j])
             r == [ending EXCEPT !.at = "closing"]
  <2>1. rdJob' = [rdJob EXCEPT ![j] = r]
    BY <1>5, <1>2
  <2>2. ASSUME NEW x, x = ending
        PROVE  /\ x \in RdState /\ x.context = "closing"
               /\ \A f \in {"at", "slot", "aborted", "request", "held", "images"} : x[f] = rdJob[j][f]
    BY <1>1, <1>2, <2>2 DEF RdState, RdContextEnding
  <2> HIDE DEF ending
  <2>3. /\ ending \in RdState /\ ending.context = "closing"
        /\ ending.slot = rdJob[j].slot /\ ending.aborted = rdJob[j].aborted
        /\ ending.request = rdJob[j].request /\ ending.held = rdJob[j].held
        /\ ending.images = rdJob[j].images
    BY <2>2
  <2>4. ASSUME NEW x, x = r
        PROVE  /\ x \in RdState /\ x.at = "closing"
               /\ \A f \in {"context", "slot", "aborted", "request", "held", "images"} : x[f] = ending[f]
    BY <2>3, <2>4 DEF RdState
  <2> HIDE DEF r
  <2>5. /\ r \in RdState /\ r.at = "closing" /\ r.context = "closing" /\ r.slot = rdJob[j].slot
        /\ r.aborted = rdJob[j].aborted /\ r.request = rdJob[j].request /\ r.held = rdJob[j].held
        /\ r.images = rdJob[j].images
    BY <2>3, <2>4
  <2>6. RdJobOK(r)
    BY <1>1, <1>2, <1>5, <2>5 DEF RdJobOK, RdIdle, RdStarting
  <2>8. ~rdJob[j].aborted /\ rdJob[j].images \in {0, RdFrames} /\ UNCHANGED <<rdFree, rdCount>>
    BY <1>5
  <2>7. RdTurns(j, r) /\ RdNotHanded(j, r)
    BY <1>1, <1>2, <2>1, <2>5, <2>6, <2>8 DEF RdTurns, RdNotHanded
  <2> QED BY <1>1, <1>2, <2>5, <2>7, RdWorkKeeps DEF RdStarting
<1> QED BY <1>3, <1>4, <1>5 DEF RdFrame

LEMMA RdContextClosesKeeps ==
  ASSUME RdInv, NEW j \in RdJobs, RdContextCloses(j)
  PROVE  RdInv'
<1>1. /\ rdJob[j].context = "closing"
      /\ UNCHANGED <<rdStopped, rdCount, rdFree, rdLock, rdBrowser, rdLive, rdLost, rdClose>>
      /\ rdJob[j] \in RdState /\ RdJobOK(rdJob[j])
      /\ rdFree \in Int /\ rdCount \in Int /\ rdStopped \in BOOLEAN
  BY RdJobFacts DEF RdContextCloses, RdInv, RdTypeOK
<1>2. rdJob[j].at \in {"frames", "closing"} /\ rdJob[j].at \notin RdStarting
  BY <1>1 DEF RdJobOK, RdState, RdStarting
<1>3. PICK c \in {"closed", "broken"} : rdJob' = [rdJob EXCEPT ![j].context = c]
  BY DEF RdContextCloses
<1> DEFINE r == [rdJob[j] EXCEPT !.context = c]
<1>4. rdJob' = [rdJob EXCEPT ![j] = r]
  BY <1>3
<1>5. ASSUME NEW x, x = r
      PROVE  /\ x \in RdState /\ x.context = c
             /\ \A f \in {"at", "slot", "aborted", "request", "held", "images", "raised"} :
                  x[f] = rdJob[j][f]
  BY <1>1, <1>5 DEF RdState
<1> HIDE DEF r
<1>6. /\ r \in RdState /\ r.context = c /\ r.at = rdJob[j].at /\ r.slot = rdJob[j].slot
      /\ r.aborted = rdJob[j].aborted /\ r.request = rdJob[j].request
      /\ r.held = rdJob[j].held /\ r.images = rdJob[j].images /\ r.raised = rdJob[j].raised
  BY <1>5
<1>7. RdJobOK(r)
  BY <1>1, <1>2, <1>6 DEF RdJobOK, RdIdle, RdStarting
<1>8. RdTurns(j, r) /\ RdNotHanded(j, r)
  BY <1>1, <1>2, <1>4, <1>6, <1>7 DEF RdTurns, RdNotHanded, RdJobOK
<1> QED BY <1>1, <1>2, <1>6, <1>8, RdWorkKeeps DEF RdStarting

\* The images are handed over whole, to a request that still waits.
LEMMA RdHandsOverKeeps ==
  ASSUME RdInv, NEW j \in RdJobs, rdJob[j].at \in {"closing", "decoding"},
         rdJob[j].context \in {"closed", "broken"}, rdJob[j].images \in {0, RdFrames},
         NEW ended \in BOOLEAN, RdHandsOver(j, ended),
         rdStopped' \in BOOLEAN, rdStopped => rdStopped',
         UNCHANGED <<rdLock, rdBrowser, rdLive, rdLost, rdClose>>
  PROVE  RdInv'
<1>1. /\ rdJob[j] \in RdState /\ RdJobOK(rdJob[j]) /\ RdWorks(j, rdJob[j])
      /\ rdJob[j].at \notin RdStarting
  BY RdWorker DEF RdIdle, RdStarting
<1> DEFINE work == [rdJob[j] EXCEPT !.images = IF @ = 0 THEN RdFrames ELSE @]
           handed == ~rdJob[j].aborted /\ ~ended
<1>2. RdFinished(j, work, handed)
  BY DEF RdHandsOver
<1>3. ASSUME NEW x, x = work
      PROVE  /\ x \in RdState /\ x.images = RdFrames
             /\ \A f \in {"at", "slot", "aborted", "request", "held", "context"} :
                  x[f] = rdJob[j][f]
  <2>1. x = [rdJob[j] EXCEPT !.images = RdFrames]
    BY <1>1, <1>3 DEF RdState
  <2> HIDE DEF work
  <2> QED BY <1>1, <2>1, RdBounds DEF RdState
<1> HIDE DEF work
<1>4. /\ work \in RdState /\ work.images = RdFrames /\ work.at = rdJob[j].at
      /\ work.slot = rdJob[j].slot /\ work.aborted = rdJob[j].aborted
      /\ work.request = rdJob[j].request /\ work.held = rdJob[j].held
      /\ work.context = rdJob[j].context
  BY <1>3
<1>5. RdWorks(j, work) /\ (handed => ~work.aborted)
  BY <1>1, <1>4 DEF RdWorks
<1>6. handed \in BOOLEAN
  OBVIOUS
<1> HIDE DEF handed
<1>7. PICK r : RdTurns(j, r) /\ r.at = "over" /\ RdNotHanded(j, r)
  BY <1>2, <1>4, <1>5, <1>6, FinishedTurns
<1> QED BY <1>1, <1>7, RdWorkKeeps DEF RdStarting

LEMMA RdClosedKeeps ==
  ASSUME RdInv, NEW j \in RdJobs, RdClosed(j)
  PROVE  RdInv'
<1>1. /\ rdJob[j].at = "closing" /\ rdJob[j].context \in {"closed", "broken"}
      /\ rdStopped' = (rdStopped \/ rdJob[j].context = "broken")
      /\ UNCHANGED <<rdLock, rdBrowser, rdLive, rdLost, rdClose>>
      /\ rdJob[j].at \notin RdIdle \cup RdStarting
  BY DEF RdClosed, RdIdle, RdStarting
<1>2. /\ rdJob[j] \in RdState /\ RdJobOK(rdJob[j]) /\ RdWorks(j, rdJob[j])
      /\ rdFree \in Int /\ rdCount \in Int /\ rdStopped \in BOOLEAN
  BY <1>1, RdWorker
<1>3. rdStopped' \in BOOLEAN /\ (rdStopped => rdStopped')
  BY <1>1, <1>2
<1>4. CASE rdJob[j].raised \/ rdStopped'
  <2>1. RdFinished(j, rdJob[j], FALSE)
    BY <1>4 DEF RdClosed
  <2>2. PICK r : RdTurns(j, r) /\ r.at = "over" /\ RdNotHanded(j, r)
    BY <1>1, <1>2, <2>1, FinishedTurns DEF RdIdle
  <2> QED BY <1>1, <1>3, <2>2, RdWorkKeeps DEF RdStarting, RdIdle
<1>5. CASE ~rdJob[j].raised /\ ~rdStopped' /\ rdJob[j].images = 0 /\ ~rdJob[j].aborted
  <2> DEFINE r == [rdJob[j] EXCEPT !.at = "decoding"]
  <2>1. rdJob' = [rdJob EXCEPT ![j] = r] /\ UNCHANGED <<rdFree, rdCount>>
    BY <1>5 DEF RdClosed
  <2>2. ASSUME NEW x, x = r
        PROVE  /\ x \in RdState /\ x.at = "decoding"
               /\ \A f \in {"context", "slot", "aborted", "request", "held", "images"} :
                    x[f] = rdJob[j][f]
    BY <1>2, <2>2 DEF RdState
  <2> HIDE DEF r
  <2>3. /\ r \in RdState /\ r.at = "decoding" /\ r.context = rdJob[j].context
        /\ r.slot = rdJob[j].slot /\ r.aborted = rdJob[j].aborted
        /\ r.request = rdJob[j].request /\ r.held = rdJob[j].held /\ r.images = rdJob[j].images
    BY <2>2
  <2>4. RdJobOK(r)
    BY <1>1, <1>2, <1>5, <2>3 DEF RdJobOK, RdIdle, RdStarting
  <2>5. RdTurns(j, r) /\ RdNotHanded(j, r)
    BY <1>1, <1>2, <1>5, <2>1, <2>3, <2>4 DEF RdTurns, RdNotHanded
  <2> QED BY <1>1, <1>3, <2>3, <2>5, RdWorkKeeps DEF RdStarting, RdIdle
<1>6. CASE ~rdJob[j].raised /\ ~rdStopped' /\ ~(rdJob[j].images = 0 /\ ~rdJob[j].aborted)
  <2>1. RdHandsOver(j, rdStopped') /\ rdJob[j].images \in {0, RdFrames}
    BY <1>1, <1>2, <1>6 DEF RdClosed, RdJobOK
  <2> QED BY <1>1, <1>3, <2>1, RdHandsOverKeeps
<1> QED BY <1>4, <1>5, <1>6

LEMMA RdDecodedKeeps ==
  ASSUME RdInv, NEW j \in RdJobs, RdDecoded(j)
  PROVE  RdInv'
<1>1. /\ rdJob[j].at = "decoding" /\ RdHandsOver(j, rdStopped)
      /\ UNCHANGED <<rdStopped, rdLock, rdBrowser, rdLive, rdLost, rdClose>>
  BY DEF RdDecoded
<1>2. rdJob[j].context \in {"closed", "broken"} /\ rdJob[j].images = 0 /\ rdStopped \in BOOLEAN
  BY <1>1, RdJobFacts DEF RdJobOK, RdInv, RdTypeOK
<1> QED BY <1>1, <1>2, RdHandsOverKeeps

-----------------------------------------------------------------------------
\* What a step of the job that starts the browser leaves of the invariant; the
\* rest says whose the browser is.
LEMMA RdTurnJobs ==
  ASSUME RdInv, NEW j \in RdJobs, NEW r, RdTurns(j, r), rdJob[j].at \notin RdIdle,
         RdNotHanded(j, r),
         rdStopped' \in BOOLEAN, rdStopped => rdStopped', UNCHANGED rdClose,
         rdLock' \in 0..RdRequests, rdLive' \subseteq RdResource, rdLost' \subseteq RdResource,
         rdBrowser' \in [browser : 0..RdRequests, driver : 0..RdRequests],
         rdStopped => rdBrowser'.browser \in {0, rdBrowser.browser}
                        /\ rdBrowser'.driver \in {0, rdBrowser.driver}
  PROVE  RdTypeOK' /\ (\A k \in RdJobs : RdJobOK(rdJob'[k])) /\ RdCloseInv' /\ RdCountInv'
<1> USE DEF RdInv, RdTurns
<1>0. rdFree' \in Nat /\ rdCount' \in Int
  <2>1. rdFree \in Nat /\ rdCount \in Int /\ rdJob[j].slot \in BOOLEAN /\ r.slot \in BOOLEAN
    BY RdFields DEF RdTypeOK
  <2> QED BY <2>1
<1>1. RdTypeOK'
  BY <1>0 DEF RdTypeOK
<1>2. \A k \in RdJobs : RdJobOK(rdJob'[k])
  BY DEF RdTypeOK
<1>3. RdCloseInv'
  <2>1. RdBusy' \subseteq RdBusy
    BY DEF RdBusy, RdTypeOK, RdIdle
  <2>2. \A k \in rdClose.jobs :
          /\ rdJob'[k].aborted \/ RdDone(k)'
          /\ rdJob'[k].at # "unused" /\ rdJob'[k].held \notin {"result", "user"}
    BY DEF RdDone, RdTypeOK, RdCloseInv, RdIdle, RdNotHanded
  <2>3. rdClose.at \in {"browser", "driver", "closed"} =>
          rdBrowser'.browser = 0 /\ rdBrowser'.driver = 0
    BY DEF RdCloseInv
  <2> QED BY <2>1, <2>2, <2>3 DEF RdCloseInv
<1>4. RdCountInv'
  BY RdCountKept DEF RdState
<1> QED BY <1>1, <1>2, <1>3, <1>4

\* A job on its way to a browser.
LEMMA RdMoves ==
  ASSUME RdInv, NEW j \in RdJobs, rdJob[j].at \in RdStarting \cup {"lock"}, NEW a \in RdStarting,
         rdJob' = [rdJob EXCEPT ![j].at = a], UNCHANGED <<rdFree, rdCount>>
  PROVE  \E r : RdTurns(j, r) /\ RdNotHanded(j, r) /\ r.at = a
<1> DEFINE r == [rdJob[j] EXCEPT !.at = a]
<1>1. /\ rdJob[j] \in RdState /\ RdJobOK(rdJob[j]) /\ rdFree \in Int /\ rdCount \in Int
      /\ rdJob[j].at \notin RdIdle /\ a \notin RdIdle
  BY RdWorker DEF RdStarting, RdIdle
<1>2. rdJob' = [rdJob EXCEPT ![j] = r]
  OBVIOUS
<1>3. ASSUME NEW x, x = r
      PROVE  /\ x \in RdState /\ x.at = a
             /\ \A f \in {"context", "slot", "aborted", "request", "held", "images"} :
                  x[f] = rdJob[j][f]
  BY <1>1, <1>3 DEF RdState, RdStarting
<1> HIDE DEF r
<1>4. /\ r \in RdState /\ r.at = a /\ r.context = rdJob[j].context
      /\ r.slot = rdJob[j].slot /\ r.aborted = rdJob[j].aborted
      /\ r.request = rdJob[j].request /\ r.held = rdJob[j].held
  BY <1>3
<1>5. RdJobOK(r)
  BY <1>1, <1>4 DEF RdJobOK, RdIdle, RdStarting
<1>6. RdTurns(j, r) /\ RdNotHanded(j, r)
  <2>1. /\ rdJob[j].held \in {"no", "job"} /\ rdJob[j].at \notin {"unused", "over"}
        /\ r.at \notin {"unused", "over"} /\ UNCHANGED <<rdFree, rdCount>>
    BY <1>1, <1>4, RdWorker DEF RdWorks, RdIdle
  <2>2. RdTurns(j, r)
    <3>1. rdFree' = rdFree + (IF rdJob[j].slot THEN 1 ELSE 0) - (IF r.slot THEN 1 ELSE 0)
      BY <1>1, <1>4, <2>1
    <3>2. rdCount' = rdCount + (IF r.at \notin {"unused", "over"} THEN 1 ELSE 0)
                            - (IF rdJob[j].at \notin {"unused", "over"} THEN 1 ELSE 0)
      BY <1>1, <2>1
    <3> QED BY <1>2, <1>4, <1>5, <2>1, <3>1, <3>2 DEF RdTurns
  <2> QED BY <1>4, <2>1, <2>2 DEF RdNotHanded
<1> QED BY <1>4, <1>6

LEMMA RdStarterUnwinds ==
  ASSUME RdInv, NEW j \in RdJobs, rdJob[j].at \in RdStarting, RdUnwinds(j, rdJob[j])
  PROVE  \E r : RdTurns(j, r) /\ RdNotHanded(j, r) /\ r.at \notin RdStarting
<1>1. rdJob[j].at \notin RdIdle
  BY DEF RdStarting, RdIdle
<1>2. RdWorks(j, rdJob[j])
  BY <1>1, RdWorker
<1>3. PICK r : RdTurns(j, r) /\ r.at \in {"closing", "over"} /\ RdNotHanded(j, r)
  BY <1>1, <1>2, UnwindsTurns
<1>4. r.at \notin RdStarting
  BY <1>3 DEF RdStarting
<1> QED BY <1>3, <1>4

\* Only the job that holds the lock starts or ends a browser.
LEMMA RdStarter ==
  ASSUME RdInv, NEW j \in RdJobs, NEW r, RdTurns(j, r)
  PROVE  /\ rdJob'[j] = r /\ \A k \in RdJobs : k # j => rdJob'[k] = rdJob[k]
         /\ rdJob[j].at \in RdStarting =>
              rdLock = j /\ \A k \in RdJobs : k # j => rdJob[k].at \notin RdStarting
         /\ rdLock = 0 => \A k \in RdJobs : rdJob[k].at \notin RdStarting
<1>1. DOMAIN rdJob = RdJobs /\ RdLockInv
  BY DEF RdInv, RdTypeOK
<1>2. rdJob'[j] = r /\ \A k \in RdJobs : k # j => rdJob'[k] = rdJob[k]
  BY <1>1 DEF RdTurns
<1>3. \A k \in RdJobs : rdJob[k].at \in RdStarting => rdLock = k
  BY <1>1 DEF RdLockInv
<1>4. \A k \in RdJobs : k # 0
  BY DEF RdJobs
<1>5. rdLock = 0 => \A k \in RdJobs : rdJob[k].at \notin RdStarting
  BY <1>3, <1>4
<1> QED BY <1>2, <1>3, <1>5

LEMMA RdEnsureKeeps ==
  ASSUME RdInv, NEW j \in RdJobs, RdEnsure(j)
  PROVE  RdInv'
<1>1. /\ rdJob[j].at = "lock" /\ rdJob[j].at \notin RdIdle \cup RdStarting /\ rdLock = 0
      /\ UNCHANGED <<rdStopped, rdBrowser, rdLive, rdCrashed, rdLost, rdClose, rdLeft>>
  BY DEF RdEnsure, RdIdle, RdStarting
<1>2. /\ rdJob[j] \in RdState /\ RdJobOK(rdJob[j]) /\ RdWorks(j, rdJob[j])
      /\ rdFree \in Int /\ rdCount \in Int /\ rdStopped \in BOOLEAN
  BY <1>1, RdWorker
<1>3. CASE rdStopped
  BY <1>1, <1>2, <1>3, RdUnwindsKeeps DEF RdEnsure
<1>4. CASE ~rdStopped /\ RdConnected
  <2> DEFINE r == [rdJob[j] EXCEPT !.at = "context"]
  <2>1. ASSUME NEW x, x = r
        PROVE  /\ x \in RdState /\ x.at = "context"
               /\ \A f \in {"context", "slot", "aborted", "request", "held", "images"} :
                    x[f] = rdJob[j][f]
    BY <1>2, <2>1 DEF RdState
  <2> HIDE DEF r
  <2>2. /\ r \in RdState /\ r.at = "context" /\ r.context = rdJob[j].context
        /\ r.slot = rdJob[j].slot /\ r.aborted = rdJob[j].aborted
        /\ r.request = rdJob[j].request /\ r.held = rdJob[j].held
    BY <2>1
  <2>3. RdJobOK(r)
    BY <1>1, <1>2, <2>2 DEF RdJobOK, RdIdle, RdStarting
  <2> USE DEF r
  <2>4. [rdJob[j] EXCEPT !.at = "context"] \in RdState /\ RdJobOK([rdJob[j] EXCEPT !.at = "context"])
    BY <2>2, <2>3
  <2>5. RdGoesOn(j, rdJob[j], "context") /\ UNCHANGED rdLock
    BY <1>4 DEF RdEnsure
  <2>6. "context" \notin RdIdle \cup RdStarting
    BY DEF RdIdle, RdStarting
  <2> QED BY <1>1, <1>2, <2>4, <2>5, <2>6, RdGoesOnKeeps
<1>5. CASE ~rdStopped /\ ~RdConnected
  <2>1. PICK a \in {"starting", "resetting"} :
          /\ rdJob' = [rdJob EXCEPT ![j].at = a] /\ rdLock' = j /\ UNCHANGED <<rdFree, rdCount>>
          /\ a = "starting" => rdBrowser.browser = 0
    BY <1>5 DEF RdEnsure
  <2>2. PICK r : RdTurns(j, r) /\ RdNotHanded(j, r) /\ r.at = a
    <3>1. a \in RdStarting /\ rdJob[j].at \in RdStarting \cup {"lock"}
      BY <1>1 DEF RdStarting
    <3> QED BY <2>1, <3>1, RdMoves
  <2>3. RdTypeOK' /\ (\A k \in RdJobs : RdJobOK(rdJob'[k])) /\ RdCloseInv' /\ RdCountInv'
    <3>1. rdLock' \in 0..RdRequests
      BY <2>1, RdBounds
    <3> QED BY <1>1, <1>2, <2>2, <3>1, RdTurnJobs DEF RdInv, RdTypeOK
  <2>4. RdLockInv'
    <3>1. /\ rdJob'[j] = r /\ \A k \in RdJobs : k # j => rdJob'[k] = rdJob[k]
          /\ \A k \in RdJobs : rdJob[k].at \notin RdStarting
      BY <1>1, <2>2, RdStarter
    <3>2. \A k \in RdJobs : rdJob'[k].at \in RdStarting <=> rdLock' = k
      BY <2>1, <2>2, <3>1 DEF RdStarting
    <3> QED BY <1>1, <1>5, <2>1, <2>2, <3>1, <3>2 DEF RdInv, RdLockInv, RdStarting
  <2>5. RdOwnerInv'
    <3>1. /\ rdJob'[j] = r /\ \A k \in RdJobs : k # j => rdJob'[k] = rdJob[k]
          /\ \A k \in RdJobs : rdJob[k].at \notin RdStarting
      BY <1>1, <2>2, RdStarter
    <3> QED BY <1>1, <3>1 DEF RdInv, RdOwnerInv, RdTypeOK, RdResource, RdStarting
  <2> QED BY <2>3, <2>4, <2>5 DEF RdInv
<1> QED BY <1>3, <1>4, <1>5

LEMMA RdResetKeeps ==
  ASSUME RdInv, NEW j \in RdJobs, RdReset(j)
  PROVE  RdInv'
<1> DEFINE known == rdBrowser.browser
<1>1. PICK done \in SUBSET {"browser", "driver"} :
        /\ rdBrowser' = [w \in {"browser", "driver"} |-> IF w \in done THEN 0 ELSE rdBrowser[w]]
        /\ rdLive' = rdLive \ {[what |-> w, of |-> known] : w \in done}
        /\ IF done = {"browser", "driver"}
           THEN /\ rdJob' = [rdJob EXCEPT ![j].at = "starting"]
                /\ UNCHANGED <<rdStopped, rdLock, rdFree, rdCount, rdLeft>>
           ELSE /\ RdUnwinds(j, rdJob[j]) /\ rdStopped' = TRUE /\ rdLock' = 0 /\ RdFails
  BY DEF RdReset
<1>2. /\ rdJob[j].at = "resetting" /\ rdJob[j].at \in RdStarting /\ rdJob[j].at \notin RdIdle
      /\ UNCHANGED <<rdCrashed, rdLost, rdClose>>
      /\ rdStopped \in BOOLEAN /\ rdBrowser \in [browser : 0..RdRequests, driver : 0..RdRequests]
      /\ rdLock = j /\ rdLive \subseteq RdResource /\ rdLost \subseteq RdResource
  BY DEF RdReset, RdStarting, RdIdle, RdInv, RdTypeOK, RdLockInv
<1>3. PICK r : /\ RdTurns(j, r) /\ RdNotHanded(j, r)
               /\ IF done = {"browser", "driver"} THEN r.at = "starting" ELSE r.at \notin RdStarting
  <2>1. CASE done = {"browser", "driver"}
    <3>1. "starting" \in RdStarting
      BY DEF RdStarting
    <3> QED BY <1>1, <1>2, <2>1, <3>1, RdMoves
  <2>2. CASE done # {"browser", "driver"}
    BY <1>1, <1>2, <2>2, RdStarterUnwinds
  <2> QED BY <2>1, <2>2
<1>4. /\ rdBrowser' \in [browser : 0..RdRequests, driver : 0..RdRequests]
      /\ rdBrowser'.browser = (IF "browser" \in done THEN 0 ELSE rdBrowser.browser)
      /\ rdBrowser'.driver = (IF "driver" \in done THEN 0 ELSE rdBrowser.driver)
      /\ rdLive' \subseteq rdLive
  BY <1>1, <1>2, RdBounds
<1>5. /\ rdLock' = (IF done = {"browser", "driver"} THEN j ELSE 0)
      /\ rdStopped' \in BOOLEAN /\ (rdStopped => rdStopped')
      /\ done # {"browser", "driver"} => rdStopped'
  BY <1>1, <1>2
<1>6. /\ rdJob'[j] = r /\ \A k \in RdJobs : k # j => rdJob'[k] = rdJob[k]
      /\ \A k \in RdJobs : k # j => rdJob[k].at \notin RdStarting
  BY <1>2, <1>3, RdStarter
<1>7. RdTypeOK' /\ (\A k \in RdJobs : RdJobOK(rdJob'[k])) /\ RdCloseInv' /\ RdCountInv'
  <2>1. rdLock' \in 0..RdRequests
    BY <1>5, RdBounds
  <2>2. rdLive' \subseteq RdResource /\ rdLost' \subseteq RdResource /\ UNCHANGED rdClose
    BY <1>2, <1>4
  <2> QED BY <1>2, <1>3, <1>4, <1>5, <2>1, <2>2, RdTurnJobs
<1>8. RdLockInv'
  <2>1. \A k \in RdJobs : rdJob'[k].at \in RdStarting <=> rdLock' = k
    BY <1>3, <1>5, <1>6, RdBounds DEF RdStarting
  <2>2. \A k \in RdJobs : rdJob'[k].at = "resetting" => rdBrowser'.driver = rdBrowser'.browser
    BY <1>3, <1>6 DEF RdStarting
  <2>3. ~rdStopped' => done = {"browser", "driver"} /\ rdBrowser'.driver = rdBrowser'.browser
    BY <1>4, <1>5
  <2>4. \A k \in RdJobs : rdJob'[k].at \in {"starting", "launching", "late"} =>
                            rdBrowser'.browser = 0 /\ rdBrowser'.driver = 0
    BY <1>3, <1>4, <1>6 DEF RdStarting
  <2>5. ~rdStopped' => \A x \in rdLive' : x.what = "browser" => x.of = rdBrowser'.browser
    <3>1. SUFFICES ASSUME ~rdStopped', NEW x \in rdLive', x.what = "browser"
                   PROVE FALSE
      OBVIOUS
    <3>2. x \in rdLive /\ x \in RdResource /\ x.of = known
      BY <1>2, <1>4, <1>5, <3>1 DEF RdInv, RdLockInv
    <3>3. x = [what |-> "browser", of |-> known]
      BY <3>1, <3>2 DEF RdResource
    <3> QED BY <1>1, <2>3, <3>1, <3>3
  <2> QED BY <2>1, <2>2, <2>3, <2>4, <2>5 DEF RdLockInv
<1>9. RdOwnerInv'
  <2>1. SUFFICES ASSUME ~rdClose.bad, NEW x \in rdLive'
        PROVE  x \in rdLost \/ x.of = rdBrowser'[x.what] \/ x.of = rdClose[x.what]
                 \/ rdJob'[x.of].at \in {"launching", "late"}
    BY <1>2 DEF RdOwnerInv
  <2>2. /\ x \in rdLive /\ x \in RdResource /\ x.of \in RdJobs /\ x.what \in {"browser", "driver"}
        /\ x.of # 0
    BY <1>2, <1>4, RdBounds DEF RdResource
  <2>3. CASE x.of = rdBrowser[x.what]
    <3>1. x.of = known
      <4>1. rdBrowser.driver = rdBrowser.browser
        BY <1>2 DEF RdInv, RdLockInv
      <4> QED BY <2>2, <2>3, <4>1
    <3>2. x = [what |-> x.what, of |-> known]
      BY <2>2, <3>1 DEF RdResource
    <3>3. x.what \notin done
      BY <1>1, <2>1, <3>2
    <3> QED BY <1>1, <2>2, <2>3, <3>3
  <2>4. CASE rdJob[x.of].at \in {"launching", "late"}
    <3>1. x.of # j
      BY <1>2, <2>4
    <3> QED BY <1>6, <2>2, <2>4, <3>1
  <2> QED BY <2>1, <2>2, <2>3, <2>4 DEF RdInv, RdOwnerInv
<1> QED BY <1>7, <1>8, <1>9 DEF RdInv

LEMMA RdStartKeeps ==
  ASSUME RdInv, NEW j \in RdJobs, RdStart(j)
  PROVE  RdInv'
<1> DEFINE driver == [what |-> "driver", of |-> j]
<1>1. /\ rdJob[j].at = "starting" /\ rdJob[j].at \in RdStarting /\ rdJob[j].at \notin RdIdle
      /\ UNCHANGED <<rdStopped, rdBrowser, rdCrashed, rdLost, rdClose>>
      /\ rdStopped \in BOOLEAN /\ rdBrowser \in [browser : 0..RdRequests, driver : 0..RdRequests]
      /\ rdLock = j /\ rdLive \subseteq RdResource /\ rdLost \subseteq RdResource
      /\ rdBrowser.browser = 0 /\ rdBrowser.driver = 0
  BY DEF RdStart, RdStarting, RdIdle, RdInv, RdTypeOK, RdLockInv
<1>2. PICK r : /\ RdTurns(j, r) /\ RdNotHanded(j, r)
               /\ \/ r.at \in {"late", "launching"} /\ rdLive' = rdLive \cup {driver}
                       /\ rdLock' = rdLock
                  \/ r.at \notin RdStarting /\ rdLive' = rdLive /\ rdLock' = 0
  <2>1. CASE /\ rdLive' = rdLive \cup {[what |-> "driver", of |-> j]}
             /\ rdJob' = [rdJob EXCEPT ![j].at = IF rdStopped THEN "late" ELSE "launching"]
             /\ UNCHANGED <<rdLock, rdFree, rdCount, rdLeft>>
    <3>1. PICK a \in {"late", "launching"} : a = IF rdStopped THEN "late" ELSE "launching"
      OBVIOUS
    <3>2. a \in RdStarting /\ rdJob' = [rdJob EXCEPT ![j].at = a]
      BY <2>1, <3>1 DEF RdStarting
    <3>3. PICK r : RdTurns(j, r) /\ RdNotHanded(j, r) /\ r.at = a
      BY <1>1, <2>1, <3>2, RdMoves
    <3> QED BY <2>1, <3>1, <3>3
  <2>2. CASE RdUnwinds(j, rdJob[j]) /\ rdLock' = 0 /\ RdFails /\ UNCHANGED rdLive
    <3>1. PICK r : RdTurns(j, r) /\ RdNotHanded(j, r) /\ r.at \notin RdStarting
      BY <1>1, <2>2, RdStarterUnwinds
    <3> QED BY <2>2, <3>1
  <2> QED BY <2>1, <2>2 DEF RdStart
<1>3. /\ rdJob'[j] = r /\ \A k \in RdJobs : k # j => rdJob'[k] = rdJob[k]
      /\ \A k \in RdJobs : k # j => rdJob[k].at \notin RdStarting
  BY <1>1, <1>2, RdStarter
<1>4. driver \in RdResource
  BY DEF RdResource
<1>5. RdTypeOK' /\ (\A k \in RdJobs : RdJobOK(rdJob'[k])) /\ RdCloseInv' /\ RdCountInv'
  <2>1. rdLock' \in 0..RdRequests
    BY <1>1, <1>2, RdBounds
  <2>2. rdLive' \subseteq RdResource /\ rdLost' \subseteq RdResource
    BY <1>1, <1>2, <1>4
  <2> QED BY <1>1, <1>2, <2>1, <2>2, RdTurnJobs
<1>6. RdLockInv'
  <2>1. \A k \in RdJobs : rdJob'[k].at \in RdStarting <=> rdLock' = k
    BY <1>1, <1>2, <1>3, RdBounds DEF RdStarting
  <2>2. \A x \in rdLive' : x \in rdLive \/ x.what = "driver"
    BY <1>2
  <2> QED BY <1>1, <2>1, <2>2 DEF RdInv, RdLockInv
<1>7. RdOwnerInv'
  <2>1. SUFFICES ASSUME ~rdClose.bad, NEW x \in rdLive'
        PROVE  x \in rdLost \/ x.of = rdBrowser[x.what] \/ x.of = rdClose[x.what]
                 \/ rdJob'[x.of].at \in {"launching", "late"}
    BY <1>1 DEF RdOwnerInv
  <2>2. CASE x \in rdLive
    <3>1. x.of \in RdJobs
      BY <1>1, <2>2 DEF RdResource
    <3>2. rdJob[x.of].at \in {"launching", "late"} => x.of # j
      BY <1>1
    <3> QED BY <1>3, <2>1, <2>2, <3>1, <3>2 DEF RdInv, RdOwnerInv
  <2>3. CASE x \notin rdLive
    BY <1>2, <1>3, <2>1, <2>3
  <2> QED BY <2>2, <2>3
<1> QED BY <1>5, <1>6, <1>7 DEF RdInv

LEMMA RdLaunchKeeps ==
  ASSUME RdInv, NEW j \in RdJobs, RdLaunch(j)
  PROVE  RdInv'
<1> DEFINE browser == [what |-> "browser", of |-> j]
<1>1. /\ rdJob[j].at = "launching" /\ rdJob[j].at \in RdStarting /\ rdJob[j].at \notin RdIdle
      /\ UNCHANGED <<rdStopped, rdCrashed, rdLost, rdClose>>
      /\ rdStopped \in BOOLEAN /\ rdBrowser \in [browser : 0..RdRequests, driver : 0..RdRequests]
      /\ rdLock = j /\ rdLive \subseteq RdResource /\ rdLost \subseteq RdResource
      /\ rdBrowser.browser = 0 /\ rdBrowser.driver = 0
  BY DEF RdLaunch, RdStarting, RdIdle, RdInv, RdTypeOK, RdLockInv
<1>2. /\ rdJob[j] \in RdState /\ RdJobOK(rdJob[j]) /\ RdWorks(j, rdJob[j])
      /\ j \in 0..RdRequests /\ j # 0
  BY <1>1, RdWorker, RdBounds
<1>3. PICK r :
        /\ RdTurns(j, r) /\ RdNotHanded(j, r)
        /\ \/ /\ r.at = "late" /\ UNCHANGED <<rdBrowser, rdLock>>
              /\ rdLive' = rdLive \/ (rdStopped /\ rdLive' = rdLive \cup {browser})
           \/ /\ r.at \notin RdStarting /\ ~rdStopped /\ rdLock' = 0
              /\ rdBrowser' = [browser |-> j, driver |-> j] /\ rdLive' = rdLive \cup {browser}
  <2>1. CASE rdJob' = [rdJob EXCEPT ![j].at = "late"] /\ UNCHANGED <<rdBrowser, rdLock, rdFree, rdCount>>
    <3>1. PICK r : RdTurns(j, r) /\ RdNotHanded(j, r) /\ r.at = "late"
      BY <1>1, <2>1, RdMoves DEF RdStarting
    <3>2. rdLive' = rdLive \/ (rdStopped /\ rdLive' = rdLive \cup {browser})
      <4>1. CASE rdStopped
        BY <4>1 DEF RdLaunch
      <4>2. CASE ~rdStopped /\ rdLive' # rdLive
        <5>1. rdBrowser' = [browser |-> j, driver |-> j]
          BY <4>2 DEF RdLaunch
        <5> QED BY <1>1, <1>2, <2>1, <5>1
      <4> QED BY <4>1, <4>2
    <3> QED BY <2>1, <3>1, <3>2
  <2>2. CASE /\ ~rdStopped /\ rdLock' = 0 /\ rdBrowser' = [browser |-> j, driver |-> j]
             /\ RdGoesOn(j, rdJob[j], "context") /\ rdLive' = rdLive \cup {browser}
    <3> DEFINE r == [rdJob[j] EXCEPT !.at = "context"]
    <3>1. ASSUME NEW x, x = r
          PROVE  /\ x \in RdState /\ x.at = "context"
                 /\ \A f \in {"context", "slot", "aborted", "request", "held", "images"} :
                      x[f] = rdJob[j][f]
      BY <1>2, <3>1 DEF RdState
    <3> HIDE DEF r
    <3>2. /\ r \in RdState /\ r.at = "context" /\ r.context = rdJob[j].context
          /\ r.slot = rdJob[j].slot /\ r.aborted = rdJob[j].aborted
          /\ r.request = rdJob[j].request /\ r.held = rdJob[j].held
      BY <3>1
    <3>3. RdJobOK(r)
      BY <1>1, <1>2, <3>2 DEF RdJobOK, RdIdle, RdStarting
    <3> USE DEF r
    <3>4. [rdJob[j] EXCEPT !.at = "context"] \in RdState /\ RdJobOK([rdJob[j] EXCEPT !.at = "context"])
      BY <3>2, <3>3
    <3>5. "context" \notin RdIdle
      BY DEF RdIdle
    <3>6. PICK t : RdTurns(j, t) /\ t.at \in {"context", "closing", "over"} /\ RdNotHanded(j, t)
      BY <1>1, <1>2, <2>2, <3>4, <3>5, GoesOnTurns
    <3>7. t.at \notin RdStarting
      BY <3>6 DEF RdStarting
    <3> HIDE DEF r, browser
    <3> QED BY <2>2, <3>6, <3>7
  <2> QED BY <2>1, <2>2 DEF RdLaunch
<1>4. /\ rdJob'[j] = r /\ \A k \in RdJobs : k # j => rdJob'[k] = rdJob[k]
      /\ \A k \in RdJobs : k # j => rdJob[k].at \notin RdStarting
  BY <1>1, <1>3, RdStarter
<1>5. browser \in RdResource /\ browser.what = "browser" /\ browser.of = j
  BY DEF RdResource
<1> HIDE DEF browser
<1>6. RdTypeOK' /\ (\A k \in RdJobs : RdJobOK(rdJob'[k])) /\ RdCloseInv' /\ RdCountInv'
  <2>1. rdLock' \in 0..RdRequests
    BY <1>1, <1>2, <1>3, RdBounds
  <2>2. rdLive' \subseteq RdResource /\ rdLost' \subseteq RdResource
    BY <1>1, <1>3, <1>5
  <2>3. /\ rdBrowser' \in [browser : 0..RdRequests, driver : 0..RdRequests]
        /\ rdStopped => rdBrowser' = rdBrowser
    BY <1>1, <1>2, <1>3
  <2> QED BY <1>1, <1>3, <2>1, <2>2, <2>3, RdTurnJobs
<1>7. CASE r.at = "late" /\ UNCHANGED <<rdBrowser, rdLock>>
  <2>1. RdLockInv'
    <3>1. \A k \in RdJobs : rdJob'[k].at \in RdStarting <=> rdLock' = k
      BY <1>1, <1>4, <1>7, RdBounds DEF RdStarting
    <3>2. ~rdStopped => rdLive' = rdLive
      BY <1>1, <1>2, <1>3, <1>7 DEF RdStarting
    <3> QED BY <1>1, <1>7, <3>1, <3>2 DEF RdInv, RdLockInv
  <2>2. RdOwnerInv'
    <3>1. SUFFICES ASSUME ~rdClose.bad, NEW x \in rdLive'
          PROVE  x \in rdLost \/ x.of = rdBrowser[x.what] \/ x.of = rdClose[x.what]
                   \/ rdJob'[x.of].at \in {"launching", "late"}
      BY <1>1, <1>7 DEF RdOwnerInv
    <3>2. CASE x.of = j
      BY <1>4, <1>7, <3>2
    <3>3. CASE x.of # j
      <4>1. x \in rdLive /\ x.of \in RdJobs
        BY <1>1, <1>3, <1>5, <3>1, <3>3 DEF RdResource
      <4> QED BY <1>4, <3>1, <3>3, <4>1 DEF RdInv, RdOwnerInv
    <3> QED BY <3>2, <3>3
  <2> QED BY <1>6, <2>1, <2>2 DEF RdInv
<1>8. CASE /\ r.at \notin RdStarting /\ ~rdStopped /\ rdLock' = 0
           /\ rdBrowser' = [browser |-> j, driver |-> j] /\ rdLive' = rdLive \cup {browser}
  <2>0. rdBrowser'.browser = j /\ rdBrowser'.driver = j
    BY <1>8
  <2>1. RdLockInv'
    <3>1. \A k \in RdJobs : rdJob'[k].at \in RdStarting <=> rdLock' = k
      BY <1>1, <1>4, <1>8, RdBounds
    <3>2. \A k \in RdJobs : rdJob'[k].at \notin RdStarting
      BY <1>4, <1>8
    <3>3. \A x \in rdLive' : x.what = "browser" => x.of = j
      <4>1. \A x \in rdLive : x.what = "browser" => x.of = 0 /\ x.of \in RdJobs
        BY <1>1, <1>8 DEF RdInv, RdLockInv, RdResource
      <4> QED BY <1>5, <1>8, <4>1, RdBounds
    <3> QED BY <2>0, <3>1, <3>2, <3>3 DEF RdLockInv, RdStarting
  <2>2. RdOwnerInv'
    <3>1. SUFFICES ASSUME ~rdClose.bad, NEW x \in rdLive'
          PROVE  x \in rdLost \/ x.of = rdBrowser'[x.what] \/ x.of = rdClose[x.what]
                   \/ rdJob'[x.of].at \in {"launching", "late"}
      BY <1>1 DEF RdOwnerInv
    <3>2. x \in RdResource /\ x.what \in {"browser", "driver"} /\ x.of \in RdJobs
      BY <1>1, <1>5, <1>8, <3>1 DEF RdResource
    <3>3. CASE x.of = j
      BY <1>8, <3>2, <3>3
    <3>4. CASE x.of # j
      <4>1. x \in rdLive
        BY <1>5, <1>8, <3>1, <3>4
      <4>2. rdBrowser[x.what] = 0
        BY <1>1, <3>2
      <4> QED BY <1>4, <3>1, <3>2, <3>4, <4>1, <4>2, RdBounds DEF RdInv, RdOwnerInv, RdStarting
    <3> QED BY <3>3, <3>4
  <2> QED BY <1>6, <2>1, <2>2 DEF RdInv
<1> QED BY <1>3, <1>7, <1>8

LEMMA RdLateKeeps ==
  ASSUME RdInv, NEW j \in RdJobs, RdLate(j)
  PROVE  RdInv'
<1> DEFINE mine == {x \in rdLive : x.of = j}
<1>1. /\ rdJob[j].at = "late" /\ rdJob[j].at \in RdStarting /\ rdJob[j].at \notin RdIdle
      /\ RdUnwinds(j, rdJob[j]) /\ rdLock' = 0
      /\ UNCHANGED <<rdStopped, rdBrowser, rdCrashed, rdClose>>
      /\ rdStopped \in BOOLEAN /\ rdBrowser \in [browser : 0..RdRequests, driver : 0..RdRequests]
      /\ rdLock = j /\ rdLive \subseteq RdResource /\ rdLost \subseteq RdResource
  BY DEF RdLate, RdStarting, RdIdle, RdInv, RdTypeOK, RdLockInv
<1>2. PICK r : RdTurns(j, r) /\ RdNotHanded(j, r) /\ r.at \notin RdStarting
  BY <1>1, RdStarterUnwinds
<1>3. /\ rdLive' \subseteq rdLive /\ rdLost \subseteq rdLost' /\ rdLost' \subseteq RdResource
      /\ \A x \in rdLive' : x.of = j => x \in rdLost'
  <2>1. CASE rdLive' = rdLive \ mine /\ UNCHANGED <<rdLost, rdLeft>>
    BY <1>1, <2>1
  <2>2. CASE \E lost \in (SUBSET mine) \ {{}} :
               rdLive' = rdLive \ (mine \ lost) /\ rdLost' = rdLost \cup lost /\ RdFails
    BY <1>1, <2>2
  <2> QED BY <2>1, <2>2 DEF RdLate
<1> HIDE DEF mine
<1>4. /\ rdJob'[j] = r /\ \A k \in RdJobs : k # j => rdJob'[k] = rdJob[k]
      /\ \A k \in RdJobs : k # j => rdJob[k].at \notin RdStarting
  BY <1>1, <1>2, RdStarter
<1>5. RdTypeOK' /\ (\A k \in RdJobs : RdJobOK(rdJob'[k])) /\ RdCloseInv' /\ RdCountInv'
  <2>1. rdLock' \in 0..RdRequests /\ rdLive' \subseteq RdResource
    BY <1>1, <1>3, RdBounds
  <2> QED BY <1>1, <1>2, <1>3, <2>1, RdTurnJobs
<1>6. RdLockInv'
  <2>1. \A k \in RdJobs : rdJob'[k].at \notin RdStarting
    BY <1>2, <1>4
  <2> QED BY <1>1, <1>3, <2>1, RdBounds DEF RdInv, RdLockInv, RdStarting
<1>7. RdOwnerInv'
  <2>1. SUFFICES ASSUME ~rdClose.bad, NEW x \in rdLive'
        PROVE  x \in rdLost' \/ x.of = rdBrowser[x.what] \/ x.of = rdClose[x.what]
                 \/ rdJob'[x.of].at \in {"launching", "late"}
    BY <1>1 DEF RdOwnerInv
  <2>2. CASE x.of = j
    BY <1>3, <2>1, <2>2
  <2>3. CASE x.of # j
    <3>1. x \in rdLive /\ x.of \in RdJobs
      BY <1>1, <1>3, <2>1 DEF RdResource
    <3> QED BY <1>3, <1>4, <2>1, <2>3, <3>1 DEF RdInv, RdOwnerInv
  <2> QED BY <2>2, <2>3
<1> QED BY <1>5, <1>6, <1>7 DEF RdInv

-----------------------------------------------------------------------------
\* A request acts on its own job.
LEMMA RdRequestKeeps ==
  ASSUME RdInv, NEW j \in RdJobs, NEW r \in RdState, rdJob' = [rdJob EXCEPT ![j] = r],
         RdJobOK(r), r.at = rdJob[j].at, r.slot = rdJob[j].slot,
         rdJob[j].aborted => r.aborted \/ r.at = "over",
         r.held \in {"result", "user"} => rdJob[j].held \in {"result", "user"},
         rdStopped' \in BOOLEAN, rdStopped => rdStopped',
         UNCHANGED <<rdCount, rdFree, rdLock, rdBrowser, rdLive, rdLost, rdClose>>
  PROVE  RdInv'
<1>1. rdFree \in Int /\ rdCount \in Int
  BY DEF RdInv, RdTypeOK
<1>2. /\ rdFree' = rdFree + (IF rdJob[j].slot THEN 1 ELSE 0) - (IF r.slot THEN 1 ELSE 0)
      /\ rdCount' = rdCount + (IF r.at \notin {"unused", "over"} THEN 1 ELSE 0)
                            - (IF rdJob[j].at \notin {"unused", "over"} THEN 1 ELSE 0)
  BY <1>1
<1>3. RdTurns(j, r)
  BY <1>2 DEF RdTurns
<1>4. j \in rdClose.jobs => r.held \notin {"result", "user"}
  BY DEF RdInv, RdCloseInv
<1> QED BY <1>3, <1>4, RdTurnKeeps

LEMMA RdReceivesKeeps ==
  ASSUME RdInv, NEW j \in RdJobs, RdReceives(j)
  PROVE  RdInv'
<1>1. /\ rdJob[j] \in RdState /\ RdJobOK(rdJob[j]) /\ rdStopped \in BOOLEAN
      /\ rdJob[j].request = "waiting" /\ rdJob[j].at = "over"
      /\ UNCHANGED <<rdStopped, rdCount, rdFree, rdLock, rdBrowser, rdLive, rdCrashed, rdLost, rdClose, rdLeft>>
  BY RdJobFacts DEF RdReceives, RdDone, RdInv, RdTypeOK
<1>2. rdJob[j].held \in {"no", "result"}
  BY <1>1 DEF RdJobOK, RdState
<1>3. PICK q \in {"failed", "answered"}, h \in {"no", "user"} :
        /\ q = IF rdJob[j].held = "no" THEN "failed" ELSE "answered"
        /\ h = IF rdJob[j].held = "result" THEN "user" ELSE rdJob[j].held
  BY <1>2
<1> DEFINE r == [rdJob[j] EXCEPT !.request = q, !.held = h]
<1>4. rdJob' = [rdJob EXCEPT ![j] = r]
  BY <1>1, <1>3 DEF RdReceives, RdInv, RdTypeOK, RdState
<1>5. ASSUME NEW x, x = r
      PROVE  /\ x \in RdState /\ x.request = q /\ x.held = h
             /\ \A f \in {"at", "slot", "aborted", "context", "images", "raised"} : x[f] = rdJob[j][f]
  BY <1>1, <1>5 DEF RdState
<1> HIDE DEF r
<1>6. /\ r \in RdState /\ r.request = q /\ r.held = h /\ r.at = rdJob[j].at
      /\ r.slot = rdJob[j].slot /\ r.aborted = rdJob[j].aborted
      /\ r.context = rdJob[j].context /\ r.images = rdJob[j].images
  BY <1>5
<1>7. RdJobOK(r)
  BY <1>1, <1>2, <1>3, <1>6 DEF RdJobOK, RdIdle, RdStarting
<1> QED BY <1>1, <1>2, <1>3, <1>4, <1>6, <1>7, RdRequestKeeps

LEMMA RdGivesUpKeeps ==
  ASSUME RdInv, NEW j \in RdJobs, RdGivesUp(j)
  PROVE  RdInv'
<1>1. /\ rdJob[j] \in RdState /\ RdJobOK(rdJob[j]) /\ rdStopped \in BOOLEAN
      /\ rdJob[j].request = "waiting"
      /\ UNCHANGED <<rdStopped, rdCount, rdFree, rdLock, rdBrowser, rdLive, rdCrashed, rdLost, rdClose, rdLeft>>
  BY RdJobFacts DEF RdGivesUp, RdInv, RdTypeOK
<1>2. PICK q \in {"joining", "closing"}, c \in {"none", "open", "closing", "closed", "broken"} :
        /\ q = IF rdJob[j].context = "none" THEN "joining" ELSE "closing"
        /\ c = IF rdJob[j].context = "open" THEN "closing" ELSE rdJob[j].context
  BY <1>1 DEF RdState
<1> DEFINE ending == RdContextEnding(rdJob[j])
           r == [ending EXCEPT !.aborted = ~RdDone(j), !.request = q]
<1>3. rdJob' = [rdJob EXCEPT ![j] = r]
  BY <1>1, <1>2 DEF RdGivesUp, RdInv, RdTypeOK
<1>4. ASSUME NEW x, x = ending
      PROVE  /\ x \in RdState /\ x.context = c
             /\ \A f \in {"at", "slot", "held", "images", "raised"} : x[f] = rdJob[j][f]
  BY <1>1, <1>2, <1>4 DEF RdState, RdContextEnding
<1> HIDE DEF ending
<1>5. /\ ending \in RdState /\ ending.context = c /\ ending.at = rdJob[j].at
      /\ ending.slot = rdJob[j].slot /\ ending.held = rdJob[j].held
      /\ ending.images = rdJob[j].images /\ ending.raised = rdJob[j].raised
  BY <1>4
<1>6. ASSUME NEW x, x = r
      PROVE  /\ x \in RdState /\ x.request = q /\ x.aborted = ~RdDone(j)
             /\ \A f \in {"at", "slot", "held", "images", "raised", "context"} : x[f] = ending[f]
  BY <1>5, <1>6 DEF RdState, RdDone
<1> HIDE DEF r
<1>7. /\ r \in RdState /\ r.request = q /\ r.aborted = ~RdDone(j) /\ r.at = rdJob[j].at
      /\ r.slot = rdJob[j].slot /\ r.held = rdJob[j].held /\ r.context = c
      /\ r.images = rdJob[j].images /\ r.raised = rdJob[j].raised
  BY <1>5, <1>6
<1>8. RdJobOK(r)
  BY <1>1, <1>2, <1>7 DEF RdJobOK, RdIdle, RdStarting, RdDone
<1> QED BY <1>1, <1>3, <1>7, <1>8, RdRequestKeeps DEF RdDone

LEMMA RdContextAwaitedKeeps ==
  ASSUME RdInv, NEW j \in RdJobs, RdContextAwaited(j)
  PROVE  RdInv'
<1>1. /\ rdJob[j] \in RdState /\ RdJobOK(rdJob[j]) /\ rdStopped \in BOOLEAN
      /\ rdJob[j].request = "closing"
      /\ UNCHANGED <<rdStopped, rdCount, rdFree, rdLock, rdBrowser, rdLive, rdCrashed, rdLost, rdClose, rdLeft>>
  BY RdJobFacts DEF RdContextAwaited, RdInv, RdTypeOK
<1> DEFINE b == rdJob[j].context # "closed"
           r == [rdJob[j] EXCEPT !.request = "joining", !.bad = b]
<1>2. rdJob' = [rdJob EXCEPT ![j] = r]
  BY <1>1 DEF RdContextAwaited, RdInv, RdTypeOK, RdState
<1>3. b \in BOOLEAN
  OBVIOUS
<1> HIDE DEF b
<1>4. ASSUME NEW x, x = r
      PROVE  /\ x \in RdState /\ x.request = "joining"
             /\ \A f \in {"at", "slot", "aborted", "held", "context", "images", "raised"} :
                  x[f] = rdJob[j][f]
  BY <1>1, <1>3, <1>4 DEF RdState
<1> HIDE DEF r
<1>5. /\ r \in RdState /\ r.request = "joining" /\ r.at = rdJob[j].at
      /\ r.slot = rdJob[j].slot /\ r.aborted = rdJob[j].aborted /\ r.held = rdJob[j].held
      /\ r.context = rdJob[j].context /\ r.images = rdJob[j].images /\ r.raised = rdJob[j].raised
  BY <1>4
<1>6. RdJobOK(r)
  BY <1>1, <1>5 DEF RdJobOK, RdIdle, RdStarting
<1> QED BY <1>1, <1>2, <1>5, <1>6, RdRequestKeeps

LEMMA RdJobAwaitedKeeps ==
  ASSUME RdInv, NEW j \in RdJobs, RdJobAwaited(j)
  PROVE  RdInv'
<1>1. /\ rdJob[j] \in RdState /\ RdJobOK(rdJob[j]) /\ rdStopped \in BOOLEAN
      /\ rdJob[j].request = "joining" /\ rdStopped' = (rdStopped \/ rdJob[j].bad \/ ~RdDone(j))
      /\ UNCHANGED <<rdCount, rdFree, rdLock, rdBrowser, rdLive, rdCrashed, rdLost, rdClose, rdLeft>>
  BY RdJobFacts DEF RdJobAwaited, RdInv, RdTypeOK
<1>2. rdJob[j].held \in {"no", "job", "result"} /\ rdJob[j].bad \in BOOLEAN
  BY <1>1 DEF RdJobOK, RdState
<1>3. PICK h \in {"no", "job"} : h = IF rdJob[j].held = "result" THEN "no" ELSE rdJob[j].held
  BY <1>2
<1> DEFINE r == [rdJob[j] EXCEPT !.request = "failed", !.bad = FALSE, !.held = h]
<1>4. rdJob' = [rdJob EXCEPT ![j] = r]
  BY <1>1, <1>3 DEF RdJobAwaited, RdInv, RdTypeOK, RdState
<1>5. ASSUME NEW x, x = r
      PROVE  /\ x \in RdState /\ x.request = "failed" /\ x.held = h
             /\ \A f \in {"at", "slot", "aborted", "context", "images", "raised"} :
                  x[f] = rdJob[j][f]
  BY <1>1, <1>5 DEF RdState
<1> HIDE DEF r
<1>6. /\ r \in RdState /\ r.request = "failed" /\ r.at = rdJob[j].at
      /\ r.slot = rdJob[j].slot /\ r.aborted = rdJob[j].aborted /\ r.held = h
      /\ r.context = rdJob[j].context /\ r.images = rdJob[j].images /\ r.raised = rdJob[j].raised
  BY <1>5
<1>7. RdJobOK(r)
  BY <1>1, <1>3, <1>6 DEF RdJobOK, RdIdle, RdStarting
<1>8. rdStopped' \in BOOLEAN /\ (rdStopped => rdStopped')
  BY <1>1, <1>2
<1> QED BY <1>1, <1>3, <1>4, <1>6, <1>7, <1>8, RdRequestKeeps

-----------------------------------------------------------------------------
LEMMA RdCloseBeginsKeeps ==
  ASSUME RdInv, RdCloseBegins
  PROVE  RdInv'
<1> DEFINE ended(k) == [RdContextEnding(rdJob[k]) EXCEPT !.aborted = TRUE]
<1>1. /\ rdClose.at = "idle" /\ rdClose' = [rdClose EXCEPT !.at = "contexts", !.jobs = RdBusy]
      /\ rdStopped' = TRUE
      /\ rdJob' = [k \in RdJobs |-> IF k \in RdBusy THEN ended(k) ELSE rdJob[k]]
      /\ UNCHANGED <<rdCount, rdFree, rdLock, rdBrowser, rdCrashed, rdLive, rdLost, rdLeft>>
  BY DEF RdCloseBegins, RdBusy
<1>2. ASSUME NEW k \in RdJobs, NEW x, x = ended(k)
      PROVE  /\ x \in RdState /\ x.aborted
             /\ x.context = IF rdJob[k].context = "open" THEN "closing" ELSE rdJob[k].context
             /\ \A f \in {"at", "slot", "held", "request", "images", "raised"} : x[f] = rdJob[k][f]
  <2> DEFINE ending == RdContextEnding(rdJob[k])
  <2>1. rdJob[k] \in RdState
    BY <1>2, RdJobFacts
  <2>2. ASSUME NEW y, y = ending
        PROVE  /\ y \in RdState
               /\ y.context = IF rdJob[k].context = "open" THEN "closing" ELSE rdJob[k].context
               /\ \A f \in {"at", "slot", "held", "request", "images", "raised"} : y[f] = rdJob[k][f]
    BY <2>1, <2>2 DEF RdState, RdContextEnding
  <2>3. x = [ending EXCEPT !.aborted = TRUE]
    BY <1>2
  <2> HIDE DEF ending
  <2>4. /\ ending \in RdState
        /\ ending.context = IF rdJob[k].context = "open" THEN "closing" ELSE rdJob[k].context
        /\ \A f \in {"at", "slot", "held", "request", "images", "raised"} : ending[f] = rdJob[k][f]
    BY <2>2
  <2> QED BY <2>3, <2>4 DEF RdState
<1> HIDE DEF ended
<1>3. ASSUME NEW k \in RdJobs
      PROVE  /\ rdJob'[k] \in RdState /\ RdJobOK(rdJob'[k])
             /\ rdJob'[k].at = rdJob[k].at /\ rdJob'[k].slot = rdJob[k].slot
             /\ k \in RdBusy => rdJob'[k].aborted /\ rdJob'[k].held = rdJob[k].held
  <2>1. rdJob[k] \in RdState /\ RdJobOK(rdJob[k])
    BY <1>3, RdJobFacts
  <2>2. CASE k \notin RdBusy
    BY <1>1, <2>1, <2>2
  <2>3. CASE k \in RdBusy
    <3> DEFINE x == ended(k)
    <3>1. rdJob'[k] = x
      BY <1>1, <2>3
    <3>2. /\ x \in RdState /\ x.aborted
          /\ x.context = (IF rdJob[k].context = "open" THEN "closing" ELSE rdJob[k].context)
          /\ x.at = rdJob[k].at /\ x.slot = rdJob[k].slot /\ x.held = rdJob[k].held
          /\ x.request = rdJob[k].request /\ x.images = rdJob[k].images
          /\ x.raised = rdJob[k].raised
      BY <1>2
    <3> HIDE DEF x
    <3>3. RdJobOK(x)
      BY <2>1, <3>2 DEF RdJobOK, RdIdle, RdStarting
    <3> QED BY <3>1, <3>2, <3>3
  <2> QED BY <2>2, <2>3
<1>4. rdClose \in [at : {"idle", "contexts", "jobs", "browser", "driver", "closed"},
                   jobs : SUBSET RdJobs, browser : 0..RdRequests, driver : 0..RdRequests,
                   bad : BOOLEAN]
  BY DEF RdInv, RdTypeOK
<1>5. RdBusy \subseteq RdJobs
  BY DEF RdBusy
<1>6. /\ rdClose' \in [at : {"idle", "contexts", "jobs", "browser", "driver", "closed"},
                   jobs : SUBSET RdJobs, browser : 0..RdRequests, driver : 0..RdRequests,
                   bad : BOOLEAN]
      /\ rdClose'.at = "contexts" /\ rdClose'.jobs = RdBusy /\ rdClose'.browser = rdClose.browser
      /\ rdClose'.driver = rdClose.driver /\ rdClose'.bad = rdClose.bad
  BY <1>1, <1>4, <1>5
<1>7. RdTypeOK'
  <2>1. rdJob' \in [RdJobs -> RdState]
    BY <1>1, <1>3
  <2> QED BY <1>1, <1>6, <2>1 DEF RdInv, RdTypeOK
<1>8. RdLockInv'
  BY <1>1, <1>3 DEF RdInv, RdLockInv
<1>9. RdOwnerInv'
  <2>1. \A x \in rdLive : x.what \in {"browser", "driver"} /\ x.of \in RdJobs
    BY DEF RdInv, RdTypeOK, RdResource
  <2> QED BY <1>1, <1>3, <1>6, <2>1 DEF RdInv, RdOwnerInv
<1>10. RdBusy' = RdBusy /\ RdSlots' = RdSlots
  BY <1>3 DEF RdBusy, RdSlots
<1>11. RdCloseInv'
  <2>1. \A k \in RdBusy : /\ rdJob'[k].aborted /\ rdJob'[k].at # "unused"
                          /\ rdJob'[k].held \notin {"result", "user"}
    BY <1>3, RdJobFacts DEF RdBusy, RdJobOK
  <2>2. rdClose'.browser = 0 /\ rdClose'.driver = 0 /\ ~rdClose'.bad
    BY <1>1, <1>6 DEF RdInv, RdCloseInv
  <2> QED BY <1>1, <1>6, <1>10, <2>1, <2>2 DEF RdCloseInv
<1>12. RdCountInv'
  BY <1>1, <1>10 DEF RdInv, RdCountInv
<1> QED BY <1>3, <1>7, <1>8, <1>9, <1>11, <1>12 DEF RdInv

\* close() goes on while the jobs stay as they are.
LEMMA RdClosesKeep ==
  ASSUME RdInv, rdJob' = rdJob, UNCHANGED <<rdStopped, rdCount, rdFree>>
  PROVE  /\ \A j \in RdJobs : RdJobOK(rdJob'[j])
         /\ RdBusy' = RdBusy /\ RdCountInv'
         /\ \A k \in RdJobs : RdDone(k)' <=> RdDone(k)
BY DEF RdInv, RdBusy, RdSlots, RdCountInv, RdDone

\* The record close() works on.
LEMMA RdCloseFields ==
  ASSUME RdInv
  PROVE  rdClose \in [at : {"idle", "contexts", "jobs", "browser", "driver", "closed"},
                      jobs : SUBSET RdJobs, browser : 0..RdRequests, driver : 0..RdRequests,
                      bad : BOOLEAN]
BY DEF RdInv, RdTypeOK

LEMMA RdCloseContextsKeeps ==
  ASSUME RdInv, RdCloseContexts
  PROVE  RdInv'
<1> DEFINE b == \E j \in rdClose.jobs : rdJob[j].context \in {"closing", "broken"}
<1>1. /\ rdClose.at = "contexts" /\ rdClose' = [rdClose EXCEPT !.at = "jobs", !.bad = b]
      /\ UNCHANGED <<rdJob, rdStopped, rdCount, rdFree, rdLock, rdBrowser, rdLive, rdCrashed, rdLost, rdLeft>>
  BY DEF RdCloseContexts
<1>2. b \in BOOLEAN
  OBVIOUS
<1> HIDE DEF b
<1>3. /\ rdClose' \in [at : {"idle", "contexts", "jobs", "browser", "driver", "closed"},
                       jobs : SUBSET RdJobs, browser : 0..RdRequests, driver : 0..RdRequests,
                       bad : BOOLEAN]
      /\ rdClose'.at = "jobs" /\ rdClose'.jobs = rdClose.jobs
      /\ rdClose'.browser = rdClose.browser /\ rdClose'.driver = rdClose.driver
  BY <1>1, <1>2, RdCloseFields
<1>4. rdClose.browser = 0 /\ rdClose.driver = 0 /\ rdStopped /\ ~rdClose.bad
  BY <1>1 DEF RdInv, RdCloseInv
<1>5. /\ \A j \in RdJobs : RdJobOK(rdJob'[j])
      /\ RdBusy' = RdBusy /\ RdCountInv' /\ \A k \in RdJobs : RdDone(k)' <=> RdDone(k)
  BY <1>1, RdClosesKeep
<1>6. RdTypeOK' /\ RdLockInv'
  BY <1>1, <1>3 DEF RdInv, RdTypeOK, RdLockInv
<1>7. RdOwnerInv'
  <2>1. \A x \in rdLive : x.what \in {"browser", "driver"}
    BY DEF RdInv, RdTypeOK, RdResource
  <2> QED BY <1>1, <1>3, <1>4, <2>1 DEF RdInv, RdOwnerInv
<1>8. RdCloseInv'
  <2>1. rdClose.jobs \subseteq RdJobs
    BY RdCloseFields
  <2> QED BY <1>1, <1>3, <1>4, <1>5, <2>1 DEF RdInv, RdCloseInv
<1> QED BY <1>5, <1>6, <1>7, <1>8 DEF RdInv

LEMMA RdCloseJobsKeeps ==
  ASSUME RdInv, RdCloseJobs
  PROVE  RdInv'
<1> DEFINE b == rdClose.bad \/ \E j \in rdClose.jobs : ~RdDone(j)
<1>1. /\ rdClose.at = "jobs"
      /\ rdClose' = [rdClose EXCEPT !.at = "browser", !.browser = rdBrowser.browser,
                                    !.driver = rdBrowser.driver, !.jobs = {}, !.bad = b]
      /\ rdBrowser' = [browser |-> 0, driver |-> 0]
      /\ UNCHANGED <<rdStopped, rdCount, rdFree, rdLock, rdLive, rdCrashed, rdLost, rdLeft>>
  BY RdCloseFields DEF RdCloseJobs
<1>2. b \in BOOLEAN
  BY RdCloseFields
<1>3. rdJob' = rdJob
  <2>1. /\ rdJob \in [RdJobs -> RdState] /\ rdClose.jobs \subseteq RdJobs
        /\ \A j \in rdClose.jobs : rdJob[j].held \notin {"result", "user"}
    BY RdCloseFields DEF RdInv, RdTypeOK, RdCloseInv
  <2>2. rdJob' = [j \in RdJobs |-> rdJob[j]]
    BY <2>1 DEF RdCloseJobs
  <2> QED BY <2>1, <2>2
<1>4. /\ rdBrowser \in [browser : 0..RdRequests, driver : 0..RdRequests]
      /\ rdLive \subseteq RdResource
  BY DEF RdInv, RdTypeOK
<1>5. ASSUME NEW c, c = b
      PROVE  /\ rdClose' \in [at : {"idle", "contexts", "jobs", "browser", "driver", "closed"},
                              jobs : SUBSET RdJobs, browser : 0..RdRequests,
                              driver : 0..RdRequests, bad : BOOLEAN]
             /\ rdClose'.at = "browser" /\ rdClose'.jobs = {} /\ rdClose'.bad = c
             /\ rdClose'.browser = rdBrowser.browser /\ rdClose'.driver = rdBrowser.driver
  <2>1. c \in BOOLEAN
    BY <1>2, <1>5
  <2>2. rdClose' = [rdClose EXCEPT !.at = "browser", !.browser = rdBrowser.browser,
                                   !.driver = rdBrowser.driver, !.jobs = {}, !.bad = c]
    BY <1>1, <1>5
  <2> HIDE DEF b
  <2> QED BY <1>4, <2>1, <2>2, RdCloseFields
<1>6. ~rdClose'.bad => ~rdClose.bad /\ RdBusy = {}
  <2>1. RdBusy \subseteq rdClose.jobs /\ RdBusy \subseteq RdJobs
    BY <1>1 DEF RdInv, RdCloseInv, RdBusy
  <2>2. \A j \in RdBusy : ~RdDone(j)
    BY DEF RdBusy, RdDone
  <2> QED BY <1>5, <2>1, <2>2
<1> HIDE DEF b
<1>7. /\ rdClose' \in [at : {"idle", "contexts", "jobs", "browser", "driver", "closed"},
                       jobs : SUBSET RdJobs, browser : 0..RdRequests,
                       driver : 0..RdRequests, bad : BOOLEAN]
      /\ rdClose'.at = "browser" /\ rdClose'.jobs = {}
      /\ rdClose'.browser = rdBrowser.browser /\ rdClose'.driver = rdBrowser.driver
  BY <1>5
<1>8. rdBrowser'.browser = 0 /\ rdBrowser'.driver = 0
  BY <1>1
<1>9. /\ \A j \in RdJobs : RdJobOK(rdJob'[j])
      /\ RdBusy' = RdBusy /\ RdCountInv' /\ \A k \in RdJobs : RdDone(k)' <=> RdDone(k)
  BY <1>1, <1>3, RdClosesKeep
<1>10. RdTypeOK'
  BY <1>1, <1>3, <1>7, RdBounds DEF RdInv, RdTypeOK
<1>11. rdStopped /\ rdClose.browser = 0 /\ rdClose.driver = 0
  BY <1>1 DEF RdInv, RdCloseInv
<1>12. RdLockInv'
  BY <1>1, <1>3, <1>8, <1>11 DEF RdInv, RdLockInv
<1>13. RdOwnerInv'
  <2>1. SUFFICES ASSUME ~rdClose'.bad, NEW x \in rdLive
        PROVE  x \in rdLost \/ x.of = rdClose'[x.what]
                 \/ rdJob[x.of].at \in {"launching", "late"}
    BY <1>1, <1>3 DEF RdOwnerInv
  <2>2. x.what \in {"browser", "driver"} /\ x.of \in RdJobs /\ x.of # 0
    BY <1>4, RdBounds DEF RdResource
  <2>3. \/ x \in rdLost \/ x.of = rdBrowser[x.what] \/ x.of = rdClose[x.what]
        \/ rdJob[x.of].at \in {"launching", "late"}
    BY <1>6, <2>1 DEF RdInv, RdOwnerInv
  <2>4. rdClose[x.what] = 0 /\ rdClose'[x.what] = rdBrowser[x.what]
    BY <1>7, <1>11, <2>2
  <2> QED BY <2>2, <2>3, <2>4
<1>14. RdCloseInv'
  BY <1>1, <1>6, <1>7, <1>8, <1>9, <1>11 DEF RdCloseInv
<1> QED BY <1>9, <1>10, <1>12, <1>13, <1>14 DEF RdInv

LEMMA RdCloseEndsKeeps ==
  ASSUME RdInv, NEW what \in {"browser", "driver"}, NEW at,
         at = (IF what = "browser" THEN "driver" ELSE "closed"), RdCloseEnds(what, at)
  PROVE  RdInv'
<1>1. /\ rdClose.at = what
      /\ UNCHANGED <<rdJob, rdStopped, rdCount, rdFree, rdLock, rdBrowser, rdCrashed, rdLost>>
  BY DEF RdCloseEnds
<1>2. at \in {"driver", "closed"}
  OBVIOUS
<1>3. PICK b \in BOOLEAN :
        /\ rdClose' = [rdClose EXCEPT !.at = at, ![what] = 0, !.bad = b]
        /\ rdClose.bad => b /\ rdLive' \subseteq rdLive
        /\ rdLive' \subseteq rdLive
        /\ ~b => [what |-> what, of |-> rdClose[what]] \notin rdLive'
  <2>1. CASE /\ rdLive' = rdLive \ {[what |-> what, of |-> rdClose[what]]}
             /\ rdClose' = [rdClose EXCEPT !.at = at, ![what] = 0]
    <3>1. rdClose.bad \in BOOLEAN
      BY RdCloseFields
    <3>2. rdClose' = [rdClose EXCEPT !.at = at, ![what] = 0, !.bad = rdClose.bad]
      BY <2>1, RdCloseFields
    <3> QED BY <2>1, <3>1, <3>2
  <2>2. CASE /\ UNCHANGED rdLive
             /\ rdClose' = [rdClose EXCEPT !.at = at, ![what] = 0, !.bad = TRUE]
    BY <2>2
  <2> QED BY <2>1, <2>2 DEF RdCloseEnds
<1>4. /\ rdClose' \in [at : {"idle", "contexts", "jobs", "browser", "driver", "closed"},
                       jobs : SUBSET RdJobs, browser : 0..RdRequests,
                       driver : 0..RdRequests, bad : BOOLEAN]
      /\ rdClose'.at = at /\ rdClose'.jobs = rdClose.jobs /\ rdClose'.bad = b
      /\ rdClose'.browser = (IF what = "browser" THEN 0 ELSE rdClose.browser)
      /\ rdClose'.driver = (IF what = "driver" THEN 0 ELSE rdClose.driver)
  <2>1. CASE what = "browser"
    <3>1. rdClose' = [rdClose EXCEPT !.at = at, !.browser = 0, !.bad = b]
      BY <1>3, <2>1
    <3> QED BY <1>2, <2>1, <3>1, RdCloseFields, RdBounds
  <2>2. CASE what = "driver"
    <3>1. rdClose' = [rdClose EXCEPT !.at = at, !.driver = 0, !.bad = b]
      BY <1>3, <2>2
    <3> QED BY <1>2, <2>2, <3>1, RdCloseFields, RdBounds
  <2> QED BY <2>1, <2>2
<1>5. /\ \A j \in RdJobs : RdJobOK(rdJob'[j])
      /\ RdBusy' = RdBusy /\ RdCountInv' /\ \A k \in RdJobs : RdDone(k)' <=> RdDone(k)
  BY <1>1, RdClosesKeep
<1>6. RdTypeOK'
  BY <1>1, <1>3, <1>4 DEF RdInv, RdTypeOK
<1>7. RdLockInv'
  BY <1>1, <1>3 DEF RdInv, RdLockInv
<1>8. RdCloseInv'
  <2>1. /\ rdStopped /\ rdClose.jobs = {} /\ rdBrowser.browser = 0 /\ rdBrowser.driver = 0
        /\ ~rdClose.bad => RdBusy = {}
        /\ what = "driver" => rdClose.browser = 0
    BY <1>1 DEF RdInv, RdCloseInv
  <2> QED BY <1>1, <1>3, <1>4, <1>5, <2>1 DEF RdCloseInv
<1>9. RdOwnerInv'
  <2>1. SUFFICES ASSUME ~rdClose'.bad, NEW x \in rdLive'
        PROVE  x \in rdLost \/ x.of = rdBrowser[x.what] \/ x.of = rdClose'[x.what]
                 \/ rdJob[x.of].at \in {"launching", "late"}
    BY <1>1 DEF RdOwnerInv
  <2>a. rdLive \subseteq RdResource
    BY DEF RdInv, RdTypeOK
  <2>b. x \in rdLive /\ ~b /\ ~rdClose.bad
    BY <1>3, <1>4, <2>1
  <2>2. x \in rdLive /\ x \in RdResource /\ x.what \in {"browser", "driver"} /\ ~b /\ ~rdClose.bad
    BY <2>a, <2>b DEF RdResource
  <2>3. CASE x.of = rdClose[x.what]
    <3>1. x = [what |-> x.what, of |-> rdClose[x.what]]
      BY <2>2, <2>3 DEF RdResource
    <3>2. x.what # what
      BY <1>3, <2>1, <2>2, <3>1
    <3> QED BY <1>4, <2>2, <2>3, <3>2
  <2> QED BY <2>2, <2>3 DEF RdInv, RdOwnerInv
<1> QED BY <1>5, <1>6, <1>7, <1>8, <1>9 DEF RdInv

-----------------------------------------------------------------------------
LEMMA RdStarts ==
  ASSUME RdInit
  PROVE  RdInv
<1>1. /\ \A j \in RdJobs : rdJob[j] = RdUnused
      /\ rdJob = [j \in RdJobs |-> RdUnused]
  BY DEF RdInit
<1>2. RdUnused \in RdState /\ RdJobOK(RdUnused)
  BY RdBounds DEF RdUnused, RdState, RdJobOK, RdIdle, RdStarting
<1>3. RdBusy = {} /\ RdSlots = {}
  BY <1>1 DEF RdBusy, RdSlots, RdUnused
<1>4. RdTypeOK
  <2>1. rdJob \in [RdJobs -> RdState]
    BY <1>1, <1>2
  <2>2. rdBrowser \in [browser : 0..RdRequests, driver : 0..RdRequests]
    BY RdBounds DEF RdInit
  <2>3. rdClose \in [at : {"idle", "contexts", "jobs", "browser", "driver", "closed"},
                     jobs : SUBSET RdJobs, browser : 0..RdRequests, driver : 0..RdRequests,
                     bad : BOOLEAN]
    BY RdBounds DEF RdInit
  <2>4. rdCount \in Int /\ rdFree \in Int /\ rdLock \in 0..RdRequests
    BY RdBounds DEF RdInit
  <2> QED BY <2>1, <2>2, <2>3, <2>4 DEF RdInit, RdTypeOK
<1>5. RdLockInv /\ RdOwnerInv /\ RdCloseInv
  BY <1>1, <1>3, RdBounds DEF RdInit, RdLockInv, RdOwnerInv, RdCloseInv, RdUnused, RdStarting
<1>6. RdCountInv
  BY <1>3, RdBounds, FS_EmptySet DEF RdInit, RdCountInv
<1> QED BY <1>1, <1>2, <1>4, <1>5, <1>6 DEF RdInv

LEMMA RdSteps ==
  ASSUME RdInv, RdNext
  PROVE  RdInv'
<1>1. CASE RdOwnStep
  <2>1. CASE \E j \in RdJobs : RdReceives(j) \/ RdGivesUp(j) \/ RdContextAwaited(j) \/ RdJobAwaited(j)
    BY <2>1, RdReceivesKeeps, RdGivesUpKeeps, RdContextAwaitedKeeps, RdJobAwaitedKeeps
  <2>2. CASE RdCloseEnds("browser", "driver")
    BY <2>2, RdCloseEndsKeeps
  <2>3. CASE RdCloseEnds("driver", "closed")
    BY <2>3, RdCloseEndsKeeps
  <2> QED BY <1>1, <2>1, <2>2, <2>3, RdCloseContextsKeeps, RdCloseJobsKeeps DEF RdOwnStep
<1>2. CASE RdCrash
  BY <1>2 DEF RdCrash, RdInv, RdTypeOK, RdLockInv, RdOwnerInv, RdCloseInv, RdCountInv, RdBusy,
     RdSlots, RdDone
<1>3. CASE \E j \in RdJobs : RdRender(j) \/ RdJobStep(j)
  BY <1>3, RdRenderKeeps, RdSlotKeeps, RdEnsureKeeps, RdResetKeeps, RdStartKeeps, RdLaunchKeeps,
     RdLateKeeps, RdContextKeeps, RdFrameKeeps, RdPageFailsKeeps, RdContextClosesKeeps,
     RdClosedKeeps, RdDecodedKeeps DEF RdJobStep
<1> QED BY <1>1, <1>2, <1>3, RdCloseBeginsKeeps DEF RdNext

-----------------------------------------------------------------------------
\* What the invariant says of the images, the slots, the browser and close().
LEMMA RdInvOwns ==
  ASSUME RdInv
  PROVE  RdImagesOwned /\ RdPlacesReturn /\ RdOneBrowser /\ RdNothingLeft
<1>1. \A j \in RdJobs : rdJob[j] \in RdState /\ RdJobOK(rdJob[j])
  BY RdJobFacts
<1>2. RdImagesOwned
  BY <1>1 DEF RdImagesOwned, RdJobOK, RdDone, RdState
<1>3. RdPlacesReturn
  <2> DEFINE open == {j \in RdJobs : rdJob[j].context \in {"open", "closing"}}
  <2>1. open \subseteq RdSlots
    BY <1>1 DEF RdSlots, RdJobOK, RdState, RdIdle, RdStarting
  <2>2. IsFiniteSet(RdSlots)
    <3>1. IsFiniteSet(RdJobs)
      BY FS_Interval
    <3> QED BY <3>1, FS_Subset DEF RdSlots
  <2>3. Cardinality(open) <= Cardinality(RdSlots) /\ Cardinality(open) \in Nat
        /\ Cardinality(RdSlots) \in Nat
    BY <2>1, <2>2, FS_Subset, FS_CardinalityType
  <2>4. rdFree \in Nat /\ rdFree + Cardinality(RdSlots) = RdActive
    BY DEF RdInv, RdTypeOK, RdCountInv
  <2>5. Cardinality(open) <= RdActive
    BY <2>3, <2>4, RdBounds
  <2>6. \A j \in RdJobs : RdDone(j) => rdJob[j].context \in {"none", "closed", "broken"}
    BY <1>1 DEF RdJobOK, RdDone
  <2> QED BY <2>5, <2>6 DEF RdPlacesReturn, RdInv, RdCountInv, RdBusy, RdSlots
<1>4. RdOneBrowser
  <2>1. SUFFICES ASSUME ~rdStopped, NEW x \in rdLive, NEW y \in rdLive,
                        x.what = "browser", y.what = "browser"
        PROVE  x = y /\ x.of = rdBrowser.browser
    BY DEF RdOneBrowser
  <2>2. x \in RdResource /\ y \in RdResource
    BY DEF RdInv, RdTypeOK
  <2>3. x.of = rdBrowser.browser /\ y.of = rdBrowser.browser
    BY <2>1 DEF RdInv, RdLockInv
  <2> QED BY <2>1, <2>2, <2>3 DEF RdResource
<1>5. RdNothingLeft
  <2>1. SUFFICES ASSUME rdClose.at = "closed", ~rdClose.bad, NEW x \in rdLive
        PROVE  x \in rdLost
    BY DEF RdNothingLeft
  <2>2. x.what \in {"browser", "driver"} /\ x.of \in RdJobs /\ x.of # 0
    BY RdBounds DEF RdInv, RdTypeOK, RdResource
  <2>3. /\ rdClose[x.what] = 0 /\ rdBrowser[x.what] = 0 /\ RdBusy = {}
    BY <2>1, <2>2 DEF RdInv, RdCloseInv
  <2>4. rdJob[x.of].at \in {"unused", "over"}
    BY <2>2, <2>3 DEF RdBusy
  <2> QED BY <2>1, <2>2, <2>3, <2>4 DEF RdInv, RdOwnerInv
<1> QED BY <1>2, <1>3, <1>4, <1>5

-----------------------------------------------------------------------------
\* What the generator lets go it owns, and of an image it goes on with it keeps
\* the working copy.
LEMMA PlDroppedOwned ==
  ASSUME PlInv, plAt = "given", NEW last \in BOOLEAN
  PROVE  /\ PlDropped(last) \subseteq plOwned
         /\ ~last => plImages.working \notin PlDropped(last)
<1>1. /\ {plImages.working, plImages.content, plImages.normalized, plImages.fitted} \subseteq plOwned
      /\ plImages.working <= plImages.content /\ plImages.content <= plImages.normalized
      /\ plImages.normalized <= plImages.fitted /\ plOwned \subseteq Int
  BY DEF PlInv, PlNamesInv, PlPoolInv
<1>2. PICK w \in Int, c \in Int, n \in Int, f \in Int :
        /\ w = plImages.working /\ c = plImages.content /\ n = plImages.normalized
        /\ f = plImages.fitted
  BY <1>1
<1>3. PlDropped(last) = (IF f # n THEN {f} ELSE {}) \cup (IF n # c THEN {n} ELSE {})
                          \cup (IF c # w THEN {c} ELSE {}) \cup (IF last /\ w # 0 THEN {w} ELSE {})
  BY <1>2 DEF PlDropped
<1> QED BY <1>1, <1>2, <1>3

\* Up to the next sheet: what is made is named, closed or handed over.
LEMMA PlSheetKeeps ==
  ASSUME PlInv, plAt \in {"open", "given"}, NEW same \in BOOLEAN, PlSheet(same)
  PROVE  PlInv'
<1> DEFINE s == plPlan[plStrip + 1]
           fresh == plStrip = 0 \/ plImages.source # s.image
           copies == IF ~fresh THEN 0 ELSE IF plJob.turn /\ ~same THEN 2 ELSE 1
           working == IF fresh THEN plMade + copies ELSE plImages.working
           size == PlTurned(plJob.sizes[s.image], plJob.turn)
           c == IF s.whole = size THEN 0 ELSE 1
           content == IF c = 0 THEN working ELSE plMade + copies + 1
           n == IF s.whole = s.normal THEN 0 ELSE 1
           normalized == IF n = 0 THEN content ELSE plMade + copies + c + 1
           f == IF s.fitted = s.normal THEN 0 ELSE 1
           fitted == IF f = 0 THEN normalized ELSE plMade + copies + c + n + 1
           sheet == plMade + copies + c + n + f + 1
           dropped == IF plStrip = 0 THEN {} ELSE PlDropped(fresh)
           turned == IF copies = 2 THEN {plMade + 1} ELSE {}
<1>1. /\ plImages' = [source |-> s.image, working |-> working, content |-> content,
                      normalized |-> normalized, fitted |-> fitted]
      /\ plMade' = sheet
      /\ plClosed' = plClosed \cup dropped \cup turned
      /\ plOwned' = (plOwned \ dropped) \cup ((plMade + 1 .. sheet - 1) \ turned)
      /\ plTaken' = plTaken \cup {sheet}
      /\ plStrip' = plStrip + 1 /\ plAt' = "given"
  BY DEF PlSheet
<1>2. /\ plMade \in Nat /\ plStrip \in Nat /\ fresh \in BOOLEAN
      /\ copies \in {0, 1, 2} /\ (~fresh => copies = 0) /\ (fresh => copies \in {1, 2})
      /\ c \in {0, 1} /\ n \in {0, 1} /\ f \in {0, 1}
  BY DEF PlInv
<1>3. plStrip # 0 => plAt = "given"
  BY DEF PlInv, PlNamesInv
<1>4. /\ dropped \subseteq plOwned
      /\ ~fresh => /\ plImages.working \in plOwned \ dropped
                   /\ plImages.working \in 1..plMade
  <2>1. CASE plStrip = 0
    BY <2>1
  <2>2. CASE plStrip # 0
    <3>1. PlDropped(fresh) \subseteq plOwned /\ (~fresh => plImages.working \notin PlDropped(fresh))
      BY <1>2, <1>3, <2>2, PlDroppedOwned
    <3>2. plImages.working \in plOwned /\ plOwned \subseteq 1..plMade
      BY <1>3, <2>2 DEF PlInv, PlNamesInv, PlPoolInv
    <3> QED BY <2>2, <3>1, <3>2
  <2> QED BY <2>1, <2>2
<1>5. turned \subseteq plMade + 1 .. plMade + 1 /\ (turned # {} => copies = 2)
  BY <1>2
<1> HIDE DEF fresh, copies, c, n, f, dropped, turned, s, size
<1>6. /\ sheet \in Nat /\ sheet > plMade
      /\ working = (IF fresh THEN plMade + copies ELSE plImages.working)
  BY <1>2
<1>7. turned \subseteq plMade + 1 .. sheet - 1
  BY <1>2, <1>5
<1>8. PlPoolInv'
  <2>1. /\ plOwned \cap plClosed = {} /\ plOwned \cap plTaken = {} /\ plClosed \cap plTaken = {}
        /\ plOwned \cup plClosed \cup plTaken = 1..plMade
    BY DEF PlInv, PlPoolInv
  <2> HIDE DEF sheet
  <2>2. DEFINE new == plMade + 1 .. sheet - 1
  <2>3. /\ 1..sheet = (1..plMade) \cup new \cup {sheet} /\ new \cap (1..plMade) = {}
        /\ sheet \notin new /\ sheet \notin 1..plMade
    BY <1>2, <1>6
  <2>4. turned \subseteq new
    BY <1>7
  <2>5. /\ plOwned' = (plOwned \ dropped) \cup (new \ turned)
        /\ plClosed' = plClosed \cup dropped \cup turned /\ plTaken' = plTaken \cup {sheet}
        /\ plMade' = sheet
    BY <1>1
  <2> HIDE DEF new
  <2> QED BY <1>4, <2>1, <2>3, <2>4, <2>5 DEF PlPoolInv
<1>9. PlNamesInv'
  <2>1. working \in plOwned' /\ working \in Int /\ working <= plMade + copies
    <3>1. CASE fresh
      BY <1>1, <1>2, <1>5, <3>1
    <3>2. CASE ~fresh
      BY <1>1, <1>2, <1>4, <3>2
    <3> QED BY <3>1, <3>2
  <2> HIDE DEF working
  <2>2. /\ content \in plOwned' /\ content \in Int /\ content <= plMade + copies + c
        /\ working <= content
    <3>1. CASE c = 0
      BY <1>2, <2>1, <3>1
    <3>2. CASE c = 1
      BY <1>1, <1>2, <1>5, <2>1, <3>2
    <3> QED BY <1>2, <3>1, <3>2
  <2> HIDE DEF content
  <2>3. /\ normalized \in plOwned' /\ normalized \in Int /\ normalized <= plMade + copies + c + n
        /\ content <= normalized
    <3>1. CASE n = 0
      BY <1>2, <2>2, <3>1
    <3>2. CASE n = 1
      BY <1>1, <1>2, <1>5, <2>2, <3>2
    <3> QED BY <1>2, <3>1, <3>2
  <2> HIDE DEF normalized
  <2>4. fitted \in plOwned' /\ normalized <= fitted
    <3>1. CASE f = 0
      BY <1>2, <2>3, <3>1
    <3>2. CASE f = 1
      BY <1>1, <1>2, <1>5, <2>3, <3>2
    <3> QED BY <1>2, <3>1, <3>2
  <2> HIDE DEF fitted
  <2>5. /\ plImages'.working = working /\ plImages'.content = content
        /\ plImages'.normalized = normalized /\ plImages'.fitted = fitted
    BY <1>1
  <2> QED BY <1>1, <1>2, <2>1, <2>2, <2>3, <2>4, <2>5 DEF PlNamesInv
<1> QED BY <1>1, <1>2, <1>6, <1>8, <1>9 DEF PlInv

LEMMA PlSteps ==
  ASSUME PlInv, [PlNext]_plVars
  PROVE  PlInv'
<1>1. CASE PlAdvance
  BY <1>1, PlSheetKeeps DEF PlAdvance
<1>2. CASE PlFinish
  <2>1. PlDropped(TRUE) \subseteq plOwned
    BY <1>2, PlDroppedOwned DEF PlFinish
  <2>2. plClosed' = plClosed \cup plOwned
    BY <1>2, <2>1 DEF PlFinish
  <2> QED BY <1>2, <2>2 DEF PlFinish, PlInv, PlPoolInv, PlNamesInv
<1>3. CASE PlStop
  <2>1. PICK made \in 0..2 :
          /\ plMade' = plMade + made
          /\ plClosed' = plClosed \cup plOwned \cup (plMade + 1 .. plMade + made)
    BY <1>3 DEF PlStop
  <2>2. /\ plMade \in Nat /\ plMade' \in Nat
        /\ 1..plMade' = (1..plMade) \cup (plMade + 1 .. plMade + made)
        /\ (1..plMade) \cap (plMade + 1 .. plMade + made) = {}
    BY <2>1 DEF PlInv
  <2>3. plAt' = "ended" /\ plOwned' = {} /\ UNCHANGED <<plStrip, plTaken>>
    BY <1>3 DEF PlStop
  <2>4. PlPoolInv'
    BY <2>1, <2>2, <2>3 DEF PlInv, PlPoolInv
  <2> QED BY <2>2, <2>3, <2>4 DEF PlInv, PlNamesInv
<1>4. CASE UNCHANGED plVars
  BY <1>4 DEF plVars, PlInv, PlPoolInv, PlNamesInv
<1> QED BY <1>1, <1>2, <1>3, <1>4 DEF PlNext

LEMMA PlInvOwns ==
  ASSUME PlInv
  PROVE  PlImagesOwned
BY DEF PlInv, PlPoolInv, PlNamesInv, PlImagesOwned

-----------------------------------------------------------------------------
\* Whatever way a label takes, its images have one owner each, who closes them or
\* hands them over; the renderer's slots, contexts and browser come back, and a
\* renderer that closed well left none (rendering/template.py, paper_layout.py).
THEOREM RenderedImagesAreOwned == PathSpec => []ImagesAreOwned
<1> DEFINE Inv == RdInv /\ PlInv
<1>1. PathInit => Inv
  <2>1. PlInit => PlInv
    <3>1. 1..0 = {}
      OBVIOUS
    <3> QED BY <3>1 DEF PlInit, PlInv, PlPoolInv, PlNamesInv
  <2> QED BY <2>1, RdStarts DEF PathInit
<1>2. Inv /\ [PathNext]_pathVars => Inv'
  <2> SUFFICES ASSUME Inv, [PathNext]_pathVars PROVE Inv'
    OBVIOUS
  <2>1. [RdNext]_rdVars /\ [PlNext]_plVars
    BY DEF PathNext, pathVars
  <2>2. RdInv'
    <3>1. CASE RdNext
      BY <3>1, RdSteps
    <3>2. CASE UNCHANGED rdVars
      BY <3>2 DEF rdVars, RdInv, RdTypeOK, RdLockInv, RdOwnerInv, RdCloseInv, RdCountInv, RdBusy,
         RdSlots, RdDone
    <3> QED BY <2>1, <3>1, <3>2
  <2>3. PlInv'
    BY <2>1, PlSteps
  <2> QED BY <2>2, <2>3
<1>3. Inv => ImagesAreOwned
  BY RdInvOwns, PlInvOwns DEF ImagesAreOwned
<1> QED BY <1>1, <1>2, <1>3, PTL DEF PathSpec
-----------------------------------------------------------------------------
(* What one is told of a print.                                             *)

\* The outcome an editor shows, the plan an agent prepared and the strips of an
\* image are what is printed: a print reported as stopped is not printed and one
\* reported as done was printed whole, what comes out of a plan is what was
\* previewed with the settings it was prepared with, once, and the strips of an
\* image are all of it.
THEOREM PrintsAreTold == PathSpec => []PrintsAreAsTold
<1> DEFINE Inv == PrepInv /\ FzInv /\ PlPlanIsWhole
<1>1. PathInit => Inv
  BY PrepInitInv, FzInitHolds, PlPlanStarts DEF PathInit
<1>2. Inv /\ [PathNext]_pathVars => Inv'
  <2> SUFFICES ASSUME Inv, [PathNext]_pathVars PROVE Inv'
    OBVIOUS
  <2>1. [PrepNext]_vars /\ [FzNext]_fzVars /\ [PlNext]_plVars
    BY DEF PathNext, pathVars
  <2>2. PrepInv'
    BY <2>1, PrepStep
  <2>3. FzInv'
    BY <2>1, FzNextInv
  <2>4. PlPlanIsWhole'
    BY <2>1, PlPlanStays
  <2> QED BY <2>2, <2>3, <2>4
<1>3. Inv => PrintsAreAsTold
  BY OutcomeToldNow, FzInvPrints DEF PrintsAreAsTold
<1> QED BY <1>1, <1>2, <1>3, PTL DEF PathSpec
=============================================================================
