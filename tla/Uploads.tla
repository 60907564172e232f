------------------------------- MODULE Uploads -------------------------------
(* Font and PDF uploads (services/uploads.py), the font list                *)
(* (api/main.py) and the ceiling on a request's body                        *)
(* (api/request_limits.py).  A font's contents are the upload they came     *)
(* from.  A crash ends the threads and drops the lock; files and committed  *)
(* rows stay.                                                               *)
EXTENDS Naturals, Sequences, FiniteSets, Folds, SequencesExt

CONSTANTS
  UpUploaders,   \* requests that store a font
  UpNames,       \* filenames they use
  UpMaxBytes,    \* MAX_REQUEST_BYTES: 10 <= UpMaxBytes <= 99, two digits
  UpMaxPages,    \* MAX_PRINT_JOBS
  UpMaxPixels,   \* MAX_RENDER_PIXELS
  UpTrouble      \* failures and crashes (bound)

ASSUME UploadsAssumption ==
  UpMaxBytes \in 10..99 /\ UpMaxPixels \in Nat /\ "none" \notin UpUploaders

VARIABLES
  upDisk,        \* name -> the uploader whose bytes the file has, or "none"
  upTemp,        \* temporary files, by the uploader that wrote them
  upRows,        \* rows of Font, as a bag: name -> count
  upLock,        \* _FONT_PROMOTION_LOCK
  upFont,        \* [at, name] of an upload
  upList,        \* list_fonts: [at, rows, files]
  upPdf,         \* the conversion: [caller, worker, stop, sizes, next, pixels, bytes]
  upBody,        \* the request: [at, declared, got]
  upLeft         \* failures and crashes left

upFontVars == <<upDisk, upTemp, upRows, upLock, upFont, upList>>
upVars == <<upDisk, upTemp, upRows, upLock, upFont, upList, upPdf, upBody, upLeft>>

UpFails == upLeft > 0 /\ upLeft' = upLeft - 1

UpNoPdf == [caller |-> "none", worker |-> "none", stop |-> FALSE, sizes |-> <<>>, next |-> 1,
            pixels |-> 0, rendered |-> 0, bytes |-> 0]
UpNoBody == [at |-> "none", declared |-> <<>>, got |-> 0]
UpInit ==
  /\ upDisk = [n \in UpNames |-> "none"] /\ upTemp = {} /\ upRows = [n \in UpNames |-> 0]
  /\ upLock = "none" /\ upFont = [u \in UpUploaders |-> [at |-> "idle", name |-> "none"]]
  /\ upList = [at |-> "idle", rows |-> {}, files |-> {}]
  /\ upPdf = UpNoPdf /\ upBody = UpNoBody
  /\ upLeft = UpTrouble

-----------------------------------------------------------------------------
(* Fonts: _store_uploaded_font_sync.                                        *)
UpFontAt(u, at) == upFont[u].at = at
UpFontGoes(u, at) == upFont' = [upFont EXCEPT ![u].at = at]
UpHasRow(n) == upRows[n] > 0

UpStart(u, n) ==
  /\ UpFontAt(u, "idle") /\ upFont' = [upFont EXCEPT ![u] = [at |-> "valid", name |-> n]]
  /\ UNCHANGED <<upDisk, upTemp, upRows, upLock, upList, upLeft>>

UpLocked(u) ==
  /\ UpFontAt(u, "valid") /\ upLock = "none" /\ upLock' = u /\ UpFontGoes(u, "locked")
  /\ UNCHANGED <<upDisk, upTemp, upRows, upList, upLeft>>

(* 409 for a file or a row of that name, else the bytes go to a temporary.  *)
UpWrites(u) ==
  /\ UpFontAt(u, "locked")
  /\ IF upDisk[upFont[u].name] # "none" \/ UpHasRow(upFont[u].name)
     THEN UpFontGoes(u, "refused") /\ upLock' = "none" /\ UNCHANGED upTemp
     ELSE UpFontGoes(u, "written") /\ upTemp' = upTemp \cup {u} /\ UNCHANGED upLock
  /\ UNCHANGED <<upDisk, upRows, upList, upLeft>>

UpPromotes(u) ==
  /\ UpFontAt(u, "written") /\ UpFontGoes(u, "promoted")
  /\ upTemp' = upTemp \ {u} /\ upDisk' = [upDisk EXCEPT ![upFont[u].name] = u]
  /\ UNCHANGED <<upRows, upLock, upList, upLeft>>

UpCommits(u) ==
  /\ UpFontAt(u, "promoted") /\ UpFontGoes(u, "stored")
  /\ upRows' = [upRows EXCEPT ![upFont[u].name] = @ + 1] /\ upLock' = "none"
  /\ UNCHANGED <<upDisk, upTemp, upList, upLeft>>

(* A mutated form of UpBreaks: the lock is not given back after a failure.  *)
UpBreaksLocked(u) ==
  /\ UpFails /\ upFont[u].at \in {"written", "promoted"} /\ UpFontGoes(u, "refused")
  /\ upTemp' = upTemp \ {u}
  /\ upDisk' = IF UpFontAt(u, "promoted") THEN [upDisk EXCEPT ![upFont[u].name] = "none"] ELSE upDisk
  /\ UNCHANGED <<upRows, upLock, upList>>

(* The write or the commit fails: the upload removes its own files.         *)
UpBreaks(u) ==
  /\ UpFails /\ upFont[u].at \in {"written", "promoted"} /\ UpFontGoes(u, "refused")
  /\ upTemp' = upTemp \ {u} /\ upLock' = "none"
  /\ upDisk' = IF UpFontAt(u, "promoted") THEN [upDisk EXCEPT ![upFont[u].name] = "none"] ELSE upDisk
  /\ UNCHANGED <<upRows, upList>>

(* list_fonts: rows, then files, then a row for every file without one; it  *)
(* does not take the lock.                                                  *)
UpListsRows ==
  /\ upList.at = "idle"
  /\ upList' = [at |-> "rows", rows |-> {n \in UpNames : UpHasRow(n)}, files |-> {}]
  /\ UNCHANGED <<upDisk, upTemp, upRows, upLock, upFont, upLeft>>
UpListsFiles ==
  /\ upList.at = "rows"
  /\ upList' = [upList EXCEPT !.at = "files", !.files = {n \in UpNames : upDisk[n] # "none"}]
  /\ UNCHANGED <<upDisk, upTemp, upRows, upLock, upFont, upLeft>>
UpListAdopts ==
  /\ upList.at = "files" /\ upList' = [at |-> "done", rows |-> {}, files |-> {}]
  /\ upRows' = [n \in UpNames |-> upRows[n] + IF n \in upList.files \ upList.rows THEN 1 ELSE 0]
  /\ UNCHANGED <<upDisk, upTemp, upLock, upFont, upLeft>>

UpCrashes ==
  /\ UpFails /\ upLock' = "none"
  /\ upFont' = [u \in UpUploaders |-> IF upFont[u].at \in {"idle", "stored"} THEN upFont[u]
                                      ELSE [at |-> "lost", name |-> "none"]]
  /\ upList' = [at |-> "idle", rows |-> {}, files |-> {}]
  /\ UNCHANGED <<upDisk, upTemp, upRows>>

-----------------------------------------------------------------------------
(* PDF: convert_uploaded_pdf and its thread.                                *)
UpPdfStart(sizes) ==
  /\ upPdf.caller = "none" /\ sizes # <<>>
  /\ upPdf' = [UpNoPdf EXCEPT !.caller = "waiting", !.sizes = sizes,
                 !.worker = IF Len(sizes) > UpMaxPages THEN "refused" ELSE "measuring"]

(* The caller goes, or the task alone is cancelled; only the caller drains. *)
UpPdfCancel(whose) ==
  /\ upPdf.caller = "waiting" /\ upPdf.worker \in {"measuring", "rendering"}
  /\ upPdf' = [upPdf EXCEPT !.stop = TRUE,
                            !.caller = IF whose = "caller" THEN "draining" ELSE "abandoned"]

(* A mutated form of UpPdfEnds: the cancelled caller does not wait.         *)
UpPdfEndsNow ==
  /\ \/ upPdf.caller = "waiting" /\ upPdf.worker \in {"converted", "refused", "stopped"}
     \/ upPdf.caller = "draining"
  /\ upPdf' = [upPdf EXCEPT !.caller = IF @ = "waiting" THEN "answered" ELSE "cancelled"]

UpPdfEnds ==
  /\ upPdf.caller \in {"waiting", "draining"}
  /\ upPdf.worker \in {"converted", "refused", "stopped"}
  /\ upPdf' = [upPdf EXCEPT !.caller = IF @ = "waiting" THEN "answered" ELSE "cancelled"]

UpPdfStops ==
  /\ upPdf.stop /\ upPdf.worker \in {"measuring", "rendering"}
  /\ upPdf' = [upPdf EXCEPT !.worker = "stopped"]

(* Every page is measured against the budget before the first is rendered.  *)
UpPdfMeasures ==
  /\ upPdf.worker = "measuring" /\ ~upPdf.stop
  /\ LET pixels == upPdf.pixels + upPdf.sizes[upPdf.next]
         last == upPdf.next = Len(upPdf.sizes)
     IN upPdf' = [upPdf EXCEPT
          !.pixels = pixels,
          !.next = IF last THEN 1 ELSE @ + 1,
          !.worker = IF pixels > UpMaxPixels THEN "refused" ELSE IF last THEN "rendering" ELSE @]

(* The response is counted before the page is kept.                         *)
UpPdfRenders(bytes) ==
  /\ upPdf.worker = "rendering" /\ ~upPdf.stop
  /\ LET fits == upPdf.bytes + bytes <= UpMaxBytes
         last == upPdf.next = Len(upPdf.sizes)
     IN upPdf' = [upPdf EXCEPT
          !.rendered = @ + upPdf.sizes[upPdf.next],
          !.next = @ + 1,
          !.bytes = IF fits THEN @ + bytes ELSE @,
          !.worker = IF ~fits THEN "refused" ELSE IF last THEN "converted" ELSE @]

(* _InvalidUploadedPDF: the document or a page cannot be read.              *)
UpPdfRefuses ==
  /\ upPdf.worker \in {"measuring", "rendering"}
  /\ upPdf' = [upPdf EXCEPT !.worker = "refused"]

-----------------------------------------------------------------------------
(* RequestLimitsMiddleware: the header's digits, then the bytes that come.  *)
UpDigits(n) == IF n < 10 THEN <<n>> ELSE <<n \div 10, n % 10>>
UpValue(digits) == FoldLeft(LAMBDA value, d : 10 * value + d, 0, digits)

(* lstrip(b"0"), or b"0"; then shorter or of the same length and not after. *)
UpNormalized(digits) ==
  LET kept == {i \in DOMAIN digits : \A j \in 1..i : digits[j] = 0}
      rest == SubSeq(digits, Cardinality(kept) + 1, Len(digits))
  IN IF rest = <<>> THEN <<0>> ELSE rest
UpAfter(s, t) ==
  \E i \in DOMAIN s \cap DOMAIN t : s[i] > t[i] /\ \A j \in 1..(i - 1) : s[j] = t[j]
UpTooLong(digits) ==
  LET n == UpNormalized(digits)  max == UpDigits(UpMaxBytes) IN
  Len(n) > Len(max) \/ (Len(n) = Len(max) /\ UpAfter(n, max))

UpRequest(digits) ==
  /\ upBody.at = "none"
  /\ upBody' = [at |-> IF UpTooLong(digits) THEN "declared" ELSE "reading",
                declared |-> digits, got |-> 0]

(* What arrives need not be what was declared.                              *)
UpReceive(bytes, more) ==
  /\ upBody.at = "reading"
  /\ LET got == upBody.got + bytes IN
     upBody' = [upBody EXCEPT
       !.got = got,
       !.at = IF got > UpMaxBytes THEN "counted" ELSE IF more THEN @ ELSE "handled"]
UpDisconnect == upBody.at = "reading" /\ upBody' = [upBody EXCEPT !.at = "gone"]

-----------------------------------------------------------------------------
UpFontStep(u) == UpLocked(u) \/ UpWrites(u) \/ UpPromotes(u) \/ UpCommits(u)
UpPdfStep ==
  /\ UpPdfEnds \/ UpPdfStops \/ UpPdfMeasures \/ \E bytes \in {4, 7} : UpPdfRenders(bytes)
  /\ UNCHANGED <<upFontVars, upBody, upLeft>>
UpStep ==
  \/ /\ \/ \E u \in UpUploaders : UpFontStep(u)
        \/ UpListsFiles \/ UpListAdopts
     /\ UNCHANGED <<upPdf, upBody>>
  \/ UpPdfStep

UpPageSizes == {<<1>>, <<1, 2>>, <<2, 3>>, <<1, 1, 1>>}
UpHeaders == {<<0, 0, 9>>, <<9>>, <<1, 0>>, <<1, 1>>, <<2, 0>>, <<0>>, <<1, 0, 0>>, <<0, 1, 0>>, <<0, 2, 1>>}

(* The three do not meet: a behaviour uploads fonts, converts a PDF or      *)
(* sends a request.                                                         *)
UpFontsAlone == upPdf = UpNoPdf /\ upBody = UpNoBody
UpNoFonts == \A u \in UpUploaders : UpFontAt(u, "idle")
UpNext ==
  \/ UpStep
  \/ /\ UpFontsAlone
     /\ \/ \E u \in UpUploaders, n \in UpNames : UpStart(u, n)
        \/ \E u \in UpUploaders : UpBreaks(u)
        \/ UpListsRows \/ UpCrashes
     /\ UNCHANGED <<upPdf, upBody>>
  \/ /\ UpNoFonts
     /\ \/ \E sizes \in UpPageSizes : upBody = UpNoBody /\ UpPdfStart(sizes)
        \/ \E whose \in {"caller", "task"} : UpPdfCancel(whose)
        \/ UpPdfRefuses
     /\ UNCHANGED <<upFontVars, upBody, upLeft>>
  \/ /\ UpNoFonts
     /\ \/ \E digits \in UpHeaders : upPdf = UpNoPdf /\ UpRequest(digits)
        \/ \E bytes \in {0, 4, 7}, more \in BOOLEAN : UpReceive(bytes, more)
        \/ UpDisconnect
     /\ UNCHANGED <<upFontVars, upPdf, upLeft>>

UpFairness == WF_upVars(UpStep)
UpSpec == UpInit /\ [][UpNext]_upVars /\ UpFairness

-----------------------------------------------------------------------------
(* "Uploading over an existing font is rejected so a failed installation    *)
(* cannot replace a font used by saved designs" (docs/resource-limits.md):  *)
(* once an upload was answered, its file is there with its bytes, whatever  *)
(* other uploads, the font list or a crash do.                              *)
UpStoredFontKept == \A u \in UpUploaders : UpFontAt(u, "stored") => upDisk[upFont[u].name] = u

(* A cancelled caller returns when its worker has ended (the docstring of   *)
(* convert_uploaded_pdf), and neither pages nor bodies go over a ceiling.   *)
UpCancelledIsOver == upPdf.caller = "cancelled" => upPdf.worker \in {"converted", "refused", "stopped"}
UpWithinLimits ==
  /\ upPdf.rendered <= UpMaxPixels /\ upPdf.bytes <= UpMaxBytes
  /\ upBody.at = "handled" => upBody.got <= UpMaxBytes
  /\ upBody.at # "none" => (upBody.at = "declared") = (UpValue(upBody.declared) > UpMaxBytes)

(* What the proofs add.  Only the lock's holder writes and promotes, the    *)
(* bytes it promotes come to a name without a file, and stay its own.      *)
UpFontPlaces == {"idle", "valid", "locked", "written", "promoted", "stored", "refused", "lost"}
UpFontInv ==
  /\ upLock \in UpUploaders \cup {"none"}
  /\ upDisk \in [UpNames -> UpUploaders \cup {"none"}]
  /\ upFont \in [UpUploaders -> [at : UpFontPlaces, name : UpNames \cup {"none"}]]
  /\ \A u \in UpUploaders :
       /\ upFont[u].at \in {"locked", "written", "promoted"} => upLock = u
       /\ upFont[u].at \in {"valid", "locked", "written", "promoted", "stored"} => upFont[u].name \in UpNames
       /\ upFont[u].at = "written" => upDisk[upFont[u].name] = "none"
       /\ upFont[u].at \in {"promoted", "stored"} => upDisk[upFont[u].name] = u

(* A conversion has measured, then rendered, the pages before its next one. *)
UpPdfs == [caller : {"none", "waiting", "draining", "abandoned", "answered", "cancelled"},
           worker : {"none", "measuring", "rendering", "refused", "stopped", "converted"},
           stop : BOOLEAN, sizes : Seq(Nat), next : Nat, pixels : Nat, rendered : Nat, bytes : Nat]
UpPixels(k) == SumFunctionOnSet(upPdf.sizes, 1..k)
UpPdfInv ==
  /\ upPdf \in UpPdfs
  /\ upPdf.worker = "measuring" =>
       /\ upPdf.next \in 1..Len(upPdf.sizes) /\ upPdf.pixels = UpPixels(upPdf.next - 1)
       /\ upPdf.rendered = 0 /\ upPdf.bytes = 0
  /\ upPdf.worker = "rendering" =>
       /\ upPdf.next \in 1..Len(upPdf.sizes) /\ UpPixels(Len(upPdf.sizes)) <= UpMaxPixels
       /\ upPdf.rendered = UpPixels(upPdf.next - 1)
  /\ upPdf.rendered <= UpMaxPixels /\ upPdf.bytes <= UpMaxBytes /\ UpCancelledIsOver

(* A request is refused at its header by its digits, and later by its bytes. *)
UpBodies == [at : {"none", "declared", "reading", "counted", "handled", "gone"},
             declared : Seq(0..9), got : Nat]
UpBodyInv ==
  /\ upBody \in UpBodies
  /\ upBody.at # "none" => (upBody.at = "declared") = UpTooLong(upBody.declared)
  /\ upBody.at = "handled" => upBody.got <= UpMaxBytes
UpInv == UpFontInv /\ UpPdfInv /\ UpBodyInv

(* Every upload and conversion ends, and gives the lock back.               *)
UpEnded ==
  /\ \A u \in UpUploaders : upFont[u].at \in {"idle", "stored", "refused", "lost"}
  /\ upLock = "none" /\ \A u \in upTemp : UpFontAt(u, "lost")
  /\ upPdf.caller \notin {"waiting", "draining"}
=============================================================================
