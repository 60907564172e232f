--------------------------- MODULE NiimbotClient ---------------------------
(* A print of vendors/niimbot/client.py over a link that loses, delays and *)
(* refuses replies: the coroutine, the notification callback that runs in  *)
(* Bleak's thread and hands packets to the event loop, and the printer.    *)
(* A packet carries the code of the request it answers; "error" is 0x00 or *)
(* 0xDB, "E0" the page index of a finished page.                           *)
EXTENDS Integers, Sequences, SequencesExt

CONSTANTS
  NbLabels,      \* labels of the print
  NbConfigured,  \* configured variants: "plain" (not of the D series), "d11_auto", "d11_v1", "d110"
  NbTrouble,     \* how often printer or link may misbehave (bound)
  NbPollLimit    \* status queries before the completion deadline (bound)

NiimbotAssumption == NbLabels \in Nat \ {0} /\ NbTrouble \in Nat /\ NbPollLimit \in Nat
ASSUME NiimbotAssumption

VARIABLES
  nbPhase,    \* "connect", "probe", "print", "cleanup", "closed"
  nbTries,    \* failed connection attempts
  nbVariant,
  nbLabel, nbAt,    \* the label and the position in its recipe
  nbEvent,    \* the registered request (its position), or 0
  nbAnswer,   \* what _publish_response stored for it, or the empty sequence
  nbLoop,     \* callbacks handed to the event loop
  nbFault,    \* _print_device_error is set
  nbPolled,   \* status queries of this label without the page's completion
  nbWaiter,   \* page-index waiter: "none", "armed", "set"
  nbOut, nbIn,      \* requests under way to the printer, packets under way back
  nbEnded, nbFinished,   \* labels whose page the printer has got, has ejected
  nbBegun, nbVerdict, nbLeft

nbClient == <<nbPhase, nbTries, nbVariant, nbLabel, nbAt, nbEvent, nbAnswer, nbPolled, nbWaiter, nbBegun, nbVerdict>>
nbPrinter == <<nbEnded, nbFinished>>
nbLink == <<nbOut, nbIn, nbLoop, nbFault>>
nbVars == <<nbClient, nbPrinter, nbLink, nbLeft>>

NbRecipe ==
  <<"endReset", "clearReset", "density", "type", "start">>
    \o (IF nbVariant = "plain" THEN <<>> ELSE <<"pageClear">>)
    \o <<"pageStart", "dimension", "quantity", "rows", "endPage">>
    \o (IF nbVariant = "plain" THEN <<>> ELSE <<"completion">>)
    \o <<"end">>
NbStage == NbRecipe[nbAt]

(* The response code a stage waits for: stages that repeat a command share *)
(* one, so a late answer could be taken for another stage's.               *)
NbCode(stage) ==
  CASE stage \in {"endReset", "end", "cleanup"} -> "F4"
    [] stage \in {"clearReset", "pageClear"} -> "30"
    [] OTHER -> stage

NbInit ==
  /\ nbPhase = "connect" /\ nbTries = 0 /\ nbVariant \in NbConfigured
  /\ nbLabel = 1 /\ nbAt = 1 /\ nbEvent = 0 /\ nbAnswer = <<>>
  /\ nbLoop = <<>> /\ nbFault = FALSE /\ nbWaiter = "none" /\ nbPolled = 0
  /\ nbOut = <<>> /\ nbIn = <<>> /\ nbEnded = 0 /\ nbFinished = 0
  /\ nbBegun = FALSE /\ nbVerdict = "open" /\ nbLeft = NbTrouble

NbTroubled == nbLeft > 0 /\ nbLeft' = nbLeft - 1

-----------------------------------------------------------------------------
(* The connection                                                          *)

NbConnect ==
  /\ nbPhase = "connect"
  /\ nbPhase' = IF nbVariant = "plain" THEN "print" ELSE "probe"
  /\ nbTries' = 0
  /\ UNCHANGED <<nbVariant, nbLabel, nbAt, nbEvent, nbAnswer, nbPolled, nbWaiter, nbBegun, nbVerdict,
                 nbPrinter, nbLink, nbLeft>>

(* connect() answers False after three attempts.                           *)
NbConnectFails ==
  /\ nbPhase = "connect"
  /\ nbTries' = nbTries + 1
  /\ IF nbTries < 2 THEN UNCHANGED <<nbPhase, nbVerdict>>
                    ELSE nbPhase' = "closed" /\ nbVerdict' = "refused"
  /\ UNCHANGED <<nbVariant, nbLabel, nbAt, nbEvent, nbAnswer, nbPolled, nbWaiter, nbBegun,
                 nbPrinter, nbLink, nbLeft>>

(* An unreadable answer of a probe leaves a configured variant alone and   *)
(* refuses a print whose variant the probe should have told.               *)
NbProbe ==
  /\ nbPhase = "probe"
  /\ \/ /\ nbVariant' \in IF nbVariant = "d11_auto" THEN {"d11_v1", "d110"} ELSE {nbVariant}
        /\ nbPhase' = "print" /\ UNCHANGED <<nbVerdict, nbLeft>>
     \/ /\ nbVariant = "d11_auto" \/ nbFault
        /\ NbTroubled /\ nbPhase' = "cleanup" /\ nbVerdict' = "refused" /\ UNCHANGED nbVariant
  /\ UNCHANGED <<nbTries, nbLabel, nbAt, nbEvent, nbAnswer, nbPolled, nbWaiter, nbBegun, nbPrinter, nbLink>>

-----------------------------------------------------------------------------
(* The print                                                               *)

(* A mutated form of NbFail: the flag is the stage's alone.                *)
NbFailByStage ==
  /\ nbPhase' = "cleanup"
  /\ nbVerdict' = IF NbStage \in {"endPage", "completion"} THEN "uncertain" ELSE "refused"
  /\ nbEvent' = 0 /\ nbAnswer' = <<>> /\ nbPolled' = 0 /\ nbWaiter' = "none"
  /\ UNCHANGED <<nbTries, nbVariant, nbLabel, nbAt, nbBegun>>

(* Leaving print_images by an error: uncertain once a row was written, or  *)
(* when the stage says so itself.                                          *)
NbFail ==
  /\ nbPhase' = "cleanup"
  /\ nbVerdict' = IF nbBegun \/ NbStage \in {"endPage", "completion"} THEN "uncertain" ELSE "refused"
  /\ nbEvent' = 0 /\ nbAnswer' = <<>> /\ nbPolled' = 0 /\ nbWaiter' = "none"
  /\ UNCHANGED <<nbTries, nbVariant, nbLabel, nbAt, nbBegun>>

(* A stage is over: the next one, the next label, or the print is done.    *)
NbAdvance ==
  /\ nbEvent' = 0 /\ nbAnswer' = <<>> /\ nbPolled' = 0
  /\ IF nbAt < Len(NbRecipe) THEN /\ nbAt' = nbAt + 1
                                  /\ UNCHANGED <<nbLabel, nbPhase, nbVerdict, nbWaiter>>
     ELSE /\ nbWaiter' = "none"
          /\ IF nbLabel < NbLabels
             THEN nbLabel' = nbLabel + 1 /\ nbAt' = 1 /\ UNCHANGED <<nbPhase, nbVerdict>>
             ELSE nbPhase' = "cleanup" /\ nbVerdict' = "printed" /\ UNCHANGED <<nbLabel, nbAt>>
  /\ UNCHANGED <<nbTries, nbVariant, nbBegun>>

(* Whether the stage sends a command and waits for its answer: D11 waits   *)
(* for the page index instead of asking.                                   *)
NbAsks == NbStage # "rows" /\ ~(NbStage = "completion" /\ nbVariant = "d11_v1")
NbIdle == nbPhase = "print" /\ nbEvent = 0

NbSend ==
  /\ NbIdle /\ NbAsks /\ ~nbFault
  /\ nbEvent' = nbAt /\ nbAnswer' = <<>>
  /\ nbOut' = Append(nbOut, [stage |-> NbStage, label |-> nbLabel])
  /\ UNCHANGED <<nbPhase, nbTries, nbVariant, nbLabel, nbAt, nbPolled, nbWaiter, nbBegun, nbVerdict,
                 nbPrinter, nbIn, nbLoop, nbFault, nbLeft>>

(* The waiter is armed before the first row leaves.                        *)
NbSendRows ==
  /\ NbIdle /\ NbStage = "rows" /\ ~nbFault
  /\ nbWaiter' = IF nbVariant = "plain" THEN "none" ELSE "armed"
  /\ nbBegun' = TRUE
  /\ nbOut' = Append(nbOut, [stage |-> "rows", label |-> nbLabel])
  /\ nbAt' = nbAt + 1
  /\ UNCHANGED <<nbPhase, nbTries, nbVariant, nbLabel, nbEvent, nbAnswer, nbPolled, nbVerdict,
                 nbPrinter, nbIn, nbLoop, nbFault, nbLeft>>

(* The link breaks while rows are being written: some may have left.       *)
NbRowsBreak ==
  /\ NbIdle /\ NbStage = "rows" /\ NbTroubled
  /\ nbBegun' = TRUE /\ nbPhase' = "cleanup" /\ nbVerdict' = "uncertain" /\ nbWaiter' = "none"
  /\ UNCHANGED <<nbTries, nbVariant, nbLabel, nbAt, nbEvent, nbAnswer, nbPolled, nbPrinter, nbLink>>

(* A latched device error, or a broken link, stops the print before its    *)
(* next write.                                                             *)
NbStop ==
  /\ NbIdle
  /\ \/ nbFault /\ UNCHANGED nbLeft
     \/ NbAsks /\ NbTroubled
  /\ NbFail
  /\ UNCHANGED <<nbPrinter, nbLink>>

(* The printer has not reported the page: the status is asked again until  *)
(* the completion deadline.                                                *)
NbPolls == NbStage = "completion"
NbPollAgain ==
  /\ nbPolled < NbPollLimit /\ nbPolled' = nbPolled + 1
  /\ nbEvent' = 0 /\ nbAnswer' = <<>>
  /\ UNCHANGED <<nbPhase, nbTries, nbVariant, nbLabel, nbAt, nbWaiter, nbBegun, nbVerdict>>

(* A reset may be refused or go unanswered, but not with a device error;   *)
(* the other commands need a positive acknowledgement.                     *)
NbAccepts(packet) ==
  packet.code # "error" /\ (NbStage \in {"endReset", "clearReset"} \/ packet.positive)

NbAnswered ==
  /\ nbPhase = "print" /\ nbEvent # 0 /\ nbAnswer # <<>>
  /\ LET packet == Head(nbAnswer) IN
     \/ ~nbFault /\ NbAccepts(packet) /\ NbAdvance
     \/ (nbFault \/ (~NbAccepts(packet) /\ (packet.code = "error" \/ ~NbPolls \/ nbPolled = NbPollLimit))) /\ NbFail
     \/ /\ ~nbFault /\ NbPolls /\ packet.code # "error" /\ ~packet.positive
        /\ NbPollAgain
  /\ UNCHANGED <<nbPrinter, nbLink, nbLeft>>

NbTimeout ==
  /\ nbPhase = "print" /\ nbEvent # 0 /\ nbAnswer = <<>>
  /\ \/ ~nbFault /\ NbStage \in {"endReset", "clearReset"} /\ NbAdvance
     \/ (nbFault \/ NbStage \notin {"endReset", "clearReset"}) /\ NbFail
     \/ /\ ~nbFault /\ NbPolls
        /\ NbPollAgain
  /\ UNCHANGED <<nbPrinter, nbLink, nbLeft>>

(* D11: the page index of this label arrived, or the deadline passed.      *)
NbPageIndex ==
  /\ NbIdle /\ NbStage = "completion" /\ ~NbAsks
  /\ IF nbWaiter = "set" /\ ~nbFault THEN NbAdvance ELSE NbFail
  /\ UNCHANGED <<nbPrinter, nbLink, nbLeft>>

(* The task is cancelled at an await.                                      *)
NbCancel ==
  /\ nbPhase \in {"probe", "print"} /\ NbTroubled
  /\ nbPhase' = "cleanup" /\ nbVerdict' = "uncertain"
  /\ nbEvent' = 0 /\ nbAnswer' = <<>> /\ nbPolled' = 0 /\ nbWaiter' = "none"
  /\ UNCHANGED <<nbTries, nbVariant, nbLabel, nbAt, nbBegun, nbPrinter, nbLink>>

(* Best-effort END_PRINT and disconnect: what is still under way is lost.  *)
NbCleanup ==
  /\ nbPhase = "cleanup"
  /\ nbPhase' = "closed"
  /\ nbIn' = <<>> /\ nbLoop' = <<>> /\ nbFault' = FALSE
  /\ UNCHANGED <<nbTries, nbVariant, nbLabel, nbAt, nbEvent, nbAnswer, nbPolled, nbWaiter, nbBegun, nbVerdict,
                 nbPrinter, nbOut, nbLeft>>

-----------------------------------------------------------------------------
(* The notification callback and the event loop                            *)

NbRouted(packet) ==
  nbEvent # 0 /\ (packet.code = "error" \/ packet.code = NbCode(NbStage))

NbNotify ==
  /\ nbPhase # "closed" /\ nbIn # <<>>
  /\ LET packet == Head(nbIn) IN
     /\ nbFault' = (nbFault \/ (packet.code = "error" /\ nbPhase \in {"probe", "print"}))
     /\ nbLoop' = nbLoop
          \o (IF packet.code \in {"E0", "error"} /\ nbWaiter # "none"
                THEN <<[to |-> 0, packet |-> packet]>> ELSE <<>>)
          \o (IF NbRouted(packet) THEN <<[to |-> nbEvent, packet |-> packet]>> ELSE <<>>)
  /\ nbIn' = Tail(nbIn)
  /\ UNCHANGED <<nbClient, nbPrinter, nbOut, nbLeft>>

(* A callback that comes after its request has ended does nothing; an      *)
(* error is not replaced by a later answer.                                *)
NbPublish ==
  /\ nbPhase # "closed" /\ nbLoop # <<>>
  /\ LET call == Head(nbLoop) IN
     IF call.to = 0
     THEN nbWaiter' = (IF nbWaiter = "none" THEN "none" ELSE "set") /\ UNCHANGED nbAnswer
     ELSE /\ nbAnswer' = IF call.to = nbEvent /\ ~(nbAnswer # <<>> /\ Head(nbAnswer).code = "error")
                           THEN <<call.packet>> ELSE nbAnswer
          /\ UNCHANGED nbWaiter
  /\ nbLoop' = Tail(nbLoop)
  /\ UNCHANGED <<nbPhase, nbTries, nbVariant, nbLabel, nbAt, nbEvent, nbPolled, nbBegun, nbVerdict,
                 nbPrinter, nbOut, nbIn, nbFault, nbLeft>>

-----------------------------------------------------------------------------
(* The printer and the link                                                *)

NbReply(request) ==
  [code |-> NbCode(request.stage),
   positive |-> request.stage # "completion" \/ nbFinished >= request.label]

(* Requests are executed in order.  Each is answered once, unless the      *)
(* answer is lost, negative or a device error.                             *)
NbPrinterTakes ==
  /\ nbOut # <<>>
  /\ LET request == Head(nbOut) IN
     /\ nbEnded' = IF request.stage = "endPage" THEN request.label ELSE nbEnded
     /\ UNCHANGED nbFinished
     /\ \/ nbIn' = (IF request.stage = "rows" THEN nbIn ELSE Append(nbIn, NbReply(request)))
           /\ UNCHANGED nbLeft
        \/ /\ NbTroubled
           /\ nbIn' \in {nbIn, Append(nbIn, [code |-> "error", positive |-> FALSE]),
                         Append(nbIn, [NbReply(request) EXCEPT !.positive = FALSE])}
  /\ nbOut' = Tail(nbOut)
  /\ UNCHANGED <<nbClient, nbLoop, nbFault>>

(* The page is ejected and announced; the announcement may be lost.        *)
NbPrinterEjects ==
  /\ nbFinished < nbEnded /\ nbVariant # "plain"
  /\ nbFinished' = nbFinished + 1
  /\ \/ nbIn' = Append(nbIn, [code |-> "E0", positive |-> TRUE]) /\ UNCHANGED nbLeft
     \/ nbIn' = nbIn /\ NbTroubled
  /\ UNCHANGED <<nbClient, nbEnded, nbOut, nbLoop, nbFault>>

(* The cover is opened.                                                    *)
NbPrinterFails ==
  /\ nbPhase \in {"probe", "print"} /\ NbTroubled
  /\ nbIn' = Append(nbIn, [code |-> "error", positive |-> FALSE])
  /\ UNCHANGED <<nbClient, nbPrinter, nbOut, nbLoop, nbFault>>

NbStep ==
  \/ NbConnect \/ NbConnectFails \/ NbProbe \/ NbSend \/ NbSendRows \/ NbRowsBreak
  \/ NbStop \/ NbAnswered \/ NbTimeout \/ NbPageIndex \/ NbCancel \/ NbCleanup
NbNext == NbStep \/ NbNotify \/ NbPublish \/ NbPrinterTakes \/ NbPrinterEjects \/ NbPrinterFails

(* Every wait of the coroutine has a deadline.                             *)
NbFairness == WF_nbVars(NbStep)
NbSpec == NbInit /\ [][NbNext]_nbVars /\ NbFairness

-----------------------------------------------------------------------------
(* The client keeps the promise of every printer client.  A page counts as *)
(* delivered when the printer has ended it, of the D series ejected it.    *)
NbGiven == IF nbVariant = "plain" THEN nbEnded ELSE nbFinished
NbPromise == INSTANCE ClientPromise
  WITH Pages <- NbLabels, begun <- nbBegun, given <- NbGiven, verdict <- nbVerdict
NiimbotKeepsPromise == NbPromise!Spec

-----------------------------------------------------------------------------
(* What holds between any two steps, from which the promise follows for    *)
(* every number of labels and troubles.  A packet does not say which       *)
(* request it answers: what the client takes for an answer is one, because *)
(* nothing older is still under way when it asks, but for the questions    *)
(* that it gives up waiting for.                                           *)
NbStages ==
  {"endReset", "clearReset", "density", "type", "start", "pageClear", "pageStart", "dimension", "quantity", "rows",
   "endPage", "completion", "end"}
NbPackets == [code : NbStages \cup {"F4", "30", "E0", "error"}, positive : BOOLEAN]
NbState ==
  /\ nbPhase \in {"connect", "probe", "print", "cleanup", "closed"}
  /\ nbVerdict \in {"open", "printed", "refused", "uncertain"}
  /\ nbLabel \in 1..NbLabels /\ nbAt \in 1..Len(NbRecipe) /\ nbEvent \in {0, nbAt}
  /\ nbWaiter \in {"none", "armed", "set"} /\ nbFault \in BOOLEAN /\ nbBegun \in BOOLEAN
  /\ nbAnswer \in Seq(NbPackets) /\ nbIn \in Seq(NbPackets)
  /\ nbLoop \in Seq([to : Nat, packet : NbPackets]) /\ nbOut \in Seq([stage : NbStages, label : Nat])
  /\ nbEnded \in Nat /\ nbFinished \in Nat

(* Labels are ended one after the other, each at one request.              *)
NbEndsInv ==
  /\ nbVerdict = "open" <=> nbPhase \notin {"cleanup", "closed"}
  /\ nbFinished <= nbEnded /\ nbEnded <= nbLabel /\ (nbEnded > 0 => nbBegun)
  /\ nbPhase \in {"connect", "probe"} =>
       /\ ~nbBegun /\ nbOut = <<>> /\ nbEnded = 0 /\ nbLabel = 1 /\ nbAt = 1 /\ nbEvent = 0 /\ nbAnswer = <<>>
       /\ nbWaiter = "none" /\ nbLoop = <<>> /\ \A i \in DOMAIN nbIn : nbIn[i].code = "error"
  /\ nbPhase = "print" /\ (nbLabel > 1 \/ NbStage \in {"endPage", "completion", "end"}) => nbBegun
  /\ nbEvent # 0 => NbAsks
  /\ \A i \in DOMAIN nbOut : nbOut[i].stage = "endPage" =>
       /\ nbOut[i].label = nbEnded + 1 /\ nbEnded < nbLabel /\ nbBegun
       /\ \A k \in DOMAIN nbOut : nbOut[k].stage = "endPage" => k = i

NbFlows == nbPhase = "print" /\ ~nbFault
NbOwn == NbCode(NbStage)
NbOld ==
  CASE NbStage = "clearReset" -> {"F4"}
    [] NbStage = "density" -> {"F4", "30"}
    [] NbStage \in {"completion", "end"} -> {"completion"}
    [] OTHER -> {}
NbMay == NbOld \cup (IF nbEvent # 0 THEN {NbOwn} ELSE {})
NbSaysNothing(packet) == packet.code \in {"error", "E0", "rows"}

(* What may be under way, and what the answer that is waited for follows.  *)
NbPipeInv ==
  /\ \A i \in DOMAIN nbOut : nbOut[i].stage = "rows" \/ NbCode(nbOut[i].stage) \in NbMay
  /\ \A i \in DOMAIN nbIn : NbSaysNothing(nbIn[i]) \/ nbIn[i].code \in NbMay
  /\ \A i \in DOMAIN nbLoop :
       IF nbLoop[i].to = 0 THEN nbLoop[i].packet.code = "E0"
       ELSE /\ nbLoop[i].packet.code \in NbMay
            /\ nbLoop[i].to \in DOMAIN NbRecipe /\ nbLoop[i].packet.code = NbCode(NbRecipe[nbLoop[i].to])
  /\ nbAnswer # <<>> => nbEvent # 0 /\ nbAnswer[1].code = NbOwn
NbOrderInv ==
  nbEvent # 0 /\ NbStage # "completion" =>
    /\ \A i \in DOMAIN nbOut : NbCode(nbOut[i].stage) = NbOwn => i = Len(nbOut)
    /\ \A i \in DOMAIN nbIn : nbIn[i].code = NbOwn =>
         nbOut = <<>> /\ \A k \in DOMAIN nbIn : k > i => NbSaysNothing(nbIn[k])
    /\ \A i \in DOMAIN nbLoop : nbLoop[i].to # 0 /\ nbLoop[i].packet.code = NbOwn =>
         /\ nbOut = <<>> /\ \A k \in DOMAIN nbIn : NbSaysNothing(nbIn[k])
         /\ \A k \in DOMAIN nbLoop : k > i => nbLoop[k].to = 0
    /\ nbAnswer # <<>> =>
         /\ nbOut = <<>> /\ \A k \in DOMAIN nbIn : NbSaysNothing(nbIn[k])
         /\ \A k \in DOMAIN nbLoop : nbLoop[k].to = 0

(* An answer to the end of a page, or that it is finished, is true.        *)
NbAnswerInv ==
  /\ NbStage \notin {"endPage", "completion", "end"} \/ (NbStage = "endPage" /\ nbEvent = 0) => nbEnded = nbLabel - 1
  /\ NbStage \in {"completion", "end"} => nbEnded = nbLabel
  /\ \/ \E i \in DOMAIN nbIn : nbIn[i].code = "endPage"
     \/ \E i \in DOMAIN nbLoop : nbLoop[i].packet.code = "endPage"
     \/ nbAnswer # <<>> /\ nbAnswer[1].code = "endPage"
     => nbEnded = nbLabel
  /\ nbEnded >= nbLabel - 1
  /\ \A i \in DOMAIN nbOut : nbOut[i].stage = "completion" => nbOut[i].label = nbLabel
  /\ \/ \E i \in DOMAIN nbIn : nbIn[i].code = "completion" /\ nbIn[i].positive
     \/ \E i \in DOMAIN nbLoop : nbLoop[i].packet.code = "completion" /\ nbLoop[i].packet.positive
     \/ nbAnswer # <<>> /\ nbAnswer[1].code = "completion" /\ nbAnswer[1].positive
     => nbFinished >= nbLabel
  /\ nbVariant # "plain" => nbFinished >= nbLabel - 1 /\ (NbStage = "end" => nbFinished = nbLabel)

(* A D11 page announces itself once.                                       *)
NbAnnounced(i) == nbIn[i].code = "E0"
NbIndexInv ==
  nbVariant = "d11_v1" =>
    /\ nbFinished < nbLabel \/ nbWaiter = "set" =>
         (\A i \in DOMAIN nbIn : ~NbAnnounced(i)) /\ (\A i \in DOMAIN nbLoop : nbLoop[i].to # 0)
    /\ nbWaiter = "set" => nbFinished = nbLabel
    /\ NbStage = "end" => nbWaiter = "set"
    /\ \A i, k \in DOMAIN nbIn : NbAnnounced(i) /\ NbAnnounced(k) => i = k
    /\ \A i, k \in DOMAIN nbLoop : nbLoop[i].to = 0 /\ nbLoop[k].to = 0 => i = k
    /\ \A i \in DOMAIN nbIn, k \in DOMAIN nbLoop : ~(NbAnnounced(i) /\ nbLoop[k].to = 0)

NbInv == NbState /\ NbEndsInv /\ (NbFlows => NbPipeInv /\ NbOrderInv /\ NbAnswerInv /\ NbIndexInv)
=============================================================================
