---------------------------- MODULE GenericClient ----------------------------
(* A print of vendors/generic/client.py: the connection and its fallback   *)
(* routes, the runtime controller of the printer's family, the spool of    *)
(* encoded pages, and the ordered steps of each page                       *)
(* (printing/send.py, printing/step_execution.py).  Print Master printers  *)
(* (runtime/printmaster_esc.py) are waited for at the end of every page,   *)
(* YK Astra P1 printers (runtime/yk_astra_p1.py) after the last one, and   *)
(* without insisting.                                                      *)
EXTENDS Integers, Sequences, SequencesExt

CONSTANTS
  GcPages,
  GcFamilies,    \* "plain", "interactive", "printmaster", "astra"
  GcRepeats,     \* repetitions of a polling query within its budget (bound)
  GcTrouble      \* failures, faults and odd replies of a print (bound)

GenericAssumption == GcPages \in Nat \ {0} /\ GcRepeats \in Nat /\ GcTrouble \in Nat
ASSUME GenericAssumption

VARIABLES
  gcPhase,    \* "connect", "attach", "probe", "build", "page", "steps", "complete", "close", "closed"
  gcTries, gcFamily,
  gcRoute,    \* of the connection: 0 none, 1 the preferred one, 2 the fallback
  gcObserver, \* the route can wait for notifications
  gcQueries,  \* the route can query
  gcSpool, gcPage, gcAt,
  gcAsked,    \* repetitions of the step's query, or -1 when none is under way
  gcReply,    \* "none", "match", "odd"
  gcScope,    \* the completion of the page, [finished, error], or NoScope
  gcIn,       \* frames under way to the decoder
  gcPartial,  \* a frame whose first bytes came before the scope opened
  gcSaw, gcFinished,   \* YK Astra P1: printing has been seen, and has ended
  gcReached,  \* pages all of whose steps have reached the printer
  gcEjected,  \* pages the printer has finished
  gcBegun, gcVerdict, gcLeft

gcConnection == <<gcTries, gcFamily, gcRoute, gcObserver, gcQueries>>
gcJob == <<gcSpool, gcPage, gcAt>>
gcQuery == <<gcAsked, gcReply>>
gcRuntime == <<gcScope, gcSaw, gcFinished>>
gcPrinter == <<gcIn, gcPartial, gcReached, gcEjected>>
gcOutcome == <<gcBegun, gcVerdict>>
gcVars == <<gcPhase, gcConnection, gcJob, gcQuery, gcRuntime, gcPrinter, gcOutcome, gcLeft>>

NoScope == [finished |-> FALSE, error |-> TRUE]

GcPlan ==
  IF gcFamily = "interactive"
  THEN <<"send", "query", "send", "poll", "hint", "wait", "send">>
  ELSE <<"send", "send">>
GcRequired(step) == step \in {"query", "wait"}

GcInit ==
  /\ gcPhase = "connect" /\ gcTries = 0 /\ gcFamily \in GcFamilies
  /\ gcRoute = 0 /\ gcObserver = FALSE /\ gcQueries = FALSE
  /\ gcSpool = 0 /\ gcPage = 1 /\ gcAt = 1 /\ gcAsked = -1 /\ gcReply = "none"
  /\ gcScope = NoScope /\ gcIn = <<>> /\ gcPartial = FALSE
  /\ gcSaw = FALSE /\ gcFinished = FALSE
  /\ gcReached = 0 /\ gcEjected = 0 /\ gcBegun = FALSE /\ gcVerdict = "open" /\ gcLeft = GcTrouble

GcTroubled == gcLeft > 0 /\ gcLeft' = gcLeft - 1

-----------------------------------------------------------------------------
(* The connection                                                          *)

(* Three rounds over both routes.  A Print Master route without a          *)
(* completion observer is put down again for the next one.                 *)
GcConnect ==
  /\ gcPhase = "connect"
  /\ \/ \E observer, queries \in BOOLEAN :
          /\ gcFamily = "printmaster" => observer
          /\ gcObserver' = observer /\ gcQueries' = queries
          /\ gcRoute' = gcRoute + 1 /\ gcPhase' = "attach"
          /\ UNCHANGED <<gcTries, gcVerdict, gcLeft>>
     \/ /\ gcRoute = 0 /\ gcRoute' = 1
        /\ UNCHANGED <<gcTries, gcPhase, gcVerdict, gcLeft, gcObserver, gcQueries>>
     \/ /\ gcRoute = 1 /\ gcRoute' = 0 /\ gcTries' = gcTries + 1
        /\ IF gcTries < 2 THEN UNCHANGED <<gcPhase, gcVerdict>>
                          ELSE gcPhase' = "close" /\ gcVerdict' = "refused"
        /\ UNCHANGED <<gcLeft, gcObserver, gcQueries>>
  /\ UNCHANGED <<gcFamily, gcJob, gcQuery, gcRuntime, gcPrinter, gcBegun>>

GcAttach ==
  /\ gcPhase = "attach"
  /\ gcPhase' = IF gcFamily \in {"plain", "interactive"} THEN "build" ELSE "probe"
  /\ UNCHANGED <<gcConnection, gcJob, gcQuery, gcRuntime, gcPrinter, gcOutcome, gcLeft>>

(* A status probe that cannot be sent or is not answered is only reported. *)
GcProbe ==
  /\ gcPhase = "probe"
  /\ gcPhase' = "build"
  /\ gcSaw' \in IF gcFamily = "astra" /\ gcQueries THEN BOOLEAN ELSE {gcSaw}
  /\ UNCHANGED <<gcConnection, gcJob, gcQuery, gcScope, gcFinished, gcPrinter, gcOutcome, gcLeft>>

(* Every page is encoded into the spool before the first one is sent.      *)
GcBuild ==
  /\ gcPhase = "build"
  /\ IF gcSpool < GcPages THEN gcSpool' = gcSpool + 1 /\ UNCHANGED gcPhase
                          ELSE gcPhase' = "page" /\ UNCHANGED gcSpool
  /\ UNCHANGED <<gcConnection, gcPage, gcAt, gcQuery, gcRuntime, gcPrinter, gcOutcome, gcLeft>>

-----------------------------------------------------------------------------
(* A page                                                                  *)

(* Leaving print_images by an error: nothing says that no data has left.   *)
GcFail == gcPhase' = "close" /\ gcVerdict' = "uncertain" /\ gcScope' = NoScope

(* _send_protocol_steps looks at the routes before the first step, and the *)
(* Print Master scope at the observer.                                     *)
GcEnterPage ==
  /\ gcPhase = "page"
  /\ LET able == CASE gcFamily = "interactive" -> gcQueries /\ gcObserver
                   [] gcFamily = "printmaster" -> gcObserver
                   [] OTHER -> TRUE IN
     IF able
     THEN /\ gcPhase' = "steps" /\ UNCHANGED gcVerdict
          /\ gcScope' = IF gcFamily = "printmaster" THEN [finished |-> FALSE, error |-> FALSE]
                                                    ELSE NoScope
     ELSE GcFail
  /\ gcAt' = 1
  /\ gcPartial' = (gcIn # <<>>)
  /\ UNCHANGED <<gcConnection, gcSpool, gcPage, gcQuery, gcSaw, gcFinished,
                 gcIn, gcReached, gcEjected, gcBegun, gcLeft>>

GcStep == GcPlan[gcAt]

GcNextStep ==
  /\ gcAsked' = -1 /\ gcReply' = "none"
  /\ IF gcAt < Len(GcPlan) THEN gcAt' = gcAt + 1 /\ UNCHANGED <<gcPhase, gcReached>>
     ELSE gcPhase' = "complete" /\ gcReached' = gcPage /\ UNCHANGED gcAt

(* on_standard_send_started forgets what was seen of the earlier page.     *)
GcSend ==
  /\ gcPhase = "steps" /\ gcAsked = -1 /\ GcStep = "send"
  /\ GcNextStep
  /\ gcBegun' = TRUE
  /\ gcSaw' = FALSE /\ gcFinished' = FALSE
  /\ UNCHANGED <<gcConnection, gcSpool, gcPage, gcScope, gcIn, gcPartial, gcEjected, gcVerdict, gcLeft>>

GcAsk ==
  /\ gcPhase = "steps" /\ gcAsked = -1 /\ GcStep # "send"
  /\ gcAsked' = 0
  /\ UNCHANGED <<gcPhase, gcConnection, gcJob, gcReply, gcRuntime, gcPrinter, gcOutcome, gcLeft>>

GcReplies ==
  /\ gcAsked >= 0 /\ gcReply = "none"
  /\ \/ gcReply' = "match" /\ UNCHANGED gcLeft
     \/ gcReply' = "odd" /\ GcTroubled
  /\ UNCHANGED <<gcPhase, gcConnection, gcJob, gcAsked, gcRuntime, gcPrinter, gcOutcome>>

(* The reply, or the timeout of this attempt: a poll asks again within its *)
(* budget, a required reply must match, any other is taken as it is.       *)
GcAnswered ==
  /\ gcPhase = "steps" /\ gcAsked >= 0
  /\ \/ /\ GcStep = "poll" /\ gcReply # "match" /\ gcAsked < GcRepeats
        /\ gcAsked' = gcAsked + 1 /\ gcReply' = "none"
        /\ UNCHANGED <<gcPhase, gcAt, gcReached, gcScope, gcVerdict>>
     \/ /\ GcRequired(GcStep) => gcReply = "match"
        /\ GcStep = "poll" => gcReply = "match" \/ gcAsked = GcRepeats
        /\ GcNextStep /\ UNCHANGED <<gcScope, gcVerdict>>
     \/ /\ GcRequired(GcStep) /\ gcReply # "match"
        /\ GcFail /\ UNCHANGED <<gcAt, gcReached, gcQuery>>
  /\ UNCHANGED <<gcConnection, gcSpool, gcPage, gcSaw, gcFinished, gcIn, gcPartial, gcEjected,
                 gcBegun, gcLeft>>

GcNextPage ==
  /\ gcScope' = NoScope
  /\ IF gcPage < GcPages THEN gcPage' = gcPage + 1 /\ gcPhase' = "page" /\ UNCHANGED gcVerdict
     ELSE gcPhase' = "close" /\ gcVerdict' = "printed" /\ UNCHANGED gcPage

(* Print Master: the page's own completion, or an error.                   *)
GcPageCompleted ==
  /\ gcPhase = "complete" /\ gcFamily = "printmaster"
  /\ IF gcScope.error THEN GcFail /\ UNCHANGED gcPage
     ELSE gcScope.finished /\ GcNextPage
  /\ UNCHANGED <<gcConnection, gcSpool, gcAt, gcQuery, gcSaw, gcFinished, gcPrinter, gcBegun, gcLeft>>

(* The completion of a page is waited for at most 180 s.                   *)
GcPageTimeout ==
  /\ gcPhase = "complete" /\ gcFamily = "printmaster" /\ ~gcScope.finished
  /\ GcFail
  /\ UNCHANGED <<gcConnection, gcJob, gcQuery, gcSaw, gcFinished, gcPrinter, gcBegun, gcLeft>>

(* The others go on: YK Astra P1 waits for printing to end after the last  *)
(* page, and a completion that does not come is only reported.             *)
GcPageSent ==
  /\ gcPhase = "complete" /\ gcFamily # "printmaster"
  /\ GcNextPage
  /\ gcSaw' = FALSE /\ gcFinished' = FALSE
  /\ UNCHANGED <<gcConnection, gcSpool, gcAt, gcQuery, gcPrinter, gcBegun, gcLeft>>

-----------------------------------------------------------------------------
(* The printer, the link and the end                                       *)

GcPrinterEjects ==
  /\ gcFamily \in {"printmaster", "astra"} /\ gcEjected < gcReached
  /\ gcEjected' = gcEjected + 1
  /\ \/ gcIn' = Append(gcIn, "done") /\ UNCHANGED gcLeft
     \/ gcIn' = gcIn /\ GcTroubled
  /\ UNCHANGED <<gcPhase, gcConnection, gcJob, gcQuery, gcRuntime, gcPartial, gcReached, gcOutcome>>

(* The printer reports a fault, or repeats a completion it has sent: the   *)
(* first byte of the repetition has come when the next page begins.        *)
GcPrinterReports ==
  /\ gcFamily = "printmaster" /\ gcPhase \notin {"connect", "closed"} /\ GcTroubled
  /\ \/ gcIn' = Append(gcIn, "fault")
     \/ gcPhase = "page" /\ gcEjected > 0 /\ gcIn = <<>> /\ gcIn' = <<"done">>
  /\ UNCHANGED <<gcPhase, gcConnection, gcJob, gcQuery, gcRuntime, gcPartial, gcReached, gcEjected, gcOutcome>>

(* A frame is decoded.  A completion whose first byte came before the      *)
(* page's scope opened is not the page's; a fault always counts.           *)
GcDecoded(old) ==
  LET frame == Head(gcIn) IN
  IF gcScope.error THEN gcScope
  ELSE CASE frame = "fault" -> [finished |-> TRUE, error |-> TRUE]
         [] frame = "done" /\ ~old -> [finished |-> TRUE, error |-> FALSE]
         [] OTHER -> gcScope

GcNotify ==
  /\ gcIn # <<>> /\ gcPhase # "closed"
  /\ gcScope' = GcDecoded(gcPartial)
  /\ gcSaw' = (gcSaw \/ gcFamily = "astra")
  /\ gcFinished' = (gcFinished \/ (gcSaw /\ gcFamily = "astra"))
  /\ gcPartial' = FALSE
  /\ gcIn' = Tail(gcIn)
  /\ UNCHANGED <<gcPhase, gcConnection, gcJob, gcQuery, gcReached, gcEjected, gcOutcome, gcLeft>>

(* A write fails or the task is cancelled; the controller is stopped with  *)
(* the connection.                                                         *)
GcBreak ==
  /\ gcPhase \in {"attach", "probe", "build", "page", "steps", "complete"} /\ GcTroubled
  /\ GcFail
  /\ gcBegun' = (gcBegun \/ gcPhase = "steps")
  /\ UNCHANGED <<gcConnection, gcJob, gcQuery, gcSaw, gcFinished, gcPrinter>>

GcClose ==
  /\ gcPhase = "close" /\ gcPhase' = "closed"
  /\ gcIn' = <<>> /\ gcPartial' = FALSE /\ gcScope' = NoScope
  /\ gcSaw' = FALSE /\ gcFinished' = FALSE /\ gcAsked' = -1 /\ gcReply' = "none"
  /\ UNCHANGED <<gcConnection, gcJob, gcReached, gcEjected, gcOutcome, gcLeft>>

GcClientStep ==
  \/ GcConnect \/ GcAttach \/ GcProbe \/ GcBuild \/ GcEnterPage \/ GcSend \/ GcAsk
  \/ GcAnswered \/ GcPageCompleted \/ GcPageTimeout \/ GcPageSent \/ GcBreak \/ GcClose
GcNext == GcClientStep \/ GcReplies \/ GcPrinterEjects \/ GcPrinterReports \/ GcNotify

(* Every wait of the client has a timeout.                                 *)
GcFairness == WF_gcVars(GcClientStep)
GcSpec == GcInit /\ [][GcNext]_gcVars /\ GcFairness

-----------------------------------------------------------------------------
(* A page counts as delivered when its steps have reached the printer, and *)
(* of a Print Master when the printer has finished it.                     *)
GcGiven == IF gcFamily = "printmaster" THEN gcEjected ELSE gcReached
GcPromise == INSTANCE ClientPromise
  WITH Pages <- GcPages, begun <- gcBegun, given <- GcGiven, verdict <- gcVerdict
GenericKeepsPromise == GcPromise!Spec

-----------------------------------------------------------------------------
(* What holds between any two steps, from which the promise follows for    *)
(* every number of pages, repetitions and troubles.                        *)
GcState ==
  /\ gcPhase \in {"connect", "attach", "probe", "build", "page", "steps", "complete", "close", "closed"}
  /\ gcVerdict \in {"open", "printed", "refused", "uncertain"}
  /\ gcPage \in 1..GcPages /\ gcAt \in 1..Len(GcPlan)
  /\ gcReached \in Nat /\ gcEjected \in Nat
  /\ gcIn \in Seq({"done", "fault"}) /\ gcPartial \in BOOLEAN
  /\ gcScope \in [finished : BOOLEAN, error : BOOLEAN] /\ gcBegun \in BOOLEAN

(* Pages reach the printer in order, data from the first step on.          *)
GcPageInv ==
  /\ gcVerdict = "open" <=> gcPhase \notin {"close", "closed"}
  /\ gcPhase \in {"connect", "attach", "probe", "build"} => ~gcBegun /\ gcPage = 1
  /\ gcVerdict = "open" => gcReached = IF gcPhase = "complete" THEN gcPage ELSE gcPage - 1
  /\ gcReached <= GcPages /\ gcEjected <= gcReached
  /\ gcReached > 0 \/ (gcPhase = "steps" /\ gcAt > 1) => gcBegun
  /\ gcVerdict = "open" /\ (gcPhase # "steps" \/ gcAt = 1) => gcAsked = -1

(* A Print Master page is begun when those before it are out.  Of their    *)
(* completions one may still be on the way, the next to be decoded; there  *)
(* is one for the page itself, and none left once it has been taken.       *)
GcCompletionInv ==
  gcFamily = "printmaster" /\ gcVerdict = "open" =>
    /\ gcPhase \notin {"steps", "complete"} =>
         gcScope = NoScope /\ \A i \in DOMAIN gcIn : gcIn[i] = "done" => i = 1
    /\ gcPhase # "complete" => gcEjected = gcReached
    /\ gcPhase \in {"steps", "complete"} /\ ~gcScope.error =>
         /\ gcEjected = gcPage - 1 =>
              ~gcScope.finished /\ \A i \in DOMAIN gcIn : gcIn[i] = "done" => i = 1 /\ gcPartial
         /\ gcEjected \in {gcPage - 1, gcPage}
         /\ gcScope.finished => \A i \in DOMAIN gcIn : gcIn[i] # "done"
         /\ \A i, k \in DOMAIN gcIn : i < k /\ gcIn[i] = "done" /\ gcIn[k] = "done" => i = 1 /\ gcPartial

GcInv == GcState /\ GcPageInv /\ GcCompletionInv
=============================================================================
