---------------------------- MODULE PrintPreparation ----------------------------
(***************************************************************************)
(* Printing from the editor: browser tabs that render the labels of a job  *)
(* one by one and stage them on the server before they commit the print.   *)
(*                                                                         *)
(* pending, mode and outcome are the store's slice (state/slices/batch.js),*)
(* mounted and the fields of job are the mounted LocalBatchJob             *)
(* (components/LocalBatchRenderer.jsx) with its hook                       *)
(* (rendering/usePreparedPrintSession.js); the server is PreparedPrints.   *)
(* Requests travel in a set: they are served in any order, also after      *)
(* their caller has aborted them, and when Unreliable they may be lost or  *)
(* fail at their caller while the server serves them all the same.         *)
(*                                                                         *)
(* A job creates one session, so the job is used as the session's id; the  *)
(* client learns it from the reply.  Every job has Total labels.           *)
(***************************************************************************)
EXTENDS PreparedPrints

CONSTANTS Tabs,        \* open editors
          Total,       \* labels of a job
          Unreliable   \* whether requests may be lost or time out

ASSUME ClientAssumption ==
  /\ Total \in 1..MaxPages /\ Unreliable \in BOOLEAN
  /\ Null \notin Tabs \cup {"stopped", "printed", "failed"}

Jobs == Sessions

VARIABLES
  pending,   \* [Tabs -> pendingPrintJob, or Null]
  mode,      \* [Tabs -> isPreparingForPrint and isPrinting]
  mounted,   \* [Tabs -> the job whose LocalBatchJob is mounted, or Null]
  owner,     \* [Jobs -> the tab that printed, or Null]
  job,       \* [Jobs -> the refs and state of the component and its hook]
  outcome,   \* [Jobs -> what the tab told its user, or Null]
  requests,  \* requests on their way to the server
  replies    \* replies on their way back

clientVars == <<pending, mode, mounted, owner, job, outcome>>
netVars == <<requests, replies>>
vars == <<storeVars, clientVars, netVars>>

Unknown == -1            \* sessionRef.current = null
NewJob == [creating |-> FALSE,    \* the creation request is outstanding
           ready |-> FALSE,       \* the session state is set
           acked |-> Unknown,     \* next_index of sessionRef
           cancelled |-> FALSE, handedOff |-> FALSE, completed |-> FALSE,
           index |-> 1,           \* currentIndex: the label being rendered
           queued |-> 0,          \* queuedIndexRef
           sending |-> 0,         \* the label whose upload is outstanding
           waiting |-> 0]         \* the rendered label behind it

Kinds == {"start", "page", "discard", "commit"}
Request == [kind : Kinds, job : Jobs, index : 0..Total]
Reply == [kind : Kinds, job : Jobs, index : 0..Total, ok : BOOLEAN]
Req(k, j, i) == [kind |-> k, job |-> j, index |-> i]
Ans(r, ok) == [kind |-> r.kind, job |-> r.job, index |-> r.index, ok |-> ok]

PrepInit ==
  /\ Init
  /\ pending = [t \in Tabs |-> Null]
  /\ mode = [t \in Tabs |-> "idle"]
  /\ mounted = [t \in Tabs |-> Null]
  /\ owner = [j \in Jobs |-> Null]
  /\ job = [j \in Jobs |-> NewJob]
  /\ outcome = [j \in Jobs |-> Null]
  /\ requests = {} /\ replies = {}

-----------------------------------------------------------------------------
(* The tabs. *)

(* The reply a caller still waits for; any other is dropped on arrival.    *)
Awaited(r) ==
  CASE r.kind = "start" -> job[r.job].creating
    [] r.kind = "page" -> job[r.job].sending = r.index
    [] r.kind = "commit" -> pending[owner[r.job]] = r.job
    [] r.kind = "discard" -> FALSE

Preparation(j) == pending[owner[j]] = j /\ mode[owner[j]] = "preparing"
Printing(j) == owner[j] # Null /\ pending[owner[j]] = j /\ mode[owner[j]] = "printing"

Drop(kind, j) == replies' = {r \in replies : ~(r.kind = kind /\ r.job = j)}
Discarding(j) ==
  IF job[j].acked # Unknown /\ ~job[j].handedOff THEN {Req("discard", j, 0)} ELSE {}
Released(j) == [job[j] EXCEPT !.creating = FALSE, !.completed = TRUE,
  !.cancelled = TRUE, !.sending = 0, !.waiting = 0,
  !.acked = IF job[j].handedOff THEN @ ELSE Unknown]

(* printPages: one job per tab at a time.                                  *)
PrintPages(t, j) ==
  /\ mode[t] = "idle"
  /\ owner[j] = Null
  /\ owner' = [owner EXCEPT ![j] = t]
  /\ pending' = [pending EXCEPT ![t] = j]
  /\ mode' = [mode EXCEPT ![t] = "preparing"]
  /\ UNCHANGED <<storeVars, mounted, job, outcome, netVars>>

(* onLocalRenderComplete with an error, for the job it is called with.     *)
EndPreparation(j) ==
  IF Preparation(j)
  THEN /\ pending' = [pending EXCEPT ![owner[j]] = Null]
       /\ mode' = [mode EXCEPT ![owner[j]] = "idle"]
       /\ outcome' = [outcome EXCEPT ![j] = "stopped"]
  ELSE UNCHANGED <<pending, mode, outcome>>

(* "Cancel preparation": the component learns of it when React unmounts it.*)
CancelPreparation(t) ==
  /\ mode[t] = "preparing"
  /\ EndPreparation(pending[t])
  /\ UNCHANGED <<storeVars, mounted, owner, job, netVars>>

(* React brings the mounted component in line with the store: the old one  *)
(* is cleaned up, the new one asks for a session.                          *)
Rerender(t) ==
  LET new == IF mode[t] = "preparing" THEN pending[t] ELSE Null
      old == mounted[t]
  IN /\ old # new
     /\ mounted' = [mounted EXCEPT ![t] = new]
     /\ job' = [j \in Jobs |->
          IF j = old THEN [Released(j) EXCEPT !.creating = job[j].creating]
          ELSE IF j = new THEN [NewJob EXCEPT !.creating = TRUE] ELSE job[j]]
     /\ requests' = requests
          \cup (IF old # Null THEN Discarding(old) ELSE {})
          \cup (IF new # Null THEN {Req("start", new, 0)} ELSE {})
     /\ UNCHANGED <<storeVars, pending, mode, owner, outcome, replies>>

(* handlePageError: stop, discard the session and tell the store once.     *)
PageError(j) ==
  /\ IF job[j].completed
     THEN /\ job' = [job EXCEPT ![j].creating = FALSE]
          /\ UNCHANGED <<pending, mode, outcome, requests>>
     ELSE /\ job' = [job EXCEPT ![j] = Released(j)]
          /\ requests' = requests \cup Discarding(j)
          /\ EndPreparation(j)
  /\ UNCHANGED <<storeVars, mounted, owner>>

(* Creation is never aborted: a late session is discarded.                 *)
GotCreation(j) ==
  /\ job[j].creating
  /\ [kind |-> "start", job |-> j, index |-> 0, ok |-> TRUE] \in replies
  /\ IF job[j].cancelled
     THEN /\ job' = [job EXCEPT ![j].creating = FALSE]
          /\ requests' = requests \cup {Req("discard", j, 0)}
     ELSE /\ job' = [job EXCEPT ![j].creating = FALSE, ![j].ready = TRUE,
                                ![j].acked = 0]
          /\ UNCHANGED requests
  /\ Drop("start", j)
  /\ UNCHANGED <<storeVars, pending, mode, mounted, owner, outcome>>

CreationFails(j) ==
  /\ job[j].creating
  /\ Unreliable \/ Ans(Req("start", j, 0), FALSE) \in replies
  /\ PageError(j)
  /\ Drop("start", j)

Rendering(j) ==
  /\ owner[j] # Null /\ mounted[owner[j]] = j
  /\ job[j].ready /\ ~job[j].completed
  /\ job[j].index > job[j].queued

(* sendPage: uploads label i and lets the next one render.                 *)
Sent(rec, i) == [rec EXCEPT !.sending = i, !.waiting = 0,
                            !.index = IF i < Total THEN i + 1 ELSE @]

(* Mutated form of RenderPage: uploads without waiting for the last one.   *)
RenderPageAtOnce(j) ==
  /\ Rendering(j)
  /\ job' = [job EXCEPT ![j] = Sent([job[j] EXCEPT !.queued = job[j].index],
                                    job[j].index)]
  /\ requests' = requests \cup {Req("page", j, job[j].index)}
  /\ UNCHANGED <<storeVars, pending, mode, mounted, owner, outcome, replies>>

(* handlePageReady: one upload at a time, one rendered label behind it.    *)
RenderPage(j) ==
  /\ Rendering(j)
  /\ LET i == job[j].index
         rec == [job[j] EXCEPT !.queued = i]
     IN IF rec.sending = 0
        THEN /\ job' = [job EXCEPT ![j] = Sent(rec, i)]
             /\ requests' = requests \cup {Req("page", j, i)}
        ELSE /\ job' = [job EXCEPT ![j] = [rec EXCEPT !.waiting = i]]
             /\ UNCHANGED requests
  /\ UNCHANGED <<storeVars, pending, mode, mounted, owner, outcome, replies>>

RenderFails(j) == Rendering(j) /\ PageError(j) /\ UNCHANGED replies

(* The acknowledgement of the label being sent.                            *)
Acked(j) ==
  /\ job[j].sending # 0
  /\ Ans(Req("page", j, job[j].sending), TRUE) \in replies
  /\ Drop("page", j)

(* More labels: the one that waits goes next.                              *)
GotAck(j) ==
  /\ Acked(j)
  /\ job[j].sending < Total
  /\ LET rec == [job[j] EXCEPT !.acked = @ + 1, !.sending = 0]
     IN IF rec.waiting = 0
        THEN job' = [job EXCEPT ![j] = rec] /\ UNCHANGED requests
        ELSE /\ job' = [job EXCEPT ![j] = Sent(rec, rec.waiting)]
             /\ requests' = requests \cup {Req("page", j, rec.waiting)}
  /\ UNCHANGED <<storeVars, pending, mode, mounted, owner, outcome>>

(* Mutated form of HandOff: commits without asking whether the job is      *)
(* still the one being prepared.                                           *)
HandOffRegardless(j) ==
  /\ Acked(j)
  /\ job[j].sending = Total
  /\ job' = [job EXCEPT ![j].acked = Total, ![j].sending = 0,
                        ![j].handedOff = TRUE, ![j].completed = TRUE]
  /\ mode' = [mode EXCEPT ![owner[j]] = "printing"]
  /\ requests' = requests \cup {Req("commit", j, 0)}
  /\ UNCHANGED <<storeVars, pending, mounted, owner, outcome>>

(* The last label: the session is handed off and committed, or discarded   *)
(* when the store no longer wants this job.                                *)
HandOff(j) ==
  /\ Acked(j)
  /\ job[j].sending = Total
  /\ LET rec == [job[j] EXCEPT !.acked = Total, !.sending = 0,
                               !.handedOff = TRUE, !.completed = TRUE]
     IN IF Preparation(j)
        THEN /\ job' = [job EXCEPT ![j] = rec]
             /\ mode' = [mode EXCEPT ![owner[j]] = "printing"]
             /\ requests' = requests \cup {Req("commit", j, 0)}
        ELSE /\ job' = [job EXCEPT ![j] = [rec EXCEPT !.acked = Unknown]]
             /\ requests' = requests \cup {Req("discard", j, 0)}
             /\ UNCHANGED mode
  /\ UNCHANGED <<storeVars, pending, mounted, owner, outcome>>

UploadFails(j) ==
  /\ job[j].sending # 0
  /\ Unreliable \/ Ans(Req("page", j, job[j].sending), FALSE) \in replies
  /\ PageError(j)
  /\ Drop("page", j)

(* The commit has no deadline of its own: its reply, or the loss of the    *)
(* connection, ends the print for the tab.                                 *)
PrintEnds(j) ==
  /\ Printing(j)
  /\ \E ok \in BOOLEAN :
       /\ Ans(Req("commit", j, 0), ok) \in replies \/ (Unreliable /\ ~ok)
       /\ outcome' = [outcome EXCEPT ![j] = IF ok THEN "printed" ELSE "failed"]
  /\ Drop("commit", j)
  /\ pending' = [pending EXCEPT ![owner[j]] = Null]
  /\ mode' = [mode EXCEPT ![owner[j]] = "idle"]
  /\ UNCHANGED <<storeVars, mounted, owner, job, requests>>

-----------------------------------------------------------------------------
(* The server: one request, one operation of the store. *)

Answer(r, ok) ==
  /\ requests' = requests \ {r}
  /\ replies' = IF Awaited(r) THEN replies \cup {Ans(r, ok)} ELSE replies
  /\ UNCHANGED clientVars

ServeStart(r) ==
  /\ r.kind = "start"
  /\ \/ Start(r.job, Total) /\ Answer(r, TRUE)
     \/ /\ stopped \/ Cardinality(Live \ Expired) >= MaxSessions
        /\ Reap \/ (Expired = {} /\ UNCHANGED storeVars)
        /\ Answer(r, FALSE)

(* The session is missing, has just expired, or is not in the state that   *)
(* the operation needs.                                                    *)
Refuse(r, allowed) ==
  \/ LookupExpired(r.job)
  \/ r.job \notin Expired /\ ~allowed /\ UNCHANGED storeVars

ServePage(r) ==
  /\ r.kind = "page"
  /\ \/ \E z \in Sizes : AppendPage(r.job, r.index, z) /\ Answer(r, TRUE)
     \/ \E z \in Sizes : Unreliable /\ AppendFails(r.job, r.index, z) /\ Answer(r, FALSE)
     \/ \E z \in Sizes : /\ Refuse(r, Appendable(r.job, r.index, z))
                          /\ Answer(r, FALSE)

ServeDiscard(r) ==
  /\ r.kind = "discard"
  /\ Cancel(r.job) \/ Refuse(r, Found(r.job))
  /\ Answer(r, TRUE)

ServeCommit(h, r) ==
  /\ r.kind = "commit"
  /\ \/ /\ TakeForCommit(h, r.job)
        /\ requests' = requests \ {r}
        /\ UNCHANGED <<clientVars, replies>>
     \/ Refuse(r, Takeable(r.job)) /\ Answer(r, FALSE)

(* A commit answers when its route ends; even a print that was sent may    *)
(* end with an error.                                                      *)
RouteEnds(h) ==
  /\ Finish(h)
  /\ LET r == Req("commit", commit[h].id, 0)
     IN \E ok \in BOOLEAN : (ok => commit[h].sent /\ commit[h].over) /\ Answer(r, ok)

Serve(r) == ServeStart(r) \/ ServePage(r) \/ ServeDiscard(r)
              \/ \E h \in Handlers : ServeCommit(h, r)
Lose(r) == Unreliable /\ requests' = requests \ {r}
             /\ UNCHANGED <<storeVars, clientVars, replies>>

Alone(action) == action /\ UNCHANGED <<clientVars, netVars>>

PrepNext ==
  \/ \E t \in Tabs, j \in Jobs : PrintPages(t, j)
  \/ \E t \in Tabs : CancelPreparation(t) \/ Rerender(t)
  \/ \E j \in Jobs : \/ GotCreation(j) \/ CreationFails(j)
                     \/ RenderPage(j) \/ RenderFails(j)
                     \/ GotAck(j) \/ HandOff(j) \/ UploadFails(j) \/ PrintEnds(j)
  \/ \E r \in requests : Serve(r) \/ Lose(r)
  \/ \E h \in Handlers : Alone(ReadPage(h)) \/ Alone(Submit(h)) \/ Alone(JobSettles(h))
                         \/ RouteEnds(h)
  \/ Alone(Reap) \/ Alone(Close) \/ Alone(Tick)

PrepSpec == PrepInit /\ [][PrepNext]_vars

(* React re-renders, a label renders or fails within its 20 s, replies are *)
(* handled, requests fail at their deadline or are served, routes end, and *)
(* the job a commit waits for is settled (JobsSettle of MCPrintJobs, while *)
(* no database write fails).  Nothing is assumed of the clock, the reaper  *)
(* or the user.                                                            *)
PrepFairness ==
  /\ \A t \in Tabs : WF_vars(Rerender(t))
  /\ \A j \in Jobs : /\ WF_vars(GotCreation(j) \/ CreationFails(j))
                     /\ WF_vars(RenderPage(j) \/ RenderFails(j))
                     /\ WF_vars(GotAck(j) \/ HandOff(j) \/ UploadFails(j))
                     /\ WF_vars(PrintEnds(j))
                     /\ WF_vars(\E r \in requests : r.job = j /\ Serve(r))
  /\ \A h \in Handlers : /\ WF_vars(Alone(JobSettles(h)))
                         /\ WF_vars(RouteEnds(h) /\ ~Waiting(h))
FairPrepSpec == PrepSpec /\ PrepFairness

-----------------------------------------------------------------------------
JobState ==
  [creating : BOOLEAN, ready : BOOLEAN, acked : Unknown..Total,
   cancelled : BOOLEAN, handedOff : BOOLEAN, completed : BOOLEAN,
   index : 1..Total, queued : 0..Total, sending : 0..Total, waiting : 0..Total]

PrepTypeOK ==
  /\ pending \in [Tabs -> Jobs \cup {Null}]
  /\ mode \in [Tabs -> {"idle", "preparing", "printing"}]
  /\ mounted \in [Tabs -> Jobs \cup {Null}]
  /\ owner \in [Jobs -> Tabs \cup {Null}]
  /\ job \in [Jobs -> JobState]
  /\ outcome \in [Jobs -> {Null, "stopped", "printed", "failed"}]
  /\ requests \subseteq Request /\ replies \subseteq Reply

(* "Nothing has been sent to the printer yet": a print whose preparation   *)
(* was cancelled or failed is not printed, then or later, whatever upload, *)
(* acknowledgement or reply is still on its way.                           *)
StoppedIsUnprinted ==
  \A j \in Jobs : outcome[j] = "stopped" =>
    /\ printed[j] = <<>>
    /\ Req("commit", j, 0) \notin requests
    /\ \A h \in Handlers : commit[h] # Null => commit[h].id # j

(* A print reported as a success was printed, once and whole.              *)
ReportedIsPrinted ==
  \A j \in Jobs : outcome[j] = "printed" => printed[j] = <<Upto(Total)>>

(* What the user is told of a print is so, whichever way it went.          *)
OutcomeIsTold == StoppedIsUnprinted /\ ReportedIsPrinted

(* The server never has to refuse a label for its order: the one its tab   *)
(* waits for is the one the session expects next.                          *)
UploadsInOrder ==
  \A r \in requests :
    r.kind = "page" /\ Awaited(r) /\ r.job \in Live => session[r.job].next = r.index

(* What the proofs add.  A tab is busy with one print, which is its own and*)
(* not over; a print that its component has not taken up yet has left no   *)
(* trace on the server or the network.                                     *)
TabsInv ==
  \A t \in Tabs :
    /\ mode[t] = "idle" <=> pending[t] = Null
    /\ pending[t] # Null => owner[pending[t]] = t /\ outcome[pending[t]] = Null
    /\ mounted[t] # Null => owner[mounted[t]] = t
Untouched(j) ==
  /\ job[j] = NewJob /\ j \notin issued
  /\ \A r \in requests \cup replies : r.job # j
FreshInv ==
  \A j \in Jobs :
    /\ owner[j] = Null => Untouched(j) /\ outcome[j] = Null
    /\ owner[j] # Null /\ Preparation(j) /\ mounted[owner[j]] # j => Untouched(j)

(* A commit is asked for only by a handed off print, which no longer can be*)
(* stopped; what it prints is the session's whole list.                    *)
Committing(j) ==
  \/ printed[j] # <<>>
  \/ \E r \in requests : r.kind = "commit" /\ r.job = j
  \/ \E h \in Handlers : commit[h] # Null /\ commit[h].id = j
EvidenceInv ==
  \A j \in Jobs : Committing(j) =>
    owner[j] # Null /\ ~Preparation(j) /\ outcome[j] # "stopped"
WholeInv ==
  /\ \A j \in Live : session[j].expected = Total
  /\ \A j \in Jobs : printed[j] \in {<<>>, <<Upto(Total)>>}
  /\ \A h \in Handlers : commit[h] # Null /\ commit[h].sent => printed[commit[h].id] # <<>>
  /\ \A r \in replies : r.kind = "commit" /\ r.ok => printed[r.job] # <<>>
  /\ \A j \in Jobs : outcome[j] = "printed" => printed[j] # <<>>

(* The hook's counters: the label being sent is the first one that is not  *)
(* acknowledged, at most one is rendered behind it.                        *)
Counters(rec) ==
  IF rec.sending = 0
  THEN rec.waiting = 0 /\ rec.queued = rec.acked /\ rec.index = rec.acked + 1
  ELSE /\ rec.acked = rec.sending - 1
       /\ \/ /\ rec.waiting = 0 /\ rec.queued = rec.sending
             /\ rec.index = IF rec.sending < Total THEN rec.sending + 1 ELSE Total
          \/ /\ rec.waiting = rec.sending + 1 /\ rec.queued = rec.waiting
             /\ rec.index = rec.waiting
HookInv ==
  \A j \in Jobs :
    /\ ~job[j].ready =>
         /\ job[j].sending = 0 /\ job[j].waiting = 0
         /\ ~job[j].completed => job[j].queued = 0 /\ job[j].index = 1
         /\ job[j].completed => job[j].cancelled
    /\ job[j].creating => ~job[j].ready
    /\ job[j].completed => job[j].sending = 0
    /\ job[j].ready => j \in issued
    /\ job[j].ready /\ ~job[j].completed => Counters(job[j])

(* Of a print that goes on, only the label being sent is on its way, there *)
(* or back.                                                                *)
TransitInv ==
  /\ \A r \in requests : r.kind = "page" => r.index # 0 /\ job[r.job].ready
  /\ \A r \in replies : r.kind = "page" => r.index # 0 /\ job[r.job].ready
  /\ \A r \in replies : r.kind = "start" /\ r.ok => r.job \in issued
  /\ \A r \in requests \cup replies :
       r.kind = "page" /\ ~job[r.job].completed => r.index = job[r.job].sending
  /\ \A p \in replies :
       p.kind = "page" /\ ~job[p.job].completed => Req("page", p.job, p.index) \notin requests

(* Its session has got the labels before that one, or that one too when it *)
(* is acknowledged.                                                        *)
NextOf(j) ==
  /\ ~job[j].ready => session[j].next = 1
  /\ job[j].ready /\ ~job[j].completed =>
       LET i == job[j].sending IN
       /\ i = 0 => session[j].next = job[j].acked + 1
       /\ i # 0 /\ Req("page", j, i) \in requests => session[j].next = i
       /\ i # 0 /\ Ans(Req("page", j, i), TRUE) \in replies => session[j].next = i + 1
NextInv == \A j \in Live : NextOf(j)

PrepInv ==
  /\ StoreInv /\ PrepTypeOK /\ TabsInv /\ FreshInv /\ EvidenceInv /\ WholeInv
  /\ HookInv /\ TransitInv /\ NextInv
=============================================================================
