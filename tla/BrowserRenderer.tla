-------------------------- MODULE BrowserRenderer --------------------------
(* The headless renderer (rendering/template.py, browser_stream.py): each  *)
(* request owns a job, a task that waits for a slot, starts or shares the  *)
(* browser, renders in a context of its own and hands its images over.  A  *)
(* request that times out or is cancelled aborts its job and waits for it  *)
(* within a budget; close() does so for every job and then ends the        *)
(* browser.  Any call of Playwright may take for ever.                     *)
EXTENDS Integers, FiniteSets

CONSTANTS
  RdRequests,    \* requests (bound)
  RdAdmitted,    \* MAX_ADMITTED_RENDER_JOBS
  RdActive,      \* MAX_ACTIVE_RENDER_JOBS
  RdFrames,      \* images a request asks for
  RdTrouble      \* calls that fail, a browser that ends (bound)

ASSUME RdAssumption == {RdRequests, RdAdmitted, RdActive, RdFrames, RdTrouble} \subseteq Nat

VARIABLES
  rdJob,         \* [request -> its job and what became of the request]
  rdStopped,     \* _stopped
  rdCount,       \* _admitted
  rdFree,        \* free slots
  rdLock,        \* the job that holds _startup_lock, or 0
  rdBrowser,     \* [browser, driver]: who launched those the renderer knows, or 0
  rdLive,        \* browsers and drivers that run: [what, of]
  rdCrashed,     \* browsers that are disconnected
  rdLost,        \* closings that failed and were only logged
  rdClose,       \* close(): [at, jobs, browser, driver, bad]
  rdLeft         \* trouble left

rdVars == <<rdJob, rdStopped, rdCount, rdFree, rdLock, rdBrowser, rdLive, rdCrashed, rdLost,
            rdClose, rdLeft>>

RdJobs == 1..RdRequests
RdUnused == [at |-> "unused", aborted |-> FALSE, slot |-> FALSE, raised |-> FALSE,
             context |-> "none", images |-> 0, held |-> "no", request |-> "none", bad |-> FALSE]
RdInit ==
  /\ rdJob = [j \in RdJobs |-> RdUnused]
  /\ rdStopped = FALSE /\ rdCount = 0 /\ rdFree = RdActive /\ rdLock = 0
  /\ rdBrowser = [browser |-> 0, driver |-> 0] /\ rdLive = {} /\ rdCrashed = {} /\ rdLost = {}
  /\ rdClose = [at |-> "idle", jobs |-> {}, browser |-> 0, driver |-> 0, bad |-> FALSE]
  /\ rdLeft = RdTrouble

RdFails == rdLeft > 0 /\ rdLeft' = rdLeft - 1
RdDone(j) == rdJob[j].at = "over"

(* _start_context_close: once, by whoever comes first.                     *)
RdContextEnding(job) == [job EXCEPT !.context = IF @ = "open" THEN "closing" ELSE @]

(* The finally of _render_job: images that are not handed over are closed. *)
RdFinished(j, job, handed) ==
  /\ rdJob' = [rdJob EXCEPT ![j] =
       [job EXCEPT !.at = "over", !.slot = FALSE, !.aborted = FALSE, !.raised = FALSE,
                   !.held = IF handed THEN "result" ELSE "no", !.images = IF handed THEN @ ELSE 0]]
  /\ rdFree' = IF job.slot THEN rdFree + 1 ELSE rdFree
  /\ rdCount' = rdCount - 1
(* An exception before the context is closed, then _close_context.         *)
RdUnwinds(j, job) ==
  IF job.context = "none" THEN RdFinished(j, job, FALSE)
  ELSE /\ rdJob' = [rdJob EXCEPT ![j] =
            [RdContextEnding(job) EXCEPT !.at = "closing", !.raised = TRUE, !.held = "no", !.images = 0]]
       /\ UNCHANGED <<rdFree, rdCount>>
(* check_active after every await.                                         *)
RdGoesOn(j, job, at) ==
  IF job.aborted \/ rdStopped THEN RdUnwinds(j, job)
  ELSE rdJob' = [rdJob EXCEPT ![j] = [job EXCEPT !.at = at]] /\ UNCHANGED <<rdFree, rdCount>>

-----------------------------------------------------------------------------
(* render: admission, and a job of its own.                                *)
RdRender(j) ==
  /\ rdJob[j].at = "unused" /\ (j > 1 => rdJob[j - 1].at # "unused")
  /\ IF rdStopped \/ rdCount >= RdAdmitted
     THEN /\ rdJob' = [rdJob EXCEPT ![j].at = "over", ![j].request = "failed"]
          /\ UNCHANGED rdCount
     ELSE /\ rdJob' = [rdJob EXCEPT ![j].at = "slot", ![j].request = "waiting"]
          /\ rdCount' = rdCount + 1
  /\ UNCHANGED <<rdStopped, rdFree, rdLock, rdBrowser, rdLive, rdCrashed, rdLost, rdClose, rdLeft>>

(* _wait_for_slot: until a slot is free, the job is aborted, or it is late. *)
RdSlot(j) ==
  /\ rdJob[j].at = "slot"
  /\ \/ /\ rdJob[j].aborted \/ (rdStopped /\ rdFree > 0)
        /\ RdFinished(j, rdJob[j], FALSE)
     \/ /\ rdFree > 0 /\ ~rdJob[j].aborted /\ ~rdStopped
        /\ rdJob' = [rdJob EXCEPT ![j].at = "lock", ![j].slot = TRUE]
        /\ rdFree' = rdFree - 1 /\ UNCHANGED rdCount
     \/ rdFree = 0 /\ RdFinished(j, rdJob[j], FALSE)
  /\ UNCHANGED <<rdStopped, rdLock, rdBrowser, rdLive, rdCrashed, rdLost, rdClose, rdLeft>>

(* _ensure_browser, with the startup lock.                                 *)
RdConnected == rdBrowser.browser # 0 /\ rdBrowser.browser \notin rdCrashed
RdEnsure(j) ==
  /\ rdJob[j].at = "lock" /\ rdLock = 0
  /\ IF rdStopped THEN RdUnwinds(j, rdJob[j]) /\ UNCHANGED rdLock
     ELSE IF RdConnected THEN RdGoesOn(j, rdJob[j], "context") /\ UNCHANGED rdLock
     ELSE /\ rdJob' = [rdJob EXCEPT ![j].at =
               IF rdBrowser.browser = 0 THEN "starting" ELSE "resetting"]
          /\ rdLock' = j /\ UNCHANGED <<rdFree, rdCount>>
  /\ UNCHANGED <<rdStopped, rdBrowser, rdLive, rdCrashed, rdLost, rdClose, rdLeft>>

(* _reset_disconnected_browser: browser and driver; what fails stays known *)
(* and stops the renderer.                                                 *)
RdReset(j) ==
  /\ rdJob[j].at = "resetting"
  /\ \E done \in SUBSET {"browser", "driver"} :
       LET known == rdBrowser.browser IN
       /\ rdBrowser' = [w \in {"browser", "driver"} |-> IF w \in done THEN 0 ELSE rdBrowser[w]]
       /\ rdLive' = rdLive \ {[what |-> w, of |-> known] : w \in done}
       /\ IF done = {"browser", "driver"}
          THEN /\ rdJob' = [rdJob EXCEPT ![j].at = "starting"]
               /\ UNCHANGED <<rdStopped, rdLock, rdFree, rdCount, rdLeft>>
          ELSE /\ RdUnwinds(j, rdJob[j]) /\ rdStopped' = TRUE /\ rdLock' = 0 /\ RdFails
  /\ UNCHANGED <<rdCrashed, rdLost, rdClose>>

RdStart(j) ==
  /\ rdJob[j].at = "starting"
  /\ \/ /\ rdLive' = rdLive \cup {[what |-> "driver", of |-> j]}
        /\ rdJob' = [rdJob EXCEPT ![j].at = IF rdStopped THEN "late" ELSE "launching"]
        /\ UNCHANGED <<rdLock, rdFree, rdCount, rdLeft>>
     \/ RdUnwinds(j, rdJob[j]) /\ rdLock' = 0 /\ RdFails /\ UNCHANGED rdLive
  /\ UNCHANGED <<rdStopped, rdBrowser, rdCrashed, rdLost, rdClose>>

RdLaunch(j) ==
  /\ rdJob[j].at = "launching"
  /\ \/ /\ rdLive' = rdLive \cup {[what |-> "browser", of |-> j]} /\ UNCHANGED rdLeft
        /\ IF rdStopped
           THEN /\ rdJob' = [rdJob EXCEPT ![j].at = "late"]
                /\ UNCHANGED <<rdBrowser, rdLock, rdFree, rdCount>>
           ELSE /\ rdBrowser' = [browser |-> j, driver |-> j] /\ rdLock' = 0
                /\ RdGoesOn(j, rdJob[j], "context")
     \/ /\ rdJob' = [rdJob EXCEPT ![j].at = "late"] /\ RdFails
        /\ UNCHANGED <<rdLive, rdBrowser, rdLock, rdFree, rdCount>>
  /\ UNCHANGED <<rdStopped, rdCrashed, rdLost, rdClose>>

(* What came too late, or without its browser, is ended; failures are      *)
(* logged.                                                                 *)
RdLate(j) ==
  LET mine == {x \in rdLive : x.of = j} IN
  /\ rdJob[j].at = "late" /\ RdUnwinds(j, rdJob[j]) /\ rdLock' = 0
  /\ \/ rdLive' = rdLive \ mine /\ UNCHANGED <<rdLost, rdLeft>>
     \/ \E lost \in (SUBSET mine) \ {{}} :
          rdLive' = rdLive \ (mine \ lost) /\ rdLost' = rdLost \cup lost /\ RdFails
  /\ UNCHANGED <<rdStopped, rdBrowser, rdCrashed, rdClose>>

-----------------------------------------------------------------------------
(* _render_job, once it has a browser.                                     *)
RdBrowserRuns == \E x \in rdLive : x.what = "browser" /\ x.of \notin rdCrashed
RdContext(j) ==
  /\ rdJob[j].at = "context"
  /\ \/ /\ RdBrowserRuns /\ RdGoesOn(j, [rdJob[j] EXCEPT !.context = "open"], "frames")
        /\ UNCHANGED rdLeft
     \/ ~RdBrowserRuns /\ RdUnwinds(j, rdJob[j]) /\ UNCHANGED rdLeft
     \/ RdBrowserRuns /\ RdUnwinds(j, rdJob[j]) /\ RdFails
  /\ UNCHANGED <<rdStopped, rdLock, rdBrowser, rdLive, rdCrashed, rdLost, rdClose>>

(* A call on the page returns while its context is open, else it raises.   *)
RdUsable(j) == rdJob[j].context = "open" /\ RdBrowserRuns

(* The page is loaded; a frontend that streams has each frame decoded and  *)
(* acknowledged (collect_streamed_images), else the list comes as a whole  *)
(* and is decoded when the context is closed.                              *)
RdFrame(j) ==
  /\ rdJob[j].at = "frames" /\ RdUsable(j)
  /\ \/ /\ rdJob[j].images < RdFrames
        /\ RdGoesOn(j, [rdJob[j] EXCEPT !.images = @ + 1, !.held = "job"], "frames")
     \/ /\ rdJob[j].images \in {0, RdFrames}
        /\ IF rdJob[j].aborted \/ rdStopped THEN RdUnwinds(j, rdJob[j])
           ELSE /\ rdJob' = [rdJob EXCEPT ![j] = [RdContextEnding(@) EXCEPT !.at = "closing"]]
                /\ UNCHANGED <<rdFree, rdCount>>
  /\ UNCHANGED <<rdStopped, rdLock, rdBrowser, rdLive, rdCrashed, rdLost, rdClose, rdLeft>>

(* The page fails, shows a frame out of turn, ends early, or is gone.      *)
RdPageFails(j) ==
  /\ rdJob[j].at = "frames" /\ RdUnwinds(j, rdJob[j])
  /\ IF RdUsable(j) THEN RdFails ELSE UNCHANGED rdLeft
  /\ UNCHANGED <<rdStopped, rdLock, rdBrowser, rdLive, rdCrashed, rdLost, rdClose>>

RdContextCloses(j) ==
  /\ rdJob[j].context = "closing"
  /\ \/ rdJob' = [rdJob EXCEPT ![j].context = "closed"] /\ UNCHANGED rdLeft
     \/ rdJob' = [rdJob EXCEPT ![j].context = "broken"] /\ RdFails
  /\ UNCHANGED <<rdStopped, rdCount, rdFree, rdLock, rdBrowser, rdLive, rdCrashed, rdLost, rdClose>>

(* A mutated form of RdHandsOver: nothing is asked after the decoding.     *)
RdHandsOverAnyway(j, stopped) ==
  RdFinished(j, [rdJob[j] EXCEPT !.images = IF @ = 0 THEN RdFrames ELSE @], TRUE)

(* After _close_context: raise, decode, or hand over.                      *)
RdHandsOver(j, stopped) ==
  LET job == rdJob[j] IN
  RdFinished(j, [job EXCEPT !.images = IF @ = 0 THEN RdFrames ELSE @],
             ~job.aborted /\ ~stopped)
RdClosed(j) ==
  LET job == rdJob[j] IN
  /\ job.at = "closing" /\ job.context \in {"closed", "broken"}
  /\ rdStopped' = (rdStopped \/ job.context = "broken")
  /\ IF job.raised \/ rdStopped' THEN RdFinished(j, job, FALSE)
     ELSE IF job.images = 0 /\ ~job.aborted
     THEN rdJob' = [rdJob EXCEPT ![j].at = "decoding"] /\ UNCHANGED <<rdFree, rdCount>>
     ELSE RdHandsOver(j, rdStopped')
  /\ UNCHANGED <<rdLock, rdBrowser, rdLive, rdCrashed, rdLost, rdClose, rdLeft>>
RdDecoded(j) ==
  /\ rdJob[j].at = "decoding" /\ RdHandsOver(j, rdStopped)
  /\ UNCHANGED <<rdStopped, rdLock, rdBrowser, rdLive, rdCrashed, rdLost, rdClose, rdLeft>>

-----------------------------------------------------------------------------
(* The request: the result or the exception of its task, or _abort_and_wait*)
RdReceives(j) ==
  /\ rdJob[j].request = "waiting" /\ RdDone(j)
  /\ rdJob' = [rdJob EXCEPT ![j].request = IF rdJob[j].held = "no" THEN "failed" ELSE "answered",
                            ![j].held = IF @ = "result" THEN "user" ELSE @]
  /\ UNCHANGED <<rdStopped, rdCount, rdFree, rdLock, rdBrowser, rdLive, rdCrashed, rdLost, rdClose, rdLeft>>
RdGivesUp(j) ==
  /\ rdJob[j].request = "waiting"
  /\ rdJob' = [rdJob EXCEPT ![j] = [RdContextEnding(@) EXCEPT !.aborted = ~RdDone(j),
                 !.request = IF rdJob[j].context = "none" THEN "joining" ELSE "closing"]]
  /\ UNCHANGED <<rdStopped, rdCount, rdFree, rdLock, rdBrowser, rdLive, rdCrashed, rdLost, rdClose, rdLeft>>
RdContextAwaited(j) ==
  /\ rdJob[j].request = "closing"
  /\ rdJob' = [rdJob EXCEPT ![j].request = "joining", ![j].bad = rdJob[j].context # "closed"]
  /\ UNCHANGED <<rdStopped, rdCount, rdFree, rdLock, rdBrowser, rdLive, rdCrashed, rdLost, rdClose, rdLeft>>
RdJobAwaited(j) ==
  /\ rdJob[j].request = "joining"
  /\ rdJob' = [rdJob EXCEPT ![j].request = "failed", ![j].bad = FALSE,
                            ![j].held = IF @ = "result" THEN "no" ELSE @]
  /\ rdStopped' = (rdStopped \/ rdJob[j].bad \/ ~RdDone(j))
  /\ UNCHANGED <<rdCount, rdFree, rdLock, rdBrowser, rdLive, rdCrashed, rdLost, rdClose, rdLeft>>

-----------------------------------------------------------------------------
(* close and _close_resources, in stages that each have a deadline.        *)
RdCloseBegins ==
  LET jobs == {j \in RdJobs : rdJob[j].at \notin {"unused", "over"}} IN
  /\ rdClose.at = "idle" /\ rdClose' = [rdClose EXCEPT !.at = "contexts", !.jobs = jobs]
  /\ rdStopped' = TRUE
  /\ rdJob' = [j \in RdJobs |->
       IF j \in jobs THEN [RdContextEnding(rdJob[j]) EXCEPT !.aborted = TRUE] ELSE rdJob[j]]
  /\ UNCHANGED <<rdCount, rdFree, rdLock, rdBrowser, rdLive, rdCrashed, rdLost, rdLeft>>
RdCloseContexts ==
  /\ rdClose.at = "contexts"
  /\ rdClose' = [rdClose EXCEPT !.at = "jobs",
       !.bad = \E j \in rdClose.jobs : rdJob[j].context \in {"closing", "broken"}]
  /\ UNCHANGED <<rdJob, rdStopped, rdCount, rdFree, rdLock, rdBrowser, rdLive, rdCrashed, rdLost, rdLeft>>
RdCloseJobs ==
  /\ rdClose.at = "jobs"
  /\ rdClose' = [rdClose EXCEPT !.at = "browser", !.browser = rdBrowser.browser,
       !.driver = rdBrowser.driver, !.jobs = {}, !.bad = @ \/ \E j \in rdClose.jobs : ~RdDone(j)]
  /\ rdJob' = [j \in RdJobs |-> IF j \in rdClose.jobs /\ rdJob[j].held \in {"result", "user"}
                                THEN [rdJob[j] EXCEPT !.held = "no"] ELSE rdJob[j]]
  /\ rdBrowser' = [browser |-> 0, driver |-> 0]
  /\ UNCHANGED <<rdStopped, rdCount, rdFree, rdLock, rdLive, rdCrashed, rdLost, rdLeft>>
(* browser.close() and stop() succeed, fail, or outlast their stage.       *)
RdCloseEnds(what, at) ==
  /\ rdClose.at = what
  /\ \/ /\ rdLive' = rdLive \ {[what |-> what, of |-> rdClose[what]]}
        /\ rdClose' = [rdClose EXCEPT !.at = at, ![what] = 0] /\ UNCHANGED rdLeft
     \/ /\ rdClose[what] # 0 /\ RdFails /\ UNCHANGED rdLive
        /\ rdClose' = [rdClose EXCEPT !.at = at, ![what] = 0, !.bad = TRUE]
  /\ UNCHANGED <<rdJob, rdStopped, rdCount, rdFree, rdLock, rdBrowser, rdCrashed, rdLost>>

(* The browser ends by itself.                                             *)
RdCrash ==
  /\ \E x \in rdLive : x.what = "browser" /\ x.of \notin rdCrashed /\ rdCrashed' = rdCrashed \cup {x.of}
  /\ RdFails
  /\ UNCHANGED <<rdJob, rdStopped, rdCount, rdFree, rdLock, rdBrowser, rdLive, rdLost, rdClose>>

-----------------------------------------------------------------------------
RdJobStep(j) ==
  \/ RdSlot(j) \/ RdEnsure(j) \/ RdReset(j) \/ RdStart(j) \/ RdLaunch(j) \/ RdLate(j)
  \/ RdContext(j) \/ RdFrame(j) \/ RdPageFails(j) \/ RdContextCloses(j)
  \/ RdClosed(j) \/ RdDecoded(j)
(* Steps of the requests and of close, which have their deadlines.         *)
RdOwnStep ==
  \/ \E j \in RdJobs : RdReceives(j) \/ RdGivesUp(j) \/ RdContextAwaited(j) \/ RdJobAwaited(j)
  \/ RdCloseContexts \/ RdCloseJobs
  \/ RdCloseEnds("browser", "driver") \/ RdCloseEnds("driver", "closed")
RdNext ==
  \/ RdOwnStep \/ RdCloseBegins \/ RdCrash
  \/ \E j \in RdJobs : RdRender(j) \/ RdJobStep(j)

RdSpec == RdInit /\ [][RdNext]_rdVars

-----------------------------------------------------------------------------
(* Whoever gets images has all of them and they are open; nobody else's    *)
(* stay open once the job is over and its request has ended.               *)
RdImagesOwned ==
  \A j \in RdJobs :
    /\ rdJob[j].request = "answered" => rdJob[j].held = "user" /\ rdJob[j].images = RdFrames
    /\ RdDone(j) /\ rdJob[j].request = "failed" => rdJob[j].held = "no"

(* Slots and places come back, at most RdActive jobs use the browser, and  *)
(* no job is over with its context open.                                   *)
RdPlacesReturn ==
  /\ rdCount = Cardinality({j \in RdJobs : rdJob[j].at \notin {"unused", "over"}})
  /\ rdFree + Cardinality({j \in RdJobs : rdJob[j].slot}) = RdActive
  /\ Cardinality({j \in RdJobs : rdJob[j].context \in {"open", "closing"}}) <= RdActive
  /\ \A j \in RdJobs : RdDone(j) => rdJob[j].context \in {"none", "closed", "broken"}

(* A renderer that goes on serving has one browser at most, its own.       *)
RdOneBrowser ==
  ~rdStopped => \A x, y \in {z \in rdLive : z.what = "browser"} : x = y /\ x.of = rdBrowser.browser

(* A close that returned well has left no browser and no driver, but those *)
(* whose failed closing was logged.                                        *)
RdNothingLeft == rdClose.at = "closed" /\ ~rdClose.bad => rdLive \subseteq rdLost

-----------------------------------------------------------------------------
(* What the proofs add.  A job on its own: it has its slot while it works, *)
(* its context while it needs one, its images until it hands them over     *)
(* whole to a request that still waits, and a request that gave up has     *)
(* aborted it.                                                             *)
RdState ==
  [at : {"unused", "slot", "lock", "resetting", "starting", "launching", "late",
         "context", "frames", "closing", "decoding", "over"},
   aborted : BOOLEAN, slot : BOOLEAN, raised : BOOLEAN,
   context : {"none", "open", "closing", "closed", "broken"}, images : 0..RdFrames,
   held : {"no", "job", "result", "user"},
   request : {"none", "waiting", "closing", "joining", "failed", "answered"}, bad : BOOLEAN]
RdIdle == {"unused", "slot", "over"}
RdStarting == {"resetting", "starting", "launching", "late"}
RdJobOK(job) ==
  /\ job.at = "unused" <=> job.request = "none"
  /\ job.slot <=> job.at \notin RdIdle
  /\ job.at \in {"unused", "slot", "lock", "context"} \cup RdStarting =>
       job.context = "none" /\ job.held = "no"
  /\ job.at \in {"closing", "frames"} => job.context # "none"
  /\ job.at = "closing" => job.context # "open"
  /\ job.at = "decoding" => job.context \in {"closed", "broken"} /\ job.images = 0
  /\ job.at = "over" => job.context \in {"none", "closed", "broken"} /\ job.held # "job"
  /\ job.at # "over" => job.held \in {"no", "job"}
  /\ job.at = "closing" /\ ~job.raised => job.images \in {0, RdFrames}
  /\ job.held \in {"result", "user"} => job.images = RdFrames
  /\ job.held = "result" => job.request \in {"waiting", "closing", "joining"}
  /\ job.held = "user" <=> job.request = "answered"
  /\ job.request \in {"closing", "joining", "failed"} /\ job.at # "over" => job.aborted

RdBusy == {j \in RdJobs : rdJob[j].at \notin {"unused", "over"}}
RdSlots == {j \in RdJobs : rdJob[j].slot}
RdResource == [what : {"browser", "driver"}, of : RdJobs]
RdTypeOK ==
  /\ rdJob \in [RdJobs -> RdState] /\ rdStopped \in BOOLEAN
  /\ rdCount \in Int /\ rdFree \in Nat /\ rdLock \in 0..RdRequests
  /\ rdBrowser \in [browser : 0..RdRequests, driver : 0..RdRequests]
  /\ rdLive \subseteq RdResource /\ rdLost \subseteq RdResource
  /\ rdClose \in [at : {"idle", "contexts", "jobs", "browser", "driver", "closed"},
                  jobs : SUBSET RdJobs, browser : 0..RdRequests, driver : 0..RdRequests,
                  bad : BOOLEAN]

(* The lock belongs to who starts the browser; meanwhile nobody knows one. *)
RdLockInv ==
  /\ \A j \in RdJobs : rdJob[j].at \in RdStarting <=> rdLock = j
  /\ \A j \in RdJobs : rdJob[j].at = "resetting" => rdBrowser.driver = rdBrowser.browser
  /\ ~rdStopped => rdBrowser.driver = rdBrowser.browser
  /\ \A j \in RdJobs : rdJob[j].at \in {"starting", "launching", "late"} =>
                         rdBrowser.browser = 0 /\ rdBrowser.driver = 0
  /\ ~rdStopped => \A x \in rdLive : x.what = "browser" => x.of = rdBrowser.browser

(* Whatever runs is known to the renderer, to the job that starts it or to *)
(* close, or its failed end was logged.                                    *)
RdOwnerInv ==
  ~rdClose.bad => \A x \in rdLive :
    x \in rdLost \/ x.of = rdBrowser[x.what] \/ x.of = rdClose[x.what]
      \/ rdJob[x.of].at \in {"launching", "late"}
RdCloseInv ==
  /\ rdClose.at = "idle" => rdClose.jobs = {}
  /\ rdClose.at \in {"idle", "contexts"} => ~rdClose.bad
  /\ rdClose.at # "idle" => rdStopped
  /\ rdClose.at \in {"idle", "contexts", "jobs", "closed"} =>
       rdClose.browser = 0 /\ rdClose.driver = 0
  /\ rdClose.at = "driver" => rdClose.browser = 0
  /\ rdClose.at \in {"contexts", "jobs"} => RdBusy \subseteq rdClose.jobs
  /\ \A j \in rdClose.jobs :
       /\ rdJob[j].aborted \/ RdDone(j)
       /\ rdJob[j].at # "unused" /\ rdJob[j].held \notin {"result", "user"}
  /\ rdClose.at \in {"browser", "driver", "closed"} =>
       /\ rdClose.jobs = {} /\ rdBrowser.browser = 0 /\ rdBrowser.driver = 0
       /\ ~rdClose.bad => RdBusy = {}
RdCountInv == rdCount = Cardinality(RdBusy) /\ rdFree + Cardinality(RdSlots) = RdActive
RdInv ==
  /\ RdTypeOK /\ \A j \in RdJobs : RdJobOK(rdJob[j])
  /\ RdLockInv /\ RdOwnerInv /\ RdCloseInv /\ RdCountInv
=============================================================================
