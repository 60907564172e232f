# CatLabel: models and proofs

CatLabel drives small Bluetooth label printers from a browser editor: a FastAPI
server (`src/catlabel/`), a React editor (`src/frontend/src/`), a launcher with
side-by-side releases (`src/launcher.py`, `core/release_*.py`).  This directory
models the parts of it whose correctness depends on the order of things:
crashes between two durable steps, tasks that are cancelled while they hold
something, races for a row, a device or a file, late answers of a printer or of
a server.

Each module names the source it is translated from; `PROJECT.json` maps every
definition to its lines, lists every run, the hazards the properties are aimed at
and the theorems.  Paths below are relative to `src/catlabel/`, for the editor to
`src/frontend/src/`.

    tlc -config MCPrintJobs.cfg MCPrintJobs.tla      # one run (section 4)
    tlapm PrintJobs_proofs.tla                       # the proofs of one module

## 1. The system

| Component | Source | State it keeps | Operations | Interacts with |
|---|---|---|---|---|
| Artifact store | `services/artifacts.py` | rows and pins in SQLite, blob files, one lock | put, get, pin, unpin, reap, start-up orphan cleanup, close | everything that previews, plans, prints or saves |
| Print-job coordinator | `services/print_jobs.py` | plans, jobs, idempotency keys in SQLite; tasks in memory | create_plan, start, cancel, get, list, reap, close, recovery | store (pins), executor (task), reaper |
| Executor and admission | `services/print_executor.py`, `printing/admission.py` | claimed device addresses | claim, scan, delivery boundary, connect, print, drained disconnect | coordinator, printers, vendor clients |
| Server lifecycle | `api/main.py` | the process itself, the reaper task | start-up, 30 s reaper, shutdown | all services |
| Submission | `services/harness.py`, `mcp/server.py`, `api/routes_print.py` | previews, the scan cache | preview, prepare, start, direct print | coordinator, store, renderer, printers |
| Prepared prints | `services/prepared_prints.py`, `api/routes_prepared_print.py` | sessions of rendered pages, byte budget, expiry | start, append page, cancel, commit, reap, close | editor, executor |
| Editor print preparation | `LocalBatchRenderer.jsx`, `usePreparedPrintSession.js`, `state/slices/batch.js` | a tab's pending job, what is rendered, uploaded, acknowledged | print, render, upload, cancel, hand off, commit | prepared prints, over HTTP |
| Renderer | `rendering/template.py`, `browser_stream.py` | jobs, slots, one browser, a context per job | render, cancel, time out, close | routes, submission |
| Paper layout | `rendering/paper_layout.py` | images with one owner each | plan strips, make sheets | renderer, generic client |
| Releases and leases | `launcher.py`, `core/release_*.py`, `core/runtime_lease.py` | release directories, current and previous slot, add-on markers, two file locks | launch, update, roll back, verify, probe | file system, server |
| Uploads and limits | `services/uploads.py`, `api/request_limits.py`, `core/resource_limits.py` | font files and rows, conversion slots, budgets | store a font, convert a PDF, count a body | routes |
| Job spool | `printing/job_spool.py` | a temporary file and its records | append, read back, close | vendor clients |
| Projects | `services/projects.py` | projects, folders, revisions, pins | create, update, move, delete, import, export | store |
| Assistant | `api/routes_ai.py`, `services/ai_tools.py`, editor hooks | conversations, a working copy of the canvas, the tab's turn | chat, tool rounds, preview, stop, reset | external models, projects |
| Vendor clients | `vendors/niimbot`, `vendors/phomemo`, `vendors/generic` | connection, pending transactions | connect, print, disconnect | runtimes, transports |
| Printer runtimes | `printing/runtime/` | flow-control state, densities, pending waits, faults | prepare, send, handle a notification, wait, stop | clients, transports |
| Bluetooth transport | `transport/bluetooth/` | sockets, the reader, the loop thread, notification history | connect, write, query, wait, close | vendor clients |
| Protocol | `protocol/` | decoder buffers | encode, frame, decode | runtimes, clients |
| Editor document | `state/` slices, `documentLifecycle.js`, `history.js` | design, history, recovery copy, pages, selection | edit, undo, save, load, import, recover | HTTP API |
| Editor printer | `slices/printer.js`, `PrinterSettings.jsx`, `services/printers.py` | chosen printer, its profile, canvas size | choose, edit, save, migrate | HTTP API |
| Documents, templates | `services/documents.py`, `label_templates.py`, `rendering/template.py` | none | validate, fit | editor, assistant |
| Security, catalogue, tools | `api/security.py`, `vendors/generic/models.py`, `tools/` | a token; static tables | check, look up, build | all routes; developers |

### What is hard, and what makes each part correct

*Store.*  A row and its blob are separate durable steps, so a crash can fall
between them; the reaper selects, re-checks and deletes in three transactions
while projects pin without its lock.  Correct: no row without a blob, nothing
owned is deleted, the quota holds, garbage is reclaimed.

*Coordinator and executor.*  Requests, tasks, the reaper, shutdown and restart
recovery compete for job rows, and the printer cannot be asked what it got.
Correct: a refused job never reaches the printer, success is never invented, an
outcome is final, a request is accepted once, sources stay readable as long as
somebody may need them, tasks and device claims are bounded and released, every
job is settled.

*Submission.*  What was previewed, what was planned and what is printed are read at
different times, between which designs, settings and printers change.  Correct: a
job prints the plan it was started with, on the hardware it was made for.

*Prepared prints, uploads, spool, renderer.*  Budgets, slots, files and images that
must be given back on every way out; a session that expires while it is consumed; a
conversion or a rendering that outlives the caller that gave up on it.

*Releases and leases.*  Directory renames and a kill between them; several launchers,
two leases taken after the state they protect was first read.  Correct: what is
selected was accepted, and a running server keeps its release.

*Projects.*  Optimistic revisions against ids that SQLite hands out again; folders
that must stay a forest.

*Clients, runtimes, transport.*  Late, lost, repeated and unsolicited notifications
against deadlines, threads that outlive the caller that gave up on them, faults
reported between any two steps.  Correct: the verdict of a print is true, a fault
ends its job, pages are sent as they were made, an open connection has an owner, and
everything ends.

*Editor and assistant.*  Autosave, document switches, choices and chats against
answers that arrive out of order.  Correct: a late answer never replaces newer work.

## 2. Plan

The order is by what a fault would cost: a wrong answer about a print, lost data,
a stuck server, a stuck editor.

| | Part | State |
|---|---|---|
| 1 | store, coordinator, executor, process life; `PrintDelivery` as their promise | done, proved |
| 2 | prepared prints and their browsers; projects with pins | done, proved |
| 3 | vendor clients with `ClientPromise` as their promise; runtimes; transport | done for the families of section 3; clients, runtimes, links and sockets proved |
| 4 | releases, uploads, spool, renderer, plans, paper | done, proved |
| 5 | editor document, pages, printer; assistant | done, proved |
| 6 | decoders and page encodings | done for the stateful ones |
| 7 | proofs about the decoders and encodings | open (section 5) |
| 8 | the Luck runtimes, the merging of scans, documents and templates as functions | open (section 7) |

Parts that meet only in calls (one returns before the other goes on) are modelled
apart and share a run: the first state chooses which of them runs, the others wait.
Where parts share state (store, coordinator, projects; page store and browsers)
one module extends the other.

## 3. The modules

### The server's core

**ArtifactStore.**  State: `rows` (ArtifactRecord), `files` and `temps` (blobs on
disk), `expiry`, `pins` (ArtifactPin), `now`, and the critical section in progress
(`op`, with what it works on in `hot`, `doomed` and `reapAt`).  put_bytes is
`PutBegin; PutInstall; PutCommit`, reap is `ReapBegin; ReapSelect; ReapDelete; ...;
ReapUnlink`; every step is separately durable, so `Crash` can fall between any two,
and `SyncManagedAssets` (a project save, which takes no store lock) interleaves with
them.  Writes, commits and unlinks may fail, and a failed commit may have landed.  The
orphan cleanup of a start examines a bounded number of entries; a directory that cannot
be read leaves all of them, and an unlink that fails its own (`CleanExcept`).  A
file name is the id of its artifact; hashes and media types are left out (nothing is
ever rewritten in place).

**PrintDelivery** is what a client may observe of one job, and what the printer may
have got by then: nothing is sent before the row says "sending"; "submitted" needs a
complete delivery; an interrupted delivery is "delivery_uncertain".  `DeliverySpec`
in PrintJobs says that the coordinator implements it.

**PrintJobs** extends the store by plans, jobs, tasks, claims and the process.  All
handlers run on one event loop, so a handler is one action up to its next await and
none runs while a store operation is in progress; project routes run in threads and
do interleave.  A task goes `ready` (created), `scanning`, `connecting` (the boundary
is persisted), `printing`, `disconnecting`, and ends.  `effect` is what the printer
may have received.  `faults` counts failed database writes.  close() is `BeginClose;
CancelTasks; EndClose`, a crash is `Exit`, and `Restart` runs the orphan cleanup and
the recovery.  Left out: the paths of start that need a second coordinator on the
same database (the runtime lease excludes it), executor_skipped_delivery_boundary and
delivery_boundary_already_crossed (the deployed executor cannot reach them), requests
rejected by validation, and the contents of manifests, receipts and errors.  The
clock is monotone.

**FrozenPlan** follows one design, its settings, its printer's profile and the
printer found at the address from preview to plan to job, while each of them changes
(versions are counters).  An agent previews, prepares from the preview and starts; a
direct print makes its plan on the way.  A preview's expiry and its reaping are one
step.

**PreparedPrints** is the server's store of rendered pages with the route that
commits them.  `session` is `_sessions`, `issued` the ids handed out, `disk` what is in
each temporary directory (a page is whole or torn), `stopped` is `_stopped`, and `commit`
has the lease of each request in flight: its session (`id`) and pages (`paths`), how many
were read (`read`), whether the job was submitted (`sent`) and whether that job is over
(`over`).  append is `AppendPage`, or a failing
write that leaves a torn file and may leave the session (`AppendFails`); commit is
`TakeForCommit`, `ReadPage` for each page (the awaits between which everything else runs),
`Submit`, `JobSettles` and `Finish`: between the two the route polls its job, without a
deadline (`Waiting`; submit_legacy).  `printed` records what each session put on paper.  A size stands for
the byte and pixel budgets together.  A crash is left out: it loses the sessions and
leaves their directories.

**PrintPreparation** extends it by the browsers: tabs, the job whose renderer is
mounted, the hook's refs and the requests and replies between them.  A request may be
served after its caller gave up on it and, when `Unreliable`, be lost or be reported
failed although it is served.  A React commit and the effects that follow it are one
action, so a cancellation in the store and the unmount it causes
(`CancelPreparation`, `Rerender`) are two.  Left out: StrictMode's double mount, jobs
without labels.

**BrowserRenderer** has a job per request: admitted, waiting for a slot, starting or
sharing the browser, rendering in its context, handing images over, cleaning up.
Every Playwright call may fail, or hang until its job is aborted and its wait times
out; `RdCloseBegins` stops admission and ends what is left.  **PaperLayout** is the plan of
strips (a function, checked against the whole image) and the generator that makes
one sheet at a time, with every PIL image it opens and who closes it.

**Projects** extends the store by saved designs (`project`), their folders (`parent`),
what each client has last read of a design (`seen`) and the number of accepted writes.
Every operation of the service holds `_project_write_lock` and is one transaction, hence
one action; the store and its reaper do not take that lock and interleave. Ids are
rowids: the next one is the largest in use plus one, so ids are handed out again. `ver`
and `born` are not in the database: they tell contents and projects apart so that
properties can speak of them. The guard of an update compares id and revision only, so a
client of a deleted project may overwrite the one that has its id now, if it stands at
the same revision: `OnlyReusedIdsLoseEdits` says that this is the only way to lose an
edit one has not read, and `projects_deleted` shows that it happens. The walk up from a
folder in update_category visits the least set that is closed under parents (`Under`,
`Above`); an import is a chain of new folders with projects in the last of them. Left
out: exports and listings, names, and an update that provides nothing.

**ReleaseSlots** has one program counter per launcher, the slots on disk with the
state of each file, the selection, the add-on markers and both leases.  Extraction,
rename, marker, probe, publication are separate steps with `RsKilled` between any two.
**Uploads** has fonts (file, row, request), PDF conversions on their threads with
their callers, and the counting of a body.  **JobSpool** is the temporary file with
short and failing writes and the rollback of a failed append.

### Printers

**ClientPromise** is what print_executor relies on: print_images returns only when
every page was delivered; an error that says nothing was sent is true.
**NiimbotClient**, **PhomemoClient** and **GenericClient** implement it, each by an
`INSTANCE ClientPromise WITH` what left for the printer (`NiimbotKeepsPromise`, ...).
A client, the notification callback that runs in another thread, and the printer are
three actors with a queue between them that loses, delays and reorders as the link
does.  The generic client runs steps of "plain", "interactive" (queries between
pages), Print Master and Astra families.

**RuntimeV5X**, **RuntimeV5C**, **RuntimeV5G**, **RuntimeFunnyLX** are the
controllers that keep state: acceptance of a raster start and tasks that answer the
printer; the fault and completion of a job scope; densities against temperature
reports and a background helper; retransmission.

**BluetoothLink** is the connection of a client with its worker thread, its reader and a
caller that may give up. A Classic write looks at the disconnect and at flow before each
chunk; a BLE payload is handed to its socket in one send that looks at neither
(`BlOnBle`). A passive wait is given the first frame of its kind among what came since
the last wait, and claims everything received by then (`BlRegister`, `BlFeed`): a second
frame that came with the first is not found by a later wait. **BleSocket** is the life of a
BLE connection with native operations that outlive their deadlines; **BleChannel** is what
goes over it under flow control; **GattEndpoints** is the choice of characteristics for
every order in which a system lists them; **OwnedSocket** is the macOS and WinRT sockets,
whose thread takes commands. **PacketStreams** feeds the decoders whole, damaged and
foreign bytes cut anywhere; **PageEncodings** encodes pages and reads them back as a
printer would.

Assumed of what is outside `src/`: a repeated completion of a Print Master printer
has its first byte received before the next page begins; a Funny LX printer asks for
the first packet it misses; of an owned socket one thread connects and uses it and
another may close it.

### The editor

**EditorDocument** has the design, the history, the recovery copy, the projects on
the server and the requests under way; an edit makes a new number, so a property can
ask whether any number was given up.  Other tabs save, delete and create projects
(`EdElsewhere`), and an id is handed out again after its project was deleted; `born` counts
which of the projects that had an id is meant, so that properties can tell them apart, which
the code cannot.  What is shown as saved is therefore claimed only while the project that
was opened or saved is there (`EdSavedIsStored`).  **EditorPages** has elements, groups, pages,
backgrounds and selection: `sheet` says which sheet of paper an element was put on,
while a page is an index that shifts when a page goes; a pick for printing remembers the
sheet that was meant, and tells nothing once undo or a lost page made it stale.  **EditorPrinter** has the
chain of requests that a choice of a printer starts, and the panel.  **AiAssistant**
has a tab and its turns, the server's loop of tool rounds and the copy of the canvas
each turn works on; others update, delete and create projects meanwhile (`AaOthers`), with
ids reused.

`MC*.tla` modules give the instances; MCDevices, MCServices and MCPrintPreparation
also put parts that share no state side by side.

## 4. The runs

| Run | What it shows |
|---|---|
| `artifact_store` | rows, files, pins and quota under every interleaving, failure and crash; expired rows and orphans are reclaimed when the cleanup limit covers the directory |
| `artifact_orphans` | ... and are not when it does not (finding) |
| `print_jobs` | the coordinator's safety with retention, restart and failing writes; it implements `PrintDelivery` |
| `print_jobs_live` | tasks stay bounded, active jobs have one, and every job is settled |
| `print_jobs_faults` | every active job has a task: refuted when a write fails (finding) |
| `prepared_prints` | leases, budgets and files of the page store; every session ends, even when its caller keeps sending pages that fail, unless the job its commit waits for is never over |
| `preparation` | cancel, unmount, hand-off and late replies of two tabs on an unreliable network; owners of images, slots and browsers; plans against what changes under them; sheets of paper |
| `projects` | two clients on designs whose ids are reused, with an image, its reaper and crashes: edits lost otherwise than to a reused id, inherited pins, unreadable designs; and every arrangement of three folders |
| `projects_deleted` | an update of a deleted project is refused: refuted when the id is reused (finding) |
| `devices` | clients, runtimes, link and sockets, decoders and encodings: true verdicts, faults, pages, owners, stops, and that everything ends |
| `services` | releases, uploads, spool, editor, assistant, and a tab on a network that answers: what was accepted stays, nothing goes on, the editor keeps its user's work, all ends |
| `profile_saves` | a profile edited in the panel is taken: refuted (finding) |

Type invariants of the modules with proofs are theorems (section 5) and not repeated
in runs.

*Bounds.* Store: three artifacts (two that do not fit the quota together), one design
and one lease give every conflict; lifetimes of one tick on a clock of two let a
deadline pass before, between and after any two steps. Jobs: two jobs and two plans give
every pair of competing owners; two jobs on one task slot make the limit refuse; one
failed write reaches every error branch that matters once. Projects: two ids, two
clients and three accepted writes give delete, reuse and a save by a stale client; three
folders are the least for a circle that a look at the direct parent misses. Page store:
two sizes under a budget of three let a page fit, fill and exceed it; a lifetime of two
ticks leaves a caller time to keep a session busy; two labels are the least for which
one waits behind an upload; one slot for two tabs makes a creation fail. Renderer: two
requests, both admitted and both active, share a browser; a refusal as busy is then
reached only through a renderer that stopped. Devices: two pages (V5G three, for a
density that follows from two pages before), two chunks, and one to four troubles per
part, as many as it takes for a loss to meet a late answer of the step before. Pages of
at most a few pixels with the encodings' limits scaled down (a byte of two pixels, runs
of two, bands of two rows), so that every limit is reached, passed and met exactly.
Releases: two releases and two launchers with three launches, one damage. Editor: three
clicks of the user with one change by others, or two with two (`EdBudgets`), reach a
second document while the first one's request is out, and a project that is deleted and
replaced under an open tab; two ids are enough for one to be handed out again; four page
operations. `services` pins the first add-on selection, which is symmetric.

Symmetry is used only in runs that check safety.  Deadlock is checked where the part
cannot stop by design; devices, services and the preparation of pages come to an end.

*Fairness.* Store: the reaper loop runs every 30 s and SQLite's busy errors are
transient, so a reap that is retried for ever is not aborted for ever (strong fairness
of select and delete, weak fairness of the rest). The process is started again and
again, and I/O errors are transient too: not every start meets one (strong fairness of
`StartupUnhindered`); a start that meets one leaves its orphans to the next.
Coordinator: asyncio's ready queue is first-in first-out and handlers are bounded, the
transports put deadlines on every await of a task, so each task steps again and again
(strong fairness, because store operations block the loop in between); `Restart` is
weakly fair. Page store: the 30 s reaper and the clock go on, and a commit ends unless
it polls its job: that poll has no deadline, and a job may stay "accepted" for ever (the
finding of `print_jobs_faults`), so `SessionsEnd` lets such a session keep its slot and
nothing in `Fairness` says that a job is ever over. The tab that `services` follows to
the end of its print assumes that jobs settle (`PrepFairness`), which `JobsSettle` shows
of the coordinator when its writes do not fail. `devices` and `services`: weak fairness
of the program's own steps (a step that is possible is taken: deadlines end waits,
threads are scheduled), taken together because finitely many are left once the bounded
troubles and the user's clicks are used up; nothing is assumed of printers, users, other
programs or the network, except that a request that is not lost is answered. Document,
pages, endpoints, decoders and encodings have no step that must happen. The renderer and
the plans have no liveness property: a hang is bounded by budgets whose own cleanup may
hang once more.

## 5. The proofs

Every theorem holds for any number of artifacts, jobs, sessions, projects and so on,
from the assumptions on the constants that the modules name.

`Folds_proofs` holds what the others need of sums, folds and orders.  The library's
induction takes an operator as its argument, which no installed prover instantiates; so
these lemmas find the least counterexample instead (a set of naturals that is not empty
has a least member, by the well-foundedness of <).  With it: a recursive function that
adds up a finite set exists (`FoldExists`), `MapThenSumSet` is the sum it should be, and
changing one value changes the sum by the difference (`Sums`, `SumOfUpdate`); the same for
folds over sequences, rows laid end to end, values in order, and division.

`ArtifactStore_proofs`: from ArtifactStoreAssumption, `StoreInv` is inductive:
types, rows have files, pins have rows, and `LockInv`, which says what the lock's
owner works on and that every pin a running reap can meet was live when it began
(the expired ones were deleted first and the only pins added under its feet, those
of designs, do not expire).  Without that last conjunct a reap could delete a row
whose pin expired meanwhile and leave the pin behind.  `QuotaInv` adds the sums: the rows,
with what the owner of the lock has let in and not yet written, fit the quota (`QuotaKept`).

`PrintJobs_proofs`: `NextShapes` reduces the 30 actions to a few shapes (a task
moves, ends, crosses the boundary; a row is reserved, settled, retired), and
`JobsInv` is shown to be preserved part by part: the store's invariant under the
coordinator (`StoreKept`), types (`TypesKept`), receipts that outlive their plans
(`RequestsKept`, which needs `PlanTTL <= TerminalRetention`), at most one job per
request (`OnceKept`), what task, row and printer may be together, with the step of
`PrintDelivery` each action takes (`JobKept`), and pins that cover every held source
(`CoverKept`).  The first theorems, and that the coordinator implements
`PrintDelivery`, follow from `JobsCorrect`.  Three further invariants are proved on
top of it:

- *Devices* (`DevicesHeldOnce`).  `ClaimsMatchTasks` is inductive given that a job's
  device never changes once it has a row (`DeviceStays`).  Steps are of three kinds:
  nobody's hold changes, a task takes what nobody holds, a task lets go.
- *Pins* (`PinsAreExact`, `EvidenceIsKept`).  `PinsExact` strengthens "what is held is
  pinned" to "the pins of an owner are those it is due", as sets of pins rather than of
  artifacts, so that each step's effect on one owner is an equation; it also says that
  only uncertain deliveries are compacted, without which a reaper pass could compact
  an active job.  For the forensic period, a step that ends a job's hold is either the
  reaper's, which looks at the period, or the end of a job that is not uncertain.
- *Tasks* (`TasksAreAccountedFor`).  `StageInv` ties a task's position to its row: not
  "sending" before the boundary, not "accepted" past it.  It is what makes every
  conditional update at the end of a task hit (`EndsSettled`), and it needs that no
  write fails: the assumption `MaxFaults = 0` is the one `print_jobs_faults` refutes
  the conclusion without.

`PreparedPrints_proofs`: `StoreInv` joins types, `DiskOwned`, `SessionInv` (the
pages of a session are on its disk, whole and in order, and a committing session
is neither expired nor discarded), `CommitInv` (a commit holds the lease of a
session that says "committing", and no other commit has the same one) and
`PrintedInv` (what is printed is what was leased).  `LeaseReadable` alone is not
inductive: that a directory survives the reaper follows from the status the other
parts tie to the lease.  `DiskInv` says that a session's total counts the pages on its disk,
with at most one leftover of a failed write beside them, which still fits
(`DiskStaysAccounted`).

`Projects_proofs`: `ProjectsInv` joins the store's invariant, the forest, the absence
of orphans, pins that follow designs and `ReadingsInv` (a client that has read the
project an id has now is not ahead of it and, at the same revision, knows its
contents; one that has read an earlier project of that id is known to be older).  With it,
`EditsAreLostOnlyToReusedIds`.  The steps are reduced to three shapes: a row is written, rows go with
their pins, rows stay.  A moved folder would need a circle on the walk up from its
new parent (`MoveCategoryKeeps`); an import makes folders whose least member hangs
below an old one (`ImportKeepsForest`, by the well-foundedness of <).  That images
stay readable follows from pins that follow designs and `PinsHaveRows`.

`Preparation_proofs`: `PrepInv` adds to the page store's `StoreInv` what the tabs know
of it.  Only the label that is being sent is on the way, so the session's next page is
the one after the last acknowledged, or after the one being sent (`NextInv`,
`TransitInv`); evidence that a commit happened is never found once a job is known to
have stopped (`EvidenceInv`).  Steps of the store that a tab does not see are `Calm`;
steps of a tab are shown to keep each part by `NextKeeps`.  From it follow what the user
is told (`WhatTheUserIsTold`), the order of the labels (`LabelsArriveInOrder`), and that
`PrepSpec` implements the specification of the page store, so everything proved of the
store holds when these browsers are its callers.

The same module has the renderer, the plans and the paper.  That every browser and page of the
renderer is owned (`RdImagesOwned`) is not inductive by itself.  `RdInv` adds what each request may hold at
each of its stages, that whoever starts the browser holds the lock, that whatever runs is
known to the renderer, to its starter or to close, or is recorded as lost, and that the
counters are the cardinalities of the sets they count.  Steps reduce to one request's
turn (`RdTurns`, `RdTurnKeeps`).  Of the sheets of paper `PlInv` says that every image
made has exactly one holder, and that names stand for images in the order they were made;
that a plan's strips join to the whole job (`PlPlanIsWhole`) follows from what a row of
parts laid end to end is.  `FzInv` says that a frozen plan holds whole labels of one design
and that everything printed is the expansion of one plan's images, copies included, each plan
once (`FzPrintsThePlan`).  Together they are `PrintsAreTold`.

`Devices_proofs`: a behaviour of `devices` is, for each part, a behaviour of that part
(`DeviceBehaviours`), so each invariant is proved of its part alone.  `VcInv` and `PhInv`
tie the latched fault to the phase; `PhInv` counts whole pages in bytes that have arrived.
`GcInv` needs that a plan begins with data.  `NbInv` is the hardest: a Niimbot packet does
not say which request it answers, so the invariant says what may be under way at each
stage.  It holds only while the print runs and no fault is latched.  The connection is
quiet when a label begins and after every acknowledged stage; the leftovers are only those
of the unanswered resets, until the density is acknowledged, and of status polls, until
"end" is; the request that ends a page is unique, so that pages are ended label by label;
a positive completion means that the page was ejected; a D11 page announces itself once.
The step of `ClientPromise` that each action of the three clients takes is found from it.
Of the runtimes, `VxInv` says that the only answer under way is that of the start which is
waited for (so a late "accepted" of one page never starts another), and that a density the
controller remembers is the printer's; `VgInv` that nothing gives the printer its density
back while a page is under way, and that, on an MX06, "go down a step" refers to the page
before even when the printer's second status comes in the middle of a page; `FxInv` that a
request, wherever it waits, names a packet at or before every missing one, because what the
printer has only grows.

The transport is in the same module.  `BcFlowInv` counts the chunk that was past
its check when the pause came.  In `BsInv` a connect that settles late may undo the
disconnect, so a link with the disconnected flag set is allowed exactly where another
disconnect follows or an error is reported.  `BlInv` says that a connect opens nothing
before what was there is closed.  `OsInv` says that at most the last receiver's event is
set, and none once a cleanup has begun; that a connect is the first command of its thread,
with nothing open; and that a caller past a successful close finds everything closed.
`BlInboxInv` ties what the reader keeps to who waits: what was passed over was claimed or
trimmed, so a passive wait that starts where the last one ended, or at the oldest frame kept,
leaves out nothing.  By `BlAskedInv` no job of the client meets a connection that was opened
after a disconnect was asked for.  `WritersAndReceiversStop` allows the BLE payload that
was already handed to its socket.  The counters that bound TLC's runs appear in no invariant.

`Services_proofs`: each service from an invariant of its own, and together
`AcceptedIsKept`, `OverIsOver` and `AssistantActsInOrder`. `RsInv`: who updates holds
both leases, who serves the one of the data, and what is about to be published has
answered its probe. `UpInv`: only the lock's holder writes and promotes, to a name
without a file; a conversion has measured, then rendered, the pages before its next one,
so the sum of its pixels was bounded before the first was rendered; a length is too long
by its digits exactly when its value is. `JsInv`: where each record lies in the file,
and that an id given to a matcher is never given to another. `AaInv`: a turn the tab
waits for tells the chat it is in, and no canvas, wherever it is, names a revision that
was never stored under its project's id. `EditorWorkIsKept` puts the next module's three
theorems together.

`Editor_proofs`: the document, the printer and the pages run side by side (`EditorRuns`), so
each is proved alone.  `EdInv` says that a session and a revision name one design for as
long as they last (`EdNamesInv`), so whoever asked over them asked over that design; and that
a revision of a project holds the design it was given for, as long as that project is there,
which its place among those that had the id tells (`EdStoredInv`), so that what is shown as
saved is stored as long as its project is (`DesignIsKept`).  `PfInv` adds that
the canvas has the resolution of the printer chosen, and how far rounding may have drifted.
`PfSizeKept` says what `PrinterIsShown` proves for every resolution: rounding never crosses a
whole inch, and where only two resolutions meet a design stays within a dot of the coarser
one (`PfDrift`: going there and back undoes itself); with three, rounding adds up, and
200, 203 and 300 dpi reach almost three dots.  `EpInv` says that the design shown and the one
undo returns to are both well made (`EpMade`): a page is one sheet, a sheet is one page, no
sheet or identity is in use that was not given out, and an identity is on one page
(`EpTitled`).  The last is what grouping needs: the elements of a group come from one page
because a selection names identities, and `moveItemZ` and the copies keep each on its page.

`EdAssumption`, `PfAssumption` and `EpAssumption` bound TLC's clicks and steps by naturals and
give the printers positive resolutions; a real project is not called "none".

Only model-checked: every liveness property (`ExpiredReclaimed`, `OrphansReclaimed`,
`JobsSettle`, `SessionsEnd`, `DevicesEnd`, `ServicesEnd`), which is out of this prover's
reach; of `PagesAreRight` the read-back of an encoded page (`EnPageReadBack`) and of
`NothingMissed` the stream decoder (`PsCutsDoNotMatter`, `PsWholeIsHeard`), where what a
recursive definition computes for every input is meant; and `GeSameEndpoints` and
`GeCoherent`, not attempted.

## 6. Findings

- `print_jobs_faults`: a database write that fails while a task reports its end
  leaves the job active, with no task, until the next restart
  (`services/print_jobs.py:761`).  A commit that polls such a job keeps its prepared
  session, and the session's slot, as long.
- `artifact_orphans`: the start-up cleanup that failed unlinks are left to examines a
  fixed number of entries, live files among them (`services/artifacts.py:402`).
- `projects_deleted`: an id that is reused lets the update of a deleted project
  overwrite a new one (`services/projects.py:276`).
- `profile_saves`: the server forbids the fields that the panel and the migration send
  back, so a profile edited in the editor is never stored (`services/printers.py:31`).

Met while modelling and true of the code; the models' actions have them, and the
properties are stated so that they allow for them:

- *Releases.*  Preparing the active slot again with other add-ons alters its selection
  even when the probe then fails; a kill between the directory and its markers loses
  the selection for the retry; a damaged active slot blocks update and rollback alike;
  a killed launcher leaves `.stage-*` and `.probe-*` behind.
- *Uploads.*  The font list takes no lock: beside an upload it can add a second row, or
  a row whose file a failing commit then removes.
- *Document.*  Undo within the 400 ms before an edit is recorded skips a step and loses
  the edit; an import bypasses the history; while an old recovery copy awaits an answer
  new edits are not written to it.
- *Pages.*  A shift-click on the canvas drops the earlier selection; undo restores
  neither the page shown nor the picked pages; a picked page that became empty stays
  picked; multiplying a workspace clears one of the two selections.
- *Printer.*  Until the chosen printer's profile arrives the panel shows the former one
  and saves it to the new printer; after a refused migration the merged profile is
  shown though not stored; choosing a printer that is at hand does not forget the
  remembered one that is not.
- *Assistant.*  A chat that fails after a tool saved a project answers with the
  original canvas, so the next save conflicts; clearing detaches the project on the
  server only; loading a project clears actions that waited for review; the trace of a
  conversation deleted during a chat stays, and its id may be given to another.
- *Renderer.*  A request that runs while another one's failed cleanup stops admission
  gets the internal abort, which the route does not map to 503; a stopped renderer is
  not replaced; a cancellation during a timeout's cleanup becomes a timeout.
- *BLE.*  Control packets ignore flow control; one chunk may follow a pause that was
  already heard; an answer may be older than its question; a late connect may leave the
  connected flag unset; a Mac owner thread that dies with live resources can never be
  closed.
- *V5X.*  The callback of a finished start task clears the record of a newer one, which
  stop() then misses; a start waits for an idle status that may be a stale one of the
  history.
- *Decoders.*  A Niimbot frame behind a stray 0x55 is lost; the reply decoders drop an
  unknown prefix with its opcode.  The Niimbot pixel counts would not fit their bytes
  for rows of 768 pixels or more (no such model is listed).
- *Submission.*  The hardware check at execution compares with the last scan, so a
  printer that was exchanged since is not noticed; of overlapping scans the older may
  overwrite the newer.

## 7. Not modelled

- *Model catalogue* (`vendors/generic/models.py`, `data/`): matching a name over static
  tables; no state.
- *API security*: request policy (host, origin, token), one decision per request.
- *Editor views, build and check tools*: drawing, and scripts run by hand.
- *Luck runtimes*: the same query-and-wait sequences as the plain generic families,
  with other bytes.  The continuous density helper of V5G is reached only by pages with
  more than four density packets, which no family builds.
- *Command bytes of the protocol families*, dithering, fonts, template geometry and
  document validation: functions of data, without an order of steps to get wrong; only
  encodings that carry state across a page are modelled.
- *Scan merging and pairing* of the platform adapters: calls of the operating system.
- *Routes that only read*, listings, exports, logging, configuration, the provider
  settings of the assistant.

`PROJECT.json` lists every component with its status and what is left out of it.
