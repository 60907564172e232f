--------------------------- MODULE ArtifactStore ---------------------------
(***************************************************************************)
(* services/artifacts.py: the managed blob store behind previews, plans,   *)
(* print jobs and saved designs.  An artifact is a database row (`rows`)   *)
(* and a file (`files`) that are written and removed by separate,          *)
(* individually durable steps, so a crash can fall between them.  `pins`   *)
(* are durable ownership rows; the reaper deletes what is expired and      *)
(* unpinned.                                                               *)
(*                                                                         *)
(* put_bytes, pin, unpin and reap hold ArtifactStore._lock for their whole *)
(* duration: `op` names the critical section in progress ("idle" when the  *)
(* lock is free).  services/projects.py writes its pins WITHOUT that lock, *)
(* inside its own SQL transaction, so SyncManagedAssets interleaves with   *)
(* the steps of a running reap.  SQLite serialises the write transactions. *)
(***************************************************************************)
EXTENDS Integers, FiniteSets, Functions

CONSTANTS
  Artifacts,            \* the fresh uuids put_bytes may hand out
  Owners,               \* pin owners: "design:..", "preview:..", "plan:..", "job:.."
  Designs, Leases,      \* the owners that are saved designs / previews
  Size,                 \* size_bytes of each artifact
  QuotaBytes,           \* quota_bytes
  ArtifactTTL,          \* ttl_seconds of put_bytes
  LeaseTTL,             \* lifetime of a preview's pins
  ReapBatch,            \* rows one selection of the reaper may return
  StartupCleanupLimit,  \* _STARTUP_CLEANUP_LIMIT
  MaxTime,              \* bound on the clock
  Null                  \* "no expiry" (NULL), and "id not handed out yet"

ASSUME ArtifactStoreAssumption ==
  /\ IsFiniteSet(Artifacts)
  /\ Designs \subseteq Owners
  /\ Leases \subseteq Owners
  /\ Size \in [Artifacts -> Nat]
  /\ QuotaBytes \in Nat /\ ArtifactTTL \in Nat /\ LeaseTTL \in Nat
  /\ ReapBatch \in Nat \ {0} /\ StartupCleanupLimit \in Nat /\ MaxTime \in Nat
  /\ Null \notin Nat

VARIABLES
  now,      \* time.time(), in abstract units
  rows,     \* ArtifactRecord ids in the database
  files,    \* <id>.blob files on disk
  temps,    \* .<id>.tmp files on disk
  expiry,   \* expires_at of every id handed out so far
  pins,     \* ArtifactPin rows
  open,     \* a live process whose store is not closed
  op,       \* the critical section holding _lock
  hot,      \* artifacts that section works on: the one put, or the candidates
  doomed,   \* `removed` of a running reap: rows gone, files not yet unlinked
  reapAt    \* `now` captured when the running reap began

storeVars == <<now, rows, files, temps, expiry, pins, open, op, hot, doomed, reapAt>>

Pins == [owner : Owners, art : Artifacts, exp : Nat \cup {Null}]
Ops == {"idle", "write", "commit", "select", "delete", "unlink"}

LiveAt(p, t) == p.exp # Null => p.exp > t
PinnedAt(a, t) == \E p \in pins : p.art = a /\ LiveAt(p, t)
Fresh(a) == expiry[a] = Null
UsedBytes(S) == SumFunctionOnSet(Size, S)

\* Slip checked against ExpiredReclaimed: an artifact is due one tick late.
ReapableLate(t) == {a \in rows : expiry[a] < t /\ ~PinnedAt(a, t)}

\* The rows a reap that began at t may delete.
Reapable(t) == {a \in rows : expiry[a] <= t /\ ~PinnedAt(a, t)}

\* _pin_in_session replaces the whole set of one owner; _unpin_in_session drops it.
Unpinned(S) == {p \in pins : p.owner \notin S}
Repinned(o, ids, exp) ==
  Unpinned({o}) \cup {[owner |-> o, art |-> a, exp |-> exp] : a \in ids}

Idle == open /\ op = "idle"
ReleaseLock == op' = "idle" /\ hot' = {} /\ doomed' = {} /\ reapAt' = 0

----------------------------------------------------------------------------
(* put_bytes: quota check, temporary file, rename, row commit.              *)

\* Slip checked against QuotaRespected: the new bytes are left
\* out of the quota check, and the TTL has the wrong sign.
PutBeginUnchecked(a) ==
  /\ Idle /\ Fresh(a)
  /\ UsedBytes(rows) <= QuotaBytes
  /\ expiry' = [expiry EXCEPT ![a] = now - ArtifactTTL]
  /\ temps' = temps \cup {a}
  /\ op' = "write" /\ hot' = {a}
  /\ UNCHANGED <<now, rows, files, pins, open, doomed, reapAt>>

PutBegin(a) ==
  /\ Idle /\ Fresh(a)
  /\ UsedBytes(rows) + Size[a] <= QuotaBytes
  /\ expiry' = [expiry EXCEPT ![a] = now + ArtifactTTL]
  /\ temps' = temps \cup {a}
  /\ op' = "write" /\ hot' = {a}
  /\ UNCHANGED <<now, rows, files, pins, open, doomed, reapAt>>

PutInstall ==
  /\ op = "write"
  /\ temps' = temps \ hot /\ files' = files \cup hot
  /\ op' = "commit"
  /\ UNCHANGED <<now, rows, expiry, pins, open, hot, doomed, reapAt>>

\* An OSError before the rename removes the temporary file, or fails to; one
\* after it (the directory fsync) leaves the final file and no row.
PutWriteFails ==
  /\ op = "write"
  /\ \E leftTemp, leftFile \in SUBSET hot :
       /\ leftTemp \cap leftFile = {}
       /\ temps' = (temps \ hot) \cup leftTemp
       /\ files' = files \cup leftFile
  /\ ReleaseLock
  /\ UNCHANGED <<now, rows, expiry, pins, open>>

\* Slip checked against RowsHaveFiles: a failed commit removes the file although
\* the row may have landed.
PutCommitTidying ==
  /\ op = "commit"
  /\ \E landed, tidied \in {hot, {}} :
       rows' = rows \cup landed /\ files' = files \ tidied
  /\ ReleaseLock
  /\ UNCHANGED <<now, temps, expiry, pins, open>>

\* The commit may fail, and a failed commit may still have landed.
PutCommit ==
  /\ op = "commit"
  /\ \E landed \in {hot, {}} : rows' = rows \cup landed
  /\ ReleaseLock
  /\ UNCHANGED <<now, files, temps, expiry, pins, open>>

----------------------------------------------------------------------------
(* Pins.                                                                    *)

PinLease(o, ids) ==
  /\ Idle /\ ids \subseteq rows
  /\ pins' = Repinned(o, ids, now + LeaseTTL)
  /\ UNCHANGED <<now, rows, files, temps, expiry, open, op, hot, doomed, reapAt>>

\* projects._sync_managed_assets: runs in the project's write transaction and
\* takes no artifact lock.  An asset that is past its TTL is accepted only
\* while some other owner still pins it.
SyncManagedAssets(o, ids) ==
  /\ open /\ ids \subseteq rows
  /\ \A a \in ids : expiry[a] >= now \/ PinnedAt(a, now)
  /\ pins' = Repinned(o, ids, Null)
  /\ UNCHANGED <<now, rows, files, temps, expiry, open, op, hot, doomed, reapAt>>

\* delete_project and delete_category drop the design's pins with the row.
DeleteDesign(o) ==
  /\ open /\ \E p \in pins : p.owner = o
  /\ pins' = Unpinned({o})
  /\ UNCHANGED <<now, rows, files, temps, expiry, open, op, hot, doomed, reapAt>>

----------------------------------------------------------------------------
(* reap: delete expired pins; select, then delete with a re-check, until    *)
(* nothing is selected; then unlink.                                        *)

\* `kept` are the pins left by whatever the same pass did before.
ReapBeginFrom(kept) ==
  /\ Idle
  /\ pins' = {p \in kept : LiveAt(p, now)}
  /\ op' = "select" /\ reapAt' = now
  /\ UNCHANGED <<now, rows, files, temps, expiry, open, hot, doomed>>

ReapBegin == ReapBeginFrom(pins)

\* Oldest expiry first, at most ReapBatch rows.
ReapSelect ==
  /\ op = "select"
  /\ \E batch \in SUBSET Reapable(reapAt) :
       /\ Cardinality(batch) <= ReapBatch
       /\ Cardinality(batch) = ReapBatch \/ batch = Reapable(reapAt)
       /\ \A a \in batch, b \in Reapable(reapAt) \ batch : expiry[a] <= expiry[b]
       /\ hot' = batch
       /\ op' = IF batch = {} THEN "unlink" ELSE "delete"
  /\ UNCHANGED <<now, rows, files, temps, expiry, pins, open, doomed, reapAt>>

\* Slip checked against PinsHaveRows and ReapSparesOwned: the DELETE trusts the
\* selection and does not look at the pins again.
ReapDeleteUnchecked ==
  /\ op = "delete"
  /\ rows' = rows \ hot
  /\ doomed' = doomed \cup hot
  /\ op' = "select" /\ hot' = {}
  /\ UNCHANGED <<now, files, temps, expiry, pins, open, reapAt>>

ReapDelete ==
  /\ op = "delete"
  /\ LET gone == hot \cap Reapable(reapAt) IN
       /\ rows' = rows \ gone
       /\ doomed' = doomed \cup gone
  /\ op' = "select" /\ hot' = {}
  /\ UNCHANGED <<now, files, temps, expiry, pins, open, reapAt>>

\* An unlink that raises OSError is skipped: its file becomes an orphan.
ReapUnlink ==
  /\ op = "unlink"
  /\ \E stuck \in SUBSET doomed : files' = files \ (doomed \ stuck)
  /\ ReleaseLock
  /\ UNCHANGED <<now, rows, temps, expiry, pins, open>>

\* A database error abandons the reap: the files of `doomed` are orphans.
ReapAbort ==
  /\ op \in {"select", "delete"}
  /\ ReleaseLock
  /\ UNCHANGED <<now, rows, files, temps, expiry, pins, open>>

----------------------------------------------------------------------------
(* Process life.                                                            *)

Tick ==
  /\ now < MaxTime
  /\ now' = now + 1
  /\ UNCHANGED <<rows, files, temps, expiry, pins, open, op, hot, doomed, reapAt>>

Close ==
  /\ Idle
  /\ open' = FALSE
  /\ UNCHANGED <<now, rows, files, temps, expiry, pins, op, hot, doomed, reapAt>>

Crash ==
  /\ open
  /\ open' = FALSE
  /\ ReleaseLock
  /\ UNCHANGED <<now, rows, files, temps, expiry, pins>>

\* Slip checked against OrphansReclaimed: only temporary files are removed.
CleanTempsExcept(stuckTemps, stuckFiles) ==
  temps' = temps \cap stuckTemps /\ files' = files

\* _cleanup_startup_orphans examines at most StartupCleanupLimit directory
\* entries, those of live artifacts included, in the order scandir gives them.
\* An entry that cannot be removed is skipped.
CleanExcept(stuckTemps, stuckFiles) ==
  \E seenTemps \in SUBSET temps, seenFiles \in SUBSET files :
    LET seen == Cardinality(seenTemps) + Cardinality(seenFiles) IN
    /\ seen <= StartupCleanupLimit
    /\ \/ seen = StartupCleanupLimit
       \/ seenTemps = temps /\ seenFiles = files
    /\ temps' = temps \ (seenTemps \ stuckTemps)
    /\ files' = files \ (seenFiles \ (rows \cup stuckFiles))

\* An unlink may fail; a directory that cannot be read is the case where every
\* entry is stuck.
CleanOrphans ==
  \E stuckTemps \in SUBSET temps, stuckFiles \in SUBSET files :
    CleanExcept(stuckTemps, stuckFiles)

Opened == open' = TRUE /\ UNCHANGED <<now, rows, expiry, pins, op, hot, doomed, reapAt>>

Startup == ~open /\ CleanOrphans /\ Opened

\* A start that meets no I/O error.
StartupUnhindered == ~open /\ CleanExcept({}, {}) /\ Opened

\* The steps of requests and of the reaper that do not start or stop anything.
StoreStep ==
  \/ \E a \in Artifacts : PutBegin(a)
  \/ PutInstall \/ PutWriteFails \/ PutCommit
  \/ \E o \in Leases, ids \in SUBSET Artifacts : PinLease(o, ids)
  \/ \E o \in Designs, ids \in SUBSET Artifacts : SyncManagedAssets(o, ids)
  \/ \E o \in Designs : DeleteDesign(o)
  \/ ReapSelect \/ ReapDelete \/ ReapUnlink \/ ReapAbort
  \/ Tick

StoreInit ==
  /\ now = 0 /\ rows = {} /\ files = {} /\ temps = {}
  /\ expiry = [a \in Artifacts |-> Null]
  /\ pins = {}
  /\ open = TRUE
  /\ op = "idle" /\ hot = {} /\ doomed = {} /\ reapAt = 0

StoreNext == StoreStep \/ ReapBegin \/ Close \/ Crash \/ Startup

StoreSpec == StoreInit /\ [][StoreNext]_storeVars

\* The reaper loop runs every 30 s and SQLite busy errors are transient: a
\* step of the reap that is retried forever is not aborted forever.  Nor do I/O
\* errors hinder the cleanup of every start for ever.
FairStoreSpec ==
  /\ StoreSpec
  /\ WF_storeVars(ReapBegin)
  /\ WF_storeVars(PutInstall \/ PutCommit)
  /\ SF_storeVars(ReapSelect) /\ SF_storeVars(ReapDelete)
  /\ WF_storeVars(ReapUnlink)
  /\ SF_storeVars(StartupUnhindered)

----------------------------------------------------------------------------
(* Properties.                                                              *)

\* Types, and what the lock's owner may be working on.
StoreTypeOK ==
  /\ now \in Nat /\ reapAt \in Nat
  /\ rows \subseteq Artifacts /\ files \subseteq Artifacts /\ temps \subseteq Artifacts
  /\ expiry \in [Artifacts -> Nat \cup {Null}]
  /\ pins \subseteq Pins
  /\ open \in BOOLEAN /\ op \in Ops
  /\ hot \subseteq Artifacts /\ doomed \subseteq Artifacts

\* A row never refers to a missing blob, whatever crash, failed write, failed
\* commit, abandoned reap or startup cleanup happened before (put_bytes writes
\* the file first, reap deletes the row first).
RowsHaveFiles == rows \subseteq files

\* Nothing is owned that is already gone: no interleaving of a reap with a
\* design saved without the artifact lock leaves a pin on a deleted row.
PinsHaveRows == \A p \in pins : p.art \in rows

\* What makes the two inductive: which section works on what, and that every pin a
\* running reap can meet was live when it began (expired pins went first, and the
\* only pins added under its feet, those of designs, never expire).
LockInv ==
  /\ ~open => op = "idle"
  /\ reapAt <= now
  /\ \A a \in rows \cup hot : expiry[a] # Null
  /\ op = "commit" => hot \subseteq files
  /\ op \in {"idle", "write", "commit"} => doomed = {}
  /\ doomed \cap rows = {}
  /\ op \in {"select", "delete", "unlink"} => \A p \in pins : LiveAt(p, reapAt)

StoreInv == StoreTypeOK /\ RowsHaveFiles /\ PinsHaveRows /\ LockInv

\* The reaper deletes a row only when its TTL has passed and no live pin holds
\* it at the moment of the deletion, pins added since the selection included.
ReapSparesOwned ==
  [][\A a \in rows \ rows' : expiry[a] <= now /\ ~PinnedAt(a, now)]_storeVars

\* The rows never exceed the quota: the check and the insert are one critical
\* section.  (Orphan files are outside the quota.)
QuotaRespected == UsedBytes(rows) <= QuotaBytes

\* What the proofs add: what was let in still fits when its row is written.
QuotaInv ==
  /\ QuotaRespected
  /\ op \in {"write", "commit"} => UsedBytes(rows \cup hot) <= QuotaBytes

\* An expired artifact that nobody pins is reclaimed while the process lives.
ExpiredReclaimed ==
  \A a \in Artifacts :
    (a \in rows /\ expiry[a] <= now) ~> (a \notin rows \/ PinnedAt(a, now) \/ ~open)

\* reap and put_bytes leave orphan files "for startup reconciliation"
\* (artifacts.py:153, :238): a store that is restarted again and again, and whose
\* cleanup does not meet an I/O error at every start, must eventually remove them.
OrphansReclaimed ==
  ([]<>open /\ []<>~open)
    => \A a \in Artifacts : (a \in files \ rows) ~> (a \notin files \ rows)
=============================================================================
