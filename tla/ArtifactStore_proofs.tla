------------------------ MODULE ArtifactStore_proofs ------------------------
(***************************************************************************)
(* For any set of artifacts, owners, sizes and lifetimes: no row loses its *)
(* file and no pin loses its row, whatever crashes, failed writes and      *)
(* interleavings of reaps with saved designs happen.  The inductive        *)
(* invariant is StoreInv.                                                  *)
(***************************************************************************)
EXTENDS ArtifactStore, Folds_proofs

USE ArtifactStoreAssumption DEF Ops, Pins

\* The store starts empty, with nothing in progress.
LEMMA StoreInitInv == StoreInit => StoreInv
BY DEF StoreInit, StoreInv, StoreTypeOK, RowsHaveFiles, PinsHaveRows, LockInv

\* put_bytes writes the file before the row, and gives up only what has no row.
LEMMA PutInv ==
  ASSUME StoreInv,
         \/ \E a \in Artifacts : PutBegin(a)
         \/ PutInstall \/ PutWriteFails \/ PutCommit
  PROVE  StoreInv'
<1> USE DEF StoreInv, StoreTypeOK, RowsHaveFiles, PinsHaveRows, LockInv, LiveAt
<1>1. ASSUME NEW a \in Artifacts, PutBegin(a) PROVE StoreInv'
  BY <1>1 DEF PutBegin, Idle
<1>2. CASE PutInstall
  BY <1>2 DEF PutInstall
<1>3. CASE PutWriteFails
  BY <1>3 DEF PutWriteFails, ReleaseLock
<1>4. CASE PutCommit
  BY <1>4 DEF PutCommit, ReleaseLock
<1> QED BY <1>1, <1>2, <1>3, <1>4

\* An owner is only ever given rows that exist, and while a reap runs only pins
\* that never expire are added.
LEMMA PinInv ==
  ASSUME StoreInv,
         \/ \E o \in Leases, ids \in SUBSET Artifacts : PinLease(o, ids)
         \/ \E o \in Designs, ids \in SUBSET Artifacts : SyncManagedAssets(o, ids)
         \/ \E o \in Designs : DeleteDesign(o)
  PROVE  StoreInv'
<1> USE DEF StoreInv, StoreTypeOK, RowsHaveFiles, PinsHaveRows, LockInv, LiveAt,
            Unpinned, Repinned
<1>1. ASSUME NEW o \in Leases, NEW ids \in SUBSET Artifacts, PinLease(o, ids)
      PROVE  StoreInv'
  BY <1>1 DEF PinLease, Idle
<1>2. ASSUME NEW o \in Designs, NEW ids \in SUBSET Artifacts, SyncManagedAssets(o, ids)
      PROVE  StoreInv'
  BY <1>2 DEF SyncManagedAssets
<1>3. ASSUME NEW o \in Designs, DeleteDesign(o) PROVE StoreInv'
  BY <1>3 DEF DeleteDesign
<1> QED BY <1>1, <1>2, <1>3

\* The reap deletes no pinned row, and unlinks no file that has one.
LEMMA ReapInv ==
  ASSUME StoreInv, ReapSelect \/ ReapDelete \/ ReapUnlink \/ ReapAbort
  PROVE  StoreInv'
<1> USE DEF StoreInv, StoreTypeOK, RowsHaveFiles, PinsHaveRows, LockInv
<1>1. CASE ReapSelect
  BY <1>1 DEF ReapSelect, Reapable, LiveAt
<1>2. CASE ReapDelete
  <2>1. \A p \in pins : p.art \notin hot \cap Reapable(reapAt)
    BY <1>2 DEF ReapDelete, Reapable, PinnedAt
  <2> QED BY <1>2, <2>1 DEF ReapDelete, LiveAt
<1>3. CASE ReapUnlink
  BY <1>3 DEF ReapUnlink, ReleaseLock
<1>4. CASE ReapAbort
  BY <1>4 DEF ReapAbort, ReleaseLock
<1> QED BY <1>1, <1>2, <1>3, <1>4

\* A reap that begins keeps of `kept` the pins that are live.
LEMMA ReapBeginInv ==
  ASSUME StoreInv, NEW kept \in SUBSET pins, ReapBeginFrom(kept)
  PROVE  StoreInv'
BY DEF ReapBeginFrom, Idle, StoreInv, StoreTypeOK, RowsHaveFiles, PinsHaveRows,
       LockInv, LiveAt

LEMMA StoreStepInv == StoreInv /\ StoreStep => StoreInv'
<1> SUFFICES ASSUME StoreInv, StoreStep PROVE StoreInv'
  OBVIOUS
<1>1. CASE Tick
  BY <1>1 DEF Tick, StoreInv, StoreTypeOK, RowsHaveFiles, PinsHaveRows, LockInv, LiveAt
<1> QED BY <1>1, PutInv, PinInv, ReapInv DEF StoreStep

\* The startup cleanup leaves every file that has a row.
LEMMA CleanOrphansKeepsRows ==
  ASSUME StoreInv, CleanOrphans
  PROVE  temps' \subseteq Artifacts /\ files' \subseteq files /\ rows \subseteq files'
BY DEF CleanOrphans, CleanExcept, StoreInv, StoreTypeOK, RowsHaveFiles

LEMMA StoreNextInv == StoreInv /\ [StoreNext]_storeVars => StoreInv'
<1> SUFFICES ASSUME StoreInv, [StoreNext]_storeVars PROVE StoreInv'
  OBVIOUS
<1> USE DEF StoreInv, StoreTypeOK, RowsHaveFiles, PinsHaveRows, LockInv, LiveAt
<1>1. CASE Close
  BY <1>1 DEF Close, Idle
<1>2. CASE Crash
  <2>1. LockInv'
    BY <1>2 DEF Crash, ReleaseLock
  <2> QED BY <1>2, <2>1 DEF Crash, ReleaseLock
<1>3. CASE Startup
  <2>1. temps' \subseteq Artifacts /\ files' \subseteq files /\ rows \subseteq files'
    BY <1>3, CleanOrphansKeepsRows DEF Startup
  <2> QED BY <1>3, <2>1 DEF Startup, Opened
<1>4. CASE UNCHANGED storeVars
  BY <1>4 DEF storeVars
<1> QED BY <1>1, <1>2, <1>3, <1>4, StoreStepInv, ReapBeginInv DEF StoreNext, ReapBegin

\* Every reachable state of the store is well typed and consistent.
THEOREM StoreCorrect == StoreSpec => []StoreInv
<1>1. StoreInit => StoreInv
  BY StoreInitInv
<1>2. StoreInv /\ [StoreNext]_storeVars => StoreInv'
  BY StoreNextInv
<1> QED BY <1>1, <1>2, PTL DEF StoreSpec

\* No crash, failed write or reap ever leaves a row without its file.
THEOREM RowsNeverLoseFiles == StoreSpec => []RowsHaveFiles
<1>1. StoreInv => RowsHaveFiles
  BY DEF StoreInv
<1> QED BY <1>1, StoreCorrect, PTL

\* No reap, however it interleaves with saved designs, deletes what is pinned.
THEOREM PinsNeverDangle == StoreSpec => []PinsHaveRows
<1>1. StoreInv => PinsHaveRows
  BY DEF StoreInv
<1> QED BY <1>1, StoreCorrect, PTL

\* A step of the store deletes only rows that are due and that nobody holds: the
\* clock only advances, so what the reap found unpinned at its start is unpinned.
LEMMA StoreNextSpares ==
  ASSUME StoreInv, [StoreNext]_storeVars
  PROVE  \A a \in rows \ rows' : expiry[a] <= now /\ ~PinnedAt(a, now)
<1>1. CASE ReapDelete
  <2>1. ASSUME NEW a \in rows \ rows' PROVE expiry[a] <= now /\ ~PinnedAt(a, now)
    <3>1. a \in Artifacts /\ expiry[a] <= reapAt /\ ~PinnedAt(a, reapAt)
      BY <1>1, <2>1 DEF ReapDelete, Reapable, StoreInv, StoreTypeOK
    <3>2. reapAt \in Nat /\ now \in Nat /\ reapAt <= now
      BY DEF StoreInv, StoreTypeOK, LockInv
    <3>3. ASSUME NEW p \in pins, LiveAt(p, now) PROVE LiveAt(p, reapAt)
      BY <3>2, <3>3 DEF LiveAt, StoreInv, StoreTypeOK
    <3>4. ~PinnedAt(a, now)
      BY <3>1, <3>3 DEF PinnedAt
    <3>5. expiry[a] \in Nat
      BY <2>1 DEF StoreInv, StoreTypeOK, LockInv
    <3> QED BY <3>1, <3>2, <3>4, <3>5 DEF StoreInv, StoreTypeOK
  <2> QED BY <2>1
<1>2. CASE ~ReapDelete
  <2>1. rows \subseteq rows'
    BY <1>2 DEF StoreNext, StoreStep, PutBegin, PutInstall, PutWriteFails, PutCommit,
       PinLease, SyncManagedAssets, DeleteDesign, ReapSelect, ReapUnlink, ReapAbort,
       Tick, ReapBegin, ReapBeginFrom, Close, Crash, Startup, Opened, storeVars
  <2> QED BY <2>1
<1> QED BY <1>1, <1>2

\* Every deletion of every behaviour spares what is owned.
THEOREM ReapsSpareOwned == StoreSpec => ReapSparesOwned
<1>1. StoreInv /\ [StoreNext]_storeVars
        => [\A a \in rows \ rows' : expiry[a] <= now /\ ~PinnedAt(a, now)]_storeVars
  BY StoreNextSpares
<1> QED BY <1>1, StoreCorrect, PTL DEF StoreSpec, ReapSparesOwned

-----------------------------------------------------------------------------
(* The quota.                                                               *)

\* Fewer rows use no more.
LEMMA FewerBytes ==
  ASSUME NEW S \in SUBSET Artifacts, NEW T \in SUBSET S
  PROVE  UsedBytes(T) \in Nat /\ UsedBytes(T) <= UsedBytes(S)
<1>1. IsFiniteSet(S)
  BY FS_Subset
<1>2. \A x \in S : Size[x] \in Nat
  OBVIOUS
<1> QED BY <1>1, <1>2, SumOfLess DEF UsedBytes

\* One more row uses no more than its size.
LEMMA OneMore ==
  ASSUME NEW S \in SUBSET Artifacts, NEW a \in Artifacts
  PROVE  UsedBytes(S \cup {a}) <= UsedBytes(S) + Size[a]
<1>1. IsFiniteSet(S)
  BY FS_Subset
<1>2. \A x \in S \cup {a} : Size[x] \in Nat
  OBVIOUS
<1> QED BY <1>1, <1>2, SumOfMore DEF UsedBytes

\* The check and the insert are one critical section: what was let in fits until
\* its row is written, because until then rows only go.
LEMMA QuotaStep ==
  ASSUME StoreInv, StoreInv', QuotaInv, [StoreNext]_storeVars
  PROVE  QuotaInv'
<1>1. /\ rows \in SUBSET Artifacts /\ hot \in SUBSET Artifacts
      /\ rows' \in SUBSET Artifacts /\ hot' \in SUBSET Artifacts
  BY DEF StoreInv, StoreTypeOK
<1>2. /\ UsedBytes(rows) \in Nat /\ UsedBytes(rows) <= QuotaBytes /\ UsedBytes(rows') \in Nat
      /\ op \in {"write", "commit"} => UsedBytes(rows \cup hot) <= QuotaBytes
  BY <1>1, FewerBytes DEF QuotaInv, QuotaRespected
<1>3. ASSUME UsedBytes(rows') <= QuotaBytes,
             op' \in {"write", "commit"} => UsedBytes(rows' \cup hot') <= QuotaBytes
      PROVE  QuotaInv'
  BY <1>3 DEF QuotaInv, QuotaRespected, UsedBytes
<1>4. ASSUME NEW a \in Artifacts, PutBegin(a) PROVE QuotaInv'
  <2>1. rows' = rows /\ hot' = {a} /\ UsedBytes(rows) + Size[a] <= QuotaBytes
    BY <1>4 DEF PutBegin
  <2>2. UsedBytes(rows \cup {a}) <= UsedBytes(rows) + Size[a] /\ UsedBytes(rows \cup {a}) \in Nat
    BY <1>1, OneMore, FewerBytes
  <2>3. UsedBytes(rows \cup {a}) <= QuotaBytes
    BY <1>2, <2>1, <2>2
  <2> QED BY <1>2, <1>3, <2>1, <2>3
<1>5. CASE PutInstall
  BY <1>2, <1>3, <1>5 DEF PutInstall
<1>6. CASE PutCommit
  <2>1. op' = "idle" /\ op = "commit" /\ (rows' = rows \/ rows' = rows \cup hot)
    BY <1>6 DEF PutCommit, ReleaseLock
  <2> QED BY <1>2, <1>3, <2>1
<1>7. ASSUME rows' \subseteq rows, op' \notin {"write", "commit"} PROVE QuotaInv'
  <2>1. UsedBytes(rows') <= UsedBytes(rows)
    BY <1>1, <1>7, FewerBytes
  <2> QED BY <1>2, <1>3, <1>7, <2>1
<1>8. ASSUME rows' = rows, hot' = hot, op' = op PROVE QuotaInv'
  BY <1>2, <1>3, <1>8
<1>9. CASE ReapSelect \/ ReapDelete \/ ReapUnlink \/ ReapAbort \/ ReapBegin \/ Crash \/ PutWriteFails
  BY <1>7, <1>9 DEF ReapSelect, ReapDelete, ReapUnlink, ReapAbort, ReapBegin, ReapBeginFrom, Crash,
                    PutWriteFails, ReleaseLock
<1>10. CASE Tick \/ Close \/ Startup \/ UNCHANGED storeVars
  BY <1>8, <1>10 DEF Tick, Close, Startup, Opened, storeVars
<1>11. ASSUME \/ \E o \in Leases, ids \in SUBSET Artifacts : PinLease(o, ids)
              \/ \E o \in Designs, ids \in SUBSET Artifacts : SyncManagedAssets(o, ids)
              \/ \E o \in Designs : DeleteDesign(o)
       PROVE  QuotaInv'
  BY <1>8, <1>11 DEF PinLease, SyncManagedAssets, DeleteDesign
<1> QED BY <1>4, <1>5, <1>6, <1>9, <1>10, <1>11 DEF StoreNext, StoreStep

\* No sequence of puts, reaps, failures and restarts takes the rows over the quota.
THEOREM QuotaKept == StoreSpec => []QuotaRespected
<1>1. StoreInit => QuotaInv
  <2> SUFFICES ASSUME StoreInit PROVE QuotaInv
    OBVIOUS
  <2>1. rows = {} /\ op = "idle"
    BY DEF StoreInit
  <2>2. UsedBytes({}) = 0
    BY SumOfNothing DEF UsedBytes
  <2> QED BY <2>1, <2>2 DEF QuotaInv, QuotaRespected
<1>2. StoreInv /\ StoreInv' /\ QuotaInv /\ [StoreNext]_storeVars => QuotaInv'
  BY QuotaStep
<1>3. QuotaInv => QuotaRespected
  BY DEF QuotaInv
<1> QED BY <1>1, <1>2, <1>3, StoreCorrect, PTL DEF StoreSpec
=============================================================================
