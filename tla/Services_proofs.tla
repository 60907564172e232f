--------------------------- MODULE Services_proofs ---------------------------
(* Proofs of what release slots, uploads, the job spool and the assistant    *)
(* promise, each from an inductive invariant of its own (RsInv, UpInv,       *)
(* JsInv and AaInv of their modules): in a behaviour of MCServices each of   *)
(* them only takes steps of its own, or none.                                *)
EXTENDS MCServices, Editor_proofs, SequenceTheorems

-----------------------------------------------------------------------------
(* Release slots (core/release_slots.py, core/runtime_lease.py).            *)

\* What a launcher is doing, and with what.
RsRunning == [at : {"idle", "asking", "starting", "running"} \cup RsUpdating,
        kind : {"start", "rollback", "update"}, release : RsReleases \cup {"none"},
        option : {"keep", "install", "skip"}, current : RsReleases \cup {"none"},
        original : RsSelections]

\* Nothing is installed, and every launcher is at rest.
LEMMA RsInitHolds == RsInit => RsInv
<1> SUFFICES ASSUME RsInit PROVE RsInv
  OBVIOUS
<1>1. /\ rsState = RsNothing /\ rsProbed = {} /\ rsSlots = [r \in RsReleases |-> RsAbsent]
      /\ rsLease = [update |-> "none", data |-> "none"]
      /\ rsRun = [p \in RsLaunchers |-> RsRest("idle")]
      /\ rsLeft = [runs |-> RsRuns, trouble |-> RsTrouble]
  BY DEF RsInit
<1>2. RsNothing \in RsSelections
  BY DEF RsNothing, RsSelections
<1>3. rsLease \in [{"update", "data"} -> RsLaunchers \cup {"none"}]
  BY <1>1
<1>4. RsRest("idle") \in [at : {"idle", "asking", "starting", "running"} \cup RsUpdating,
        kind : {"start", "rollback", "update"}, release : RsReleases \cup {"none"},
        option : {"keep", "install", "skip"}, current : RsReleases \cup {"none"},
        original : RsSelections]
  BY <1>2 DEF RsRest
<1>5. RsTypeOK
  BY <1>1, <1>2, <1>3, <1>4, ReleasesAssumption DEF RsTypeOK
<1>6. RsLeaseInv
  BY <1>1 DEF RsLeaseInv, RsAt, RsRest, RsUpdating
<1>7. RsSelectedIsAccepted
  BY <1>1 DEF RsSelectedIsAccepted, RsNothing
<1> QED BY <1>5, <1>6, <1>7 DEF RsInv

\* A launcher at rest is one of them.
LEMMA RsRestful ==
  ASSUME NEW at \in {"idle", "asking", "starting", "running"}
  PROVE  RsRest(at) \in RsRunning /\ RsRest(at).at = at
<1>1. RsNothing \in RsSelections
  BY DEF RsNothing, RsSelections
<1> QED BY <1>1 DEF RsRunning, RsRest

\* Who only goes on to another place keeps what it was started with.
LEMMA RsGoing ==
  ASSUME RsTypeOK, NEW p \in RsLaunchers,
         NEW at \in {"idle", "asking", "starting", "running"} \cup RsUpdating, RsGoes(p, at)
  PROVE  /\ rsRun' \in [RsLaunchers -> RsRunning] /\ rsRun'[p].at = at /\ rsRun'[p].release = rsRun[p].release
         /\ \A q \in RsLaunchers : q # p => rsRun'[q] = rsRun[q]
<1>1. rsRun \in [RsLaunchers -> RsRunning]
  BY DEF RsTypeOK, RsRunning
<1>2. [rsRun[p] EXCEPT !.at = at] \in RsRunning /\ [rsRun[p] EXCEPT !.at = at].at = at
      /\ [rsRun[p] EXCEPT !.at = at].release = rsRun[p].release
  BY <1>1 DEF RsRunning
<1>3. rsRun' = [rsRun EXCEPT ![p] = [rsRun[p] EXCEPT !.at = at]]
  BY <1>1 DEF RsGoes
<1> QED BY <1>1, <1>2, <1>3

\* Who is over keeps nothing of what it did.
LEMMA RsLeaving ==
  ASSUME RsTypeOK, NEW p \in RsLaunchers, NEW at \in {"idle", "starting", "running"}, RsLeaves(p, at)
  PROVE  /\ rsRun' \in [RsLaunchers -> RsRunning] /\ rsRun'[p].at = at
         /\ \A q \in RsLaunchers : q # p => rsRun'[q] = rsRun[q]
<1>1. rsRun \in [RsLaunchers -> RsRunning]
  BY DEF RsTypeOK, RsRunning
<1> QED BY <1>1, RsRestful DEF RsLeaves

\* Who drops its leases leaves those of the others.
LEMMA RsDropping ==
  ASSUME RsTypeOK, NEW p \in RsLaunchers, RsDrop(p)
  PROVE  /\ rsLease' \in [{"update", "data"} -> RsLaunchers \cup {"none"}]
         /\ \A k \in {"update", "data"} : rsLease[k] # p => rsLease'[k] = rsLease[k]
BY DEF RsTypeOK, RsDrop

\* A failure leaves the slots as they are, whether or not it was counted.
LEMMA RsMeeting ==
  ASSUME RsTypeOK, RsMeets
  PROVE  rsLeft' \in [runs : Nat, trouble : 0..RsTrouble] /\ rsLeft'.trouble # RsTrouble
<1>1. rsLeft \in [runs : Nat, trouble : 0..RsTrouble] /\ rsLeft.trouble > 0 /\ RsTrouble \in Nat
  BY ReleasesAssumption DEF RsTypeOK, RsMeets
<1>2. rsLeft' = [rsLeft EXCEPT !.trouble = rsLeft.trouble - 1]
  BY DEF RsMeets
<1> QED BY <1>1, <1>2

\* A step that only moves one launcher, to a place that needs no lease.
LEMMA RsIdles ==
  ASSUME RsInv, NEW p \in RsLaunchers, NEW at \in {"idle", "starting"}, RsLeaves(p, at),
         UNCHANGED <<rsState, rsSlots, rsProbed>>,
         rsLease' = rsLease \/ RsDrop(p),
         rsLeft' = rsLeft \/ RsMeets
  PROVE  RsInv'
<1> USE DEF RsInv
<1>1. /\ rsRun' \in [RsLaunchers -> RsRunning] /\ rsRun'[p].at = at
      /\ \A q \in RsLaunchers : q # p => rsRun'[q] = rsRun[q]
  BY RsLeaving
<1>2. rsLease' \in [{"update", "data"} -> RsLaunchers \cup {"none"}]
      /\ \A k \in {"update", "data"} : rsLease[k] # p => rsLease'[k] = rsLease[k]
  BY RsDropping DEF RsTypeOK
<1>3. rsLeft' \in [runs : Nat, trouble : 0..RsTrouble]
      /\ (rsLeft'.trouble = RsTrouble => rsLeft.trouble = RsTrouble)
  BY RsMeeting DEF RsTypeOK
<1>4. RsTypeOK'
  BY <1>1, <1>2, <1>3 DEF RsTypeOK, RsRunning
<1>5. RsLeaseInv'
  BY <1>1, <1>2 DEF RsLeaseInv, RsAt, RsTarget, RsUpdating
<1>6. RsSelectedIsAccepted'
  BY <1>3 DEF RsSelectedIsAccepted
<1> QED BY <1>4, <1>5, <1>6

\* A launcher is started with what its command says.
LEMMA RsLaunchInv ==
  ASSUME RsInv, NEW p \in RsLaunchers, NEW kind \in {"start", "rollback", "update"},
         NEW r \in RsReleases \cup {"none"}, NEW option \in {"keep", "install", "skip"},
         RsLaunch(p, kind, r, option)
  PROVE  RsInv'
<1> USE DEF RsInv
<1>1. rsRun \in [RsLaunchers -> RsRunning] /\ rsState \in RsSelections
  BY DEF RsTypeOK, RsRunning
<1>2. rsLeft' \in [runs : Nat, trouble : 0..RsTrouble] /\ rsLeft'.trouble = rsLeft.trouble
  BY DEF RsLaunch, RsTypeOK
<1>3. PICK run \in RsRunning : run.at \in {"starting", "asking"} /\ rsRun' = [rsRun EXCEPT ![p] = run]
  <2>1. RsRest("asking") \in RsRunning /\ RsRest("asking").at = "asking"
        /\ RsRest("starting") \in RsRunning /\ RsRest("starting").at = "starting"
    BY RsRestful
  <2>2. [RsRest("asking") EXCEPT !.kind = kind, !.release = r, !.option = option,
                                     !.current = rsState.active] \in RsRunning
    BY <2>1, <1>1 DEF RsRunning, RsSelections
  <2>3. [RsRest("asking") EXCEPT !.kind = kind, !.release = r, !.option = option,
                                     !.current = rsState.active].at = "asking"
    BY <2>1 DEF RsRunning
  <2> QED BY <2>1, <2>2, <2>3 DEF RsLaunch
<1>4. UNCHANGED <<rsState, rsSlots, rsProbed, rsLease>>
  BY DEF RsLaunch
<1>5. RsTypeOK'
  BY <1>1, <1>2, <1>3, <1>4 DEF RsTypeOK, RsRunning
<1>6. RsLeaseInv'
  BY <1>1, <1>3, <1>4 DEF RsLeaseInv, RsAt, RsTarget, RsUpdating
<1>7. RsSelectedIsAccepted'
  BY <1>2, <1>4 DEF RsSelectedIsAccepted
<1> QED BY <1>5, <1>6, <1>7

\* A step of an update keeps the leases, and what it installs is whole.
LEMMA RsUpdates ==
  ASSUME RsInv, NEW p \in RsLaunchers, NEW at \in RsUpdating, RsGoes(p, at), rsRun[p].at \in RsUpdating,
         at = "publishing" => RsTarget(p) \in rsProbed',
         UNCHANGED <<rsState, rsLease, rsLeft>>,
         rsSlots' = rsSlots \/ rsSlots' = [rsSlots EXCEPT ![RsTarget(p)] = RsFiles],
         \/ rsProbed' = rsProbed
         \/ RsVerified(RsTarget(p)) /\ rsSlots' = rsSlots /\ rsProbed' = rsProbed \cup {RsTarget(p)}
  PROVE  RsInv'
<1> USE DEF RsInv
<1>1. /\ rsRun' \in [RsLaunchers -> RsRunning] /\ rsRun'[p].at = at /\ rsRun'[p].release = rsRun[p].release
      /\ \A q \in RsLaunchers : q # p => rsRun'[q] = rsRun[q]
  BY RsGoing
<1>2. rsSlots' \in [RsReleases -> 0..RsFiles \cup {RsAbsent}]
      /\ \A r \in RsReleases : rsSlots'[r] = rsSlots[r] \/ rsSlots'[r] = RsFiles
  BY ReleasesAssumption DEF RsTypeOK
<1>3. rsProbed \subseteq rsProbed' /\ rsProbed' \subseteq RsReleases
      /\ \A r \in rsProbed' : r \in rsProbed \/ rsSlots'[r] = RsFiles
  BY DEF RsTypeOK, RsVerified
<1>4. RsFiles # RsAbsent
  BY ReleasesAssumption DEF RsAbsent
<1>5. RsTypeOK'
  BY <1>1, <1>2, <1>3 DEF RsTypeOK, RsRunning
<1>6. RsLeaseInv'
  BY <1>1, <1>3 DEF RsLeaseInv, RsAt, RsTarget
<1>7. RsSelectedIsAccepted'
  BY <1>2, <1>3, <1>4 DEF RsSelectedIsAccepted
<1> QED BY <1>5, <1>6, <1>7

\* The steps of an update before it is published, and the failures of one.
LEMMA RsUpdateInv ==
  ASSUME RsInv, NEW p \in RsLaunchers,
         \/ RsExtract(p) \/ RsInstall(p) \/ RsBackUp(p) \/ RsCopySelection(p) \/ RsMark(p)
         \/ RsSetup(p) \/ RsProbe(p) \/ RsRefused(p) \/ RsFindsDamage(p)
  PROVE  RsInv'
<1>1. CASE RsExtract(p)
  BY <1>1 DEF RsExtract, RsInv, RsTypeOK, RsLeaseInv, RsSelectedIsAccepted, RsAt, RsTarget
<1>2. CASE RsInstall(p)
  BY <1>2, RsUpdates DEF RsInstall, RsAt, RsUpdating
<1>3. CASE RsBackUp(p)
  BY <1>3, RsUpdates DEF RsBackUp, RsAt, RsUpdating
<1>4. CASE RsCopySelection(p)
  BY <1>4, RsUpdates DEF RsCopySelection, RsAt, RsUpdating
<1>5. CASE RsMark(p)
  BY <1>5, RsUpdates DEF RsMark, RsAt, RsUpdating
<1>6. CASE RsSetup(p)
  BY <1>6, RsUpdates DEF RsSetup, RsAt, RsUpdating
<1>7. CASE RsProbe(p)
  BY <1>7, RsUpdates DEF RsProbe, RsAt, RsUpdating, RsVerified
<1>8. ASSUME RsGivesUp(p), rsLeft' = rsLeft \/ RsMeets PROVE RsInv'
  BY <1>8, RsIdles DEF RsGivesUp
<1>9. CASE RsRefused(p)
  BY <1>9, <1>8 DEF RsRefused
<1>10. CASE RsFindsDamage(p)
  BY <1>10, <1>8 DEF RsFindsDamage
<1> QED BY <1>1, <1>2, <1>3, <1>4, <1>5, <1>6, <1>7, <1>9, <1>10

\* Two places may change what is selected: a rollback, which found every lease
\* free, and the publishing of a release that has answered, which holds them.
LEMMA RsSelectInv ==
  ASSUME RsInv, NEW p \in RsLaunchers, RsRollback(p) \/ RsPublish(p)
  PROVE  /\ RsInv'
         /\ \A q \in RsLaunchers : RsAt(q, "running") => rsState' = rsState
<1> USE DEF RsInv
<1>1. CASE RsRollback(p)
  <2>1. CASE UNCHANGED rsState
    BY <1>1, <2>1, RsIdles DEF RsRollback
  <2>2. ASSUME RsLeaves(p, "starting"),
               rsState' = [active |-> rsState.previous, previous |-> rsState.active]
        PROVE  RsInv'
    <3>1. /\ rsRun' \in [RsLaunchers -> RsRunning] /\ rsRun'[p].at = "starting"
          /\ \A q \in RsLaunchers : q # p => rsRun'[q] = rsRun[q]
      BY <2>2, RsLeaving
    <3>2. rsState' \in RsSelections
          /\ {rsState'.active, rsState'.previous} = {rsState.active, rsState.previous}
      BY <2>2 DEF RsTypeOK, RsSelections
    <3>3. UNCHANGED <<rsSlots, rsProbed, rsLease, rsLeft>>
      BY <1>1 DEF RsRollback
    <3>4. RsTypeOK'
      BY <3>1, <3>2, <3>3 DEF RsTypeOK, RsRunning
    <3>5. RsLeaseInv'
      BY <3>1, <3>3 DEF RsLeaseInv, RsAt, RsTarget, RsUpdating
    <3>6. RsSelectedIsAccepted'
      BY <3>2, <3>3 DEF RsSelectedIsAccepted
    <3> QED BY <3>4, <3>5, <3>6
  <2>3. ASSUME NEW q \in RsLaunchers, RsAt(q, "running") PROVE FALSE
    <3>1. rsLease["data"] = q /\ q # "none"
      BY <2>3, ReleasesAssumption DEF RsLeaseInv
    <3>2. RsFree /\ "data" \in DOMAIN rsLease
      BY <1>1 DEF RsRollback, RsTypeOK
    <3> QED BY <3>1, <3>2 DEF RsFree
  <2> QED BY <1>1, <2>1, <2>2, <2>3 DEF RsRollback
<1>2. CASE RsPublish(p)
  <2>1. /\ rsRun' \in [RsLaunchers -> RsRunning] /\ rsRun'[p].at = "starting"
        /\ \A q \in RsLaunchers : q # p => rsRun'[q] = rsRun[q]
    BY <1>2, RsLeaving DEF RsPublish
  <2>2. rsLease' \in [{"update", "data"} -> RsLaunchers \cup {"none"}]
        /\ \A k \in {"update", "data"} : rsLease[k] # p => rsLease'[k] = rsLease[k]
    BY <1>2, RsDropping DEF RsPublish
  <2>3. RsTarget(p) \in rsProbed /\ rsProbed \subseteq RsReleases
    BY <1>2 DEF RsPublish, RsLeaseInv, RsTypeOK
  <2>4. rsState' \in RsSelections
        /\ {rsState'.active, rsState'.previous} \subseteq {RsTarget(p), rsState.active, rsState.previous}
    BY <1>2, <2>3 DEF RsPublish, RsTypeOK, RsSelections
  <2>5. UNCHANGED <<rsSlots, rsProbed, rsLeft>>
    BY <1>2 DEF RsPublish
  <2>6. RsTypeOK'
    BY <2>1, <2>2, <2>4, <2>5 DEF RsTypeOK, RsRunning
  <2>7. RsLeaseInv'
    BY <2>1, <2>2, <2>5 DEF RsLeaseInv, RsAt, RsTarget, RsUpdating
  <2>8. RsSelectedIsAccepted'
    BY <2>3, <2>4, <2>5 DEF RsSelectedIsAccepted
  <2>9. ASSUME NEW q \in RsLaunchers, RsAt(q, "running") PROVE FALSE
    <3>1. rsLease["data"] = q
      BY <2>9 DEF RsLeaseInv
    <3>2. rsLease["data"] = p /\ rsRun[p].at = "publishing"
      BY <1>2 DEF RsPublish, RsLeaseInv, RsAt, RsUpdating
    <3> QED BY <2>9, <3>1, <3>2 DEF RsAt
  <2> QED BY <2>6, <2>7, <2>8, <2>9
<1> QED BY <1>1, <1>2

\* Taking leases: an update both, a server the one of the data, once free.
LEMMA RsTakeInv ==
  ASSUME RsInv, NEW p \in RsLaunchers, RsBegin(p) \/ RsServe(p)
  PROVE  RsInv'
<1> USE DEF RsInv
<1>1. CASE RsBegin(p)
  <2>1. rsRun \in [RsLaunchers -> RsRunning] /\ rsState \in RsSelections
    BY DEF RsTypeOK, RsRunning
  <2>2. PICK run \in RsRunning : run.at = "installing" /\ rsRun' = [rsRun EXCEPT ![p] = run]
    <3>1. [rsRun[p] EXCEPT !.at = "installing", !.original = rsState] \in RsRunning
          /\ [rsRun[p] EXCEPT !.at = "installing", !.original = rsState].at = "installing"
      BY <2>1 DEF RsRunning, RsUpdating
    <3>2. rsRun' = [rsRun EXCEPT ![p] = [rsRun[p] EXCEPT !.at = "installing", !.original = rsState]]
      BY <1>1, <2>1 DEF RsBegin
    <3> QED BY <3>1, <3>2
  <2>3. /\ \A k \in {"update", "data"} : rsLease[k] = "none"
        /\ rsLease' = [k \in {"update", "data"} |-> p]
    BY <1>1 DEF RsBegin, RsFree, RsTake, RsTypeOK
  <2>4. UNCHANGED <<rsState, rsSlots, rsProbed, rsLeft>>
    BY <1>1 DEF RsBegin
  <2>5. RsTypeOK'
    BY <2>1, <2>2, <2>3, <2>4 DEF RsTypeOK, RsRunning
  <2>6. RsLeaseInv'
    BY <2>1, <2>2, <2>3, <2>4, ReleasesAssumption DEF RsLeaseInv, RsAt, RsTarget, RsUpdating
  <2>7. RsSelectedIsAccepted'
    BY <2>4 DEF RsSelectedIsAccepted
  <2> QED BY <2>5, <2>6, <2>7
<1>2. CASE RsServe(p)
  <2>1. UNCHANGED <<rsState, rsSlots, rsProbed, rsLeft>>
    BY <1>2 DEF RsServe
  <2>2. CASE RsLeaves(p, "idle") /\ UNCHANGED rsLease
    BY <2>1, <2>2, RsIdles
  <2>3. CASE rsLease.data = "none" /\ RsTake(p, {"data"}) /\ RsLeaves(p, "running")
    <3>1. /\ rsRun' \in [RsLaunchers -> RsRunning] /\ rsRun'[p].at = "running"
          /\ \A q \in RsLaunchers : q # p => rsRun'[q] = rsRun[q]
      BY <2>3, RsLeaving
    <3>2. /\ rsLease["data"] = "none" /\ rsLease'["data"] = p /\ rsLease'["update"] = rsLease["update"]
          /\ rsLease' \in [{"update", "data"} -> RsLaunchers \cup {"none"}]
      BY <2>3 DEF RsTake, RsTypeOK
    <3>3. RsTypeOK'
      BY <2>1, <3>1, <3>2 DEF RsTypeOK, RsRunning
    <3>4. RsLeaseInv'
      BY <2>1, <3>1, <3>2, ReleasesAssumption DEF RsLeaseInv, RsAt, RsTarget, RsUpdating
    <3>5. RsSelectedIsAccepted'
      BY <2>1 DEF RsSelectedIsAccepted
    <3> QED BY <3>3, <3>4, <3>5
  <2> QED BY <1>2, <2>2, <2>3 DEF RsServe
<1> QED BY <1>1, <1>2

\* A damaged slot is one file short, which is never how an absent one looks.
LEMMA RsDamagedInv ==
  ASSUME RsInv, NEW r \in RsReleases, RsDamaged(r)
  PROVE  RsInv'
<1> USE DEF RsInv
<1>1. rsLeft' \in [runs : Nat, trouble : 0..RsTrouble] /\ rsLeft'.trouble # RsTrouble
  BY RsMeeting DEF RsDamaged
<1>2. rsSlots' \in [RsReleases -> 0..RsFiles \cup {RsAbsent}]
      /\ \A q \in RsReleases : rsSlots[q] # RsAbsent => rsSlots'[q] # RsAbsent
  BY ReleasesAssumption DEF RsDamaged, RsTypeOK, RsAbsent
<1>3. UNCHANGED <<rsState, rsProbed, rsLease, rsRun>>
  BY DEF RsDamaged
<1>4. RsTypeOK'
  BY <1>1, <1>2, <1>3 DEF RsTypeOK
<1>5. RsLeaseInv'
  BY <1>3 DEF RsLeaseInv, RsAt, RsTarget
<1>6. RsSelectedIsAccepted'
  BY <1>1, <1>2, <1>3 DEF RsSelectedIsAccepted
<1> QED BY <1>4, <1>5, <1>6

\* Every step keeps the invariant, and none changes what is selected while a
\* server runs.
LEMMA RsNextInv ==
  ASSUME RsInv, RsNext
  PROVE  /\ RsInv'
         /\ \A q \in RsLaunchers : RsAt(q, "running") => rsState' = rsState
<1>1. ASSUME NEW p \in RsLaunchers, RsBusy(p) \/ RsStop(p) \/ RsKilled(p) PROVE RsInv' /\ UNCHANGED rsState
  BY <1>1, RsIdles DEF RsBusy, RsStop, RsKilled
<1>2. ASSUME NEW p \in RsLaunchers, RsRollback(p) \/ RsPublish(p)
      PROVE  RsInv' /\ \A q \in RsLaunchers : RsAt(q, "running") => rsState' = rsState
  BY <1>2, RsSelectInv
<1>3. ASSUME NEW p \in RsLaunchers, RsBegin(p) \/ RsServe(p) PROVE RsInv' /\ UNCHANGED rsState
  BY <1>3, RsTakeInv DEF RsBegin, RsServe
<1>4. ASSUME NEW p \in RsLaunchers,
             \/ RsExtract(p) \/ RsInstall(p) \/ RsBackUp(p) \/ RsCopySelection(p) \/ RsMark(p)
             \/ RsSetup(p) \/ RsProbe(p) \/ RsRefused(p) \/ RsFindsDamage(p)
      PROVE  RsInv' /\ UNCHANGED rsState
  BY <1>4, RsUpdateInv DEF RsExtract, RsInstall, RsBackUp, RsCopySelection, RsMark, RsSetup, RsProbe,
                           RsRefused, RsFindsDamage, RsGivesUp
<1>5. ASSUME NEW r \in RsReleases, RsDamaged(r) PROVE RsInv' /\ UNCHANGED rsState
  BY <1>5, RsDamagedInv DEF RsDamaged
<1>6. ASSUME NEW p \in RsLaunchers, NEW kind \in {"start", "rollback", "update"},
             NEW r \in RsReleases \cup {"none"}, NEW option \in {"keep", "install", "skip"},
             RsLaunch(p, kind, r, option)
      PROVE  RsInv' /\ UNCHANGED rsState
  BY <1>6, RsLaunchInv DEF RsLaunch
<1>7. ASSUME NEW p \in RsLaunchers, RsLaunch(p, "start", "none", "keep") \/ RsLaunch(p, "rollback", "none", "keep")
      PROVE  RsInv' /\ UNCHANGED rsState
  BY <1>6, <1>7
<1>8. ASSUME NEW p \in RsLaunchers, NEW r \in RsReleases, NEW option \in {"keep", "install", "skip"},
             RsLaunch(p, "update", r, option)
      PROVE  RsInv' /\ UNCHANGED rsState
  BY <1>6, <1>8
<1> QED BY <1>1, <1>2, <1>3, <1>4, <1>5, <1>7, <1>8 DEF RsNext, RsStep

-----------------------------------------------------------------------------
(* The job spool (printing/job_spool.py).                                  *)

JsParts == {"a", "b", "c"}
JsPlaces == {"open", "writing", "refused", "invalid", "closed"}
JsRecords == [start : Nat, length : Nat, matcher : Nat]

\* The fields of the spool, one by one.
LEMMA JsFields ==
  ASSUME JsTypeOK
  PROVE  /\ jsSpool.file \in Seq(JsParts) /\ jsSpool.total \in Nat /\ jsSpool.records \in Seq(JsRecords)
         /\ jsSpool.next \in Nat /\ jsSpool.matchers \in JsTables /\ jsSpool.at \in JsPlaces
         /\ jsSpool.job \in Seq(JsAnyJob) /\ jsSpool.start \in Nat /\ jsSpool.given \in Seq(JsAnyJob)
BY DEF JsTypeOK, JsParts, JsRecords, JsPlaces

\* A spool with nothing in it.
LEMMA JsEmpty ==
  /\ <<>> \in JsTables /\ DOMAIN <<>> = {} /\ <<>> \in Seq(JsParts) /\ <<>> \in Seq(JsRecords) /\ <<>> \in Seq(JsAnyJob)
<1>1. PICK n \in Nat : <<>> \in [1..n -> {"plain", "strict"}]
  BY SeqDef
<1>2. 1..n \in SUBSET (Nat \ {0})
  OBVIOUS
<1>3. <<>> \in JsTables
  BY <1>1, <1>2 DEF JsTables
<1> QED BY <1>3

\* A spool that begins, or is closed, keeps the invariant.
LEMMA JsNothingHolds ==
  ASSUME NEW at \in JsPlaces, at # "writing", jsSpool = [JsNothing EXCEPT !.at = at]
  PROVE  JsInv
<1>1. /\ jsSpool.file = <<>> /\ jsSpool.total = 0 /\ jsSpool.records = <<>> /\ jsSpool.next = 1
      /\ jsSpool.matchers = <<>> /\ jsSpool.at = at /\ jsSpool.given = <<>>
  BY DEF JsNothing
<1>2. JsTypeOK
  BY JsEmpty DEF JsTypeOK, JsNothing, JsParts, JsRecords, JsPlaces
<1>3. JsLayoutInv
  BY <1>1, JsEmpty, JobSpoolAssumption DEF JsLayoutInv
<1> QED BY <1>2, <1>3 DEF JsInv

\* The same of the step that leaves it so.
LEMMA JsNothingLeft ==
  ASSUME NEW at \in JsPlaces, at # "writing", jsSpool' = [JsNothing EXCEPT !.at = at]
  PROVE  JsInv'
<1>1. /\ jsSpool'.file = <<>> /\ jsSpool'.total = 0 /\ jsSpool'.records = <<>> /\ jsSpool'.next = 1
      /\ jsSpool'.matchers = <<>> /\ jsSpool'.at = at /\ jsSpool'.given = <<>>
  BY DEF JsNothing
<1>2. JsTypeOK'
  BY JsEmpty DEF JsTypeOK, JsNothing, JsParts, JsRecords, JsPlaces
<1>3. JsLayoutInv'
  BY <1>1, JsEmpty, JobSpoolAssumption DEF JsLayoutInv
<1> QED BY <1>2, <1>3 DEF JsInv

\* The spool begins with nothing in it.
LEMMA JsInitHolds == JsInit => JsInv
<1>1. JsNothing = [JsNothing EXCEPT !.at = "open"]
  BY DEF JsNothing
<1> QED BY <1>1, JsNothingHolds DEF JsInit, JsPlaces

\* The jobs appended, as the spool keeps them.
LEMMA JsJobsAre == JsJobs \subseteq JsAnyJob
<1>1. <<"a">> \in Seq({"a", "b", "c"}) /\ <<"b", "c">> \in Seq({"a", "b", "c"})
  OBVIOUS
<1> SUFFICES ASSUME NEW page \in JsJobs PROVE page \in JsAnyJob
  OBVIOUS
<1>2. PICK parts \in {<<"a">>, <<"b", "c">>}, m \in {"plain", "strict"} : page = [parts |-> parts, matcher |-> m]
  BY DEF JsJobs
<1>3. parts \in Seq({"a", "b", "c"})
  BY <1>1
<1> QED BY <1>2, <1>3 DEF JsAnyJob

\* What is kept of a record does not depend on what is being written.
LEMMA JsRecordStays ==
  ASSUME NEW r \in JsRecords, NEW page, JsRecorded(r, page), jsSpool.total \in Nat,
         UNCHANGED <<jsSpool.total, jsSpool.matchers>>,
         \A k \in 1..jsSpool.total : jsSpool'.file[k] = jsSpool.file[k]
  PROVE  JsRecorded(r, page)'
<1>1. r.start \in Nat /\ r.length \in Nat
  BY DEF JsRecords
<1>2. \A k \in 1..r.length : r.start + k \in 1..jsSpool.total
  BY <1>1 DEF JsRecorded
<1> QED BY <1>2 DEF JsRecorded

\* A step that keeps the records keeps what they say of the jobs.
LEMMA JsRecordsStay ==
  ASSUME JsInv, UNCHANGED <<jsSpool.total, jsSpool.records, jsSpool.given, jsSpool.matchers>>,
         \A k \in 1..jsSpool.total : jsSpool'.file[k] = jsSpool.file[k]
  PROVE  (/\ Len(jsSpool.records) = Len(jsSpool.given)
          /\ \A i \in 1..Len(jsSpool.records) : JsRecorded(jsSpool.records[i], jsSpool.given[i]))'
<1>1. jsSpool.records \in Seq(JsRecords) /\ jsSpool.total \in Nat
  BY JsFields DEF JsInv
<1>2. /\ Len(jsSpool.records) = Len(jsSpool.given)
      /\ \A i \in 1..Len(jsSpool.records) : JsRecorded(jsSpool.records[i], jsSpool.given[i])
  BY DEF JsInv, JsLayoutInv
<1>3. ASSUME NEW i \in 1..Len(jsSpool.records) PROVE JsRecorded(jsSpool.records[i], jsSpool.given[i])'
  <2>1. jsSpool.records[i] \in JsRecords
    BY <1>1
  <2>2. PICK r, page : r \in JsRecords /\ r = jsSpool.records[i] /\ page = jsSpool.given[i]
    BY <2>1
  <2>3. JsRecorded(r, page)
    BY <1>2, <2>2
  <2>4. JsRecorded(r, page)'
    BY <1>1, <2>2, <2>3, JsRecordStays
  <2>5. r = jsSpool'.records[i] /\ page = jsSpool'.given[i]
    BY <2>2
  <2> QED BY <2>4, <2>5
<1> QED BY <1>2, <1>3

\* A job is begun, or refused.
LEMMA JsAppendInv ==
  ASSUME JsInv, NEW page \in JsJobs, JsAppend(page)
  PROVE  JsInv'
<1> USE DEF JsInv
<1> DEFINE known == {i \in DOMAIN jsSpool.matchers : jsSpool.matchers[i] = page.matcher}
<1>1. page \in JsAnyJob /\ page.parts \in Seq(JsParts) /\ Len(page.parts) \in Nat
  BY JsJobsAre DEF JsAnyJob, JsParts
<1>2. CASE jsSpool' = [jsSpool EXCEPT !.at = "refused"]
  <2>1. /\ jsSpool'.at = "refused"
        /\ UNCHANGED <<jsSpool.file, jsSpool.total, jsSpool.records, jsSpool.next, jsSpool.matchers, jsSpool.given>>
    BY <1>2 DEF JsTypeOK
  <2>2. JsTypeOK'
    BY <1>2 DEF JsTypeOK
  <2>3. Len(jsSpool.file) = jsSpool.total
    BY DEF JsLayoutInv, JsAppend
  <2>4. JsLayoutInv'
    BY <2>1, <2>2, <2>3, JsRecordsStay DEF JsLayoutInv
  <2> QED BY <2>2, <2>4
<1>3. CASE /\ jsSpool.total + Len(page.parts) <= JsMaxBytes
           /\ jsSpool' = [jsSpool EXCEPT !.at = "writing", !.job = <<page>>, !.start = Len(jsSpool.file),
                                     !.next = IF known = {} THEN @ + 1 ELSE @]
  <2>1. /\ jsSpool'.at = "writing" /\ jsSpool'.job = <<page>> /\ jsSpool'.start = Len(jsSpool.file)
        /\ jsSpool'.next = IF known = {} THEN jsSpool.next + 1 ELSE jsSpool.next
        /\ UNCHANGED <<jsSpool.file, jsSpool.total, jsSpool.records, jsSpool.matchers, jsSpool.given>>
    BY <1>3 DEF JsTypeOK
  <2>2. Len(jsSpool.file) = jsSpool.total /\ jsSpool.next \in Nat /\ jsSpool.total \in Nat
    BY JsFields DEF JsLayoutInv, JsAppend
  <2>3. jsSpool'.start \in Nat /\ jsSpool'.next \in Nat /\ jsSpool'.job \in Seq(JsAnyJob) /\ jsSpool'.job[1] = page /\ Len(jsSpool'.job) = 1
    BY <1>1, <2>1, <2>2
  <2>4. JsTypeOK'
    <3> DEFINE n == IF known = {} THEN jsSpool.next + 1 ELSE jsSpool.next
    <3>1. n \in Nat /\ Len(jsSpool.file) \in Nat /\ <<page>> \in Seq(JsAnyJob)
      BY <1>1, <2>2
    <3>2. jsSpool' = [jsSpool EXCEPT !.at = "writing", !.job = <<page>>, !.start = Len(jsSpool.file), !.next = n]
      BY <1>3 DEF JsTypeOK
    <3> HIDE DEF n
    <3> QED BY <3>1, <3>2 DEF JsTypeOK
  <2>5. \/ jsSpool'.next >= 2 /\ jsSpool'.next - 1 \notin DOMAIN jsSpool.matchers
        \/ \E i \in DOMAIN jsSpool.matchers : jsSpool.matchers[i] = page.matcher
    <3>1. CASE known = {}
      BY <3>1, <2>1, <2>2 DEF JsLayoutInv
    <3>2. CASE known # {}
      BY <3>2
    <3> QED BY <3>1, <3>2
  <2>6. JsWritingInv'
    BY <1>3, <2>1, <2>2, <2>3, <2>5, <1>1 DEF JsWritingInv
  <2>7. jsSpool'.next >= 1 /\ DOMAIN jsSpool'.matchers \subseteq 1..(jsSpool'.next - 1)
    BY <2>1, <2>2 DEF JsLayoutInv
  <2>8. JsLayoutInv'
    BY <2>1, <2>4, <2>6, <2>7, JsRecordsStay DEF JsLayoutInv
  <2> QED BY <2>4, <2>8
<1>4. jsSpool.total \in Nat /\ JsMaxBytes \in Nat
  BY JsFields, JobSpoolAssumption
<1> QED BY <1>1, <1>2, <1>3, <1>4 DEF JsAppend

\* One more part is written.
LEMMA JsPartInv ==
  ASSUME JsInv, jsSpool.at = "writing",
         LET written == Len(jsSpool.file) - jsSpool.start IN
         /\ written < Len(jsSpool.job[1].parts)
         /\ jsSpool' = [jsSpool EXCEPT !.file = Append(@, jsSpool.job[1].parts[written + 1])]
  PROVE  JsInv'
<1> USE DEF JsInv
<1> DEFINE page == jsSpool.job[1]
           file == jsSpool.file
           written == Len(file) - jsSpool.start
           part == page.parts[written + 1]
<1>1. JsWritingInv
  BY DEF JsLayoutInv
<1>0. page \in JsAnyJob
  BY <1>1, JsFields DEF JsWritingInv
<1>2. page.parts \in Seq(JsParts) /\ file \in Seq(JsParts) /\ jsSpool.start \in Nat
      /\ Len(file) \in Nat /\ Len(page.parts) \in Nat
  BY <1>0, JsFields DEF JsAnyJob, JsParts
<1>3. written \in Nat /\ written + 1 \in 1..Len(page.parts) /\ part \in JsParts
  <2>1. Len(file) >= jsSpool.start /\ written < Len(page.parts)
    BY <1>1, <1>2 DEF JsWritingInv
  <2>2. Len(file) \in Nat /\ Len(page.parts) \in Nat /\ jsSpool.start \in Nat
    BY <1>2
  <2>3. written \in Nat /\ written + 1 \in 1..Len(page.parts)
    <3> HIDE DEF page, file
    <3> QED BY <2>1, <2>2
  <2> QED BY <2>3, <1>2
<1>4. Append(file, part) \in Seq(JsParts) /\ Len(Append(file, part)) = Len(file) + 1
      /\ \A k \in 1..Len(file) : Append(file, part)[k] = file[k]
      /\ Append(file, part)[Len(file) + 1] = part
  BY <1>2, <1>3
<1>5. jsSpool' = [jsSpool EXCEPT !.file = Append(file, part)]
  BY DEF JsTypeOK
<1>6. /\ jsSpool'.file = Append(file, part)
      /\ UNCHANGED <<jsSpool.at, jsSpool.job, jsSpool.start, jsSpool.next, jsSpool.total, jsSpool.records, jsSpool.matchers, jsSpool.given>>
  BY <1>5 DEF JsTypeOK
<1>7. JsTypeOK'
  <2> HIDE DEF file, part
  <2> QED BY <1>4, <1>5 DEF JsTypeOK, JsParts
<1> DEFINE grown == jsSpool'.file
<1>8. grown = Append(file, part) /\ Len(grown) = Len(file) + 1 /\ (\A k \in 1..Len(file) : grown[k] = file[k])
      /\ grown[Len(file) + 1] = part
  BY <1>4, <1>6
<1>9. JsWritingInv'
  <2>1. \A k \in 1..(Len(grown) - jsSpool.start) : grown[jsSpool.start + k] = page.parts[k]
    <3> SUFFICES ASSUME NEW k \in 1..(Len(grown) - jsSpool.start) PROVE grown[jsSpool.start + k] = page.parts[k]
      OBVIOUS
    <3>1. CASE k <= written
      <4>1. jsSpool.start + k \in 1..Len(file) /\ k \in 1..written
        BY <3>1, <1>2, <1>3
      <4> QED BY <4>1, <1>1, <1>8 DEF JsWritingInv
    <3>2. CASE ~(k <= written)
      <4>1. k = written + 1 /\ jsSpool.start + k = Len(file) + 1
        BY <3>2, <1>2, <1>3, <1>8
      <4> QED BY <4>1, <1>8
    <3> QED BY <3>1, <3>2
  <2>2. Len(grown) \in jsSpool.start..(jsSpool.start + Len(page.parts))
    <3>1. jsSpool.start <= Len(file) /\ written + 1 <= Len(page.parts)
      BY <1>1, <1>3 DEF JsWritingInv
    <3> QED BY <3>1, <1>2, <1>8
  <2> QED BY <2>1, <2>2, <1>1, <1>6 DEF JsWritingInv
<1>10. \A k \in 1..jsSpool.total : grown[k] = file[k]
  BY <1>1, <1>2, <1>8 DEF JsWritingInv
<1>11. JsLayoutInv'
  BY <1>6, <1>7, <1>9, <1>10, JsRecordsStay DEF JsLayoutInv
<1> QED BY <1>7, <1>11

\* The job is whole: its record, its matcher and its length are kept.
LEMMA JsKeptInv ==
  ASSUME JsInv, JsWrite,
         ~(Len(jsSpool.file) - jsSpool.start < Len(jsSpool.job[1].parts))
  PROVE  JsInv'
<1> USE DEF JsInv
<1> DEFINE page == jsSpool.job[1]
           file == jsSpool.file
           written == Len(file) - jsSpool.start
           known == {i \in DOMAIN jsSpool.matchers : jsSpool.matchers[i] = page.matcher}
           id == IF known = {} THEN jsSpool.next - 1 ELSE CHOOSE i \in known : TRUE
           record == [start |-> jsSpool.start, length |-> written, matcher |-> id]
           matchers == [i \in DOMAIN jsSpool.matchers \cup {id} |-> IF i = id THEN page.matcher ELSE jsSpool.matchers[i]]
<1>1. JsWritingInv /\ jsSpool.at = "writing"
  BY DEF JsLayoutInv, JsWrite
<1>2. page \in JsAnyJob
  BY <1>1, JsFields DEF JsWritingInv
<1>3. /\ page.parts \in Seq(JsParts) /\ Len(page.parts) \in Nat /\ page.matcher \in {"plain", "strict"}
      /\ file \in Seq(JsParts) /\ Len(file) \in Nat /\ jsSpool.start \in Nat /\ jsSpool.next \in Nat
      /\ jsSpool.records \in Seq(JsRecords) /\ jsSpool.given \in Seq(JsAnyJob) /\ jsSpool.total \in Nat
      /\ jsSpool.matchers \in JsTables
  BY <1>2, JsFields DEF JsAnyJob, JsParts
<1>4. written = Len(page.parts) /\ jsSpool.start = jsSpool.total /\ jsSpool.total + written = Len(file) /\ Len(file) <= JsMaxBytes
  <2>1. Len(file) <= jsSpool.start + Len(page.parts) /\ jsSpool.start = jsSpool.total
        /\ jsSpool.start + Len(page.parts) <= JsMaxBytes
    BY <1>1, <1>3 DEF JsWritingInv
  <2>2. Len(file) \in Nat /\ Len(page.parts) \in Nat /\ jsSpool.start \in Nat
        /\ ~(Len(file) - jsSpool.start < Len(page.parts))
    BY <1>3
  <2> HIDE DEF file, page
  <2> QED BY <2>1, <2>2, JobSpoolAssumption
<1>5. /\ id \in 1..(jsSpool.next - 1) /\ DOMAIN jsSpool.matchers \subseteq 1..(jsSpool.next - 1)
      /\ \A i \in DOMAIN jsSpool.matchers : i = id => jsSpool.matchers[i] = page.matcher
  <2>1. DOMAIN jsSpool.matchers \subseteq 1..(jsSpool.next - 1)
    BY DEF JsLayoutInv
  <2>2. CASE known = {}
    <3>1. jsSpool.next >= 2 /\ jsSpool.next - 1 \notin DOMAIN jsSpool.matchers
      BY <1>1, <2>2 DEF JsWritingInv
    <3>2. id = jsSpool.next - 1
      BY <2>2
    <3> QED BY <2>1, <3>1, <3>2, <1>3
  <2>3. CASE known # {}
    <3>1. id \in known
      BY <2>3
    <3> QED BY <2>1, <3>1
  <2> QED BY <2>2, <2>3
<1>6. jsSpool' = [jsSpool EXCEPT
               !.at = "open", !.job = <<>>, !.start = 0,
               !.records = Append(@, record), !.matchers = matchers,
               !.total = @ + written, !.given = Append(@, page)]
  BY DEF JsWrite
<1>7. record \in JsRecords
  <2>1. written \in Nat /\ id \in Nat
    BY <1>3, <1>4, <1>5
  <2> HIDE DEF written, id
  <2> QED BY <2>1, <1>3 DEF JsRecords
<1>8. DOMAIN matchers = DOMAIN jsSpool.matchers \cup {id} /\ matchers[id] = page.matcher
      /\ \A i \in DOMAIN jsSpool.matchers : matchers[i] = jsSpool.matchers[i]
  BY <1>5
<1>9. matchers \in JsTables
  <2>1. PICK ids \in SUBSET (Nat \ {0}) : jsSpool.matchers \in [ids -> {"plain", "strict"}]
    BY <1>3 DEF JsTables
  <2> HIDE DEF id
  <2>2. ids \cup {id} \in SUBSET (Nat \ {0})
    <3>1. id \in 1..(jsSpool.next - 1) /\ jsSpool.next \in Nat
      BY <1>3, <1>5
    <3> QED BY <3>1
  <2>3. matchers \in [ids \cup {id} -> {"plain", "strict"}]
    BY <2>1, <1>3
  <2> QED BY <2>2, <2>3 DEF JsTables
<1> HIDE DEF record, matchers, id, written
<1>10. /\ Append(jsSpool.records, record) \in Seq(JsRecords) /\ Append(jsSpool.given, page) \in Seq(JsAnyJob)
       /\ <<>> \in Seq(JsAnyJob) /\ jsSpool.total + written \in Nat
  BY <1>2, <1>3, <1>4, <1>7
<1>11. /\ jsSpool'.at = "open" /\ jsSpool'.file = file /\ jsSpool'.records = Append(jsSpool.records, record)
       /\ jsSpool'.matchers = matchers /\ jsSpool'.total = jsSpool.total + written
       /\ jsSpool'.given = Append(jsSpool.given, page) /\ jsSpool'.next = jsSpool.next
  BY <1>6 DEF JsTypeOK
<1>12. JsTypeOK'
  <2> HIDE DEF page
  <2>1. jsSpool' = [jsSpool EXCEPT !.at = "open", !.job = <<>>, !.start = 0,
               !.records = Append(jsSpool.records, record), !.matchers = matchers,
               !.total = jsSpool.total + written, !.given = Append(jsSpool.given, page)]
    BY <1>6 DEF JsTypeOK
  <2> QED BY <2>1, <1>9, <1>10 DEF JsTypeOK, JsRecords
<1>13. ASSUME NEW r \in JsRecords, NEW j, JsRecorded(r, j) PROVE JsRecorded(r, j)'
  <2>1. r.start \in Nat /\ r.length \in Nat
    BY DEF JsRecords
  <2>2. r.start + r.length <= jsSpool'.total
    <3>1. r.start + r.length <= jsSpool.total /\ jsSpool'.total = jsSpool.total + written
      BY <1>11, <1>13 DEF JsRecorded
    <3>2. written \in Nat /\ jsSpool.total \in Nat
      BY <1>3, <1>4
    <3> QED BY <2>1, <3>1, <3>2
  <2> QED BY <2>2, <1>8, <1>11, <1>13 DEF JsRecorded
<1>14. ASSUME NEW r, NEW j, r = record, j = page PROVE JsRecorded(r, j)'
  <2>1. record.start = jsSpool.start /\ record.length = written /\ record.matcher = id
    BY DEF record
  <2>2. \A k \in 1..written : file[jsSpool.start + k] = page.parts[k]
    BY <1>1 DEF JsWritingInv, written
  <2>3. r.matcher = id /\ r.length = written /\ r.start = jsSpool.start
    BY <2>1, <1>14
  <2>4. jsSpool'.matchers[id] = page.matcher /\ id \in DOMAIN jsSpool'.matchers
    BY <1>8, <1>11
  <2>5. written = Len(page.parts) /\ jsSpool.start + written <= jsSpool'.total
    BY <1>3, <1>4, <1>11
  <2>6. \A k \in 1..written : jsSpool'.file[jsSpool.start + k] = page.parts[k]
    BY <2>2, <1>11
  <2> HIDE DEF page
  <2> QED BY <1>14, <2>3, <2>4, <2>5, <2>6 DEF JsRecorded
<1>15. (/\ Len(jsSpool.records) = Len(jsSpool.given)
        /\ \A i \in 1..Len(jsSpool.records) : JsRecorded(jsSpool.records[i], jsSpool.given[i]))'
  <2> DEFINE n == Len(jsSpool.records)
  <2>1. n \in Nat /\ n = Len(jsSpool.given) /\ \A i \in 1..n : JsRecorded(jsSpool.records[i], jsSpool.given[i])
    BY <1>3 DEF JsLayoutInv
  <2>2. /\ Len(Append(jsSpool.records, record)) = n + 1 /\ Len(Append(jsSpool.given, page)) = n + 1
        /\ \A i \in 1..n : /\ Append(jsSpool.records, record)[i] = jsSpool.records[i]
                           /\ Append(jsSpool.given, page)[i] = jsSpool.given[i]
        /\ Append(jsSpool.records, record)[n + 1] = record /\ Append(jsSpool.given, page)[n + 1] = page
    BY <1>2, <1>3, <1>7, <2>1
  <2>3. Len(jsSpool'.records) = n + 1 /\ Len(jsSpool'.given) = n + 1
    BY <1>11, <2>2
  <2>4. ASSUME NEW i \in 1..(n + 1) PROVE JsRecorded(jsSpool.records[i], jsSpool.given[i])'
    <3>1. CASE i \in 1..n
      <4>1. jsSpool.records[i] \in JsRecords
        BY <1>3, <3>1
      <4>2. PICK r, j : r \in JsRecords /\ r = jsSpool.records[i] /\ j = jsSpool.given[i]
        BY <4>1
      <4>3. JsRecorded(r, j)'
        BY <1>13, <2>1, <3>1, <4>2
      <4>4. r = jsSpool'.records[i] /\ j = jsSpool'.given[i]
        BY <1>11, <2>2, <3>1, <4>2
      <4> QED BY <4>3, <4>4
    <3>2. CASE i = n + 1
      <4>1. PICK r, j : r = record /\ j = page
        OBVIOUS
      <4>2. JsRecorded(r, j)'
        BY <1>14, <4>1
      <4>3. r = jsSpool'.records[i] /\ j = jsSpool'.given[i]
        BY <1>11, <2>2, <3>2, <4>1
      <4> QED BY <4>2, <4>3
    <3> QED BY <2>1, <3>1, <3>2
  <2> QED BY <2>3, <2>4
<1>16. JsLayoutInv'
  <2>1. jsSpool'.next >= 1 /\ DOMAIN jsSpool'.matchers \subseteq 1..(jsSpool'.next - 1)
    <3>1. jsSpool.next \in Nat /\ jsSpool'.next = jsSpool.next /\ DOMAIN jsSpool'.matchers = DOMAIN jsSpool.matchers \cup {id}
      BY <1>3, <1>8, <1>11
    <3> QED BY <3>1, <1>5
  <2>2. jsSpool'.total <= JsMaxBytes /\ Len(jsSpool'.file) = jsSpool'.total /\ jsSpool'.at = "open"
    BY <1>4, <1>11
  <2> QED BY <1>15, <2>1, <2>2 DEF JsLayoutInv
<1> QED BY <1>12, <1>16

\* A write that fails leaves the file as long as it was, and the id that was
\* new is taken back; or nothing is read any more.
LEMMA JsFailsInv ==
  ASSUME JsInv, JsFails
  PROVE  JsInv'
<1> USE DEF JsInv
<1> DEFINE id == jsSpool.next - 1
           file == jsSpool.file
           cut == SubSeq(file, 1, jsSpool.start)
           next == IF id \in DOMAIN jsSpool.matchers THEN jsSpool.next ELSE id
<1>1. CASE jsSpool' = [JsNothing EXCEPT !.at = "invalid"]
  BY <1>1, JsNothingLeft DEF JsPlaces
<1>2. CASE jsSpool' = [jsSpool EXCEPT !.at = "open", !.job = <<>>, !.start = 0, !.file = cut, !.next = next]
  <2>1. JsWritingInv /\ file \in Seq(JsParts) /\ Len(file) \in Nat /\ jsSpool.start \in Nat /\ jsSpool.total \in Nat
        /\ jsSpool.next \in Nat
    BY JsFields DEF JsLayoutInv, JsFails
  <2>2. jsSpool.start <= Len(file) /\ jsSpool.start = jsSpool.total
    BY <2>1 DEF JsWritingInv
  <2>3. cut \in Seq(JsParts) /\ Len(cut) = jsSpool.total /\ \A k \in 1..jsSpool.total : cut[k] = file[k]
    <3>1. \A k \in 1..jsSpool.start : file[k] \in JsParts
      BY <2>1, <2>2
    <3>2. /\ SubSeq(file, 1, jsSpool.start) \in Seq(JsParts)
          /\ Len(SubSeq(file, 1, jsSpool.start)) = IF 1 <= jsSpool.start THEN jsSpool.start - 1 + 1 ELSE 0
          /\ \A k \in 1..jsSpool.start - 1 + 1 : SubSeq(file, 1, jsSpool.start)[k] = file[1 + k - 1]
      <4> HIDE DEF file
      <4> QED BY <3>1, <2>1, SubSeqProperties
    <3> HIDE DEF file
    <3> QED BY <3>2, <2>1, <2>2
  <2>4. next >= 1 /\ next \in Nat /\ DOMAIN jsSpool.matchers \subseteq 1..(next - 1)
    <3>1. jsSpool.next >= 1 /\ DOMAIN jsSpool.matchers \subseteq 1..(jsSpool.next - 1)
      BY DEF JsLayoutInv
    <3>2. jsSpool.next >= 2 \/ DOMAIN jsSpool.matchers # {}
      BY <2>1 DEF JsWritingInv
    <3>3. jsSpool.next >= 2
      BY <2>1, <3>1, <3>2
    <3> QED BY <2>1, <3>1, <3>3
  <2> HIDE DEF cut, next
  <2>5. JsTypeOK'
    BY <1>2, <2>3, <2>4, JsEmpty DEF JsTypeOK, JsParts
  <2>6. /\ jsSpool'.at = "open" /\ jsSpool'.file = cut /\ jsSpool'.next = next
        /\ UNCHANGED <<jsSpool.total, jsSpool.records, jsSpool.matchers, jsSpool.given>>
    BY <1>2 DEF JsTypeOK
  <2>7. (/\ Len(jsSpool.records) = Len(jsSpool.given)
         /\ \A i \in 1..Len(jsSpool.records) : JsRecorded(jsSpool.records[i], jsSpool.given[i]))'
    BY <2>3, <2>6, JsRecordsStay
  <2>8. JsLayoutInv'
    BY <2>3, <2>4, <2>6, <2>7 DEF JsLayoutInv
  <2> QED BY <2>5, <2>8
<1> QED BY <1>1, <1>2 DEF JsFails

\* Every step of the spool.
LEMMA JsNextInv == ASSUME JsInv, [JsNext]_jsVars PROVE JsInv'
<1>1. CASE JsWrite
  <2>1. CASE Len(jsSpool.file) - jsSpool.start < Len(jsSpool.job[1].parts)
    BY <1>1, <2>1, JsPartInv DEF JsWrite
  <2> QED BY <1>1, <2>1, JsKeptInv
<1>2. ASSUME NEW page \in JsJobs, JsAppend(page) PROVE JsInv'
  BY <1>2, JsAppendInv
<1>3. CASE JsFails
  BY <1>3, JsFailsInv
<1>4. CASE JsClose
  BY <1>4, JsNothingLeft DEF JsClose, JsPlaces
<1>5. CASE UNCHANGED jsVars
  BY <1>5 DEF jsVars, JsInv, JsTypeOK, JsLayoutInv, JsWritingInv, JsRecorded
<1> QED BY <1>1, <1>2, <1>3, <1>4, <1>5 DEF JsNext, JsStep

\* What the records name of the file is what was given.
LEMMA JsReadsGiven == JsInv => JsReadsWhatWasAppended
<1> SUFFICES ASSUME JsInv PROVE JsReadsWhatWasAppended
  OBVIOUS
<1> USE DEF JsInv
<1> DEFINE records == jsSpool.records
           given == jsSpool.given
           file == jsSpool.file
<1>1. /\ records \in Seq(JsRecords) /\ given \in Seq(JsAnyJob) /\ Len(records) = Len(given)
      /\ file \in Seq(JsParts) /\ Len(file) \in Nat /\ jsSpool.total \in Nat
      /\ \A i \in 1..Len(records) : JsRecorded(records[i], given[i])
  BY JsFields DEF JsLayoutInv
<1>2. jsSpool.total <= Len(file) /\ Len(file) <= JsMaxBytes
  <2>1. CASE jsSpool.at = "writing"
    <3>1. /\ JsWritingInv
      BY <2>1 DEF JsLayoutInv
    <3>2. jsSpool.job[1] \in JsAnyJob /\ jsSpool.start \in Nat
      BY <3>1, JsFields DEF JsWritingInv
    <3>3. Len(jsSpool.job[1].parts) \in Nat
      BY <3>2 DEF JsAnyJob
    <3> QED BY <3>1, <3>2, <3>3, <1>1, JobSpoolAssumption DEF JsWritingInv
  <2> QED BY <2>1, <1>1 DEF JsLayoutInv
<1>3. ASSUME NEW i \in 1..Len(records)
      PROVE  [parts |-> SubSeq(file, records[i].start + 1, records[i].start + records[i].length),
              matcher |-> jsSpool.matchers[records[i].matcher]] = given[i]
  <2>1. PICK r \in JsRecords, page \in JsAnyJob : r = records[i] /\ page = given[i]
    BY <1>1
  <2>2. JsRecorded(r, page) /\ r.start \in Nat /\ r.length \in Nat /\ page.parts \in Seq(JsParts)
    BY <1>1, <2>1 DEF JsRecords, JsAnyJob, JsParts
  <2> DEFINE part == SubSeq(file, r.start + 1, r.start + r.length)
  <2>3. r.start + r.length <= Len(file) /\ r.length = Len(page.parts)
        /\ (\A k \in 1..r.length : file[r.start + k] = page.parts[k])
    BY <1>1, <1>2, <2>2 DEF JsRecorded
  <2>4. part \in Seq(JsParts) /\ Len(part) = r.length /\ \A k \in 1..r.length : part[k] = file[r.start + k]
    <3>1. \A k \in (r.start + 1)..(r.start + r.length) : file[k] \in JsParts
      BY <1>1, <2>2, <2>3
    <3> DEFINE from == r.start + 1
               to == r.start + r.length
    <3>0. from \in Int /\ to \in Int
      BY <2>2
    <3> HIDE DEF file
    <3>2. /\ part \in Seq(JsParts)
          /\ Len(part) = IF from <= to THEN to - from + 1 ELSE 0
          /\ \A k \in 1..to - from + 1 : part[k] = file[from + k - 1]
      <4> HIDE DEF from, to
      <4>1. /\ SubSeq(file, from, to) \in Seq(JsParts)
            /\ Len(SubSeq(file, from, to)) = IF from <= to THEN to - from + 1 ELSE 0
            /\ \A k \in 1..to - from + 1 : SubSeq(file, from, to)[k] = file[from + k - 1]
        <5>1. \A k \in from..to : file[k] \in JsParts
          BY <3>1 DEF from, to
        <5> QED BY <5>1, <3>0, SubSeqProperties
      <4> QED BY <4>1 DEF from, to
    <3> HIDE DEF part
    <3>3. r.start \in Nat /\ r.length \in Nat
      BY <2>2
    <3>4. Len(part) = r.length
      BY ONLY <3>2, <3>3 DEF from, to
    <3>5. \A k \in 1..r.length : part[k] = file[r.start + k]
      <4>1. to - from + 1 = r.length
        BY <3>3
      <4>2. ASSUME NEW k \in 1..r.length PROVE from + k - 1 = r.start + k
        BY <3>3
      <4> HIDE DEF from, to
      <4> QED BY <3>2, <4>1, <4>2
    <3> QED BY <3>2, <3>4, <3>5
  <2> HIDE DEF part
  <2>5. part = page.parts
    <3>1. DOMAIN part = 1..Len(part) /\ DOMAIN page.parts = 1..Len(page.parts)
      BY <2>2, <2>4
    <3>2. DOMAIN part = DOMAIN page.parts /\ \A k \in DOMAIN part : part[k] = page.parts[k]
      BY <3>1, <2>3, <2>4
    <3>3. part = [k \in DOMAIN part |-> part[k]] /\ page.parts = [k \in DOMAIN page.parts |-> page.parts[k]]
      BY <2>2, <2>4
    <3> QED BY <3>2, <3>3
  <2>6. jsSpool.matchers[r.matcher] = page.matcher
    BY <2>2 DEF JsRecorded
  <2>7. [parts |-> part, matcher |-> page.matcher] = page
    BY <2>5 DEF JsAnyJob
  <2> QED BY <2>1, <2>6, <2>7 DEF part
<1>4. JsRead = given
  <2>1. DOMAIN records = 1..Len(records) /\ DOMAIN given = 1..Len(records)
    BY <1>1
  <2>2. JsRead = [i \in 1..Len(records) |-> given[i]]
    BY <1>3, <2>1 DEF JsRead
  <2>3. given = [i \in DOMAIN given |-> given[i]]
    BY <1>1
  <2> QED BY <2>1, <2>2, <2>3
<1> QED BY <1>2, <1>4 DEF JsReadsWhatWasAppended, JsLayoutInv

-----------------------------------------------------------------------------
(* Uploads and conversions (services/uploads.py, core/limits.py).          *)

\* What the digits of a header say, digit by digit.
LEMMA ValueSteps ==
  ASSUME NEW s \in Seq(Nat)
  PROVE  \E v \in [0..Len(s) -> Nat] :
           /\ UpValue(s) = v[Len(s)] /\ v[0] = 0
           /\ \A k \in 1..Len(s) : v[k] = 10 * v[k - 1] + s[k]
<1> DEFINE n == Len(s)
           U == 1..n
           it == CHOOSE f : f = [t \in SUBSET DOMAIN s |-> IF t = {} THEN 0
                   ELSE 10 * f[t \ {Max(t)}] + s[Max(t)]]
           step == [p \in U \X Nat |-> 10 * p[2] + s[p[1]]]
           c == LastOf(n)
<1>1. UpValue(s) = it[DOMAIN s]
  BY DEF UpValue, FoldLeft, MapThenFoldSet
<1>2. n \in Nat /\ DOMAIN s = U
  OBVIOUS
<1>3. step \in [U \X Nat -> Nat]
  OBVIOUS
<1>4. /\ IsFiniteSet(U) /\ FoldChooses(c, U)
      /\ \A k \in U : c[1..k] = k /\ 1..k \in SUBSET U /\ 1..k # {} /\ (1..k) \ {k} = 1..(k - 1)
  BY <1>2, LastChooses
<1>5. PICK f \in [SUBSET U -> Nat] : FoldSolves(f, U, 0, step, c)
  <2> HIDE DEF n, U, step, c
  <2>1. 0 \in Nat
    OBVIOUS
  <2> QED BY <1>3, <1>4, <2>1, FoldExists
<1>6. ASSUME NEW t \in SUBSET U
      PROVE  /\ t = {} => f[t] = 0
             /\ t # {} => /\ Max(t) \in t /\ Max(t) = c[t]
                          /\ f[t] = 10 * f[t \ {Max(t)}] + s[Max(t)]
  <2>1. t = {} => f[t] = 0
    BY <1>5 DEF FoldSolves
  <2>2. ASSUME t # {} PROVE Max(t) \in t /\ Max(t) = c[t]
    <3>1. c[t] = Max(t)
      BY DEF LastOf, Max
    <3> QED BY <1>4, <2>2, <3>1 DEF FoldChooses
  <2>3. ASSUME t # {} PROVE f[t] = 10 * f[t \ {Max(t)}] + s[Max(t)]
    <3>1. PICK x \in U : x = Max(t) /\ x = c[t]
      BY <2>2, <2>3
    <3>2. f[t] = step[<<x, f[t \ {x}]>>] /\ f[t \ {x}] \in Nat
      <4> HIDE DEF step, c, U
      <4> QED BY <1>5, <2>3, <3>1 DEF FoldSolves
    <3>3. step[<<x, f[t \ {x}]>>] = 10 * f[t \ {x}] + s[x]
      BY <3>1, <3>2
    <3> QED BY <3>1, <3>2, <3>3
  <2> QED BY <2>1, <2>2, <2>3
<1>7. f = [t \in SUBSET DOMAIN s |-> IF t = {} THEN 0 ELSE 10 * f[t \ {Max(t)}] + s[Max(t)]]
  <2> HIDE DEF step, c, U
  <2> QED BY <1>2, <1>5, <1>6
<1>8. it = [t \in SUBSET DOMAIN s |-> IF t = {} THEN 0 ELSE 10 * it[t \ {Max(t)}] + s[Max(t)]]
  <2> HIDE DEF step, c, U
  <2> QED BY <1>7
<1>9. ASSUME NEW t \in SUBSET U PROVE it[t] = f[t]
  <2> DEFINE B == {u \in SUBSET U : it[u] # f[u]}
  <2> HIDE DEF it, step, c, U
  <2> SUFFICES ASSUME B # {} PROVE FALSE
    OBVIOUS
  <2>1. PICK u \in B : \A w \in B : w \subseteq u => w = u
    <3>1. B \in SUBSET SUBSET U
      OBVIOUS
    <3> HIDE DEF B
    <3> QED BY <1>4, <3>1, SmallestSet
  <2>2. u # {}
    BY <1>2, <1>6, <1>8
  <2>3. Max(u) \in u
    BY <1>6, <2>2
  <2>4. it[u \ {Max(u)}] = f[u \ {Max(u)}]
    BY <2>1, <2>3
  <2>5. it[u] = 10 * it[u \ {Max(u)}] + s[Max(u)]
    BY <1>2, <1>8, <2>2
  <2> QED BY <1>6, <2>2, <2>4, <2>5
<1> DEFINE v == [k \in 0..n |-> f[1..k]]
<1>10. v \in [0..n -> Nat]
  <2> SUFFICES ASSUME NEW k \in 0..n PROVE 1..k \in SUBSET U
    BY <1>5
  <2> QED OBVIOUS
<1>11. v[0] = 0
  <2>1. 1..0 = {} /\ 0 \in 0..n
    BY <1>2
  <2> QED BY <1>6, <2>1
<1>12. ASSUME NEW k \in 1..n PROVE v[k] = 10 * v[k - 1] + s[k]
  <2>1. 1..k \in SUBSET U /\ 1..k # {} /\ c[1..k] = k /\ (1..k) \ {k} = 1..(k - 1)
    BY <1>4
  <2>2. f[1..k] = 10 * f[1..(k - 1)] + s[k]
    <3> HIDE DEF c, U
    <3> QED BY <1>6, <2>1
  <2>3. k \in 0..n /\ k - 1 \in 0..n
    BY <1>2
  <2> QED BY <2>2, <2>3
<1>13. UpValue(s) = v[n]
  <2>1. U \in SUBSET U /\ n \in 0..n
    BY <1>2
  <2> HIDE DEF it
  <2> QED BY <1>1, <1>2, <1>9, <2>1
<1> HIDE DEF v
<1> QED BY <1>10, <1>11, <1>12, <1>13

\* Where the zeros in front of a header's digits end.
LEMMA ZerosEnd ==
  ASSUME NEW d \in Seq(0..9)
  PROVE  \E z \in 0..Len(d) : /\ {i \in DOMAIN d : \A j \in 1..i : d[j] = 0} = 1..z
                              /\ \A i \in 1..z : d[i] = 0
                              /\ z < Len(d) => d[z + 1] \in 1..9
<1> DEFINE n == Len(d)
           Z == {i \in 1..n : d[i] # 0}
<1>1. n \in Nat /\ DOMAIN d = 1..n /\ \A i \in 1..n : d[i] \in 0..9
  OBVIOUS
<1> HIDE DEF n
<1>2. CASE Z = {}
  <2>1. \A i \in 1..n : d[i] = 0
    BY <1>2
  <2>2. {i \in DOMAIN d : \A j \in 1..i : d[j] = 0} = 1..n
    BY <1>1, <2>1
  <2> QED BY <1>1, <2>1, <2>2 DEF n
<1>3. CASE Z # {}
  <2>1. PICK m \in Z : \A i \in Z : m <= i
    <3>1. Z \in SUBSET Nat
      BY <1>1
    <3> HIDE DEF Z
    <3> QED BY <1>3, <3>1, LeastNumber
  <2>2. m \in 1..n /\ d[m] # 0 /\ \A i \in 1..(m - 1) : d[i] = 0
    BY <1>1, <2>1
  <2>3. {i \in DOMAIN d : \A j \in 1..i : d[j] = 0} = 1..(m - 1)
    BY <1>1, <2>2
  <2>4. m - 1 \in 0..n /\ (m - 1) + 1 = m
    BY <1>1, <2>2
  <2>5. d[m] \in 1..9
    BY <1>1, <2>2
  <2> QED BY <2>2, <2>3, <2>4, <2>5 DEF n
<1> QED BY <1>2, <1>3

\* A digit more makes ten times as much, and the first digits decide.
LEMMA DigitsCount ==
  /\ \A a, b \in Nat : \A c \in 0..9 : b = 10 * a + c => a <= b
  /\ \A a \in 1..9 : \A b, c \in 0..9 : 10 * (10 * a + b) + c >= 100
  /\ \A a, c \in 1..9 : \A b, d \in 0..9 : 10 * a + b > 10 * c + d <=> a > c \/ (b > d /\ a = c)
OBVIOUS

\* A value that is counted up digit by digit is 0 as long as they are, and never falls.
LEMMA ValueGrows ==
  ASSUME NEW n \in Nat, NEW v \in [0..n -> Nat], NEW d, \A i \in 1..n : d[i] \in 0..9, v[0] = 0,
         \A k \in 1..n : v[k] = 10 * v[k - 1] + d[k], NEW z \in 0..n, \A i \in 1..z : d[i] = 0
  PROVE  v[z] = 0 /\ \A m \in 0..n : v[m] <= v[n]
<1>1. v[z] = 0
  <2> DEFINE B == {k \in 0..z : v[k] # 0}
  <2> SUFFICES ASSUME z \in B PROVE FALSE
    OBVIOUS
  <2>1. PICK k \in B : \A m \in B : k <= m
    <3>1. B \in SUBSET Nat
      OBVIOUS
    <3> HIDE DEF B
    <3> QED BY <3>1, LeastNumber
  <2>2. k \in 1..z /\ k - 1 \in 0..z /\ k \in 1..n
    OBVIOUS
  <2>3. v[k - 1] = 0
    BY <2>1, <2>2
  <2>4. v[k] = 10 * v[k - 1] + d[k] /\ d[k] = 0
    BY <2>2
  <2> QED BY <2>3, <2>4
<1>2. ASSUME NEW m \in 0..n PROVE v[m] <= v[n]
  <2> DEFINE B == {k \in m..n : ~(v[m] <= v[k])}
  <2> SUFFICES ASSUME n \in B PROVE FALSE
    OBVIOUS
  <2>1. PICK k \in B : \A l \in B : k <= l
    <3>1. B \in SUBSET Nat
      OBVIOUS
    <3> HIDE DEF B
    <3> QED BY <3>1, LeastNumber
  <2>2. k # m /\ k \in 1..n /\ k - 1 \in m..n /\ k - 1 \in 0..n
    <3>1. v[m] \in Nat
      OBVIOUS
    <3>2. k # m
      BY <3>1
    <3> QED BY <3>2
  <2>3. v[m] <= v[k - 1]
    BY <2>1, <2>2
  <2>4. v[k] = 10 * v[k - 1] + d[k] /\ d[k] \in 0..9 /\ v[k - 1] \in Nat /\ v[k] \in Nat /\ v[m] \in Nat
    BY <2>2
  <2>5. v[k - 1] <= v[k]
    BY <2>4, DigitsCount
  <2> QED BY <2>3, <2>4, <2>5
<1> QED BY <1>1, <1>2

\* The digits of the limit are the limit.
LEMMA LimitDigits ==
         /\ UpDigits(UpMaxBytes) = <<UpMaxBytes \div 10, UpMaxBytes % 10>>
         /\ UpMaxBytes \div 10 \in 1..9 /\ UpMaxBytes % 10 \in 0..9
         /\ UpMaxBytes = 10 * (UpMaxBytes \div 10) + (UpMaxBytes % 10)
<1>1. UpMaxBytes \in 10..99 /\ ~(UpMaxBytes < 10)
  BY UploadsAssumption
<1>2. UpDigits(UpMaxBytes) = <<UpMaxBytes \div 10, UpMaxBytes % 10>>
  BY <1>1 DEF UpDigits
<1>3. ASSUME NEW m \in 10..99
      PROVE  m \div 10 \in 1..9 /\ m % 10 \in 0..9 /\ m = 10 * (m \div 10) + (m % 10)
  OBVIOUS
<1> QED BY <1>1, <1>2, <1>3

\* Comparing the digits decides what comparing the numbers would: leading zeros
\* or not, a header is refused exactly if it says more than the limit.
THEOREM HeadersAreCompared ==
  ASSUME NEW d \in Seq(0..9)
  PROVE  UpTooLong(d) <=> UpValue(d) > UpMaxBytes
<1> DEFINE n == Len(d)
           M == UpMaxBytes
           mt == M \div 10
           mu == M % 10
           norm == UpNormalized(d)
<1>1. /\ UpDigits(M) = <<mt, mu>> /\ mt \in 1..9 /\ mu \in 0..9 /\ M = 10 * mt + mu /\ M \in 10..99
  BY LimitDigits, UploadsAssumption
<1> HIDE DEF mt, mu, M
<1>2. n \in Nat /\ DOMAIN d = 1..n /\ \A i \in 1..n : d[i] \in 0..9
  OBVIOUS
<1>3. PICK v \in [0..n -> Nat] : /\ UpValue(d) = v[n] /\ v[0] = 0
                                 /\ \A k \in 1..n : v[k] = 10 * v[k - 1] + d[k]
  <2>1. d \in Seq(Nat)
    OBVIOUS
  <2> QED BY <2>1, ValueSteps
<1>4. PICK z \in 0..n : /\ {i \in DOMAIN d : \A j \in 1..i : d[j] = 0} = 1..z
                        /\ \A i \in 1..z : d[i] = 0
                        /\ z < n => d[z + 1] \in 1..9
  BY ZerosEnd
<1>5. v[z] = 0 /\ \A m \in 0..n : v[m] <= v[n]
  <2> HIDE DEF n
  <2> QED BY <1>2, <1>3, <1>4, ValueGrows
<1>6. Cardinality({i \in DOMAIN d : \A j \in 1..i : d[j] = 0}) = z
  <2>1. z \in Int /\ 1 \in Int /\ z \in Nat
    OBVIOUS
  <2>2. Cardinality(1..z) = z
    BY <2>1, FS_Interval
  <2> QED BY <1>4, <2>2
<1> DEFINE rest == SubSeq(d, z + 1, n)
<1>7. /\ rest \in Seq(0..9) /\ Len(rest) = n - z /\ \A i \in 1..(n - z) : rest[i] = d[z + i]
  <2> HIDE DEF n
  <2>1. z + 1 \in Int /\ n \in Int /\ (\A i \in (z + 1)..n : d[i] \in 0..9) /\ z <= n /\ z \in Nat
    BY <1>2
  <2> DEFINE a == z + 1
  <2>2. a \in Int /\ a = z + 1 /\ \A i \in a..n : d[i] \in 0..9
    BY <2>1
  <2> HIDE DEF a
  <2>3. /\ SubSeq(d, a, n) \in Seq(0..9)
        /\ Len(SubSeq(d, a, n)) = (IF a <= n THEN n - a + 1 ELSE 0)
        /\ \A i \in 1..(n - a + 1) : SubSeq(d, a, n)[i] = d[a + i - 1]
    BY <2>1, <2>2, SubSeqProperties
  <2>4. Len(SubSeq(d, a, n)) = n - z
    BY <2>1, <2>2, <2>3
  <2>5. \A i \in 1..(n - z) : i \in 1..(n - a + 1) /\ a + i - 1 = z + i
    BY <2>1, <2>2
  <2> QED BY <2>3, <2>4, <2>5 DEF a
<1>8. norm = IF rest = <<>> THEN <<0>> ELSE rest
  BY <1>6 DEF UpNormalized
<1>9. UpTooLong(d) <=> \/ Len(norm) > 2
                       \/ Len(norm) = 2 /\ UpAfter(norm, <<mt, mu>>)
  <2>1. Len(<<mt, mu>>) = 2
    OBVIOUS
  <2> QED BY <1>1, <2>1 DEF UpTooLong, M
<1> HIDE DEF n, rest, norm
<1>10. CASE z = n
  <2>1. norm = <<0>> /\ Len(norm) = 1
    BY <1>2, <1>7, <1>8, <1>10
  <2>2. v[n] = 0
    BY <1>5, <1>10
  <2> QED BY <1>1, <1>3, <1>9, <2>1, <2>2 DEF M
<1>11. CASE z < n
  <2>1. norm = rest /\ Len(norm) = n - z /\ d[z + 1] \in 1..9
    BY <1>2, <1>4, <1>7, <1>8, <1>11
  <2>2. v[z + 1] = d[z + 1]
    <3>1. z + 1 \in 1..n /\ (z + 1) - 1 = z
      BY <1>2, <1>11
    <3>2. v[z + 1] = 10 * v[z] + d[z + 1]
      BY <1>3, <3>1
    <3> QED BY <1>5, <2>1, <3>2
  <2>3. CASE n - z = 1
    <3>1. n = z + 1
      BY <1>2, <2>3
    <3>2. UpValue(d) = d[z + 1]
      BY <1>3, <2>2, <3>1
    <3> QED BY <1>1, <1>9, <2>1, <2>3, <3>2 DEF M
  <2>4. ASSUME n - z >= 2 PROVE v[z + 2] = 10 * d[z + 1] + d[z + 2] /\ d[z + 2] \in 0..9 /\ z + 2 \in 0..n
    <3>1. z + 2 \in 1..n /\ (z + 2) - 1 = z + 1
      BY <1>2, <2>4
    <3>2. v[z + 2] = 10 * v[z + 1] + d[z + 2]
      BY <1>3, <3>1
    <3> QED BY <1>2, <2>2, <3>1, <3>2
  <2>5. CASE n - z = 2
    <3>1. n = z + 2
      BY <1>2, <2>5
    <3>2. UpValue(d) = 10 * d[z + 1] + d[z + 2] /\ d[z + 2] \in 0..9
      BY <1>3, <2>4, <2>5, <3>1
    <3>3. Len(norm) = 2 /\ norm[1] = d[z + 1] /\ norm[2] = d[z + 2] /\ DOMAIN norm = {1, 2}
      <4>1. 1 \in 1..(n - z) /\ 2 \in 1..(n - z)
        BY <2>5
      <4>2. DOMAIN norm = 1..2 /\ 1..2 = {1, 2}
        BY <1>7, <2>1, <2>5
      <4> QED BY <1>7, <2>1, <2>5, <4>1, <4>2
    <3> DEFINE max == <<mt, mu>>
    <3>4. DOMAIN max = {1, 2} /\ max[1] = mt /\ max[2] = mu
      OBVIOUS
    <3> HIDE DEF max
    <3>5. UpAfter(norm, max) <=> \/ norm[1] > max[1]
                                 \/ norm[2] > max[2] /\ norm[1] = max[1]
      <4>1. DOMAIN norm \cap DOMAIN max = {1, 2}
        BY <3>3, <3>4
      <4>2. 1..(1 - 1) = {} /\ 1..(2 - 1) = {1}
        OBVIOUS
      <4> QED BY <4>1, <4>2 DEF UpAfter
    <3>6. UpTooLong(d) <=> d[z + 1] > mt \/ (d[z + 2] > mu /\ d[z + 1] = mt)
      BY <1>9, <3>3, <3>4, <3>5 DEF max
    <3>7. 10 * d[z + 1] + d[z + 2] > 10 * mt + mu <=> d[z + 1] > mt \/ (d[z + 2] > mu /\ d[z + 1] = mt)
      BY <1>1, <2>1, <3>2, DigitsCount
    <3> QED BY <1>1, <3>2, <3>6, <3>7 DEF M
  <2>6. CASE n - z > 2
    <3>1. z + 3 \in 1..n /\ (z + 3) - 1 = z + 2 /\ z + 3 \in 0..n
      BY <1>2, <2>6
    <3>2. v[z + 3] = 10 * v[z + 2] + d[z + 3] /\ d[z + 3] \in 0..9
      BY <1>2, <1>3, <3>1
    <3>3. v[z + 3] >= 100
      <4>1. v[z + 2] = 10 * d[z + 1] + d[z + 2] /\ d[z + 2] \in 0..9
        BY <1>2, <2>4, <2>6
      <4>2. v[z + 3] = 10 * (10 * d[z + 1] + d[z + 2]) + d[z + 3]
        BY <3>2, <4>1
      <4> QED BY <2>1, <3>2, <4>1, <4>2, DigitsCount
    <3>4. v[z + 3] <= v[n] /\ v[n] \in Nat /\ v[z + 3] \in Nat
      BY <1>2, <1>5, <3>1
    <3>5. UpValue(d) > M
      BY <1>1, <1>3, <3>3, <3>4
    <3>6. Len(norm) > 2
      BY <2>1, <2>6
    <3> QED BY <1>9, <3>5, <3>6 DEF M
  <2> QED BY <1>2, <1>11, <2>3, <2>5, <2>6
<1> QED BY <1>2, <1>10, <1>11

-----------------------------------------------------------------------------
\* Nothing is uploaded, and nothing is stored.
LEMMA UpInitHolds == UpInit => UpInv
<1> SUFFICES ASSUME UpInit PROVE UpInv
  OBVIOUS
<1>1. /\ upDisk = [n \in UpNames |-> "none"] /\ upLock = "none"
      /\ upFont = [u \in UpUploaders |-> [at |-> "idle", name |-> "none"]]
      /\ upPdf = UpNoPdf /\ upBody = UpNoBody
  BY DEF UpInit
<1>2. UpFontInv
  BY <1>1 DEF UpFontInv, UpFontPlaces
<1>3. UpNoPdf \in UpPdfs
  <2>1. <<>> \in Seq(Nat)
    OBVIOUS
  <2> QED BY <2>1 DEF UpPdfs, UpNoPdf
<1>4. UpPdfInv
  BY <1>1, <1>3, UploadsAssumption DEF UpPdfInv, UpNoPdf, UpCancelledIsOver
<1>5. UpNoBody \in UpBodies
  <2>1. <<>> \in Seq(0..9)
    OBVIOUS
  <2> QED BY <2>1 DEF UpBodies, UpNoBody
<1>6. UpBodyInv
  BY <1>1, <1>5 DEF UpBodyInv, UpNoBody
<1> QED BY <1>2, <1>4, <1>6 DEF UpInv

\* Who only goes on to another place keeps its name.
LEMMA FontGoes ==
  ASSUME UpFontInv, NEW u \in UpUploaders, NEW at \in UpFontPlaces, UpFontGoes(u, at)
  PROVE  /\ upFont' \in [UpUploaders -> [at : UpFontPlaces, name : UpNames \cup {"none"}]]
         /\ upFont'[u].at = at /\ upFont'[u].name = upFont[u].name
         /\ \A w \in UpUploaders : w # u => upFont'[w] = upFont[w]
<1>1. [upFont[u] EXCEPT !.at = at] \in [at : UpFontPlaces, name : UpNames \cup {"none"}]
  BY DEF UpFontInv
<1>2. upFont' = [upFont EXCEPT ![u] = [upFont[u] EXCEPT !.at = at]]
  BY DEF UpFontInv, UpFontGoes
<1>3. [upFont[u] EXCEPT !.at = at].at = at /\ [upFont[u] EXCEPT !.at = at].name = upFont[u].name
  BY DEF UpFontInv
<1> QED BY <1>1, <1>2, <1>3 DEF UpFontInv

\* Uploads, failures, the font list and crashes leave a promoted font its bytes.
LEMMA FontStepInv ==
  ASSUME UpFontInv,
         \/ \E u \in UpUploaders : UpFontStep(u) \/ UpBreaks(u)
         \/ \E u \in UpUploaders, n \in UpNames : UpStart(u, n)
         \/ UpListsRows \/ UpListsFiles \/ UpListAdopts \/ UpCrashes
         \/ UNCHANGED upFontVars
  PROVE  UpFontInv'
<1>0. "none" \notin UpUploaders
  BY UploadsAssumption
<1>1. ASSUME NEW u \in UpUploaders, NEW n \in UpNames, UpStart(u, n) PROVE UpFontInv'
  <2>1. [at |-> "valid", name |-> n] \in [at : UpFontPlaces, name : UpNames \cup {"none"}]
    BY DEF UpFontPlaces
  <2>2. /\ upFont' = [upFont EXCEPT ![u] = [at |-> "valid", name |-> n]]
        /\ UNCHANGED <<upDisk, upLock>>
    BY <1>1 DEF UpStart
  <2>3. /\ upFont' \in [UpUploaders -> [at : UpFontPlaces, name : UpNames \cup {"none"}]]
        /\ upFont'[u].at = "valid" /\ upFont'[u].name = n
        /\ \A w \in UpUploaders : w # u => upFont'[w] = upFont[w]
    BY <2>1, <2>2 DEF UpFontInv
  <2> QED BY <2>2, <2>3 DEF UpFontInv
<1>2. ASSUME NEW u \in UpUploaders, UpLocked(u) PROVE UpFontInv'
  <2>1. /\ upFont[u].at = "valid" /\ upLock = "none" /\ upLock' = u /\ upDisk' = upDisk
        /\ UpFontGoes(u, "locked") /\ "locked" \in UpFontPlaces
    BY <1>2 DEF UpLocked, UpFontAt, UpFontPlaces
  <2> QED BY <1>0, <2>1, FontGoes DEF UpFontInv
<1>3. ASSUME NEW u \in UpUploaders, UpWrites(u) PROVE UpFontInv'
  <2>1. /\ upFont[u].at = "locked" /\ upDisk' = upDisk
        /\ {"refused", "written"} \subseteq UpFontPlaces
    BY <1>3 DEF UpWrites, UpFontAt, UpFontPlaces
  <2>2. CASE UpFontGoes(u, "refused") /\ upLock' = "none"
    BY <2>1, <2>2, FontGoes DEF UpFontInv
  <2>3. CASE UpFontGoes(u, "written") /\ upLock' = upLock /\ upDisk[upFont[u].name] = "none"
    BY <2>1, <2>3, FontGoes DEF UpFontInv
  <2> QED BY <1>3, <2>2, <2>3 DEF UpWrites
<1>4. ASSUME NEW u \in UpUploaders, UpPromotes(u) PROVE UpFontInv'
  <2>1. /\ upFont[u].at = "written" /\ upLock' = upLock /\ upDisk' = [upDisk EXCEPT ![upFont[u].name] = u]
        /\ UpFontGoes(u, "promoted") /\ "promoted" \in UpFontPlaces
    BY <1>4 DEF UpPromotes, UpFontAt, UpFontPlaces
  <2>2. /\ upFont[u].name \in UpNames /\ upDisk[upFont[u].name] = "none" /\ upLock = u
        /\ upDisk' \in [UpNames -> UpUploaders \cup {"none"}]
        /\ upDisk'[upFont[u].name] = u /\ \A n \in UpNames : n # upFont[u].name => upDisk'[n] = upDisk[n]
    BY <2>1 DEF UpFontInv
  <2>3. \A w \in UpUploaders : w # u => upFont[w].at \notin {"locked", "written", "promoted"}
    BY <2>2 DEF UpFontInv
  <2> QED BY <1>0, <2>1, <2>2, <2>3, FontGoes DEF UpFontInv
<1>5. ASSUME NEW u \in UpUploaders, UpCommits(u) PROVE UpFontInv'
  <2>1. /\ upFont[u].at = "promoted" /\ upLock' = "none" /\ upDisk' = upDisk
        /\ UpFontGoes(u, "stored") /\ "stored" \in UpFontPlaces
    BY <1>5 DEF UpCommits, UpFontAt, UpFontPlaces
  <2> QED BY <2>1, FontGoes DEF UpFontInv
<1>6. ASSUME NEW u \in UpUploaders, UpBreaks(u) PROVE UpFontInv'
  <2>1. /\ upFont[u].at \in {"written", "promoted"} /\ upLock' = "none"
        /\ UpFontGoes(u, "refused") /\ "refused" \in UpFontPlaces
        /\ upFont[u].name \in UpNames /\ upLock = u
    BY <1>6 DEF UpBreaks, UpFontPlaces, UpFontInv
  <2>2. \A w \in UpUploaders : w # u => upFont[w].at \notin {"locked", "written", "promoted"}
    BY <2>1 DEF UpFontInv
  <2>3. \/ upDisk' = upDisk
        \/ upDisk[upFont[u].name] = u /\ upDisk' = [upDisk EXCEPT ![upFont[u].name] = "none"]
    BY <1>6 DEF UpBreaks, UpFontAt, UpFontInv
  <2>4. /\ upDisk' \in [UpNames -> UpUploaders \cup {"none"}]
        /\ \A w \in UpUploaders, n \in UpNames : w # u /\ upDisk[n] = w => upDisk'[n] = w
    BY <1>0, <2>1, <2>3 DEF UpFontInv
  <2> QED BY <2>1, <2>2, <2>4, FontGoes DEF UpFontInv
<1>7. CASE UpCrashes
  <2>1. /\ upLock' = "none" /\ upDisk' = upDisk
        /\ upFont' = [u \in UpUploaders |-> IF upFont[u].at \in {"idle", "stored"} THEN upFont[u]
                                            ELSE [at |-> "lost", name |-> "none"]]
    BY <1>7 DEF UpCrashes
  <2>2. [at |-> "lost", name |-> "none"] \in [at : UpFontPlaces, name : UpNames \cup {"none"}]
    BY DEF UpFontPlaces
  <2>3. upFont' \in [UpUploaders -> [at : UpFontPlaces, name : UpNames \cup {"none"}]]
    BY <2>1, <2>2 DEF UpFontInv
  <2>4. \A u \in UpUploaders :
          upFont'[u].at = "lost" \/ (upFont'[u] = upFont[u] /\ upFont[u].at \in {"idle", "stored"})
    BY <2>1
  <2> QED BY <2>1, <2>3, <2>4 DEF UpFontInv
<1>8. CASE UNCHANGED <<upDisk, upLock, upFont>>
  BY <1>8 DEF UpFontInv
<1> QED BY <1>1, <1>2, <1>3, <1>4, <1>5, <1>6, <1>7, <1>8
        DEF UpFontStep, UpListsRows, UpListsFiles, UpListAdopts, upFontVars

\* Sequences of one, two and three of some set.
LEMMA ShortSequences ==
  ASSUME NEW S, NEW a \in S, NEW b \in S, NEW e \in S
  PROVE  <<a>> \in Seq(S) /\ <<a, b>> \in Seq(S) /\ <<a, b, e>> \in Seq(S)
OBVIOUS

\* The pages before the next one are one more than the pages before the last.
LEMMA PixelsCount ==
  ASSUME NEW s \in Seq(Nat), NEW k \in 1..Len(s)
  PROVE  /\ SumFunctionOnSet(s, 1..k) = SumFunctionOnSet(s, 1..(k - 1)) + s[k]
         /\ SumFunctionOnSet(s, 1..(k - 1)) \in Nat /\ SumFunctionOnSet(s, 1..k) \in Nat /\ s[k] \in Nat
         /\ SumFunctionOnSet(s, 1..k) <= SumFunctionOnSet(s, 1..Len(s))
<1> DEFINE U == 1..Len(s)
           T == 1..k
           R == 1..(k - 1)
<1>0. Len(s) \in Int /\ 1 \in Int
  OBVIOUS
<1>1. /\ IsFiniteSet(U) /\ T \in SUBSET U /\ R \in SUBSET U /\ R \in SUBSET T /\ k \in T /\ R = T \ {k}
      /\ \A x \in U : s[x] \in Nat
  <2>1. IsFiniteSet(U)
    BY <1>0, FS_Interval
  <2>2. T \in SUBSET U /\ R \in SUBSET U /\ R \in SUBSET T /\ k \in T /\ R = T \ {k}
    BY <1>0
  <2>3. \A x \in U : s[x] \in Nat
    OBVIOUS
  <2> QED BY <2>1, <2>2, <2>3
<1> HIDE DEF U, T, R
<1>2. PICK f : AddsUp(f, s, U) /\ SumFunctionOnSet(s, U) = f[U]
  BY <1>1, Sums
<1>3. SumFunctionOnSet(s, T) = f[T] /\ SumFunctionOnSet(s, R) = f[R]
  BY <1>1, <1>2, SumOfParts
<1>4. f[T] = s[k] + f[R] /\ f[T] \in Nat /\ f[R] \in Nat /\ s[k] \in Nat
  BY <1>1, <1>2 DEF AddsUp
<1>5. SumFunctionOnSet(s, T) <= SumFunctionOnSet(s, U)
  BY <1>1, SumOfLess
<1> QED BY <1>3, <1>4, <1>5 DEF U, T, R

\* What follows from a record whose worker is neither measuring nor rendering.
LEMMA PdfEnded ==
  ASSUME NEW r \in UpPdfs, r.worker \notin {"measuring", "rendering"}, upPdf' = r,
         r.rendered <= UpMaxPixels, r.bytes <= UpMaxBytes,
         r.caller = "cancelled" => r.worker \in {"converted", "refused", "stopped"}
  PROVE  UpPdfInv'
BY DEF UpPdfInv, UpCancelledIsOver

\* A conversion renders only what it measured, and keeps what it counted.
LEMMA PdfStepInv ==
  ASSUME UpPdfInv,
         \/ UpPdfEnds \/ UpPdfStops \/ UpPdfMeasures \/ UpPdfRefuses
         \/ \E bytes \in {4, 7} : UpPdfRenders(bytes)
         \/ \E sizes \in UpPageSizes : UpPdfStart(sizes)
         \/ \E whose \in {"caller", "task"} : UpPdfCancel(whose)
         \/ upPdf' = upPdf
  PROVE  UpPdfInv'
<1>0. upPdf \in UpPdfs
  BY DEF UpPdfInv
<1>1. ASSUME NEW sizes \in UpPageSizes, UpPdfStart(sizes) PROVE UpPdfInv'
  <2>1. sizes \in Seq(Nat) /\ sizes # <<>>
    <3>1. 1 \in Nat /\ 2 \in Nat /\ 3 \in Nat
      OBVIOUS
    <3>2. <<1>> \in Seq(Nat) /\ <<1, 2>> \in Seq(Nat) /\ <<2, 3>> \in Seq(Nat) /\ <<1, 1, 1>> \in Seq(Nat)
      BY <3>1, ShortSequences
    <3> QED BY <1>1, <3>2 DEF UpPageSizes, UpPdfStart
  <2> HIDE DEF UpPageSizes
  <2> DEFINE w == IF Len(sizes) > UpMaxPages THEN "refused" ELSE "measuring"
             r == [caller |-> "waiting", worker |-> w, stop |-> FALSE, sizes |-> sizes, next |-> 1,
                   pixels |-> 0, rendered |-> 0, bytes |-> 0]
  <2>2. w \in {"refused", "measuring"}
    OBVIOUS
  <2>3. upPdf' = r
    BY <1>1 DEF UpPdfStart, UpNoPdf
  <2> HIDE DEF w
  <2>4. r \in UpPdfs
    BY <2>1, <2>2 DEF UpPdfs
  <2>5. 1 \in 1..Len(sizes) /\ 1 - 1 = 0 /\ 1..0 = {}
    BY <2>1
  <2>6. UpPixels(upPdf.next - 1)' = 0
    BY <2>3, <2>5, SumOfNothing DEF UpPixels
  <2> QED BY <2>2, <2>3, <2>4, <2>5, <2>6, UploadsAssumption DEF UpPdfInv, UpCancelledIsOver
<1>2. ASSUME NEW whose \in {"caller", "task"}, UpPdfCancel(whose) PROVE UpPdfInv'
  <2> DEFINE c == IF whose = "caller" THEN "draining" ELSE "abandoned"
             r == [upPdf EXCEPT !.stop = TRUE, !.caller = c]
  <2>1. upPdf' = r /\ c \in {"draining", "abandoned"}
    BY <1>2 DEF UpPdfCancel
  <2> HIDE DEF c
  <2>2. /\ r \in UpPdfs /\ r.worker = upPdf.worker /\ r.next = upPdf.next /\ r.sizes = upPdf.sizes
        /\ r.pixels = upPdf.pixels /\ r.rendered = upPdf.rendered /\ r.bytes = upPdf.bytes /\ r.caller = c
    BY <1>0, <2>1 DEF UpPdfs
  <2> HIDE DEF r
  <2>3. \A k \in Nat : UpPixels(k)' = UpPixels(k)
    BY <2>1, <2>2 DEF UpPixels
  <2>4. UpPixels(Len(upPdf.sizes))' = UpPixels(Len(upPdf.sizes)) /\ UpPixels(upPdf.next - 1)' = UpPixels(upPdf.next - 1)
    BY <2>1, <2>2 DEF UpPixels
  <2> QED BY <2>1, <2>2, <2>4 DEF UpPdfInv, UpCancelledIsOver
<1>3. CASE UpPdfEnds
  <2> DEFINE c == IF upPdf.caller = "waiting" THEN "answered" ELSE "cancelled"
             r == [upPdf EXCEPT !.caller = c]
  <2>1. upPdf' = r /\ c \in {"answered", "cancelled"} /\ upPdf.worker \in {"converted", "refused", "stopped"}
    BY <1>3 DEF UpPdfEnds
  <2> HIDE DEF c
  <2>2. r \in UpPdfs /\ r.worker = upPdf.worker /\ r.rendered = upPdf.rendered /\ r.bytes = upPdf.bytes
    BY <1>0, <2>1 DEF UpPdfs
  <2> HIDE DEF r
  <2> QED BY <2>1, <2>2, PdfEnded DEF UpPdfInv
<1>4. CASE UpPdfStops \/ UpPdfRefuses
  <2>1. PICK w \in {"stopped", "refused"} : upPdf' = [upPdf EXCEPT !.worker = w]
    BY <1>4 DEF UpPdfStops, UpPdfRefuses
  <2> DEFINE r == [upPdf EXCEPT !.worker = w]
  <2>2. r \in UpPdfs /\ r.worker = w /\ r.rendered = upPdf.rendered /\ r.bytes = upPdf.bytes
    BY <1>0 DEF UpPdfs
  <2>3. upPdf' = r
    BY <2>1
  <2> HIDE DEF r
  <2> QED BY <2>2, <2>3, PdfEnded DEF UpPdfInv
<1>5. CASE UpPdfMeasures
  <2>0. PICK k, s : k = upPdf.next /\ s = upPdf.sizes
    OBVIOUS
  <2> DEFINE pixels == upPdf.pixels + s[k]
             next == IF k = Len(s) THEN 1 ELSE k + 1
             w == IF pixels > UpMaxPixels THEN "refused" ELSE IF k = Len(s) THEN "rendering" ELSE "measuring"
             r == [upPdf EXCEPT !.pixels = pixels, !.next = next, !.worker = w]
  <2>1. /\ upPdf.worker = "measuring" /\ upPdf' = r
    BY <1>5, <2>0 DEF UpPdfMeasures
  <2>2. /\ s \in Seq(Nat) /\ k \in 1..Len(s) /\ upPdf.pixels = SumFunctionOnSet(s, 1..(k - 1))
        /\ upPdf.rendered = 0 /\ upPdf.bytes = 0
    BY <1>0, <2>0, <2>1 DEF UpPdfInv, UpPdfs, UpPixels
  <2>3. /\ SumFunctionOnSet(s, 1..k) = SumFunctionOnSet(s, 1..(k - 1)) + s[k]
        /\ SumFunctionOnSet(s, 1..k) \in Nat
    BY <2>2, PixelsCount
  <2>4. pixels = SumFunctionOnSet(s, 1..k) /\ pixels \in Nat
    BY <2>2, <2>3
  <2> HIDE DEF pixels
  <2>5. next \in 1..Len(s) /\ next \in Nat
    BY <2>2
  <2>6. w = "rendering" => k = Len(s) /\ pixels <= UpMaxPixels
    BY <2>4, UploadsAssumption
  <2>7. w = "measuring" => k # Len(s)
    OBVIOUS
  <2>8. w \in {"refused", "rendering", "measuring"}
    OBVIOUS
  <2>9. (k = Len(s) => next = 1) /\ (k # Len(s) => next = k + 1)
    OBVIOUS
  <2> HIDE DEF w, next
  <2>10. /\ r \in UpPdfs /\ r.worker = w /\ r.next = next /\ r.sizes = s /\ r.pixels = pixels
         /\ r.rendered = 0 /\ r.bytes = 0 /\ r.caller = upPdf.caller
    BY <1>0, <2>0, <2>2, <2>4, <2>5, <2>8 DEF UpPdfs
  <2> HIDE DEF r
  <2>11. \A j : UpPixels(j)' = SumFunctionOnSet(s, 1..j)
    BY <2>1, <2>10 DEF UpPixels
  <2>12. r.caller # "cancelled"
    BY <2>1, <2>10 DEF UpPdfInv, UpCancelledIsOver
  <2>13. ASSUME w = "measuring" PROVE UpPixels(upPdf.next - 1)' = pixels
    <3>1. next - 1 = k
      BY <2>2, <2>7, <2>9, <2>13
    <3> QED BY <2>1, <2>4, <2>10, <3>1 DEF UpPixels
  <2>14. ASSUME w = "rendering"
         PROVE  UpPixels(Len(upPdf.sizes))' <= UpMaxPixels /\ UpPixels(upPdf.next - 1)' = 0
    <3>1. next = 1 /\ 1 - 1 = 0 /\ 1..0 = {}
      BY <2>6, <2>9, <2>14
    <3>2. UpPixels(upPdf.next - 1)' = 0
      BY <2>1, <2>10, <3>1, SumOfNothing DEF UpPixels
    <3>3. UpPixels(Len(upPdf.sizes))' = pixels
      BY <2>1, <2>4, <2>6, <2>10, <2>14 DEF UpPixels
    <3> QED BY <2>6, <2>14, <3>2, <3>3
  <2>15. 0 <= UpMaxPixels /\ 0 <= UpMaxBytes
    BY UploadsAssumption
  <2> QED BY <2>1, <2>5, <2>10, <2>12, <2>13, <2>14, <2>15 DEF UpPdfInv, UpCancelledIsOver
<1>6. ASSUME NEW bytes \in {4, 7}, UpPdfRenders(bytes) PROVE UpPdfInv'
  <2>0. PICK k, s : k = upPdf.next /\ s = upPdf.sizes
    OBVIOUS
  <2> DEFINE fits == upPdf.bytes + bytes <= UpMaxBytes
             rendered == upPdf.rendered + s[k]
             kept == IF fits THEN upPdf.bytes + bytes ELSE upPdf.bytes
             w == IF ~fits THEN "refused" ELSE IF k = Len(s) THEN "converted" ELSE "rendering"
             r == [upPdf EXCEPT !.rendered = rendered, !.next = k + 1, !.bytes = kept, !.worker = w]
  <2>1. upPdf.worker = "rendering" /\ upPdf' = r
    BY <1>6, <2>0 DEF UpPdfRenders
  <2>2. /\ s \in Seq(Nat) /\ k \in 1..Len(s) /\ upPdf.rendered = SumFunctionOnSet(s, 1..(k - 1))
        /\ SumFunctionOnSet(s, 1..Len(s)) <= UpMaxPixels /\ upPdf.bytes \in Nat /\ upPdf.bytes <= UpMaxBytes
    BY <1>0, <2>0, <2>1 DEF UpPdfInv, UpPdfs, UpPixels
  <2>3. /\ SumFunctionOnSet(s, 1..k) = SumFunctionOnSet(s, 1..(k - 1)) + s[k]
        /\ SumFunctionOnSet(s, 1..k) \in Nat
        /\ SumFunctionOnSet(s, 1..k) <= SumFunctionOnSet(s, 1..Len(s))
    BY <2>2, PixelsCount
  <2>4. rendered = SumFunctionOnSet(s, 1..k) /\ rendered \in Nat
    BY <2>2, <2>3
  <2>5. rendered <= UpMaxPixels
    <3>1. SumFunctionOnSet(s, 1..Len(s)) \in Nat
      <4>1. Len(s) \in 1..Len(s)
        BY <2>2
      <4> QED BY <2>2, <4>1, PixelsCount
    <3> QED BY <2>2, <2>3, <2>4, <3>1, UploadsAssumption
  <2>6. kept \in Nat /\ kept <= UpMaxBytes
    BY <2>2
  <2>7. w \in {"refused", "converted", "rendering"} /\ (w = "rendering" => k # Len(s))
    OBVIOUS
  <2>8. k + 1 \in Nat
    BY <2>2
  <2> HIDE DEF rendered, kept, w, fits
  <2>9. /\ r \in UpPdfs /\ r.worker = w /\ r.next = k + 1 /\ r.sizes = s
        /\ r.rendered = rendered /\ r.bytes = kept /\ r.caller = upPdf.caller
    BY <1>0, <2>0, <2>2, <2>4, <2>6, <2>7, <2>8 DEF UpPdfs
  <2> HIDE DEF r
  <2>10. r.caller # "cancelled"
    BY <2>1, <2>9 DEF UpPdfInv, UpCancelledIsOver
  <2>11. UpPixels(Len(upPdf.sizes))' = SumFunctionOnSet(s, 1..Len(s))
    BY <2>1, <2>9 DEF UpPixels
  <2>12. UpPixels(upPdf.next - 1)' = rendered
    <3>1. (k + 1) - 1 = k
      BY <2>2
    <3> QED BY <2>1, <2>4, <2>9, <3>1 DEF UpPixels
  <2>13. w = "rendering" => k + 1 \in 1..Len(s)
    BY <2>2, <2>7
  <2>14. w # "measuring"
    BY <2>7
  <2> QED BY <2>1, <2>2, <2>5, <2>6, <2>9, <2>10, <2>11, <2>12, <2>13, <2>14 DEF UpPdfInv, UpCancelledIsOver
<1>7. CASE upPdf' = upPdf
  BY <1>7 DEF UpPdfInv, UpCancelledIsOver, UpPixels
<1> QED BY <1>1, <1>2, <1>3, <1>4, <1>5, <1>6, <1>7

\* A body is handled only within the limit.
LEMMA BodyStepInv ==
  ASSUME UpBodyInv,
         \/ \E digits \in UpHeaders : UpRequest(digits)
         \/ \E bytes \in {0, 4, 7}, more \in BOOLEAN : UpReceive(bytes, more)
         \/ UpDisconnect \/ upBody' = upBody
  PROVE  UpBodyInv'
<1>0. upBody \in UpBodies
  BY DEF UpBodyInv
<1>1. ASSUME NEW digits \in UpHeaders, UpRequest(digits) PROVE UpBodyInv'
  <2>1. digits \in Seq(0..9)
    <3> DEFINE D == 0..9
    <3>1. 0 \in D /\ 1 \in D /\ 2 \in D /\ 9 \in D
      OBVIOUS
    <3> HIDE DEF D
    <3>2. <<0, 0, 9>> \in Seq(D) /\ <<1, 0, 0>> \in Seq(D) /\ <<0, 1, 0>> \in Seq(D) /\ <<0, 2, 1>> \in Seq(D)
      BY <3>1, ShortSequences
    <3>3. <<1, 0>> \in Seq(D) /\ <<1, 1>> \in Seq(D) /\ <<2, 0>> \in Seq(D)
      BY <3>1, ShortSequences
    <3>4. <<9>> \in Seq(D) /\ <<0>> \in Seq(D)
      BY <3>1, ShortSequences
    <3>5. digits \in Seq(D)
      BY <3>2, <3>3, <3>4 DEF UpHeaders
    <3> QED BY <3>5 DEF D
  <2> DEFINE at == IF UpTooLong(digits) THEN "declared" ELSE "reading"
             r == [at |-> at, declared |-> digits, got |-> 0]
  <2>2. upBody' = r
    BY <1>1 DEF UpRequest
  <2>3. at \in {"declared", "reading"} /\ (at = "declared") = UpTooLong(digits)
    <3>1. UpTooLong(digits) \in BOOLEAN
      BY DEF UpTooLong
    <3> QED BY <3>1
  <2> HIDE DEF at
  <2>4. r \in UpBodies
    BY <2>1, <2>3 DEF UpBodies
  <2> QED BY <2>2, <2>3, <2>4 DEF UpBodyInv
<1>2. ASSUME NEW bytes \in {0, 4, 7}, NEW more \in BOOLEAN, UpReceive(bytes, more) PROVE UpBodyInv'
  <2> DEFINE got == upBody.got + bytes
             at == IF got > UpMaxBytes THEN "counted" ELSE IF more THEN upBody.at ELSE "handled"
             r == [upBody EXCEPT !.got = got, !.at = at]
  <2>1. upBody' = r /\ upBody.at = "reading"
    BY <1>2 DEF UpReceive
  <2>2. got \in Nat
    BY <1>0 DEF UpBodies
  <2>3. at \in {"counted", "reading", "handled"} /\ (at = "handled" => got <= UpMaxBytes)
    BY <2>1, <2>2, UploadsAssumption
  <2> HIDE DEF at, got
  <2>4. r \in UpBodies /\ r.at = at /\ r.got = got /\ r.declared = upBody.declared
    BY <1>0, <2>2, <2>3 DEF UpBodies
  <2> HIDE DEF r
  <2>5. FALSE = UpTooLong(upBody.declared)
    BY <2>1 DEF UpBodyInv
  <2> QED BY <2>1, <2>3, <2>4, <2>5 DEF UpBodyInv
<1>3. CASE UpDisconnect
  <2> DEFINE r == [upBody EXCEPT !.at = "gone"]
  <2>1. upBody' = r /\ upBody.at = "reading"
    BY <1>3 DEF UpDisconnect
  <2>2. r \in UpBodies /\ r.at = "gone" /\ r.declared = upBody.declared
    BY <1>0 DEF UpBodies
  <2> HIDE DEF r
  <2>3. FALSE = UpTooLong(upBody.declared)
    BY <2>1 DEF UpBodyInv
  <2> QED BY <2>1, <2>2, <2>3 DEF UpBodyInv
<1>4. CASE upBody' = upBody
  BY <1>4 DEF UpBodyInv
<1> QED BY <1>1, <1>2, <1>3, <1>4

\* Every step of uploads, conversions and requests.
LEMMA UpNextInv ==
  ASSUME UpInv, [UpNext]_upVars
  PROVE  UpInv'
<1>1. UpFontInv'
  <2>1. \/ \E u \in UpUploaders : UpFontStep(u) \/ UpBreaks(u)
        \/ \E u \in UpUploaders, n \in UpNames : UpStart(u, n)
        \/ UpListsRows \/ UpListsFiles \/ UpListAdopts \/ UpCrashes
        \/ UNCHANGED upFontVars
    BY DEF UpNext, UpStep, UpPdfStep, upVars, upFontVars
  <2> QED BY <2>1, FontStepInv DEF UpInv
<1>2. UpPdfInv'
  <2>1. \/ UpPdfEnds \/ UpPdfStops \/ UpPdfMeasures \/ UpPdfRefuses
        \/ \E bytes \in {4, 7} : UpPdfRenders(bytes)
        \/ \E sizes \in UpPageSizes : UpPdfStart(sizes)
        \/ \E whose \in {"caller", "task"} : UpPdfCancel(whose)
        \/ upPdf' = upPdf
    BY DEF UpNext, UpStep, UpPdfStep, upVars
  <2> QED BY <2>1, PdfStepInv DEF UpInv
<1>3. UpBodyInv'
  <2>1. \/ \E digits \in UpHeaders : UpRequest(digits)
        \/ \E bytes \in {0, 4, 7}, more \in BOOLEAN : UpReceive(bytes, more)
        \/ UpDisconnect \/ upBody' = upBody
    BY DEF UpNext, UpStep, UpPdfStep, upVars
  <2> QED BY <2>1, BodyStepInv DEF UpInv
<1> QED BY <1>1, <1>2, <1>3 DEF UpInv

\* What the invariant says of stored fonts, cancelled conversions and limits.
LEMMA UpInvSafe == UpInv => UpStoredFontKept /\ UpCancelledIsOver /\ UpWithinLimits
<1> SUFFICES ASSUME UpInv PROVE UpStoredFontKept /\ UpCancelledIsOver /\ UpWithinLimits
  OBVIOUS
<1>1. UpStoredFontKept
  BY DEF UpInv, UpFontInv, UpStoredFontKept, UpFontAt
<1>2. UpCancelledIsOver /\ upPdf.rendered <= UpMaxPixels /\ upPdf.bytes <= UpMaxBytes
  BY DEF UpInv, UpPdfInv
<1>3. ASSUME upBody.at # "none"
      PROVE  (upBody.at = "declared") = (UpValue(upBody.declared) > UpMaxBytes)
  <2>1. upBody.declared \in Seq(0..9)
    BY DEF UpInv, UpBodyInv, UpBodies
  <2>2. UpTooLong(upBody.declared) <=> UpValue(upBody.declared) > UpMaxBytes
    BY <2>1, HeadersAreCompared
  <2>3. UpTooLong(upBody.declared) \in BOOLEAN
    BY DEF UpTooLong
  <2> QED BY <1>3, <2>2, <2>3 DEF UpInv, UpBodyInv
<1> QED BY <1>1, <1>2, <1>3 DEF UpWithinLimits, UpInv, UpBodyInv

-----------------------------------------------------------------------------
(* The assistant (api/routes_ai.py, services/ai_tools.py and its editor tab). *)

\* The stores of projects.
AaRow == [revision : Nat, design : 0..AaTurns, last : Nat]
AaStores == {store \in [AaProjects -> AaRow] : \A p \in AaProjects : store[p].revision <= store[p].last}

\* What was stored under an id stays so, whether or not its project is still there.
AaGrows(store, later) == \A p \in AaProjects : store[p].last <= later[p].last

\* The greatest of some numbers, where there is one.
LEMMA MaxIs ==
  ASSUME NEW S \in SUBSET Nat, NEW i \in S, \A j \in S : j <= i
  PROVE  Max(S) = i
<1>1. \A x, y \in S : x >= y /\ y >= x => x = y
  OBVIOUS
<1>2. Max(S) \in S /\ \A y \in S : Max(S) >= y
  BY DEF Max
<1> QED BY <1>1, <1>2

\* The action that loaded a project last is the one the canvas tells of.
LEMMA AaLastTold ==
  ASSUME NEW canvas \in AaCanvases, AaTells(canvas), AaLoadedActions(canvas) # {}
  PROVE  \E i \in AaLoadedActions(canvas) :
           /\ AaLastLoaded(canvas) = canvas.actions[i] /\ canvas.actions[i] \in AaAction
           /\ canvas.project # AaNone =>
                /\ canvas.actions[i].project = canvas.project
                /\ canvas.actions[i].revision = canvas.revision
<1> DEFINE S == AaLoadedActions(canvas)
<1>1. PICK i \in S : /\ \A j \in S : j <= i
                     /\ canvas.project # AaNone =>
                          /\ canvas.actions[i].project = canvas.project
                          /\ canvas.actions[i].revision = canvas.revision
  BY DEF AaTells
<1>2. S \in SUBSET Nat /\ \A k \in S : canvas.actions[k] \in AaAction
  BY DEF AaCanvases, AaLoadedActions
<1>3. Max(S) = i
  <2> HIDE DEF S
  <2> QED BY <1>1, <1>2, MaxIs
<1> QED BY <1>1, <1>2, <1>3 DEF AaLastLoaded

\* What one more action makes of the actions that load.
LEMMA AaAppended ==
  ASSUME NEW canvas \in AaCanvases, NEW a \in AaAction, NEW n, n = Len(canvas.actions),
         NEW actions, actions = Append(canvas.actions, a)
  PROVE  /\ actions \in Seq(AaAction) /\ n \in Nat /\ DOMAIN actions = 1..(n + 1)
         /\ actions[n + 1] = a /\ \A i \in 1..n : actions[i] = canvas.actions[i]
         /\ \A i \in AaLoadedActions(canvas) : i \in 1..n
<1>1. canvas.actions \in Seq(AaAction)
  BY DEF AaCanvases
<1> QED BY <1>1 DEF AaLoadedActions

\* An action that loads nothing, for a canvas that stays what it was.
LEMMA AaPlainly ==
  ASSUME NEW store, NEW canvas \in AaCanvases, AaCanvasOK(store, canvas), NEW a \in AaAction,
         a.action # "loaded", NEW later \in AaCanvases,
         later.actions = Append(canvas.actions, a), later.project = canvas.project,
         later.revision = canvas.revision
  PROVE  AaCanvasOK(store, later)
<1> DEFINE n == Len(canvas.actions)
<1>1. /\ n \in Nat /\ DOMAIN later.actions = 1..(n + 1) /\ later.actions[n + 1] = a
      /\ \A i \in 1..n : later.actions[i] = canvas.actions[i]
      /\ DOMAIN canvas.actions = 1..n
  BY AaAppended DEF AaCanvases
<1>2. AaLoadedActions(later) = AaLoadedActions(canvas)
  BY <1>1 DEF AaLoadedActions
<1>3. \A i \in AaLoadedActions(canvas) : later.actions[i] = canvas.actions[i]
  BY <1>1 DEF AaLoadedActions
<1> QED BY <1>2, <1>3 DEF AaCanvasOK, AaTells

\* An action that tells of the project the canvas now has.
LEMMA AaLoadedly ==
  ASSUME NEW store, NEW canvas \in AaCanvases, NEW later \in AaCanvases, AaCanvasOK(store, canvas),
         NEW p \in AaProjects, NEW r \in Nat, AaKnown(store, p, r),
         later.actions = Append(canvas.actions, AaLoadedAction(p, r)),
         later.project = p, later.revision = r
  PROVE  AaCanvasOK(store, later)
<1> DEFINE n == Len(canvas.actions)
           a == AaLoadedAction(p, r)
<1>1. a \in AaAction /\ a.action = "loaded" /\ a.project = p /\ a.revision = r
  BY DEF AaLoadedAction, AaAction, AaProject
<1>2. /\ n \in Nat /\ DOMAIN later.actions = 1..(n + 1) /\ later.actions[n + 1] = a
      /\ \A i \in 1..n : later.actions[i] = canvas.actions[i]
      /\ DOMAIN canvas.actions = 1..n
  BY <1>1, AaAppended DEF AaCanvases
<1> HIDE DEF a, n
<1>3. AaLoadedActions(later) = AaLoadedActions(canvas) \cup {n + 1}
  BY <1>1, <1>2 DEF AaLoadedActions
<1>4. AaTells(later)
  <2>1. n + 1 \in AaLoadedActions(later) /\ \A j \in AaLoadedActions(later) : j <= n + 1
    BY <1>2, <1>3 DEF AaLoadedActions
  <2> QED BY <1>1, <1>2, <2>1 DEF AaTells
<1>5. \A i \in AaLoadedActions(later) : AaKnown(store, later.actions[i].project, later.actions[i].revision)
  <2> SUFFICES ASSUME NEW i \in AaLoadedActions(later)
               PROVE  AaKnown(store, later.actions[i].project, later.actions[i].revision)
    OBVIOUS
  <2>1. CASE i = n + 1
    BY <1>1, <1>2, <2>1
  <2>2. CASE i \in AaLoadedActions(canvas)
    BY <1>2, <2>2 DEF AaCanvasOK, AaLoadedActions
  <2> QED BY <1>3, <2>1, <2>2
<1> QED BY <1>4, <1>5 DEF AaCanvasOK

\* A canvas drawn upon, or cleared.
LEMMA AaDrawnOn ==
  ASSUME NEW store, NEW canvas \in AaCanvases, NEW later \in AaCanvases, AaCanvasOK(store, canvas),
         later.actions = canvas.actions,
         \/ later.project = AaNone
         \/ later.project = canvas.project /\ later.revision = canvas.revision
  PROVE  AaCanvasOK(store, later)
<1>1. AaLoadedActions(later) = AaLoadedActions(canvas)
  BY DEF AaLoadedActions
<1> QED BY <1>1 DEF AaCanvasOK, AaTells, AaKnown

\* A canvas as it is loaded has nothing to tell.
LEMMA AaFresh ==
  ASSUME NEW store, NEW d \in 0..AaTurns, NEW p \in AaProject, NEW r \in Nat, AaKnown(store, p, r)
  PROVE  AaCanvas(d, p, r) \in AaCanvases /\ AaCanvasOK(store, AaCanvas(d, p, r))
<1>1. AaCanvas(d, p, r) = [design |-> d, project |-> p, revision |-> r, pages |-> <<0>>, actions |-> <<>>]
  BY DEF AaCanvas
<1>2. <<0>> \in Seq(Int) /\ <<>> \in Seq(AaAction)
  OBVIOUS
<1>3. AaCanvas(d, p, r) \in AaCanvases
  BY <1>1, <1>2 DEF AaCanvases
<1>4. AaLoadedActions(AaCanvas(d, p, r)) = {}
  BY <1>1 DEF AaLoadedActions
<1> QED BY <1>1, <1>3, <1>4 DEF AaCanvasOK, AaTells

\* A canvas stays right while the projects grow.
LEMMA AaStaysRight ==
  ASSUME NEW store \in AaStores, NEW later \in AaStores, AaGrows(store, later),
         NEW canvas \in AaCanvases, AaCanvasOK(store, canvas)
  PROVE  AaCanvasOK(later, canvas)
<1>1. ASSUME NEW p \in AaProject, NEW r \in Nat, AaKnown(store, p, r) PROVE AaKnown(later, p, r)
  BY <1>1 DEF AaKnown, AaGrows, AaStores, AaRow, AaProject
<1>2. canvas.project \in AaProject /\ canvas.revision \in Nat
      /\ \A i \in AaLoadedActions(canvas) : /\ canvas.actions[i].project \in AaProject
                                            /\ canvas.actions[i].revision \in Nat
  <2>1. \A i \in AaLoadedActions(canvas) : canvas.actions[i] \in AaAction
    BY DEF AaCanvases, AaLoadedActions
  <2> QED BY <2>1 DEF AaCanvases, AaAction
<1> QED BY <1>1, <1>2 DEF AaCanvasOK

\* Plain actions load nothing.
LEMMA AaPlains ==
  ASSUME NEW name \in {"refresh", "deletion_review", "print_review", "preview"}
  PROVE  AaPlain(name) \in AaAction /\ AaPlain(name).action = name
BY AiAssumption DEF AaPlain, AaAction, AaProject

\* What a plain action makes of a canvas.
LEMMA AaActsPlainly ==
  ASSUME NEW store, NEW canvas \in AaCanvases, AaCanvasOK(store, canvas),
         NEW name \in {"refresh", "deletion_review", "print_review", "preview"}
  PROVE  AaActs(canvas, AaPlain(name)) \in AaCanvases /\ AaCanvasOK(store, AaActs(canvas, AaPlain(name)))
<1> DEFINE actions == Append(canvas.actions, AaPlain(name))
<1>1. canvas.actions \in Seq(AaAction) /\ AaPlain(name) \in AaAction /\ AaPlain(name).action # "loaded"
  BY AaPlains DEF AaCanvases
<1>2. actions \in Seq(AaAction)
  BY <1>1
<1>3. AaActs(canvas, AaPlain(name)) = [canvas EXCEPT !.actions = actions]
  BY DEF AaActs
<1>4. PICK later : later = AaActs(canvas, AaPlain(name))
  OBVIOUS
<1> HIDE DEF actions
<1>5. /\ later \in AaCanvases /\ later.actions = actions /\ later.project = canvas.project
      /\ later.revision = canvas.revision
  BY <1>2, <1>3, <1>4 DEF AaCanvases
<1>6. AaCanvasOK(store, later)
  BY <1>1, <1>5, AaPlainly DEF actions
<1> QED BY <1>4, <1>5, <1>6

\* Numbers one after the other are a sequence of them.
LEMMA NumbersUp ==
  ASSUME NEW a \in Int, NEW b \in Int
  PROVE  [i \in 1..(a + 1 - b) |-> b + i - 1] \in Seq(Int)
<1>1. PICK n \in Int : n = a + 1 - b
  OBVIOUS
<1>2. \A i \in 1..n : b + i - 1 \in Int
  OBVIOUS
<1>3. CASE n \in Nat
  BY <1>1, <1>2, <1>3
<1>4. CASE n \notin Nat
  <2>1. 1..n = 1..0
    BY <1>1, <1>4
  <2>2. [i \in 1..n |-> b + i - 1] \in [1..0 -> Int]
    BY <1>2, <2>1
  <2> QED BY <1>1, <2>2
<1> QED BY <1>3, <1>4

\* A number put where there is one.
LEMMA EntryPut ==
  ASSUME NEW s \in Seq(Int), NEW k, NEW x \in Int
  PROVE  [s EXCEPT ![k] = x] \in Seq(Int)
<1>1. s \in [1..Len(s) -> Int] /\ Len(s) \in Nat
  OBVIOUS
<1>2. [s EXCEPT ![k] = x] \in [1..Len(s) -> Int]
  BY <1>1
<1> QED BY <1>1, <1>2

\* Drawing, laying out and clearing leave the actions alone.
LEMMA AaDraws ==
  ASSUME NEW store, NEW canvas \in AaCanvases, AaCanvasOK(store, canvas), NEW turn \in Turns, NEW at \in Int
  PROVE  /\ AaDraw(canvas, turn) \in AaCanvases /\ AaCanvasOK(store, AaDraw(canvas, turn))
         /\ AaLayout(canvas, at, turn) \in AaCanvases /\ AaCanvasOK(store, AaLayout(canvas, at, turn))
         /\ AaClear(canvas, turn) \in AaCanvases /\ AaCanvasOK(store, AaClear(canvas, turn))
<1>1. PICK drawn : drawn = AaDraw(canvas, turn)
  OBVIOUS
<1>2. /\ drawn \in AaCanvases /\ drawn.actions = canvas.actions /\ drawn.project = canvas.project
      /\ drawn.revision = canvas.revision
  BY <1>1 DEF AaDraw, AaCanvases, Turns
<1>3. PICK cleared : cleared = AaClear(canvas, turn)
  OBVIOUS
<1>4. <<0>> \in Seq(Int)
  OBVIOUS
<1>5. /\ cleared \in AaCanvases /\ cleared.actions = canvas.actions /\ cleared.project = AaNone
  BY <1>1, <1>2, <1>3, <1>4 DEF AaClear, AaCanvases, AaProject
<1>6. PICK laid : laid = AaLayout(canvas, at, turn)
  OBVIOUS
<1>7. PICK pages \in Seq(Int) : laid = [drawn EXCEPT !.pages = pages]
  <2> DEFINE more == [i \in 1..(at + 1 - Len(canvas.pages)) |-> Len(canvas.pages) + i - 1]
             whole == canvas.pages \o more
             slot == IF at < 0 THEN Len(whole) + at + 1 ELSE at + 1
  <2>1. canvas.pages \in Seq(Int) /\ Len(canvas.pages) \in Nat
    BY DEF AaCanvases
  <2>2. more \in Seq(Int)
    BY <2>1, NumbersUp
  <2>3. whole \in Seq(Int)
    <3> HIDE DEF more
    <3> QED BY <2>1, <2>2
  <2>4. [whole EXCEPT ![slot] = at] \in Seq(Int)
    <3> HIDE DEF whole, slot
    <3> QED BY <2>3, EntryPut
  <2>5. laid = [drawn EXCEPT !.pages = [whole EXCEPT ![slot] = at]]
    BY <1>1, <1>6 DEF AaLayout
  <2> QED BY <2>4, <2>5
<1>8. /\ laid \in AaCanvases /\ laid.actions = canvas.actions /\ laid.project = canvas.project
      /\ laid.revision = canvas.revision
  BY <1>2, <1>7 DEF AaCanvases
<1>9. AaCanvasOK(store, drawn) /\ AaCanvasOK(store, cleared) /\ AaCanvasOK(store, laid)
  BY <1>2, <1>5, <1>8, AaDrawnOn
<1> QED BY <1>1, <1>2, <1>3, <1>5, <1>6, <1>8, <1>9

\* A tool leaves the canvas right by the projects as it leaves them, and
\* takes nothing back of what was stored.
AaToolKeeps(store, done) ==
  /\ done.store \in AaStores /\ AaGrows(store, done.store)
  /\ done.canvas \in AaCanvases /\ AaCanvasOK(done.store, done.canvas)

\* One project written, or begun.
LEMMA AaStoring ==
  ASSUME NEW store \in AaStores, NEW p \in AaProjects, NEW r \in Nat, r # 0, NEW d \in 0..AaTurns,
         NEW later, later = AaPut(store, p, r, d)
  PROVE  /\ later \in AaStores /\ AaGrows(store, later) /\ AaKnown(later, p, r)
<1>1. \A q \in AaProjects : /\ store[q] \in AaRow /\ store[q].last \in Nat /\ store[q].revision \in Nat
                            /\ store[q].revision <= store[q].last
  BY DEF AaStores, AaRow
<1>2. PICK l \in Nat : l = IF r > store[p].last THEN r ELSE store[p].last
  BY <1>1
<1>3. r <= l /\ store[p].last <= l
  BY <1>1, <1>2
<1>4. [revision |-> r, design |-> d, last |-> l] \in AaRow
  BY DEF AaRow
<1>5. /\ later \in [AaProjects -> AaRow] /\ later[p] = [revision |-> r, design |-> d, last |-> l]
      /\ \A q \in AaProjects : q # p => later[q] = store[q]
  BY <1>2, <1>4 DEF AaPut, AaStores
<1>6. \A q \in AaProjects : store[q].last <= later[q].last /\ later[q].revision <= later[q].last
  BY <1>1, <1>3, <1>5
<1> QED BY <1>3, <1>5, <1>6 DEF AaGrows, AaKnown, AaStores

\* One project deleted.
LEMMA AaRemoving ==
  ASSUME NEW store \in AaStores, NEW p \in AaProjects, NEW later, later = [store EXCEPT ![p].revision = 0]
  PROVE  later \in AaStores /\ AaGrows(store, later)
<1>1. \A q \in AaProjects : /\ store[q] \in AaRow /\ store[q].last \in Nat
                            /\ store[q].revision <= store[q].last
  BY DEF AaStores, AaRow
<1>2. [store[p] EXCEPT !.revision = 0] \in AaRow
  BY <1>1 DEF AaRow
<1>3. /\ later \in [AaProjects -> AaRow] /\ later[p] = [store[p] EXCEPT !.revision = 0]
      /\ \A q \in AaProjects : q # p => later[q] = store[q]
  BY <1>2 DEF AaStores
<1>4. later[p].revision = 0 /\ later[p].last = store[p].last
  BY <1>1, <1>3 DEF AaRow
<1>5. \A q \in AaProjects : store[q].last <= later[q].last /\ later[q].revision <= later[q].last
  BY <1>1, <1>3, <1>4
<1> QED BY <1>3, <1>5 DEF AaGrows, AaStores

\* Whoever loads a project gets what is stored.
LEMMA AaLoads ==
  ASSUME NEW store \in AaStores, NEW p \in AaProjects, AaExists(store, p)
  PROVE  AaToolKeeps(store, AaDid(AaLoad(store, p), store))
<1>1. PICK c : c = AaCanvas(store[p].design, p, store[p].revision)
  OBVIOUS
<1>2. PICK r : r = store[p].revision
  OBVIOUS
<1>3. /\ store[p].design \in 0..AaTurns /\ r \in Nat /\ p \in AaProject /\ AaKnown(store, p, r)
  BY <1>2 DEF AaStores, AaRow, AaProject, AaKnown, AaExists
<1>4. c \in AaCanvases /\ AaCanvasOK(store, c) /\ c.project = p /\ c.revision = r
  BY <1>1, <1>2, <1>3, AaFresh DEF AaCanvas
<1>5. PICK actions : actions = Append(c.actions, AaLoadedAction(p, r))
  OBVIOUS
<1>6. actions \in Seq(AaAction)
  BY <1>3, <1>4, <1>5 DEF AaCanvases, AaLoadedAction, AaAction
<1>7. PICK later : later = AaLoad(store, p)
  OBVIOUS
<1>8. later = [c EXCEPT !.actions = actions]
  BY <1>1, <1>2, <1>5, <1>7 DEF AaLoad, AaActs
<1>9. later \in AaCanvases /\ later.actions = actions /\ later.project = p /\ later.revision = r
  BY <1>4, <1>6, <1>8 DEF AaCanvases
<1>10. AaCanvasOK(store, later)
  BY <1>3, <1>4, <1>5, <1>9, AaLoadedly
<1>11. AaGrows(store, store)
  BY DEF AaGrows, AaStores, AaRow
<1> QED BY <1>7, <1>9, <1>10, <1>11 DEF AaToolKeeps, AaDid

\* A canvas that was saved as, or updates, a project: it tells so.
LEMMA AaSaves ==
  ASSUME NEW store, NEW canvas \in AaCanvases, AaCanvasOK(store, canvas),
         NEW p \in AaProjects, NEW r \in Nat, AaKnown(store, p, r),
         NEW actions, actions = Append(Append(canvas.actions, AaLoadedAction(p, r)), AaPlain("refresh")),
         NEW later, later = [canvas EXCEPT !.project = p, !.revision = r, !.actions = actions]
  PROVE  later \in AaCanvases /\ AaCanvasOK(store, later)
<1>1. PICK first : first = Append(canvas.actions, AaLoadedAction(p, r))
  OBVIOUS
<1>2. p \in AaProject /\ canvas.actions \in Seq(AaAction) /\ AaLoadedAction(p, r) \in AaAction
  BY DEF AaProject, AaCanvases, AaLoadedAction, AaAction
<1>3. first \in Seq(AaAction)
  BY <1>1, <1>2
<1>4. PICK mid : mid = [canvas EXCEPT !.project = p, !.revision = r, !.actions = first]
  OBVIOUS
<1>5. mid \in AaCanvases /\ mid.actions = first /\ mid.project = p /\ mid.revision = r
  BY <1>2, <1>3, <1>4 DEF AaCanvases
<1>6. AaCanvasOK(store, mid)
  BY <1>1, <1>5, AaLoadedly
<1>7. AaPlain("refresh") \in AaAction /\ AaPlain("refresh").action # "loaded"
  BY AaPlains
<1>8. actions \in Seq(AaAction) /\ actions = Append(first, AaPlain("refresh"))
  BY <1>1, <1>3, <1>7
<1>9. later \in AaCanvases /\ later.actions = actions /\ later.project = p /\ later.revision = r
  BY <1>2, <1>8 DEF AaCanvases
<1> QED BY <1>5, <1>6, <1>7, <1>8, <1>9, AaPlainly

\* A project that is saved takes an id nobody has.
LEMMA AaSaveKeeps ==
  ASSUME NEW store \in AaStores, NEW canvas \in AaCanvases, AaCanvasOK(store, canvas), AaNewId(store) # {}
  PROVE  AaToolKeeps(store, AaSave(canvas, store))
<1>2. PICK p : p = CHOOSE q \in AaNewId(store) : TRUE
  OBVIOUS
<1>3. p \in AaNewId(store)
  BY <1>2
<1>4. p \in AaProjects
  BY <1>3 DEF AaNewId
<1>5. PICK later : later = AaPut(store, p, 1, canvas.design)
  OBVIOUS
<1>6. later \in AaStores /\ AaGrows(store, later) /\ AaKnown(later, p, 1)
  <2>1. canvas.design \in 0..AaTurns /\ 1 \in Nat
    BY DEF AaCanvases
  <2> QED BY <1>4, <1>5, <2>1, AaStoring
<1>7. PICK drawn : drawn = [canvas EXCEPT !.project = p, !.revision = 1,
        !.actions = Append(Append(canvas.actions, AaLoadedAction(p, 1)), AaPlain("refresh"))]
  OBVIOUS
<1>8. drawn \in AaCanvases /\ AaCanvasOK(later, drawn)
  <2>1. AaCanvasOK(later, canvas)
    BY <1>6, AaStaysRight
  <2> QED BY <1>4, <1>6, <1>7, <2>1, AaSaves
<1>9. AaSave(canvas, store) = AaDid(drawn, later)
  <2>1. [AaActs(AaActs(canvas, AaLoadedAction(p, 1)), AaPlain("refresh")) EXCEPT !.project = p, !.revision = 1]
          = drawn
    BY <1>7 DEF AaActs, AaCanvases
  <2> QED BY <1>2, <1>5, <2>1 DEF AaSave
<1> QED BY <1>6, <1>8, <1>9 DEF AaToolKeeps, AaDid

\* A tool that does nothing, or fails.
LEMMA AaNothingDone ==
  ASSUME NEW store \in AaStores, NEW canvas \in AaCanvases, AaCanvasOK(store, canvas)
  PROVE  AaToolKeeps(store, AaDid(canvas, store)) /\ AaToolKeeps(store, AaError(canvas, store))
<1>1. AaGrows(store, store)
  BY DEF AaGrows, AaStores, AaRow
<1> QED BY <1>1 DEF AaToolKeeps, AaDid, AaError

\* An update is of the revision that was loaded, and stores the next one.
LEMMA AaUpdateKeeps ==
  ASSUME NEW store \in AaStores, NEW canvas \in AaCanvases, AaCanvasOK(store, canvas), NEW p \in AaProjects
  PROVE  AaToolKeeps(store, AaUpdate(canvas, store, p))
<1>1. CASE canvas.project # p \/ ~AaExists(store, p) \/ store[p].revision # canvas.revision
  BY <1>1, AaNothingDone DEF AaUpdate
<1>2. CASE ~(canvas.project # p \/ ~AaExists(store, p) \/ store[p].revision # canvas.revision)
  <2>1. PICK r \in Nat : r = canvas.revision + 1
    BY DEF AaCanvases
  <2>2. PICK later : later = AaPut(store, p, r, canvas.design)
    OBVIOUS
  <2>3. later \in AaStores /\ AaGrows(store, later) /\ AaKnown(later, p, r)
    <3>1. canvas.design \in 0..AaTurns /\ r # 0
      BY <2>1 DEF AaCanvases
    <3> QED BY <2>2, <3>1, AaStoring
  <2>4. PICK drawn : drawn = [canvas EXCEPT !.project = p, !.revision = r,
          !.actions = Append(Append(canvas.actions, AaLoadedAction(p, r)), AaPlain("refresh"))]
    OBVIOUS
  <2>5. drawn \in AaCanvases /\ AaCanvasOK(later, drawn)
    <3>1. AaCanvasOK(later, canvas)
      BY <2>3, AaStaysRight
    <3> QED BY <2>3, <2>4, <3>1, AaSaves
  <2>6. AaUpdate(canvas, store, p) = AaDid(drawn, later)
    <3>1. [AaActs(AaActs(canvas, AaLoadedAction(p, r)), AaPlain("refresh")) EXCEPT !.revision = r] = drawn
      BY <1>2, <2>4 DEF AaActs, AaCanvases
    <3> QED BY <1>2, <2>1, <2>2, <3>1 DEF AaUpdate
  <2> QED BY <2>3, <2>5, <2>6 DEF AaToolKeeps, AaDid
<1> QED BY <1>1, <1>2

\* Every tool the model may ask for.
LEMMA AaExecutes ==
  ASSUME NEW store \in AaStores, NEW canvas \in AaCanvases, AaCanvasOK(store, canvas),
         NEW call \in AaTools, NEW turn \in Turns
  PROVE  AaToolKeeps(store, AaExecute(call, canvas, store, turn))
<1>1. /\ call.to \in Int
      /\ call.tool \in {"load", "update", "delete"} => call.to \in AaProjects
  BY AiAssumption
<1>2. ASSUME NEW c \in AaCanvases, AaCanvasOK(store, c) PROVE AaToolKeeps(store, AaDid(c, store))
  BY <1>2, AaNothingDone
<1>3. CASE call.tool = "draw"
  BY <1>1, <1>2, <1>3, AaDraws DEF AaExecute
<1>4. CASE call.tool = "page"
  BY <1>1, <1>2, <1>4, AaDraws DEF AaExecute
<1>5. CASE call.tool = "clear"
  BY <1>1, <1>2, <1>5, AaDraws DEF AaExecute
<1>6. CASE call.tool = "load"
  <2>1. AaExecute(call, canvas, store, turn) =
          IF ~AaExists(store, call.to) THEN AaError(canvas, store) ELSE AaDid(AaLoad(store, call.to), store)
    BY <1>6 DEF AaExecute
  <2> QED BY <1>1, <1>6, <2>1, AaNothingDone, AaLoads
<1>7. CASE call.tool = "save"
  <2>1. AaExecute(call, canvas, store, turn) =
          IF AaNewId(store) = {} THEN AaError(canvas, store) ELSE AaSave(canvas, store)
    BY <1>7 DEF AaExecute
  <2> QED BY <2>1, AaNothingDone, AaSaveKeeps
<1>8. CASE call.tool = "update"
  <2>1. AaExecute(call, canvas, store, turn) = AaUpdate(canvas, store, call.to)
    BY <1>8 DEF AaExecute
  <2> QED BY <1>1, <1>8, <2>1, AaUpdateKeeps
<1>9. CASE call.tool = "delete"
  <2>1. AaExecute(call, canvas, store, turn) =
          IF ~AaExists(store, call.to) THEN AaError(canvas, store)
          ELSE AaDid(AaReview(canvas, "deletion_review"), store)
    BY <1>9 DEF AaExecute
  <2>2. AaReview(canvas, "deletion_review") \in AaCanvases
        /\ AaCanvasOK(store, AaReview(canvas, "deletion_review"))
    BY AaActsPlainly DEF AaReview
  <2> QED BY <1>2, <2>1, <2>2, AaNothingDone
<1>10. CASE call.tool = "print"
  <2>1. AaExecute(call, canvas, store, turn) = AaDid(AaActs(canvas, AaPlain("print_review")), store)
    BY <1>10 DEF AaExecute
  <2> QED BY <1>2, <2>1, AaActsPlainly
<1>11. CASE call.tool \in {"folder", "bounds"}
  <2>1. AaExecute(call, canvas, store, turn) = AaDid(AaActs(canvas, AaPlain("refresh")), store)
    BY <1>11 DEF AaExecute
  <2> QED BY <1>2, <2>1, AaActsPlainly
<1>12. CASE call.tool \in {"list", "preview"}
  <2>1. AaExecute(call, canvas, store, turn) = AaDid(canvas, store)
    BY <1>12 DEF AaExecute
  <2> QED BY <2>1, AaNothingDone
<1>13. CASE call.tool \notin {"draw", "page", "clear", "load", "save", "update", "delete", "print",
                              "folder", "bounds", "list", "preview"}
  <2>1. AaExecute(call, canvas, store, turn) = AaError(canvas, store)
    BY <1>13 DEF AaExecute
  <2> QED BY <2>1, AaNothingDone
<1> QED BY <1>3, <1>4, <1>5, <1>6, <1>7, <1>8, <1>9, <1>10, <1>11, <1>12, <1>13

\* Nothing is asked, and the tab has the first project open.
LEMMA AaInitHolds == AaInit => AaInv
<1> SUFFICES ASSUME AaInit PROVE AaInv
  OBVIOUS
<1> USE AiAssumption
<1>1. AaFirst # AaNone /\ AaFirst \in AaProjects /\ 0 \in 0..AaTurns /\ 1 \in Nat
  OBVIOUS
<1>2. aaStore \in AaStores /\ AaKnown(aaStore, AaFirst, 1)
  <2>1. PICK none : none = [p \in AaProjects |-> AaAbsent]
    OBVIOUS
  <2>2. none \in AaStores
    BY <1>1, <2>1 DEF AaStores, AaRow, AaAbsent
  <2> QED BY <1>1, <2>1, <2>2, AaStoring DEF AaInit
<1>3. AaNoTask \in AaTasks
  BY DEF AaNoTask, AaTasks, AaConv, Turns
<1>4. aaTab \in AaTabs
  BY <1>3 DEF AaInit, AaTabs, AaConv, AaProject
<1>5. AaCanvas(0, AaNone, 0) \in AaCanvases /\ AaCanvasOK(aaStore, AaCanvas(0, AaNone, 0))
  <2>1. 0 \in 0..AaTurns /\ 0 \in Nat /\ AaNone \in AaProject /\ AaKnown(aaStore, AaNone, 0)
    BY DEF AaKnown, AaProject
  <2> QED BY <2>1, AaFresh
<1>6. AaIdle \in AaChat /\ AaIdle.canvas = AaCanvas(0, AaNone, 0) /\ AaIdle.phase = "idle"
  <2>1. <<>> \in Seq(AaTools)
    OBVIOUS
  <2> QED BY <1>5, <2>1 DEF AaIdle, AaChat
<1>7. AaTypeOK
  <2>1. /\ aaStore \in [AaProjects -> [revision : Nat, design : 0..AaTurns, last : Nat]]
        /\ \A p \in AaProjects : aaStore[p].revision <= aaStore[p].last
    BY <1>2 DEF AaStores, AaRow
  <2>2. /\ aaNet \subseteq AaLetters /\ aaOwn \subseteq Turns /\ aaTurn \in 0..AaTurns /\ aaLeft \in Nat
        /\ aaStored \in [AaConvs -> (SUBSET Turns) \cup {AaNone, AaGone}]
    BY DEF AaInit
  <2>3. aaChats \in [Turns -> AaChat]
    BY <1>6 DEF AaInit
  <2> QED BY <1>4, <2>1, <2>2, <2>3 DEF AaTypeOK
<1>8. AaCanvasInv
  BY <1>5, <1>6 DEF AaInit, AaCanvasInv
<1>9. AaChatsApart /\ AaChatInv /\ AaRevisionIsStored
  BY <1>1, <1>2 DEF AaInit, AaChatsApart, AaChatInv, AaRevisionIsStored, AaNoTask, AaKnown
<1> QED BY <1>7, <1>8, <1>9 DEF AaInv

\* A letter whose canvas is right.
AaLetterOK(store, r) == r \in AaLetters /\ AaCanvasOK(store, r.canvas)

\* The server's work on a turn: it runs the calls it has.
AaServing(store, chat) ==
  /\ chat \in AaChat /\ AaCanvasOK(store, chat.canvas)
  /\ chat.phase = "running" => chat.calls # <<>>

\* What a step has to show.
LEMMA AaMoves ==
  ASSUME AaInv, aaStore' \in AaStores, AaGrows(aaStore, aaStore'),
         aaStored' \in [AaConvs -> (SUBSET Turns) \cup {AaNone, AaGone}],
         aaOwn' \subseteq Turns, aaTurn' \in 0..AaTurns, aaLeft' \in Nat,
         aaTab' \in AaTabs, aaTab'.messages = aaOwn', AaChatInv',
         AaKnown(aaStore', aaTab'.project, aaTab'.revision),
         \A r \in aaNet' : r \in aaNet \/ AaLetterOK(aaStore', r),
         DOMAIN aaChats' = Turns, aaChats' = [t \in Turns |-> aaChats'[t]],
         \A t \in Turns : \/ aaChats'[t] = aaChats[t]
                          \/ AaServing(aaStore', aaChats'[t])
  PROVE  AaInv'
<1>1. aaStore \in AaStores /\ aaNet \subseteq AaLetters /\ aaChats \in [Turns -> AaChat]
  BY DEF AaInv, AaTypeOK, AaStores, AaRow
<1>2. ASSUME NEW r \in aaNet' PROVE r \in AaLetters /\ AaCanvasOK(aaStore', r.canvas)
  <2>1. CASE r \in aaNet
    <3>1. r.canvas \in AaCanvases /\ AaCanvasOK(aaStore, r.canvas)
      BY <1>1, <2>1 DEF AaInv, AaCanvasInv, AaLetters
    <3> QED BY <1>1, <2>1, <3>1, AaStaysRight
  <2> QED BY <1>2, <2>1 DEF AaLetterOK
<1>3. ASSUME NEW t \in Turns PROVE AaServing(aaStore', aaChats'[t])
  <2>1. CASE aaChats'[t] = aaChats[t]
    <3>1. aaChats[t].canvas \in AaCanvases /\ AaCanvasOK(aaStore, aaChats[t].canvas)
      BY <1>1 DEF AaInv, AaCanvasInv, AaChat
    <3>2. aaChats[t].phase = "running" => aaChats[t].calls # <<>>
      BY DEF AaInv, AaCanvasInv
    <3> QED BY <1>1, <2>1, <3>1, <3>2, AaStaysRight DEF AaServing
  <2> QED BY <1>3, <2>1
<1>4. AaTypeOK'
  BY <1>2, <1>3 DEF AaTypeOK, AaStores, AaRow, AaServing
<1>5. AaCanvasInv'
  BY <1>2, <1>3 DEF AaCanvasInv, AaServing
<1>6. AaRevisionIsStored' /\ AaChatsApart'
  BY DEF AaRevisionIsStored, AaChatsApart, AaKnown
<1> QED BY <1>4, <1>5, <1>6 DEF AaInv

\* What stays of the tab while the server works, and the fields by name.
LEMMA AaFields ==
  ASSUME AaInv
  PROVE  /\ aaTab \in AaTabs /\ aaNet \subseteq AaLetters /\ aaStore \in AaStores
         /\ aaChats \in [Turns -> AaChat] /\ aaStored \in [AaConvs -> (SUBSET Turns) \cup {AaNone, AaGone}]
         /\ aaOwn \subseteq Turns /\ aaTurn \in 0..AaTurns /\ aaLeft \in Nat
         /\ aaTab.messages = aaOwn /\ AaChatInv /\ AaKnown(aaStore, aaTab.project, aaTab.revision)
         /\ AaGrows(aaStore, aaStore) /\ aaChats = [t \in Turns |-> aaChats[t]] /\ DOMAIN aaChats = Turns
         /\ \A r \in aaNet : AaLetterOK(aaStore, r)
         /\ \A t \in Turns : AaServing(aaStore, aaChats[t])
<1>1. /\ aaTab \in AaTabs /\ aaNet \subseteq AaLetters /\ aaStore \in AaStores
      /\ aaChats \in [Turns -> AaChat] /\ aaStored \in [AaConvs -> (SUBSET Turns) \cup {AaNone, AaGone}]
      /\ aaOwn \subseteq Turns /\ aaTurn \in 0..AaTurns /\ aaLeft \in Nat
  BY DEF AaInv, AaTypeOK, AaStores, AaRow
<1>2. aaTab.messages = aaOwn /\ AaChatInv /\ AaKnown(aaStore, aaTab.project, aaTab.revision)
  BY DEF AaInv, AaChatsApart, AaRevisionIsStored, AaKnown
<1>3. AaGrows(aaStore, aaStore)
  BY <1>1 DEF AaGrows, AaStores, AaRow
<1>4. /\ \A r \in aaNet : AaLetterOK(aaStore, r)
      /\ \A t \in Turns : AaServing(aaStore, aaChats[t])
  BY <1>1 DEF AaInv, AaCanvasInv, AaLetterOK, AaServing
<1> QED BY <1>1, <1>2, <1>3, <1>4

\* The server works: the tab stays as it is, and what it sends is right.
LEMMA AaServerMoves ==
  ASSUME AaInv, UNCHANGED <<aaTab, aaOwn, aaTurn>>, aaLeft' \in Nat,
         aaStore' \in AaStores, AaGrows(aaStore, aaStore'),
         aaStored' \in [AaConvs -> (SUBSET Turns) \cup {AaNone, AaGone}],
         \A r \in aaNet' : r \in aaNet \/ AaLetterOK(aaStore', r),
         NEW t \in Turns, NEW chat, chat = aaChats[t] \/ AaServing(aaStore', chat),
         aaChats' = [aaChats EXCEPT ![t] = chat]
  PROVE  AaInv'
<1>1. /\ DOMAIN aaChats' = Turns /\ aaChats' = [s \in Turns |-> aaChats'[s]]
      /\ \A s \in Turns : \/ aaChats'[s] = aaChats[s]
                          \/ AaServing(aaStore', aaChats'[s])
  <2>1. aaChats \in [Turns -> AaChat]
    BY AaFields
  <2> QED BY <2>1
<1>2. AaKnown(aaStore', aaTab'.project, aaTab'.revision)
  <2>1. aaTab.project \in AaProject /\ aaTab.revision \in Nat /\ aaStore \in AaStores
        /\ AaKnown(aaStore, aaTab.project, aaTab.revision)
    BY AaFields DEF AaTabs
  <2> QED BY <2>1 DEF AaKnown, AaGrows, AaProject, AaStores, AaRow
<1>3. AaChatInv' /\ aaTab'.messages = aaOwn' /\ aaTab' \in AaTabs /\ aaOwn' \subseteq Turns /\ aaTurn' \in 0..AaTurns
  BY AaFields DEF AaChatInv
<1> QED BY <1>1, <1>2, <1>3, AaMoves

\* The tab moves: the server and the projects stay as they are.
LEMMA AaTabMoves ==
  ASSUME AaInv, UNCHANGED <<aaChats, aaStore>>,
         aaStored' \in [AaConvs -> (SUBSET Turns) \cup {AaNone, AaGone}],
         aaOwn' \subseteq Turns, aaTurn' \in 0..AaTurns, aaLeft' \in Nat,
         aaTab' \in AaTabs, aaTab'.messages = aaOwn', AaChatInv',
         AaKnown(aaStore, aaTab'.project, aaTab'.revision),
         \A r \in aaNet' : r \in aaNet \/ AaLetterOK(aaStore, r)
  PROVE  AaInv'
<1>1. /\ aaStore' \in AaStores /\ AaGrows(aaStore, aaStore')
      /\ AaKnown(aaStore', aaTab'.project, aaTab'.revision)
      /\ \A r \in aaNet' : r \in aaNet \/ AaLetterOK(aaStore', r)
  BY AaFields
<1>2. DOMAIN aaChats' = Turns /\ aaChats' = [t \in Turns |-> aaChats'[t]]
      /\ \A t \in Turns : aaChats'[t] = aaChats[t]
  BY AaFields
<1> QED BY <1>1, <1>2, AaMoves

\* A conversation is created, or its messages are stored.
LEMMA AaServeInv ==
  ASSUME AaInv, NEW r \in aaNet, AaServeCreate(r) \/ AaServePut(r)
  PROVE  AaInv'
<1>1. AaLetterOK(aaStore, r) /\ r \in AaLetters
  BY AaFields
<1>2. /\ r.messages \in SUBSET Turns /\ r.turn \in Turns
      /\ aaStored \in [AaConvs -> (SUBSET Turns) \cup {AaNone, AaGone}]
  BY <1>1, AaFields DEF AaLetters
<1>3. ASSUME NEW c \in AaConv, NEW kind \in {"created", "kept"}, NEW x,
             x = [r EXCEPT !.kind = kind, !.conv = c] \/ x = [r EXCEPT !.kind = kind]
      PROVE  AaLetterOK(aaStore, x)
  BY <1>1, <1>3 DEF AaLetterOK, AaLetters
<1>4. UNCHANGED <<aaTab, aaChats, aaStore, aaOwn, aaTurn, aaLeft>>
  BY DEF AaServeCreate, AaServePut
<1>5. /\ aaStored' \in [AaConvs -> (SUBSET Turns) \cup {AaNone, AaGone}]
      /\ \A x \in aaNet' : x \in aaNet \/ AaLetterOK(aaStore, x)
  <2>1. CASE AaServeCreate(r)
    <3>1. PICK c \in AaConvs :
            /\ aaStored' = [aaStored EXCEPT ![c] = r.messages]
            /\ aaNet' = (aaNet \ {r}) \cup {[r EXCEPT !.kind = "created", !.conv = c]}
      BY <2>1 DEF AaServeCreate
    <3>2. c \in AaConv
      BY DEF AaConv
    <3> QED BY <1>2, <1>3, <3>1, <3>2
  <2>2. CASE AaServePut(r)
    <3>1. AaNone \in AaConv
      BY DEF AaConv
    <3>2. /\ aaStored' = aaStored \/ aaStored' = [aaStored EXCEPT ![r.conv] = r.messages]
          /\ aaNet' = (aaNet \ {r}) \cup {[r EXCEPT !.kind = "kept"]}
      BY <2>2 DEF AaServePut
    <3> QED BY <1>2, <1>3, <3>1, <3>2
  <2> QED BY <2>1, <2>2
<1>6. PICK t \in Turns : t = r.turn
  BY <1>2
<1>7. aaChats' = [aaChats EXCEPT ![t] = aaChats[t]]
  BY <1>4, AaFields
<1>8. aaStore' \in AaStores /\ AaGrows(aaStore, aaStore') /\ aaLeft' \in Nat
      /\ \A x \in aaNet' : x \in aaNet \/ AaLetterOK(aaStore', x)
  BY <1>4, <1>5, AaFields
<1> QED BY <1>4, <1>5, <1>6, <1>7, <1>8, AaServerMoves

\* A chat, or calls that come with the request, begin with its canvas.
LEMMA AaChatBegins ==
  ASSUME AaInv, NEW r \in aaNet, AaServeChat(r) \/ AaServeManual(r)
  PROVE  AaInv'
<1>1. AaLetterOK(aaStore, r) /\ r.turn \in Turns /\ r.canvas \in AaCanvases /\ AaCanvasOK(aaStore, r.canvas)
  BY AaFields DEF AaLetters, AaLetterOK
<1>2. PICK chat : /\ aaChats' = [aaChats EXCEPT ![r.turn] = chat]
                  /\ chat \in AaChat /\ chat.canvas = r.canvas
                  /\ chat.phase = "running" => chat.calls # <<>>
  <2>1. CASE AaServeChat(r)
    <3>1. PICK chat : chat = [AaIdle EXCEPT !.phase = "asking", !.canvas = r.canvas]
      OBVIOUS
    <3>2. <<>> \in Seq(AaTools)
      OBVIOUS
    <3>3. chat \in AaChat /\ chat.canvas = r.canvas /\ chat.phase # "running"
      BY <1>1, <3>1, <3>2 DEF AaIdle, AaChat
    <3> QED BY <2>1, <3>1, <3>3 DEF AaServeChat
  <2>2. CASE AaServeManual(r)
    <3>1. PICK call \in AaTools :
            aaChats' = [aaChats EXCEPT ![r.turn] =
              [AaIdle EXCEPT !.phase = "running", !.canvas = r.canvas, !.calls = <<call>>,
                             !.iteration = AaIterations, !.manual = TRUE]]
      BY <2>2 DEF AaServeManual
    <3>2. PICK chat : chat = [AaIdle EXCEPT !.phase = "running", !.canvas = r.canvas, !.calls = <<call>>,
                             !.iteration = AaIterations, !.manual = TRUE]
      OBVIOUS
    <3>3. <<call>> \in Seq(AaTools)
      OBVIOUS
    <3>4. chat \in AaChat /\ chat.canvas = r.canvas /\ chat.calls # <<>>
      BY <1>1, <3>2, <3>3, AiAssumption DEF AaIdle, AaChat
    <3> QED BY <3>1, <3>2, <3>4
  <2> QED BY <2>1, <2>2
<1>3. UNCHANGED <<aaTab, aaStore, aaStored, aaOwn, aaTurn, aaLeft>> /\ aaNet' = aaNet \ {r}
  BY DEF AaServeChat, AaServeManual, AaOther
<1>4. PICK t \in Turns : t = r.turn
  BY <1>1
<1>5. /\ aaStore' \in AaStores /\ AaGrows(aaStore, aaStore') /\ aaLeft' \in Nat
      /\ aaStored' \in [AaConvs -> (SUBSET Turns) \cup {AaNone, AaGone}]
      /\ \A x \in aaNet' : x \in aaNet \/ AaLetterOK(aaStore', x)
  BY <1>3, AaFields
<1>6. aaChats' = [aaChats EXCEPT ![t] = chat] /\ AaServing(aaStore', chat)
  BY <1>1, <1>2, <1>3, <1>4 DEF AaServing
<1> QED BY <1>2, <1>3, <1>5, <1>6, AaServerMoves

\* A reply carries its canvas.
LEMMA AaReplies ==
  ASSUME NEW store, NEW t \in Turns, NEW kind \in {"answer", "failed"}, NEW canvas \in AaCanvases,
         AaCanvasOK(store, canvas)
  PROVE  AaLetterOK(store, [kind |-> kind, turn |-> t, conv |-> AaNone, messages |-> {}, canvas |-> canvas])
BY DEF AaLetterOK, AaLetters, AaConv

\* A server at rest.
LEMMA AaIdles ==
  ASSUME NEW store
  PROVE  AaIdle \in AaChat /\ AaCanvasOK(store, AaIdle.canvas)
         /\ AaCanvas(0, AaNone, 0) \in AaCanvases /\ AaCanvasOK(store, AaCanvas(0, AaNone, 0))
<1>1. 0 \in 0..AaTurns /\ 0 \in Nat /\ AaNone \in AaProject /\ AaKnown(store, AaNone, 0)
  BY AiAssumption DEF AaKnown, AaProject
<1>2. AaCanvas(0, AaNone, 0) \in AaCanvases /\ AaCanvasOK(store, AaCanvas(0, AaNone, 0))
  BY <1>1, AaFresh
<1>3. <<>> \in Seq(AaTools)
  OBVIOUS
<1> QED BY <1>2, <1>3 DEF AaIdle, AaChat

\* The completion fails, or answers, or asks for tools.
LEMMA AaCompletionInv ==
  ASSUME AaInv, NEW t \in Turns, AaCompletes(t) \/ AaChatFails(t)
  PROVE  AaInv'
<1>1. /\ aaChats[t] \in AaChat /\ aaChats[t].canvas \in AaCanvases /\ AaCanvasOK(aaStore, aaChats[t].canvas)
  BY AaFields DEF AaChat, AaServing
<1>2. UNCHANGED <<aaTab, aaStore, aaStored, aaOwn, aaTurn>> /\ aaLeft' \in Nat
  <2>1. aaLeft \in Nat
    BY AaFields
  <2>2. CASE AaCompletes(t)
    BY <2>1, <2>2 DEF AaCompletes, AaOther
  <2>3. CASE AaChatFails(t)
    BY <2>1, <2>3 DEF AaChatFails, AaOther
  <2> QED BY <2>2, <2>3
<1>3. /\ aaStore' \in AaStores /\ AaGrows(aaStore, aaStore')
      /\ aaStored' \in [AaConvs -> (SUBSET Turns) \cup {AaNone, AaGone}]
  BY <1>2, AaFields
<1>4. CASE \E kind \in {"answer", "failed"}, canvas \in {aaChats[t].canvas, AaCanvas(0, AaNone, 0)} :
             AaReply(t, kind, canvas) /\ aaChats' = [aaChats EXCEPT ![t] = AaIdle]
  <2>1. PICK kind \in {"answer", "failed"}, canvas \in {aaChats[t].canvas, AaCanvas(0, AaNone, 0)} :
             AaReply(t, kind, canvas) /\ aaChats' = [aaChats EXCEPT ![t] = AaIdle]
    BY <1>4
  <2>2. canvas \in AaCanvases /\ AaCanvasOK(aaStore, canvas)
    BY <1>1, AaIdles
  <2>3. \A x \in aaNet' : x \in aaNet \/ AaLetterOK(aaStore', x)
    BY <1>2, <2>1, <2>2, AaReplies DEF AaReply
  <2>4. AaServing(aaStore', AaIdle)
    BY AaIdles DEF AaServing, AaIdle
  <2> QED BY <1>2, <1>3, <2>1, <2>3, <2>4, AaServerMoves
<1>5. CASE /\ AaCompletes(t) /\ UNCHANGED aaNet
           /\ \E k \in 1..AaReplyCalls : \E calls \in [1..k -> AaTools] :
                aaChats' = [aaChats EXCEPT ![t].phase = "running", ![t].calls = calls, ![t].iteration = @ + 1]
  <2>1. PICK k \in 1..AaReplyCalls : \E calls \in [1..k -> AaTools] :
          aaChats' = [aaChats EXCEPT ![t].phase = "running", ![t].calls = calls, ![t].iteration = @ + 1]
    BY <1>5
  <2>2. PICK calls \in [1..k -> AaTools] :
          aaChats' = [aaChats EXCEPT ![t].phase = "running", ![t].calls = calls, ![t].iteration = @ + 1]
    BY <2>1
  <2>3. k \in Nat /\ calls \in Seq(AaTools)
    BY <2>2
  <2>4. PICK chat : chat = [aaChats[t] EXCEPT !.phase = "running", !.calls = calls, !.iteration = @ + 1]
    OBVIOUS
  <2>5. chat \in AaChat /\ chat.canvas = aaChats[t].canvas
    <3>1. PICK s \in Seq(AaTools), n \in Nat : s = calls /\ n = aaChats[t].iteration + 1
      BY <1>1, <2>3 DEF AaChat
    <3>2. chat = [aaChats[t] EXCEPT !.phase = "running", !.calls = s, !.iteration = n]
      BY <2>4, <3>1
    <3> QED BY <1>1, <3>2 DEF AaChat
  <2>6. aaChats' = [aaChats EXCEPT ![t] = chat]
    BY <2>2, <2>4, AaFields DEF AaChat
  <2>7. \A x \in aaNet' : x \in aaNet \/ AaLetterOK(aaStore', x)
    BY <1>5
  <2>8. AaServing(aaStore', chat)
    <3>1. chat.calls = calls /\ calls # <<>>
      BY <1>1, <2>1, <2>2, <2>4 DEF AaChat
    <3> QED BY <1>1, <1>2, <2>5, <3>1 DEF AaServing
  <2> QED BY <1>2, <1>3, <2>5, <2>6, <2>7, <2>8, AaServerMoves
<1> QED BY <1>4, <1>5 DEF AaCompletes, AaChatFails

\* What is left of more calls than one.
LEMMA LaterCalls ==
  ASSUME NEW S, NEW q \in Seq(S), Len(q) > 1
  PROVE  Tail(q) \in Seq(S) /\ Tail(q) # <<>>
<1>1. q # <<>> /\ Len(q) \in Nat
  BY EmptySeq
<1>2. Tail(q) \in Seq(S) /\ Len(Tail(q)) = Len(q) - 1
  BY <1>1, HeadTailProperties
<1>3. Len(Tail(q)) # 0
  BY <1>1, <1>2
<1>4. Tail(q) # <<>>
  <2>1. Len(<<>>) = 0
    OBVIOUS
  <2> QED BY <1>3, <2>1
<1> QED BY <1>2, <1>4

\* A tool runs: the projects grow, and what goes on is right by them.
LEMMA AaRunsInv ==
  ASSUME AaInv, NEW t \in Turns, AaRuns(t)
  PROVE  AaInv'
<1>1. /\ aaChats[t] \in AaChat /\ aaChats[t].canvas \in AaCanvases /\ AaCanvasOK(aaStore, aaChats[t].canvas)
      /\ aaStore \in AaStores /\ aaChats[t].calls \in Seq(AaTools) /\ aaChats[t].calls # <<>>
  BY AaFields DEF AaChat, AaServing, AaRuns
<1>2. PICK call, done : call = Head(aaChats[t].calls)
                        /\ done = AaExecute(call, aaChats[t].canvas, aaStore, t)
  OBVIOUS
<1>3. PICK canvas, preview :
        /\ preview = (aaChats[t].preview \/ call.tool = "preview")
        /\ canvas = IF preview /\ Len(aaChats[t].calls) = 1 /\ ~aaChats[t].manual
                    THEN AaActs(done.canvas, AaPlain("preview")) ELSE done.canvas
  OBVIOUS
<1>4. /\ aaStore' = done.store
      /\ \/ /\ aaChats' = [aaChats EXCEPT ![t].calls = Tail(@), ![t].canvas = canvas, ![t].preview = preview]
            /\ Len(aaChats[t].calls) > 1 /\ UNCHANGED aaNet
         \/ aaChats' = [aaChats EXCEPT ![t] = AaIdle] /\ AaReply(t, "answer", canvas)
         \/ /\ aaChats' = [aaChats EXCEPT ![t].calls = <<>>, ![t].canvas = canvas, ![t].phase = "asking"]
            /\ UNCHANGED aaNet
      /\ UNCHANGED <<aaTab, aaLeft, aaStored, aaOwn, aaTurn>>
  BY <1>2, <1>3 DEF AaRuns, AaOther
<1>5. /\ aaStore' \in AaStores /\ AaGrows(aaStore, aaStore')
      /\ done.canvas \in AaCanvases /\ AaCanvasOK(aaStore', done.canvas)
  <2>1. Len(aaChats[t].calls) > 0
    BY <1>1
  <2>2. call \in AaTools
    BY <1>1, <1>2, <2>1
  <2> QED BY <1>1, <1>2, <1>4, <2>2, AaExecutes DEF AaToolKeeps
<1>6. canvas \in AaCanvases /\ AaCanvasOK(aaStore', canvas)
  BY <1>3, <1>5, AaActsPlainly
<1>7. /\ aaLeft' \in Nat /\ aaStored' \in [AaConvs -> (SUBSET Turns) \cup {AaNone, AaGone}]
      /\ \A x \in aaNet' : x \in aaNet \/ AaLetterOK(aaStore', x)
  BY <1>4, <1>6, AaFields, AaReplies DEF AaReply
<1>8. PICK chat : AaServing(aaStore', chat) /\ aaChats' = [aaChats EXCEPT ![t] = chat]
  <2>1. CASE /\ aaChats' = [aaChats EXCEPT ![t].calls = Tail(@), ![t].canvas = canvas, ![t].preview = preview]
             /\ Len(aaChats[t].calls) > 1
    <3>1. PICK s : s = Tail(aaChats[t].calls)
      OBVIOUS
    <3>6. s \in Seq(AaTools) /\ s # <<>>
      BY <1>1, <2>1, <3>1, LaterCalls
    <3>2. PICK chat : chat = [aaChats[t] EXCEPT !.calls = s, !.canvas = canvas, !.preview = preview]
      OBVIOUS
    <3>3. preview \in BOOLEAN
      BY <1>3
    <3>4. chat \in AaChat /\ chat.canvas = canvas /\ chat.calls # <<>>
      BY <1>1, <1>6, <3>2, <3>3, <3>6 DEF AaChat
    <3>5. aaChats' = [aaChats EXCEPT ![t] = chat]
      BY <2>1, <3>1, <3>2, AaFields DEF AaChat
    <3> QED BY <1>6, <3>4, <3>5 DEF AaServing
  <2>2. CASE aaChats' = [aaChats EXCEPT ![t] = AaIdle]
    BY <2>2, AaIdles DEF AaServing, AaIdle
  <2>3. CASE aaChats' = [aaChats EXCEPT ![t].calls = <<>>, ![t].canvas = canvas, ![t].phase = "asking"]
    <3>1. PICK chat : chat = [aaChats[t] EXCEPT !.calls = <<>>, !.canvas = canvas, !.phase = "asking"]
      OBVIOUS
    <3>2. <<>> \in Seq(AaTools)
      OBVIOUS
    <3>3. chat \in AaChat /\ chat.canvas = canvas /\ chat.phase # "running"
      BY <1>1, <1>6, <3>1, <3>2 DEF AaChat
    <3>4. aaChats' = [aaChats EXCEPT ![t] = chat]
      BY <2>3, <3>1, AaFields DEF AaChat
    <3> QED BY <1>6, <3>3, <3>4 DEF AaServing
  <2> QED BY <1>4, <2>1, <2>2, <2>3
<1>9. UNCHANGED <<aaTab, aaOwn, aaTurn>>
  BY <1>4
<1> QED BY <1>5, <1>7, <1>8, <1>9, AaServerMoves

\* What another editor stores or deletes takes nothing back of what was stored.
LEMMA AaOthersInv ==
  ASSUME AaInv, NEW p \in AaProjects, AaOthers(p)
  PROVE  AaInv'
<1>1. /\ aaStore \in AaStores /\ UNCHANGED <<aaTab, aaNet, aaChats, aaStored, aaOwn, aaTurn>>
      /\ aaLeft' \in Nat
  BY AaFields DEF AaOthers, AaOther
<1>2. 0 \in 0..AaTurns /\ 1 \in Nat
  BY AiAssumption
<1>3. PICK r \in Nat : r = aaStore[p].revision + 1
  BY <1>1 DEF AaStores, AaRow
<1>4. aaStore' \in AaStores /\ AaGrows(aaStore, aaStore')
  <2>1. CASE aaStore' = AaPut(aaStore, p, r, 0) \/ aaStore' = AaPut(aaStore, p, 1, 0)
    <3>1. r # 0 /\ 1 # 0
      BY <1>1, <1>3 DEF AaStores, AaRow
    <3> QED BY <1>1, <1>2, <2>1, <3>1, AaStoring
  <2>2. CASE aaStore' = [aaStore EXCEPT ![p].revision = 0]
    BY <1>1, <2>2, AaRemoving
  <2> QED BY <1>3, <2>1, <2>2 DEF AaOthers
<1>5. /\ aaStored' \in [AaConvs -> (SUBSET Turns) \cup {AaNone, AaGone}]
      /\ \A x \in aaNet' : x \in aaNet
  BY <1>1, AaFields
<1>6. CASE Turns # {}
  <2>1. PICK t \in Turns : TRUE
    BY <1>6
  <2>2. aaChats' = [aaChats EXCEPT ![t] = aaChats[t]]
    BY <1>1, AaFields
  <2> QED BY <1>1, <1>4, <1>5, <2>2, AaServerMoves
<1>7. CASE Turns = {}
  <2>1. /\ aaTab' \in AaTabs /\ aaTab'.messages = aaOwn' /\ AaChatInv' /\ aaOwn' \subseteq Turns
        /\ aaTurn' \in 0..AaTurns /\ DOMAIN aaChats' = Turns /\ aaChats' = [t \in Turns |-> aaChats'[t]]
    BY <1>1, AaFields DEF AaChatInv
  <2>2. AaKnown(aaStore', aaTab'.project, aaTab'.revision)
    <3>1. aaTab.project \in AaProject /\ aaTab.revision \in Nat /\ AaKnown(aaStore, aaTab.project, aaTab.revision)
      BY AaFields DEF AaTabs
    <3> QED BY <1>1, <1>4, <3>1 DEF AaKnown, AaGrows, AaProject, AaStores, AaRow
  <2> QED BY <1>1, <1>4, <1>5, <1>7, <2>1, <2>2, AaMoves
<1> QED BY <1>6, <1>7

\* The fields of the tab and of its task.
LEMMA AaTabFields ==
  ASSUME AaInv
  PROVE  /\ aaTab.task \in AaTasks /\ aaTab.messages \in SUBSET Turns /\ aaTab.conv \in AaConv
         /\ aaTab.project \in AaProject /\ aaTab.revision \in Nat /\ aaTab.design \in 0..AaTurns
         /\ aaTab.edits \in Nat /\ aaTab.version \in Nat /\ aaTab.round \in Nat /\ aaTab.scheduled \in BOOLEAN
BY AaFields DEF AaTabs

\* A turn with nothing to wait for.
LEMMA AaNoTaskIs == AaNoTask \in AaTasks /\ AaNoTask.turn = 0
BY AiAssumption DEF AaNoTask, AaTasks, AaConv

\* What the tab sends is the canvas it shows.
LEMMA AaShown ==
  ASSUME AaInv
  PROVE  /\ AaCanvas(aaTab.design, aaTab.project, aaTab.revision) \in AaCanvases
         /\ AaCanvasOK(aaStore, AaCanvas(aaTab.design, aaTab.project, aaTab.revision))
BY AaFields, AaTabFields, AaFresh

\* A turn begins: its messages are those of the chat, which it is now in.
LEMMA AaBeginsInv ==
  ASSUME AaInv, NEW round \in Nat, NEW step \in {"create", "chat", "manual"}, AaBegins(round, step),
         NEW conv \in AaConv, NEW messages \in SUBSET Turns,
         aaNet' = aaNet \cup {AaRequest(step, conv, messages)}
  PROVE  AaInv'
<1>1. PICK turn, told :
        /\ turn = aaTurn + 1
        /\ told = IF step = "manual" THEN aaTab.messages ELSE aaTab.messages \cup {turn}
  OBVIOUS
<1>2. /\ turn \in Turns /\ turn \in 0..AaTurns /\ told \in SUBSET Turns /\ aaTurn' = turn
  <2>1. aaTurn \in 0..AaTurns /\ AaTurns \in Nat /\ aaTurn < AaTurns /\ aaTurn' = turn
    BY <1>1, AaFields, AiAssumption DEF AaBegins
  <2>2. turn \in Turns /\ turn \in 0..AaTurns
    BY <1>1, <2>1 DEF Turns
  <2> QED BY <1>1, <2>1, <2>2, AaTabFields
<1>3. PICK task : task = [turn |-> turn, step |-> step, edits |-> aaTab.edits,
                          version |-> aaTab.version, conv |-> aaTab.conv, messages |-> told]
  OBVIOUS
<1>4. task \in AaTasks
  BY <1>2, <1>3, AaTabFields DEF AaTasks
<1>5. aaTab' = [aaTab EXCEPT !.messages = told, !.round = round, !.scheduled = FALSE, !.task = task]
  BY <1>1, <1>3 DEF AaBegins
<1>6. /\ aaTab' \in AaTabs /\ aaTab'.messages = told /\ aaTab'.task = task /\ aaTab'.version = aaTab.version
      /\ aaTab'.project = aaTab.project /\ aaTab'.revision = aaTab.revision
  BY <1>2, <1>4, <1>5, AaFields DEF AaTabs
<1>7. aaOwn' = told
  BY <1>1, AaFields DEF AaBegins
<1>8. AaChatInv'
  BY <1>3, <1>6, AaTabFields DEF AaChatInv
<1>9. UNCHANGED <<aaChats, aaStore, aaStored, aaLeft>>
  BY DEF AaBegins
<1>10. AaLetterOK(aaStore, AaRequest(step, conv, messages))
  BY <1>1, <1>2, AaShown DEF AaRequest, AaLetterOK, AaLetters
<1>11. /\ aaStored' \in [AaConvs -> (SUBSET Turns) \cup {AaNone, AaGone}] /\ aaLeft' \in Nat
       /\ AaKnown(aaStore, aaTab'.project, aaTab'.revision)
  BY <1>6, <1>9, AaFields
<1> QED BY <1>2, <1>6, <1>7, <1>8, <1>9, <1>10, <1>11, AaTabMoves

\* A turn is sent, the user's or one for a preview, or calls by hand.
LEMMA AaSendInv ==
  ASSUME AaInv, AaSend \/ AaSendPreview \/ AaSendManual
  PROVE  AaInv'
<1>1. AaNone \in AaConv /\ aaTab.conv \in AaConv /\ {} \in SUBSET Turns /\ aaTab.messages \in SUBSET Turns
      /\ 0 \in Nat /\ aaTab.round + 1 \in Nat
  BY AaTabFields DEF AaConv
<1>2. ASSUME NEW round \in Nat, AaSends(round) PROVE AaInv'
  <2>1. CASE aaTab.conv = AaNone
    <3>1. AaBegins(round, "create") /\ aaNet' = aaNet \cup {AaRequest("create", AaNone, aaTab.messages)}
      BY <1>2, <2>1 DEF AaSends
    <3> QED BY <1>1, <3>1, AaBeginsInv
  <2>2. CASE aaTab.conv # AaNone
    <3>1. AaBegins(round, "chat") /\ aaNet' = aaNet \cup {AaRequest("chat", aaTab.conv, {})}
      BY <1>2, <2>2 DEF AaSends
    <3> QED BY <1>1, <3>1, AaBeginsInv
  <2> QED BY <2>1, <2>2
<1>3. CASE AaSendManual
  <2>1. AaBegins(0, "manual") /\ aaNet' = aaNet \cup {AaRequest("manual", AaNone, {})}
    BY <1>3 DEF AaSendManual
  <2> QED BY <1>1, <2>1, AaBeginsInv
<1> QED BY <1>1, <1>2, <1>3 DEF AaSend, AaSendPreview

\* The tab adopts the conversation, or goes on without one.
LEMMA AaCreatedInv ==
  ASSUME AaInv, NEW r \in aaNet, AaCreated(r)
  PROVE  AaInv'
<1>1. r \in AaLetters /\ r.conv \in AaConv
  BY AaFields DEF AaLetters
<1>2. PICK task : task = [aaTab.task EXCEPT !.conv = r.conv, !.step = "chat"]
  OBVIOUS
<1>3. /\ task \in AaTasks /\ task.turn = aaTab.task.turn /\ task.messages = aaTab.task.messages
      /\ task.version = aaTab.task.version
  BY <1>1, <1>2, AaTabFields DEF AaTasks
<1>4. aaTab' = [aaTab EXCEPT !.conv = r.conv, !.task = task]
  BY <1>2, AaFields DEF AaCreated, AaTabs, AaTasks
<1>5. /\ aaTab' \in AaTabs /\ aaTab'.messages = aaTab.messages /\ aaTab'.task = task
      /\ aaTab'.version = aaTab.version
      /\ aaTab'.project = aaTab.project /\ aaTab'.revision = aaTab.revision
  BY <1>1, <1>3, <1>4, AaFields DEF AaTabs
<1>6. AaChatInv'
  <2>1. aaTab.task.step = "create"
    BY DEF AaCreated, AaAwaits
  <2> QED BY <1>3, <1>5, <2>1, AaFields DEF AaChatInv
<1>7. PICK x : x = [r EXCEPT !.kind = "chat", !.messages = {},
                        !.canvas = AaCanvas(aaTab.design, aaTab.project, aaTab.revision)]
  OBVIOUS
<1>8. AaLetterOK(aaStore, x)
  BY <1>1, <1>7, AaShown DEF AaLetterOK, AaLetters
<1>9. aaNet' = (aaNet \ {r}) \cup {x} /\ UNCHANGED <<aaChats, aaStore, aaStored, aaOwn, aaTurn, aaLeft>>
  BY <1>7 DEF AaCreated
<1>10. /\ aaStored' \in [AaConvs -> (SUBSET Turns) \cup {AaNone, AaGone}] /\ aaLeft' \in Nat
       /\ AaKnown(aaStore, aaTab'.project, aaTab'.revision) /\ aaTab'.messages = aaOwn'
       /\ aaOwn' \subseteq Turns /\ aaTurn' \in 0..AaTurns
  BY <1>5, <1>9, AaFields
<1> QED BY <1>5, <1>6, <1>8, <1>9, <1>10, AaTabMoves

\* An answer is taken: the tab shows its canvas, and what its actions say.
LEMMA AaAppliedInv ==
  ASSUME AaInv, NEW r \in aaNet, aaTab.task.turn = r.turn, aaTab' = AaApplied(aaTab, r.canvas),
         \A x \in aaNet' : x \in aaNet, UNCHANGED <<aaChats, aaStore, aaStored, aaOwn, aaTurn, aaLeft>>
  PROVE  AaInv'
<1>1. /\ r.canvas \in AaCanvases /\ AaCanvasOK(aaStore, r.canvas) /\ r.turn \in Turns
  BY AaFields DEF AaLetterOK, AaLetters
<1>2. PICK told : told = IF AaLoadedActions(r.canvas) = {} THEN AaLoadedAction(aaTab.project, aaTab.revision)
                         ELSE AaLastLoaded(r.canvas)
  OBVIOUS
<1>3. told.project \in AaProject /\ told.revision \in Nat /\ AaKnown(aaStore, told.project, told.revision)
  <2>1. CASE AaLoadedActions(r.canvas) = {}
    BY <1>2, <2>1, AaTabFields, AaFields DEF AaLoadedAction
  <2>2. CASE AaLoadedActions(r.canvas) # {}
    <3>1. PICK i \in AaLoadedActions(r.canvas) :
            AaLastLoaded(r.canvas) = r.canvas.actions[i] /\ r.canvas.actions[i] \in AaAction
      BY <1>1, <2>2, AaLastTold DEF AaCanvasOK
    <3>2. AaKnown(aaStore, r.canvas.actions[i].project, r.canvas.actions[i].revision)
      BY <1>1 DEF AaCanvasOK
    <3> QED BY <1>2, <2>2, <3>1, <3>2 DEF AaAction
  <2> QED BY <2>1, <2>2
<1>4. PICK messages, scheduled :
        /\ messages = IF aaTab.task.step = "manual" THEN aaTab.messages ELSE aaTab.task.messages
        /\ scheduled = (AaPlain("preview") \in Range(r.canvas.actions) /\ aaTab.round < AaRounds)
  OBVIOUS
<1>5. messages = aaTab.messages
  <2>1. aaTab.task.turn # 0
    BY <1>1 DEF Turns
  <2> QED BY <1>4, <2>1, AaFields DEF AaChatInv
<1>6. aaTab' = [aaTab EXCEPT !.design = r.canvas.design, !.project = told.project,
        !.revision = told.revision, !.edits = @ + 1, !.messages = messages, !.task = AaNoTask,
        !.scheduled = scheduled]
  BY <1>2, <1>4 DEF AaApplied
<1>7. scheduled \in BOOLEAN
  BY <1>4
<1>8. r.canvas.design \in 0..AaTurns
  BY <1>1 DEF AaCanvases
<1>9. /\ aaTab' \in AaTabs /\ aaTab'.messages = aaTab.messages /\ aaTab'.task = AaNoTask
      /\ aaTab'.project = told.project /\ aaTab'.revision = told.revision
  <2>1. PICK d \in 0..AaTurns, p \in AaProject, n \in Nat, e \in Nat, task \in AaTasks :
          /\ d = r.canvas.design /\ p = told.project /\ n = told.revision /\ e = aaTab.edits + 1
          /\ task = AaNoTask
    BY <1>3, <1>8, AaTabFields, AaNoTaskIs
  <2>2. aaTab' = [aaTab EXCEPT !.design = d, !.project = p, !.revision = n, !.edits = e,
                               !.messages = messages, !.task = task, !.scheduled = scheduled]
    BY <1>6, <2>1
  <2>3. aaTab \in AaTabs /\ messages \in SUBSET Turns
    BY <1>5, AaFields, AaTabFields
  <2>4. /\ aaTab' \in AaTabs /\ aaTab'.messages = messages /\ aaTab'.task = task
        /\ aaTab'.project = p /\ aaTab'.revision = n
    BY <1>7, <2>2, <2>3 DEF AaTabs
  <2> QED BY <1>5, <2>1, <2>4
<1>10. AaChatInv'
  BY <1>9, AaNoTaskIs DEF AaChatInv
<1>11. /\ aaStored' \in [AaConvs -> (SUBSET Turns) \cup {AaNone, AaGone}] /\ aaLeft' \in Nat
       /\ AaKnown(aaStore, aaTab'.project, aaTab'.revision) /\ aaTab'.messages = aaOwn'
       /\ aaOwn' \subseteq Turns /\ aaTurn' \in 0..AaTurns
  BY <1>3, <1>9, AaFields
<1> QED BY <1>9, <1>10, <1>11, AaTabMoves

\* The answer of the turn the tab waits for.
LEMMA AaAnswerInv ==
  ASSUME AaInv, NEW r \in aaNet, AaAnswered(r) \/ AaKept(r) \/ AaManualDone(r)
  PROVE  AaInv'
<1>1. CASE aaTab' = AaApplied(aaTab, r.canvas)
  <2>1. aaTab.task.turn = r.turn
    BY DEF AaAnswered, AaKept, AaManualDone, AaAwaits
  <2>2. UNCHANGED <<aaChats, aaStore, aaStored, aaOwn, aaTurn, aaLeft>>
    BY DEF AaAnswered, AaKept, AaManualDone
  <2>3. aaNet' = aaNet \ {r} \/ (AaAnswered(r) /\ aaTab.task.conv # AaNone)
    BY DEF AaAnswered, AaKept, AaManualDone
  <2>4. CASE aaNet' = aaNet \ {r}
    BY <1>1, <2>1, <2>2, <2>4, AaAppliedInv
  <2>5. CASE AaAnswered(r) /\ aaTab.task.conv # AaNone
    <3>1. aaTab'.task.step = "put"
      BY <2>5, AaFields DEF AaAnswered, AaTabs, AaTasks
    <3>2. aaTab'.task = AaNoTask
      BY <1>1, AaFields DEF AaApplied, AaTabs
    <3> QED BY <3>1, <3>2 DEF AaNoTask
  <2> QED BY <2>3, <2>4, <2>5
<1>2. CASE AaAnswered(r) /\ aaTab.task.conv # AaNone
  <2>1. AaLetterOK(aaStore, r) /\ r \in AaLetters /\ aaTab.task \in AaTasks
    BY AaFields, AaTabFields
  <2>2. PICK task : task = [aaTab.task EXCEPT !.step = "put"]
    OBVIOUS
  <2>3. /\ task \in AaTasks /\ task.turn = aaTab.task.turn /\ task.messages = aaTab.task.messages
        /\ task.version = aaTab.task.version
    BY <2>1, <2>2 DEF AaTasks
  <2>4. aaTab' = [aaTab EXCEPT !.task = task]
    BY <1>2, <2>2, AaFields DEF AaAnswered, AaTabs
  <2>5. /\ aaTab' \in AaTabs /\ aaTab'.messages = aaTab.messages /\ aaTab'.task = task
        /\ aaTab'.version = aaTab.version
        /\ aaTab'.project = aaTab.project /\ aaTab'.revision = aaTab.revision
    BY <2>3, <2>4, AaFields DEF AaTabs
  <2>6. AaChatInv'
    <3>1. aaTab.task.step = "chat"
      BY <1>2 DEF AaAnswered, AaAwaits
    <3> QED BY <2>3, <2>5, <3>1, AaFields DEF AaChatInv
  <2>7. PICK x : x = [r EXCEPT !.kind = "put", !.conv = aaTab.task.conv, !.messages = aaTab.task.messages]
    OBVIOUS
  <2>8. AaLetterOK(aaStore, x)
    <3>1. aaTab.task.conv \in AaConv /\ aaTab.task.messages \in SUBSET Turns
      BY <2>1 DEF AaTasks
    <3> QED BY <2>1, <2>7, <3>1 DEF AaLetterOK, AaLetters
  <2>9. aaNet' = (aaNet \ {r}) \cup {x} /\ UNCHANGED <<aaChats, aaStore, aaStored, aaOwn, aaTurn, aaLeft>>
    BY <1>2, <2>7 DEF AaAnswered
  <2>10. /\ aaStored' \in [AaConvs -> (SUBSET Turns) \cup {AaNone, AaGone}] /\ aaLeft' \in Nat
         /\ AaKnown(aaStore, aaTab'.project, aaTab'.revision) /\ aaTab'.messages = aaOwn'
         /\ aaOwn' \subseteq Turns /\ aaTurn' \in 0..AaTurns
    BY <2>5, <2>9, AaFields
  <2> QED BY <2>5, <2>6, <2>8, <2>9, <2>10, AaTabMoves
<1> QED BY <1>1, <1>2 DEF AaAnswered, AaKept, AaManualDone

\* A turn that fails, and a letter that comes too late or is lost.
LEMMA AaEndsInv ==
  ASSUME AaInv, NEW r \in aaNet, AaFailed(r) \/ AaDropped(r) \/ AaLoses(r)
  PROVE  AaInv'
<1>1. UNCHANGED <<aaChats, aaStore, aaStored, aaOwn, aaTurn>> /\ aaLeft' \in Nat
  <2>1. aaLeft \in Nat
    BY AaFields
  <2>2. CASE AaFailed(r)
    BY <2>1, <2>2 DEF AaFailed
  <2>3. CASE AaDropped(r)
    BY <2>1, <2>3 DEF AaDropped, AaOther
  <2>4. CASE AaLoses(r)
    BY <2>1, <2>4 DEF AaLoses, AaOther
  <2> QED BY <2>2, <2>3, <2>4
<1>2. \/ UNCHANGED aaTab
      \/ aaTab' = [aaTab EXCEPT !.task = AaNoTask]
  BY DEF AaFailed, AaDropped, AaLoses
<1>3. /\ aaTab' \in AaTabs /\ aaTab'.messages = aaTab.messages
      /\ aaTab'.project = aaTab.project /\ aaTab'.revision = aaTab.revision /\ AaChatInv'
  <2>1. CASE UNCHANGED aaTab
    BY <2>1, AaFields DEF AaChatInv
  <2>2. CASE aaTab' = [aaTab EXCEPT !.task = AaNoTask]
    <3>1. /\ aaTab' \in AaTabs /\ aaTab'.messages = aaTab.messages /\ aaTab'.task = AaNoTask
          /\ aaTab'.project = aaTab.project /\ aaTab'.revision = aaTab.revision
      BY <2>2, AaFields, AaNoTaskIs DEF AaTabs
    <3> QED BY <3>1, AaNoTaskIs DEF AaChatInv
  <2> QED BY <1>2, <2>1, <2>2
<1>4. \A x \in aaNet' : x \in aaNet \/ AaLetterOK(aaStore, x)
  <2>1. PICK lost : lost = [r EXCEPT !.kind = "lost", !.conv = AaNone]
    OBVIOUS
  <2>2. AaLetterOK(aaStore, lost)
    <3>1. AaLetterOK(aaStore, r) /\ r \in AaLetters /\ AaNone \in AaConv
      BY AaFields DEF AaConv
    <3> QED BY <2>1, <3>1 DEF AaLetterOK, AaLetters
  <2>3. aaNet' \subseteq aaNet \cup {lost}
    BY <2>1 DEF AaFailed, AaDropped, AaLoses
  <2> QED BY <2>2, <2>3
<1>5. /\ aaStored' \in [AaConvs -> (SUBSET Turns) \cup {AaNone, AaGone}]
      /\ AaKnown(aaStore, aaTab'.project, aaTab'.revision) /\ aaTab'.messages = aaOwn'
      /\ aaOwn' \subseteq Turns /\ aaTurn' \in 0..AaTurns
  BY <1>1, <1>3, AaFields
<1> QED BY <1>1, <1>3, <1>4, <1>5, AaTabMoves

\* The user edits, leaves the chat, or opens one: a turn that is still
\* waited for is one of the chat the tab is in.
LEMMA AaUserInv ==
  ASSUME AaInv, NEW tab \in AaTabs, NEW own \in SUBSET Turns, AaUserDoes(tab, own),
         tab.messages = own, tab.project = aaTab.project, tab.revision = aaTab.revision,
         tab.task = aaTab.task,
         \/ tab.version = aaTab.version /\ own = aaOwn
         \/ tab.version = aaTab.version + 1,
         aaStored' \in [AaConvs -> (SUBSET Turns) \cup {AaNone, AaGone}]
  PROVE  AaInv'
<1>1. /\ UNCHANGED <<aaNet, aaChats, aaStore, aaTurn>> /\ aaLeft' \in Nat /\ aaOwn' = own
  BY AaFields DEF AaUserDoes
<1>2. \/ aaTab' = tab /\ AaMatches(tab)
      \/ aaTab' = [tab EXCEPT !.task = AaNoTask, !.scheduled = FALSE]
  BY DEF AaUserDoes, AaKeeps
<1>3. /\ aaTab' \in AaTabs /\ aaTab'.messages = own
      /\ aaTab'.project = aaTab.project /\ aaTab'.revision = aaTab.revision /\ AaChatInv'
  <2>1. CASE aaTab' = tab /\ AaMatches(tab)
    <3>1. aaTab.task.turn = 0 \/ (tab.version = aaTab.version /\ own = aaOwn)
      BY <2>1, AaFields, AaTabFields DEF AaMatches, AaChatInv, AaTasks
    <3>2. AaChatInv'
      BY <2>1, <3>1, AaFields DEF AaChatInv
    <3> QED BY <2>1, <3>2
  <2>2. CASE aaTab' = [tab EXCEPT !.task = AaNoTask, !.scheduled = FALSE]
    <3>1. /\ aaTab' \in AaTabs /\ aaTab'.messages = own /\ aaTab'.task = AaNoTask
          /\ aaTab'.project = aaTab.project /\ aaTab'.revision = aaTab.revision
      BY <2>2, AaNoTaskIs DEF AaTabs
    <3> QED BY <3>1, AaNoTaskIs DEF AaChatInv
  <2> QED BY <1>2, <2>1, <2>2
<1>4. /\ AaKnown(aaStore, aaTab'.project, aaTab'.revision)
      /\ aaTurn' \in 0..AaTurns /\ \A x \in aaNet' : x \in aaNet
  BY <1>1, <1>3, AaFields
<1> QED BY <1>1, <1>3, <1>4, AaTabMoves

\* What the user does with the design and with conversations.
LEMMA AaUserStepInv ==
  ASSUME AaInv, AaEdits \/ AaResets \/ \E c \in AaConvs : AaOpensHistory(c) \/ AaDeletesHistory(c)
  PROVE  AaInv'
<1> USE AaFields, AaTabFields
<1>1. CASE AaEdits
  <2>1. PICK tab : tab = [aaTab EXCEPT !.edits = @ + 1]
    OBVIOUS
  <2>2. /\ tab \in AaTabs /\ tab.messages = aaOwn /\ tab.project = aaTab.project
        /\ tab.revision = aaTab.revision /\ tab.task = aaTab.task /\ tab.version = aaTab.version
    <3>1. PICK e \in Nat : e = aaTab.edits + 1
      OBVIOUS
    <3> QED BY <2>1, <3>1 DEF AaTabs
  <2>3. AaUserDoes(tab, aaOwn) /\ UNCHANGED aaStored
    BY <1>1, <2>1 DEF AaEdits
  <2> QED BY <2>2, <2>3, AaUserInv
<1>2. CASE AaResets
  <2>1. PICK tab : tab = [aaTab EXCEPT !.version = @ + 1, !.conv = AaNone, !.messages = {}]
    OBVIOUS
  <2>2. /\ tab \in AaTabs /\ tab.messages = {} /\ tab.project = aaTab.project
        /\ tab.revision = aaTab.revision /\ tab.task = aaTab.task /\ tab.version = aaTab.version + 1
    <3>1. PICK n \in Nat : n = aaTab.version + 1
      OBVIOUS
    <3>2. AaNone \in AaConv /\ {} \in SUBSET Turns
      BY DEF AaConv
    <3> QED BY <2>1, <3>1, <3>2 DEF AaTabs
  <2>3. AaUserDoes(tab, {}) /\ UNCHANGED aaStored
    BY <1>2, <2>1 DEF AaResets
  <2> QED BY <2>2, <2>3, AaUserInv
<1>3. ASSUME NEW c \in AaConvs, AaOpensHistory(c) PROVE AaInv'
  <2>1. PICK tab : tab = [aaTab EXCEPT !.conv = c, !.messages = aaStored[c], !.version = @ + 1]
    OBVIOUS
  <2>2. aaStored[c] \in SUBSET Turns
    BY <1>3 DEF AaOpensHistory, AaIsOpen
  <2>3. /\ tab \in AaTabs /\ tab.messages = aaStored[c] /\ tab.project = aaTab.project
        /\ tab.revision = aaTab.revision /\ tab.task = aaTab.task /\ tab.version = aaTab.version + 1
    <3>1. PICK n \in Nat : n = aaTab.version + 1
      OBVIOUS
    <3>2. c \in AaConv
      BY DEF AaConv
    <3> QED BY <2>1, <2>2, <3>1, <3>2 DEF AaTabs
  <2>4. AaUserDoes(tab, aaStored[c]) /\ UNCHANGED aaStored
    BY <1>3, <2>1 DEF AaOpensHistory
  <2> QED BY <2>2, <2>3, <2>4, AaUserInv
<1>4. ASSUME NEW c \in AaConvs, AaDeletesHistory(c) PROVE AaInv'
  <2>1. PICK tab : tab = IF aaTab.conv = c THEN [aaTab EXCEPT !.conv = AaNone] ELSE aaTab
    OBVIOUS
  <2>2. /\ tab \in AaTabs /\ tab.messages = aaOwn /\ tab.project = aaTab.project
        /\ tab.revision = aaTab.revision /\ tab.task = aaTab.task /\ tab.version = aaTab.version
    <3>1. AaNone \in AaConv
      BY DEF AaConv
    <3> QED BY <2>1, <3>1 DEF AaTabs
  <2>3. /\ AaUserDoes(tab, aaOwn)
        /\ aaStored' \in [AaConvs -> (SUBSET Turns) \cup {AaNone, AaGone}]
    BY <1>4, <2>1 DEF AaDeletesHistory
  <2> QED BY <2>2, <2>3, AaUserInv
<1> QED BY <1>1, <1>2, <1>3, <1>4

\* Every step of the assistant.
LEMMA AaNextInv == ASSUME AaInv, [AaNext]_aaVars PROVE AaInv'
<1>1. CASE UNCHANGED aaVars
  BY <1>1 DEF aaVars, AaInv, AaTypeOK, AaChatsApart, AaChatInv, AaCanvasInv, AaRevisionIsStored
<1>2. CASE AaServerStep
  BY <1>2, AaServeInv, AaChatBegins, AaCompletionInv, AaRunsInv DEF AaServerStep
<1>3. CASE AaTabStep
  BY <1>3, AaCreatedInv, AaAnswerInv, AaEndsInv, AaSendInv DEF AaTabStep
<1>4. CASE AaMeets
  BY <1>4, AaEndsInv, AaCompletionInv, AaOthersInv, AaSendInv, AaUserStepInv DEF AaMeets
<1> QED BY <1>1, <1>2, <1>3, <1>4 DEF AaNext, AaStep

\* What the invariant says of the chats, the answers and the revisions.
LEMMA AaInvOrders == AaInv => AaChatsApart /\ AaActionsTell /\ AaRevisionIsStored
<1> SUFFICES ASSUME AaInv PROVE AaActionsTell
  BY DEF AaInv
<1> SUFFICES ASSUME NEW r \in aaNet, r.canvas.project # AaNone, AaLoadedActions(r.canvas) # {}
             PROVE  /\ AaLastLoaded(r.canvas).project = r.canvas.project
                    /\ AaLastLoaded(r.canvas).revision = r.canvas.revision
  BY DEF AaActionsTell
<1>1. r.canvas \in AaCanvases /\ AaTells(r.canvas)
  BY AaFields DEF AaLetterOK, AaLetters, AaCanvasOK
<1> QED BY <1>1, AaLastTold

-----------------------------------------------------------------------------
(* The services side by side.                                              *)

\* The releases go on as they do by themselves, with the leases free at first.
LEMMA ReleasesRun == ServiceSpec => RsInit /\ [][RsNext]_rsVars
<1>1. ServiceInit => RsInit
  BY DEF ServiceInit
<1>2. [ServiceMeets]_serviceVars => [RsNext]_rsVars
  BY DEF ServiceMeets, serviceVars
<1> QED BY <1>1, <1>2, PTL DEF ServiceSpec

\* Uploads, conversions and requests go on as they do by themselves.
LEMMA UploadsRun == ServiceSpec => UpInit /\ [][UpNext]_upVars
<1>1. ServiceInit => UpInit
  BY DEF ServiceInit
<1>2. [ServiceMeets]_serviceVars => [UpNext]_upVars
  BY DEF ServiceMeets, serviceVars
<1> QED BY <1>1, <1>2, PTL DEF ServiceSpec

\* The spool goes on as it does by itself.
LEMMA SpoolRuns == ServiceSpec => JsInit /\ [][JsNext]_jsVars
<1>1. ServiceInit => JsInit
  BY DEF ServiceInit
<1>2. [ServiceMeets]_serviceVars => [JsNext]_jsVars
  BY DEF ServiceMeets, serviceVars
<1> QED BY <1>1, <1>2, PTL DEF ServiceSpec

\* The assistant goes on as it does by itself.
LEMMA AssistantRuns == ServiceSpec => AaInit /\ [][AaNext]_aaVars
<1>1. ServiceInit => AaInit
  BY DEF ServiceInit
<1>2. [ServiceMeets]_serviceVars => [AaNext]_aaVars
  BY DEF ServiceMeets, serviceVars
<1> QED BY <1>1, <1>2, PTL DEF ServiceSpec

\* The three parts of the editor go on as they do by themselves.
LEMMA EditorRuns ==
  ServiceSpec => /\ EdInit /\ [][EdNext]_edVars
                 /\ PfInit /\ [][PfNext]_pfVars
                 /\ EpInit /\ [][EpNext]_epVars
<1>1. ServiceInit => EdInit /\ PfInit /\ EpInit
  BY DEF ServiceInit
<1>2. [ServiceMeets]_serviceVars => [EdNext]_edVars
  BY DEF ServiceMeets, serviceVars
<1>3. [ServiceMeets]_serviceVars => [PfNext]_pfVars
  BY DEF ServiceMeets, serviceVars
<1>4. [ServiceMeets]_serviceVars => [EpNext]_epVars
  BY DEF ServiceMeets, serviceVars
<1> QED BY <1>1, <1>2, <1>3, <1>4, PTL DEF ServiceSpec

\* Where nothing moves, the invariant of the releases stays.
LEMMA RsStays == ASSUME RsInv, UNCHANGED rsVars PROVE RsInv'
<1>1. UNCHANGED <<rsState, rsProbed, rsSlots, rsLease, rsRun, rsLeft>>
  BY DEF rsVars
<1>2. RsTypeOK'
  BY <1>1 DEF RsInv, RsTypeOK
<1>3. RsLeaseInv'
  BY <1>1 DEF RsInv, RsLeaseInv, RsAt, RsTarget
<1>4. RsSelectedIsAccepted'
  BY <1>1 DEF RsInv, RsSelectedIsAccepted
<1> QED BY <1>2, <1>3, <1>4 DEF RsInv

\* What was accepted stays: the selected release has answered its probe, a
\* stored font keeps its bytes, and the spool reads what was appended to it.
THEOREM AcceptedIsKept == ServiceSpec => []AcceptedStays
<1>1. RsInv /\ [RsNext]_rsVars => RsInv'
  BY RsNextInv, RsStays
<1>2. UpInv /\ [UpNext]_upVars => UpInv'
  BY UpNextInv
<1>3. JsInv /\ [JsNext]_jsVars => JsInv'
  BY JsNextInv
<1>4. RsInv /\ UpInv /\ JsInv => AcceptedStays
  BY UpInvSafe, JsReadsGiven DEF RsInv, AcceptedStays
<1> QED BY <1>1, <1>2, <1>3, <1>4, RsInitHolds, UpInitHolds, JsInitHolds,
           ReleasesRun, UploadsRun, SpoolRuns, PTL

\* Nothing goes on behind one who was told it was over: while a server runs
\* no update or rollback moves its release, a conversion that was cancelled
\* has stopped, and the limits on uploads hold.
THEOREM OverIsOver == ServiceSpec => NothingGoesOn
<1>1. RsInv /\ [RsNext]_rsVars => RsInv'
  BY RsNextInv, RsStays
<1>2. RsInv /\ [RsNext]_rsVars
        => [\A p \in RsLaunchers : RsAt(p, "running") /\ RsAt(p, "running")' => rsState' = rsState]_rsVars
  BY RsNextInv
<1>3. UpInv /\ [UpNext]_upVars => UpInv'
  BY UpNextInv
<1>4. UpInv => UpCancelledIsOver /\ UpWithinLimits
  BY UpInvSafe
<1>5. ServiceSpec => RsServerUndisturbed
  BY <1>1, <1>2, RsInitHolds, ReleasesRun, PTL DEF RsServerUndisturbed
<1>6. ServiceSpec => [](UpCancelledIsOver /\ UpWithinLimits)
  BY <1>3, <1>4, UpInitHolds, UploadsRun, PTL
<1> QED BY <1>5, <1>6 DEF NothingGoesOn

\* The assistant acts on the design and the project its tab shows, beside
\* others that update, delete and create projects: a turn that ends late tells
\* nothing to a chat that was left, and no answer names a project or a revision
\* other than what its tools left stored.
THEOREM AssistantActsInOrder == ServiceSpec => []AssistantInOrder
<1>1. AaInv /\ [AaNext]_aaVars => AaInv'
  BY AaNextInv
<1>2. AaInv => AssistantInOrder
  BY AaInvOrders DEF AssistantInOrder
<1> QED BY <1>1, <1>2, AaInitHolds, AssistantRuns, PTL

\* The editor never gives up what its user did: a design shown as saved is
\* stored, as long as the project is there that was opened or saved, and a late
\* answer undoes no edit, the printer shown is the one that
\* was chosen and the design keeps its size, and pages and elements keep their
\* sheets and places through every edit.
THEOREM EditorWorkIsKept == ServiceSpec => EditorKeepsWork
<1>1. EdInv /\ [EdNext]_edVars => EdInv'
  BY EdNextKeeps
<1>2. EdInv /\ [EdNext]_edVars => [EdAnswersKeepEdits]_edVars
  BY EdNextKeeps
<1>3. PfInv => PfShowsChosen /\ PfFitsHead /\ PfSizeKept
  BY PfSizeIsKept DEF PfInv
<1>4. ServiceSpec => []EdSavedIsStored /\ [][EdAnswersKeepEdits]_edVars
  BY <1>1, <1>2, EdInitHolds, EdSavedIsHeld, EditorRuns, PTL
<1>5. ServiceSpec => [](PfShowsChosen /\ PfFitsHead /\ PfSizeKept)
  BY <1>3, PfInitHolds, PfNextKeeps, EditorRuns, PTL
<1>6. ServiceSpec => [](EpSheetsStayWhole /\ EpSelectionShown /\ EpPlaced)
  BY EpInitHolds, EpNextKeeps, EpPagesHold, EditorRuns, PTL
<1>7. ServiceSpec => [](EdSavedIsStored /\ EpSheetsStayWhole /\ EpSelectionShown /\ EpPlaced)
  BY <1>4, <1>6, PTL
<1> QED BY <1>4, <1>5, <1>7 DEF EditorKeepsWork
=============================================================================
