---------------------------- MODULE ReleaseSlots ----------------------------
(* Installing, selecting and starting a release (launcher.py,              *)
(* core/release_slots.py, core/release_artifacts.py) under the two leases  *)
(* of core/runtime_lease.py.  Several launchers run at once; each reads    *)
(* the accepted release before it asks for a lease, any of them may be     *)
(* killed at any step, and the operating system then drops its leases.     *)
(* A slot is a stage renamed into place and is verified file by file each  *)
(* time it is read; the add-on selection of a slot is a directory of       *)
(* markers, here one marker.                                               *)
EXTENDS Naturals, TLC

CONSTANTS
  RsReleases,    \* archive digests
  RsLaunchers,
  RsFiles,       \* files of a release
  RsRuns,        \* launches (bound)
  RsTrouble      \* failures, damaged files and kills (bound)

RsAbsent == 99
ASSUME ReleasesAssumption ==
  /\ RsFiles \in 0..(RsAbsent - 1) /\ RsRuns \in Nat /\ RsTrouble \in Nat
  /\ "none" \notin RsLaunchers

VARIABLES
  rsState,       \* active.json: [active, previous], "none" where there is none
  rsSlots,       \* [RsReleases -> intact files of the slot, or RsAbsent]
  rsStage,       \* [RsLaunchers -> files of its stage, or RsAbsent]
  rsAddon,       \* .bootstrap-state of a slot, or the data directory's: "absent", "off", "on"
  rsProbed,      \* releases whose candidate server has answered
  rsLease,       \* holder of each lease, or "none"
  rsRun,         \* [at, kind, release, option, current, original] of a launcher
  rsLeft         \* [runs, trouble] left

rsVars == <<rsState, rsSlots, rsStage, rsAddon, rsProbed, rsLease, rsRun, rsLeft>>

RsNothing == [active |-> "none", previous |-> "none"]
RsRest(at) == [at |-> at, kind |-> "start", release |-> "none", option |-> "keep",
               current |-> "none", original |-> RsNothing]

RsInit ==
  /\ rsState = RsNothing /\ rsProbed = {}
  /\ rsSlots = [r \in RsReleases |-> RsAbsent] /\ rsStage = [p \in RsLaunchers |-> RsAbsent]
  /\ \E legacy \in {"off", "on"} :
       rsAddon = [r \in RsReleases |-> "absent"] @@ ("data" :> legacy)
  /\ rsLease = [update |-> "none", data |-> "none"]
  /\ rsRun = [p \in RsLaunchers |-> RsRest("idle")]
  /\ rsLeft = [runs |-> RsRuns, trouble |-> RsTrouble]

RsAt(p, where) == rsRun[p].at = where
RsGoes(p, where) == rsRun' = [rsRun EXCEPT ![p].at = where]
RsLeaves(p, where) == rsRun' = [rsRun EXCEPT ![p] = RsRest(where)]
RsTarget(p) == rsRun[p].release
RsTake(p, kinds) == rsLease' = [k \in DOMAIN rsLease |-> IF k \in kinds THEN p ELSE rsLease[k]]
RsDrop(p) == rsLease' = [k \in DOMAIN rsLease |-> IF rsLease[k] = p THEN "none" ELSE rsLease[k]]
RsFree == \A k \in DOMAIN rsLease : rsLease[k] = "none"
RsUpdating == {"installing", "backing", "copying", "marking", "setup", "probing", "publishing"}
RsMeets == rsLeft.trouble > 0 /\ rsLeft' = [rsLeft EXCEPT !.trouble = @ - 1]

(* _load_slot: the manifest and every file below it are checked again.     *)
RsVerified(r) == r \in RsReleases /\ rsSlots[r] = RsFiles
RsLoads == rsState.active = "none" \/ RsVerified(rsState.active)

(* main: arguments are read, and load_active, before any lease.            *)
RsLaunch(p, kind, r, option) ==
  /\ rsLeft.runs > 0 /\ rsLeft' = [rsLeft EXCEPT !.runs = @ - 1]
  /\ RsAt(p, "idle")
  /\ RsLoads
  /\ kind = "start" => rsState # RsNothing
  /\ rsRun' = [rsRun EXCEPT ![p] =
       IF kind = "start" THEN RsRest("starting")
       ELSE [RsRest("asking") EXCEPT !.kind = kind, !.release = r, !.option = option,
                                     !.current = rsState.active]]
  /\ UNCHANGED <<rsState, rsSlots, rsStage, rsAddon, rsProbed, rsLease>>

(* RuntimeBusyError: another launcher, or the server, has a lease.         *)
RsBusy(p) ==
  /\ RsAt(p, "asking") /\ ~RsFree /\ RsLeaves(p, "idle")
  /\ UNCHANGED <<rsState, rsSlots, rsStage, rsAddon, rsProbed, rsLease, rsLeft>>

(* rollback: both slots are verified and the pointer is swapped, leases    *)
(* held; a kill in between leaves it as it was.                            *)
RsRollback(p) ==
  /\ RsAt(p, "asking") /\ rsRun[p].kind = "rollback" /\ RsFree
  /\ IF ~RsVerified(rsState.active) \/ ~RsVerified(rsState.previous)
     THEN RsLeaves(p, "idle") /\ UNCHANGED rsState
     ELSE /\ RsLeaves(p, "starting")
          /\ rsState' = [active |-> rsState.previous, previous |-> rsState.active]
  /\ UNCHANGED <<rsSlots, rsStage, rsAddon, rsProbed, rsLease, rsLeft>>

(* activate_artifact, one step for each thing it leaves behind.            *)
RsBegin(p) ==
  /\ RsAt(p, "asking") /\ rsRun[p].kind = "update" /\ RsFree
  /\ RsTake(p, {"update", "data"})
  /\ rsRun' = [rsRun EXCEPT ![p].at = "installing", ![p].original = rsState]
  /\ UNCHANGED <<rsState, rsSlots, rsStage, rsAddon, rsProbed, rsLeft>>

RsStaged(p, n) == rsStage' = [rsStage EXCEPT ![p] = n]

(* extract_artifact: the archive and its manifest are checked, then one    *)
(* file after the other is written to a stage.                             *)
RsExtract(p) ==
  /\ RsAt(p, "installing") /\ RsLoads /\ rsStage[p] # RsFiles
  /\ RsStaged(p, IF rsStage[p] = RsAbsent THEN 0 ELSE rsStage[p] + 1)
  /\ UNCHANGED <<rsState, rsSlots, rsAddon, rsProbed, rsLease, rsRun, rsLeft>>

(* A mutated form of RsInstall: a stage is renamed without waiting for it. *)
RsInstallEarly(p) ==
  /\ RsAt(p, "installing") /\ rsStage[p] # RsAbsent /\ RsGoes(p, "backing")
  /\ rsSlots' = [rsSlots EXCEPT ![RsTarget(p)] = rsStage[p]]
  /\ RsStaged(p, RsAbsent)
  /\ UNCHANGED <<rsState, rsAddon, rsProbed, rsLease, rsLeft>>

(* A slot that exists is used again when it verifies and is this archive;  *)
(* else the stage is renamed to be the slot.                               *)
RsInstall(p) ==
  /\ RsAt(p, "installing") /\ rsStage[p] = RsFiles /\ RsGoes(p, "backing")
  /\ rsSlots[RsTarget(p)] \in {RsAbsent, RsFiles}
  /\ rsSlots' = [rsSlots EXCEPT ![RsTarget(p)] = RsFiles]
  /\ RsStaged(p, RsAbsent)
  /\ UNCHANGED <<rsState, rsAddon, rsProbed, rsLease, rsLeft>>

(* The database is copied with SQLite's own backup, checked and renamed.   *)
RsBackUp(p) ==
  /\ RsAt(p, "backing") /\ RsGoes(p, "copying")
  /\ UNCHANGED <<rsState, rsSlots, rsStage, rsAddon, rsProbed, rsLease, rsLeft>>

(* prepare_release: a slot that has no selection yet takes over that of    *)
(* the release read by main, then the bootstrap applies the options.       *)
RsCopySelection(p) ==
  /\ RsAt(p, "copying") /\ RsGoes(p, IF rsAddon[RsTarget(p)] = "absent" THEN "marking" ELSE "setup")
  /\ rsAddon' = [rsAddon EXCEPT ![RsTarget(p)] = IF @ = "absent" THEN "off" ELSE @]
  /\ UNCHANGED <<rsState, rsSlots, rsStage, rsProbed, rsLease, rsLeft>>

RsMark(p) ==
  LET from == IF rsRun[p].current = "none" THEN "data" ELSE rsRun[p].current IN
  /\ RsAt(p, "marking") /\ RsGoes(p, "setup")
  /\ rsAddon' = [rsAddon EXCEPT ![RsTarget(p)] = IF rsAddon[from] = "on" THEN "on" ELSE @]
  /\ UNCHANGED <<rsState, rsSlots, rsStage, rsProbed, rsLease, rsLeft>>

RsSetup(p) ==
  /\ RsAt(p, "setup") /\ RsGoes(p, "probing")
  /\ rsAddon' = [rsAddon EXCEPT ![RsTarget(p)] =
       CASE rsRun[p].option = "install" -> "on"
         [] rsRun[p].option = "skip" -> "off"
         [] OTHER -> @]
  /\ UNCHANGED <<rsState, rsSlots, rsStage, rsProbed, rsLease, rsLeft>>

(* The candidate runs on a copy of the database and must answer with its   *)
(* own identity.                                                           *)
RsProbe(p) ==
  /\ RsAt(p, "probing") /\ RsVerified(RsTarget(p)) /\ RsGoes(p, "publishing")
  /\ rsProbed' = rsProbed \cup {RsTarget(p)}
  /\ UNCHANGED <<rsState, rsSlots, rsStage, rsAddon, rsLease, rsLeft>>

(* _publish_state: compare and replace.                                    *)
RsPublish(p) ==
  LET old == rsRun[p].original IN
  /\ RsAt(p, "publishing") /\ RsVerified(RsTarget(p)) /\ rsState = old
  /\ RsLeaves(p, "starting") /\ RsDrop(p)
  /\ rsState' = [active |-> RsTarget(p),
                 previous |-> IF old.active = RsTarget(p) THEN old.previous ELSE old.active]
  /\ UNCHANGED <<rsSlots, rsStage, rsAddon, rsProbed, rsLeft>>

(* Any step of the update fails: the stage and the probe directory are     *)
(* removed, and the launcher goes on with what is accepted now.            *)
RsGivesUp(p) ==
  /\ rsRun[p].at \in RsUpdating
  /\ RsLeaves(p, IF rsState = RsNothing \/ ~RsLoads THEN "idle" ELSE "starting")
  /\ RsStaged(p, RsAbsent) /\ RsDrop(p)
  /\ UNCHANGED <<rsState, rsSlots, rsAddon, rsProbed>>
RsRefused(p) == RsMeets /\ RsGivesUp(p)

(* A file of a slot is not what the manifest says.                         *)
RsFindsDamage(p) ==
  /\ \/ RsAt(p, "installing") /\ ~RsLoads
     \/ RsAt(p, "installing") /\ rsStage[p] = RsFiles /\ rsSlots[RsTarget(p)] \notin {RsAbsent, RsFiles}
     \/ rsRun[p].at \in {"probing", "publishing"} /\ ~RsVerified(RsTarget(p))
  /\ RsGivesUp(p) /\ UNCHANGED rsLeft

RsDamaged(r) ==
  /\ RsMeets /\ rsSlots[r] \notin {RsAbsent, 0}
  /\ rsSlots' = [rsSlots EXCEPT ![r] = @ - 1]
  /\ UNCHANGED <<rsState, rsStage, rsAddon, rsProbed, rsLease, rsRun>>

(* run_app: the server of the selected release takes the data lease, or    *)
(* ends because somebody has it, or was not wanted (--setup-only).         *)
RsServe(p) ==
  /\ RsAt(p, "starting")
  /\ \/ rsLease.data = "none" /\ RsTake(p, {"data"}) /\ RsLeaves(p, "running")
     \/ RsLeaves(p, "idle") /\ UNCHANGED rsLease
  /\ UNCHANGED <<rsState, rsSlots, rsStage, rsAddon, rsProbed, rsLeft>>

RsStop(p) ==
  /\ RsAt(p, "running") /\ RsLeaves(p, "idle") /\ RsDrop(p)
  /\ UNCHANGED <<rsState, rsSlots, rsStage, rsAddon, rsProbed, rsLeft>>

(* The stage, and what was copied so far, stay behind.                     *)
RsKilled(p) ==
  /\ RsMeets /\ ~RsAt(p, "idle") /\ RsLeaves(p, "idle") /\ RsDrop(p) /\ RsStaged(p, RsAbsent)
  /\ UNCHANGED <<rsState, rsSlots, rsAddon, rsProbed>>

RsStep == \E p \in RsLaunchers :
  RsBusy(p) \/ RsRollback(p) \/ RsBegin(p) \/ RsExtract(p) \/ RsInstall(p) \/ RsBackUp(p) \/ RsCopySelection(p) \/ RsMark(p)
    \/ RsSetup(p) \/ RsProbe(p) \/ RsPublish(p)
    \/ RsFindsDamage(p) \/ RsServe(p)
RsNext == RsStep \/ (\E r \in RsReleases : RsDamaged(r)) \/ \E p \in RsLaunchers :
  \/ RsLaunch(p, "start", "none", "keep") \/ RsLaunch(p, "rollback", "none", "keep")
  \/ \E r \in RsReleases, option \in {"keep", "install", "skip"} : RsLaunch(p, "update", r, option)
  \/ RsRefused(p) \/ RsStop(p) \/ RsKilled(p)

RsFairness == WF_rsVars(RsStep)
RsSpec == RsInit /\ [][RsNext]_rsVars /\ RsFairness

-----------------------------------------------------------------------------
(* "Failed updates retain the previous release" (docs/installation.md):    *)
(* what is selected, and what rollback would select, is installed and has  *)
(* answered its probe, whoever was killed at whatever step; and it is not  *)
(* changed under a server, whose release and database it would replace.    *)
RsSelectedIsAccepted ==
  /\ {rsState.active, rsState.previous} \ {"none"} \subseteq rsProbed
  /\ rsLeft.trouble = RsTrouble => \A r \in RsReleases : rsSlots[r] \in {RsAbsent, RsFiles}
  /\ \A r \in RsReleases : r \in rsProbed => rsSlots[r] # RsAbsent
RsServerUndisturbed ==
  [][\A p \in RsLaunchers : RsAt(p, "running") /\ RsAt(p, "running")' => rsState' = rsState]_rsVars
RsEnded == \A p \in RsLaunchers : rsRun[p].at \in {"idle", "running"}

(* What the proofs add: who updates holds both leases and who serves the   *)
(* one of the data, and what is about to be published has answered.        *)
RsSelections == [active : RsReleases \cup {"none"}, previous : RsReleases \cup {"none"}]
RsTypeOK ==
  /\ rsState \in RsSelections /\ rsProbed \subseteq RsReleases
  /\ rsSlots \in [RsReleases -> 0..RsFiles \cup {RsAbsent}]
  /\ rsLease \in [{"update", "data"} -> RsLaunchers \cup {"none"}]
  /\ rsRun \in [RsLaunchers ->
       [at : {"idle", "asking", "starting", "running"} \cup RsUpdating,
        kind : {"start", "rollback", "update"}, release : RsReleases \cup {"none"},
        option : {"keep", "install", "skip"}, current : RsReleases \cup {"none"},
        original : RsSelections]]
  /\ rsLeft \in [runs : Nat, trouble : 0..RsTrouble]
RsLeaseInv ==
  \A p \in RsLaunchers :
    /\ rsRun[p].at \in RsUpdating => rsLease["update"] = p /\ rsLease["data"] = p
    /\ RsAt(p, "running") => rsLease["data"] = p
    /\ RsAt(p, "publishing") => RsTarget(p) \in rsProbed
RsInv == RsTypeOK /\ RsLeaseInv /\ RsSelectedIsAccepted
=============================================================================
