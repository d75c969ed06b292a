-------------------------- MODULE TransactionStages --------------------------
(***************************************************************************)
(* The RPM transaction in the target userspace: the actors                 *)
(* dnf_transaction_check, dnf_package_download, dnf_dry_run and            *)
(* dnf_upgrade_transaction with the library dnfplugin and the DNF plugin   *)
(* rhel-upgrade.  The first three resolve and test the transaction on an   *)
(* overlay of the host; the last one runs it on the host itself, from the  *)
(* interim system, without a network: with the plugin data and the         *)
(* packages that the download has left behind.                             *)
(***************************************************************************)
EXTENDS TargetUserspace

CONSTANTS
  OnAws,         \* RHUI of AWS: the DNF plugin amazon-id is there
  CreatorTasks,  \* the overlays target_userspace_creator may ask for,
  StageTasks,    \* and a stage of the transaction, in the target userspace
  MaxExecutions  \* how many times leapp is run

ASSUME StagesAssumption ==
  OnAws \in BOOLEAN /\ MaxExecutions \in Nat /\ CreatorTasks \cup StageTasks \subseteq Tasks

VARIABLES
  execution, \* the number of this execution of leapp
  stage,     \* the stage of the transaction that runs or comes next
  step,      \* where that stage is
  data,      \* the plugin data in the userspace, or NoData
  cached,    \* the execution whose packages are in the host's /var/cache/dnf, or 0
  excluded,  \* dnf.conf of the userspace excludes the packages of leapp
  hostExcluded, \* and that of the host
  outcome    \* of the last stage: "", "passed", "failed", "upgraded"

stageVars == <<execution, stage, step, data, cached, excluded, hostExcluded, outcome>>
stagesVars == <<overlayVars, actorVars, stageVars>>

Stages == {"check", "download", "dry-run", "upgrade"}
NextStage(s) ==
  CASE s = "check" -> "download" [] s = "download" -> "dry-run" [] OTHER -> "upgrade"

NoData == [writer |-> "none", of |-> 0, test |-> FALSE, aws |-> FALSE, region |-> FALSE]

StagesInit ==
  /\ UserspaceInit
  /\ execution = 0 /\ stage = "check" /\ step = "idle" /\ data = NoData /\ cached = 0
  /\ excluded = FALSE /\ hostExcluded = FALSE /\ outcome = ""

-----------------------------------------------------------------------------
(* leapp is run: the target userspace is created first.  An execution in   *)
(* which the upgrade transaction has begun is not followed by another one. *)

Execute(t) ==
  /\ step = "idle" /\ execution < MaxExecutions
  /\ outcome \notin {"upgraded", "broken"}
  /\ StartCreator(t)
  /\ execution' = execution + 1 /\ stage' = "check" /\ outcome' = ""
  /\ UNCHANGED <<step, data, cached, excluded, hostExcluded>>

(* The messages of an execution that is over are of no use to the next.    *)
Forget ==
  /\ step = "idle" /\ info /\ outcome = "failed" /\ pc = "done"
  /\ info' = FALSE /\ used' = {} /\ failure' = "error"
  /\ UNCHANGED <<overlayVars, setup, pc, scratch, installed, distroIds, userspace, repofiles,
                 reports, stageVars>>

(* What rm -rf of the userspace takes along.                               *)
Create ==
  /\ CreatorStep
  /\ IF pc = "remove" /\ userspace' = "empty"
     THEN data' = NoData /\ excluded' = FALSE
     ELSE UNCHANGED <<data, excluded>>
  /\ cached' = (IF CacheDir \in lost' \ lost THEN 0 ELSE cached)
  /\ UNCHANGED <<execution, stage, step, hostExcluded, outcome>>

-----------------------------------------------------------------------------
(* check, download and dry-run: _prepare_perform.                          *)

(* An inhibitor stops the upgrade in the reports phase, between the check  *)
(* and the download; dnf_transaction_check does nothing without userspace. *)
MayGoOn == info /\ pc = "done" /\ outcome # "failed"
             /\ (stage # "check" => reports = {})

StartStage(t) ==
  /\ step = "idle" /\ MayGoOn /\ stage \in Stages \ {"upgrade"}
  /\ OpenOverlay(t)
  /\ step' = "enter"
  /\ UNCHANGED <<actorVars, execution, stage, data, cached, excluded, hostExcluded, outcome>>

Fail ==
  /\ LeaveOverlay(FALSE) /\ step' = "leave" /\ outcome' = "failed"

StageOverlay ==
  /\ step # "idle"
  /\ OverlayStep
  /\ IF mode' = "out"
     THEN /\ step' = "idle"
          /\ outcome' = (IF broken THEN "failed" ELSE "passed")
          /\ stage' = (IF broken THEN stage ELSE NextStage(stage))
     ELSE UNCHANGED <<step, outcome, stage>>
  /\ cached' = (IF CacheDir \in lost' \ lost THEN 0 ELSE cached)
  /\ UNCHANGED <<actorVars, execution, data, excluded, hostExcluded>>

(* mount_upgrade_iso_to_root_dir, in the userspace.                        *)
StageIso ==
  /\ step = "enter" /\ Inside
  /\ \/ ~setup.iso /\ step' = "workarounds" /\ UNCHANGED <<overlayVars, outcome>>
     \/ setup.iso /\ EnterMount(Iso) /\ step' = "workarounds" /\ UNCHANGED outcome
     \/ setup.iso /\ MountFails(Iso) /\ step' = "leave" /\ outcome' = "failed"
  /\ UNCHANGED <<actorVars, execution, stage, data, cached, excluded, hostExcluded>>

ExcludedThen == IF stage = "dry-run" THEN excluded ELSE TRUE

(* apply_workarounds, and exclude_leapp_rpms, which the dry run leaves out. *)
Workarounds ==
  /\ step = "workarounds" /\ Inside
  /\ \/ /\ excluded' = ExcludedThen
        /\ step' = "config" /\ UNCHANGED <<overlayVars, outcome>>
     \/ Fail /\ UNCHANGED excluded
  /\ UNCHANGED <<actorVars, execution, stage, data, cached, hostExcluded>>

(* Mutant: the data of the check are taken for the download.               *)
WritesOnce   == stage = "check"

(* build_plugin_data                                                       *)
PluginData ==
  [writer |-> stage, of |-> execution, test |-> stage = "download",
   aws |-> OnAws /\ stage = "download", region |-> FALSE]
WritesData == stage \in {"check", "download"}

(* create_config                                                           *)
CreateConfig ==
  /\ step = "config" /\ Inside
  /\ data' = (IF WritesData THEN PluginData ELSE data)
  /\ step' = "dnf"
  /\ UNCHANGED <<overlayVars, actorVars, execution, stage, cached, excluded, hostExcluded, outcome>>

(* What DNF finds offline: the packages, and, on AWS, the caches, whose    *)
(* names depend on the region.                                             *)
FindsCache == cached = execution /\ (data.aws => data.region)

(* dnf rhel-upgrade <stage>: configure of the plugin saves the region in   *)
(* the download; dry-run and upgrade are cacheonly.  The transaction is    *)
(* tested, not run, when the data say so.                                  *)
Tested == data.test /\ stage \in {"download", "dry-run"}

RegionSaved == IF stage = "download" /\ data.aws THEN [data EXCEPT !.region = TRUE] ELSE data
CachedThen  == IF stage = "download" THEN execution ELSE cached

RunDnf ==
  /\ step = "dnf" /\ Inside
  /\ data' = RegionSaved
  /\ \/ /\ stage = "dry-run" => FindsCache
        /\ LeaveOverlay(TRUE) /\ step' = "leave" /\ UNCHANGED outcome
        /\ cached' = CachedThen
     \/ /\ Fail
        /\ cached' = (IF stage = "download" THEN 0 ELSE cached)
  /\ UNCHANGED <<actorVars, execution, stage, excluded, hostExcluded>>

StageKilled ==
  /\ step # "idle" /\ Killed
  /\ step' = "idle" /\ outcome' = "failed"
  /\ UNCHANGED <<actorVars, execution, stage, data, cached, excluded, hostExcluded>>

-----------------------------------------------------------------------------
(* perform_transaction_install, after the reboot: the userspace and the    *)
(* caches are what the disk holds.                                         *)

Upgrade ==
  /\ step = "idle" /\ MayGoOn /\ stage = "upgrade" /\ outcome = "passed"
  /\ excluded' = TRUE
  /\ \/ /\ FindsCache /\ ~Tested
        /\ outcome' = "upgraded" /\ hostExcluded' = TRUE
        /\ userspace' = "none"
     \/ outcome' = "broken" /\ UNCHANGED <<hostExcluded, userspace>>
  /\ attached' = {}
  /\ UNCHANGED <<mode, task, left, sizes, stack, lost, broken, calls, mishaps,
                 setup, pc, scratch, installed, distroIds, used, repofiles, info, reports, failure,
                 execution, stage, step, data, cached>>

StagesStep ==
  \/ Forget \/ Create \/ StageOverlay \/ StageIso \/ Workarounds \/ CreateConfig
  \/ RunDnf \/ StageKilled \/ Upgrade

StagesNext ==
  \/ \E t \in CreatorTasks : Execute(t)
  \/ \E t \in StageTasks : StartStage(t)
  \/ StagesStep

StagesSpec == StagesInit /\ [][StagesNext]_stagesVars

-----------------------------------------------------------------------------
(* Properties.                                                             *)

StagesTypeOK ==
  /\ execution \in 0 .. MaxExecutions
  /\ stage \in Stages
  /\ step \in {"idle", "enter", "workarounds", "config", "dnf", "leave"}
  /\ data.writer \in {"none", "check", "download"} /\ data.of \in 0 .. MaxExecutions
  /\ cached \in 0 .. MaxExecutions
  /\ {excluded, hostExcluded, data.test, data.aws, data.region} \subseteq BOOLEAN
  /\ outcome \in {"", "passed", "failed", "broken", "upgraded"}

(* The state of overlay, creator and stages is well-typed: the sizes of    *)
(* the images, the sources of repository files and the writers of the      *)
(* plugin data.                                                            *)
UserspaceStateOK == OverlayTypeOK /\ UserspaceTypeOK /\ StagesTypeOK

(* The upgrade, which has no network, is only reached with the plugin data *)
(* that the download of this very execution wrote, with the region it      *)
(* found: an earlier execution's data never survive in the userspace.      *)
UpgradesWhatWasDownloaded ==
  stage = "upgrade" /\ MayGoOn =>
    /\ data.writer = "download" /\ data.of = execution
    /\ data.aws = OnAws /\ (OnAws => data.region)

(* As long as every unmount succeeds and nobody is killed, the packages    *)
(* that the dry run has tested are still there for the upgrade.            *)
PackagesStayCached ==
  stage = "upgrade" /\ MayGoOn /\ mishaps = 0 => cached = execution

(* DNF never resolves a transaction in which it could replace leapp.       *)
LeappNeverInTransaction ==
  (step = "dnf" => excluded) /\ (outcome = "upgraded" => excluded /\ hostExcluded)

(* The transaction that is run is the one that was downloaded and          *)
(* rehearsed by this execution, from packages that are still there, and    *)
(* without leapp itself in it.                                             *)
UpgradeIsTheRehearsed ==
    /\ UpgradesWhatWasDownloaded
    /\ PackagesStayCached
    /\ LeappNeverInTransaction
=============================================================================
