---------------------------- MODULE IPULifecycle ----------------------------
(***************************************************************************)
(* The life of an in-place upgrade across reboots: the leapp commands      *)
(* (upgrade, upgrade --resume, preupgrade, rerun), the phases of           *)
(* IPUWorkflow, the executions and checkpoints kept in leapp.db, the       *)
(* upgrade boot entry and the kernel/initramfs it points to, do-upgrade.sh *)
(* in the upgrade initramfs, and leapp_resume.service on the upgraded      *)
(* system.  Power may fail between any two steps, and an actor may report  *)
(* an error or die half way through its work.                              *)
(*                                                                         *)
(* The leapp framework (Workflow.run, the audit database) is not part of   *)
(* the repository.  What this module needs of it is marked external.       *)
(***************************************************************************)
EXTENDS Naturals, Sequences

CONSTANTS
  MaxRuns,          \* bound: executions stored in leapp.db
  MaxFaults,        \* bound: power losses and actor failures in a behaviour
  CheckpointEarly,  \* external: TRUE if a phase counts as executed as soon as
                    \* one of its actors has finished, FALSE if it must succeed
  ForceSync,        \* LEAPP_DATABASE_FORCE_SYNC_ON is set
  HandResume        \* the operator may type `leapp upgrade --resume`

ASSUME LifecycleAssumption ==
  /\ MaxRuns \in Nat \ {0}
  /\ MaxFaults \in Nat
  /\ CheckpointEarly \in BOOLEAN
  /\ ForceSync \in BOOLEAN
  /\ HandResume \in BOOLEAN

VARIABLES
  host,       \* what the machine is running
  run,        \* the leapp process that is running, or Idle
  script,     \* where do-upgrade.sh is
  db,         \* leapp.db: the executions, each with its last checkpoint
  durable,    \* the part of leapp.db that survives a power loss
  pkgs,       \* the installed packages
  entry,      \* is there a boot loader entry for the upgrade kernel?
  default,    \* the default boot loader entry
  bootFiles,  \* the upgrade kernel and initramfs in /boot
  userspace,  \* the target userspace container is complete
  home,       \* content of /root/tmp_leapp_py3
  svc,        \* leapp_resume.service is enabled
  svcJob,     \* ... and systemd has not started it in this boot yet
  faults      \* failures still allowed

machine == <<host, script, svcJob>>
disk    == <<pkgs, entry, default, bootFiles, userspace, home, svc>>
vars    == <<machine, run, db, durable, disk, faults>>

-----------------------------------------------------------------------------
(* The phases of IPUWorkflow, in order.                                    *)
TargetFacts     == 3
Reports         == 5
Download        == 6
Interim         == 7
InitRamStart    == 8
Preparation     == 10
RPMUpgrade      == 11
Finalization    == 14
FirstBoot       == 15
Phases          == 1 .. FirstBoot

(* The phase each actor is tagged with.  Only the actors that change the   *)
(* state modelled here are named; the other phases have none.              *)
PhaseOf ==
  [ target_userspace_creator      |-> TargetFacts,
    verify_check_results          |-> Reports,
    dnf_package_download          |-> Download,
    remove_upgrade_artifacts      |-> Interim,
    upgrade_initramfs_generator   |-> Interim,
    dnf_dry_run                   |-> Interim,
    add_upgrade_boot_entry        |-> Interim,
    remove_upgrade_boot_entry     |-> InitRamStart,
    remove_boot_files             |-> Preparation,
    dnf_upgrade_transaction       |-> RPMUpgrade,
    prepare_python_workround      |-> RPMUpgrade,
    force_default_boot            |-> Finalization,
    create_systemd_service        |-> Finalization,
    remove_systemd_resume_service |-> FirstBoot ]

Actors      == DOMAIN PhaseOf
ActorsOf(p) == {a \in Actors : PhaseOf[a] = p}

Kinds     == {"preupgrade", "upgrade", "rerun"}
Execution == [kind : Kinds, last : 0 .. FirstBoot, content : BOOLEAN]
HomeFiles == {"leapp3", "failed_flag"}

(* The record of a leapp process: the execution it works on, the phase it  *)
(* is in or has just left, the actors of the phase still to run, the last  *)
(* phase to execute, and what its actors have asked for so far.            *)
Processes ==
  [at : {"idle", "between", "in"}, ctx : Nat, phase : 0 .. FirstBoot,
   todo : SUBSET Actors, until : {0, Reports, FirstBoot},
   resume : BOOLEAN, err : BOOLEAN, stop : BOOLEAN]

Idle == [at |-> "idle", ctx |-> 0, phase |-> 0, todo |-> {}, until |-> 0,
         resume |-> FALSE, err |-> FALSE, stop |-> FALSE]

Process(c, from, until, resume) ==
  [at |-> "between", ctx |-> c, phase |-> from, todo |-> {}, until |-> until,
   resume |-> resume, err |-> FALSE, stop |-> FALSE]

(* Mutant: the oldest execution is resumed.                                *)
IsFirstUpgrade(c) ==
  /\ c \in 1 .. Len(db)
  /\ db[c].kind = "upgrade"
  /\ \A d \in 1 .. Len(db) : db[d].kind = "upgrade" => c <= d

(* fetch_last_upgrade_context: the newest execution of kind 'upgrade'.     *)
IsLastUpgrade(c) ==
  /\ c \in 1 .. Len(db)
  /\ db[c].kind = "upgrade"
  /\ \A d \in 1 .. Len(db) : db[d].kind = "upgrade" => d <= c

(* disable_database_sync: only `leapp upgrade` (not --resume) and          *)
(* `leapp preupgrade` write leapp.db without waiting for the disk.         *)
Synced(resume) == ForceSync \/ resume

Store(d, resume) ==
  /\ db' = d
  /\ durable' = IF Synced(resume) THEN d ELSE durable

-----------------------------------------------------------------------------
(* Workflow.run, external.                                                 *)

(* The process ends; do-upgrade.sh looks at its exit status.               *)
Exit(rc) ==
  /\ run' = Idle
  /\ script' = IF script \in {"first", "second"}
               THEN IF rc # 0 THEN "failed"
                    ELSE IF script = "first" THEN "between" ELSE "done"
               ELSE script

(* Enter the next phase; only `leapp rerun` restricts the actors by tag.   *)
BeginPhase ==
  /\ run.at = "between"
  /\ run.phase < run.until
  /\ \E S \in SUBSET ActorsOf(run.phase + 1) :
       /\ db[run.ctx].kind # "rerun" => S = ActorsOf(run.phase + 1)
       /\ run' = [run EXCEPT !.at = "in", !.phase = @ + 1, !.todo = S]
  /\ UNCHANGED <<machine, db, durable, disk, faults>>

(* Every phase has been skipped: there is nothing left to resume.          *)
NothingToDo ==
  /\ run.at = "between"
  /\ run.phase = run.until
  /\ Exit(0)
  /\ UNCHANGED <<host, svcJob, db, durable, disk, faults>>

(* Mutants: the checkpoint names the next phase, or RPMUpgradePhase leaves *)
(* none.                                                                   *)
CheckpointedAhead(d)  == [d EXCEPT ![run.ctx].last = run.phase + 1]
CheckpointedBehind(d) == [d EXCEPT ![run.ctx].last = IF run.phase = RPMUpgrade THEN @ ELSE run.phase]

Checkpointed(d) == [d EXCEPT ![run.ctx].last = run.phase]

(* The phases whose flags end the process: request_restart_after_phase,    *)
(* is_checkpoint and restart_after_phase.                                  *)
(* Mutants: a flag is missing from the phase.                              *)
NoStopAfterInterim(p)      == p \in {RPMUpgrade, Finalization}
NoStopAfterFinalization(p) == p \in {Interim, RPMUpgrade}

StopsAfter(p) == p \in {Interim, RPMUpgrade, Finalization}

PhaseFails ==
  /\ run.at = "in" /\ run.todo = {} /\ run.err
  /\ Exit(1)
  /\ UNCHANGED <<host, svcJob, db, durable, disk, faults>>

PhaseEnds ==
  /\ run.at = "in" /\ run.todo = {} /\ ~run.err
  /\ Store(Checkpointed(db), run.resume)
  /\ \/ /\ run.stop
        /\ \E rc \in {0, 1} : Exit(rc)
     \/ /\ ~run.stop
        /\ run.phase = run.until \/ StopsAfter(run.phase)
        /\ Exit(0)
     \/ /\ ~run.stop
        /\ run.phase # run.until /\ ~StopsAfter(run.phase)
        /\ run' = [run EXCEPT !.at = "between"]
        /\ UNCHANGED script
  /\ UNCHANGED <<host, svcJob, disk, faults>>

(* Actor a ends with an outcome: "ok", "error" (StopActorExecutionError is *)
(* reported and the phase goes on, unless its policy is FailImmediately)   *)
(* or "crash" (an unhandled exception ends the process).  d is leapp.db    *)
(* with what a has produced; cost is what the outcome takes from faults.   *)
Running(a) == run.at = "in" /\ a \in run.todo
Outcomes == {"ok", "error", "crash"}
Cost(f)  == IF f = "ok" THEN 0 ELSE 1

ActorEnds(a, f, cost, d) ==
  /\ Running(a)
  /\ cost <= faults
  /\ faults' = faults - cost
  /\ \/ /\ f = "ok"
        /\ run' = [run EXCEPT !.todo = @ \ {a}]
        /\ Store(IF CheckpointEarly THEN Checkpointed(d) ELSE d, run.resume)
        /\ UNCHANGED script
     \/ /\ f = "error"
        /\ run' = [run EXCEPT !.err = TRUE,
                              !.todo = IF run.phase = Interim THEN {} ELSE @ \ {a}]
        /\ Store(IF CheckpointEarly /\ run.phase # Interim
                 THEN Checkpointed(d) ELSE d, run.resume)
        /\ UNCHANGED script
     \/ /\ f = "crash"
        /\ Exit(1)
        /\ Store(d, run.resume)
  /\ UNCHANGED <<host, svcJob>>

-----------------------------------------------------------------------------
(* The actors.                                                             *)

(* The target userspace is removed and built again; what is left when that *)
(* fails cannot be used.                                                   *)
TargetUserspaceCreator ==
  \E f \in Outcomes :
    /\ ActorEnds("target_userspace_creator", f, Cost(f), db)
    /\ \/ userspace' = (f = "ok")
       \/ f # "ok" /\ userspace' = userspace
    /\ UNCHANGED <<pkgs, entry, default, bootFiles, home, svc>>

(* With an inhibitor in the report: RequestStopAfterPhase.                 *)
VerifyCheckResults ==
  /\ Running("verify_check_results")
  /\ \E inhibited \in BOOLEAN :
       run' = [run EXCEPT !.todo = @ \ {"verify_check_results"}, !.stop = inhibited]
  /\ Store(IF CheckpointEarly THEN Checkpointed(db) ELSE db, run.resume)
  /\ UNCHANGED <<machine, disk, faults>>

(* The download and the dry run work in the target userspace.              *)
DnfPackageDownload ==
  \E f \in Outcomes :
    /\ ActorEnds("dnf_package_download", f, IF userspace THEN Cost(f) ELSE 0, db)
    /\ f = "ok" => userspace
    /\ UNCHANGED disk

DnfDryRun ==
  \E f \in Outcomes :
    /\ "upgrade_initramfs_generator" \notin run.todo
    /\ ActorEnds("dnf_dry_run", f, IF userspace THEN Cost(f) ELSE 0, db)
    /\ f = "ok" => userspace
    /\ UNCHANGED disk

(* A failure to remove the directory is only logged.                       *)
RemoveUpgradeArtifacts ==
  \E removed \in BOOLEAN :
    /\ ActorEnds("remove_upgrade_artifacts", "ok", IF removed THEN 0 ELSE 1, db)
    /\ home' = IF removed THEN {} ELSE home
    /\ UNCHANGED <<pkgs, entry, default, bootFiles, userspace, svc>>

(* The files in /boot are overwritten in place: a failure in the middle    *)
(* leaves them truncated.  BootContent is produced at the very end.        *)
UpgradeInitramfsGenerator ==
  \E f \in Outcomes :
    /\ ActorEnds("upgrade_initramfs_generator", f, IF userspace THEN Cost(f) ELSE 0,
                 IF f = "ok" THEN [db EXCEPT ![run.ctx].content = TRUE] ELSE db)
    /\ f = "ok" => userspace
    /\ \/ bootFiles' = IF f = "ok" THEN "complete" ELSE "partial"
       \/ f # "ok" /\ bootFiles' = bootFiles
    /\ UNCHANGED <<pkgs, entry, default, userspace, home, svc>>

(* Mutant: the removal does nothing.                                       *)
GrubbyKeeps == UNCHANGED <<entry, default>>

(* grubby --remove-kernel: when the default entry goes another one of the  *)
(* installed kernels takes its place.                                      *)
GrubbyRemove ==
  /\ entry' = FALSE
  /\ default' \in IF default # "upgrade" THEN {default}
                 ELSE IF pkgs = "target" THEN {"source", "target"} ELSE {"source"}

(* Mutant: --make-default is forgotten.                                    *)
GrubbyAddOnly == entry' = TRUE /\ UNCHANGED default

GrubbyAdd == entry' = TRUE /\ default' = "upgrade"

(* The old entry is removed first, then grubby --add-kernel --make-default *)
(* creates the new one.  Further grubby or zipl calls may fail after that. *)
AddUpgradeBootEntry ==
  /\ "dnf_dry_run" \notin run.todo
  /\ \E f \in Outcomes :
       /\ ActorEnds("add_upgrade_boot_entry", f,
                    IF db[run.ctx].content THEN Cost(f) ELSE 0, db)
       /\ f = "ok" => db[run.ctx].content
       /\ \/ GrubbyAdd /\ db[run.ctx].content
          \/ f # "ok" /\ UNCHANGED <<entry, default>>
          \/ f # "ok" /\ db[run.ctx].content /\ GrubbyRemove
  /\ UNCHANGED <<pkgs, bootFiles, userspace, home, svc>>

(* Without BootContent the actor stops with an error; a failing grubby or  *)
(* zipl raises CalledProcessError, which nobody catches.  On ARM with a    *)
(* directory of its own for the entries there is no call to grubby: that   *)
(* entry is one of the firmware, see UpgradeBootOrder.                     *)
RemoveUpgradeBootEntry ==
  /\ Running("remove_upgrade_boot_entry")
  /\ \/ /\ db[run.ctx].content
        /\ \E f \in {"ok", "crash"} :
             /\ ActorEnds("remove_upgrade_boot_entry", f, Cost(f), db)
             /\ \/ GrubbyRemove
                \/ f = "crash" /\ UNCHANGED <<entry, default>>
     \/ /\ ~db[run.ctx].content
        /\ ActorEnds("remove_upgrade_boot_entry", "error", 0, db)
        /\ UNCHANGED <<entry, default>>
  /\ UNCHANGED <<pkgs, bootFiles, userspace, home, svc>>

(* Skipped without BootContent.  The files are removed one by one, and that  *)
(* one of them cannot be removed is only logged.                           *)
RemoveBootFiles ==
  /\ Running("remove_boot_files")
  /\ \/ /\ db[run.ctx].content
        /\ \E failures \in {0, 1} :
             /\ ActorEnds("remove_boot_files", "ok", failures, db)
             /\ \/ failures = 0 /\ bootFiles' = "absent"
                \/ failures = 1 /\ bootFiles # "absent" /\ bootFiles' = "partial"
                \/ failures = 1 /\ bootFiles' = bootFiles
     \/ /\ ~db[run.ctx].content
        /\ ActorEnds("remove_boot_files", "ok", 0, db)
        /\ UNCHANGED bootFiles
  /\ UNCHANGED <<pkgs, entry, default, userspace, home, svc>>

(* The rhel-upgrade transaction.  It may fail before it has changed        *)
(* anything, half way, or after the last package (a scriptlet).  The       *)
(* scriptlets of the new kernel may make it the default.  The userspace is *)
(* removed afterwards; a failure of that is ignored.                       *)
DnfUpgradeTransaction ==
  /\ \/ /\ userspace
        /\ \E f \in Outcomes :
             /\ ActorEnds("dnf_upgrade_transaction", f, Cost(f), db)
             /\ pkgs' \in IF f = "ok" \/ pkgs = "target" THEN {"target"}
                         ELSE {pkgs, "mixed", "target"}
             /\ userspace' \in IF f = "ok" THEN BOOLEAN ELSE {userspace}
             /\ default' \in IF pkgs' = "target" THEN {default, "target"} ELSE {default}
     \/ /\ ~userspace
        /\ \E f \in {"error", "crash"} : ActorEnds("dnf_upgrade_transaction", f, 0, db)
        /\ UNCHANGED <<pkgs, userspace, default>>
  /\ UNCHANGED <<entry, bootFiles, home, svc>>

(* The directory is removed, the failed flag with it, and leapp3 written.  *)
(* The actor consumes no message, so nothing orders it in its phase.       *)
PreparePythonWorkround ==
  \E f \in {"ok", "crash"} :
    /\ ActorEnds("prepare_python_workround", f, Cost(f), db)
    /\ home' \in IF f = "ok" THEN {{"leapp3"}} ELSE {home, {}, {"leapp3"}}
    /\ UNCHANGED <<pkgs, entry, default, bootFiles, userspace, svc>>

(* Every failure to set the default kernel is only logged.                 *)
ForceDefaultBoot ==
  /\ ActorEnds("force_default_boot", "ok", 0, db)
  /\ default' \in {default, "target"}
  /\ UNCHANGED <<pkgs, entry, bootFiles, userspace, home, svc>>

(* An old symlink is removed before the new one is made.                   *)
CreateResumeService ==
  \E f \in Outcomes :
    /\ ActorEnds("create_systemd_service", f, Cost(f), db)
    /\ svc' \in IF f = "ok" THEN {TRUE} ELSE {svc, FALSE}
    /\ UNCHANGED <<pkgs, entry, default, bootFiles, userspace, home>>

RemoveResumeService ==
  \E f \in {"ok", "crash"} :
    /\ ActorEnds("remove_systemd_resume_service", f, Cost(f), db)
    /\ svc' \in IF f = "ok" THEN {FALSE} ELSE {svc, FALSE}
    /\ UNCHANGED <<pkgs, entry, default, bootFiles, userspace, home>>

Actor ==
  \/ TargetUserspaceCreator  \/ VerifyCheckResults     \/ DnfPackageDownload
  \/ RemoveUpgradeArtifacts  \/ UpgradeInitramfsGenerator \/ DnfDryRun
  \/ AddUpgradeBootEntry     \/ RemoveUpgradeBootEntry \/ RemoveBootFiles
  \/ DnfUpgradeTransaction   \/ PreparePythonWorkround
  \/ ForceDefaultBoot        \/ CreateResumeService    \/ RemoveResumeService

Workflow == BeginPhase \/ NothingToDo \/ PhaseFails \/ PhaseEnds \/ Actor

-----------------------------------------------------------------------------
(* do-upgrade.sh in the upgrade initramfs.                                 *)

(* The flag of an earlier failure is looked for, and only warned about.    *)
(* /usr/bin/leapp cannot work on the Python of the upgraded packages,      *)
(* which is what leapp3 is for; half way through the transaction it may.   *)
RunLeapp ==
  /\ host = "initram" /\ script = "start"
  /\ \/ /\ pkgs # "target"
        /\ \E c \in 1 .. Len(db) :
             /\ IsLastUpgrade(c)
             /\ run' = Process(c, db[c].last, FirstBoot, TRUE)
        /\ script' = "first"
     \/ /\ \/ pkgs # "source"
           \/ \A c \in 1 .. Len(db) : ~IsLastUpgrade(c)
        /\ script' = "failed"
        /\ UNCHANGED run
  /\ UNCHANGED <<host, svcJob, db, durable, disk, faults>>

RunLeapp3 ==
  /\ host = "initram" /\ script = "between"
  /\ \/ /\ "leapp3" \in home
        /\ \E c \in 1 .. Len(db) :
             /\ IsLastUpgrade(c)
             /\ run' = Process(c, db[c].last, FirstBoot, TRUE)
        /\ script' = "second"
     \/ /\ "leapp3" \notin home
        /\ script' = "failed"
        /\ UNCHANGED run
  /\ UNCHANGED <<host, svcJob, db, durable, disk, faults>>

SetFailedFlag ==
  /\ host = "initram" /\ script = "failed"
  /\ home' = home \cup {"failed_flag"}
  /\ script' = "flagged"
  /\ UNCHANGED <<host, svcJob, run, db, durable, faults>>
  /\ UNCHANGED <<pkgs, entry, default, bootFiles, userspace, svc>>

(* upgrade.service: ExecStopPost isolates reboot.target in any case, and   *)
(* OnFailure isolates emergency.target when the script has failed.         *)
ServiceEnds ==
  /\ host = "initram" /\ script \in {"done", "flagged"}
  /\ \/ host' = "off"
     \/ script = "flagged" /\ host' = "emergency"
  /\ script' = "none"
  /\ durable' = db
  /\ UNCHANGED <<svcJob, run, db, disk, faults>>

(* Leaving the emergency shell starts upgrade.target again.                *)
EmergencyExit ==
  /\ host = "emergency"
  /\ host' = "initram"
  /\ script' = "start"
  /\ UNCHANGED <<svcJob, run, db, durable, disk, faults>>

-----------------------------------------------------------------------------
(* The machine and its operator.                                           *)

(* The firmware and boot loader, external.                                 *)
PowerOn ==
  /\ host = "off"
  /\ \/ /\ default = "upgrade" /\ bootFiles = "complete"
        /\ host' = "initram" /\ script' = "start" /\ UNCHANGED svcJob
     \/ /\ default = "upgrade" /\ bootFiles # "complete"
        /\ host' = "broken" /\ UNCHANGED <<script, svcJob>>
     \/ /\ default # "upgrade"
        /\ host' = "os" /\ svcJob' = svc /\ UNCHANGED script
  /\ UNCHANGED <<run, db, durable, disk, faults>>

(* The upgrade entry does not boot: another one is picked by hand.         *)
PickOtherEntry ==
  /\ host = "broken"
  /\ host' = "os" /\ svcJob' = svc
  /\ UNCHANGED <<script, run, db, durable, disk, faults>>

PowerLoss ==
  /\ host # "off" /\ faults > 0
  /\ host' = "off" /\ script' = "none" /\ svcJob' = FALSE
  /\ run' = Idle
  /\ db' \in {db, durable}
  /\ durable' = db'
  /\ faults' = faults - 1
  /\ UNCHANGED disk

Shutdown ==
  /\ host \in {"os", "emergency"} /\ run = Idle
  /\ host' = "off" /\ svcJob' = FALSE
  /\ durable' = db
  /\ UNCHANGED <<script, run, db, disk, faults>>

(* systemd starts leapp_resume.service once per boot.                      *)
ResumeServiceStart ==
  /\ host = "os" /\ svcJob /\ run = Idle
  /\ svcJob' = FALSE
  /\ \/ /\ "leapp3" \in home
        /\ \E c \in 1 .. Len(db) :
             /\ IsLastUpgrade(c)
             /\ run' = Process(c, db[c].last, FirstBoot, TRUE)
     \/ /\ \/ "leapp3" \notin home
           \/ \A c \in 1 .. Len(db) : ~IsLastUpgrade(c)
        /\ UNCHANGED run
  /\ UNCHANGED <<host, script, db, durable, disk, faults>>

(* The commands an operator types; one leapp at a time.                    *)
AtPrompt == host = "os" /\ run = Idle /\ ~svcJob

LeappUpgrade ==
  /\ AtPrompt /\ pkgs # "target" /\ Len(db) < MaxRuns
  /\ Store(Append(db, [kind |-> "upgrade", last |-> 0, content |-> FALSE]), FALSE)
  /\ run' = Process(Len(db) + 1, 0, FirstBoot, FALSE)
  /\ UNCHANGED <<machine, disk, faults>>

LeappUpgradeResume ==
  /\ HandResume
  /\ AtPrompt /\ pkgs # "target"
  /\ \E c \in 1 .. Len(db) :
       /\ IsLastUpgrade(c)
       /\ run' = Process(c, db[c].last, FirstBoot, TRUE)
  /\ UNCHANGED <<machine, db, durable, disk, faults>>

LeappPreupgrade ==
  /\ AtPrompt /\ pkgs # "target" /\ Len(db) < MaxRuns
  /\ Store(Append(db, [kind |-> "preupgrade", last |-> 0, content |-> FALSE]), FALSE)
  /\ run' = Process(Len(db) + 1, 0, Reports, FALSE)
  /\ UNCHANGED <<machine, disk, faults>>

(* The execution is cloned and its FirstBoot checkpoints are deleted.      *)
LeappRerun ==
  /\ AtPrompt /\ Len(db) < MaxRuns
  /\ \E c \in 1 .. Len(db) :
       /\ IsLastUpgrade(c) /\ db[c].last = FirstBoot
       /\ Store(Append(db, [kind |-> "rerun", last |-> Finalization,
                            content |-> db[c].content]), TRUE)
       /\ run' = Process(Len(db) + 1, Finalization, FirstBoot, TRUE)
  /\ UNCHANGED <<machine, disk, faults>>

Init ==
  /\ host = "os" /\ script = "none" /\ svcJob = FALSE
  /\ run = Idle
  /\ db = << >> /\ durable = << >>
  /\ pkgs = "source" /\ default = "source"
  /\ entry = FALSE /\ bootFiles = "absent" /\ userspace = FALSE
  /\ home = {} /\ svc = FALSE
  /\ faults = MaxFaults

Script   == RunLeapp \/ RunLeapp3 \/ SetFailedFlag \/ ServiceEnds
Operator == LeappUpgrade \/ LeappUpgradeResume \/ LeappPreupgrade \/ LeappRerun
            \/ Shutdown \/ EmergencyExit \/ PickOtherEntry

Next == Workflow \/ Script \/ PowerOn \/ ResumeServiceStart \/ PowerLoss \/ Operator

Spec == Init /\ [][Next]_vars

(* The machine and the programs on it keep going, and the operator reboots *)
(* once an upgrade boot entry has been made, as `leapp upgrade` asks.      *)
Progress == Workflow \/ Script \/ PowerOn \/ ResumeServiceStart
Fairness ==
  /\ WF_vars(Progress)
  /\ SF_vars(ResumeServiceStart)
  /\ WF_vars(Shutdown /\ default = "upgrade")

FairSpec == Spec /\ Fairness

-----------------------------------------------------------------------------
(* Properties.                                                             *)

TypeOK ==
  /\ host \in {"off", "os", "initram", "emergency", "broken"}
  /\ script \in {"none", "start", "first", "between", "second", "failed", "done",
                 "flagged"}
  /\ svcJob \in BOOLEAN
  /\ run \in Processes
  /\ db \in Seq(Execution)
  /\ durable \in Seq(Execution)
  /\ pkgs \in {"source", "mixed", "target"}
  /\ entry \in BOOLEAN
  /\ default \in {"source", "upgrade", "target"}
  /\ bootFiles \in {"absent", "partial", "complete"}
  /\ userspace \in BOOLEAN
  /\ home \in SUBSET HomeFiles
  /\ svc \in BOOLEAN
  /\ faults \in 0 .. MaxFaults

(* Of the files the upgrade boot entry points to none is removed while the *)
(* entry exists, whatever the order of failures, reboots and resumptions   *)
(* (removeupgradebootentry runs four phases before removebootfiles, and    *)
(* its outcome is remembered across the reboots between them).             *)
BootFilesOutliveEntry ==
  [][/\ bootFiles' # bootFiles
     /\ bootFiles' = "absent" \/ Running("remove_boot_files")
     => ~entry]_vars

(* A boot loader entry that starts the upgrade again is gone before the    *)
(* first package is touched: dnfupgradetransaction never runs while it is  *)
(* there, even when a newer execution is resumed than the one that made it. *)
TransactionAfterEntryRemoved == [][pkgs' # pkgs => ~entry]_vars

(* A phase after RPMUpgradePhase runs only once all packages have been     *)
(* upgraded, whichever of the processes reaches it.                        *)
LatePhasesNeedTarget ==
  run.at = "in" /\ run.phase > RPMUpgrade => pkgs = "target"

(* FirstBootPhase runs in the booted target system, neither in the upgrade *)
(* initramfs nor before the upgrade.                                       *)
FirstBootOnTarget ==
  run.at = "in" /\ run.phase = FirstBoot => host = "os" /\ pkgs = "target"

(* A transaction that has upgraded the packages is never started again on  *)
(* them, after a crash or a power loss that came before its checkpoint.    *)
TransactionNotRepeated == Running("dnf_upgrade_transaction") => pkgs # "target"

(* leapp_resume.service is enabled only on an upgraded system whose last   *)
(* upgrade has its RPMUpgradePhase checkpoint: the service would otherwise *)
(* run the transaction in the booted system.                               *)
ResumeServiceOnTarget ==
  svc => /\ pkgs = "target"
         /\ \A c \in 1 .. Len(db) : IsLastUpgrade(c) => db[c].last >= RPMUpgrade

(* When `leapp upgrade` has passed InterimPreparationPhase ("Reboot the    *)
(* system to continue"), everything the reboot needs is in place.          *)
PreparationIsComplete ==
  [][\A c \in 1 .. Len(db) :
       /\ IsLastUpgrade(c) /\ Len(db') = Len(db)
       /\ db[c].last # Interim /\ db'[c].last = Interim
       => entry /\ default = "upgrade" /\ bootFiles = "complete" /\ userspace]_vars

(* One failure or power loss in one run of `leapp upgrade` never leaves a  *)
(* machine whose default boot entry has no kernel or initramfs.            *)
NeverBroken == host # "broken"

(* The machine does not reboot into the upgrade for ever: again and again  *)
(* it reaches a system or a shell the operator can work in.                *)
NoBootLoop == []<>(run = Idle /\ host \in {"os", "emergency", "broken"})

(* Once prepared, the upgrade goes through the reboots up to FirstBootPhase *)
(* of the target system, and leapp_resume.service is removed, unless       *)
(* something fails.                                                        *)
Finished ==
  \E c \in 1 .. Len(db) : IsLastUpgrade(c) /\ db[c].last = FirstBoot /\ ~svc
PreparedFinishes ==
  (default = "upgrade" /\ run = Idle /\ faults = MaxFaults) ~> (Finished \/ faults < MaxFaults)

(* What do-upgrade.sh says of its flag: "set the upgrade failed flag to    *)
(* prevent the upgrade from running again when the emergency shell exits   *)
(* and the upgrade.target is restarted".                                   *)
FlagBlocksRerun ==
  [][host = "initram" /\ script = "start" /\ "failed_flag" \in home
       => run' = Idle]_vars

(* The lifecycle implements the upgrade as InPlaceUpgrade describes it.    *)
World == IF host \in {"initram", "emergency"} THEN "interim"
         ELSE IF host = "os" THEN "os" ELSE "down"
UpgradeFinished ==
  \E c \in 1 .. Len(db) : db[c].kind = "upgrade" /\ db[c].last = FirstBoot

Upgrade == INSTANCE InPlaceUpgrade
  WITH world <- World, armed <- entry, system <- pkgs, finished <- UpgradeFinished

(* Whatever fails and whenever the power goes: the packages change only in *)
(* the interim system, only with the upgrade entry removed, never from     *)
(* target back, and the upgrade finishes only on the booted target system. *)
ImplementsUpgrade == Upgrade!Spec
=============================================================================
