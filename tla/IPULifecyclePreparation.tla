---------------------- MODULE IPULifecyclePreparation ----------------------
(***************************************************************************)
(* Proofs that a passed InterimPreparationPhase means that everything the  *)
(* reboot into the upgrade needs is in place, and that a failure on the    *)
(* way leaves a machine that boots, with a leapp.db that survives every    *)
(* power loss (ForceSync).                                                 *)
(***************************************************************************)
EXTENDS IPULifecycleRefinement

(* A process that will pass the phase.                                     *)
Preparing == run.at = "in" /\ run.phase = Interim /\ ~run.err

(* In the phase that makes the boot entry: what each of its actors that    *)
(* has ended without an error has left, and which ones must have ended     *)
(* before it.                                                              *)
PreparationInv ==
  Preparing =>
    /\ "upgrade_initramfs_generator" \notin run.todo => bootFiles = "complete" /\ userspace
    /\ "dnf_dry_run" \notin run.todo => "upgrade_initramfs_generator" \notin run.todo
    /\ "add_upgrade_boot_entry" \notin run.todo =>
         "dnf_dry_run" \notin run.todo /\ entry /\ default = "upgrade"

-----------------------------------------------------------------------------
(* A running actor is in the phase it is tagged with.                      *)
LEMMA RunningPhase ==
  ASSUME HalfwayInv, NEW a \in Actors, Running(a)
  PROVE  run.phase = PhaseOf[a]
<1>1. a \in ActorsOf(run.phase)
  BY DEF Running, HalfwayInv, Active
<1> QED BY <1>1 DEF ActorsOf

(* The actors of the phase that matter for the reboot.                     *)
LEMMA InterimActors ==
  {"upgrade_initramfs_generator", "dnf_dry_run", "add_upgrade_boot_entry"}
    \subseteq ActorsOf(Interim)
  BY SMTT(60) DEF ActorsOf, Actors, PhaseOf, Interim

(* The other actors do not run in this phase.                              *)
LEMMA OtherPhases ==
  ASSUME HalfwayInv,
         \/ TargetUserspaceCreator \/ VerifyCheckResults \/ DnfPackageDownload
         \/ RemoveUpgradeBootEntry \/ RemoveBootFiles \/ DnfUpgradeTransaction
         \/ PreparePythonWorkround \/ ForceDefaultBoot \/ CreateResumeService
         \/ RemoveResumeService
  PROVE  run.phase # Interim
<1> DEFINE Others == {"target_userspace_creator", "verify_check_results",
                      "dnf_package_download", "remove_upgrade_boot_entry",
                      "remove_boot_files", "dnf_upgrade_transaction",
                      "prepare_python_workround", "force_default_boot",
                      "create_systemd_service", "remove_systemd_resume_service"}
<1>1. \A a \in Others : a \in Actors /\ PhaseOf[a] # Interim
  BY SMTT(60) DEF Actors, PhaseOf, TargetFacts, Reports, Download, Interim, InitRamStart,
     Preparation, RPMUpgrade, Finalization, FirstBoot
<1>2. \E a \in Others : Running(a)
  BY DEF TargetUserspaceCreator, VerifyCheckResults, DnfPackageDownload,
     RemoveUpgradeBootEntry, RemoveBootFiles, DnfUpgradeTransaction,
     PreparePythonWorkround, ForceDefaultBoot, CreateResumeService, RemoveResumeService,
     ActorEnds
<1> QED BY <1>1, <1>2, RunningPhase

(* No actor breaks PreparationInv.                                         *)
LEMMA PreparationKeptByActors ==
  ASSUME TypeOK, HalfwayInv, PreparationInv, Actor, Preparing'
  PROVE  PreparationInv'
<1>1. run \in Processes /\ \A f : Cost(f) \in {0, 1}
  BY DEF TypeOK, Cost
<1>2. run.at = "in" /\ run'.phase = run.phase /\ run.phase = Interim
  <2>1. run' # Idle
    BY DEF Preparing, Idle
  <2>2. run.at = "in" /\ StaysInPhase
    BY <2>1, ActorsStayInPhase
  <2> QED BY <2>2 DEF StaysInPhase, Preparing
<1>3. \A b, f, n, d : ActorEnds(b, f, n, d) =>
        f = "ok" /\ b \in run.todo /\ run'.todo = run.todo \ {b} /\ Preparing
  <2>1. SUFFICES ASSUME NEW b, NEW f, NEW n, NEW d, ActorEnds(b, f, n, d)
                 PROVE  f = "ok" /\ b \in run.todo /\ run'.todo = run.todo \ {b} /\ Preparing
    OBVIOUS
  <2>2. run' # Idle /\ ~run'.err
    BY DEF Preparing, Idle
  <2>3. f = "ok" /\ run' = [run EXCEPT !.todo = @ \ {b}]
    BY <1>1, <2>1, <2>2 DEF ActorEnds, Exit, Processes
  <2> QED BY <1>1, <1>2, <2>1, <2>2, <2>3 DEF ActorEnds, Running, Processes, Preparing
<1>4. \A b, f : \A n \in {0, 1} : \A d :
        ActorEnds(b, f, n, d) => f = "ok" /\ b \in run.todo /\ run'.todo = run.todo \ {b}
  BY <1>3
<1>5. CASE RemoveUpgradeArtifacts
  <2>1. /\ run'.todo = run.todo \ {"remove_upgrade_artifacts"}
        /\ UNCHANGED <<bootFiles, userspace, entry, default>>
    BY <1>4, <1>5 DEF RemoveUpgradeArtifacts
  <2>2. Preparing
    BY Zenon, <1>3, <1>5 DEF RemoveUpgradeArtifacts
  <2> QED BY <2>1, <2>2 DEF PreparationInv
<1>6. CASE UpgradeInitramfsGenerator
  <2>1. /\ run'.todo = run.todo \ {"upgrade_initramfs_generator"}
        /\ "upgrade_initramfs_generator" \in run.todo
        /\ bootFiles' = "complete" /\ userspace' /\ UNCHANGED <<entry, default>>
    BY SMTT(60), <1>1, <1>4, <1>6 DEF UpgradeInitramfsGenerator
  <2>2. Preparing
    BY Zenon, <1>3, <1>6 DEF UpgradeInitramfsGenerator
  <2> QED BY <2>1, <2>2 DEF PreparationInv
<1>7. CASE DnfDryRun
  <2>1. /\ run'.todo = run.todo \ {"dnf_dry_run"} /\ "dnf_dry_run" \in run.todo
        /\ "upgrade_initramfs_generator" \notin run.todo
        /\ UNCHANGED <<bootFiles, userspace, entry, default>>
    BY ZenonT(60), <1>1, <1>4, <1>7 DEF DnfDryRun, disk
  <2>2. Preparing
    BY Zenon, <1>3, <1>7 DEF DnfDryRun
  <2> QED BY <2>1, <2>2 DEF PreparationInv
<1>8. CASE AddUpgradeBootEntry
  <2>1. /\ run'.todo = run.todo \ {"add_upgrade_boot_entry"}
        /\ "dnf_dry_run" \notin run.todo /\ entry' /\ default' = "upgrade"
        /\ UNCHANGED <<bootFiles, userspace>>
    <3>1. PICK f \in Outcomes :
            /\ ActorEnds("add_upgrade_boot_entry", f,
                         IF db[run.ctx].content THEN Cost(f) ELSE 0, db)
            /\ GrubbyAdd \/ f # "ok"
      BY <1>8 DEF AddUpgradeBootEntry
    <3>2. f = "ok" /\ run'.todo = run.todo \ {"add_upgrade_boot_entry"}
      BY <1>3, <3>1
    <3>3. "dnf_dry_run" \notin run.todo /\ UNCHANGED <<bootFiles, userspace>>
      BY <1>8 DEF AddUpgradeBootEntry
    <3> QED BY <3>1, <3>2, <3>3 DEF GrubbyAdd
  <2>2. Preparing
    BY Zenon, <1>3, <1>8 DEF AddUpgradeBootEntry
  <2> QED BY <2>1, <2>2 DEF PreparationInv
<1> QED BY <1>2, <1>5, <1>6, <1>7, <1>8, OtherPhases DEF Actor

(* Nor does any other step.                                                *)
LEMMA PreparationInductive ==
  ASSUME TypeOK, HalfwayInv, PreparationInv, [Next]_vars
  PROVE  PreparationInv'
<1>1. SUFFICES ASSUME Preparing' PROVE PreparationInv'
  BY DEF PreparationInv
<1>2. CASE Actor
  BY <1>1, <1>2, PreparationKeptByActors
<1>3. CASE BeginPhase
  <2>1. PICK S \in SUBSET ActorsOf(run.phase + 1) :
          /\ db[run.ctx].kind # "rerun" => S = ActorsOf(run.phase + 1)
          /\ run' = [run EXCEPT !.at = "in", !.phase = @ + 1, !.todo = S]
    BY <1>3 DEF BeginPhase
  <2>2. run'.phase = run.phase + 1 /\ run'.todo = S /\ Active /\ run.phase + 1 = Interim
    BY <1>1, <1>3, <2>1 DEF TypeOK, Processes, BeginPhase, Active, Preparing
  <2>3. db[run.ctx].kind # "rerun"
    <3>1. /\ Kind = "rerun" => db[run.ctx].last >= Finalization
          /\ db[run.ctx].last = run.phase /\ run.phase \in Nat
      BY <1>3, <2>2, HalfwayExecution DEF HalfwayInv, BeginPhase
    <3> QED BY <2>2, <3>1 DEF Kind, Finalization, Interim
  <2> QED BY <2>1, <2>2, <2>3, InterimActors DEF PreparationInv
<1>4. CASE UNCHANGED vars
  BY <1>4 DEF vars, disk, PreparationInv, Preparing
<1>5. CASE Next /\ ~Actor /\ ~BeginPhase
  <2>1. run' = run \/ run'.at # "in"
    <3>1. CASE PhaseEnds
      BY <3>1 DEF PhaseEnds, Exit, Idle, TypeOK, Processes
    <3>2. CASE NothingToDo \/ PhaseFails \/ PowerLoss
      BY <3>2 DEF NothingToDo, PhaseFails, PowerLoss, Exit, Idle
    <3>3. CASE Script \/ PowerOn \/ ResumeServiceStart \/ Shutdown \/ EmergencyExit
               \/ PickOtherEntry \/ LeappUpgradeResume
      BY <3>3 DEF Script, RunLeapp, RunLeapp3, SetFailedFlag, ServiceEnds, PowerOn,
         ResumeServiceStart, Shutdown, EmergencyExit, PickOtherEntry, LeappUpgradeResume, Process
    <3>4. CASE LeappUpgrade \/ LeappPreupgrade \/ LeappRerun
      <4>1. \A c, p, u, r : Process(c, p, u, r).at = "between"
        BY DEF Process
      <4>2. \E c, p, u, r : run' = Process(c, p, u, r)
        <5>1. CASE LeappUpgrade
          BY <5>1, Zenon DEF LeappUpgrade
        <5>2. CASE LeappPreupgrade
          BY <5>2, Zenon DEF LeappPreupgrade
        <5>3. CASE LeappRerun
          BY <5>3, Zenon DEF LeappRerun
        <5> QED BY <3>4, <5>1, <5>2, <5>3
      <4> QED BY <4>1, <4>2
    <3> QED BY <1>5, <3>1, <3>2, <3>3, <3>4 DEF Next, Workflow, Operator
  <2>2. UNCHANGED <<bootFiles, userspace, entry, default>>
    BY <1>5 DEF Next, Workflow, Operator, NothingToDo, PhaseFails, PhaseEnds, Script,
       RunLeapp, RunLeapp3, SetFailedFlag, ServiceEnds, PowerOn, ResumeServiceStart,
       PowerLoss, LeappUpgrade, LeappUpgradeResume, LeappPreupgrade, LeappRerun, Shutdown,
       EmergencyExit, PickOtherEntry, disk
  <2> QED BY <1>1, <2>1, <2>2 DEF PreparationInv, Preparing
<1> QED BY <1>2, <1>3, <1>4, <1>5

(* Whoever passes the phase has what it promises.                          *)
LEMMA PreparationAlways == Spec => []PreparationInv
<1>1. Init => PreparationInv
  BY DEF Init, PreparationInv, Preparing, Idle
<1>2. TypeOK /\ HalfwayInv /\ PreparationInv /\ [Next]_vars => PreparationInv'
  BY PreparationInductive
<1> QED BY <1>1, <1>2, HalfwayAlways, PTL DEF Spec

(* The only step that records a phase of an execution that is there before *)
(* it is the end of that phase.                                            *)
LEMMA WhoRecords ==
  ASSUME ~CheckpointEarly, ForceSync, IInv, [Next]_vars,
         NEW c \in 1 .. Len(db), Len(db') = Len(db), db'[c].last # db[c].last
  PROVE  PhaseEnds /\ c = run.ctx /\ db'[c].last = run.phase
<1>1. ~Actor
  BY ActorsMove DEF SameRecords
<1>2. ~(LeappUpgrade \/ LeappPreupgrade \/ LeappRerun)
  <2>1. ASSUME NEW e, db' = Append(db, e) PROVE FALSE
    BY <2>1 DEF IInv, TypeOK
  <2> QED BY <2>1 DEF LeappUpgrade, LeappPreupgrade, LeappRerun, Store
<1>3. db' # db
  OBVIOUS
<1>4. PhaseEnds
  BY <1>1, <1>2, <1>3
  DEF Next, Workflow, Operator, BeginPhase, NothingToDo, PhaseFails, Script, RunLeapp,
      RunLeapp3, SetFailedFlag, ServiceEnds, PowerOn, ResumeServiceStart, PowerLoss,
      LeappUpgradeResume, Shutdown, EmergencyExit, PickOtherEntry, vars, IInv, RecordInv
<1>5. db' = [db EXCEPT ![run.ctx].last = run.phase]
  BY <1>4 DEF PhaseEnds, Store, Checkpointed
<1>6. c = run.ctx
  BY <1>5
<1> QED BY <1>4, <1>5, <1>6, ExecutionType DEF IInv, Execution

(* Once `leapp upgrade` has passed InterimPreparationPhase, entry, default *)
(* entry, kernel, initramfs and userspace are there.                       *)
THEOREM PreparationReached ==
  ASSUME ~CheckpointEarly, ForceSync
  PROVE  Spec => PreparationIsComplete
<1>1. IInv /\ PreparationInv /\ [Next]_vars
        => [\A c \in 1 .. Len(db) :
              /\ IsLastUpgrade(c) /\ Len(db') = Len(db)
              /\ db[c].last # Interim /\ db'[c].last = Interim
              => entry /\ default = "upgrade" /\ bootFiles = "complete" /\ userspace]_vars
  <2>1. SUFFICES ASSUME IInv, PreparationInv, [Next]_vars, NEW c \in 1 .. Len(db),
                        Len(db') = Len(db), db[c].last # Interim, db'[c].last = Interim
                 PROVE  entry /\ default = "upgrade" /\ bootFiles = "complete" /\ userspace
    OBVIOUS
  <2>2. PhaseEnds /\ run.phase = Interim
    BY <2>1, WhoRecords
  <2>3. Preparing /\ run.todo = {}
    BY <2>2 DEF PhaseEnds, Preparing
  <2> QED BY <2>1, <2>3 DEF PreparationInv
<1> QED BY <1>1, Inductive, PreparationAlways, PTL DEF Spec, PreparationIsComplete

-----------------------------------------------------------------------------
(* The machine can be booted, in one run of `leapp upgrade` with at most   *)
(* one failure or power loss.                                              *)

(* Where a process runs: in the system, or under do-upgrade.sh.            *)
PlaceInv == Active => host = "os" \/ (host = "initram" /\ script \in {"first", "second"})

(* An entry is the default one only while it is there.                     *)
DefaultInv == default = "upgrade" => entry

(* No process goes on to another phase after a failure, and a failure stops *)
(* InterimPreparationPhase at once (FailImmediately).                      *)
StoppedInv ==
  /\ run.at = "between" => ~run.err
  /\ run.at = "in" /\ run.phase = Interim /\ run.err => run.todo = {}

(* While the upgrade entry is the default one its files are complete and   *)
(* no step will spoil them: the phase has been passed, or nothing fails    *)
(* any more, or the actors that write the files have ended.  What ran      *)
(* before the phase does not run again.                                    *)
BootableEntry ==
  default = "upgrade" =>
    /\ bootFiles = "complete" /\ Len(db) = 1 /\ db[1].last >= Download
    /\ run.at = "in" => run.phase >= Interim
    /\ \/ db[1].last >= Interim /\ ~(run.at = "in" /\ run.phase = Interim)
       \/ /\ userspace
          /\ faults = 0 \/ (Preparing /\ "add_upgrade_boot_entry" \notin run.todo)

BootableInv == NeverBroken /\ Len(db) <= 1 /\ StoppedInv /\ BootableEntry

(* What the proof knows before a step.                                     *)
BeforeStep ==
  /\ TypeOK /\ HalfwayInv /\ PlaceInv /\ DefaultInv /\ EntryGoneInv
  /\ PreparationInv /\ BootableInv

-----------------------------------------------------------------------------
(* A process works where it has been started.                              *)
LEMMA PlaceStays ==
  ASSUME HalfwayInv, PlaceInv, [Next]_vars
  PROVE  PlaceInv'
<1>1. ASSUME run' = Idle PROVE PlaceInv'
  BY <1>1 DEF PlaceInv, Active, Idle
<1>2. CASE Actor
  <2>1. \A a, f, n, d : ActorEnds(a, f, n, d) =>
          Active /\ host' = host /\ (run' = Idle \/ script' = script)
    BY DEF ActorEnds, Exit, Running, Active
  <2>2. Active /\ host' = host /\ (run' = Idle \/ script' = script)
    <3>1. CASE VerifyCheckResults
      BY <3>1 DEF VerifyCheckResults, machine, Running, Active
    <3>2. CASE ~VerifyCheckResults
      BY ZenonT(60), <1>2, <2>1, <3>2
      DEF Actor, TargetUserspaceCreator, DnfPackageDownload, DnfDryRun, RemoveUpgradeArtifacts,
          UpgradeInitramfsGenerator, AddUpgradeBootEntry, RemoveUpgradeBootEntry,
          RemoveBootFiles, DnfUpgradeTransaction, PreparePythonWorkround, ForceDefaultBoot,
          CreateResumeService, RemoveResumeService
    <3> QED BY <3>1, <3>2
  <2> QED BY <1>1, <2>2 DEF PlaceInv
<1>3. CASE BeginPhase \/ NothingToDo \/ PhaseFails \/ PhaseEnds
  <2>1. Active /\ host' = host /\ (run' = Idle \/ script' = script)
    BY <1>3 DEF BeginPhase, NothingToDo, PhaseFails, PhaseEnds, Exit, machine, Active
  <2> QED BY <1>1, <2>1 DEF PlaceInv
<1>4. CASE RunLeapp \/ RunLeapp3
  <2>1. ~Active /\ host' = "initram" /\ (run' = run \/ script' \in {"first", "second"})
    BY <1>4 DEF RunLeapp, RunLeapp3, PlaceInv
  <2> QED BY <2>1 DEF PlaceInv, Active
<1>5. CASE \/ ResumeServiceStart \/ LeappUpgrade \/ LeappUpgradeResume \/ LeappPreupgrade
           \/ LeappRerun
  BY <1>5 DEF ResumeServiceStart, LeappUpgrade, LeappUpgradeResume, LeappPreupgrade, LeappRerun,
     AtPrompt, machine, PlaceInv
<1>6. CASE SetFailedFlag \/ ServiceEnds \/ PowerOn \/ Shutdown \/ EmergencyExit \/ PickOtherEntry
  <2>1. ~Active
    BY <1>6 DEF SetFailedFlag, ServiceEnds, PowerOn, Shutdown, EmergencyExit, PickOtherEntry,
       PlaceInv, Idle, Active
  <2>2. run' = run
    BY <1>6 DEF SetFailedFlag, ServiceEnds, PowerOn, Shutdown, EmergencyExit, PickOtherEntry
  <2> QED BY <2>1, <2>2 DEF PlaceInv, Active
<1>7. CASE PowerLoss
  BY <1>1, <1>7 DEF PowerLoss
<1>8. CASE UNCHANGED vars
  BY <1>8 DEF vars, machine, PlaceInv, Active
<1> QED BY <1>2, <1>3, <1>4, <1>5, <1>6, <1>7, <1>8 DEF Next, Workflow, Script, Operator

(* grubby makes an entry the default one when it adds it, and chooses      *)
(* another one when it removes it.                                         *)
LEMMA DefaultStays ==
  ASSUME DefaultInv, [Next]_vars
  PROVE  DefaultInv'
<1>1. CASE AddUpgradeBootEntry \/ RemoveUpgradeBootEntry
  BY <1>1 DEF AddUpgradeBootEntry, RemoveUpgradeBootEntry, GrubbyAdd, GrubbyRemove, DefaultInv
<1>2. CASE DnfUpgradeTransaction \/ ForceDefaultBoot
  BY <1>2 DEF DnfUpgradeTransaction, ForceDefaultBoot, DefaultInv
<1>3. CASE Actor /\ ~(\/ AddUpgradeBootEntry \/ RemoveUpgradeBootEntry
                      \/ DnfUpgradeTransaction \/ ForceDefaultBoot)
  <2>1. UNCHANGED <<entry, default>>
    BY <1>3 DEF Actor, TargetUserspaceCreator, VerifyCheckResults, DnfPackageDownload, DnfDryRun,
       RemoveUpgradeArtifacts, UpgradeInitramfsGenerator, RemoveBootFiles,
       PreparePythonWorkround, CreateResumeService, RemoveResumeService, disk
  <2> QED BY <2>1 DEF DefaultInv
<1>4. CASE ~Actor
  <2>1. UNCHANGED <<entry, default>>
    BY <1>4
    DEF Next, Workflow, BeginPhase, NothingToDo, PhaseFails, PhaseEnds, Script,
        RunLeapp, RunLeapp3, SetFailedFlag, ServiceEnds, PowerOn, ResumeServiceStart, PowerLoss,
        Operator, LeappUpgrade, LeappUpgradeResume, LeappPreupgrade, LeappRerun, Shutdown,
        EmergencyExit, PickOtherEntry, vars, disk
  <2> QED BY <2>1 DEF DefaultInv
<1> QED BY <1>1, <1>2, <1>3, <1>4

(* The process works on the only execution, in the phase after its last    *)
(* checkpoint or in the one of it.                                         *)
LEMMA OnlyExecution ==
  ASSUME TypeOK, HalfwayInv, Len(db) <= 1, Active
  PROVE  /\ run.ctx = 1 /\ Len(db) = 1 /\ db[1].last \in Nat /\ run.phase \in Nat
         /\ run.at = "in" => db[1].last \in {run.phase - 1, run.phase}
         /\ run.at = "between" => db[1].last = run.phase
<1>1. run.ctx \in 1 .. Len(db) /\ Len(db) \in Nat /\ db[run.ctx].last \in Nat /\ run.phase \in Nat
  BY HalfwayExecution
<1>2. run.ctx = 1 /\ Len(db) = 1
  <2>1. \A n \in Nat : \A c \in 1 .. n : n <= 1 => c = 1 /\ n = 1
    OBVIOUS
  <2>2. Len(db) <= 1
    OBVIOUS
  <2> QED BY <1>1, <2>1, <2>2
<1>3. /\ run.at = "in" => db[run.ctx].last \in {run.phase - 1, run.phase}
      /\ run.at = "between" => db[run.ctx].last = run.phase
  BY DEF HalfwayInv
<1> QED BY <1>1, <1>2, <1>3

(* An actor keeps the only execution, and its checkpoint or that of the    *)
(* phase.                                                                  *)
LEMMA ActorKeepsExecution ==
  ASSUME TypeOK, HalfwayInv, Len(db) <= 1, Actor
  PROVE  /\ run.at = "in" /\ Len(db) = 1 /\ Len(db') = 1
         /\ db[1].last \in {run.phase - 1, run.phase} /\ run.phase \in Nat
         /\ db'[1].last \in {db[1].last, run.phase}
         /\ run' = Idle \/ StaysInPhase
<1>1. run.at = "in" /\ PhaseRecords /\ (run' = Idle \/ StaysInPhase)
  BY ActorsStayInPhase
<1>2. /\ run.ctx = 1 /\ Len(db) = 1 /\ run.phase \in Nat
      /\ db[1].last \in {run.phase - 1, run.phase}
  BY <1>1, OnlyExecution DEF Active
<1> QED BY <1>1, <1>2 DEF PhaseRecords

(* An actor's end keeps the phase stopped once it has failed.              *)
LEMMA StoppedKept ==
  ASSUME TypeOK, StoppedInv, Actor
  PROVE  StoppedInv'
<1>1. run \in Processes
  BY DEF TypeOK
<1>2. \A a, f, n, d : ActorEnds(a, f, n, d) => StoppedInv'
  <2>1. SUFFICES ASSUME NEW a, NEW f, NEW n, NEW d, ActorEnds(a, f, n, d)
                 PROVE  StoppedInv'
    OBVIOUS
  <2>2. a \in run.todo /\ run.at = "in"
    BY <2>1 DEF ActorEnds, Running
  <2>3. CASE run' = Idle
    BY <2>3 DEF StoppedInv, Idle
  <2>4. CASE run' = [run EXCEPT !.todo = @ \ {a}]
    BY <1>1, <2>2, <2>4 DEF StoppedInv, Processes
  <2>5. CASE run' = [run EXCEPT !.err = TRUE,
                                !.todo = IF run.phase = Interim THEN {} ELSE @ \ {a}]
    BY <1>1, <2>2, <2>5 DEF StoppedInv, Processes
  <2> QED BY <2>1, <2>3, <2>4, <2>5 DEF ActorEnds, Exit
<1>3. CASE VerifyCheckResults
  <2>1. PICK b \in BOOLEAN :
          run' = [run EXCEPT !.todo = @ \ {"verify_check_results"}, !.stop = b]
    BY <1>3 DEF VerifyCheckResults
  <2>2. run.at = "in" /\ "verify_check_results" \in run.todo
    BY <1>3 DEF VerifyCheckResults, Running
  <2> QED BY <1>1, <2>1, <2>2 DEF StoppedInv, Processes
<1>4. CASE Actor /\ ~VerifyCheckResults
  BY ZenonT(60), <1>2, <1>4
  DEF Actor, TargetUserspaceCreator, DnfPackageDownload, DnfDryRun, RemoveUpgradeArtifacts,
      UpgradeInitramfsGenerator, AddUpgradeBootEntry, RemoveUpgradeBootEntry,
      RemoveBootFiles, DnfUpgradeTransaction, PreparePythonWorkround, ForceDefaultBoot,
      CreateResumeService, RemoveResumeService
<1> QED BY <1>3, <1>4

(* An actor of an early phase: the upgrade entry is not the default one.   *)
LEMMA EarlyActors ==
  ASSUME BeforeStep, TargetUserspaceCreator \/ VerifyCheckResults \/ DnfPackageDownload
  PROVE  BootableEntry'
<1> DEFINE Early == {"target_userspace_creator", "verify_check_results",
                     "dnf_package_download"}
<1>1. \A a \in Early : a \in Actors /\ PhaseOf[a] <= Download
  BY SMTT(60) DEF Actors, PhaseOf, TargetFacts, Reports, Download
<1>2. \E a \in Early : Running(a)
  BY DEF TargetUserspaceCreator, VerifyCheckResults, DnfPackageDownload, ActorEnds
<1>3. run.at = "in" /\ run.phase <= Download
  BY <1>1, <1>2, RunningPhase DEF Running, BeforeStep
<1>4. default # "upgrade"
  <2>1. run.phase \in Nat
    BY <1>3, HalfwayExecution DEF BeforeStep, Active
  <2> QED BY <1>3, <2>1 DEF BeforeStep, BootableInv, BootableEntry, Download, Interim
<1>5. default' = default
  BY DEF TargetUserspaceCreator, VerifyCheckResults, DnfPackageDownload, disk
<1> QED BY <1>4, <1>5 DEF BootableEntry

(* An actor of a late phase leaves the files alone, unless the entry is    *)
(* gone already.                                                           *)
LEMMA LateActors ==
  ASSUME BeforeStep,
         \/ RemoveUpgradeBootEntry \/ RemoveBootFiles \/ DnfUpgradeTransaction
         \/ PreparePythonWorkround \/ ForceDefaultBoot \/ CreateResumeService
         \/ RemoveResumeService
  PROVE  BootableEntry'
<1> DEFINE Late == {"remove_upgrade_boot_entry", "remove_boot_files",
                    "dnf_upgrade_transaction", "prepare_python_workround",
                    "force_default_boot", "create_systemd_service",
                    "remove_systemd_resume_service"}
<1>1. \A a \in Late : a \in Actors /\ PhaseOf[a] > Interim
  BY SMTT(60) DEF Actors, PhaseOf, Interim, InitRamStart, Preparation, RPMUpgrade,
     Finalization, FirstBoot
<1>2. \E a \in Late : Running(a)
  BY DEF RemoveUpgradeBootEntry, RemoveBootFiles, DnfUpgradeTransaction,
     PreparePythonWorkround, ForceDefaultBoot, CreateResumeService, RemoveResumeService,
     ActorEnds
<1>3. run.at = "in" /\ run.phase > Interim
  BY <1>1, <1>2, RunningPhase DEF Running, BeforeStep
<1>4. /\ Len(db') = 1 /\ db[1].last \in {run.phase - 1, run.phase} /\ run.phase \in Nat
      /\ db'[1].last \in {db[1].last, run.phase} /\ (run' = Idle \/ StaysInPhase)
  BY ActorKeepsExecution DEF BeforeStep, BootableInv, Actor
<1>5. db'[1].last >= Interim /\ db'[1].last >= Download
  BY <1>3, <1>4 DEF Interim, Download
<1>6. run'.at = "in" => run'.phase > Interim
  BY <1>3, <1>4 DEF StaysInPhase, Idle
<1>7. default' = "upgrade" => default = "upgrade"
  BY DEF RemoveUpgradeBootEntry, GrubbyRemove, RemoveBootFiles, DnfUpgradeTransaction,
     PreparePythonWorkround, ForceDefaultBoot, CreateResumeService, RemoveResumeService
<1>8. default = "upgrade" => bootFiles' = bootFiles
  <2>1. CASE RemoveBootFiles
    BY <2>1, FilesRemoved DEF BeforeStep, DefaultInv
  <2>2. CASE ~RemoveBootFiles
    BY <2>2 DEF RemoveUpgradeBootEntry, DnfUpgradeTransaction, PreparePythonWorkround,
       ForceDefaultBoot, CreateResumeService, RemoveResumeService
  <2> QED BY <2>1, <2>2
<1>9. default = "upgrade" => bootFiles = "complete"
  BY DEF BeforeStep, BootableInv, BootableEntry
<1>10. run'.at = "in" => run'.phase >= Interim /\ run'.phase # Interim
  BY <1>4, <1>6 DEF StaysInPhase, Idle, Interim
<1> QED BY <1>4, <1>5, <1>7, <1>8, <1>9, <1>10 DEF BootableEntry

(* InterimPreparationPhase: the entry is made the default one after the    *)
(* files it points to are complete, and a failure is the last one.         *)
LEMMA InterimBootable ==
  ASSUME MaxFaults <= 1, BeforeStep,
         \/ RemoveUpgradeArtifacts \/ UpgradeInitramfsGenerator \/ DnfDryRun
         \/ AddUpgradeBootEntry
  PROVE  BootableEntry'
<1>1. /\ TypeOK /\ HalfwayInv /\ run \in Processes /\ faults \in 0 .. 1
      /\ \A f : Cost(f) = IF f = "ok" THEN 0 ELSE 1
  BY LifecycleAssumption DEF BeforeStep, TypeOK, Cost
<1> DEFINE Here == {"remove_upgrade_artifacts", "upgrade_initramfs_generator",
                    "dnf_dry_run", "add_upgrade_boot_entry"}
<1>2. \A a \in Here : a \in Actors /\ PhaseOf[a] = Interim
  BY SMTT(60) DEF Actors, PhaseOf, Interim
<1>3. \E a \in Here : Running(a)
  BY DEF RemoveUpgradeArtifacts, UpgradeInitramfsGenerator, DnfDryRun, AddUpgradeBootEntry,
     ActorEnds
<1>4. run.at = "in" /\ run.phase = Interim /\ run.todo # {}
  BY <1>1, <1>2, <1>3, RunningPhase DEF Running
<1>5. /\ Len(db) = 1 /\ Len(db') = 1 /\ db'[1].last >= Download
      /\ run'.at = "in" => run'.phase >= Interim
  <2>1. /\ Len(db) = 1 /\ Len(db') = 1 /\ db[1].last \in {run.phase - 1, run.phase}
        /\ db'[1].last \in {db[1].last, run.phase} /\ (run' = Idle \/ StaysInPhase)
    BY <1>1, ActorKeepsExecution DEF BeforeStep, BootableInv, Actor
  <2>2. db'[1].last >= Download
    BY <1>4, <2>1 DEF Interim, Download
  <2>3. run'.at = "in" => run'.phase >= Interim
    BY <1>4, <2>1 DEF StaysInPhase, Idle, Interim
  <2> QED BY <2>1, <2>2, <2>3
<1>6. Preparing
  BY <1>1, <1>4 DEF BeforeStep, BootableInv, StoppedInv, Preparing, Processes
<1>7. default = "upgrade" => bootFiles = "complete" /\ userspace
        /\ (faults = 0 \/ "add_upgrade_boot_entry" \notin run.todo)
  BY <1>4 DEF BeforeStep, BootableInv, BootableEntry
<1>9. \A a, f : \A n \in {0, 1} : \A d : ActorEnds(a, f, n, d) =>
        /\ a \in run.todo /\ faults' \in 0 .. 1
        /\ faults = 0 \/ n = 1 => faults' = 0
        /\ faults = 0 => n = 0
        /\ f = "ok" => Preparing' /\ run'.todo = run.todo \ {a}
  <2>1. SUFFICES ASSUME NEW a, NEW f, NEW n \in {0, 1}, NEW d, ActorEnds(a, f, n, d)
                 PROVE  /\ a \in run.todo /\ faults' \in 0 .. 1
                        /\ faults = 0 \/ n = 1 => faults' = 0
                        /\ faults = 0 => n = 0
                        /\ f = "ok" => Preparing' /\ run'.todo = run.todo \ {a}
    OBVIOUS
  <2>2. a \in run.todo /\ n <= faults /\ faults' = faults - n
    BY <2>1 DEF ActorEnds, Running
  <2>3. ASSUME f = "ok" PROVE Preparing' /\ run'.todo = run.todo \ {a}
    <3>1. run' = [run EXCEPT !.todo = @ \ {a}]
      BY <2>1, <2>3 DEF ActorEnds
    <3> QED BY <1>1, <1>6, <3>1 DEF Preparing, Processes
  <2>4. faults \in {0, 1}
    BY <1>1
  <2> QED BY <2>2, <2>3, <2>4
<1>10. SUFFICES ASSUME default' = "upgrade"
                PROVE  /\ bootFiles' = "complete" /\ userspace'
                       /\ faults' = 0 \/ (Preparing' /\ "add_upgrade_boot_entry" \notin run'.todo)
  BY <1>5 DEF BootableEntry
<1>11. CASE RemoveUpgradeArtifacts
  <2>1. PICK n \in {0, 1} : ActorEnds("remove_upgrade_artifacts", "ok", n, db)
    BY <1>11 DEF RemoveUpgradeArtifacts
  <2>2. UNCHANGED <<default, bootFiles, userspace>>
    BY <1>11 DEF RemoveUpgradeArtifacts
  <2> QED BY <1>7, <1>9, <1>10, <2>1, <2>2
<1>12. CASE UpgradeInitramfsGenerator
  <2>1. PICK f \in Outcomes :
          /\ ActorEnds("upgrade_initramfs_generator", f, IF userspace THEN Cost(f) ELSE 0,
                       IF f = "ok" THEN [db EXCEPT ![run.ctx].content = TRUE] ELSE db)
          /\ bootFiles' = (IF f = "ok" THEN "complete" ELSE "partial")
             \/ (f # "ok" /\ bootFiles' = bootFiles)
          /\ UNCHANGED <<default, userspace>>
    BY <1>12 DEF UpgradeInitramfsGenerator
  <2>2. default = "upgrade" /\ userspace
    BY <1>7, <1>10, <2>1
  <2>3. PICK n \in {0, 1} : n = (IF userspace THEN Cost(f) ELSE 0)
    BY <1>1
  <2>4. /\ "upgrade_initramfs_generator" \in run.todo
        /\ faults = 0 \/ n = 1 => faults' = 0
        /\ faults = 0 => n = 0
    BY <1>9, <2>1, <2>3
  <2>5. faults = 0
    BY <1>6, <1>7, <2>2, <2>4 DEF BeforeStep, PreparationInv
  <2>6. f = "ok"
    BY <1>1, <2>2, <2>3, <2>4, <2>5
  <2> QED BY <2>1, <2>2, <2>4, <2>5, <2>6
<1>13. CASE DnfDryRun
  <2>1. PICK f \in Outcomes :
          /\ ActorEnds("dnf_dry_run", f, IF userspace THEN Cost(f) ELSE 0, db)
          /\ UNCHANGED <<default, bootFiles, userspace>>
    BY <1>13 DEF DnfDryRun, disk
  <2>2. PICK n \in {0, 1} : n = (IF userspace THEN Cost(f) ELSE 0)
    BY <1>1
  <2>3. "dnf_dry_run" \in run.todo /\ (faults = 0 => faults' = 0)
    BY <1>9, <2>1, <2>2
  <2>4. default = "upgrade" /\ faults = 0
    BY <1>6, <1>7, <1>10, <2>1, <2>3 DEF BeforeStep, PreparationInv
  <2> QED BY <1>7, <2>1, <2>3, <2>4
<1>14. CASE AddUpgradeBootEntry
  <2>1. PICK f \in Outcomes :
          /\ ActorEnds("add_upgrade_boot_entry", f, IF db[run.ctx].content THEN Cost(f) ELSE 0, db)
          /\ \/ db[run.ctx].content
             \/ f # "ok" /\ UNCHANGED default
             \/ f # "ok" /\ GrubbyRemove
          /\ f = "ok" => db[run.ctx].content
    BY <1>14 DEF AddUpgradeBootEntry
  <2>2. "dnf_dry_run" \notin run.todo /\ UNCHANGED <<bootFiles, userspace>>
    BY <1>14 DEF AddUpgradeBootEntry
  <2>3. bootFiles = "complete" /\ userspace
    BY <1>6, <2>2 DEF BeforeStep, PreparationInv
  <2>4. PICK n \in {0, 1} : n = (IF db[run.ctx].content THEN Cost(f) ELSE 0)
    BY <1>1
  <2>5. /\ "add_upgrade_boot_entry" \in run.todo
        /\ faults = 0 \/ n = 1 => faults' = 0
        /\ f = "ok" => Preparing' /\ run'.todo = run.todo \ {"add_upgrade_boot_entry"}
    BY <1>9, <2>1, <2>4
  <2>6. CASE db[run.ctx].content
    BY <1>1, <2>2, <2>3, <2>4, <2>5, <2>6
  <2>7. CASE ~db[run.ctx].content
    <3>1. default = "upgrade"
      BY <1>10, <2>1, <2>7 DEF GrubbyRemove
    <3> QED BY <1>7, <2>2, <2>3, <2>5, <3>1
  <2> QED BY <2>6, <2>7
<1> QED BY <1>11, <1>12, <1>13, <1>14

(* The steps of the workflow that are not actors'.                         *)
LEMMA WorkflowBootable ==
  ASSUME BeforeStep, BeginPhase \/ NothingToDo \/ PhaseFails \/ PhaseEnds
  PROVE  Len(db') <= 1 /\ StoppedInv' /\ BootableEntry'
<1>1. /\ run \in Processes /\ TypeOK /\ HalfwayInv /\ Active /\ Len(db) <= 1
      /\ UNCHANGED <<default, bootFiles, userspace, faults>>
  BY DEF BeforeStep, TypeOK, BootableInv, BeginPhase, NothingToDo, PhaseFails,
     PhaseEnds, disk, Active
<1>2. /\ run.ctx = 1 /\ Len(db) = 1 /\ db[1].last \in Nat /\ run.phase \in Nat
      /\ run.at = "in" => db[1].last \in {run.phase - 1, run.phase}
      /\ run.at = "between" => db[1].last = run.phase
  BY <1>1, OnlyExecution
<1>3. CASE BeginPhase
  <2>1. run.at = "between" /\ db' = db /\ db[1].last = run.phase
    BY <1>2, <1>3 DEF BeginPhase
  <2>2. PICK S : run' = [run EXCEPT !.at = "in", !.phase = @ + 1, !.todo = S]
    BY <1>3 DEF BeginPhase
  <2>3. run'.at = "in" /\ run'.phase = run.phase + 1 /\ run'.err = run.err
    BY <1>1, <2>2 DEF Processes
  <2>4. ~Preparing
    BY <2>1 DEF Preparing
  <2>5. ~run.err
    BY <2>1 DEF BeforeStep, BootableInv, StoppedInv
  <2>6. BootableEntry'
    <3>1. SUFFICES ASSUME default = "upgrade" PROVE BootableEntry'
      BY <1>1 DEF BootableEntry
    <3>2. /\ bootFiles = "complete" /\ db[1].last >= Download
          /\ db[1].last >= Interim \/ (userspace /\ faults = 0)
      BY <2>4, <3>1 DEF BeforeStep, BootableInv, BootableEntry
    <3>3. run'.phase >= Interim /\ (db[1].last >= Interim => run'.phase # Interim)
      BY <1>2, <2>1, <2>3, <3>2 DEF Download, Interim
    <3> QED BY <1>1, <1>2, <2>1, <3>2, <3>3 DEF BootableEntry
  <2> QED BY <1>1, <2>1, <2>3, <2>5, <2>6 DEF StoppedInv
<1>4. CASE NothingToDo \/ PhaseFails
  <2>1. db' = db /\ run' = Idle /\ ~Preparing
    BY <1>4 DEF NothingToDo, PhaseFails, Exit, Preparing
  <2>2. run'.at = "idle"
    BY <2>1 DEF Idle
  <2> QED BY <1>1, <2>1, <2>2 DEF BeforeStep, BootableInv, BootableEntry, StoppedInv
<1>5. CASE PhaseEnds
  <2>1. run.at = "in" /\ db' = [db EXCEPT ![run.ctx].last = run.phase]
    BY <1>5 DEF PhaseEnds, Store, Checkpointed
  <2>2. db[1] \in Execution /\ Len(db') = 1 /\ db'[1].last = run.phase
    <3>1. db[1] \in Execution
      BY <1>1, <1>2, ExecutionType
    <3> QED BY <1>1, <1>2, <2>1, <3>1 DEF Execution, TypeOK
  <2>3. run'.at # "in" /\ ~run'.err
    BY <1>1, <1>5 DEF PhaseEnds, Exit, Idle, Processes
  <2>4. default = "upgrade" => bootFiles = "complete" /\ run.phase >= Interim
    BY <2>1 DEF BeforeStep, BootableInv, BootableEntry
  <2>5. run.phase >= Interim => run.phase >= Download
    BY <1>2 DEF Interim, Download
  <2> QED BY <1>1, <2>2, <2>3, <2>4, <2>5 DEF BootableEntry, StoppedInv
<1> QED BY <1>3, <1>4, <1>5

(* The machine, the scripts and the operator.                              *)
LEMMA MachineBootable ==
  ASSUME ForceSync, MaxRuns = 1, MaxFaults <= 1, BeforeStep,
         \/ Script \/ PowerOn \/ ResumeServiceStart \/ PowerLoss \/ Operator
         \/ UNCHANGED vars
  PROVE  Len(db') <= 1 /\ StoppedInv' /\ BootableEntry'
<1>1. /\ TypeOK /\ Len(db) <= 1 /\ StoppedInv /\ BootableEntry
      /\ Len(db) \in Nat /\ faults \in 0 .. 1
  BY LifecycleAssumption DEF BeforeStep, TypeOK, BootableInv
<1>2. CASE LeappUpgrade \/ LeappPreupgrade
  <2>1. Len(db) < MaxRuns /\ default' = default
    BY <1>2 DEF LeappUpgrade, LeappPreupgrade, disk
  <2>2. Len(db) = 0
    BY <1>1, <2>1
  <2>3. PICK e, r : db' = Append(db, e) /\ run' = Process(Len(db) + 1, 0, r, FALSE)
    BY <1>2 DEF LeappUpgrade, LeappPreupgrade, Store
  <2>4. Len(db') = 1
    BY <1>1, <2>2, <2>3 DEF TypeOK
  <2>5. run'.at # "in" /\ ~run'.err
    BY <2>3 DEF Process
  <2> QED BY <1>1, <2>1, <2>2, <2>4, <2>5 DEF BootableEntry, StoppedInv
<1>3. CASE LeappRerun
  <2>1. Len(db) < MaxRuns /\ \E c \in 1 .. Len(db) : TRUE
    BY <1>3 DEF LeappRerun
  <2> QED BY <1>1, <2>1
<1>4. CASE PowerLoss
  <2>1. /\ db' = db /\ faults' = 0 /\ run' = Idle
        /\ UNCHANGED <<default, bootFiles, userspace>>
    BY <1>1, <1>4 DEF PowerLoss, BeforeStep, EntryGoneInv, disk
  <2>2. run'.at = "idle"
    BY <2>1 DEF Idle
  <2> QED BY <1>1, <2>1, <2>2 DEF BootableEntry, StoppedInv
<1>5. CASE \/ RunLeapp \/ RunLeapp3 \/ ResumeServiceStart \/ LeappUpgradeResume
           \/ SetFailedFlag \/ ServiceEnds \/ PowerOn \/ Shutdown \/ EmergencyExit
           \/ PickOtherEntry \/ UNCHANGED vars
  <2>1. UNCHANGED <<db, faults, default, bootFiles, userspace>>
    BY <1>5 DEF RunLeapp, RunLeapp3, ResumeServiceStart, LeappUpgradeResume, SetFailedFlag,
       ServiceEnds, PowerOn, Shutdown, EmergencyExit, PickOtherEntry, disk, vars
  <2>2. run' = run \/ (run.at # "in" /\ run'.at = "between" /\ ~run'.err)
    <3>1. CASE RunLeapp \/ RunLeapp3
      <4>1. script \in {"start", "between"} /\ host = "initram"
        BY <3>1 DEF RunLeapp, RunLeapp3
      <4>2. run.at # "in"
        BY <4>1 DEF BeforeStep, PlaceInv, Active
      <4> QED BY <3>1, <4>2 DEF RunLeapp, RunLeapp3, Process
    <3>2. CASE ResumeServiceStart \/ LeappUpgradeResume
      BY <3>2 DEF ResumeServiceStart, LeappUpgradeResume, AtPrompt, Idle, Process
    <3>3. CASE \/ SetFailedFlag \/ ServiceEnds \/ PowerOn \/ Shutdown \/ EmergencyExit
               \/ PickOtherEntry \/ UNCHANGED vars
      BY <3>3 DEF SetFailedFlag, ServiceEnds, PowerOn, Shutdown, EmergencyExit,
         PickOtherEntry, vars
    <3> QED BY <1>5, <3>1, <3>2, <3>3
  <2> QED BY <1>1, <2>1, <2>2 DEF BootableEntry, StoppedInv, Preparing
<1> QED BY <1>2, <1>3, <1>4, <1>5 DEF Script, Operator

(* Only the boot loader finds an entry without its files.                  *)
LEMMA WhoBreaks ==
  ASSUME BeforeStep, [Next]_vars
  PROVE  NeverBroken'
<1>1. host # "broken" /\ (default = "upgrade" => bootFiles = "complete")
  BY DEF BeforeStep, BootableInv, NeverBroken, BootableEntry
<1>2. CASE Actor
  <2>1. \A a, f, n, d : ActorEnds(a, f, n, d) => host' = host
    BY DEF ActorEnds
  <2>2. CASE VerifyCheckResults
    BY <1>1, <2>2 DEF VerifyCheckResults, machine, NeverBroken
  <2>3. CASE ~VerifyCheckResults
    <3>1. host' = host
      BY ZenonT(60), <1>2, <2>1, <2>3
      DEF Actor, TargetUserspaceCreator, DnfPackageDownload, DnfDryRun, RemoveUpgradeArtifacts,
          UpgradeInitramfsGenerator, AddUpgradeBootEntry, RemoveUpgradeBootEntry,
          RemoveBootFiles, DnfUpgradeTransaction, PreparePythonWorkround, ForceDefaultBoot,
          CreateResumeService, RemoveResumeService
    <3> QED BY <1>1, <3>1 DEF NeverBroken
  <2> QED BY <2>2, <2>3
<1>3. CASE PowerOn
  BY <1>1, <1>3 DEF PowerOn, NeverBroken
<1>4. CASE ~Actor /\ ~PowerOn
  BY <1>1, <1>4
  DEF NeverBroken, Next, Workflow, BeginPhase, NothingToDo, PhaseFails, PhaseEnds, Script,
      RunLeapp, RunLeapp3, SetFailedFlag, ServiceEnds, ResumeServiceStart, PowerLoss,
      Operator, LeappUpgrade, LeappUpgradeResume, LeappPreupgrade, LeappRerun, Shutdown,
      EmergencyExit, PickOtherEntry, vars, machine
<1> QED BY <1>2, <1>3, <1>4

LEMMA BootableInductive ==
  ASSUME ForceSync, MaxRuns = 1, MaxFaults <= 1, BeforeStep, [Next]_vars
  PROVE  BootableInv'
<1>1. NeverBroken'
  BY WhoBreaks
<1>2. CASE Actor
  <2>1. Len(db') <= 1
    BY <1>2, ActorKeepsExecution DEF BeforeStep, BootableInv
  <2>2. StoppedInv'
    BY <1>2, StoppedKept DEF BeforeStep, BootableInv
  <2>3. BootableEntry'
    BY <1>2, EarlyActors, LateActors, InterimBootable DEF Actor
  <2> QED BY <1>1, <2>1, <2>2, <2>3 DEF BootableInv
<1>3. CASE BeginPhase \/ NothingToDo \/ PhaseFails \/ PhaseEnds
  BY <1>1, <1>3, WorkflowBootable DEF BootableInv
<1>4. CASE \/ Script \/ PowerOn \/ ResumeServiceStart \/ PowerLoss \/ Operator
           \/ UNCHANGED vars
  BY <1>1, <1>4, MachineBootable DEF BootableInv
<1> QED BY <1>2, <1>3, <1>4 DEF Next, Workflow

(* However `leapp upgrade` fails once, the default boot entry of the       *)
(* machine has a kernel and an initramfs, whatever counts as an executed   *)
(* phase.                                                                  *)
THEOREM StaysBootable ==
  ASSUME ForceSync, MaxRuns = 1, MaxFaults <= 1
  PROVE  Spec => []NeverBroken
<1>1. Init => PlaceInv /\ DefaultInv /\ BootableInv
  BY DEF Init, PlaceInv, Active, DefaultInv, BootableInv, NeverBroken, StoppedInv, BootableEntry,
     Idle
<1>2. HalfwayInv /\ PlaceInv /\ [Next]_vars => PlaceInv'
  BY PlaceStays
<1>3. DefaultInv /\ [Next]_vars => DefaultInv'
  BY DefaultStays
<1>4. /\ TypeOK /\ HalfwayInv /\ PlaceInv /\ DefaultInv /\ EntryGoneInv
      /\ PreparationInv /\ BootableInv /\ [Next]_vars
      => BootableInv'
  BY BootableInductive DEF BeforeStep
<1>5. BootableInv => NeverBroken
  BY DEF BootableInv
<1> QED
  BY <1>1, <1>2, <1>3, <1>4, <1>5, HalfwayAlways, EntryGoneAlways, PreparationAlways, PTL DEF Spec
=============================================================================
