---------------------- MODULE IPULifecycleRefinement ----------------------
(***************************************************************************)
(* Proofs about the upgrade boot entry, and that IPULifecycle implements   *)
(* InPlaceUpgrade.  They need a leapp.db that survives every power loss    *)
(* (ForceSync); the refinement also needs that nobody resumes an upgrade   *)
(* by hand (HandResume = FALSE).                                           *)
(***************************************************************************)
EXTENDS IPULifecycleProofs

(* With ForceSync: once InitRamStartPhase is recorded, the entry is gone.  *)
EntryInv ==
  /\ \A c \in 1 .. Len(db) :
       IsLastUpgrade(c) /\ db[c].last >= InitRamStart => ~entry
  /\ (/\ run.at = "in" /\ run.phase = InitRamStart /\ ~run.err
      /\ "remove_upgrade_boot_entry" \notin run.todo) => ~entry
  /\ default = "upgrade" => entry

(* Without `leapp upgrade --resume` typed by hand: what is resumed on the  *)
(* installed system is past the transaction.                               *)
ResumedInv ==
  Active /\ host = "os" /\ run.resume => db[run.ctx].last >= RPMUpgrade

(* Processes, do-upgrade.sh, checkpoints, transaction and service agree in *)
(* every reachable state (IInv); where the upgrade entry is gone, and what *)
(* may be resumed in the installed system.                                 *)
InductiveInvariant == IInv /\ EntryInv /\ ResumedInv

-----------------------------------------------------------------------------
(* The upgrade boot entry, when leapp.db is written synchronously.         *)

(* A process past the first phases is an upgrade's, on the newest one.     *)
LEMMA UpgradeProcess ==
  ASSUME IInv, run.at = "in", run.phase \in Interim .. Finalization
  PROVE  /\ run.ctx \in 1 .. Len(db) /\ IsLastUpgrade(run.ctx)
         /\ db[run.ctx].kind = "upgrade" /\ db[run.ctx].last = run.phase - 1
         /\ \A c \in 1 .. Len(db) : IsLastUpgrade(c) => c = run.ctx
<1> USE DEF IInv
<1>1. Active
  BY DEF Active
<1>2. Kind = "upgrade"
  <2>1. Kind # "preupgrade"
    BY <1>1 DEF ProcessInv, Interim, Finalization, Reports
  <2>2. Kind # "rerun"
    <3>1. /\ run.phase = db[run.ctx].last + 1 /\ run.ctx \in 1 .. Len(db)
          /\ db[run.ctx].last \in 0 .. FirstBoot
      BY <1>1, CurrentExecution DEF ProcessInv
    <3>2. db[run.ctx].last < Finalization
      BY SMTT(60), <3>1 DEF Interim, Finalization, FirstBoot
    <3> QED BY SMTT(60), <3>1, <3>2 DEF RecordInv, Recorded, Kind, Finalization, FirstBoot
  <2> QED BY SMTT(60), <1>1, <2>1, <2>2, CurrentExecution DEF Kinds
<1>3. /\ run.ctx \in 1 .. Len(db) /\ IsLastUpgrade(run.ctx)
      /\ db[run.ctx].last = run.phase - 1
  BY <1>1, <1>2, CurrentExecution DEF ProcessInv
<1> QED BY <1>2, <1>3 DEF IsLastUpgrade, Kind

(* What leaves the entry, the records and the phase alone.                 *)
LEMMA EntryKept ==
  ASSUME EntryInv, entry' = entry, default' \in {default, "target"},
         db' = db \/ (TypeOK /\ SameRecords(db')),
         (/\ run'.at = "in" /\ run'.phase = InitRamStart /\ ~run'.err
          /\ "remove_upgrade_boot_entry" \notin run'.todo) =>
         (/\ run.at = "in" /\ run.phase = InitRamStart /\ ~run.err
          /\ "remove_upgrade_boot_entry" \notin run.todo)
  PROVE  EntryInv'
<1>1. \A c \in 1 .. Len(db') :
        /\ c \in 1 .. Len(db) /\ db'[c].last = db[c].last
        /\ IsLastUpgrade(c)' => IsLastUpgrade(c)
  BY DEF IsLastUpgrade, SameRecords
<1> QED BY <1>1 DEF EntryInv

(* How an actor's end moves the process.                                   *)
ActorMoves(a) ==
  /\ run.at = "in" /\ a \in run.todo
  /\ \/ run' = Idle
     \/ \E t \in SUBSET run.todo : run' = [run EXCEPT !.err = TRUE, !.todo = t]
     \/ \E b \in BOOLEAN : run' = [run EXCEPT !.todo = run.todo \ {a}, !.stop = b]

(* Every outcome of an actor is such a move.                               *)
LEMMA ActorEndsMoves ==
  ASSUME NEW a, NEW f, NEW STATE cost, NEW STATE d, TypeOK, ActorEnds(a, f, cost, d)
  PROVE  ActorMoves(a)
<1>1. run.at = "in" /\ a \in run.todo
  BY DEF ActorEnds, Running
<1>2. CASE run' = [run EXCEPT !.todo = @ \ {a}]
  <2>1. run' = [run EXCEPT !.todo = run.todo \ {a}, !.stop = run.stop]
    BY <1>2 DEF TypeOK, Processes
  <2>2. run.stop \in BOOLEAN
    BY DEF TypeOK, Processes
  <2> QED BY <1>1, <2>1, <2>2 DEF ActorMoves
<1>3. CASE run' = [run EXCEPT !.err = TRUE,
                              !.todo = IF run.phase = Interim THEN {} ELSE @ \ {a}]
  BY <1>1, <1>3 DEF ActorMoves
<1>4. CASE run' = Idle
  BY <1>1, <1>4 DEF ActorMoves
<1> QED BY <1>2, <1>3, <1>4 DEF ActorEnds, Exit

(* An actor other than a successful removal of the entry keeps EntryInv.   *)
LEMMA EntryKeptByActor ==
  ASSUME IInv, EntryInv, NEW a, ActorMoves(a), a # "remove_upgrade_boot_entry" \/ run' = Idle \/ run'.err,
         SameRecords(db'), entry' = entry, default' \in {default, "target"}
  PROVE  EntryInv'
<1>1. run \in Processes /\ TypeOK /\ run.at = "in"
  BY DEF IInv, TypeOK, ActorMoves
<1>2. ASSUME run'.at = "in", run'.phase = InitRamStart, ~run'.err,
             "remove_upgrade_boot_entry" \notin run'.todo
      PROVE  /\ run.phase = InitRamStart /\ ~run.err
             /\ "remove_upgrade_boot_entry" \notin run.todo
  <2>1. run' # Idle
    BY <1>2 DEF Idle
  <2>2. ~ \E t \in SUBSET run.todo : run' = [run EXCEPT !.err = TRUE, !.todo = t]
    BY <1>1, <1>2 DEF Processes
  <2>3. PICK b \in BOOLEAN : run' = [run EXCEPT !.todo = run.todo \ {a}, !.stop = b]
    BY <2>1, <2>2 DEF ActorMoves
  <2> QED BY <1>1, <1>2, <2>1, <2>3 DEF Processes
<1> QED BY <1>1, <1>2, EntryKept

(* The actors that leave the boot loader entry and leapp.db alone.         *)
LEMMA PlainActorMoves ==
  ASSUME ~CheckpointEarly, IInv,
         \/ TargetUserspaceCreator \/ DnfPackageDownload \/ DnfDryRun
         \/ RemoveUpgradeArtifacts \/ RemoveBootFiles
         \/ PreparePythonWorkround \/ ForceDefaultBoot \/ VerifyCheckResults
         \/ CreateResumeService \/ RemoveResumeService \/ DnfUpgradeTransaction
  PROVE  /\ \E a \in Actors \ {"remove_upgrade_boot_entry"} : ActorMoves(a)
         /\ db' = db /\ entry' = entry /\ default' \in {default, "target"}
<1>1. \A a, f : \A n \in {0, 1} : ActorEnds(a, f, n, db) => ActorMoves(a) /\ db' = db
  <2>1. TypeOK
    BY DEF IInv
  <2>2. ASSUME NEW a, NEW f, NEW n \in {0, 1}, ActorEnds(a, f, n, db)
        PROVE  ActorMoves(a) /\ db' = db
    <3>1. ActorMoves(a)
      BY <2>1, <2>2, ActorEndsMoves
    <3>2. db' = db
      BY <2>2 DEF ActorEnds, Store
    <3> QED BY <3>1, <3>2
  <2> QED BY <2>2
<1>2. \A f : Cost(f) \in {0, 1}
  BY DEF Cost
<1>3. CASE TargetUserspaceCreator
  <2>1. \E f : \E n \in {0, 1} : ActorEnds("target_userspace_creator", f, n, db)
    BY <1>2, <1>3 DEF TargetUserspaceCreator
  <2>2. ActorMoves("target_userspace_creator") /\ db' = db
    BY <1>1, <2>1
  <2>3. entry' = entry /\ default' \in {default, "target"}
    BY <1>3 DEF TargetUserspaceCreator
  <2> QED BY <2>2, <2>3 DEF Actors, PhaseOf
<1>4. CASE DnfPackageDownload
  <2>1. \E f : \E n \in {0, 1} : ActorEnds("dnf_package_download", f, n, db)
    BY <1>2, <1>4 DEF DnfPackageDownload, disk
  <2>2. ActorMoves("dnf_package_download") /\ db' = db
    BY <1>1, <2>1
  <2>3. entry' = entry /\ default' \in {default, "target"}
    BY <1>4 DEF DnfPackageDownload, disk
  <2> QED BY <2>2, <2>3 DEF Actors, PhaseOf
<1>5. CASE DnfDryRun
  <2>1. \E f : \E n \in {0, 1} : ActorEnds("dnf_dry_run", f, n, db)
    BY <1>2, <1>5 DEF DnfDryRun, disk
  <2>2. ActorMoves("dnf_dry_run") /\ db' = db
    BY <1>1, <2>1
  <2>3. entry' = entry /\ default' \in {default, "target"}
    BY <1>5 DEF DnfDryRun, disk
  <2> QED BY <2>2, <2>3 DEF Actors, PhaseOf
<1>6. CASE RemoveUpgradeArtifacts
  <2>1. \E f : \E n \in {0, 1} : ActorEnds("remove_upgrade_artifacts", f, n, db)
    BY <1>2, <1>6 DEF RemoveUpgradeArtifacts
  <2>2. ActorMoves("remove_upgrade_artifacts") /\ db' = db
    BY <1>1, <2>1
  <2>3. entry' = entry /\ default' \in {default, "target"}
    BY <1>6 DEF RemoveUpgradeArtifacts
  <2> QED BY <2>2, <2>3 DEF Actors, PhaseOf
<1>7. CASE RemoveBootFiles
  <2>1. \E f : \E n \in {0, 1} : ActorEnds("remove_boot_files", f, n, db)
    BY <1>2, <1>7 DEF RemoveBootFiles
  <2>2. ActorMoves("remove_boot_files") /\ db' = db
    BY <1>1, <2>1
  <2>3. entry' = entry /\ default' \in {default, "target"}
    BY <1>7 DEF RemoveBootFiles
  <2> QED BY <2>2, <2>3 DEF Actors, PhaseOf
<1>8. CASE PreparePythonWorkround
  <2>1. \E f : \E n \in {0, 1} : ActorEnds("prepare_python_workround", f, n, db)
    BY <1>2, <1>8 DEF PreparePythonWorkround
  <2>2. ActorMoves("prepare_python_workround") /\ db' = db
    BY <1>1, <2>1
  <2>3. entry' = entry /\ default' \in {default, "target"}
    BY <1>8 DEF PreparePythonWorkround
  <2> QED BY <2>2, <2>3 DEF Actors, PhaseOf
<1>9. CASE ForceDefaultBoot
  <2>1. \E f : \E n \in {0, 1} : ActorEnds("force_default_boot", f, n, db)
    BY <1>2, <1>9 DEF ForceDefaultBoot
  <2>2. ActorMoves("force_default_boot") /\ db' = db
    BY <1>1, <2>1
  <2>3. entry' = entry /\ default' \in {default, "target"}
    BY <1>9 DEF ForceDefaultBoot
  <2> QED BY <2>2, <2>3 DEF Actors, PhaseOf
<1>10. CASE CreateResumeService
  <2>1. \E f : \E n \in {0, 1} : ActorEnds("create_systemd_service", f, n, db)
    BY <1>2, <1>10 DEF CreateResumeService
  <2>2. ActorMoves("create_systemd_service") /\ db' = db
    BY <1>1, <2>1
  <2>3. entry' = entry /\ default' \in {default, "target"}
    BY <1>10 DEF CreateResumeService
  <2> QED BY <2>2, <2>3 DEF Actors, PhaseOf
<1>11. CASE RemoveResumeService
  <2>1. \E f : \E n \in {0, 1} : ActorEnds("remove_systemd_resume_service", f, n, db)
    BY <1>2, <1>11 DEF RemoveResumeService
  <2>2. ActorMoves("remove_systemd_resume_service") /\ db' = db
    BY <1>1, <2>1
  <2>3. entry' = entry /\ default' \in {default, "target"}
    BY <1>11 DEF RemoveResumeService
  <2> QED BY <2>2, <2>3 DEF Actors, PhaseOf
<1>12. CASE DnfUpgradeTransaction
  <2>1. \E f : \E n \in {0, 1} : ActorEnds("dnf_upgrade_transaction", f, n, db)
    BY <1>2, <1>12 DEF DnfUpgradeTransaction, disk
  <2>2. ActorMoves("dnf_upgrade_transaction") /\ db' = db
    BY <1>1, <2>1
  <2>3. entry' = entry /\ default' \in {default, "target"}
    BY <1>12 DEF DnfUpgradeTransaction, disk
  <2> QED BY <2>2, <2>3 DEF Actors, PhaseOf
<1>13. CASE VerifyCheckResults
  <2>1. ActorMoves("verify_check_results") /\ db' = db
    <3>1. PICK b \in BOOLEAN :
            run' = [run EXCEPT !.todo = run.todo \ {"verify_check_results"}, !.stop = b]
      BY <1>13 DEF VerifyCheckResults
    <3>2. run.at = "in" /\ "verify_check_results" \in run.todo /\ db' = db
      BY <1>13 DEF VerifyCheckResults, Running, Store
    <3> QED BY <3>1, <3>2 DEF ActorMoves
  <2>2. entry' = entry /\ default' \in {default, "target"}
    BY <1>13 DEF VerifyCheckResults, disk
  <2> QED BY <2>1, <2>2 DEF Actors, PhaseOf
<1> QED BY <1>3, <1>4, <1>5, <1>6, <1>7, <1>8, <1>9, <1>10, <1>11, <1>12, <1>13

(* No actor breaks EntryInv.                                               *)
LEMMA EntryKeptByActors ==
  ASSUME ~CheckpointEarly, IInv, EntryInv, Actor
  PROVE  EntryInv'
<1>1. TypeOK /\ ProcessInv /\ run \in Processes /\ SameRecords(db) /\ \A f : Cost(f) \in {0, 1}
  BY SameDb DEF IInv, TypeOK, Cost
<1>2. ASSUME NEW a \in Actors \ {"remove_upgrade_boot_entry"}, ActorMoves(a), db' = db,
             entry' = entry, default' \in {default, "target"}
      PROVE  EntryInv'
  BY <1>1, <1>2, EntryKeptByActor
<1>3. CASE UpgradeInitramfsGenerator
  <2>1. PICK f \in Outcomes, n \in {0, 1} :
          /\ ActorEnds("upgrade_initramfs_generator", f, n,
                       IF f = "ok" THEN [db EXCEPT ![run.ctx].content = TRUE] ELSE db)
          /\ UNCHANGED <<entry, default>>
    BY <1>1, <1>3 DEF UpgradeInitramfsGenerator
  <2>2. ActorMoves("upgrade_initramfs_generator")
    BY <1>1, <2>1, ActorEndsMoves
  <2>3. db' \in {db, [db EXCEPT ![run.ctx].content = TRUE]}
    BY <2>1 DEF ActorEnds, Store
  <2>4. SameRecords(db')
    BY <1>1, <2>2, <2>3, ContentStored DEF ActorMoves, Active
  <2> QED BY <2>1, <2>2, <2>4, EntryKeptByActor
<1>4. CASE AddUpgradeBootEntry
  <2>1. PICK f \in Outcomes, n \in {0, 1} : ActorEnds("add_upgrade_boot_entry", f, n, db)
    BY <1>1, <1>4 DEF AddUpgradeBootEntry
  <2>2. ActorMoves("add_upgrade_boot_entry")
    BY <1>1, <2>1, ActorEndsMoves
  <2>3. db' = db
    BY <2>1 DEF ActorEnds, Store
  <2>4. run.phase = Interim /\ run.at = "in"
    BY <1>1, <2>2, PhaseOfActor DEF ActorMoves, ProcessInv, Active
  <2>5. \A c \in 1 .. Len(db) : IsLastUpgrade(c) => db[c].last < InitRamStart
    BY <2>4, UpgradeProcess DEF Interim, Finalization, InitRamStart
  <2>6. ~(run'.at = "in" /\ run'.phase = InitRamStart)
    <3>1. run'.at = "in" => run'.phase = run.phase
      <4>1. CASE run' = Idle
        BY <4>1 DEF Idle
      <4>2. CASE \E t \in SUBSET run.todo : run' = [run EXCEPT !.err = TRUE, !.todo = t]
        BY <1>1, <4>2 DEF Processes
      <4>3. CASE \E b \in BOOLEAN :
                   run' = [run EXCEPT !.todo = run.todo \ {"add_upgrade_boot_entry"}, !.stop = b]
        BY <1>1, <4>3 DEF Processes
      <4> QED BY <2>2, <4>1, <4>2, <4>3 DEF ActorMoves
    <3> QED BY <3>1, <2>4 DEF Interim, InitRamStart
  <2>7. default' = "upgrade" => entry'
    BY <1>4 DEF AddUpgradeBootEntry, GrubbyAdd, GrubbyRemove, EntryInv
  <2>8. \A c \in 1 .. Len(db') : IsLastUpgrade(c)' => db'[c].last < InitRamStart
    BY <2>3, <2>5 DEF IsLastUpgrade
  <2>9. \A c \in 1 .. Len(db') : db'[c].last \in 0 .. FirstBoot
    BY <1>1, <2>3, ExecutionType
  <2> QED BY <2>6, <2>7, <2>8, <2>9 DEF EntryInv, InitRamStart, FirstBoot
<1>5. CASE RemoveUpgradeBootEntry
  <2>1. PICK f \in Outcomes, n \in {0, 1} :
          /\ ActorEnds("remove_upgrade_boot_entry", f, n, db)
          /\ GrubbyRemove \/ (f # "ok" /\ UNCHANGED <<entry, default>>)
    BY <1>1, <1>5 DEF RemoveUpgradeBootEntry, Outcomes
  <2>2. ActorMoves("remove_upgrade_boot_entry")
    BY <1>1, <2>1, ActorEndsMoves
  <2>3. db' = db
    BY <2>1 DEF ActorEnds, Store
  <2>4. CASE GrubbyRemove
    BY <2>4 DEF GrubbyRemove, EntryInv
  <2>5. CASE f # "ok" /\ UNCHANGED <<entry, default>>
    <3>1. run' = Idle \/ run'.err
      BY <1>1, <2>1, <2>5 DEF ActorEnds, Exit, Outcomes, Processes
    <3> QED BY <1>1, <2>2, <2>3, <2>5, <3>1, EntryKeptByActor
  <2> QED BY <2>1, <2>4, <2>5
<1> QED BY <1>2, <1>3, <1>4, <1>5, PlainActorMoves DEF Actor

(* Nor does any other step, when leapp.db never falls back.                *)
LEMMA EntryInductive ==
  ASSUME ~CheckpointEarly, ForceSync, IInv, EntryInv, [Next]_vars
  PROVE  EntryInv'
<1>1. CASE Actor
  BY <1>1, EntryKeptByActors
<1>2. CASE BeginPhase
  <2>1. UNCHANGED <<db, entry, default>>
    BY <1>2 DEF BeginPhase, disk
  <2>2. PICK S \in SUBSET ActorsOf(run.phase + 1) :
          /\ db[run.ctx].kind # "rerun" => S = ActorsOf(run.phase + 1)
          /\ run' = [run EXCEPT !.at = "in", !.phase = @ + 1, !.todo = S]
    BY <1>2 DEF BeginPhase
  <2>3. run'.phase = run.phase + 1 /\ run'.todo = S /\ Active
    BY <2>2, <1>2 DEF IInv, TypeOK, Processes, BeginPhase, Active
  <2>4. db[run.ctx].kind = "rerun" => run.phase + 1 # InitRamStart
    BY <1>2, <2>3, CurrentExecution
    DEF BeginPhase, IInv, ProcessInv, RecordInv, Recorded, Finalization, InitRamStart
  <2>5. run'.phase = InitRamStart => "remove_upgrade_boot_entry" \in run'.todo
    BY <2>2, <2>3, <2>4, ActorOfPhase
  <2> QED BY <2>1, <2>5, EntryKept
<1>3. CASE PhaseEnds
  <2>1. /\ run.at = "in" /\ run.todo = {} /\ ~run.err /\ UNCHANGED <<entry, default>>
        /\ db' = [db EXCEPT ![run.ctx].last = run.phase] /\ Active
    BY <1>3 DEF PhaseEnds, Store, Checkpointed, disk, Active
  <2>2. run'.at # "in"
    BY <1>3 DEF PhaseEnds, Exit, Idle, IInv, TypeOK, Processes
  <2>3. run.phase >= InitRamStart => ~entry \/ db[run.ctx].kind # "upgrade"
    <3>1. CASE run.phase = InitRamStart
      BY <2>1, <3>1 DEF EntryInv
    <3>2. CASE run.phase > InitRamStart /\ db[run.ctx].kind = "upgrade"
      <4>1. IsLastUpgrade(run.ctx) /\ db[run.ctx].last >= InitRamStart
        BY <3>2, <2>1, CurrentExecution DEF IInv, ProcessInv, Kind, InitRamStart
      <4> QED BY <4>1, <2>1, CurrentExecution DEF EntryInv, IInv
    <3> QED BY <3>1, <3>2, <2>1, CurrentExecution DEF IInv, InitRamStart
  <2>4. /\ Len(db') = Len(db)
        /\ \A c \in 1 .. Len(db) :
             /\ db'[c].kind = db[c].kind
             /\ db'[c].last = IF c = run.ctx THEN run.phase ELSE db[c].last
    BY <2>1, CurrentExecution, ExecutionType DEF IInv, TypeOK, Execution
  <2>5. ASSUME NEW c \in 1 .. Len(db'), IsLastUpgrade(c)', db'[c].last >= InitRamStart
        PROVE  ~entry
    <3>1. IsLastUpgrade(c) /\ c \in 1 .. Len(db)
      BY <2>5, <2>4 DEF IsLastUpgrade
    <3>2. CASE c = run.ctx
      BY <2>5, <3>1, <3>2, <2>3, <2>4 DEF IsLastUpgrade
    <3>3. CASE c # run.ctx
      BY <2>5, <3>1, <3>3, <2>4 DEF EntryInv
    <3> QED BY <3>2, <3>3
  <2> QED BY <2>1, <2>2, <2>5 DEF EntryInv
<1>4. CASE LeappUpgrade \/ LeappPreupgrade \/ LeappRerun
  <2>1. PICK e \in Execution : db' = Append(db, e) /\ (e.kind = "upgrade" => e.last = 0)
    <3>1. CASE LeappUpgrade \/ LeappPreupgrade
      <4>1. PICK k \in {"upgrade", "preupgrade"} :
              db' = Append(db, [kind |-> k, last |-> 0, content |-> FALSE])
        BY <3>1 DEF LeappUpgrade, LeappPreupgrade, Store
      <4>2. [kind |-> k, last |-> 0, content |-> FALSE] \in Execution
        BY DEF Execution, Kinds, FirstBoot
      <4> QED BY <4>1, <4>2
    <3>2. CASE LeappRerun
      <4>1. PICK b \in 1 .. Len(db) :
              db' = Append(db, [kind |-> "rerun", last |-> Finalization,
                                content |-> db[b].content])
        BY <3>2 DEF LeappRerun, Store
      <4>2. [kind |-> "rerun", last |-> Finalization, content |-> db[b].content] \in Execution
        BY ExecutionType DEF IInv, Execution, Kinds, FirstBoot, Finalization
      <4> QED BY <4>1, <4>2
    <3> QED BY <1>4, <3>1, <3>2
  <2>2. UNCHANGED <<entry, default>>
    BY <1>4 DEF LeappUpgrade, LeappPreupgrade, LeappRerun, disk
  <2>3. run'.at = "between"
    <3>1. \A c, p, u, r : Process(c, p, u, r).at = "between"
      BY DEF Process
    <3>2. \E c, p, u, r : run' = Process(c, p, u, r)
      <4>1. CASE LeappUpgrade
        BY <4>1, Zenon DEF LeappUpgrade
      <4>2. CASE LeappPreupgrade
        BY <4>2, Zenon DEF LeappPreupgrade
      <4>3. CASE LeappRerun
        BY <4>3, Zenon DEF LeappRerun
      <4> QED BY <1>4, <4>1, <4>2, <4>3
    <3> QED BY <3>1, <3>2
  <2>4. ASSUME NEW c \in 1 .. Len(db'), IsLastUpgrade(c)', db'[c].last >= InitRamStart
        PROVE  ~entry
    <3>1. /\ db'[Len(db) + 1] = e /\ Len(db') = Len(db) + 1 /\ Len(db) \in Nat
          /\ \A b \in 1 .. Len(db) : db'[b] = db[b]
      BY <2>1, DbAppend DEF IInv
    <3>2. c # Len(db) + 1
      BY <2>1, <2>4, <3>1 DEF IsLastUpgrade, InitRamStart
    <3>3. c \in 1 .. Len(db) /\ IsLastUpgrade(c) /\ db[c].last >= InitRamStart
      BY <2>4, <3>1, <3>2 DEF IsLastUpgrade
    <3> QED BY <3>3 DEF EntryInv
  <2> QED BY <2>2, <2>3, <2>4 DEF EntryInv
<1>5. CASE \/ NothingToDo \/ PhaseFails \/ Script \/ PowerOn \/ ResumeServiceStart \/ PowerLoss
           \/ LeappUpgradeResume \/ Shutdown \/ EmergencyExit \/ PickOtherEntry
           \/ UNCHANGED vars
  <2>1. UNCHANGED <<db, entry, default>>
    BY <1>5 DEF NothingToDo, PhaseFails, Script, RunLeapp, RunLeapp3, SetFailedFlag, ServiceEnds,
       PowerOn, ResumeServiceStart, PowerLoss, LeappUpgradeResume, Shutdown, EmergencyExit,
       PickOtherEntry, vars, disk, IInv, RecordInv
  <2>2. run' = run \/ run'.at # "in"
    BY <1>5 DEF NothingToDo, PhaseFails, Script, RunLeapp, RunLeapp3, SetFailedFlag, ServiceEnds,
       PowerOn, ResumeServiceStart, PowerLoss, LeappUpgradeResume, Shutdown, EmergencyExit,
       PickOtherEntry, vars, Exit, Idle, Process
  <2> QED BY <2>1, <2>2, EntryKept
<1> QED BY <1>1, <1>2, <1>3, <1>4, <1>5 DEF Next, Workflow, Operator

(* With a synchronous leapp.db the entry stays away once it is recorded as *)
(* removed.                                                                *)
LEMMA EntryAlways ==
  ASSUME ~CheckpointEarly, ForceSync
  PROVE  Spec => []EntryInv
<1>1. Init => EntryInv
  BY DEF Init, EntryInv, Idle
<1>2. IInv /\ EntryInv /\ [Next]_vars => EntryInv'
  BY EntryInductive
<1> QED BY <1>1, <1>2, Inductive, PTL DEF Spec

(* Only the transaction touches the packages, only RemoveBootFiles removes *)
(* the upgrade kernel and initramfs.                                       *)
LEMMA WhoChangesPackages ==
  ASSUME [Next]_vars, pkgs' # pkgs
  PROVE  DnfUpgradeTransaction
<1> USE DEF disk
<1>1. ~(BeginPhase \/ NothingToDo \/ PhaseFails \/ PhaseEnds)
  BY DEF BeginPhase, NothingToDo, PhaseFails, PhaseEnds
<1>2. ~(TargetUserspaceCreator \/ VerifyCheckResults \/ DnfPackageDownload
        \/ RemoveUpgradeArtifacts \/ UpgradeInitramfsGenerator \/ DnfDryRun
        \/ AddUpgradeBootEntry \/ RemoveUpgradeBootEntry \/ RemoveBootFiles)
  BY DEF TargetUserspaceCreator, VerifyCheckResults, DnfPackageDownload,
         RemoveUpgradeArtifacts, UpgradeInitramfsGenerator, DnfDryRun,
         AddUpgradeBootEntry, RemoveUpgradeBootEntry, RemoveBootFiles
<1>3. ~(PreparePythonWorkround \/ ForceDefaultBoot \/ CreateResumeService
        \/ RemoveResumeService)
  BY DEF PreparePythonWorkround, ForceDefaultBoot, CreateResumeService, RemoveResumeService
<1>4. ~(Script \/ PowerOn \/ ResumeServiceStart \/ PowerLoss)
  BY DEF Script, RunLeapp, RunLeapp3, SetFailedFlag, ServiceEnds, PowerOn,
         ResumeServiceStart, PowerLoss
<1>5. ~Operator
  BY DEF Operator, LeappUpgrade, LeappUpgradeResume, LeappPreupgrade, LeappRerun, Shutdown,
         EmergencyExit, PickOtherEntry
<1> QED BY <1>1, <1>2, <1>3, <1>4, <1>5 DEF Next, Workflow, Actor, vars

(* Only removebootfiles removes the upgrade kernel and initramfs, and      *)
(* nobody else changes them while it is to run.                            *)
LEMMA WhoRemovesBootFiles ==
  ASSUME HalfwayInv, [Next]_vars, bootFiles' # bootFiles,
         bootFiles' = "absent" \/ Running("remove_boot_files")
  PROVE  RemoveBootFiles
<1> USE DEF disk
<1>0. ~UpgradeInitramfsGenerator
  <2>1. SUFFICES ASSUME UpgradeInitramfsGenerator PROVE FALSE
    OBVIOUS
  <2>2. bootFiles' # "absent" /\ "upgrade_initramfs_generator" \in run.todo /\ run.at = "in"
    BY <2>1 DEF UpgradeInitramfsGenerator, ActorEnds, Running
  <2>3. "remove_boot_files" \in run.todo /\ run.todo \subseteq ActorsOf(run.phase)
    BY <2>2 DEF HalfwayInv, Active, Running
  <2>4. run.phase = Interim /\ run.phase = Preparation
    BY <2>2, <2>3, PhaseOfActor
  <2> QED BY <2>4 DEF Interim, Preparation
<1>1. ~(BeginPhase \/ NothingToDo \/ PhaseFails \/ PhaseEnds)
  BY DEF BeginPhase, NothingToDo, PhaseFails, PhaseEnds
<1>2. ~(TargetUserspaceCreator \/ VerifyCheckResults \/ DnfPackageDownload
        \/ RemoveUpgradeArtifacts \/ DnfUpgradeTransaction \/ DnfDryRun
        \/ AddUpgradeBootEntry \/ RemoveUpgradeBootEntry)
  BY DEF TargetUserspaceCreator, VerifyCheckResults, DnfPackageDownload,
         RemoveUpgradeArtifacts, DnfUpgradeTransaction, DnfDryRun,
         AddUpgradeBootEntry, RemoveUpgradeBootEntry
<1>3. ~(PreparePythonWorkround \/ ForceDefaultBoot \/ CreateResumeService
        \/ RemoveResumeService)
  BY DEF PreparePythonWorkround, ForceDefaultBoot, CreateResumeService, RemoveResumeService
<1>4. ~(Script \/ PowerOn \/ ResumeServiceStart \/ PowerLoss)
  BY DEF Script, RunLeapp, RunLeapp3, SetFailedFlag, ServiceEnds, PowerOn,
         ResumeServiceStart, PowerLoss
<1>5. ~Operator
  BY DEF Operator, LeappUpgrade, LeappUpgradeResume, LeappPreupgrade, LeappRerun, Shutdown,
         EmergencyExit, PickOtherEntry
<1> QED BY <1>0, <1>1, <1>2, <1>3, <1>4, <1>5 DEF Next, Workflow, Actor, vars

(* The phases in which the entry is gone.                                  *)
LEMMA EntryGone ==
  ASSUME IInv, EntryInv, run.at = "in", run.phase \in Preparation .. Finalization
  PROVE  ~entry
<1>1. run.phase \in Interim .. Finalization /\ run.phase - 1 >= InitRamStart
  BY DEF Interim, Preparation, Finalization, InitRamStart
<1> QED BY <1>1, UpgradeProcess DEF EntryInv

(* The phase of the transaction and of removebootfiles.                    *)
LEMMA ActorPhases ==
  /\ \A f : \A n \in {0, 1} : IInv /\ ActorEnds("dnf_upgrade_transaction", f, n, db)
       => run.at = "in" /\ run.phase = RPMUpgrade
  /\ \A f : \A n \in {0, 1} : IInv /\ ActorEnds("remove_boot_files", f, n, db)
       => run.at = "in" /\ run.phase = Preparation
<1>1. ASSUME NEW a, NEW f, NEW n, IInv, ActorEnds(a, f, n, db)
      PROVE  run.at = "in" /\ a \in ActorsOf(run.phase)
  BY <1>1 DEF ActorEnds, Running, IInv, ProcessInv, Active
<1> QED BY <1>1, PhaseOfActor

(* The transaction starts with the upgrade entry removed.                  *)
THEOREM TransactionWithoutEntry ==
  ASSUME ~CheckpointEarly, ForceSync
  PROVE  Spec => TransactionAfterEntryRemoved
<1>1. IInv /\ EntryInv /\ [Next]_vars => [pkgs' # pkgs => ~entry]_vars
  <2>1. SUFFICES ASSUME IInv, EntryInv, [Next]_vars, pkgs' # pkgs
                 PROVE  ~entry
    OBVIOUS
  <2>2. \E f : \E n \in {0, 1} : ActorEnds("dnf_upgrade_transaction", f, n, db)
    BY <2>1, WhoChangesPackages DEF DnfUpgradeTransaction, Cost
  <2>3. run.at = "in" /\ run.phase = RPMUpgrade
    BY <2>1, <2>2, ActorPhases
  <2> QED BY <2>1, <2>3, EntryGone DEF RPMUpgrade, Preparation, Finalization
<1> QED BY <1>1, Inductive, EntryAlways, PTL DEF Spec, TransactionAfterEntryRemoved

-----------------------------------------------------------------------------
(* The refinement, for a synchronous leapp.db and no --resume by hand.     *)
LEMMA ActorsMove ==
  ASSUME ~CheckpointEarly, IInv, Actor
  PROVE  /\ \E a \in Actors : ActorMoves(a)
         /\ SameRecords(db') /\ host' = host
<1>1. TypeOK /\ ProcessInv /\ SameRecords(db) /\ \A f : Cost(f) \in {0, 1}
  BY SameDb DEF IInv, Cost
<1>2. ASSUME NEW a \in Actors, NEW f, NEW n \in {0, 1}, ActorEnds(a, f, n, db)
      PROVE  ActorMoves(a) /\ SameRecords(db')
  <2>1. ActorMoves(a)
    BY <1>1, <1>2, ActorEndsMoves
  <2>2. db' = db
    BY <1>2 DEF ActorEnds, Store
  <2> QED BY <1>1, <2>1, <2>2
<1>3. CASE UpgradeInitramfsGenerator
  <2>1. PICK f \in Outcomes, n \in {0, 1} :
          /\ ActorEnds("upgrade_initramfs_generator", f, n,
                       IF f = "ok" THEN [db EXCEPT ![run.ctx].content = TRUE] ELSE db)
    BY <1>1, <1>3 DEF UpgradeInitramfsGenerator
  <2>2. ActorMoves("upgrade_initramfs_generator")
    BY <1>1, <2>1, ActorEndsMoves
  <2>3. db' \in {db, [db EXCEPT ![run.ctx].content = TRUE]}
    BY <2>1 DEF ActorEnds, Store
  <2>4. SameRecords(db') /\ host' = host
    BY <1>1, <2>1, <2>2, <2>3, ContentStored DEF ActorMoves, Active, ActorEnds
  <2> QED BY <2>2, <2>4 DEF Actors, PhaseOf
<1>4. CASE AddUpgradeBootEntry
  <2>1. PICK f \in Outcomes, n \in {0, 1} : ActorEnds("add_upgrade_boot_entry", f, n, db)
    BY <1>1, <1>4 DEF AddUpgradeBootEntry
  <2> QED BY <1>2, <2>1 DEF Actors, PhaseOf, ActorEnds
<1>5. CASE RemoveUpgradeBootEntry
  <2>1. PICK f \in Outcomes, n \in {0, 1} : ActorEnds("remove_upgrade_boot_entry", f, n, db)
    BY <1>1, <1>5 DEF RemoveUpgradeBootEntry, Outcomes
  <2> QED BY <1>2, <2>1 DEF Actors, PhaseOf, ActorEnds
<1>6. CASE \/ TargetUserspaceCreator \/ DnfPackageDownload \/ DnfDryRun
           \/ RemoveUpgradeArtifacts \/ RemoveBootFiles
           \/ PreparePythonWorkround \/ ForceDefaultBoot \/ VerifyCheckResults
           \/ CreateResumeService \/ RemoveResumeService \/ DnfUpgradeTransaction
  <2>1. host' = host
    BY <1>6 DEF TargetUserspaceCreator, DnfPackageDownload, DnfDryRun, RemoveUpgradeArtifacts,
       RemoveBootFiles, PreparePythonWorkround, ForceDefaultBoot, VerifyCheckResults,
       CreateResumeService, RemoveResumeService, DnfUpgradeTransaction, ActorEnds, machine
  <2> QED BY SMTT(60), <1>1, <1>6, <2>1, PlainActorMoves
<1> QED BY <1>3, <1>4, <1>5, <1>6 DEF Actor

(* No step breaks ResumedInv.                                              *)
LEMMA ResumedInductive ==
  ASSUME ~CheckpointEarly, ~HandResume, IInv, ResumedInv, [Next]_vars
  PROVE  ResumedInv'
<1>1. TypeOK /\ ProcessInv /\ run \in Processes
  BY DEF IInv, TypeOK
<1>2. CASE Actor
  <2>1. PICK a \in Actors : ActorMoves(a) /\ SameRecords(db') /\ host' = host
    BY <1>2, ActorsMove
  <2>2. run' = Idle \/ (run'.ctx = run.ctx /\ run'.resume = run.resume)
    <3>1. CASE \E t \in SUBSET run.todo : run' = [run EXCEPT !.err = TRUE, !.todo = t]
      BY <1>1, <3>1 DEF Processes
    <3>2. CASE \E b \in BOOLEAN : run' = [run EXCEPT !.todo = run.todo \ {a}, !.stop = b]
      BY <1>1, <3>2 DEF Processes
    <3> QED BY <2>1, <3>1, <3>2 DEF ActorMoves
  <2>3. Active
    BY <2>1 DEF ActorMoves, Active
  <2>4. run.ctx \in 1 .. Len(db)
    BY <1>1, <2>3, CurrentExecution
  <2>5. CASE run' = Idle
    BY <2>5 DEF ResumedInv, Active, Idle
  <2>6. CASE run'.ctx = run.ctx /\ run'.resume = run.resume
    <3>1. db'[run.ctx].last = db[run.ctx].last
      BY <2>1, <2>4 DEF SameRecords
    <3> QED BY <2>1, <2>3, <2>6, <3>1 DEF ResumedInv
  <2> QED BY <2>2, <2>5, <2>6
<1>3. CASE BeginPhase
  <2>1. db' = db /\ host' = host /\ Active
    BY <1>3 DEF BeginPhase, machine, Active
  <2>2. run'.ctx = run.ctx /\ run'.resume = run.resume
    BY <1>1, <1>3 DEF BeginPhase, Processes
  <2> QED BY <2>1, <2>2 DEF ResumedInv
<1>4. CASE PhaseEnds
  <2>1. /\ Active /\ run.at = "in" /\ host' = host
        /\ db' = [db EXCEPT ![run.ctx].last = run.phase]
    BY <1>4 DEF PhaseEnds, Store, Checkpointed, Active
  <2>2. db'[run.ctx].last = run.phase /\ db[run.ctx].last \in 0 .. FirstBoot
        /\ run.phase = db[run.ctx].last + 1
    BY SMTT(60), <1>1, <2>1, CurrentExecution, ExecutionType DEF TypeOK, Execution, ProcessInv
  <2>3. run' = Idle \/ (run'.ctx = run.ctx /\ run'.resume = run.resume)
    BY <1>1, <1>4 DEF PhaseEnds, Exit, Processes
  <2>4. CASE run' = Idle
    BY <2>4 DEF ResumedInv, Active, Idle
  <2>5. CASE run'.ctx = run.ctx /\ run'.resume = run.resume
    <3>1. db'[run'.ctx].last = db[run.ctx].last + 1
      BY <2>2, <2>5
    <3>2. db[run.ctx].last \in Nat
      BY <2>2 DEF FirstBoot
    <3> QED BY <2>1, <2>5, <3>1, <3>2 DEF ResumedInv, RPMUpgrade
  <2> QED BY <2>3, <2>4, <2>5
<1>5. CASE LeappUpgrade \/ LeappPreupgrade
  <2>1. \A c, p, u : Process(c, p, u, FALSE).resume = FALSE
    BY DEF Process
  <2>2. \E c, p, u : run' = Process(c, p, u, FALSE)
    BY <1>5, Zenon DEF LeappUpgrade, LeappPreupgrade
  <2> QED BY <2>1, <2>2 DEF ResumedInv
<1>6. CASE LeappRerun
  <2>1. PICK b \in 1 .. Len(db) :
          /\ db' = Append(db, [kind |-> "rerun", last |-> Finalization,
                               content |-> db[b].content])
          /\ run' = Process(Len(db) + 1, Finalization, FirstBoot, TRUE)
    BY <1>6 DEF LeappRerun, Store
  <2>2. [kind |-> "rerun", last |-> Finalization, content |-> db[b].content] \in Execution
    BY <1>1, ExecutionType DEF Execution, Kinds, FirstBoot, Finalization
  <2>3. db'[Len(db) + 1].last = Finalization
    BY <1>1, <2>1, <2>2, DbAppend
  <2>4. run'.ctx = Len(db) + 1
    BY <2>1 DEF Process
  <2> QED BY <2>3, <2>4 DEF ResumedInv, Finalization, RPMUpgrade
<1>7. CASE RunLeapp \/ RunLeapp3
  <2>1. host' = "initram"
    BY <1>7 DEF RunLeapp, RunLeapp3
  <2> QED BY <2>1 DEF ResumedInv
<1>8. CASE ResumeServiceStart
  <2>1. db' = db /\ svc /\ run = Idle
    BY <1>8 DEF ResumeServiceStart, IInv, ServiceInv
  <2>2. CASE run' = run
    BY <2>1, <2>2 DEF ResumedInv, Active, Idle
  <2>3. CASE \E c \in 1 .. Len(db) :
               IsLastUpgrade(c) /\ run' = Process(c, db[c].last, FirstBoot, TRUE)
    <3>1. PICK c \in 1 .. Len(db) :
            IsLastUpgrade(c) /\ run' = Process(c, db[c].last, FirstBoot, TRUE)
      BY <2>3
    <3>2. run'.ctx = c
      BY <3>1 DEF Process
    <3>3. db[c].last >= RPMUpgrade
      BY <3>1, <2>1 DEF IInv, ServiceInv, ResumeServiceOnTarget
    <3> QED BY <2>1, <3>2, <3>3 DEF ResumedInv
  <2> QED BY <1>8, <2>2, <2>3 DEF ResumeServiceStart
<1>9. CASE NothingToDo \/ PhaseFails \/ PowerLoss
  BY <1>9 DEF NothingToDo, PhaseFails, PowerLoss, Exit, ResumedInv, Active, Idle
<1>10. CASE PowerOn \/ PickOtherEntry \/ Shutdown \/ SetFailedFlag \/ ServiceEnds \/ EmergencyExit
  <2>1. ~Active
    BY <1>1, <1>10 DEF ProcessInv, ScriptInv, IInv, PowerOn, PickOtherEntry, Shutdown,
                SetFailedFlag, ServiceEnds, EmergencyExit, Active, Idle
  <2>2. run' = run
    BY <1>10 DEF PowerOn, PickOtherEntry, Shutdown, SetFailedFlag, ServiceEnds, EmergencyExit
  <2> QED BY <2>1, <2>2 DEF ResumedInv, Active
<1>11. CASE UNCHANGED vars
  BY <1>11 DEF vars, machine, ResumedInv, Active
<1> QED
  BY <1>2, <1>3, <1>4, <1>5, <1>6, <1>7, <1>8, <1>9, <1>10, <1>11
  DEF Next, Workflow, Script, Operator, LeappUpgradeResume

(* The abstract variable finished is a truth value.                        *)
LEMMA FinishedBoolean == UpgradeFinished \in BOOLEAN /\ (UpgradeFinished \in BOOLEAN)'
  BY DEF UpgradeFinished

(* FirstBootPhase runs on the booted target system.                        *)
LEMMA FirstBootState ==
  ASSUME IInv, run.at = "in", run.phase = FirstBoot
  PROVE  host = "os" /\ pkgs = "target"
<1>1. Active /\ TypeOK /\ ProcessInv
  BY DEF Active, IInv
<1>2. db[run.ctx].last >= RPMUpgrade /\ run.ctx \in 1 .. Len(db)
  BY SMTT(60), <1>1, CurrentExecution DEF ProcessInv, RPMUpgrade, FirstBoot
<1>3. pkgs = "target"
  BY <1>2 DEF IInv, RecordInv, Recorded
<1>4. host = "os"
  BY <1>1 DEF IInv, ProcessInv, ScriptInv, FirstBoot, RPMUpgrade, Finalization
<1> QED BY <1>3, <1>4

(* The abstract variables in a step that keeps entry, packages and records. *)
LEMMA FinishedKept ==
  ASSUME db' = db \/ SameRecords(db')
  PROVE  UpgradeFinished' = UpgradeFinished
<1>1. UpgradeFinished' <=> UpgradeFinished
  BY DEF UpgradeFinished, SameRecords
<1> QED BY <1>1, FinishedBoolean

(* Two actors change the boot loader entry.                                *)
LEMMA WhoChangesEntry ==
  ASSUME Actor, entry' # entry
  PROVE  AddUpgradeBootEntry \/ RemoveUpgradeBootEntry
<1> USE DEF disk
<1>1. ~(TargetUserspaceCreator \/ VerifyCheckResults \/ DnfPackageDownload
        \/ RemoveUpgradeArtifacts \/ UpgradeInitramfsGenerator \/ DnfDryRun
        \/ RemoveBootFiles)
  BY DEF TargetUserspaceCreator, VerifyCheckResults, DnfPackageDownload,
         RemoveUpgradeArtifacts, UpgradeInitramfsGenerator, DnfDryRun, RemoveBootFiles
<1>2. ~(PreparePythonWorkround \/ ForceDefaultBoot \/ CreateResumeService
        \/ RemoveResumeService \/ DnfUpgradeTransaction)
  BY DEF PreparePythonWorkround, ForceDefaultBoot, CreateResumeService, RemoveResumeService,
         DnfUpgradeTransaction
<1> QED BY <1>1, <1>2 DEF Actor

(* Without --resume by hand, nothing before the transaction is resumed in  *)
(* the installed system.                                                   *)
LEMMA ResumedAlways ==
  ASSUME ~CheckpointEarly, ~HandResume
  PROVE  Spec => []ResumedInv
<1>1. Init => ResumedInv
  BY DEF Init, ResumedInv, Active, Idle
<1>2. IInv /\ ResumedInv /\ [Next]_vars => ResumedInv'
  BY ResumedInductive
<1> QED BY <1>1, <1>2, Inductive, PTL DEF Spec

(* An actor moves the boot loader or the packages as the abstract upgrade  *)
(* does, or changes nothing that is visible there.                         *)
LEMMA ActorRefines ==
  ASSUME ~CheckpointEarly, IInv, EntryInv, ResumedInv, Actor
  PROVE  [Upgrade!Next]_(Upgrade!promise)
<1>1. PICK a \in Actors : ActorMoves(a) /\ SameRecords(db') /\ host' = host
  BY ActorsMove
<1>2. UpgradeFinished' = UpgradeFinished /\ World' = World
  BY <1>1, FinishedKept DEF World
<1>3. Active /\ run.at = "in" /\ IInv'
  BY <1>1, NextKeeps DEF ActorMoves, Active, Next, Workflow
<1>4. World = IF host = "os" THEN "os" ELSE "interim"
  BY <1>3 DEF IInv, ProcessInv, World
<1>5. CASE entry' # entry
  <2>1. CASE AddUpgradeBootEntry
    <3>1. PICK f \in Outcomes, n \in {0, 1} : ActorEnds("add_upgrade_boot_entry", f, n, db)
      BY <2>1 DEF AddUpgradeBootEntry, Cost
    <3>2. run.phase = Interim
      BY <1>3, <3>1, PhaseOfActor DEF ActorEnds, Running, IInv, ProcessInv
    <3>3. pkgs # "target" /\ pkgs' = pkgs
      BY <1>3, <2>1, <3>2 DEF AddUpgradeBootEntry, IInv, TransactionInv, Interim, RPMUpgrade
    <3>4. entry' \in BOOLEAN
      BY <1>3 DEF IInv, TypeOK
    <3> QED BY <1>2, <1>4, <3>3, <3>4 DEF Upgrade!Next, Upgrade!Arm, Upgrade!Disarm
  <2>2. CASE RemoveUpgradeBootEntry
    <3>1. run.phase = InitRamStart
      BY <1>3, <2>2, PhaseOfActor DEF RemoveUpgradeBootEntry, Running, IInv, ProcessInv
    <3>2. pkgs # "target" /\ pkgs' = pkgs
      BY <1>3, <2>2, <3>1 DEF RemoveUpgradeBootEntry, IInv, TransactionInv, InitRamStart, RPMUpgrade
    <3>3. entry' \in BOOLEAN
      BY <1>3 DEF IInv, TypeOK
    <3> QED BY <1>2, <1>4, <3>2, <3>3 DEF Upgrade!Next, Upgrade!Arm, Upgrade!Disarm
  <2> QED BY <1>5, <2>1, <2>2, WhoChangesEntry
<1>6. CASE pkgs' # pkgs
  <2>1. DnfUpgradeTransaction
    BY <1>6, WhoChangesPackages DEF Next, Workflow
  <2>2. \E f : \E n \in {0, 1} : ActorEnds("dnf_upgrade_transaction", f, n, db)
    BY <2>1 DEF DnfUpgradeTransaction, Cost
  <2>3. run.phase = RPMUpgrade /\ "dnf_upgrade_transaction" \in run.todo
    BY <2>2, ActorPhases DEF ActorEnds, Running
  <2>4. ~entry
    BY <1>3, <2>3, EntryGone DEF RPMUpgrade, Preparation, Finalization
  <2>5. pkgs # "target"
    BY <1>3, <2>3 DEF IInv, TransactionInv, RPMUpgrade
  <2>6. host # "os"
    <3>1. db[run.ctx].last = 10
      BY <1>3, <2>3, UpgradeProcess DEF RPMUpgrade, Interim, Finalization
    <3>2. run.resume
      BY <1>3, <2>3 DEF IInv, ProcessInv, RPMUpgrade, Interim
    <3> QED BY <1>3, <3>1, <3>2 DEF ResumedInv, RPMUpgrade
  <2>7. pkgs' \in {"mixed", "target"} /\ entry' = entry
    BY <1>6, <2>1 DEF DnfUpgradeTransaction
  <2> QED BY <1>2, <1>4, <2>4, <2>5, <2>6, <2>7 DEF Upgrade!Next, Upgrade!Install
<1> QED BY <1>2, <1>5, <1>6 DEF Upgrade!promise

(* The last checkpoint of an upgrade is its end; no other one is visible.  *)
LEMMA PhaseEndsRefines ==
  ASSUME ~CheckpointEarly, IInv, EntryInv, PhaseEnds
  PROVE  [Upgrade!Next]_(Upgrade!promise)
<1>1. /\ Active /\ run.at = "in" /\ UNCHANGED <<entry, pkgs>> /\ World' = World
      /\ db' = [db EXCEPT ![run.ctx].last = run.phase]
  BY DEF PhaseEnds, Store, Checkpointed, Active, World, disk
<1>2. /\ run.ctx \in 1 .. Len(db) /\ run.phase = db[run.ctx].last + 1
      /\ db[run.ctx].last \in 0 .. FirstBoot /\ db \in Seq(Execution)
  BY <1>1, CurrentExecution DEF IInv, ProcessInv, TypeOK
<1>3. /\ Len(db') = Len(db)
      /\ db'[run.ctx].last = run.phase /\ db'[run.ctx].kind = db[run.ctx].kind
      /\ \A c \in 1 .. Len(db) : c # run.ctx => db'[c] = db[c]
  BY <1>1, <1>2, ExecutionType DEF Execution, IInv
<1>4. CASE run.phase = FirstBoot /\ db[run.ctx].kind = "upgrade"
  <2>1. host = "os" /\ pkgs = "target"
    BY <1>1, <1>4, FirstBootState
  <2>2. ~entry
    BY SMTT(60), <1>1, <1>2, <1>4 DEF IInv, ProcessInv, Kind, EntryInv, FirstBoot, InitRamStart
  <2>3. UpgradeFinished'
    BY <1>2, <1>3, <1>4 DEF UpgradeFinished
  <2> QED BY <1>1, <2>1, <2>2, <2>3, FinishedBoolean DEF World, Upgrade!Next, Upgrade!Finish
<1>5. CASE ~(run.phase = FirstBoot /\ db[run.ctx].kind = "upgrade")
  <2>1. db[run.ctx].last # FirstBoot
    BY SMTT(60), <1>1, <1>2, CurrentExecution DEF IInv, FirstBoot
  <2>2. \A c \in 1 .. Len(db) :
          (db'[c].kind = "upgrade" /\ db'[c].last = FirstBoot)
          <=> (db[c].kind = "upgrade" /\ db[c].last = FirstBoot)
    BY <1>2, <1>3, <1>5, <2>1
  <2>3. UpgradeFinished' <=> UpgradeFinished
    BY <1>3, <2>2 DEF UpgradeFinished
  <2> QED BY <1>1, <2>3, FinishedBoolean DEF Upgrade!promise
<1> QED BY <1>4, <1>5

(* A new execution is not a finished one.                                  *)
LEMMA CommandsRefine ==
  ASSUME IInv, LeappUpgrade \/ LeappPreupgrade \/ LeappRerun
  PROVE  [Upgrade!Next]_(Upgrade!promise)
<1>1. UNCHANGED <<entry, pkgs>> /\ World' = World
  BY DEF LeappUpgrade, LeappPreupgrade, LeappRerun, machine, disk, World
<1>2. PICK e \in Execution : db' = Append(db, e) /\ (e.kind = "upgrade" => e.last = 0)
  <2>1. CASE LeappUpgrade \/ LeappPreupgrade
    <3>1. \A k \in Kinds : [kind |-> k, last |-> 0, content |-> FALSE] \in Execution
      BY DEF Execution, FirstBoot
    <3> QED BY <2>1, <3>1 DEF LeappUpgrade, LeappPreupgrade, Store, Kinds
  <2>2. CASE LeappRerun
    <3>1. PICK b \in 1 .. Len(db) :
            db' = Append(db, [kind |-> "rerun", last |-> Finalization,
                              content |-> db[b].content])
      BY <2>2 DEF LeappRerun, Store
    <3>2. [kind |-> "rerun", last |-> Finalization, content |-> db[b].content] \in Execution
      BY ExecutionType DEF Execution, Kinds, FirstBoot, Finalization, IInv
    <3> QED BY <3>1, <3>2
  <2> QED BY <2>1, <2>2
<1>3. /\ db'[Len(db) + 1] = e /\ Len(db') = Len(db) + 1 /\ Len(db) \in Nat
      /\ \A b \in 1 .. Len(db) : db'[b] = db[b]
  BY <1>2, DbAppend DEF IInv
<1>4. UpgradeFinished' <=> UpgradeFinished
  BY <1>2, <1>3 DEF UpgradeFinished, FirstBoot
<1> QED BY <1>1, <1>4, FinishedBoolean DEF Upgrade!promise

(* Switching the machine on and off is a reboot; the rest is not visible.  *)
LEMMA MachineRefines ==
  ASSUME ForceSync, IInv, EntryInv,
         \/ PowerOn \/ PickOtherEntry \/ PowerLoss \/ Shutdown \/ ServiceEnds \/ EmergencyExit
         \/ BeginPhase \/ NothingToDo \/ PhaseFails \/ RunLeapp \/ RunLeapp3
         \/ SetFailedFlag \/ ResumeServiceStart \/ LeappUpgradeResume \/ UNCHANGED vars
  PROVE  [Upgrade!Next]_(Upgrade!promise)
<1>1. UNCHANGED <<entry, pkgs, db>>
  BY DEF PowerOn, PickOtherEntry, PowerLoss, Shutdown, ServiceEnds, EmergencyExit, BeginPhase,
     NothingToDo, PhaseFails, RunLeapp, RunLeapp3, SetFailedFlag, ResumeServiceStart,
     LeappUpgradeResume, vars, disk, IInv, RecordInv
<1>2. UpgradeFinished' = UpgradeFinished
  BY <1>1, FinishedKept
<1>3. \/ World' = World \/ World' \in {"os", "down"}
      \/ World = "down" /\ entry /\ World' = "interim"
  <2>1. CASE PowerOn
    BY <2>1 DEF PowerOn, EntryInv, World
  <2>2. CASE PickOtherEntry \/ PowerLoss \/ Shutdown \/ ServiceEnds \/ EmergencyExit
    BY SMTT(60), <2>2 DEF PickOtherEntry, PowerLoss, Shutdown, ServiceEnds, EmergencyExit, World
  <2>3. CASE \/ BeginPhase \/ NothingToDo \/ PhaseFails \/ RunLeapp \/ RunLeapp3
             \/ SetFailedFlag \/ ResumeServiceStart \/ LeappUpgradeResume \/ UNCHANGED vars
    BY <2>3 DEF BeginPhase, NothingToDo, PhaseFails, RunLeapp, RunLeapp3, SetFailedFlag,
       ResumeServiceStart, LeappUpgradeResume, vars, machine, World
  <2> QED BY <2>1, <2>2, <2>3
<1> QED BY <1>1, <1>2, <1>3 DEF Upgrade!Next, Upgrade!Reboot, Upgrade!promise

(* With a synchronous leapp.db and no --resume typed by hand, the lifecycle *)
(* implements InPlaceUpgrade: the packages change only in the interim       *)
(* system and only with the upgrade entry removed, and never back; the      *)
(* upgrade is finished only from the booted target system.                  *)
THEOREM Refinement ==
  ASSUME ~CheckpointEarly, ForceSync, ~HandResume
  PROVE  Spec => ImplementsUpgrade
<1>1. Init => Upgrade!Init
  BY DEF Init, Upgrade!Init, World, UpgradeFinished
<1>2. IInv /\ EntryInv /\ ResumedInv /\ [Next]_vars => [Upgrade!Next]_(Upgrade!promise)
  <2>1. SUFFICES ASSUME IInv, EntryInv, ResumedInv, [Next]_vars
                 PROVE  [Upgrade!Next]_(Upgrade!promise)
    OBVIOUS
  <2>2. CASE Actor
    BY <2>1, <2>2, ActorRefines
  <2>3. CASE PhaseEnds
    BY <2>1, <2>3, PhaseEndsRefines
  <2>4. CASE LeappUpgrade \/ LeappPreupgrade \/ LeappRerun
    BY <2>1, <2>4, CommandsRefine
  <2>5. CASE ~(Actor \/ PhaseEnds \/ LeappUpgrade \/ LeappPreupgrade \/ LeappRerun)
    BY <2>1, <2>5, MachineRefines DEF Next, Workflow, Script, Operator
  <2> QED BY <2>2, <2>3, <2>4, <2>5
<1> QED
  BY <1>1, <1>2, Inductive, EntryAlways, ResumedAlways, PTL
  DEF Spec, ImplementsUpgrade, Upgrade!Spec

(* What the theorems of this module rest on holds in every reachable state: *)
(* the invariant of IPULifecycleProofs, of the entry and of what is resumed. *)
THEOREM InvariantAlways ==
  ASSUME ~CheckpointEarly, ForceSync, ~HandResume
  PROVE  Spec => []InductiveInvariant
<1>1. IInv /\ EntryInv /\ ResumedInv => InductiveInvariant
  BY DEF InductiveInvariant
<1> QED BY <1>1, Inductive, EntryAlways, ResumedAlways, PTL

-----------------------------------------------------------------------------
(* The entry and the boot files, whatever counts as an executed phase.      *)

(* Whatever counts as an executed phase: once an execution with BootContent *)
(* is past InitRamStartPhase, the entry is gone.                           *)
EntryGoneInv ==
  /\ \A c \in 1 .. Len(db) :
       IsLastUpgrade(c) /\ db[c].content /\ db[c].last >= InitRamStart => ~entry
  /\ (/\ run.at = "in" /\ run.phase = InitRamStart /\ ~run.err
      /\ "remove_upgrade_boot_entry" \notin run.todo) => ~entry
  /\ durable = db

(* The actor of InitRamStartPhase.                                         *)
LEMMA OnlyActorOfInitRamStart ==
  ActorsOf(InitRamStart) = {"remove_upgrade_boot_entry"}
BY SMTT(60) DEF ActorsOf, Actors, PhaseOf, TargetFacts, Reports, Download, Interim, InitRamStart,
   Preparation, RPMUpgrade, Finalization, FirstBoot

(* The newest upgrade is that of a process past the first phases.          *)
LEMMA HalfwayUpgrade ==
  ASSUME TypeOK, HalfwayInv, run.at = "in", run.phase \in Interim .. Preparation,
         NEW c \in 1 .. Len(db), IsLastUpgrade(c)
  PROVE  c = run.ctx
<1>1. Active
  BY DEF Active
<1>2. /\ run.ctx \in 1 .. Len(db) /\ Kind \in Kinds /\ run.phase \in Nat /\ Len(db) \in Nat
      /\ db[run.ctx].last \in {run.phase - 1, run.phase} /\ run.phase <= run.until
      /\ Kind = "upgrade" => IsLastUpgrade(run.ctx)
      /\ Kind = "preupgrade" => run.until = Reports
      /\ Kind = "rerun" => db[run.ctx].last >= Finalization
  BY <1>1, HalfwayExecution DEF HalfwayInv
<1>3. Kind # "preupgrade"
  BY <1>2 DEF Reports, Interim, Preparation
<1>4. Kind # "rerun"
  BY <1>2 DEF Interim, Preparation, Finalization
<1>5. IsLastUpgrade(run.ctx) /\ db[run.ctx].kind = "upgrade"
  BY <1>2, <1>3, <1>4 DEF Kinds, Kind
<1> QED BY <1>2, <1>5 DEF IsLastUpgrade

(* A checkpoint leaves BootContent.                                        *)
LEMMA CheckpointKeepsContent ==
  ASSUME TypeOK, HalfwayInv, Active, db' \in {db, Checkpointed(db)}
  PROVE  \A c \in 1 .. Len(db) : db'[c].content = db[c].content
<1>1. CASE db' = db
  BY <1>1
<1>2. CASE db' = Checkpointed(db)
  <2>1. \A c \in 1 .. Len(db) : Checkpointed(db)[c].content = db[c].content
    BY SameDb, CheckpointIs
  <2> QED BY <1>2, <2>1
<1> QED BY <1>1, <1>2

(* The checkpoint of a phase past the removal of the entry.                *)
LEMMA CheckpointAfterEntry ==
  ASSUME TypeOK, HalfwayInv, EntryGoneInv, run.at = "in", PhaseRecords,
         \A c \in 1 .. Len(db) : db'[c].content = db[c].content,
         NEW c \in 1 .. Len(db'), IsLastUpgrade(c)', db'[c].content,
         db'[c].last >= InitRamStart,
         db'[c].last # db[c].last => run.phase # InitRamStart
  PROVE  ~entry
<1>1. /\ c \in 1 .. Len(db) /\ IsLastUpgrade(c) /\ db[c].content
      /\ db'[c].last \in {db[c].last} \cup IF c = run.ctx THEN {run.phase} ELSE {}
  BY DEF PhaseRecords, IsLastUpgrade
<1>2. CASE db'[c].last = db[c].last
  BY <1>1, <1>2 DEF EntryGoneInv
<1>3. CASE db'[c].last # db[c].last
  <2>1. c = run.ctx /\ db'[c].last = run.phase /\ run.phase # InitRamStart
    BY <1>1, <1>3
  <2>2. db[c].last \in {run.phase - 1, run.phase} /\ run.phase \in Nat
    <3>1. Active
      BY DEF Active
    <3> QED BY <2>1, <3>1, HalfwayExecution DEF HalfwayInv
  <2>3. db[c].last >= InitRamStart
    BY <2>1, <2>2 DEF InitRamStart
  <2> QED BY <1>1, <2>3 DEF EntryGoneInv
<1> QED BY <1>2, <1>3

(* Actors other than those that make or remove the entry.                  *)
LEMMA OtherActorsLeaveEntry ==
  ASSUME ForceSync, TypeOK, HalfwayInv, EntryGoneInv, NEW a, NEW f, NEW STATE cost,
         cost \in Nat, ActorEnds(a, f, cost, db), a # "remove_upgrade_boot_entry",
         entry' = entry
  PROVE  EntryGoneInv'
<1>0. SameRecords(db)
  BY SameDb
<1>1. /\ run.at = "in" /\ a \in run.todo /\ Active /\ a \in ActorsOf(run.phase)
      /\ db' \in {db, Checkpointed(db)} /\ durable' = db' 
      /\ \/ f = "ok" /\ run' = [run EXCEPT !.todo = run.todo \ {a}]
         \/ /\ f = "error"
            /\ \E t \in SUBSET run.todo : run' = [run EXCEPT !.err = TRUE, !.todo = t]
         \/ f = "crash" /\ run' = Idle
  BY <1>0, ActorStepAnyhow
<1>2. run.phase # InitRamStart
  BY <1>1, OnlyActorOfInitRamStart
<1>3. PhaseRecords /\ (StaysInPhase \/ run' = Idle)
  BY <1>0, ActorStaysInPhase
<1>4. \A c \in 1 .. Len(db) : db'[c].content = db[c].content
  BY <1>0, <1>1, CheckpointKeepsContent
<1>5. ~(run'.at = "in" /\ run'.phase = InitRamStart)
  BY <1>2, <1>3 DEF StaysInPhase, Idle
<1>6. ASSUME NEW c \in 1 .. Len(db'), IsLastUpgrade(c)', db'[c].content,
             db'[c].last >= InitRamStart
      PROVE  ~entry'
  BY <1>1, <1>2, <1>3, <1>4, <1>6, CheckpointAfterEntry
<1> QED BY <1>1, <1>5, <1>6 DEF EntryGoneInv

(* BootContent is produced, and the entry made, before InitRamStartPhase.  *)
LEMMA InterimLeavesEntry ==
  ASSUME ForceSync, TypeOK, HalfwayInv, EntryGoneInv, NEW a, NEW f, NEW STATE cost,
         NEW STATE d, SameRecords(d), \A c \in 1 .. Len(db) : c # run.ctx => d[c] = db[c],
         cost \in Nat, ActorEnds(a, f, cost, d), PhaseOf[a] = Interim
  PROVE  EntryGoneInv'
<1>1. /\ run.at = "in" /\ a \in run.todo /\ Active /\ a \in ActorsOf(run.phase)
      /\ db' \in {d, Checkpointed(d)} /\ durable' = db'
  BY ActorStepAnyhow
<1>2. run.phase = Interim
  BY <1>1 DEF ActorsOf
<1>3. PhaseRecords /\ (StaysInPhase \/ run' = Idle)
  BY ActorStaysInPhase
<1>4. ~(run'.at = "in" /\ run'.phase = InitRamStart)
  BY <1>2, <1>3 DEF StaysInPhase, Idle, Interim, InitRamStart
<1>5. ASSUME NEW c \in 1 .. Len(db'), IsLastUpgrade(c)' PROVE db'[c].last < InitRamStart
  <2>1. c \in 1 .. Len(db) /\ IsLastUpgrade(c)
    BY <1>3, <1>5 DEF PhaseRecords, IsLastUpgrade
  <2>2. c = run.ctx
    BY <1>1, <1>2, <2>1, HalfwayUpgrade DEF Interim, Preparation
  <2>3. db[run.ctx].last \in {run.phase - 1, run.phase}
    BY <1>1 DEF HalfwayInv
  <2>4. db'[c].last \in {run.phase - 1, run.phase}
    BY <1>3, <2>1, <2>2, <2>3 DEF PhaseRecords
  <2> QED BY <1>2, <2>4 DEF Interim, InitRamStart
<1>6. ASSUME NEW c \in 1 .. Len(db'), IsLastUpgrade(c)'
      PROVE  ~(db'[c].last >= InitRamStart)
  <2>1. db'[c].last \in Nat
    <3>1. db' \in Seq(Execution)
      BY <1>3 DEF PhaseRecords
    <3>2. db'[c] \in Execution
      BY <3>1
    <3> QED BY <3>2 DEF Execution
  <2> QED BY <1>5, <1>6, <2>1 DEF InitRamStart
<1> QED BY <1>1, <1>4, <1>6 DEF EntryGoneInv

(* The actor that removes it.                                              *)
LEMMA RemovalLeavesNoEntry ==
  ASSUME ForceSync, TypeOK, HalfwayInv, EntryGoneInv, RemoveUpgradeBootEntry
  PROVE  EntryGoneInv'
<1>0. SameRecords(db) /\ 0 \in Nat /\ \A f : Cost(f) \in Nat
  BY SameDb DEF Cost
<1>1. PICK f, n :
        /\ n \in Nat /\ ActorEnds("remove_upgrade_boot_entry", f, n, db)
        /\ \/ db[run.ctx].content /\ entry' = FALSE
           \/ db[run.ctx].content /\ f = "crash" /\ entry' = entry
           \/ ~db[run.ctx].content /\ f = "error" /\ entry' = entry
  <2>1. CASE db[run.ctx].content
    <3>1. PICK f \in {"ok", "crash"} :
            /\ ActorEnds("remove_upgrade_boot_entry", f, Cost(f), db)
            /\ GrubbyRemove \/ (f = "crash" /\ UNCHANGED <<entry, default>>)
      BY <2>1 DEF RemoveUpgradeBootEntry
    <3> QED BY <1>0, <2>1, <3>1 DEF GrubbyRemove
  <2>2. CASE ~db[run.ctx].content
    BY <1>0, <2>2 DEF RemoveUpgradeBootEntry
  <2> QED BY <2>1, <2>2
<1>2. /\ run.at = "in" /\ Active
      /\ db' \in {db, Checkpointed(db)} /\ (db' # db => f # "crash") /\ durable' = db'
      /\ \/ f = "ok" /\ run' = [run EXCEPT !.todo = run.todo \ {"remove_upgrade_boot_entry"}]
         \/ /\ f = "error"
            /\ \E t \in SUBSET run.todo : run' = [run EXCEPT !.err = TRUE, !.todo = t]
         \/ f = "crash" /\ run' = Idle
  <2>1. n \in Nat /\ ActorEnds("remove_upgrade_boot_entry", f, n, db) /\ SameRecords(db)
    BY <1>0, <1>1
  <2>2. run.at = "in" /\ Active /\ durable' = db'
    BY <2>1, ActorStepAnyhow
  <2>4. db' \in {db, Checkpointed(db)}
    BY <2>1, ActorStepAnyhow
  <2>5. db' # db => f # "crash"
    BY <2>1, Zenon DEF ActorEnds, Store
  <2>3. \/ f = "ok" /\ run' = [run EXCEPT !.todo = run.todo \ {"remove_upgrade_boot_entry"}]
        \/ /\ f = "error"
           /\ \E t \in SUBSET run.todo : run' = [run EXCEPT !.err = TRUE, !.todo = t]
        \/ f = "crash" /\ run' = Idle
    BY <2>1, ActorStepAnyhow
  <2> QED BY <2>2, <2>3, <2>4, <2>5
<1>3. PhaseRecords /\ (StaysInPhase \/ run' = Idle)
  BY <1>0, <1>1, ActorStaysInPhase
<1>4. \A c \in 1 .. Len(db) : db'[c].content = db[c].content
  BY <1>0, <1>2, CheckpointKeepsContent
<1>5. CASE entry' = FALSE
  BY <1>2, <1>5 DEF EntryGoneInv
<1>6. CASE entry' = entry /\ f = "crash"
  <2>1. db' = db /\ run' = Idle
    BY <1>2, <1>6
  <2> QED BY <1>2, <1>6, <2>1 DEF EntryGoneInv, Idle, IsLastUpgrade
<1>7. CASE entry' = entry /\ f = "error" /\ ~db[run.ctx].content
  <2>1. PICK t : run' = [run EXCEPT !.err = TRUE, !.todo = t]
    BY <1>2, <1>7
  <2>2. run'.err
    BY <2>1 DEF TypeOK, Processes
  <2>3. ASSUME NEW c \in 1 .. Len(db'), IsLastUpgrade(c)', db'[c].content,
               db'[c].last >= InitRamStart
        PROVE  ~entry
    <3>1. c # run.ctx
      BY <1>3, <1>4, <1>7, <2>3 DEF PhaseRecords
    <3>2. db'[c].last = db[c].last
      BY <1>3, <3>1 DEF PhaseRecords
    <3> QED BY <1>2, <1>3, <1>4, <2>3, <3>2, CheckpointAfterEntry
  <2> QED BY <1>2, <1>7, <2>2, <2>3 DEF EntryGoneInv
<1> QED BY <1>1, <1>5, <1>6, <1>7

(* All actors.                                                             *)
LEMMA ActorsLeaveEntryGone ==
  ASSUME ForceSync, TypeOK, HalfwayInv, EntryGoneInv, Actor
  PROVE  EntryGoneInv'
<1>0. 0 \in Nat /\ 1 \in Nat /\ SameRecords(db) /\ \A f : Cost(f) \in Nat
  BY SameDb DEF Cost
<1>1. CASE \/ TargetUserspaceCreator \/ DnfPackageDownload \/ DnfDryRun
           \/ RemoveUpgradeArtifacts \/ RemoveBootFiles
  <2>1. PICK a, f, n :
          n \in Nat /\ ActorEnds(a, f, n, db) /\ a # "remove_upgrade_boot_entry" /\ entry' = entry
    BY <1>0, <1>1 DEF TargetUserspaceCreator, DnfPackageDownload, DnfDryRun,
       RemoveUpgradeArtifacts, RemoveBootFiles, disk
  <2> QED BY <2>1, OtherActorsLeaveEntry
<1>2. CASE \/ PreparePythonWorkround \/ ForceDefaultBoot \/ DnfUpgradeTransaction
           \/ CreateResumeService \/ RemoveResumeService
  <2>1. PICK a, f, n :
          n \in Nat /\ ActorEnds(a, f, n, db) /\ a # "remove_upgrade_boot_entry" /\ entry' = entry
    BY <1>0, <1>2 DEF PreparePythonWorkround, ForceDefaultBoot, DnfUpgradeTransaction,
       CreateResumeService, RemoveResumeService
  <2> QED BY <2>1, OtherActorsLeaveEntry
<1>3. CASE AddUpgradeBootEntry
  <2>1. PICK f, n : n \in Nat /\ ActorEnds("add_upgrade_boot_entry", f, n, db)
    BY <1>0, <1>3 DEF AddUpgradeBootEntry
  <2>2. PhaseOf["add_upgrade_boot_entry"] = Interim
    BY DEF PhaseOf
  <2> QED BY <1>0, <2>1, <2>2, InterimLeavesEntry
<1>4. CASE UpgradeInitramfsGenerator
  <2>1. PICK f : ActorEnds("upgrade_initramfs_generator", f, IF userspace THEN Cost(f) ELSE 0,
                   IF f = "ok" THEN [db EXCEPT ![run.ctx].content = TRUE] ELSE db)
    BY <1>4 DEF UpgradeInitramfsGenerator
  <2>2. Active
    BY <2>1 DEF ActorEnds, Running, Active
  <2> DEFINE d == IF f = "ok" THEN [db EXCEPT ![run.ctx].content = TRUE] ELSE db
             n == IF userspace THEN Cost(f) ELSE 0
  <2>3. /\ SameRecords(d) /\ n \in Nat /\ ActorEnds("upgrade_initramfs_generator", f, n, d)
        /\ \A c \in 1 .. Len(db) : c # run.ctx => d[c] = db[c]
    BY <1>0, <2>1, <2>2, ContentStoredAnyhow
  <2>4. PhaseOf["upgrade_initramfs_generator"] = Interim
    BY DEF PhaseOf
  <2> HIDE DEF d, n
  <2> QED BY <2>3, <2>4, InterimLeavesEntry
<1>5. CASE RemoveUpgradeBootEntry
  BY <1>5, RemovalLeavesNoEntry
<1>6. CASE VerifyCheckResults
  <2>1. PICK inhibited \in BOOLEAN :
          run' = [run EXCEPT !.todo = @ \ {"verify_check_results"}, !.stop = inhibited]
    BY <1>6 DEF VerifyCheckResults
  <2>2. /\ run.at = "in" /\ Active /\ "verify_check_results" \in ActorsOf(run.phase)
        /\ db' \in {db, Checkpointed(db)} /\ durable' = db' /\ entry' = entry
    BY <1>6 DEF VerifyCheckResults, Running, Store, Synced, HalfwayInv, Active, disk
  <2>3. run.phase # InitRamStart
    BY <2>2, PhaseOfActor DEF Reports, InitRamStart
  <2>4. PhaseRecords
    BY <1>6, ActorsStayInPhase DEF Actor
  <2>5. \A c \in 1 .. Len(db) : db'[c].content = db[c].content
    BY <1>0, <2>2, CheckpointKeepsContent
  <2>6. run'.phase # InitRamStart
    BY <2>1, <2>3 DEF TypeOK, Processes
  <2>7. ASSUME NEW c \in 1 .. Len(db'), IsLastUpgrade(c)', db'[c].content,
               db'[c].last >= InitRamStart
        PROVE  ~entry'
    BY <2>2, <2>3, <2>4, <2>5, <2>7, CheckpointAfterEntry
  <2> QED BY <2>2, <2>6, <2>7 DEF EntryGoneInv
<1> QED BY <1>1, <1>2, <1>3, <1>4, <1>5, <1>6 DEF Actor

(* The other steps.                                                        *)
LEMMA EntryStaysGone ==
  ASSUME ForceSync, TypeOK, HalfwayInv, EntryGoneInv, [Next]_vars
  PROVE  EntryGoneInv'
<1>1. CASE Actor
  BY <1>1, ActorsLeaveEntryGone
<1>2. CASE BeginPhase
  <2>1. PICK S \in SUBSET ActorsOf(run.phase + 1) :
          /\ Kind # "rerun" => S = ActorsOf(run.phase + 1)
          /\ run' = [run EXCEPT !.at = "in", !.phase = @ + 1, !.todo = S]
    BY <1>2 DEF BeginPhase, Kind
  <2>2. /\ run'.phase = run.phase + 1 /\ run'.todo = S /\ Active /\ run.at = "between"
        /\ UNCHANGED <<db, durable, entry>>
    BY <2>1, <1>2 DEF TypeOK, Processes, BeginPhase, Active, disk
  <2>3. Kind = "rerun" => run.phase + 1 # InitRamStart
    <3>1. /\ Kind = "rerun" => db[run.ctx].last >= Finalization
          /\ db[run.ctx].last = run.phase /\ run.phase \in Nat
      BY <2>2, HalfwayExecution DEF HalfwayInv
    <3> QED BY <3>1 DEF Finalization, InitRamStart
  <2>4. run'.phase = InitRamStart => "remove_upgrade_boot_entry" \in run'.todo
    BY <2>1, <2>2, <2>3, ActorOfPhase
  <2> QED BY <2>2, <2>4 DEF EntryGoneInv, IsLastUpgrade
<1>3. CASE PhaseEnds
  <2>1. /\ run.at = "in" /\ Active /\ run.todo = {} /\ ~run.err /\ entry' = entry
        /\ db' = Checkpointed(db) /\ durable' = db'
    BY <1>3 DEF PhaseEnds, Store, Synced, Active, disk
  <2>2. run'.at # "in"
    BY <1>3 DEF PhaseEnds, Exit, Idle, TypeOK, Processes
  <2>3. /\ PhaseRecords /\ \A c \in 1 .. Len(db) : db'[c].content = db[c].content
    <3> DEFINE e == Checkpointed(db)
    <3>1. /\ e \in Seq(Execution) /\ Len(e) = Len(db)
          /\ \A c \in 1 .. Len(db) :
               /\ e[c].kind = db[c].kind /\ e[c].content = db[c].content
               /\ e[c].last = IF c = run.ctx THEN run.phase ELSE db[c].last
      BY <2>1, SameDb, CheckpointIs
    <3> HIDE DEF e
    <3>2. db' = e
      BY <2>1 DEF e
    <3> QED BY <3>1, <3>2 DEF PhaseRecords
  <2>4. ASSUME NEW c \in 1 .. Len(db'), IsLastUpgrade(c)', db'[c].content,
               db'[c].last >= InitRamStart
        PROVE  ~entry
    <3>1. CASE run.phase = InitRamStart
      BY <2>1, <3>1 DEF EntryGoneInv
    <3>2. CASE run.phase # InitRamStart
      BY <2>1, <2>3, <2>4, <3>2, CheckpointAfterEntry
    <3> QED BY <3>1, <3>2
  <2> QED BY <2>1, <2>2, <2>4 DEF EntryGoneInv
<1>4. CASE LeappUpgrade \/ LeappPreupgrade \/ LeappRerun
  <2>1. PICK e \in Execution : db' = Append(db, e) /\ (e.kind = "upgrade" => e.last = 0)
    <3>1. CASE LeappUpgrade \/ LeappPreupgrade
      <4>1. PICK k \in {"upgrade", "preupgrade"} :
              db' = Append(db, [kind |-> k, last |-> 0, content |-> FALSE])
        BY <3>1 DEF LeappUpgrade, LeappPreupgrade, Store
      <4>2. [kind |-> k, last |-> 0, content |-> FALSE] \in Execution
        BY DEF Execution, Kinds, FirstBoot
      <4> QED BY <4>1, <4>2
    <3>2. CASE LeappRerun
      <4>1. PICK b \in 1 .. Len(db) :
              db' = Append(db, [kind |-> "rerun", last |-> Finalization,
                                content |-> db[b].content])
        BY <3>2 DEF LeappRerun, Store
      <4>2. [kind |-> "rerun", last |-> Finalization, content |-> db[b].content] \in Execution
        BY ExecutionType DEF Execution, Kinds, FirstBoot, Finalization
      <4> QED BY <4>1, <4>2
    <3> QED BY <1>4, <3>1, <3>2
  <2>2. entry' = entry /\ durable' = db' /\ run'.at = "between"
    <3>1. \A c, p, u, r : Process(c, p, u, r).at = "between"
      BY DEF Process
    <3>2. \E c, p, u, r : run' = Process(c, p, u, r)
      BY <1>4, Zenon DEF LeappUpgrade, LeappPreupgrade, LeappRerun
    <3>3. entry' = entry /\ durable' = db'
      BY <1>4 DEF LeappUpgrade, LeappPreupgrade, LeappRerun, Store, Synced, disk
    <3> QED BY <3>1, <3>2, <3>3
  <2>3. ASSUME NEW c \in 1 .. Len(db'), IsLastUpgrade(c)', db'[c].content,
               db'[c].last >= InitRamStart
        PROVE  ~entry
    <3>1. /\ db'[Len(db) + 1] = e /\ Len(db') = Len(db) + 1 /\ Len(db) \in Nat
          /\ \A b \in 1 .. Len(db) : db'[b] = db[b]
      BY <2>1, DbAppend
    <3>2. c # Len(db) + 1
      BY <2>1, <2>3, <3>1 DEF IsLastUpgrade, InitRamStart
    <3>3. c \in 1 .. Len(db) /\ IsLastUpgrade(c) /\ db[c].content /\ db[c].last >= InitRamStart
      BY <2>3, <3>1, <3>2 DEF IsLastUpgrade
    <3> QED BY <3>3 DEF EntryGoneInv
  <2> QED BY <2>2, <2>3 DEF EntryGoneInv
<1>5. CASE \/ NothingToDo \/ PhaseFails \/ Script \/ PowerOn \/ ResumeServiceStart \/ PowerLoss
           \/ LeappUpgradeResume \/ Shutdown \/ EmergencyExit \/ PickOtherEntry
           \/ UNCHANGED vars
  <2>1. UNCHANGED <<db, entry>> /\ durable' = db'
    BY <1>5
    DEF NothingToDo, PhaseFails, Script, RunLeapp, RunLeapp3, SetFailedFlag, ServiceEnds,
        PowerOn, ResumeServiceStart, PowerLoss, LeappUpgradeResume, Shutdown, EmergencyExit,
        PickOtherEntry, vars, disk, EntryGoneInv
  <2>2. run' = run \/ run'.at # "in"
    BY <1>5 DEF NothingToDo, PhaseFails, Script, RunLeapp, RunLeapp3, SetFailedFlag, ServiceEnds,
       PowerOn, ResumeServiceStart, PowerLoss, LeappUpgradeResume, Shutdown, EmergencyExit,
       PickOtherEntry, vars, Exit, Idle, Process
  <2> QED BY <2>1, <2>2 DEF EntryGoneInv, IsLastUpgrade
<1> QED BY <1>1, <1>2, <1>3, <1>4, <1>5 DEF Next, Workflow, Operator

(* Together, in every behaviour.                                           *)
LEMMA EntryGoneAlways ==
  ASSUME ForceSync
  PROVE  Spec => []EntryGoneInv
<1>1. Init => EntryGoneInv
  BY DEF Init, EntryGoneInv, Idle
<1>2. TypeOK /\ HalfwayInv /\ EntryGoneInv /\ [Next]_vars => EntryGoneInv'
  BY EntryStaysGone
<1> QED BY <1>1, <1>2, HalfwayAlways, PTL DEF Spec

(* The actor that removes the boot files works on the newest upgrade, and  *)
(* does nothing without its BootContent.                                   *)
LEMMA FilesRemoved ==
  ASSUME TypeOK, HalfwayInv, EntryGoneInv, RemoveBootFiles, bootFiles' # bootFiles
  PROVE  ~entry
<1>1. db[run.ctx].content /\ run.at = "in" /\ "remove_boot_files" \in run.todo
  BY DEF RemoveBootFiles, ActorEnds, Running
<1>2. Active /\ run.phase = Preparation
  BY <1>1, PhaseOfActor DEF HalfwayInv, Active
<1>3. run.ctx \in 1 .. Len(db) /\ db[run.ctx].last \in {run.phase - 1, run.phase} /\ Kind \in Kinds
  BY <1>1, <1>2, HalfwayExecution DEF HalfwayInv
<1>4. IsLastUpgrade(run.ctx)
  <2>1. /\ run.phase <= run.until
        /\ Kind = "upgrade" => IsLastUpgrade(run.ctx)
        /\ Kind = "preupgrade" => run.until = Reports
        /\ Kind = "rerun" => db[run.ctx].last >= Finalization
    BY <1>2 DEF HalfwayInv
  <2> QED BY <1>2, <1>3, <2>1 DEF Kinds, Preparation, Reports, Finalization
<1>5. db[run.ctx].last >= InitRamStart
  BY <1>2, <1>3 DEF Preparation, InitRamStart
<1> QED BY <1>1, <1>3, <1>4, <1>5 DEF EntryGoneInv

(* The upgrade kernel and initramfs are kept as long as the entry, also    *)
(* when phases that ran half count as executed or run in the wrong system. *)
THEOREM BootFilesKept ==
  ASSUME ForceSync
  PROVE  Spec => BootFilesOutliveEntry
<1>1. TypeOK /\ HalfwayInv /\ EntryGoneInv /\ [Next]_vars
        => [/\ bootFiles' # bootFiles
            /\ bootFiles' = "absent" \/ Running("remove_boot_files")
            => ~entry]_vars
  BY WhoRemovesBootFiles, FilesRemoved
<1> QED BY <1>1, HalfwayAlways, EntryGoneAlways, PTL DEF Spec, BootFilesOutliveEntry
=============================================================================
