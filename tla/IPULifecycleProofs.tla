------------------------- MODULE IPULifecycleProofs --------------------------
(***************************************************************************)
(* Proofs about IPULifecycle, for every number of executions and failures. *)
(***************************************************************************)
EXTENDS IPULifecycle, SequenceTheorems, TLAPS

Active == run.at # "idle"
Kind   == db[run.ctx].kind

-----------------------------------------------------------------------------
(* The inductive invariant, in parts.                                      *)

(* A process works on a stored execution, in the phase after its last      *)
(* checkpoint, with actors of that phase; an `upgrade` process works on    *)
(* the newest execution of that kind.                                      *)
ProcessInv ==
  /\ ~Active => run = Idle
  /\ Active =>
       /\ host \in {"os", "initram"}
       /\ run.ctx \in 1 .. Len(db)
       /\ run.phase = db[run.ctx].last + IF run.at = "in" THEN 1 ELSE 0
       /\ run.at = "between" => run.todo = {} /\ ~run.err
       /\ run.at = "in" => run.todo \subseteq ActorsOf(run.phase)
       /\ run.phase <= run.until
       /\ Kind = "upgrade" => IsLastUpgrade(run.ctx)
       /\ Kind # "preupgrade" => run.until = FirstBoot
       /\ Kind = "preupgrade" => run.until = Reports
       /\ Kind = "rerun" => run.resume
       /\ Kind = "preupgrade" => ~run.resume
       /\ ~run.resume => /\ host = "os"
                         /\ run.phase <= Interim
                         /\ run.at = "between" => run.phase # Interim

(* do-upgrade.sh is on its first leapp until RPMUpgradePhase is done, and  *)
(* on its second one until FinalizationPhase is.                           *)
ScriptInv ==
  /\ script = "none" <=> host # "initram"
  /\ script \in {"first", "second"} <=> host = "initram" /\ Active
  /\ Active /\ host = "initram" => Kind = "upgrade" /\ run.resume
  /\ script = "first" => /\ run.phase <= RPMUpgrade
                         /\ run.at = "between" => run.phase < RPMUpgrade
  /\ script = "second" => /\ run.phase <= Finalization
                          /\ run.at = "between" => run.phase < Finalization
  /\ script = "between" =>
       \A c \in 1 .. Len(db) : IsLastUpgrade(c) =>
         /\ db[c].last <= RPMUpgrade
         /\ pkgs = "target" => db[c].last = RPMUpgrade

(* The RPMUpgradePhase checkpoint is stored after the packages have been   *)
(* upgraded, and a `rerun` only after that.                                *)
Recorded(d) ==
  \A c \in 1 .. Len(d) :
    /\ d[c].last >= RPMUpgrade \/ d[c].kind = "rerun" => pkgs = "target"
    /\ d[c].kind = "rerun" => d[c].last >= Finalization
    /\ d[c].kind = "preupgrade" => d[c].last <= Reports
RecordInv ==
  /\ Recorded(db) /\ Recorded(durable)
  /\ host # "os" \/ pkgs = "target" \/ ForceSync => durable = db

(* A running transaction finds packages to upgrade, and the phase it is in *)
(* succeeds only if it has.                                                *)
TransactionInv ==
  Active =>
    /\ pkgs = "target" =>
         /\ run.resume
         /\ run.at = "between" => run.phase >= RPMUpgrade
         /\ run.at = "in" => \/ run.phase > RPMUpgrade
                             \/ /\ run.phase = RPMUpgrade
                                /\ "dnf_upgrade_transaction" \notin run.todo
    /\ (/\ run.at = "in" /\ run.phase = RPMUpgrade /\ ~run.err
        /\ "dnf_upgrade_transaction" \notin run.todo) => pkgs = "target"

ServiceInv ==
  /\ ResumeServiceOnTarget
  /\ svcJob => svc /\ host = "os" /\ run = Idle

IInv == TypeOK /\ ProcessInv /\ ScriptInv /\ RecordInv /\ TransactionInv /\ ServiceInv

-----------------------------------------------------------------------------
(* Each actor runs in the phase it is tagged with, and in no other.        *)
LEMMA PhaseOfActor ==
  ASSUME NEW a, NEW p, a \in ActorsOf(p)
  PROVE  /\ a = "dnf_upgrade_transaction" => p = RPMUpgrade
         /\ a = "add_upgrade_boot_entry" => p = Interim
         /\ a = "remove_upgrade_boot_entry" => p = InitRamStart
         /\ a = "remove_boot_files" => p = Preparation
         /\ a = "create_systemd_service" => p = Finalization
         /\ a = "prepare_python_workround" => p = RPMUpgrade
         /\ a = "verify_check_results" => p = Reports
         /\ a = "upgrade_initramfs_generator" => p = Interim
  BY DEF ActorsOf, Actors, PhaseOf

(* The phases that must run the transaction and the removal of the entry.  *)
LEMMA ActorOfPhase ==
  /\ "dnf_upgrade_transaction" \in ActorsOf(RPMUpgrade)
  /\ "remove_upgrade_boot_entry" \in ActorsOf(InitRamStart)
  BY SMTT(60) DEF ActorsOf, Actors, PhaseOf, RPMUpgrade, InitRamStart

SameRecords(d) ==
  /\ d \in Seq(Execution)
  /\ Len(d) = Len(db)
  /\ \A c \in 1 .. Len(db) : d[c].kind = db[c].kind /\ d[c].last = db[c].last

(* What an actor's end does to the process, the script and leapp.db.       *)
LEMMA ActorStep ==
  ASSUME ~CheckpointEarly, NEW a, NEW f, NEW STATE cost, NEW STATE d,
         TypeOK, cost \in Nat, ActorEnds(a, f, cost, d)
  PROVE  /\ run.at = "in" /\ a \in run.todo
         /\ host' = host /\ svcJob' = svcJob /\ faults' \in 0 .. MaxFaults
         /\ db' = d /\ durable' \in {db', durable}
         /\ ForceSync \/ run.resume => durable' = db'
         /\ \/ /\ f = "ok" /\ script' = script
               /\ run' = [run EXCEPT !.todo = run.todo \ {a}]
            \/ /\ f = "error" /\ script' = script
               /\ \E t \in SUBSET run.todo :
                    /\ a \notin t
                    /\ run' = [run EXCEPT !.err = TRUE, !.todo = t]
            \/ /\ f = "crash" /\ run' = Idle
               /\ script' = IF script \in {"first", "second"} THEN "failed" ELSE script
<1>1. /\ run.at = "in" /\ a \in run.todo
      /\ host' = host /\ svcJob' = svcJob
  BY DEF ActorEnds, Running
<1>2. faults' \in 0 .. MaxFaults
  BY LifecycleAssumption DEF ActorEnds, TypeOK
<1>3. db' = d /\ durable' \in {db', durable} /\ (ForceSync \/ run.resume => durable' = db')
  BY DEF ActorEnds, Store, Synced
<1>4. CASE f = "ok"
  BY <1>1, <1>2, <1>3, <1>4 DEF ActorEnds
<1>5. CASE f = "error"
  <2>1. PICK t : /\ t \in SUBSET run.todo /\ a \notin t
                 /\ run' = [run EXCEPT !.err = TRUE, !.todo = t]
    BY <1>5 DEF ActorEnds
  <2> QED BY <1>1, <1>2, <1>3, <1>5, <2>1 DEF ActorEnds
<1>6. CASE f = "crash"
  BY <1>1, <1>2, <1>3, <1>6 DEF ActorEnds, Exit
<1> QED BY <1>4, <1>5, <1>6 DEF ActorEnds

-----------------------------------------------------------------------------
(* Executions and processes have their types.                              *)
LEMMA ExecutionType ==
  ASSUME TypeOK, NEW c \in 1 .. Len(db)
  PROVE  /\ db[c] \in Execution
         /\ db[c].kind \in Kinds /\ db[c].last \in 0 .. FirstBoot
         /\ db[c].content \in BOOLEAN
<1>1. db[c] \in Execution
  BY DEF TypeOK
<1> QED BY <1>1 DEF Execution

(* The resting process is a process.                                       *)
LEMMA IdleType == Idle \in Processes
  BY DEF Idle, Processes, FirstBoot

(* A fresh process is at a phase boundary with nothing done.               *)
LEMMA ProcessType ==
  ASSUME NEW c \in Nat, NEW from \in 0 .. FirstBoot, NEW until \in {Reports, FirstBoot},
         NEW resume \in BOOLEAN
  PROVE  /\ Process(c, from, until, resume) \in Processes
         /\ Process(c, from, until, resume) # Idle
         /\ LET r == Process(c, from, until, resume)
            IN  /\ r.at = "between" /\ r.ctx = c /\ r.phase = from /\ r.todo = {}
                /\ r.until = until /\ r.resume = resume /\ ~r.err /\ ~r.stop
  BY DEF Process, Processes, Idle, FirstBoot, Reports

(* leapp.db grows at its end.                                              *)
LEMMA DbAppend ==
  ASSUME TypeOK, NEW STATE e, e \in Execution, db' = Append(db, e)
  PROVE  /\ db' \in Seq(Execution)
         /\ Len(db') = Len(db) + 1
         /\ db'[Len(db) + 1] = e
         /\ \A c \in 1 .. Len(db) : db'[c] = db[c]
         /\ Len(db) \in Nat
  BY DEF TypeOK

(* The execution a process works on.                                       *)
LEMMA CurrentExecution ==
  ASSUME TypeOK, ProcessInv, Active
  PROVE  /\ run.ctx \in 1 .. Len(db) /\ Len(db) \in Nat
         /\ Kind \in Kinds /\ db[run.ctx].last \in 0 .. FirstBoot
         /\ run.phase \in 0 .. FirstBoot /\ run.until \in {Reports, FirstBoot}
         /\ run.resume \in BOOLEAN /\ run.err \in BOOLEAN /\ run.todo \subseteq Actors
         /\ run.at \in {"between", "in"} /\ run # Idle
<1>1. run.ctx \in 1 .. Len(db) /\ Len(db) \in Nat
  BY DEF ProcessInv, TypeOK
<1>2. Kind \in Kinds /\ db[run.ctx].last \in 0 .. FirstBoot
  BY <1>1, ExecutionType DEF Kind
<1>3. /\ run.phase \in 0 .. FirstBoot /\ run.resume \in BOOLEAN /\ run.err \in BOOLEAN
      /\ run.todo \subseteq Actors /\ run.at \in {"between", "in"}
  BY DEF TypeOK, Processes, Active
<1>4. run.until \in {Reports, FirstBoot}
  BY <1>2 DEF ProcessInv, Kinds
<1>5. run # Idle
  BY DEF Active, Idle
<1> QED BY <1>1, <1>2, <1>3, <1>4, <1>5

(* Entering a phase: the actors to run are those of the phase.             *)
LEMMA BeginPhaseKeeps ==
  ASSUME IInv, BeginPhase
  PROVE  IInv'
<1> USE DEF IInv, machine, disk
<1>1. PICK S \in SUBSET ActorsOf(run.phase + 1) :
        /\ Kind # "rerun" => S = ActorsOf(run.phase + 1)
        /\ run' = [run EXCEPT !.at = "in", !.phase = @ + 1, !.todo = S]
  BY DEF BeginPhase, Kind
<1>2. /\ Active /\ run.at = "between" /\ run.phase < run.until
      /\ UNCHANGED <<machine, db, durable, disk, faults>>
  BY DEF BeginPhase, Active
<1>3. /\ run' \in Processes /\ run'.at = "in" /\ run'.ctx = run.ctx
      /\ run'.phase = run.phase + 1 /\ run'.todo = S /\ run'.until = run.until
      /\ run'.resume = run.resume /\ run'.err = run.err
  <2>1. run.phase + 1 \in 0 .. FirstBoot /\ S \in SUBSET Actors
    BY SMTT(60), <1>2, CurrentExecution DEF FirstBoot, Reports, ActorsOf
  <2> QED BY <1>1, <2>1 DEF TypeOK, Processes
<1>4. TypeOK'
  BY <1>2, <1>3 DEF TypeOK
<1>5. Active' /\ Kind' = Kind
  BY <1>2, <1>3 DEF Active, Kind
<1>6. ProcessInv'
  BY SMTT(120), <1>2, <1>3, <1>5, CurrentExecution
  DEF ProcessInv, IsLastUpgrade, ActorsOf, Active, Interim, FirstBoot, Reports
<1>7. ScriptInv'
  BY SMTT(60), <1>2, <1>3, <1>5, CurrentExecution
  DEF ScriptInv, IsLastUpgrade, Active, FirstBoot, RPMUpgrade, Finalization
<1>8. RecordInv'
  BY <1>2 DEF RecordInv, Recorded
<1>9. TransactionInv'
  <2>1. run'.phase = RPMUpgrade => "dnf_upgrade_transaction" \in run'.todo
    <3>1. Kind = "rerun" => run.phase >= Finalization
      BY <1>2, CurrentExecution DEF RecordInv, Recorded, ProcessInv, Kind, Finalization
    <3>2. run'.phase = RPMUpgrade => Kind # "rerun"
      BY <3>1, <1>2, <1>3, CurrentExecution DEF RPMUpgrade, Finalization
    <3> QED
      BY <3>2, <1>1, <1>3, ActorOfPhase
  <2> QED
    BY SMTT(60), <2>1, <1>2, <1>3, CurrentExecution DEF TransactionInv, RPMUpgrade, FirstBoot
<1>10. ServiceInv'
  BY <1>2, CurrentExecution DEF ServiceInv, ResumeServiceOnTarget, IsLastUpgrade
<1> QED BY <1>4, <1>6, <1>7, <1>8, <1>9, <1>10

(* A phase that succeeds: the checkpoint moves to it, and the RPMUpgrade   *)
(* checkpoint is stored only on upgraded packages.                         *)
LEMMA PhaseEndsKeeps ==
  ASSUME ~CheckpointEarly, IInv, PhaseEnds
  PROVE  IInv'
<1> USE DEF IInv
<1>1. /\ Active /\ run.at = "in" /\ run.todo = {} /\ ~run.err
      /\ UNCHANGED <<host, svcJob, disk, faults>>
      /\ db' = Checkpointed(db)
      /\ durable' \in {db', durable}
      /\ ForceSync \/ run.resume => durable' = db'
  BY DEF PhaseEnds, Active, Store, Synced
<1>2. /\ db' \in Seq(Execution) /\ Len(db') = Len(db)
      /\ \A c \in 1 .. Len(db) :
           /\ db'[c].kind = db[c].kind
           /\ db'[c].last = IF c = run.ctx THEN run.phase ELSE db[c].last
  <2>1. db' = [db EXCEPT ![run.ctx] = [db[run.ctx] EXCEPT !.last = run.phase]]
    BY <1>1 DEF Checkpointed
  <2>2. /\ [db[run.ctx] EXCEPT !.last = run.phase] \in Execution
        /\ [db[run.ctx] EXCEPT !.last = run.phase].kind = db[run.ctx].kind
        /\ [db[run.ctx] EXCEPT !.last = run.phase].last = run.phase
    BY <1>1, CurrentExecution, ExecutionType DEF Execution
  <2> QED BY <2>1, <2>2, <1>1, CurrentExecution DEF TypeOK
<1>4. Kind = "upgrade" \/ run.phase # RPMUpgrade
  BY <1>1, CurrentExecution
  DEF ProcessInv, RecordInv, Recorded, Kind, Kinds, Reports, Finalization, RPMUpgrade
<1>5. run.phase >= RPMUpgrade => pkgs = "target"
  BY <1>1, <1>4, CurrentExecution
  DEF ProcessInv, RecordInv, Recorded, TransactionInv, RPMUpgrade
<1>6. Recorded(db)'
  BY SMTT(120), <1>1, <1>2, <1>5, CurrentExecution, ExecutionType
  DEF RecordInv, Recorded, disk, ProcessInv, Kind, Reports, Finalization, FirstBoot, RPMUpgrade
<1>7. RecordInv'
  BY <1>1, <1>6 DEF RecordInv, Recorded, TransactionInv, ProcessInv, disk
<1>8. ServiceInv'
  BY SMTT(120), <1>1, <1>2, CurrentExecution, ExecutionType
  DEF ServiceInv, ResumeServiceOnTarget, disk, ProcessInv, RPMUpgrade, FirstBoot, IsLastUpgrade
<1>9. CASE \E rc \in {0, 1} : Exit(rc)
  <2>1. run' = Idle /\ ~Active'
    BY <1>9 DEF Exit, Active, Idle
  <2>2. TypeOK'
    BY <1>1, <1>2, <1>9, <2>1, IdleType DEF TypeOK, Exit, disk
  <2>3. ProcessInv' /\ TransactionInv'
    BY <2>1 DEF ProcessInv, TransactionInv
  <2>4. script' = "between" =>
          \A c \in 1 .. Len(db') : IsLastUpgrade(c)' =>
            /\ db'[c].last <= RPMUpgrade
            /\ pkgs' = "target" => db'[c].last = RPMUpgrade
    <3>1. SUFFICES ASSUME script' = "between", NEW c \in 1 .. Len(db), IsLastUpgrade(c)
                   PROVE  c = run.ctx /\ run.phase <= RPMUpgrade
                          /\ (pkgs = "target" => run.phase = RPMUpgrade)
      BY SMTT(60), <1>1, <1>2 DEF disk, IsLastUpgrade
    <3>2. script = "first"
      BY <3>1, <1>1, <1>9 DEF Exit, ScriptInv
    <3>3. IsLastUpgrade(run.ctx) /\ run.phase <= RPMUpgrade
      BY <3>2, <1>1 DEF ScriptInv, ProcessInv
    <3> QED
      BY <3>1, <3>3, <1>1, CurrentExecution
      DEF IsLastUpgrade, TransactionInv, RPMUpgrade, FirstBoot
  <2>5. ScriptInv'
    BY <1>1, <1>9, <2>1, <2>4 DEF ScriptInv, Exit
  <2> QED BY <1>7, <1>8, <2>2, <2>3, <2>5
<1>10. CASE /\ run.phase # run.until /\ ~StopsAfter(run.phase)
            /\ run' = [run EXCEPT !.at = "between"] /\ UNCHANGED script
  <2>1. /\ run' \in Processes /\ run'.at = "between" /\ run'.ctx = run.ctx
        /\ run'.phase = run.phase /\ run'.todo = {} /\ run'.until = run.until
        /\ run'.resume = run.resume /\ ~run'.err /\ Active'
    BY <1>1, <1>10 DEF TypeOK, Processes, Active
  <2>2. TypeOK'
    BY <1>1, <1>2, <1>10, <2>1 DEF TypeOK, disk
  <2>3. Kind' = Kind
    BY <1>2, <2>1, CurrentExecution, <1>1 DEF Kind
  <2>4. ProcessInv'
    BY SMTT(60), <1>1, <1>2, <1>10, <2>1, <2>3, CurrentExecution
    DEF ProcessInv, IsLastUpgrade, StopsAfter, Active
  <2>5. ScriptInv'
    BY SMTT(60), <1>1, <1>10, <2>1, <2>3, CurrentExecution
    DEF ScriptInv, StopsAfter, RPMUpgrade, Finalization, FirstBoot
  <2>6. TransactionInv'
    BY SMTT(60), <1>1, <1>10, <2>1, CurrentExecution
    DEF TransactionInv, StopsAfter, RPMUpgrade, FirstBoot, disk
  <2> QED BY <1>7, <1>8, <2>2, <2>4, <2>5, <2>6
<1> QED BY <1>9, <1>10 DEF PhaseEnds

(* A process starts: `upgrade`, its resumption, or do-upgrade.sh's.        *)
LEMMA ResumeStep ==
  ASSUME IInv, ~Active, NEW c \in 1 .. Len(db), IsLastUpgrade(c),
         run' = Process(c, db[c].last, FirstBoot, TRUE),
         db' = db, host' = host, host \in {"os", "initram"}
  PROVE  /\ db[c].last \in 0 .. FirstBoot /\ db[c].kind = "upgrade"
         /\ run' \in Processes /\ run' # Idle /\ run'.at = "between" /\ run'.ctx = c
         /\ run'.phase = db[c].last /\ run'.todo = {} /\ run'.until = FirstBoot
         /\ run'.resume /\ ~run'.err
         /\ ProcessInv'
<1> USE DEF IInv
<1>1. c \in Nat /\ db[c].last \in 0 .. FirstBoot /\ db[c].kind = "upgrade"
  BY ExecutionType DEF IsLastUpgrade, TypeOK
<1>2. /\ run' \in Processes /\ run' # Idle /\ run'.at = "between" /\ run'.ctx = c
      /\ run'.phase = db[c].last /\ run'.todo = {} /\ run'.until = FirstBoot
      /\ run'.resume /\ ~run'.err
  <2>1. /\ c \in Nat /\ db[c].last \in 0 .. FirstBoot /\ run' = Process(c, db[c].last, FirstBoot, TRUE)
        /\ TRUE \in BOOLEAN /\ FirstBoot \in {Reports, FirstBoot}
    BY <1>1
  <2>2. /\ run' \in Processes /\ run' # Idle
        /\ run'.at = "between" /\ run'.ctx = c /\ run'.phase = db[c].last /\ run'.todo = {}
        /\ run'.until = FirstBoot /\ run'.resume = TRUE /\ ~run'.err
    BY ONLY SMTT(60), <2>1 DEF Process, Processes, Idle, FirstBoot, Reports
  <2> QED BY <2>2
<1>3. Active' /\ Kind' = "upgrade"
  BY <1>1, <1>2 DEF Active, Kind
<1>4. ASSUME NEW l \in 0 .. FirstBoot, db[c].last = l, run'.phase = l
      PROVE  ProcessInv'
  <2>1. IsLastUpgrade(run.ctx)'
    BY <1>2 DEF IsLastUpgrade
  <2>2. l <= FirstBoot /\ l + 0 = l
    OBVIOUS
  <2> QED BY <1>2, <1>3, <1>4, <2>1, <2>2 DEF ProcessInv
<1> QED BY <1>1, <1>2, <1>4

(* The first leapp of do-upgrade.sh resumes the newest upgrade.            *)
LEMMA RunLeappKeeps ==
  ASSUME IInv, RunLeapp
  PROVE  IInv'
<1> USE DEF IInv, machine, disk
<1>0. ~Active /\ run = Idle /\ host = "initram" /\ script = "start"
      /\ UNCHANGED <<host, svcJob, db, durable, disk, faults>>
  BY DEF RunLeapp, ProcessInv, ScriptInv
<1>1. CASE script' = "failed" /\ UNCHANGED run
  BY <1>1, <1>0 DEF TypeOK, ProcessInv, ScriptInv, RecordInv, Recorded, TransactionInv,
           ServiceInv, ResumeServiceOnTarget, Active, Kind, IsLastUpgrade
<1>2. CASE /\ pkgs # "target" /\ script' = "first"
           /\ \E c \in 1 .. Len(db) :
                IsLastUpgrade(c) /\ run' = Process(c, db[c].last, FirstBoot, TRUE)
  <2>0. pkgs # "target" /\ script' = "first"
    BY <1>2
  <2>1. PICK c \in 1 .. Len(db) :
          IsLastUpgrade(c) /\ run' = Process(c, db[c].last, FirstBoot, TRUE)
    BY <1>2
  <2>2. /\ db[c].last \in 0 .. FirstBoot /\ db[c].kind = "upgrade"
        /\ run' \in Processes /\ run' # Idle /\ run'.at = "between" /\ run'.ctx = c
        /\ run'.phase = db[c].last /\ run'.resume /\ ProcessInv'
    BY <1>0, <2>1, ResumeStep
  <2>3. db[c].last < RPMUpgrade
    BY SMTT(60), <1>2, <2>2 DEF RecordInv, Recorded, RPMUpgrade, FirstBoot
  <2>4. TypeOK' /\ RecordInv' /\ TransactionInv'
    BY ZenonT(60), <1>0, <1>2, <2>2 DEF TypeOK, RecordInv, Recorded, TransactionInv
  <2>5. ScriptInv'
    <3>1. Active' /\ Kind' = "upgrade" /\ run'.phase < RPMUpgrade
      BY <1>0, <2>2, <2>3 DEF Active, Kind
    <3> QED BY <1>0, <2>0, <2>2, <3>1 DEF ScriptInv, RPMUpgrade, FirstBoot
  <2>6. ServiceInv'
    BY <1>0 DEF ServiceInv, ResumeServiceOnTarget, IsLastUpgrade
  <2> QED BY <2>2, <2>4, <2>5, <2>6
<1> QED BY <1>1, <1>2 DEF RunLeapp

(* The second leapp of do-upgrade.sh resumes it again.                     *)
LEMMA RunLeapp3Keeps ==
  ASSUME IInv, RunLeapp3
  PROVE  IInv'
<1> USE DEF IInv, machine, disk
<1>0. ~Active /\ run = Idle /\ host = "initram" /\ script = "between"
      /\ UNCHANGED <<host, svcJob, db, durable, disk, faults>>
  BY DEF RunLeapp3, ProcessInv, ScriptInv
<1>1. CASE script' = "failed" /\ UNCHANGED run
  BY <1>1, <1>0 DEF TypeOK, ProcessInv, ScriptInv, RecordInv, Recorded, TransactionInv,
           ServiceInv, ResumeServiceOnTarget, Active, Kind, IsLastUpgrade
<1>2. CASE /\ script' = "second"
           /\ \E c \in 1 .. Len(db) :
                IsLastUpgrade(c) /\ run' = Process(c, db[c].last, FirstBoot, TRUE)
  <2>0. script' = "second"
    BY <1>2
  <2>1. PICK c \in 1 .. Len(db) :
          IsLastUpgrade(c) /\ run' = Process(c, db[c].last, FirstBoot, TRUE)
    BY <1>2
  <2>2. /\ db[c].last \in 0 .. FirstBoot /\ db[c].kind = "upgrade"
        /\ run' \in Processes /\ run' # Idle /\ run'.at = "between" /\ run'.ctx = c
        /\ run'.phase = db[c].last /\ run'.resume /\ ProcessInv'
    BY <1>0, <2>1, ResumeStep
  <2>3. db[c].last <= RPMUpgrade /\ (pkgs = "target" => db[c].last = RPMUpgrade)
    BY <1>0, <2>1 DEF ScriptInv
  <2>4. TypeOK' /\ RecordInv'
    BY ZenonT(60), <1>0, <1>2, <2>2 DEF TypeOK, RecordInv, Recorded
  <2>5. TransactionInv'
    BY <1>0, <2>2, <2>3 DEF TransactionInv, RPMUpgrade
  <2>6. ScriptInv'
    <3>1. Active' /\ Kind' = "upgrade" /\ run'.phase <= RPMUpgrade
      BY <1>0, <2>2, <2>3 DEF Active, Kind
    <3> QED BY <1>0, <2>0, <2>2, <3>1 DEF ScriptInv, RPMUpgrade, Finalization, FirstBoot
  <2>7. ServiceInv'
    BY <1>0 DEF ServiceInv, ResumeServiceOnTarget, IsLastUpgrade
  <2> QED BY <2>2, <2>4, <2>5, <2>6, <2>7
<1> QED BY <1>1, <1>2 DEF RunLeapp3

(* The service resumes an upgrade that is past the transaction.            *)
LEMMA ResumeServiceStartKeeps ==
  ASSUME IInv, ResumeServiceStart
  PROVE  IInv'
<1> USE DEF IInv, machine, disk
<1>0. ~Active /\ run = Idle /\ host = "os" /\ svcJob /\ svcJob' = FALSE /\ svc
      /\ UNCHANGED <<host, script, db, durable, disk, faults>>
  BY DEF ResumeServiceStart, Active, Idle, ServiceInv
<1>1. CASE UNCHANGED run
  <2>1. TypeOK' /\ ProcessInv' /\ ScriptInv'
    BY <1>1, <1>0 DEF TypeOK, ProcessInv, ScriptInv, Active, Kind, IsLastUpgrade
  <2>2. RecordInv' /\ TransactionInv' /\ ServiceInv'
    BY <1>1, <1>0 DEF RecordInv, Recorded, TransactionInv, ServiceInv,
                      ResumeServiceOnTarget, Active, IsLastUpgrade
  <2> QED BY <2>1, <2>2
<1>2. CASE \E c \in 1 .. Len(db) :
             IsLastUpgrade(c) /\ run' = Process(c, db[c].last, FirstBoot, TRUE)
  <2>1. PICK c \in 1 .. Len(db) :
          IsLastUpgrade(c) /\ run' = Process(c, db[c].last, FirstBoot, TRUE)
    BY <1>2
  <2>2. /\ db[c].last \in 0 .. FirstBoot /\ db[c].kind = "upgrade"
        /\ run' \in Processes /\ run' # Idle /\ run'.at = "between" /\ run'.ctx = c
        /\ run'.phase = db[c].last /\ run'.resume /\ ProcessInv'
    BY <1>0, <2>1, ResumeStep
  <2>3. db[c].last >= RPMUpgrade
    BY <1>0, <2>1 DEF ServiceInv, ResumeServiceOnTarget
  <2>4. TypeOK' /\ RecordInv'
    BY ZenonT(60), <1>0, <2>2 DEF TypeOK, RecordInv, Recorded
  <2>5. TransactionInv'
    BY <1>0, <2>2, <2>3 DEF TransactionInv
  <2>6. ScriptInv'
    BY <1>0 DEF ScriptInv
  <2>7. ServiceInv'
    BY <1>0 DEF ServiceInv, ResumeServiceOnTarget, IsLastUpgrade
  <2> QED BY <2>2, <2>4, <2>5, <2>6, <2>7
<1> QED BY <1>1, <1>2 DEF ResumeServiceStart

(* A process whose phases were all executed before ends.                   *)
LEMMA NothingToDoKeeps ==
  ASSUME IInv, NothingToDo
  PROVE  IInv'
<1> USE DEF IInv, machine, disk
<1>1. /\ Active /\ run' = Idle /\ ~Active' /\ script' \in {script, "failed", "between", "done"}
      /\ script' = IF script \in {"first", "second"}
                   THEN IF script = "first" THEN "between" ELSE "done" ELSE script
      /\ UNCHANGED <<host, svcJob, db, durable, disk, faults>>
  BY DEF NothingToDo, Exit, Active, Idle, TypeOK
<1>2. TypeOK'
  BY <1>1, IdleType DEF TypeOK
<1>3. ProcessInv' /\ TransactionInv'
  BY <1>1 DEF ProcessInv, TransactionInv
<1>4. script # "first"
  BY CurrentExecution DEF NothingToDo, Active, ProcessInv, ScriptInv, Kind, RPMUpgrade, FirstBoot
<1>5. ScriptInv'
  BY <1>1, <1>4 DEF ScriptInv
<1>6. RecordInv' /\ ServiceInv'
  BY <1>1 DEF RecordInv, Recorded, ServiceInv, ResumeServiceOnTarget, IsLastUpgrade
<1> QED BY <1>2, <1>3, <1>5, <1>6

(* A phase with errors ends the process without a checkpoint.              *)
LEMMA PhaseFailsKeeps ==
  ASSUME IInv, PhaseFails
  PROVE  IInv'
<1> USE DEF IInv, machine, disk
<1>1. /\ Active /\ run' = Idle /\ ~Active' /\ script' \in {script, "failed", "between", "done"}
      /\ script' = IF script \in {"first", "second"}
                   THEN "failed" ELSE script
      /\ UNCHANGED <<host, svcJob, db, durable, disk, faults>>
  BY DEF PhaseFails, Exit, Active, Idle, TypeOK
<1>2. TypeOK'
  BY <1>1, IdleType DEF TypeOK
<1>3. ProcessInv' /\ TransactionInv'
  BY <1>1 DEF ProcessInv, TransactionInv

<1>5. ScriptInv'
  BY <1>1 DEF ScriptInv
<1>6. RecordInv' /\ ServiceInv'
  BY <1>1 DEF RecordInv, Recorded, ServiceInv, ResumeServiceOnTarget, IsLastUpgrade
<1> QED BY <1>2, <1>3, <1>5, <1>6

(* The flag concerns nobody but do-upgrade.sh.                             *)
LEMMA SetFailedFlagKeeps ==
  ASSUME IInv, SetFailedFlag
  PROVE  IInv'
<1> USE DEF IInv, machine, disk, SetFailedFlag
<1>1. TypeOK'
  BY SMTT(60), IdleType, LifecycleAssumption DEF TypeOK, HomeFiles
<1>2. ProcessInv' /\ TransactionInv'
  BY SMTT(40) DEF ProcessInv, TransactionInv, ScriptInv, Active, Idle, TypeOK
<1>3. ScriptInv'
  BY SMTT(40) DEF ProcessInv, ScriptInv, Active, Idle, TypeOK
<1>4. RecordInv'
  BY SMTT(40) DEF RecordInv, Recorded
<1>5. ServiceInv'
  BY SMTT(40) DEF ServiceInv, ResumeServiceOnTarget, RecordInv, IsLastUpgrade, ProcessInv, ScriptInv, TypeOK
<1> QED BY <1>1, <1>2, <1>3, <1>4, <1>5

(* The reboot that follows do-upgrade.sh writes leapp.db.                  *)
LEMMA ServiceEndsKeeps ==
  ASSUME IInv, ServiceEnds
  PROVE  IInv'
<1> USE DEF IInv, machine, disk, ServiceEnds
<1>1. TypeOK'
  BY SMTT(60), IdleType, LifecycleAssumption DEF TypeOK, HomeFiles
<1>2. ProcessInv' /\ TransactionInv'
  BY SMTT(40) DEF ProcessInv, TransactionInv, ScriptInv, Active, Idle, TypeOK
<1>3. ScriptInv'
  BY SMTT(40) DEF ProcessInv, ScriptInv, Active, Idle, TypeOK
<1>4. RecordInv'
  BY SMTT(40) DEF RecordInv, Recorded
<1>5. ServiceInv'
  BY SMTT(40) DEF ServiceInv, ResumeServiceOnTarget, RecordInv, IsLastUpgrade, ProcessInv, ScriptInv, TypeOK
<1> QED BY <1>1, <1>2, <1>3, <1>4, <1>5

(* Leaving the emergency shell starts do-upgrade.sh again.                 *)
LEMMA EmergencyExitKeeps ==
  ASSUME IInv, EmergencyExit
  PROVE  IInv'
<1> USE DEF IInv, machine, disk, EmergencyExit
<1>1. TypeOK'
  BY SMTT(60), IdleType, LifecycleAssumption DEF TypeOK, HomeFiles
<1>2. ProcessInv' /\ TransactionInv'
  BY SMTT(40) DEF ProcessInv, TransactionInv, ScriptInv, Active, Idle, TypeOK
<1>3. ScriptInv'
  BY SMTT(40) DEF ProcessInv, ScriptInv, Active, Idle, TypeOK
<1>4. RecordInv'
  BY SMTT(40) DEF RecordInv, Recorded
<1>5. ServiceInv'
  BY SMTT(40) DEF ServiceInv, ResumeServiceOnTarget, RecordInv, IsLastUpgrade, ProcessInv, ScriptInv, TypeOK
<1> QED BY <1>1, <1>2, <1>3, <1>4, <1>5

(* Booting starts no leapp process.                                        *)
LEMMA PowerOnKeeps ==
  ASSUME IInv, PowerOn
  PROVE  IInv'
<1> USE DEF IInv, machine, disk, PowerOn
<1>1. TypeOK'
  BY SMTT(60), IdleType, LifecycleAssumption DEF TypeOK, HomeFiles
<1>2. ProcessInv' /\ TransactionInv'
  BY SMTT(40) DEF ProcessInv, TransactionInv, ScriptInv, Active, Idle, TypeOK
<1>3. ScriptInv'
  BY SMTT(40) DEF ProcessInv, ScriptInv, Active, Idle, TypeOK
<1>4. RecordInv'
  BY SMTT(40) DEF RecordInv, Recorded
<1>5. ServiceInv'
  BY SMTT(40) DEF ServiceInv, ResumeServiceOnTarget, RecordInv, IsLastUpgrade, ProcessInv, ScriptInv, TypeOK
<1> QED BY <1>1, <1>2, <1>3, <1>4, <1>5

(* Nor does picking another boot entry.                                    *)
LEMMA PickOtherEntryKeeps ==
  ASSUME IInv, PickOtherEntry
  PROVE  IInv'
<1> USE DEF IInv, machine, disk, PickOtherEntry
<1>1. TypeOK'
  BY SMTT(60), IdleType, LifecycleAssumption DEF TypeOK, HomeFiles
<1>2. ProcessInv' /\ TransactionInv'
  BY SMTT(40) DEF ProcessInv, TransactionInv, ScriptInv, Active, Idle, TypeOK
<1>3. ScriptInv'
  BY SMTT(40) DEF ProcessInv, ScriptInv, Active, Idle, TypeOK
<1>4. RecordInv'
  BY SMTT(40) DEF RecordInv, Recorded
<1>5. ServiceInv'
  BY SMTT(40) DEF ServiceInv, ResumeServiceOnTarget, RecordInv, IsLastUpgrade, ProcessInv, ScriptInv, TypeOK
<1> QED BY <1>1, <1>2, <1>3, <1>4, <1>5

(* A power loss ends the process; leapp.db falls back to its durable part. *)
LEMMA PowerLossKeeps ==
  ASSUME IInv, PowerLoss
  PROVE  IInv'
<1> USE DEF IInv, machine, disk, PowerLoss
<1>0. svcJob' \in BOOLEAN
  BY Zenon
<1>1. TypeOK'
  BY SMTT(60), <1>0, IdleType, LifecycleAssumption DEF TypeOK, HomeFiles
<1>2. ProcessInv' /\ TransactionInv'
  BY SMTT(40) DEF ProcessInv, TransactionInv, ScriptInv, Active, Idle, TypeOK
<1>3. ScriptInv'
  BY SMTT(40) DEF ProcessInv, ScriptInv, Active, Idle, TypeOK
<1>4. RecordInv'
  BY SMTT(40) DEF RecordInv, Recorded
<1>5. ServiceInv'
  BY SMTT(40) DEF ServiceInv, ResumeServiceOnTarget, RecordInv, IsLastUpgrade, ProcessInv, ScriptInv, TypeOK
<1> QED BY <1>1, <1>2, <1>3, <1>4, <1>5

(* An orderly shutdown writes leapp.db.                                    *)
LEMMA ShutdownKeeps ==
  ASSUME IInv, Shutdown
  PROVE  IInv'
<1> USE DEF IInv, machine, disk, Shutdown
<1>0. svcJob' \in BOOLEAN
  BY Zenon
<1>1. TypeOK'
  BY SMTT(60), <1>0, IdleType, LifecycleAssumption DEF TypeOK, HomeFiles
<1>2. ProcessInv' /\ TransactionInv'
  BY SMTT(40) DEF ProcessInv, TransactionInv, ScriptInv, Active, Idle, TypeOK
<1>3. ScriptInv'
  BY SMTT(40) DEF ProcessInv, ScriptInv, Active, Idle, TypeOK
<1>4. RecordInv'
  BY SMTT(40) DEF RecordInv, Recorded
<1>5. ServiceInv'
  BY SMTT(40) DEF ServiceInv, ResumeServiceOnTarget, RecordInv, IsLastUpgrade, ProcessInv, ScriptInv, TypeOK
<1> QED BY <1>1, <1>2, <1>3, <1>4, <1>5

(* A new execution is stored at the end of leapp.db and worked on.         *)
LEMMA StartStep ==
  ASSUME IInv, ~Active, host = "os", host' = "os",
         NEW STATE e, e \in Execution, NEW until \in {Reports, FirstBoot}, NEW resume \in BOOLEAN,
         db' = Append(db, e), run' = Process(Len(db) + 1, e.last, until, resume),
         e.kind = "preupgrade" => e.last = 0 /\ until = Reports /\ ~resume,
         e.kind = "upgrade" => e.last = 0 /\ until = FirstBoot /\ ~resume,
         e.kind = "rerun" => e.last = Finalization /\ until = FirstBoot /\ resume
  PROVE  /\ run' \in Processes /\ run' # Idle /\ run'.at = "between"
         /\ run'.phase = e.last /\ run'.resume = resume
         /\ db' \in Seq(Execution) /\ Len(db') = Len(db) + 1 /\ Len(db) \in Nat
         /\ db'[Len(db) + 1] = e
         /\ \A c \in 1 .. Len(db) : db'[c] = db[c]
         /\ ProcessInv'
<1> USE DEF IInv
<1>1. /\ db' \in Seq(Execution) /\ Len(db') = Len(db) + 1 /\ Len(db) \in Nat
      /\ db'[Len(db) + 1] = e
      /\ \A c \in 1 .. Len(db) : db'[c] = db[c]
  BY DbAppend
<1>2. Len(db) + 1 \in Nat /\ e.last \in 0 .. FirstBoot /\ e.kind \in Kinds
  BY <1>1 DEF Execution
<1>3. /\ run' \in Processes /\ run' # Idle /\ run'.at = "between" /\ run'.ctx = Len(db) + 1
      /\ run'.phase = e.last /\ run'.todo = {} /\ run'.until = until
      /\ run'.resume = resume /\ ~run'.err
  BY SMTT(60), <1>2, ProcessType
<1>4. ASSUME NEW n \in Nat, n = Len(db), NEW l \in 0 .. FirstBoot, l = e.last
      PROVE  ProcessInv'
  <2>1. Active' /\ Kind' = e.kind
    BY <1>1, <1>3 DEF Active, Kind
  <2>2. e.kind = "upgrade" => IsLastUpgrade(run.ctx)'
    BY <1>1, <1>3, <1>4 DEF IsLastUpgrade
  <2>3. /\ run'.ctx \in 1 .. Len(db')
        /\ run'.phase = db'[run'.ctx].last + IF run'.at = "in" THEN 1 ELSE 0
    BY <1>1, <1>3, <1>4
  <2>4. run'.phase <= run'.until
    BY <1>2, <1>3, <1>4 DEF Kinds, Reports, FirstBoot, Finalization
  <2>5. ~run'.resume => run'.phase < Interim
    BY <1>2, <1>3, <1>4 DEF Kinds, Interim
  <2>6. /\ Kind' # "preupgrade" => run'.until = FirstBoot
        /\ Kind' = "preupgrade" => run'.until = Reports /\ ~run'.resume
        /\ Kind' = "rerun" => run'.resume
    BY <1>2, <1>3, <2>1 DEF Kinds
  <2>7. ~run'.resume => host' = "os" /\ run'.phase <= Interim /\ run'.phase # Interim
    BY <1>3, <1>4, <2>5 DEF Interim
  <2>8. run'.at = "between" /\ run'.todo = {} /\ ~run'.err
    BY <1>3
  <2> HIDE DEF IInv
  <2> QED
    BY <2>1, <2>2, <2>3, <2>4, <2>6, <2>7, <2>8 DEF ProcessInv
<1> QED BY <1>1, <1>2, <1>3, <1>4

(* `leapp upgrade` and `leapp preupgrade` add an execution of their own.   *)
LEMMA NewRunKeeps ==
  ASSUME IInv, LeappUpgrade \/ LeappPreupgrade
  PROVE  IInv'
<1> USE DEF IInv, machine, disk
<1>1. PICK k \in {"upgrade", "preupgrade"} :
        /\ db' = Append(db, [kind |-> k, last |-> 0, content |-> FALSE])
        /\ run' = Process(Len(db) + 1, 0, IF k = "upgrade" THEN FirstBoot ELSE Reports, FALSE)
  BY DEF LeappUpgrade, LeappPreupgrade, Store
<1>2. /\ run = Idle /\ host = "os" /\ ~svcJob /\ pkgs # "target"
      /\ UNCHANGED <<machine, disk, faults>>
      /\ durable' \in {db', durable} /\ (ForceSync => durable' = db')
  BY DEF LeappUpgrade, LeappPreupgrade, Store, Synced, AtPrompt
<1> DEFINE e == [kind |-> k, last |-> 0, content |-> FALSE]
<1>3. e \in Execution /\ e.kind = k /\ e.last = 0
  BY DEF Execution, Kinds, FirstBoot
<1>4. ~Active
  BY <1>2 DEF Active, Idle
<1> HIDE DEF e
<1>5. /\ run' \in Processes /\ run'.at = "between" /\ run'.phase = 0 /\ run' # Idle
      /\ db' \in Seq(Execution) /\ Len(db') = Len(db) + 1 /\ Len(db) \in Nat
      /\ db'[Len(db) + 1] = e
      /\ \A c \in 1 .. Len(db) : db'[c] = db[c]
      /\ ProcessInv'
  <2>1. db' = Append(db, e)
    BY <1>1 DEF e
  <2>2. /\ k = "upgrade" => run' = Process(Len(db) + 1, e.last, FirstBoot, FALSE)
        /\ k = "preupgrade" => run' = Process(Len(db) + 1, e.last, Reports, FALSE)
    BY <1>1, <1>3
  <2>3. CASE k = "upgrade"
    BY <2>1, <2>2, <2>3, <1>2, <1>3, <1>4, StartStep
  <2>4. CASE k = "preupgrade"
    BY <2>1, <2>2, <2>4, <1>2, <1>3, <1>4, StartStep
  <2> QED BY <2>3, <2>4
<1>6. TypeOK'
  BY <1>2, <1>5 DEF TypeOK
<1>7. ScriptInv' /\ TransactionInv'
  BY <1>2, <1>5 DEF ScriptInv, TransactionInv, RPMUpgrade
<1>8. Recorded(db)'
  BY <1>2, <1>3, <1>5 DEF RecordInv, Recorded, RPMUpgrade, Reports
<1>9. RecordInv'
  BY <1>2, <1>8 DEF RecordInv, Recorded
<1>10. ServiceInv'
  BY <1>2 DEF ServiceInv, ResumeServiceOnTarget
<1> QED BY <1>5, <1>6, <1>7, <1>9, <1>10

(* `leapp rerun` adds a copy of an upgrade that is finished.               *)
LEMMA LeappRerunKeeps ==
  ASSUME IInv, LeappRerun
  PROVE  IInv'
<1> USE DEF IInv, machine, disk
<1>1. PICK b \in 1 .. Len(db) :
        /\ IsLastUpgrade(b) /\ db[b].last = FirstBoot
        /\ db' = Append(db, [kind |-> "rerun", last |-> Finalization,
                             content |-> db[b].content])
        /\ run' = Process(Len(db) + 1, Finalization, FirstBoot, TRUE)
  BY DEF LeappRerun, Store
<1>2. /\ run = Idle /\ host = "os" /\ ~svcJob
      /\ UNCHANGED <<machine, disk, faults>> /\ durable' = db'
  BY DEF LeappRerun, Store, Synced, AtPrompt
<1> DEFINE e == [kind |-> "rerun", last |-> Finalization, content |-> db[b].content]
<1>3. e \in Execution /\ e.kind = "rerun" /\ e.last = Finalization
  BY ExecutionType DEF Execution, Kinds, FirstBoot, Finalization
<1>4. ~Active /\ pkgs = "target"
  BY <1>1, <1>2 DEF Active, Idle, RecordInv, Recorded, FirstBoot, RPMUpgrade
<1> HIDE DEF e
<1>5. /\ run' \in Processes /\ run'.at = "between" /\ run'.phase = Finalization
      /\ run' # Idle /\ run'.resume = TRUE
      /\ db' \in Seq(Execution) /\ Len(db') = Len(db) + 1 /\ Len(db) \in Nat
      /\ db'[Len(db) + 1] = e
      /\ \A c \in 1 .. Len(db) : db'[c] = db[c]
      /\ ProcessInv'
  <2>1. db' = Append(db, e) /\ run' = Process(Len(db) + 1, e.last, FirstBoot, TRUE)
    BY <1>1, <1>3 DEF e
  <2> QED BY <2>1, <1>2, <1>3, <1>4, StartStep
<1>6. TypeOK'
  BY <1>2, <1>5 DEF TypeOK
<1>7. ScriptInv' /\ TransactionInv'
  BY <1>2, <1>4, <1>5 DEF ScriptInv, TransactionInv, RPMUpgrade, Finalization
<1>8. Recorded(db)'
  BY <1>2, <1>3, <1>4, <1>5 DEF RecordInv, Recorded, RPMUpgrade, Finalization
<1>9. RecordInv'
  BY <1>2, <1>8 DEF RecordInv, Recorded
<1>10. ServiceInv'
  <2>1. ASSUME NEW c \in 1 .. Len(db'), IsLastUpgrade(c)', svc
        PROVE  db'[c].last >= RPMUpgrade
    <3>1. c \in 1 .. Len(db)
      BY <2>1, <1>3, <1>5 DEF IsLastUpgrade
    <3>2. IsLastUpgrade(c)
      BY <2>1, <3>1, <1>5 DEF IsLastUpgrade
    <3> QED
      BY <2>1, <3>1, <3>2, <1>5 DEF ServiceInv, ResumeServiceOnTarget
  <2> QED BY <2>1, <1>2, <1>4 DEF ServiceInv, ResumeServiceOnTarget
<1> QED BY <1>5, <1>6, <1>7, <1>9, <1>10

(* `leapp upgrade --resume` starts where the newest upgrade has stopped.   *)
LEMMA LeappUpgradeResumeKeeps ==
  ASSUME IInv, LeappUpgradeResume
  PROVE  IInv'
<1> USE DEF IInv, machine, disk
<1>0. /\ run = Idle /\ ~Active /\ host = "os" /\ ~svcJob /\ pkgs # "target"
      /\ UNCHANGED <<machine, db, durable, disk, faults>>
  BY DEF LeappUpgradeResume, AtPrompt, Active, Idle
<1>1. PICK c \in 1 .. Len(db) :
        IsLastUpgrade(c) /\ run' = Process(c, db[c].last, FirstBoot, TRUE)
  BY DEF LeappUpgradeResume
<1>2. /\ db[c].last \in 0 .. FirstBoot /\ db[c].kind = "upgrade"
      /\ run' \in Processes /\ run' # Idle /\ run'.at = "between" /\ run'.ctx = c
      /\ run'.phase = db[c].last /\ run'.resume /\ ProcessInv'
  BY <1>0, <1>1, ResumeStep
<1>3. TypeOK' /\ RecordInv' /\ TransactionInv'
  BY <1>0, <1>2 DEF TypeOK, RecordInv, Recorded, TransactionInv
<1>4. ScriptInv'
  BY <1>0 DEF ScriptInv
<1>5. ServiceInv'
  BY <1>0 DEF ServiceInv, ResumeServiceOnTarget, IsLastUpgrade
<1> QED BY <1>2, <1>3, <1>4, <1>5

-----------------------------------------------------------------------------
(* The actors.  What all of them but the transaction do to the invariant.  *)
LEMMA ActorKeeps ==
  ASSUME ~CheckpointEarly, IInv, NEW a, NEW f, NEW STATE cost, NEW STATE d,
         cost \in Nat, SameRecords(d), ActorEnds(a, f, cost, d),
         a = "dnf_upgrade_transaction" /\ f = "ok" => pkgs' = "target",
         pkgs' \in {"source", "mixed", "target"}, pkgs = "target" => pkgs' = "target",
         pkgs' # pkgs => a = "dnf_upgrade_transaction" /\ run.resume
  PROVE  /\ run' \in Processes /\ host' = host /\ svcJob' = svcJob
         /\ script' \in {script, "failed"} /\ faults' \in 0 .. MaxFaults
         /\ db' \in Seq(Execution) /\ durable' \in Seq(Execution)
         /\ ProcessInv' /\ ScriptInv' /\ RecordInv' /\ TransactionInv'
<1> USE DEF IInv
<1>1. /\ run.at = "in" /\ a \in run.todo
      /\ host' = host /\ svcJob' = svcJob /\ faults' \in 0 .. MaxFaults
      /\ db' = d /\ durable' \in {db', durable}
      /\ ForceSync \/ run.resume => durable' = db'
  <2>1. /\ run.at = "in" /\ a \in run.todo
        /\ host' = host /\ svcJob' = svcJob
    BY ActorStep
  <2>2. faults' \in 0 .. MaxFaults
    BY ActorStep
  <2>3. db' = d /\ durable' \in {db', durable} /\ (ForceSync \/ run.resume => durable' = db')
    BY DEF ActorEnds, Store, Synced
  <2> QED BY <2>1, <2>2, <2>3
<1>0. Active
  BY <1>1 DEF Active
<1>2. /\ db' \in Seq(Execution) /\ Len(db') = Len(db)
      /\ \A c \in 1 .. Len(db) : db'[c].kind = db[c].kind /\ db'[c].last = db[c].last
      /\ durable' \in Seq(Execution)
  BY <1>1 DEF SameRecords, TypeOK
<1>3. a \in ActorsOf(run.phase)
  BY <1>1, <1>0 DEF ProcessInv
<1>4. Recorded(db)'
  BY <1>1, <1>2 DEF RecordInv, Recorded, TypeOK
<1>5. RecordInv'
  <2>1. pkgs' = "target" => run.resume
    BY <1>0 DEF TransactionInv
  <2>2. host' # "os" => run.resume
    BY <1>1, <1>0 DEF ProcessInv
  <2> QED BY <2>1, <2>2, <1>1, <1>4 DEF RecordInv, Recorded
<1>6. CASE /\ run' = Idle
           /\ script' = IF script \in {"first", "second"} THEN "failed" ELSE script
  <2>1. ~Active'
    BY <1>6 DEF Active, Idle
  <2>2. run' \in Processes /\ script' \in {script, "failed"}
    BY <1>6, IdleType
  <2>3. ProcessInv' /\ TransactionInv'
    BY <1>6, <2>1 DEF ProcessInv, TransactionInv
  <2>4. ScriptInv'
    BY <1>1, <1>6, <1>0, <2>1 DEF ScriptInv
  <2> QED BY <1>1, <1>2, <1>5, <2>2, <2>3, <2>4
<1>7. CASE /\ script' = script
           /\ \E t \in SUBSET run.todo, e \in BOOLEAN :
                /\ run' = [run EXCEPT !.err = e, !.todo = t]
                /\ a \notin t /\ (~e => ~run.err /\ f = "ok" /\ t = run.todo \ {a})
  <2>1. PICK t \in SUBSET run.todo, e \in BOOLEAN :
          /\ run' = [run EXCEPT !.err = e, !.todo = t]
          /\ a \notin t /\ (~e => ~run.err /\ f = "ok" /\ t = run.todo \ {a})
    BY <1>7
  <2>2. t \in SUBSET Actors /\ run \in Processes
    BY <1>1, <1>0, CurrentExecution DEF TypeOK
  <2>3. /\ run' \in Processes /\ run'.at = run.at /\ run'.ctx = run.ctx
        /\ run'.phase = run.phase /\ run'.todo = t /\ run'.until = run.until
        /\ run'.resume = run.resume /\ run'.err = e
    BY <2>1, <2>2 DEF Processes
  <2>4. Active' /\ Kind' = Kind
    BY <1>1, <1>2, <2>3, <1>0, CurrentExecution DEF Active, Kind
  <2>5. ProcessInv'
    BY SMTT(60), <1>1, <1>2, <2>3, <2>4, <1>0, CurrentExecution
    DEF ProcessInv, IsLastUpgrade, ActorsOf
  <2>6. ScriptInv'
    BY SMTT(60), <1>1, <1>2, <2>3, <2>4, <1>7, <1>0, CurrentExecution
    DEF ScriptInv, IsLastUpgrade, RPMUpgrade, Finalization, FirstBoot
  <2>7. TransactionInv'
    <3>1. ASSUME pkgs' = "target"
          PROVE  /\ run.resume
                 /\ \/ run.phase > RPMUpgrade
                    \/ run.phase = RPMUpgrade /\ "dnf_upgrade_transaction" \notin t
      <4>1. CASE pkgs = "target"
        BY <4>1, <1>1, <1>0 DEF TransactionInv
      <4>2. CASE pkgs # "target"
        BY <4>2, <3>1, <1>3, <2>1, PhaseOfActor
      <4> QED BY <4>1, <4>2
    <3>2. ASSUME run.phase = RPMUpgrade, ~e, "dnf_upgrade_transaction" \notin t
          PROVE  pkgs' = "target"
      <4>1. CASE a = "dnf_upgrade_transaction"
        BY <4>1, <3>2, <2>1
      <4>2. CASE a # "dnf_upgrade_transaction"
        BY <4>2, <3>2, <2>1, <1>1, <1>0 DEF TransactionInv
      <4> QED BY <4>1, <4>2
    <3> QED BY <3>1, <3>2, <1>1, <2>3, <2>4 DEF TransactionInv
  <2> QED BY <1>1, <1>2, <1>5, <1>7, <2>3, <2>5, <2>6, <2>7
<1>8. \/ /\ f = "ok" /\ script' = script
         /\ run' = [run EXCEPT !.todo = run.todo \ {a}]
      \/ /\ f = "error" /\ script' = script
         /\ \E t \in SUBSET run.todo :
              a \notin t /\ run' = [run EXCEPT !.err = TRUE, !.todo = t]
      \/ /\ run' = Idle
         /\ script' = IF script \in {"first", "second"} THEN "failed" ELSE script
  BY ActorStep
<1>9. CASE /\ f = "ok" /\ script' = script
           /\ run' = [run EXCEPT !.todo = run.todo \ {a}]
  <2>1. run' = [run EXCEPT !.err = run.err, !.todo = run.todo \ {a}]
    BY <1>9 DEF TypeOK, Processes
  <2> QED BY <1>9, <2>1, <1>1, <1>7, <1>0, CurrentExecution
<1> QED BY <1>6, <1>7, <1>8, <1>9

(* The actors that leave packages and services alone.                      *)
LEMMA PlainActorKeeps ==
  ASSUME ~CheckpointEarly, IInv, NEW a, NEW f, NEW STATE cost, NEW STATE d,
         cost \in Nat, SameRecords(d), ActorEnds(a, f, cost, d),
         a # "dnf_upgrade_transaction", UNCHANGED <<pkgs, svc>>,
         entry' \in BOOLEAN, default' \in {"source", "upgrade", "target"},
         bootFiles' \in {"absent", "partial", "complete"}, userspace' \in BOOLEAN,
         home' \in SUBSET HomeFiles
  PROVE  IInv'
<1> USE DEF IInv
<1>1. /\ run' \in Processes /\ host' = host /\ svcJob' = svcJob
      /\ script' \in {script, "failed"} /\ faults' \in 0 .. MaxFaults
      /\ db' \in Seq(Execution) /\ durable' \in Seq(Execution)
      /\ ProcessInv' /\ ScriptInv' /\ RecordInv' /\ TransactionInv'
  BY ActorKeeps DEF TypeOK
<1>2. TypeOK'
  BY <1>1 DEF TypeOK
<1>3. db' = d /\ run.at = "in"
  BY DEF ActorEnds, Running, Store
<1>4. run # Idle
  BY <1>3 DEF Idle
<1>5. ServiceInv'
  BY <1>1, <1>3, <1>4 DEF ServiceInv, ResumeServiceOnTarget, IsLastUpgrade, SameRecords
<1> QED BY <1>1, <1>2, <1>5

(* What keeps leapp.db keeps its records.                                  *)
LEMMA SameDb == TypeOK => SameRecords(db)
  BY DEF SameRecords, TypeOK

(* Producing BootContent keeps kinds and checkpoints.                      *)
LEMMA ContentStored ==
  ASSUME TypeOK, ProcessInv, Active
  PROVE  SameRecords([db EXCEPT ![run.ctx].content = TRUE])
<1>1. /\ [db[run.ctx] EXCEPT !.content = TRUE] \in Execution
      /\ [db[run.ctx] EXCEPT !.content = TRUE].kind = db[run.ctx].kind
      /\ [db[run.ctx] EXCEPT !.content = TRUE].last = db[run.ctx].last
  BY CurrentExecution, ExecutionType DEF Execution
<1> QED BY <1>1, CurrentExecution DEF SameRecords, TypeOK

(* The actors that touch neither packages nor leapp_resume.service.        *)
LEMMA PlainActorsKeep ==
  ASSUME ~CheckpointEarly, IInv,
         \/ TargetUserspaceCreator \/ DnfPackageDownload \/ DnfDryRun
         \/ RemoveUpgradeArtifacts \/ RemoveUpgradeBootEntry \/ RemoveBootFiles
         \/ PreparePythonWorkround \/ ForceDefaultBoot \/ AddUpgradeBootEntry
         \/ UpgradeInitramfsGenerator
  PROVE  IInv'
<1> USE DEF IInv
<1>0. 0 \in Nat /\ 1 \in Nat /\ SameRecords(db)
  BY SameDb
<1>1. \A f : Cost(f) \in Nat
  BY <1>0 DEF Cost
<1>2. CASE TargetUserspaceCreator
  <2>1. PICK f \in Outcomes : 
          /\ ActorEnds("target_userspace_creator", f, Cost(f), db)
          /\ userspace' \in {f = "ok", userspace}
          /\ UNCHANGED <<pkgs, entry, default, bootFiles, home, svc>>
    BY <1>2 DEF TargetUserspaceCreator
  <2>2. userspace' \in BOOLEAN
    BY <2>1 DEF TypeOK
  <2> QED BY <2>1, <2>2, <1>0, <1>1, PlainActorKeeps DEF TypeOK
<1>3. CASE DnfPackageDownload \/ DnfDryRun
  <2>1. PICK f \in Outcomes :
          /\ \/ ActorEnds("dnf_package_download", f, IF userspace THEN Cost(f) ELSE 0, db)
             \/ ActorEnds("dnf_dry_run", f, IF userspace THEN Cost(f) ELSE 0, db)
          /\ UNCHANGED disk
    BY <1>3 DEF DnfPackageDownload, DnfDryRun
  <2>2. (IF userspace THEN Cost(f) ELSE 0) \in Nat
    BY <1>0, <1>1
  <2> QED BY <2>1, <2>2, <1>0, PlainActorKeeps DEF TypeOK, disk
<1>4. CASE RemoveUpgradeArtifacts
  <2>1. PICK removed \in BOOLEAN :
          /\ ActorEnds("remove_upgrade_artifacts", "ok", IF removed THEN 0 ELSE 1, db)
          /\ home' = IF removed THEN {} ELSE home
          /\ UNCHANGED <<pkgs, entry, default, bootFiles, userspace, svc>>
    BY <1>4 DEF RemoveUpgradeArtifacts
  <2>2. home' \in SUBSET HomeFiles /\ (IF removed THEN 0 ELSE 1) \in Nat
    BY <2>1 DEF TypeOK
  <2> QED BY <2>1, <2>2, <1>0, PlainActorKeeps DEF TypeOK
<1>5. CASE UpgradeInitramfsGenerator
  <2>1. PICK f \in Outcomes :
          /\ ActorEnds("upgrade_initramfs_generator", f, IF userspace THEN Cost(f) ELSE 0,
                       IF f = "ok" THEN [db EXCEPT ![run.ctx].content = TRUE] ELSE db)
          /\ bootFiles' \in {"complete", "partial", bootFiles}
          /\ UNCHANGED <<pkgs, entry, default, userspace, home, svc>>
    BY <1>5 DEF UpgradeInitramfsGenerator
  <2>2. (IF userspace THEN Cost(f) ELSE 0) \in Nat
    BY <1>0, <1>1
  <2>3. Active
    BY <2>1 DEF ActorEnds, Running, Active
  <2>4. SameRecords([db EXCEPT ![run.ctx].content = TRUE])
    BY <2>3, ContentStored
  <2>5. SameRecords(IF f = "ok" THEN [db EXCEPT ![run.ctx].content = TRUE] ELSE db)
    BY <2>4, <1>0
  <2>6. bootFiles' \in {"absent", "partial", "complete"}
    BY <2>1 DEF TypeOK
  <2> QED BY <2>1, <2>2, <2>5, <2>6, PlainActorKeeps DEF TypeOK
<1>6. CASE AddUpgradeBootEntry
  <2>1. PICK f \in Outcomes :
          /\ ActorEnds("add_upgrade_boot_entry", f,
                       IF db[run.ctx].content THEN Cost(f) ELSE 0, db)
          /\ entry' \in {TRUE, FALSE, entry}
          /\ default' \in {"upgrade", "source", "target", default}
          /\ UNCHANGED <<pkgs, bootFiles, userspace, home, svc>>
    BY <1>6 DEF AddUpgradeBootEntry, GrubbyAdd, GrubbyRemove
  <2>2. (IF db[run.ctx].content THEN Cost(f) ELSE 0) \in Nat
    BY <1>0, <1>1
  <2>3. entry' \in BOOLEAN /\ default' \in {"source", "upgrade", "target"}
    BY <2>1 DEF TypeOK
  <2> QED BY <2>1, <2>2, <2>3, <1>0, PlainActorKeeps DEF TypeOK
<1>7. CASE RemoveUpgradeBootEntry
  <2>1. PICK f \in Outcomes, n \in {0, 1} :
          /\ ActorEnds("remove_upgrade_boot_entry", f, n, db)
          /\ entry' \in {TRUE, FALSE, entry}
          /\ default' \in {"upgrade", "source", "target", default}
          /\ UNCHANGED <<pkgs, bootFiles, userspace, home, svc>>
    BY <1>7 DEF RemoveUpgradeBootEntry, GrubbyRemove, Outcomes, Cost
  <2>2. entry' \in BOOLEAN /\ default' \in {"source", "upgrade", "target"} /\ n \in Nat
    BY <2>1, <1>0 DEF TypeOK
  <2> QED BY <2>1, <2>2, <1>0, PlainActorKeeps DEF TypeOK
<1>8. CASE RemoveBootFiles
  <2>1. PICK n \in {0, 1} :
          /\ ActorEnds("remove_boot_files", "ok", n, db)
          /\ bootFiles' \in {"absent", "partial", bootFiles}
          /\ UNCHANGED <<pkgs, entry, default, userspace, home, svc>>
    BY <1>8 DEF RemoveBootFiles
  <2>2. n \in Nat
    BY <2>1
  <2> QED BY <2>1, <2>2, <1>0, PlainActorKeeps DEF TypeOK
<1>9. CASE PreparePythonWorkround
  <2>1. PICK f \in {"ok", "crash"} :
          /\ ActorEnds("prepare_python_workround", f, Cost(f), db)
          /\ home' \in {{"leapp3"}, home, {}}
          /\ UNCHANGED <<pkgs, entry, default, bootFiles, userspace, svc>>
    BY <1>9 DEF PreparePythonWorkround
  <2>2. home' \in SUBSET HomeFiles
    BY <2>1 DEF TypeOK, HomeFiles
  <2> QED BY <2>1, <2>2, <1>0, <1>1, PlainActorKeeps DEF TypeOK
<1>10. CASE ForceDefaultBoot
  <2>1. default' \in {"source", "upgrade", "target"}
    BY <1>10 DEF ForceDefaultBoot, TypeOK
  <2> QED BY <1>10, <2>1, <1>0, PlainActorKeeps DEF ForceDefaultBoot, TypeOK
<1> QED BY <1>2, <1>3, <1>4, <1>5, <1>6, <1>7, <1>8, <1>9, <1>10

(* The actor that may ask the process to stop after its phase.             *)
LEMMA VerifyCheckResultsKeeps ==
  ASSUME ~CheckpointEarly, IInv, VerifyCheckResults
  PROVE  IInv'
<1> USE DEF IInv, machine, disk
<1>1. PICK inhibited \in BOOLEAN :
        run' = [run EXCEPT !.todo = @ \ {"verify_check_results"}, !.stop = inhibited]
  BY DEF VerifyCheckResults
<1>2. /\ run.at = "in" /\ "verify_check_results" \in run.todo /\ Active
      /\ db' = db /\ durable' \in {db, durable} /\ (ForceSync \/ run.resume => durable' = db)
      /\ UNCHANGED <<machine, disk, faults>>
  BY DEF VerifyCheckResults, Running, Active, Store, Synced
<1>3. /\ run' \in Processes /\ run'.at = run.at /\ run'.ctx = run.ctx
      /\ run'.phase = run.phase /\ run'.todo \subseteq run.todo /\ run'.until = run.until
      /\ run'.resume = run.resume /\ run'.err = run.err
  <2>1. run \in Processes /\ run.todo \ {"verify_check_results"} \in SUBSET Actors
    BY <1>2, CurrentExecution DEF TypeOK
  <2> QED BY <2>1, <1>1 DEF Processes
<1>4. Active' /\ Kind' = Kind
  BY <1>2, <1>3 DEF Active, Kind
<1>5. TypeOK'
  BY <1>2, <1>3 DEF TypeOK
<1>6. ProcessInv' /\ run.phase = Reports
  BY SMTT(60), <1>2, <1>3, <1>4, CurrentExecution, PhaseOfActor
  DEF ProcessInv, IsLastUpgrade, ActorsOf
<1>7. ScriptInv'
  BY SMTT(60), <1>2, <1>3, <1>4, CurrentExecution
  DEF ScriptInv, IsLastUpgrade, RPMUpgrade, Finalization, FirstBoot
<1>8. RecordInv'
  BY <1>2 DEF RecordInv, Recorded
<1>9. TransactionInv'
  BY <1>2, <1>3, <1>6 DEF TransactionInv, Reports, RPMUpgrade
<1>10. ServiceInv'
  BY <1>2, CurrentExecution DEF ServiceInv, ResumeServiceOnTarget, IsLastUpgrade
<1> QED BY <1>5, <1>6, <1>7, <1>8, <1>9, <1>10

(* CreateResumeService comes after the transaction, in a process that has  *)
(* the RPMUpgradePhase checkpoint.                                         *)
LEMMA CreateResumeServiceKeeps ==
  ASSUME ~CheckpointEarly, IInv, CreateResumeService
  PROVE  IInv'
<1> USE DEF IInv
<1>0. SameRecords(db) /\ \A f : Cost(f) \in Nat
  BY SameDb DEF Cost
<1>1. PICK f \in Outcomes :
        /\ ActorEnds("create_systemd_service", f, Cost(f), db)
        /\ svc' \in {TRUE, FALSE, svc}
        /\ UNCHANGED <<pkgs, entry, default, bootFiles, userspace, home>>
  BY DEF CreateResumeService
<1>2. /\ run' \in Processes /\ host' = host /\ svcJob' = svcJob
      /\ script' \in {script, "failed"} /\ faults' \in 0 .. MaxFaults
      /\ db' \in Seq(Execution) /\ durable' \in Seq(Execution)
      /\ ProcessInv' /\ ScriptInv' /\ RecordInv' /\ TransactionInv'
  BY <1>0, <1>1, ActorKeeps DEF TypeOK
<1>3. /\ run.at = "in" /\ "create_systemd_service" \in run.todo
      /\ db' = db /\ Active /\ run # Idle
  BY <1>1 DEF ActorEnds, Running, Store, Active, Idle
<1>4. run.phase = Finalization
  BY <1>3, PhaseOfActor DEF ProcessInv
<1>5. db[run.ctx].last = 13 /\ run.ctx \in 1 .. Len(db)
  BY <1>3, <1>4, CurrentExecution DEF ProcessInv, Finalization
<1>6. pkgs = "target"
  BY <1>5 DEF RecordInv, Recorded, RPMUpgrade
<1>7. \A c \in 1 .. Len(db) : IsLastUpgrade(c) => db[c].last >= RPMUpgrade
  <2>1. Kind = "upgrade"
    BY <1>3, <1>5, CurrentExecution
    DEF RecordInv, Recorded, Kind, Kinds, Finalization, Reports
  <2>2. IsLastUpgrade(run.ctx)
    BY <1>3, <2>1 DEF ProcessInv
  <2>3. ASSUME NEW c \in 1 .. Len(db), IsLastUpgrade(c)
        PROVE  c = run.ctx
    BY <2>2, <2>3, <1>5 DEF IsLastUpgrade
  <2> QED BY <2>3, <1>5 DEF RPMUpgrade
<1>8. TypeOK'
  <2>1. svc' \in BOOLEAN
    BY <1>1, Zenon DEF TypeOK
  <2> QED BY <1>1, <1>2, <2>1 DEF TypeOK
<1>9. ServiceInv'
  BY <1>1, <1>2, <1>3, <1>6, <1>7 DEF ServiceInv, ResumeServiceOnTarget, IsLastUpgrade
<1> QED BY <1>2, <1>8, <1>9

(* Disabling the service.                                                  *)
LEMMA RemoveResumeServiceKeeps ==
  ASSUME ~CheckpointEarly, IInv, RemoveResumeService
  PROVE  IInv'
<1> USE DEF IInv
<1>0. SameRecords(db) /\ \A f : Cost(f) \in Nat
  BY SameDb DEF Cost
<1>1. PICK f \in Outcomes :
        /\ ActorEnds("remove_systemd_resume_service", f, Cost(f), db)
        /\ svc' \in {FALSE, svc}
        /\ UNCHANGED <<pkgs, entry, default, bootFiles, userspace, home>>
  BY DEF RemoveResumeService, Outcomes
<1>2. /\ run' \in Processes /\ host' = host /\ svcJob' = svcJob
      /\ script' \in {script, "failed"} /\ faults' \in 0 .. MaxFaults
      /\ db' \in Seq(Execution) /\ durable' \in Seq(Execution)
      /\ ProcessInv' /\ ScriptInv' /\ RecordInv' /\ TransactionInv'
  BY <1>0, <1>1, ActorKeeps DEF TypeOK
<1>3. db' = db /\ run # Idle
  BY <1>1 DEF ActorEnds, Running, Store, Idle
<1>4. TypeOK'
  <2>1. svc' \in BOOLEAN
    BY <1>1, Zenon DEF TypeOK
  <2> QED BY <1>1, <1>2, <2>1 DEF TypeOK
<1>5. ServiceInv'
  <2>1. svc' => svc
    BY <1>1, Zenon
  <2> QED BY <1>1, <1>2, <1>3, <2>1
          DEF ServiceInv, ResumeServiceOnTarget, IsLastUpgrade, Idle
<1> QED BY <1>2, <1>4, <1>5

(* The transaction runs in a process that writes leapp.db synchronously,   *)
(* as every process that gets past InterimPreparationPhase does.           *)
LEMMA DnfUpgradeTransactionKeeps ==
  ASSUME ~CheckpointEarly, IInv, DnfUpgradeTransaction
  PROVE  IInv'
<1> USE DEF IInv
<1>0. SameRecords(db) /\ 0 \in Nat /\ \A f : Cost(f) \in Nat
  BY SameDb DEF Cost
<1>1. PICK f \in Outcomes, n \in {0, 1} :
        /\ ActorEnds("dnf_upgrade_transaction", f, n, db)
        /\ pkgs' \in {pkgs, "mixed", "target"}
        /\ f = "ok" \/ pkgs = "target" => pkgs' = "target"
        /\ userspace' \in {TRUE, FALSE, userspace}
        /\ default' \in {default, "target"}
        /\ UNCHANGED <<entry, bootFiles, home, svc>>
  <2>1. CASE userspace
    BY <2>1 DEF DnfUpgradeTransaction, Outcomes, Cost
  <2>2. CASE ~userspace
    BY <2>2 DEF DnfUpgradeTransaction, Outcomes
  <2> QED BY <2>1, <2>2
<1>2. /\ run.at = "in" /\ "dnf_upgrade_transaction" \in run.todo
      /\ db' = db /\ Active /\ run # Idle
  BY <1>1 DEF ActorEnds, Running, Store, Active, Idle
<1>3. run.phase = RPMUpgrade
  BY <1>2, PhaseOfActor DEF ProcessInv
<1>4. run.resume
  BY <1>2, <1>3 DEF ProcessInv, RPMUpgrade, Interim
<1>5. pkgs' \in {"source", "mixed", "target"} /\ n \in Nat
  BY <1>0, <1>1 DEF TypeOK
<1>6. /\ run' \in Processes /\ host' = host /\ svcJob' = svcJob
      /\ script' \in {script, "failed"} /\ faults' \in 0 .. MaxFaults
      /\ db' \in Seq(Execution) /\ durable' \in Seq(Execution)
      /\ ProcessInv' /\ ScriptInv' /\ RecordInv' /\ TransactionInv'
  BY <1>0, <1>1, <1>4, <1>5, ActorKeeps
<1>7. TypeOK'
  BY ZenonT(120), <1>1, <1>5, <1>6 DEF TypeOK
<1>8. ServiceInv'
  BY <1>1, <1>2, <1>6 DEF ServiceInv, ResumeServiceOnTarget, IsLastUpgrade
<1> QED BY <1>6, <1>7, <1>8

-----------------------------------------------------------------------------
(* The invariant holds before the first command.                           *)
LEMMA InitInv == Init => IInv
<1> SUFFICES ASSUME Init PROVE IInv
  OBVIOUS
<1>1. ~Active /\ run = Idle /\ Len(db) = 0 /\ db = << >> /\ durable = << >>
  BY DEF Init, Active, Idle
<1>2. TypeOK
  <2>1. svcJob \in BOOLEAN /\ entry \in BOOLEAN /\ userspace \in BOOLEAN /\ svc \in BOOLEAN
    BY Zenon DEF Init
  <2> QED BY <1>1, <2>1, IdleType, LifecycleAssumption DEF Init, TypeOK
<1>3. ProcessInv /\ ScriptInv /\ TransactionInv
  BY <1>1 DEF Init, ProcessInv, ScriptInv, TransactionInv
<1>4. RecordInv /\ ServiceInv
  BY <1>1 DEF Init, RecordInv, Recorded, ServiceInv, ResumeServiceOnTarget
<1> QED BY <1>2, <1>3, <1>4 DEF IInv

(* The invariant speaks of the variables only.                             *)
LEMMA StutterKeeps ==
  ASSUME IInv, UNCHANGED vars
  PROVE  IInv'
<1> USE DEF IInv, vars, machine, disk
<1>1. TypeOK' /\ ProcessInv' /\ ScriptInv'
  BY DEF TypeOK, ProcessInv, ScriptInv, Active, Kind, IsLastUpgrade
<1>2. RecordInv' /\ TransactionInv' /\ ServiceInv'
  BY DEF RecordInv, Recorded, TransactionInv, Active, ServiceInv, ResumeServiceOnTarget,
         IsLastUpgrade
<1> QED BY <1>1, <1>2

(* Every step keeps the invariant.                                         *)
LEMMA NextKeeps ==
  ASSUME ~CheckpointEarly, IInv, [Next]_vars
  PROVE  IInv'
<1>1. CASE Workflow
  <2>1. CASE Actor
    BY <2>1, PlainActorsKeep, VerifyCheckResultsKeeps, DnfUpgradeTransactionKeeps,
       CreateResumeServiceKeeps, RemoveResumeServiceKeeps DEF Actor
  <2> QED
    BY <1>1, <2>1, BeginPhaseKeeps, NothingToDoKeeps, PhaseFailsKeeps, PhaseEndsKeeps
    DEF Workflow
<1>2. CASE Script
  BY <1>2, RunLeappKeeps, RunLeapp3Keeps, SetFailedFlagKeeps, ServiceEndsKeeps DEF Script
<1>3. CASE Operator
  BY <1>3, NewRunKeeps, LeappUpgradeResumeKeeps, LeappRerunKeeps, ShutdownKeeps,
     EmergencyExitKeeps, PickOtherEntryKeeps DEF Operator
<1>4. CASE PowerOn \/ ResumeServiceStart \/ PowerLoss
  BY <1>4, PowerOnKeeps, ResumeServiceStartKeeps, PowerLossKeeps
<1>5. CASE UNCHANGED vars
  BY <1>5, StutterKeeps
<1> QED BY <1>1, <1>2, <1>3, <1>4, <1>5 DEF Next

(* The inductive invariant holds in every reachable state: processes, do-  *)
(* upgrade.sh and the service always agree with leapp.db and the packages. *)
THEOREM Inductive ==
  ASSUME ~CheckpointEarly
  PROVE  Spec => []IInv
<1>1. IInv /\ [Next]_vars => IInv'
  BY NextKeeps
<1> QED BY <1>1, InitInv, PTL DEF Spec

(* No phase after RPMUpgradePhase runs on packages that are not upgraded.  *)
THEOREM LatePhases ==
  ASSUME ~CheckpointEarly
  PROVE  Spec => []LatePhasesNeedTarget
<1>1. IInv => LatePhasesNeedTarget
  <2>1. SUFFICES ASSUME IInv, run.at = "in", run.phase > RPMUpgrade
                 PROVE  pkgs = "target"
    BY DEF LatePhasesNeedTarget
  <2>2. Active /\ TypeOK /\ ProcessInv
    BY <2>1 DEF Active, IInv
  <2>3. db[run.ctx].last >= RPMUpgrade /\ run.ctx \in 1 .. Len(db)
    BY <2>1, <2>2, CurrentExecution DEF ProcessInv, RPMUpgrade
  <2> QED BY <2>1, <2>3 DEF IInv, RecordInv, Recorded
<1> QED BY <1>1, Inductive, PTL

(* FirstBootPhase runs on the booted target system only.                   *)
THEOREM FirstBootPlace ==
  ASSUME ~CheckpointEarly
  PROVE  Spec => []FirstBootOnTarget
<1>1. IInv /\ LatePhasesNeedTarget => FirstBootOnTarget
  <2>1. SUFFICES ASSUME IInv, LatePhasesNeedTarget, run.at = "in", run.phase = FirstBoot
                 PROVE  host = "os" /\ pkgs = "target"
    BY DEF FirstBootOnTarget
  <2>2. Active
    BY <2>1 DEF Active
  <2>3. host = "os"
    BY <2>1, <2>2
    DEF IInv, ProcessInv, ScriptInv, FirstBoot, RPMUpgrade, Finalization
  <2>4. pkgs = "target"
    BY <2>1 DEF LatePhasesNeedTarget, FirstBoot, RPMUpgrade
  <2> QED BY <2>3, <2>4
<1> QED BY <1>1, Inductive, LatePhases, PTL

(* A transaction that has upgraded the packages is not run again.          *)
THEOREM TransactionOnce ==
  ASSUME ~CheckpointEarly
  PROVE  Spec => []TransactionNotRepeated
<1>1. IInv => TransactionNotRepeated
  <2>1. SUFFICES ASSUME IInv, Running("dnf_upgrade_transaction"), pkgs = "target"
                 PROVE  FALSE
    BY DEF TransactionNotRepeated
  <2>2. run.at = "in" /\ "dnf_upgrade_transaction" \in run.todo /\ Active
    BY <2>1 DEF Running, Active
  <2>3. run.phase = RPMUpgrade
    BY <2>1, <2>2, PhaseOfActor DEF IInv, ProcessInv
  <2> QED
    BY <2>1, <2>2, <2>3 DEF IInv, TransactionInv, RPMUpgrade
<1> QED BY <1>1, Inductive, PTL

(* leapp_resume.service is enabled only past the transaction.              *)
THEOREM ServicePlace ==
  ASSUME ~CheckpointEarly
  PROVE  Spec => []ResumeServiceOnTarget
<1>1. IInv => ResumeServiceOnTarget
  BY DEF IInv, ServiceInv
<1> QED BY <1>1, Inductive, PTL

-----------------------------------------------------------------------------
(* Types, and where a process is, whether a phase counts as executed when it *)
(* has succeeded or as soon as one of its actors has finished.              *)

(* A process works on a stored execution, in the phase after its last      *)
(* checkpoint or, with early checkpoints, in the one of its last           *)
(* checkpoint, with actors of that phase.                                  *)
HalfwayInv ==
  /\ ~Active => run = Idle
  /\ Active =>
       /\ run.ctx \in 1 .. Len(db)
       /\ run.until \in {Reports, FirstBoot} /\ run.phase <= run.until
       /\ run.at = "between" => db[run.ctx].last = run.phase
       /\ run.at = "in" => /\ run.todo \subseteq ActorsOf(run.phase)
                           /\ db[run.ctx].last \in {run.phase - 1, run.phase}
       /\ Kind = "upgrade" => IsLastUpgrade(run.ctx)
       /\ Kind = "preupgrade" => run.until = Reports
       /\ Kind = "rerun" => db[run.ctx].last >= Finalization

(* Types of what is on the disk ...                                         *)
DiskTypes ==
  /\ pkgs \in {"source", "mixed", "target"}
  /\ entry \in BOOLEAN
  /\ default \in {"source", "upgrade", "target"}
  /\ bootFiles \in {"absent", "partial", "complete"}
  /\ userspace \in BOOLEAN
  /\ home \in SUBSET HomeFiles
  /\ svc \in BOOLEAN

(* What the steps do to the disk.                                          *)
LEMMA DiskStaysTyped ==
  ASSUME TypeOK, [Next]_vars
  PROVE  DiskTypes'
<1>0. DiskTypes
  BY DEF TypeOK, DiskTypes
<1>1. CASE UNCHANGED disk
  BY <1>0, <1>1 DEF disk, DiskTypes
<1>2. ASSUME NEW f \in Outcomes PROVE (f = "ok") \in BOOLEAN
  OBVIOUS
<1>3. CASE TargetUserspaceCreator
  <2>1. userspace' \in BOOLEAN
    BY <1>0, <1>3, Zenon DEF TargetUserspaceCreator, DiskTypes
  <2>2. UNCHANGED <<pkgs, entry, default, bootFiles, home, svc>>
    BY <1>3 DEF TargetUserspaceCreator
  <2> QED BY <1>0, <2>1, <2>2 DEF DiskTypes
<1>4. CASE RemoveUpgradeArtifacts
  BY <1>0, <1>4 DEF RemoveUpgradeArtifacts, DiskTypes
<1>5. CASE UpgradeInitramfsGenerator
  BY <1>0, <1>5 DEF UpgradeInitramfsGenerator, DiskTypes
<1>6. CASE AddUpgradeBootEntry \/ RemoveUpgradeBootEntry
  <2>1. entry' \in BOOLEAN /\ default' \in {"source", "upgrade", "target"}
    BY <1>0, <1>6 DEF AddUpgradeBootEntry, RemoveUpgradeBootEntry, GrubbyAdd, GrubbyRemove, DiskTypes
  <2>2. UNCHANGED <<pkgs, bootFiles, userspace, home, svc>>
    BY <1>6 DEF AddUpgradeBootEntry, RemoveUpgradeBootEntry
  <2> QED BY <1>0, <2>1, <2>2 DEF DiskTypes
<1>7. CASE RemoveBootFiles
  BY <1>0, <1>7 DEF RemoveBootFiles, DiskTypes
<1>8. CASE DnfUpgradeTransaction
  <2>1. /\ pkgs' \in {"source", "mixed", "target"} /\ userspace' \in BOOLEAN
        /\ default' \in {default, "target"} /\ UNCHANGED <<entry, bootFiles, home, svc>>
    BY <1>0, <1>8 DEF DnfUpgradeTransaction, DiskTypes
  <2> QED BY <1>0, <2>1 DEF DiskTypes
<1>9. CASE PreparePythonWorkround
  BY <1>0, <1>9 DEF PreparePythonWorkround, DiskTypes, HomeFiles
<1>10. CASE ForceDefaultBoot
  BY <1>0, <1>10 DEF ForceDefaultBoot, DiskTypes
<1>11. CASE CreateResumeService \/ RemoveResumeService
  <2>1. svc' \in BOOLEAN
    BY <1>0, <1>11 DEF CreateResumeService, RemoveResumeService, DiskTypes
  <2>2. UNCHANGED <<pkgs, entry, default, bootFiles, userspace, home>>
    BY <1>11 DEF CreateResumeService, RemoveResumeService
  <2> QED BY <1>0, <2>1, <2>2 DEF DiskTypes
<1>12. CASE SetFailedFlag
  BY <1>0, <1>12 DEF SetFailedFlag, DiskTypes, HomeFiles
<1>13. CASE \/ VerifyCheckResults \/ DnfPackageDownload \/ DnfDryRun \/ BeginPhase
            \/ NothingToDo \/ PhaseFails \/ PhaseEnds
  BY <1>1, <1>13 DEF VerifyCheckResults, DnfPackageDownload, DnfDryRun, BeginPhase,
     NothingToDo, PhaseFails, PhaseEnds
<1>14. CASE RunLeapp \/ RunLeapp3 \/ ServiceEnds \/ PowerOn \/ ResumeServiceStart \/ PowerLoss
  BY <1>1, <1>14 DEF RunLeapp, RunLeapp3, ServiceEnds, PowerOn, ResumeServiceStart, PowerLoss
<1>15. CASE Operator
  BY <1>1, <1>15 DEF Operator, LeappUpgrade, LeappUpgradeResume, LeappPreupgrade, LeappRerun,
     Shutdown, EmergencyExit, PickOtherEntry
<1>16. CASE UNCHANGED vars
  BY <1>1, <1>16 DEF vars
<1> QED
  BY <1>3, <1>4, <1>5, <1>6, <1>7, <1>8, <1>9, <1>10, <1>11, <1>12, <1>13, <1>14, <1>15, <1>16
     DEF Next, Workflow, Actor, Script

(* ... and of the machine.                                                 *)
MachineTypes ==
  /\ host \in {"off", "os", "initram", "emergency", "broken"}
  /\ script \in {"none", "start", "first", "between", "second", "failed", "done",
                 "flagged"}
  /\ svcJob \in BOOLEAN
  /\ faults \in 0 .. MaxFaults

(* What the steps other than those of actors do to the machine.             *)
LEMMA MachineStaysTyped ==
  ASSUME TypeOK, [Next]_vars, ~Actor
  PROVE  MachineTypes'
<1>0. MachineTypes
  BY DEF TypeOK, MachineTypes
<1> USE DEF MachineTypes, machine
<1>1. CASE BeginPhase \/ NothingToDo \/ PhaseFails \/ PhaseEnds
  BY <1>0, <1>1 DEF BeginPhase, NothingToDo, PhaseFails, PhaseEnds, Exit
<1>2. CASE Script
  BY <1>0, <1>2 DEF Script, RunLeapp, RunLeapp3, SetFailedFlag, ServiceEnds
<1>3. CASE PowerOn \/ PickOtherEntry
  <2>1. svcJob' \in {svcJob, svc} /\ svc \in BOOLEAN
    BY <1>3 DEF PowerOn, PickOtherEntry, TypeOK
  <2> QED BY <1>0, <1>3, <2>1 DEF PowerOn, PickOtherEntry
<1>4. CASE ResumeServiceStart \/ PowerLoss \/ Shutdown
  <2>1. svcJob' \in BOOLEAN
    BY <1>4, Zenon DEF ResumeServiceStart, PowerLoss, Shutdown
  <2>2. faults' \in {faults, faults - 1} /\ (faults' = faults \/ faults > 0)
    BY <1>4 DEF ResumeServiceStart, PowerLoss, Shutdown
  <2>3. host' \in {host, "off"} /\ script' \in {script, "none"}
    BY <1>4 DEF ResumeServiceStart, PowerLoss, Shutdown
  <2> QED BY <1>0, <2>1, <2>2, <2>3, LifecycleAssumption
<1>5. CASE LeappUpgrade \/ LeappUpgradeResume \/ LeappPreupgrade \/ LeappRerun \/ EmergencyExit
  BY <1>0, <1>5 DEF LeappUpgrade, LeappUpgradeResume, LeappPreupgrade, LeappRerun, EmergencyExit
<1>6. CASE UNCHANGED vars
  BY <1>0, <1>6 DEF vars
<1> QED BY <1>1, <1>2, <1>3, <1>4, <1>5, <1>6 DEF Next, Workflow, Operator

(* What is known of a process and its execution.                           *)
LEMMA HalfwayExecution ==
  ASSUME TypeOK, HalfwayInv, Active
  PROVE  /\ run.ctx \in 1 .. Len(db) /\ Len(db) \in Nat
         /\ Kind \in Kinds /\ db[run.ctx].last \in 0 .. FirstBoot
         /\ run.phase \in 0 .. FirstBoot /\ run.todo \subseteq Actors
         /\ run.at \in {"between", "in"} /\ run # Idle /\ run \in Processes
<1>1. run.ctx \in 1 .. Len(db) /\ Len(db) \in Nat
  BY DEF HalfwayInv, TypeOK
<1>2. Kind \in Kinds /\ db[run.ctx].last \in 0 .. FirstBoot
  BY <1>1, ExecutionType DEF Kind
<1>3. /\ run.phase \in 0 .. FirstBoot /\ run.todo \subseteq Actors
      /\ run.at \in {"between", "in"} /\ run \in Processes
  BY DEF TypeOK, Processes, Active
<1> QED BY <1>1, <1>2, <1>3 DEF Active, Idle

(* The checkpoint of a process that is in a phase.                         *)
LEMMA CheckpointIs ==
  ASSUME TypeOK, HalfwayInv, Active, NEW d, SameRecords(d)
  PROVE  /\ Checkpointed(d) \in Seq(Execution) /\ Len(Checkpointed(d)) = Len(db)
         /\ \A c \in 1 .. Len(db) :
              /\ Checkpointed(d)[c].kind = db[c].kind
              /\ Checkpointed(d)[c].content = d[c].content
              /\ Checkpointed(d)[c].last = IF c = run.ctx THEN run.phase ELSE db[c].last
<1>1. /\ d \in Seq(Execution) /\ Len(d) = Len(db) /\ Len(db) \in Nat
      /\ \A c \in 1 .. Len(db) : d[c] \in Execution /\ d[c].kind = db[c].kind
                                 /\ d[c].last = db[c].last
      /\ run.ctx \in 1 .. Len(db) /\ run.phase \in 0 .. FirstBoot
  BY HalfwayExecution DEF SameRecords
<1>2. /\ [d[run.ctx] EXCEPT !.last = run.phase] \in Execution
      /\ [d[run.ctx] EXCEPT !.last = run.phase].kind = d[run.ctx].kind
      /\ [d[run.ctx] EXCEPT !.last = run.phase].content = d[run.ctx].content
      /\ [d[run.ctx] EXCEPT !.last = run.phase].last = run.phase
  BY <1>1 DEF Execution
<1>3. Checkpointed(d) = [d EXCEPT ![run.ctx] = [d[run.ctx] EXCEPT !.last = run.phase]]
  BY DEF Checkpointed
<1> DEFINE e == [d[run.ctx] EXCEPT !.last = run.phase]
<1> HIDE DEF e
<1>4. /\ e \in Execution /\ e.kind = d[run.ctx].kind /\ e.content = d[run.ctx].content
      /\ e.last = run.phase /\ Checkpointed(d) = [d EXCEPT ![run.ctx] = e]
  BY <1>2, <1>3 DEF e
<1>5. /\ [d EXCEPT ![run.ctx] = e] \in Seq(Execution)
      /\ Len([d EXCEPT ![run.ctx] = e]) = Len(db)
      /\ \A c \in 1 .. Len(db) : [d EXCEPT ![run.ctx] = e][c] = IF c = run.ctx THEN e ELSE d[c]
  BY ONLY <1>1, <1>4
<1> QED BY <1>1, <1>4, <1>5

(* What an actor's end does, whatever counts as an executed phase.         *)
LEMMA ActorStepAnyhow ==
  ASSUME NEW a, NEW f, NEW STATE cost, NEW STATE d,
         TypeOK, HalfwayInv, cost \in Nat, SameRecords(d), ActorEnds(a, f, cost, d)
  PROVE  /\ run.at = "in" /\ a \in run.todo /\ Active /\ a \in ActorsOf(run.phase)
         /\ MachineTypes'
         /\ db' \in {d, Checkpointed(d)} /\ (db' # d => CheckpointEarly /\ f # "crash")
         /\ durable' \in {db', durable} /\ (ForceSync => durable' = db')
         /\ \/ f = "ok" /\ run' = [run EXCEPT !.todo = run.todo \ {a}]
            \/ /\ f = "error"
               /\ \E t \in SUBSET run.todo : run' = [run EXCEPT !.err = TRUE, !.todo = t]
            \/ f = "crash" /\ run' = Idle
<1>1. /\ run.at = "in" /\ a \in run.todo /\ Active /\ host' = host /\ svcJob' = svcJob
  BY DEF ActorEnds, Running, Active
<1>2. a \in ActorsOf(run.phase)
  BY <1>1 DEF HalfwayInv
<1>3. faults' \in 0 .. MaxFaults
  BY LifecycleAssumption DEF ActorEnds, TypeOK
<1>4. script' \in {script, "failed", "between", "done"}
  BY DEF ActorEnds, Exit
<1>5. MachineTypes'
  BY <1>1, <1>3, <1>4 DEF TypeOK, MachineTypes
<1>6. /\ db' \in {d, Checkpointed(d)} /\ (db' # d => CheckpointEarly /\ f # "crash")
      /\ durable' \in {db', durable} /\ (ForceSync => durable' = db')
  BY DEF ActorEnds, Store, Synced
<1>7. CASE f = "ok"
  BY <1>1, <1>2, <1>5, <1>6, <1>7 DEF ActorEnds
<1>8. CASE f = "error"
  <2>1. PICK t : t \in SUBSET run.todo /\ run' = [run EXCEPT !.err = TRUE, !.todo = t]
    BY <1>8 DEF ActorEnds
  <2> QED BY <1>1, <1>2, <1>5, <1>6, <1>8, <2>1
<1>9. CASE f = "crash"
  BY <1>1, <1>2, <1>5, <1>6, <1>9 DEF ActorEnds, Exit
<1> QED BY <1>7, <1>8, <1>9 DEF ActorEnds

(* The records of a step in a phase: only the checkpoint of this execution *)
(* may move, to the phase.                                                 *)
PhaseRecords ==
  /\ db' \in Seq(Execution) /\ Len(db') = Len(db)
  /\ \A c \in 1 .. Len(db) :
       /\ db'[c].kind = db[c].kind
       /\ db'[c].last \in {db[c].last} \cup IF c = run.ctx THEN {run.phase} ELSE {}

(* How the process goes on in a phase.                                     *)
StaysInPhase ==
  /\ run' \in Processes /\ run'.at = "in" /\ run'.ctx = run.ctx /\ run'.phase = run.phase
  /\ run'.until = run.until /\ run'.todo \subseteq run.todo

(* The end of an actor, or of the process, keeps the invariant.             *)
LEMMA StaysHalfway ==
  ASSUME TypeOK, HalfwayInv, run.at = "in", PhaseRecords, StaysInPhase \/ run' = Idle
  PROVE  HalfwayInv' /\ run' \in Processes
<1>0. Active
  BY DEF Active
<1>1. CASE run' = Idle
  BY <1>1, IdleType DEF HalfwayInv, Active, Idle
<1>2. CASE StaysInPhase
  <2>1. /\ Active' /\ Kind' = Kind /\ run'.ctx \in 1 .. Len(db')
        /\ db'[run'.ctx].last \in {db[run.ctx].last, run.phase}
    BY <1>0, <1>2, HalfwayExecution DEF StaysInPhase, PhaseRecords, Active, Kind
  <2>2. Kind = "upgrade" => IsLastUpgrade(run.ctx)'
    BY <1>0, <1>2 DEF StaysInPhase, PhaseRecords, HalfwayInv, IsLastUpgrade
  <2>3. Kind = "rerun" => db'[run'.ctx].last >= Finalization
    <3>1. /\ db[run.ctx].last \in {run.phase - 1, run.phase} /\ run.phase \in Nat
          /\ db[run.ctx].last \in Nat
          /\ Kind = "rerun" => db[run.ctx].last >= Finalization
      BY <1>0, HalfwayExecution DEF HalfwayInv
    <3> QED BY ONLY <2>1, <3>1 DEF Finalization
  <2>4. /\ run'.until \in {Reports, FirstBoot} /\ run'.phase <= run'.until
        /\ run'.todo \subseteq ActorsOf(run'.phase)
        /\ db'[run'.ctx].last \in {run'.phase - 1, run'.phase}
        /\ Kind = "preupgrade" => run'.until = Reports
    BY <1>0, <1>2, <2>1 DEF HalfwayInv, StaysInPhase
  <2>5. run'.at = "in" /\ run' \in Processes
    BY <1>2 DEF StaysInPhase
  <2> QED BY <2>1, <2>2, <2>3, <2>4, <2>5 DEF HalfwayInv
<1> QED BY <1>1, <1>2

(* An actor ends, stays in its phase or the process ends.                  *)
LEMMA ActorStaysInPhase ==
  ASSUME NEW a, NEW f, NEW STATE cost, NEW STATE d,
         TypeOK, HalfwayInv, cost \in Nat, SameRecords(d), ActorEnds(a, f, cost, d)
  PROVE  PhaseRecords /\ (StaysInPhase \/ run' = Idle) /\ durable' \in Seq(Execution)
<1>1. /\ Active /\ run.at = "in" /\ db' \in {d, Checkpointed(d)} /\ durable' \in {db', durable}
      /\ \/ run' = [run EXCEPT !.todo = run.todo \ {a}]
         \/ \E t \in SUBSET run.todo : run' = [run EXCEPT !.err = TRUE, !.todo = t]
         \/ run' = Idle
  BY ActorStepAnyhow
<1>2. PhaseRecords
  <2>1. CASE db' = d
    BY <2>1 DEF PhaseRecords, SameRecords
  <2>2. CASE db' = Checkpointed(d)
    <3> DEFINE e == Checkpointed(d)
    <3>1. /\ e \in Seq(Execution) /\ Len(e) = Len(db)
          /\ \A c \in 1 .. Len(db) :
               e[c].kind = db[c].kind /\ e[c].last = IF c = run.ctx THEN run.phase ELSE db[c].last
      BY <1>1, CheckpointIs
    <3> HIDE DEF e
    <3>2. db' = e
      BY <2>2 DEF e
    <3> QED BY <3>1, <3>2 DEF PhaseRecords
  <2> QED BY <1>1, <2>1, <2>2
<1>3. run' = Idle \/ StaysInPhase
  <2>1. run \in Processes
    BY DEF TypeOK
  <2>2. CASE run' = [run EXCEPT !.todo = run.todo \ {a}]
    BY <1>1, <2>1, <2>2 DEF StaysInPhase, Processes
  <2>3. ASSUME NEW t \in SUBSET run.todo, run' = [run EXCEPT !.err = TRUE, !.todo = t]
        PROVE  StaysInPhase
    BY <1>1, <2>1, <2>3 DEF StaysInPhase, Processes
  <2> QED BY <1>1, <2>2, <2>3
<1>4. durable \in Seq(Execution) /\ db' \in Seq(Execution)
  BY <1>2 DEF TypeOK, PhaseRecords
<1> QED BY <1>1, <1>2, <1>3, <1>4

(* Producing BootContent keeps kinds and checkpoints.                      *)
LEMMA ContentStoredAnyhow ==
  ASSUME TypeOK, HalfwayInv, Active
  PROVE  SameRecords([db EXCEPT ![run.ctx].content = TRUE])
<1>1. /\ [db[run.ctx] EXCEPT !.content = TRUE] \in Execution
      /\ [db[run.ctx] EXCEPT !.content = TRUE].kind = db[run.ctx].kind
      /\ [db[run.ctx] EXCEPT !.content = TRUE].last = db[run.ctx].last
  BY HalfwayExecution, ExecutionType DEF Execution
<1>2. run.ctx \in 1 .. Len(db)
  BY HalfwayExecution
<1> QED BY <1>1, <1>2 DEF SameRecords, TypeOK

(* So the steps of all actors.                                             *)
LEMMA ActorsStayInPhase ==
  ASSUME TypeOK, HalfwayInv, Actor
  PROVE  /\ run.at = "in" /\ PhaseRecords /\ (StaysInPhase \/ run' = Idle)
         /\ durable' \in Seq(Execution) /\ MachineTypes'
<1> DEFINE Is(a, f, n, d) == ActorEnds(a, f, n, d) /\ n \in Nat /\ SameRecords(d)
<1>0. 0 \in Nat /\ 1 \in Nat /\ SameRecords(db) /\ \A f : Cost(f) \in Nat
  BY SameDb DEF Cost
<1>1. CASE VerifyCheckResults
  <2>1. PICK inhibited \in BOOLEAN :
          run' = [run EXCEPT !.todo = @ \ {"verify_check_results"}, !.stop = inhibited]
    BY <1>1 DEF VerifyCheckResults
  <2>2. run.at = "in" /\ run \in Processes /\ Active
    BY <1>1 DEF VerifyCheckResults, Running, TypeOK, Active
  <2>3. StaysInPhase
    BY <2>1, <2>2 DEF StaysInPhase, Processes
  <2>4. db' \in {db, Checkpointed(db)} /\ durable' \in {db', durable}
    BY <1>1 DEF VerifyCheckResults, Store
  <2>5. PhaseRecords
    <3>1. CASE db' = db
      BY <1>0, <3>1 DEF PhaseRecords, SameRecords
    <3>2. CASE db' = Checkpointed(db)
      <4> DEFINE e == Checkpointed(db)
      <4>1. /\ e \in Seq(Execution) /\ Len(e) = Len(db)
            /\ \A c \in 1 .. Len(db) :
                 e[c].kind = db[c].kind /\ e[c].last = IF c = run.ctx THEN run.phase ELSE db[c].last
        BY <1>0, <2>2, CheckpointIs
      <4> HIDE DEF e
      <4>2. db' = e
        BY <3>2 DEF e
      <4> QED BY <4>1, <4>2 DEF PhaseRecords
    <3> QED BY <2>4, <3>1, <3>2
  <2>6. durable' \in Seq(Execution)
    BY <2>4, <2>5 DEF TypeOK, PhaseRecords
  <2>7. MachineTypes'
    BY <1>1 DEF VerifyCheckResults, TypeOK, MachineTypes, machine
  <2> QED BY <2>2, <2>3, <2>5, <2>6, <2>7
<1>2. CASE ~VerifyCheckResults
  <2>1. \E a, f, n, d : Is(a, f, n, d)
    <3>1. ASSUME \/ TargetUserspaceCreator \/ DnfPackageDownload \/ DnfDryRun
                 \/ RemoveUpgradeArtifacts \/ AddUpgradeBootEntry
          PROVE  \E a, f, n : ActorEnds(a, f, n, db) /\ n \in Nat
      BY <1>0, <3>1 DEF TargetUserspaceCreator, DnfPackageDownload, DnfDryRun,
         RemoveUpgradeArtifacts, AddUpgradeBootEntry
    <3>2. ASSUME \/ RemoveUpgradeBootEntry \/ RemoveBootFiles \/ PreparePythonWorkround
                 \/ ForceDefaultBoot
          PROVE  \E a, f, n : ActorEnds(a, f, n, db) /\ n \in Nat
      BY <1>0, <3>2 DEF RemoveUpgradeBootEntry, RemoveBootFiles, PreparePythonWorkround,
         ForceDefaultBoot
    <3>3. ASSUME DnfUpgradeTransaction \/ CreateResumeService \/ RemoveResumeService
          PROVE  \E a, f, n : ActorEnds(a, f, n, db) /\ n \in Nat
      BY <1>0, <3>3 DEF DnfUpgradeTransaction, CreateResumeService, RemoveResumeService
    <3>4. ASSUME UpgradeInitramfsGenerator
          PROVE  \E a, f, n, d : Is(a, f, n, d)
      <4>1. PICK f : ActorEnds("upgrade_initramfs_generator", f, IF userspace THEN Cost(f) ELSE 0,
                       IF f = "ok" THEN [db EXCEPT ![run.ctx].content = TRUE] ELSE db)
        BY <3>4 DEF UpgradeInitramfsGenerator
      <4>2. Active
        BY <4>1 DEF ActorEnds, Running, Active
      <4>3. SameRecords(IF f = "ok" THEN [db EXCEPT ![run.ctx].content = TRUE] ELSE db)
        BY <1>0, <4>2, ContentStoredAnyhow
      <4> QED BY <1>0, <4>1, <4>3
    <3> QED BY <1>0, <1>2, <3>1, <3>2, <3>3, <3>4 DEF Actor
  <2> HIDE DEF Is
  <2>2. PICK a, f, n, d : Is(a, f, n, d)
    BY <2>1
  <2>3. ActorEnds(a, f, n, d) /\ n \in Nat /\ SameRecords(d)
    BY <2>2 DEF Is
  <2> QED BY <2>3, ActorStepAnyhow, ActorStaysInPhase
<1> QED BY <1>1, <1>2

(* A process that is started, on the newest upgrade or a new execution.    *)
LEMMA StartHalfway ==
  ASSUME NEW c \in Nat, NEW from \in 0 .. FirstBoot, NEW until \in {Reports, FirstBoot},
         NEW resume \in BOOLEAN, run' = Process(c, from, until, resume),
         c \in 1 .. Len(db'), db'[c].last = from, from <= until,
         db'[c].kind = "upgrade" => IsLastUpgrade(c)',
         db'[c].kind = "preupgrade" => until = Reports,
         db'[c].kind = "rerun" => from >= Finalization
  PROVE  HalfwayInv' /\ run' \in Processes
<1>1. /\ run' \in Processes /\ run'.at = "between" /\ run'.ctx = c /\ run'.phase = from
      /\ run'.until = until
  <2>1. LET r == Process(c, from, until, resume)
        IN  r \in Processes /\ r.at = "between" /\ r.ctx = c /\ r.phase = from /\ r.until = until
    BY SMTT(60), ProcessType
  <2> QED BY <2>1
<1>2. Active' /\ Kind' = db'[c].kind
  BY <1>1 DEF Active, Kind
<1> QED BY <1>1, <1>2 DEF HalfwayInv

(* The steps of Workflow.run.                                              *)
LEMMA WorkflowHalfway ==
  ASSUME TypeOK, HalfwayInv, BeginPhase \/ NothingToDo \/ PhaseFails \/ PhaseEnds
  PROVE  /\ HalfwayInv' /\ run' \in Processes
         /\ db' \in Seq(Execution) /\ durable' \in Seq(Execution)
<1>0. /\ db \in Seq(Execution) /\ durable \in Seq(Execution) /\ SameRecords(db)
  BY SameDb DEF TypeOK
<1>1. CASE BeginPhase
  <2>1. PICK S \in SUBSET ActorsOf(run.phase + 1) :
          run' = [run EXCEPT !.at = "in", !.phase = @ + 1, !.todo = S]
    BY <1>1 DEF BeginPhase
  <2>2. /\ Active /\ run.at = "between" /\ run.phase < run.until /\ UNCHANGED <<db, durable>>
    BY <1>1 DEF BeginPhase, Active
  <2>3. run.until \in {Reports, FirstBoot} /\ db[run.ctx].last = run.phase
    BY <2>2 DEF HalfwayInv
  <2>4. /\ run' \in Processes /\ run'.at = "in" /\ run'.ctx = run.ctx
        /\ run'.phase = run.phase + 1 /\ run'.todo = S /\ run'.until = run.until
    <3>1. run.phase + 1 \in 0 .. FirstBoot /\ S \in SUBSET Actors
      BY SMTT(60), <2>2, <2>3, HalfwayExecution DEF FirstBoot, Reports, ActorsOf
    <3> QED BY <2>1, <3>1 DEF TypeOK, Processes
  <2>5. Active' /\ Kind' = Kind /\ run'.phase <= run'.until /\ run'.ctx \in 1 .. Len(db')
        /\ run.phase \in Nat
    <3>1. run.phase \in Nat /\ run.until \in Nat /\ run.ctx \in 1 .. Len(db)
      BY <2>2, <2>3, HalfwayExecution DEF Reports, FirstBoot
    <3> QED BY <2>2, <2>4, <3>1 DEF Active, Kind
  <2>6. IsLastUpgrade(run.ctx) => IsLastUpgrade(run.ctx)'
    BY <2>2, <2>4 DEF IsLastUpgrade
  <2>7. db'[run'.ctx].last = run'.phase - 1
    BY <2>2, <2>3, <2>4, <2>5
  <2>8. /\ Kind = "upgrade" => IsLastUpgrade(run.ctx)
        /\ Kind = "preupgrade" => run.until = Reports
        /\ Kind = "rerun" => db[run.ctx].last >= Finalization
    BY <2>2 DEF HalfwayInv
  <2> QED BY <1>0, <2>2, <2>3, <2>4, <2>5, <2>6, <2>7, <2>8 DEF HalfwayInv
<1>2. CASE NothingToDo \/ PhaseFails
  <2>1. run' = Idle /\ UNCHANGED <<db, durable>>
    BY <1>2 DEF NothingToDo, PhaseFails, Exit
  <2> QED BY <1>0, <2>1, IdleType DEF HalfwayInv, Active, Idle
<1>3. CASE PhaseEnds
  <2>1. /\ Active /\ run.at = "in" /\ db' = Checkpointed(db) /\ durable' \in {db', durable}
        /\ run' = Idle \/ run' = [run EXCEPT !.at = "between"]
    BY <1>3 DEF PhaseEnds, Store, Exit, Active
  <2>2. /\ db' \in Seq(Execution) /\ Len(db') = Len(db)
        /\ \A c \in 1 .. Len(db) :
             /\ db'[c].kind = db[c].kind
             /\ db'[c].last = IF c = run.ctx THEN run.phase ELSE db[c].last
    BY <1>0, <2>1, CheckpointIs
  <2>3. CASE run' = Idle
    BY <1>0, <2>1, <2>2, <2>3, IdleType DEF HalfwayInv, Active, Idle
  <2>4. CASE run' = [run EXCEPT !.at = "between"]
    <3>1. /\ run' \in Processes /\ run'.at = "between" /\ run'.ctx = run.ctx
          /\ run'.phase = run.phase /\ run'.until = run.until
      BY <2>4 DEF TypeOK, Processes
    <3>2. Active' /\ Kind' = Kind /\ run'.ctx \in 1 .. Len(db') /\ db'[run'.ctx].last = run'.phase
      BY <2>1, <2>2, <3>1, HalfwayExecution DEF Active, Kind
    <3>3. Kind = "upgrade" => IsLastUpgrade(run.ctx)'
      BY <2>1, <2>2, <3>1 DEF HalfwayInv, IsLastUpgrade
    <3>4. Kind = "rerun" => run.phase >= Finalization
      <4>1. /\ db[run.ctx].last \in {run.phase - 1, run.phase} /\ run.phase \in Nat
            /\ Kind = "rerun" => db[run.ctx].last >= Finalization
        BY <2>1, HalfwayExecution DEF HalfwayInv
      <4> QED BY ONLY <4>1 DEF Finalization
    <3>5. /\ run.until \in {Reports, FirstBoot} /\ run.phase <= run.until
          /\ Kind = "preupgrade" => run.until = Reports
      BY <2>1 DEF HalfwayInv
    <3>6. HalfwayInv'
      BY <3>1, <3>2, <3>3, <3>4, <3>5 DEF HalfwayInv
    <3> QED BY <1>0, <2>1, <2>2, <3>1, <3>6
  <2> QED BY <2>1, <2>3, <2>4
<1> QED BY <1>1, <1>2, <1>3

(* A new execution is the newest one.                                      *)
LEMMA CommandsHalfway ==
  ASSUME TypeOK, HalfwayInv, LeappUpgrade \/ LeappPreupgrade \/ LeappRerun
  PROVE  /\ HalfwayInv' /\ run' \in Processes
         /\ db' \in Seq(Execution) /\ durable' \in Seq(Execution)
<1>1. PICK e \in Execution, until \in {Reports, FirstBoot}, resume \in BOOLEAN :
        /\ db' = Append(db, e) /\ run' = Process(Len(db) + 1, e.last, until, resume)
        /\ e.kind = "preupgrade" => until = Reports
        /\ e.kind = "rerun" => e.last = Finalization
        /\ e.last <= until
  <2>1. CASE LeappUpgrade
    <3>1. [kind |-> "upgrade", last |-> 0, content |-> FALSE] \in Execution
      BY DEF Execution, Kinds, FirstBoot
    <3>2. 0 <= FirstBoot /\ FirstBoot \in {Reports, FirstBoot}
      BY DEF FirstBoot
    <3> QED BY <2>1, <3>1, <3>2 DEF LeappUpgrade, Store
  <2>2. CASE LeappPreupgrade
    <3>1. [kind |-> "preupgrade", last |-> 0, content |-> FALSE] \in Execution
      BY DEF Execution, Kinds, FirstBoot
    <3>2. 0 <= Reports /\ Reports \in {Reports, FirstBoot}
      BY DEF Reports
    <3> QED BY <2>2, <3>1, <3>2 DEF LeappPreupgrade, Store
  <2>3. CASE LeappRerun
    <3>1. PICK b \in 1 .. Len(db) :
            /\ db' = Append(db, [kind |-> "rerun", last |-> Finalization,
                                 content |-> db[b].content])
            /\ run' = Process(Len(db) + 1, Finalization, FirstBoot, TRUE)
      BY <2>3 DEF LeappRerun, Store
    <3>2. [kind |-> "rerun", last |-> Finalization, content |-> db[b].content] \in Execution
      BY ExecutionType DEF Execution, Kinds, FirstBoot, Finalization
    <3>3. Finalization <= FirstBoot /\ FirstBoot \in {Reports, FirstBoot}
      BY DEF Finalization, FirstBoot
    <3> QED BY <3>1, <3>2, <3>3
  <2> QED BY <2>1, <2>2, <2>3
<1>2. /\ db' \in Seq(Execution) /\ Len(db') = Len(db) + 1 /\ Len(db) \in Nat
      /\ db'[Len(db) + 1] = e
  BY <1>1, DbAppend
<1>3. e.last \in 0 .. FirstBoot
  BY DEF Execution
<1>4. ASSUME NEW n, n = Len(db) + 1 PROVE HalfwayInv' /\ run' \in Processes
  <2>1. /\ n \in Nat /\ n \in 1 .. Len(db') /\ db'[n] = e /\ run' = Process(n, e.last, until, resume)
    BY <1>1, <1>2, <1>4
  <2>2. e.kind = "upgrade" => IsLastUpgrade(n)'
    BY <1>2, <1>4, <2>1 DEF IsLastUpgrade
  <2>3. e.kind = "rerun" => e.last >= Finalization
    BY <1>1 DEF Finalization
  <2> QED BY <1>1, <1>3, <2>1, <2>2, <2>3, StartHalfway
<1>5. durable' \in {db', durable}
  BY DEF LeappUpgrade, LeappPreupgrade, LeappRerun, Store
<1> QED BY <1>2, <1>4, <1>5 DEF TypeOK

(* An upgrade that is resumed, from its last checkpoint.                   *)
LEMMA ResumesHalfway ==
  ASSUME TypeOK, HalfwayInv, db' = db, UNCHANGED durable,
         \E c \in 1 .. Len(db) :
           IsLastUpgrade(c) /\ run' = Process(c, db[c].last, FirstBoot, TRUE)
  PROVE  /\ HalfwayInv' /\ run' \in Processes
         /\ db' \in Seq(Execution) /\ durable' \in Seq(Execution)
<1>1. PICK c \in 1 .. Len(db) :
        IsLastUpgrade(c) /\ run' = Process(c, db[c].last, FirstBoot, TRUE)
  OBVIOUS
<1>2. db[c].last \in 0 .. FirstBoot /\ db'[c].last = db[c].last /\ db'[c].kind = "upgrade"
  BY <1>1, ExecutionType DEF IsLastUpgrade
<1>3. db[c].last <= FirstBoot /\ FirstBoot \in {Reports, FirstBoot} /\ c \in Nat
  BY <1>2 DEF FirstBoot
<1>4. IsLastUpgrade(c)'
  BY <1>1 DEF IsLastUpgrade
<1>5. HalfwayInv' /\ run' \in Processes
  BY <1>1, <1>2, <1>3, <1>4, StartHalfway
<1> QED BY <1>5 DEF TypeOK

(* The parts of TypeOK, and what the other steps do.                       *)
LEMMA HalfwayStays ==
  ASSUME TypeOK, HalfwayInv, [Next]_vars
  PROVE  TypeOK' /\ HalfwayInv'
<1>0. db \in Seq(Execution) /\ durable \in Seq(Execution) /\ run \in Processes
  BY DEF TypeOK
<1>1. SUFFICES /\ HalfwayInv' /\ run' \in Processes /\ MachineTypes'
               /\ db' \in Seq(Execution) /\ durable' \in Seq(Execution)
  BY DiskStaysTyped DEF TypeOK, DiskTypes, MachineTypes
<1>2. CASE Actor
  <2>1. /\ run.at = "in" /\ PhaseRecords /\ (StaysInPhase \/ run' = Idle)
        /\ durable' \in Seq(Execution) /\ MachineTypes'
    BY <1>2, ActorsStayInPhase
  <2> QED BY <2>1, StaysHalfway DEF PhaseRecords
<1>3. CASE ~Actor
  <2>1. MachineTypes'
    BY <1>3, MachineStaysTyped
  <2>2. CASE BeginPhase \/ NothingToDo \/ PhaseFails \/ PhaseEnds
    BY <2>1, <2>2, WorkflowHalfway
  <2>3. CASE LeappUpgrade \/ LeappPreupgrade \/ LeappRerun
    BY <2>1, <2>3, CommandsHalfway
  <2>4. ASSUME UNCHANGED <<run, db>>, durable' \in {db, durable}
        PROVE  /\ HalfwayInv' /\ run' \in Processes
               /\ db' \in Seq(Execution) /\ durable' \in Seq(Execution)
    BY <1>0, <2>4 DEF HalfwayInv, Active, Kind, IsLastUpgrade
  <2>5. CASE SetFailedFlag \/ ServiceEnds \/ PowerOn \/ Shutdown \/ EmergencyExit \/ PickOtherEntry
             \/ UNCHANGED vars
    <3>1. UNCHANGED <<run, db>> /\ durable' \in {db, durable}
      BY <2>5 DEF SetFailedFlag, ServiceEnds, PowerOn, Shutdown, EmergencyExit, PickOtherEntry, vars
    <3> QED BY <2>1, <2>4, <3>1
  <2>6. CASE RunLeapp \/ RunLeapp3 \/ ResumeServiceStart \/ LeappUpgradeResume
    <3>1. /\ UNCHANGED <<db, durable>>
          /\ \/ UNCHANGED run
             \/ \E c \in 1 .. Len(db) :
                   IsLastUpgrade(c) /\ run' = Process(c, db[c].last, FirstBoot, TRUE)
      BY <2>6 DEF RunLeapp, RunLeapp3, ResumeServiceStart, LeappUpgradeResume
    <3> QED BY <2>1, <2>4, <3>1, ResumesHalfway
  <2>7. CASE PowerLoss
    <3>1. run' = Idle /\ db' \in {db, durable} /\ durable' = db'
      BY <2>7 DEF PowerLoss
    <3> QED BY <1>0, <2>1, <3>1, IdleType DEF HalfwayInv, Active, Idle
  <2> QED BY <1>3, <2>2, <2>3, <2>5, <2>6, <2>7 DEF Next, Workflow, Script, Operator
<1> QED BY <1>2, <1>3

(* Nothing runs at first.                                                   *)
LEMMA InitiallyTyped == Init => TypeOK /\ HalfwayInv
<1> SUFFICES ASSUME Init PROVE TypeOK /\ HalfwayInv
  OBVIOUS
<1>2. TypeOK
  BY InitInv DEF IInv
<1>3. HalfwayInv
  BY DEF Init, HalfwayInv, Active, Idle
<1> QED BY <1>2, <1>3

(* Together, in every behaviour.                                           *)
LEMMA HalfwayAlways == Spec => [](TypeOK /\ HalfwayInv)
<1>1. TypeOK /\ HalfwayInv /\ [Next]_vars => TypeOK' /\ HalfwayInv'
  BY HalfwayStays
<1> QED BY <1>1, InitiallyTyped, PTL DEF Spec

(* The types, for every number of executions and failures, whatever counts *)
(* as an executed phase.                                                   *)
THEOREM TypeCorrect == Spec => []TypeOK
<1> QED BY HalfwayAlways, PTL
=============================================================================
