------------------------- MODULE UpgradeActorsProofs -------------------------
(***************************************************************************)
(* Proofs about actors that scan the system before the upgrade and act on  *)
(* what they found: systemd services, devices and drivers, GPG keys,       *)
(* clients of a cloud, the repositories and the release of the target.     *)
(* With the proofs about the upgrade environment they make up those of the *)
(* run that checks all these components together.                          *)
(***************************************************************************)
EXTENDS SystemdServices, DeviceSupport, PackageKeys, ContentAccess, RepositoryMap,
        UpgradePath, UpgradeEnvironmentProofs, MCUpgradeActors,
        WellFoundedInduction, FiniteSetTheorems, SequenceTheorems, TLAPS

-----------------------------------------------------------------------------
(* SystemdServices.                                                        *)

AfterFacts == {"checks", "tasks", "transaction", "applications", "finalization", "done",
               "inhibited", "failed"}
BeforeTransaction == {"facts", "checks", "tasks", "transaction", "stopped", "inhibited"}
AfterTransaction == {"applications", "finalization", "done", "failed"}

ServicePhases == svAt \in {"facts", "stopped"} \cup AfterFacts

(* The scan of the source is the one made before the upgrade.              *)
SourceScan ==
    svAt \in AfterFacts =>
      /\ svAt \in BeforeTransaction => DOMAIN svScans = {"source"}
      /\ svScans.source.units = svSystem.source
      /\ svScans.source.links = svSystem.brokenBefore

(* Until the packages are upgraded nothing has changed.                    *)
SourceState ==
    svAt \in BeforeTransaction =>
      /\ svState = svSystem.source /\ svLinks = svSystem.brokenBefore
      /\ svTasks = svSystem.early

(* Tasks that were checked do not conflict.                                *)
EarlyTasks ==
    svAt \in {"transaction"} \cup AfterTransaction =>
      Enabling(svSystem.early) \cap Disabling(svSystem.early) = {}

(* The states of the units are those the packages gave them: the repair    *)
(* disables what is not enabled and enables what is.                       *)
TargetState ==
    svAt \in {"applications", "finalization", "failed"} =>
      /\ DOMAIN svState = DOMAIN svSystem.target
      /\ \A u \in DOMAIN svState : svState[u] = svSystem.target[u]
      /\ "repair" \in svTodo =>
           svLinks = svSystem.brokenBefore \cup svSystem.brokenByUpgrade

(* The scan of the target is the one made after it, before any repair.     *)
TargetScan ==
    svAt \in AfterTransaction =>
      /\ DOMAIN svScans = {"source"} => svTodo = {"transition", "repair"}
      /\ DOMAIN svScans # {"source"} =>
           /\ DOMAIN svScans = {"source", "target", "has"}
           /\ DOMAIN svScans.target.units = DOMAIN svSystem.target
           /\ \A u \in DOMAIN svSystem.target :
                svScans.target.units[u] = svSystem.target[u]
           /\ svScans.target.links = svSystem.brokenBefore \cup svSystem.brokenByUpgrade

(* What the transition asks for, once it has run.                          *)
TransitionTask == [enable |-> Wanted("enabled"), disable |-> Wanted("disabled")]
Transitioned ==
    /\ DOMAIN svScans # {"source"}
    /\ svTasks = (svSystem.early \cup svSystem.late) \cup {TransitionTask}
    /\ \A u \in NewlyEnabled : <<"newly enabled", u>> \in svReports
TransitionDone ==
    svAt \in AfterTransaction =>
      \/ svAt \in {"applications", "failed"} /\ "transition" \in svTodo
           /\ svTasks = svSystem.early \cup svSystem.late
      \/ "transition" \notin svTodo /\ Transitioned

(* The end.                                                                *)
TasksCarriedOut ==
    svAt = "done" =>
      /\ DOMAIN svState = DOMAIN svSystem.target
      /\ \A u \in DOMAIN svSystem.target \ svSystem.failing :
           svState[u] =
             IF u \in Disabling(svTasks)
             THEN IF svSystem.target[u] = "enabled" THEN "disabled" ELSE svSystem.target[u]
             ELSE IF u \in Enabling(svTasks) /\ svSystem.target[u] \in Relevant
                  THEN "enabled" ELSE svSystem.target[u]

ServicesInv ==
    /\ svSystem \in ServiceSystems
    /\ ServicePhases /\ SourceScan /\ SourceState /\ EarlyTasks
    /\ TargetState /\ TargetScan /\ TransitionDone /\ TasksCarriedOut

-----------------------------------------------------------------------------
(* What is derived from the two scans stays while they do.                 *)
LEMMA ScansDecide ==
  ASSUME svSystem' = svSystem, svScans' = svScans
  PROVE  TransitionTask' = TransitionTask /\ NewlyEnabled' = NewlyEnabled
<1>1. HandledServices' = HandledServices
  BY DEF HandledServices
<1>2. ASSUME NEW u PROVE DesiredState(u)' = DesiredState(u)
  BY DEF DesiredState, DesiredOfTarget, PresetOf
<1>3. ASSUME NEW state PROVE Wanted(state)' = Wanted(state)
  BY <1>1, <1>2 DEF Wanted
<1> QED BY <1>1, <1>2, <1>3 DEF TransitionTask, NewlyEnabled

LEMMA ServicesStart == ServiceInit => ServicesInv
<1> SUFFICES ASSUME ServiceInit PROVE ServicesInv
  OBVIOUS
<1>1. /\ svSystem \in ServiceSystems /\ svAt = "facts" /\ svState = svSystem.source
      /\ svLinks = svSystem.brokenBefore /\ svTasks = svSystem.early
  BY DEF ServiceInit
<1> QED BY <1>1 DEF ServicesInv, ServicePhases, AfterFacts, SourceScan, SourceState, EarlyTasks,
       BeforeTransaction, AfterTransaction, TargetState, TargetScan, TransitionDone,
       TasksCarriedOut

(* The steps up to the transaction.                                        *)
LEMMA ServicesBefore ==
  ASSUME ServicesInv, ScanSystemdSource \/ CheckBrokenSymlinks \/ CheckServicesTasks
  PROVE  ServicesInv'
<1>1. CASE ScanSystemdSource
  <2>1. /\ svAt = "facts" /\ UNCHANGED <<svSystem, svState, svLinks, svTasks>>
        /\ \/ svAt' = "stopped"
           \/ svAt' = "checks" /\ svScans' = [source |-> ScanOf("source")]
    BY <1>1 DEF ScanSystemdSource
  <2>2. svState = svSystem.source /\ svLinks = svSystem.brokenBefore /\ svTasks = svSystem.early
    BY <2>1 DEF ServicesInv, SourceState, BeforeTransaction
  <2>3. /\ svSystem \in ServiceSystems
        /\ svAt' = "checks" => /\ DOMAIN svScans' = {"source"}
                               /\ svScans'.source.units = svSystem.source
                               /\ svScans'.source.links = svSystem.brokenBefore
    BY <2>1, <2>2 DEF ScanOf, ServicesInv
  <2> QED BY <2>1, <2>2, <2>3 DEF ServicesInv, ServicePhases, AfterFacts, SourceScan, SourceState,
         EarlyTasks, BeforeTransaction, AfterTransaction, TargetState, TargetScan, TransitionDone,
         TasksCarriedOut
<1>2. CASE CheckBrokenSymlinks
  <2>1. /\ svAt = "checks" /\ svAt' = "tasks"
        /\ UNCHANGED <<svSystem, svState, svLinks, svScans, svTasks, svTodo>>
    BY <1>2 DEF CheckBrokenSymlinks
  <2> QED BY <2>1 DEF ServicesInv, ServicePhases, AfterFacts, SourceScan, SourceState,
         EarlyTasks, BeforeTransaction, AfterTransaction, TargetState, TargetScan, TransitionDone,
         TasksCarriedOut
<1>3. CASE CheckServicesTasks
  <2>1. /\ svAt = "tasks"
        /\ \/ svAt' = "inhibited"
           \/ svAt' = "transaction" /\ TaskConflicts = {}
        /\ UNCHANGED <<svSystem, svState, svLinks, svScans, svTasks, svTodo>>
    BY <1>3 DEF CheckServicesTasks
  <2>2. svAt' = "transaction" => Enabling(svSystem.early) \cap Disabling(svSystem.early) = {}
    BY <2>1 DEF ServicesInv, SourceState, BeforeTransaction, TaskConflicts
  <2> QED BY <2>1, <2>2 DEF ServicesInv, ServicePhases, AfterFacts, SourceScan, SourceState,
         EarlyTasks, BeforeTransaction, AfterTransaction, TargetState, TargetScan, TransitionDone,
         TasksCarriedOut, Enabling, Disabling
<1> QED BY <1>1, <1>2, <1>3

LEMMA ServicesUpgraded ==
  ASSUME ServicesInv, UpgradeUnits
  PROVE  ServicesInv'
<1>1. /\ svAt = "transaction" /\ svAt' = "applications" /\ svState' = svSystem.target
      /\ svLinks' = svSystem.brokenBefore \cup svSystem.brokenByUpgrade
      /\ svTasks' = svTasks \cup svSystem.late /\ svTodo' = {"transition", "repair"}
      /\ UNCHANGED <<svSystem, svScans>>
  BY DEF UpgradeUnits
<1>2. /\ svSystem \in ServiceSystems /\ DOMAIN svScans = {"source"}
      /\ svScans.source.units = svSystem.source /\ svScans.source.links = svSystem.brokenBefore
      /\ svTasks = svSystem.early
      /\ Enabling(svSystem.early) \cap Disabling(svSystem.early) = {}
  BY <1>1 DEF ServicesInv, SourceScan, SourceState, EarlyTasks, AfterFacts, BeforeTransaction
<1> QED BY <1>1, <1>2 DEF ServicesInv, ServicePhases, AfterFacts, SourceScan, SourceState,
       EarlyTasks, BeforeTransaction, AfterTransaction, TargetState, TargetScan, TransitionDone,
       TasksCarriedOut, Enabling, Disabling

LEMMA ServicesScanned ==
  ASSUME ServicesInv, ScanSystemdTarget
  PROVE  ServicesInv'
<1>1. /\ svAt = "applications" /\ DOMAIN svScans = {"source"}
      /\ UNCHANGED <<svSystem, svAt, svState, svLinks, svTasks, svTodo>>
      /\ DOMAIN svScans' = {"source", "target", "has"}
      /\ svScans'.source = svScans.source /\ svScans'.target = ScanOf("target")
  BY DEF ScanSystemdTarget
<1>2. /\ svSystem \in ServiceSystems /\ svTodo = {"transition", "repair"}
      /\ svScans.source.units = svSystem.source /\ svScans.source.links = svSystem.brokenBefore
      /\ svTasks = svSystem.early \cup svSystem.late
      /\ Enabling(svSystem.early) \cap Disabling(svSystem.early) = {}
  BY <1>1 DEF ServicesInv, SourceScan, EarlyTasks, AfterFacts, AfterTransaction, TargetScan,
     TransitionDone, Transitioned
<1>3. /\ DOMAIN svState = DOMAIN svSystem.target
      /\ \A u \in DOMAIN svState : svState[u] = svSystem.target[u]
      /\ svLinks = svSystem.brokenBefore \cup svSystem.brokenByUpgrade
  BY <1>1, <1>2 DEF ServicesInv, TargetState
<1>4. svScans'.target.units = svState /\ svScans'.target.links = svLinks
  BY <1>1 DEF ScanOf
<1> QED BY <1>1, <1>2, <1>3, <1>4 DEF ServicesInv, ServicePhases, AfterFacts, SourceScan,
       SourceState, EarlyTasks, BeforeTransaction, AfterTransaction, TargetState, TargetScan,
       TransitionDone, TasksCarriedOut, Enabling, Disabling

LEMMA ServicesTransitioned ==
  ASSUME ServicesInv, TransitionServices
  PROVE  ServicesInv'
<1>1. /\ svAt = "applications" /\ DOMAIN svScans # {"source"} /\ "transition" \in svTodo
      /\ UNCHANGED <<svSystem, svState, svLinks, svScans>>
  BY DEF TransitionServices, TargetScanned
<1>2. \/ /\ svTasks' = svTasks \cup {TransitionTask}
         /\ svReports' = svReports \cup {<<"newly enabled", u>> : u \in NewlyEnabled}
         /\ svTodo' = svTodo \ {"transition"} /\ svAt' = svAt
      \/ svAt' = "failed" /\ UNCHANGED <<svTasks, svReports, svTodo>>
  BY DEF TransitionServices, TransitionTask
<1>3. /\ svSystem \in ServiceSystems /\ svTasks = svSystem.early \cup svSystem.late
      /\ svScans.source.units = svSystem.source /\ svScans.source.links = svSystem.brokenBefore
      /\ Enabling(svSystem.early) \cap Disabling(svSystem.early) = {}
  BY <1>1 DEF ServicesInv, SourceScan, EarlyTasks, AfterFacts, AfterTransaction, TransitionDone
<1>4. TransitionTask' = TransitionTask /\ NewlyEnabled' = NewlyEnabled
  BY <1>1, ScansDecide
<1>5. TransitionDone'
  BY <1>1, <1>2, <1>3, <1>4 DEF TransitionDone, Transitioned, AfterTransaction
<1>6. TargetState' /\ TargetScan'
  BY <1>1, <1>2 DEF ServicesInv, TargetState, TargetScan, AfterTransaction
<1> QED BY <1>1, <1>2, <1>3, <1>5, <1>6 DEF ServicesInv, ServicePhases, AfterFacts, SourceScan,
       SourceState, EarlyTasks, BeforeTransaction, AfterTransaction, TasksCarriedOut, Enabling,
       Disabling

(* A unit that is not enabled is not changed by disabling it, nor one that *)
(* is enabled by enabling it: only the symlinks change.                    *)
LEMMA ServicesRepaired ==
  ASSUME ServicesInv, RepairSystemdSymlinks
  PROVE  ServicesInv'
<1> DEFINE broken == IF "links" \in svScans.has THEN UnitsOf(NewlyBroken) ELSE {}
           off == {u \in broken : ~IsUnitEnabled(u)}
           again == {u \in broken \cup InstallationChanged :
                       EnabledOnSource(u) /\ IsUnitEnabled(u)}
<1>1. /\ svAt = "applications" /\ DOMAIN svScans # {"source"} /\ "repair" \in svTodo
      /\ UNCHANGED <<svSystem, svAt, svScans, svTasks, svReports>>
      /\ svTodo' = svTodo \ {"repair"}
      /\ svState' = AfterEnable(AfterDisable(svState, off), again)
  BY DEF RepairSystemdSymlinks, TargetScanned
<1>2. /\ svSystem \in ServiceSystems
      /\ svScans.source.units = svSystem.source /\ svScans.source.links = svSystem.brokenBefore
      /\ Enabling(svSystem.early) \cap Disabling(svSystem.early) = {}
      /\ DOMAIN svState = DOMAIN svSystem.target
      /\ \A u \in DOMAIN svState : svState[u] = svSystem.target[u]
  BY <1>1 DEF ServicesInv, SourceScan, EarlyTasks, AfterFacts, AfterTransaction, TargetState
<1>3. /\ DOMAIN AfterDisable(svState, off) = DOMAIN svState
      /\ \A u \in DOMAIN svState : AfterDisable(svState, off)[u] = svState[u]
  BY DEF AfterDisable, IsUnitEnabled
<1>4. /\ DOMAIN svState' = DOMAIN svState
      /\ \A u \in DOMAIN svState : svState'[u] = svState[u]
  <2>1. DOMAIN svState' = DOMAIN svState
    BY <1>1, <1>3 DEF AfterEnable
  <2>2. ASSUME NEW u \in DOMAIN svState PROVE svState'[u] = svState[u]
    <3>1. u \in again => svState[u] = "enabled"
      BY DEF IsUnitEnabled
    <3>2. svState'[u] = IF u \in again /\ CanEnable(u) THEN "enabled"
                        ELSE AfterDisable(svState, off)[u]
      BY <1>1, <1>3 DEF AfterEnable
    <3> HIDE DEF again, off
    <3> QED BY <1>3, <3>1, <3>2
  <2> QED BY <2>1, <2>2
<1>5. TargetState'
  BY <1>1, <1>2, <1>4 DEF TargetState
<1>6. TargetScan'
  BY <1>1 DEF ServicesInv, TargetScan, AfterTransaction
<1>7. TransitionTask' = TransitionTask /\ NewlyEnabled' = NewlyEnabled
  BY <1>1, ScansDecide
<1>8. TransitionDone'
  BY <1>1, <1>7 DEF ServicesInv, TransitionDone, Transitioned, AfterTransaction
<1> QED BY <1>1, <1>2, <1>5, <1>6, <1>8 DEF ServicesInv, ServicePhases, AfterFacts, SourceScan,
       SourceState, EarlyTasks, BeforeTransaction, AfterTransaction, TasksCarriedOut, Enabling,
       Disabling

(* The tasks are carried out for every unit that systemctl does not fail   *)
(* for; a unit asked to be enabled and to be disabled is disabled.         *)
LEMMA ServicesSet ==
  ASSUME ServicesInv, SetServicesStates
  PROVE  ServicesInv'
<1> DEFINE on == Enabling(svTasks) \ Disabling(svTasks)
<1>1. /\ svAt = "finalization" /\ svAt' = "done" /\ svState' = AfterTasks
      /\ UNCHANGED <<svSystem, svScans, svTasks, svTodo, svReports>>
  BY DEF SetServicesStates
<1>2. /\ svSystem \in ServiceSystems
      /\ svScans.source.units = svSystem.source /\ svScans.source.links = svSystem.brokenBefore
      /\ Enabling(svSystem.early) \cap Disabling(svSystem.early) = {}
      /\ DOMAIN svState = DOMAIN svSystem.target
      /\ \A u \in DOMAIN svState : svState[u] = svSystem.target[u]
  BY <1>1 DEF ServicesInv, SourceScan, EarlyTasks, AfterFacts, AfterTransaction, TargetState
<1>3. /\ DOMAIN AfterEnable(svState, on) = DOMAIN svState
      /\ \A u \in DOMAIN svState \ svSystem.failing :
           AfterEnable(svState, on)[u] =
             IF u \in on /\ svState[u] \in Relevant THEN "enabled" ELSE svState[u]
  BY DEF AfterEnable, CanEnable
<1>4. /\ DOMAIN svState' = DOMAIN svState
      /\ \A u \in DOMAIN svState \ svSystem.failing :
           svState'[u] = IF u \in Disabling(svTasks) /\ AfterEnable(svState, on)[u] = "enabled"
                         THEN "disabled" ELSE AfterEnable(svState, on)[u]
  <2> HIDE DEF on
  <2>1. svState' = AfterDisable(AfterEnable(svState, on), Disabling(svTasks))
    BY <1>1 DEF AfterTasks, on
  <2> QED BY <1>3, <2>1 DEF AfterDisable
<1>5. TasksCarriedOut'
  <2>1. Disabling(svTasks)' = Disabling(svTasks) /\ Enabling(svTasks)' = Enabling(svTasks)
    BY <1>1 DEF Enabling, Disabling
  <2>2. ASSUME NEW u \in DOMAIN svState \ svSystem.failing
        PROVE  svState'[u] =
                 IF u \in Disabling(svTasks)
                 THEN IF svSystem.target[u] = "enabled" THEN "disabled" ELSE svSystem.target[u]
                 ELSE IF u \in Enabling(svTasks) /\ svSystem.target[u] \in Relevant
                      THEN "enabled" ELSE svSystem.target[u]
    BY <1>2, <1>3, <1>4
  <2> QED BY <1>1, <1>2, <1>4, <2>1, <2>2 DEF TasksCarriedOut
<1>6. TransitionTask' = TransitionTask /\ NewlyEnabled' = NewlyEnabled
  BY <1>1, ScansDecide
<1>7. TransitionDone' /\ TargetScan'
  BY <1>1, <1>6 DEF ServicesInv, TransitionDone, Transitioned, AfterTransaction, TargetScan
<1> QED BY <1>1, <1>2, <1>5, <1>7 DEF ServicesInv, ServicePhases, AfterFacts, SourceScan,
       SourceState, EarlyTasks, BeforeTransaction, AfterTransaction, TargetState, Enabling,
       Disabling

LEMMA ServicesEnd ==
  ASSUME ServicesInv, EndOfApplications \/ UNCHANGED svVars
  PROVE  ServicesInv'
<1>1. /\ UNCHANGED <<svSystem, svState, svLinks, svScans, svTasks, svTodo, svReports>>
      /\ \/ svAt = "applications" /\ svAt' = "finalization" /\ svTodo = {}
         \/ svAt' = svAt
  BY DEF EndOfApplications, TargetScanned, svVars
<1>2. /\ TransitionTask' = TransitionTask /\ NewlyEnabled' = NewlyEnabled
      /\ Disabling(svTasks)' = Disabling(svTasks) /\ Enabling(svTasks)' = Enabling(svTasks)
      /\ Enabling(svSystem.early)' = Enabling(svSystem.early)
      /\ Disabling(svSystem.early)' = Disabling(svSystem.early)
  BY <1>1, ScansDecide DEF Enabling, Disabling
<1>3. TransitionDone' /\ TargetScan'
  BY <1>1, <1>2 DEF ServicesInv, TransitionDone, Transitioned, AfterTransaction, TargetScan
<1>4. TargetState' /\ TasksCarriedOut'
  BY <1>1, <1>2 DEF ServicesInv, TargetState, TasksCarriedOut
<1> QED BY <1>1, <1>2, <1>3, <1>4 DEF ServicesInv, ServicePhases, AfterFacts, SourceScan,
       SourceState, EarlyTasks, BeforeTransaction, AfterTransaction

LEMMA ServicesInductive == ServiceSpec => []ServicesInv
<1>1. ServicesInv /\ [ServiceNext]_svVars => ServicesInv'
  BY ServicesBefore, ServicesUpgraded, ServicesScanned, ServicesTransitioned, ServicesRepaired,
     ServicesSet, ServicesEnd DEF ServiceNext
<1> QED BY ServicesStart, <1>1, PTL DEF ServiceSpec

(* What is asked for in the end, and the state a unit is handled from.     *)
LEMMA WhatIsAsked ==
  ASSUME ServicesInv, svAt = "done"
  PROVE  /\ Enabling(svTasks) = AskedFor \cup Wanted("enabled")
         /\ Disabling(svTasks) = AskedAgainst \cup Wanted("disabled")
         /\ \A u \in NewlyEnabled : <<"newly enabled", u>> \in svReports
<1>1. /\ svTasks = (svSystem.early \cup svSystem.late) \cup {TransitionTask}
      /\ \A u \in NewlyEnabled : <<"newly enabled", u>> \in svReports
  BY DEF ServicesInv, TransitionDone, Transitioned, AfterTransaction
<1>2. TransitionTask.enable = Wanted("enabled") /\ TransitionTask.disable = Wanted("disabled")
  BY DEF TransitionTask
<1> HIDE DEF TransitionTask
<1>3. /\ Enabling(svTasks) = AskedFor \cup TransitionTask.enable
      /\ Disabling(svTasks) = AskedAgainst \cup TransitionTask.disable
  BY <1>1 DEF Enabling, Disabling, AskedFor, AskedAgainst
<1> QED BY <1>1, <1>2, <1>3

LEMMA WhatIsHandled ==
  ASSUME ServicesInv, svAt = "done", NEW u
  PROVE  /\ u \in HandledServices <=>
              /\ u \in DOMAIN svSystem.target /\ u \in DOMAIN svSystem.source
              /\ u \notin IgnoredServices /\ svSystem.target[u] \in Relevant
              /\ svSystem.source[u] # "masked-runtime"
         /\ \A state : u \in Wanted(state) <=>
              u \in HandledServices /\ DesiredState(u) = state /\ svSystem.target[u] # state
         /\ svScans.source.units = svSystem.source
         /\ u \in NewlyEnabled <=> /\ u \in HandledServices /\ svSystem.source[u] = "disabled"
                                  /\ DesiredState(u) = "enabled"
<1>1. /\ svScans.source.units = svSystem.source
      /\ DOMAIN svScans.target.units = DOMAIN svSystem.target
      /\ \A v \in DOMAIN svSystem.target : svScans.target.units[v] = svSystem.target[v]
  BY DEF ServicesInv, SourceScan, TargetScan, TransitionDone, Transitioned, AfterFacts,
     AfterTransaction
<1>2. u \in HandledServices <=>
        /\ u \in DOMAIN svSystem.target /\ u \in DOMAIN svSystem.source
        /\ u \notin IgnoredServices /\ svSystem.target[u] \in Relevant
        /\ svSystem.source[u] # "masked-runtime"
  BY <1>1 DEF HandledServices
<1>3. ASSUME NEW state
      PROVE  u \in Wanted(state) <=>
               u \in HandledServices /\ DesiredState(u) = state /\ svSystem.target[u] # state
  BY <1>1, <1>2 DEF Wanted
<1>4. u \in NewlyEnabled <=> /\ u \in HandledServices /\ svSystem.source[u] = "disabled"
                            /\ DesiredState(u) = "enabled"
  BY <1>1 DEF NewlyEnabled
<1> QED BY <1>1, <1>2, <1>3, <1>4

LEMMA ServicesFollow == ServicesInv => ServicesFollowTheUser
<1> SUFFICES ASSUME ServicesInv PROVE ServicesFollowTheUser
  OBVIOUS
<1>1. ASSUME svAt = "done", NEW u \in DOMAIN svState \ svSystem.failing
      PROVE  /\ u \in DOMAIN svSystem.target
             /\ u \in Disabling(svTasks) =>
                  svState[u] = IF svSystem.target[u] = "enabled" THEN "disabled"
                               ELSE svSystem.target[u]
             /\ u \notin Disabling(svTasks) =>
                  svState[u] = IF u \in Enabling(svTasks) /\ svSystem.target[u] \in Relevant
                               THEN "enabled" ELSE svSystem.target[u]
  BY <1>1 DEF ServicesInv, TasksCarriedOut
<1>2. EnabledStayEnabled
  <2> SUFFICES ASSUME svAt = "done",
                      NEW u \in DOMAIN svState
                        \ (IgnoredServices \cup svSystem.failing \cup AskedAgainst),
                      u \in DOMAIN svSystem.source, svSystem.source[u] = "enabled",
                      svSystem.target[u] \in Relevant
               PROVE  svState[u] = "enabled"
    BY DEF EnabledStayEnabled
  <2>1. u \in HandledServices
    BY <1>1, WhatIsHandled
  <2>2. DesiredState(u) = "enabled"
    BY WhatIsHandled DEF DesiredState
  <2>3. u \notin Disabling(svTasks)
    BY <2>2, WhatIsHandled, WhatIsAsked
  <2>4. svSystem.target[u] # "enabled" => u \in Enabling(svTasks)
    BY <2>1, <2>2, WhatIsHandled, WhatIsAsked
  <2> QED BY <1>1, <2>3, <2>4
<1>3. DisabledByHandStays
  <2> SUFFICES ASSUME svAt = "done",
                      NEW u \in DOMAIN svState
                        \ (IgnoredServices \cup svSystem.failing \cup AskedFor),
                      u \in DOMAIN svSystem.source, svSystem.source[u] = "disabled",
                      PresetOf(u, svScans.source.presets) = "enable",
                      svSystem.target[u] \in Relevant
               PROVE  svState[u] # "enabled"
    BY DEF DisabledByHandStays
  <2>1. u \in HandledServices
    BY <1>1, WhatIsHandled
  <2>2. DesiredState(u) = "disabled"
    BY WhatIsHandled DEF DesiredState
  <2>3. u \notin Enabling(svTasks)
    BY <2>2, WhatIsHandled, WhatIsAsked
  <2>4. svSystem.target[u] = "enabled" => u \in Disabling(svTasks)
    BY <2>1, <2>2, WhatIsHandled, WhatIsAsked
  <2> QED BY <1>1, <2>3, <2>4
<1>4. NewlyEnabledAreReported
  <2> SUFFICES ASSUME svAt = "done",
                      NEW u \in DOMAIN svState
                        \ (IgnoredServices \cup svSystem.failing \cup AskedFor),
                      u \in DOMAIN svSystem.source, svSystem.source[u] = "disabled",
                      svState[u] = "enabled"
               PROVE  <<"newly enabled", u>> \in svReports
    BY DEF NewlyEnabledAreReported
  <2>1. /\ u \notin Disabling(svTasks)
        /\ svSystem.target[u] = "enabled" \/ u \in Enabling(svTasks)
    BY <1>1
  <2>2. svSystem.target[u] = "enabled" => u \in HandledServices
    BY <1>1, WhatIsHandled DEF Relevant
  <2>3. svSystem.target[u] # "enabled" => u \in Wanted("enabled")
    BY <2>1, WhatIsAsked
  <2>4. u \in HandledServices
    BY <2>2, <2>3, WhatIsHandled
  <2>5. DesiredState(u) \in {"enabled", "disabled"}
    BY WhatIsHandled DEF DesiredState, DesiredOfTarget
  <2>6. DesiredState(u) = "enabled"
    <3>1. CASE svSystem.target[u] = "enabled"
      <4>1. u \notin Wanted("disabled")
        BY <2>1, WhatIsAsked
      <4> QED BY <2>4, <2>5, <3>1, <4>1, WhatIsHandled
    <3>2. CASE svSystem.target[u] # "enabled"
      BY <2>3, <3>2, WhatIsHandled
    <3> QED BY <3>1, <3>2
  <2> QED BY <2>4, <2>6, WhatIsHandled, WhatIsAsked
<1>5. ConflictsEndDisabled
  <2>1. ASSUME svAt \notin {"facts", "checks", "tasks", "stopped", "inhibited"}
        PROVE  Enabling(svSystem.early) \cap Disabling(svSystem.early) = {}
    BY <2>1 DEF ServicesInv, ServicePhases, EarlyTasks, AfterFacts, AfterTransaction
  <2>2. ASSUME svAt = "done", NEW u \in DOMAIN svState \cap (AskedFor \cap AskedAgainst),
               u \notin svSystem.failing
        PROVE  svState[u] # "enabled"
    <3>1. u \in Disabling(svTasks)
      BY <2>2, WhatIsAsked
    <3> QED BY <1>1, <2>2, <3>1
  <2> QED BY <2>1, <2>2 DEF ConflictsEndDisabled
<1> QED BY <1>2, <1>3, <1>4, <1>5 DEF ServicesFollowTheUser

(* When the upgrade is done each service is in the state the administrator *)
(* had chosen, the presets give or an actor asked for, in this order of    *)
(* strength, or a report says otherwise: for any units, presets, tasks,    *)
(* symlinks and failures of systemctl (transitionsystemdservicesstates,    *)
(* setsystemdservicesstates).                                              *)
THEOREM ServicesAreTheUsers == ServiceSpec => []ServicesFollowTheUser
BY ServicesInductive, ServicesFollow, PTL

(* The repair of symlinks touches only units that have one the upgrade     *)
(* broke, and leaves none of those behind for a unit that is not enabled   *)
(* or was enabled before (repairsystemdsymlinks).                          *)
THEOREM RepairIsSparing == ServiceSpec => OnlyNewlyBrokenAreRepaired
<1> DEFINE touched == svLinks \ svLinks'
           known == "links" \in svScans.has
           units == UnitsOf(svSystem.brokenByUpgrade)
           broken == IF known THEN UnitsOf(NewlyBroken) ELSE {}
           off == {u \in broken : ~IsUnitEnabled(u)}
           again == {u \in broken \cup InstallationChanged :
                       EnabledOnSource(u) /\ IsUnitEnabled(u)}
<1>1. ASSUME ServicesInv, RepairSystemdSymlinks
      PROVE  /\ \A link \in touched : known /\ link[2] \in units
             /\ \A link \in svLinks' \cap svSystem.brokenByUpgrade :
                  \/ ~known \/ link[2] \in svSystem.failing
                  \/ IsUnitEnabled(link[2]) /\ ~EnabledOnSource(link[2])
  <2>1. /\ svAt = "applications" /\ DOMAIN svScans # {"source"}
        /\ svLinks' = LinksAfterDisable(svLinks, off \cup again)
    BY <1>1 DEF RepairSystemdSymlinks, TargetScanned
  <2>2. /\ svSystem \in ServiceSystems
        /\ svScans.source.links = svSystem.brokenBefore
        /\ svScans.target.links = svSystem.brokenBefore \cup svSystem.brokenByUpgrade
    BY <1>1, <2>1 DEF ServicesInv, SourceScan, TargetScan, AfterFacts, AfterTransaction
  <2>3. NewlyBroken = svSystem.brokenByUpgrade
    BY <2>2, ServiceAssumption DEF IsServiceSystem, NewlyBroken
  <2>4. broken = IF known THEN units ELSE {}
    BY <2>3
  <2> HIDE DEF broken, known, units
  <2>5. off \cup again \subseteq broken
    BY DEF InstallationChanged
  <2>6. ASSUME NEW link \in touched PROVE known /\ link[2] \in units
    <3>1. link[2] \in off \cup again
      BY <2>1, <2>6 DEF LinksAfterDisable
    <3> QED BY <2>4, <2>5, <3>1
  <2>7. ASSUME NEW link \in svLinks' \cap svSystem.brokenByUpgrade, known,
               link[2] \notin svSystem.failing
        PROVE  IsUnitEnabled(link[2]) /\ ~EnabledOnSource(link[2])
    <3>1. link[2] \notin off /\ link[2] \notin again
      BY <2>1, <2>7 DEF LinksAfterDisable
    <3>2. link[2] \in broken
      BY <2>4, <2>7 DEF units, UnitsOf
    <3> QED BY <3>1, <3>2
  <2> QED BY <2>6, <2>7
<1>2. ServicesInv /\ [ServiceNext]_svVars =>
        [RepairSystemdSymlinks =>
           /\ \A link \in touched : known /\ link[2] \in units
           /\ \A link \in svLinks' \cap svSystem.brokenByUpgrade :
                \/ ~known \/ link[2] \in svSystem.failing
                \/ IsUnitEnabled(link[2]) /\ ~EnabledOnSource(link[2])]_svVars
  BY <1>1
<1> QED BY ServicesInductive, <1>2, PTL DEF ServiceSpec, OnlyNewlyBrokenAreRepaired

-----------------------------------------------------------------------------
(* Numbers.                                                                *)

LEMMA LeastNumber ==
  ASSUME NEW T, T \subseteq Nat, T # {}
  PROVE  \E x \in T : \A y \in T : x <= y
<1> DEFINE R == OpToRel(<, Nat)
<1>1. IsWellFoundedOn(R, Nat)
  BY NatLessThanWellFounded
<1>2. ASSUME NEW x \in Nat, NEW y \in Nat, ~(<<y, x>> \in R)
      PROVE  x <= y
  <2>1. ~(y < x)
    BY <1>2 DEF OpToRel
  <2> QED BY <2>1
<1> HIDE DEF R
<1>3. \E x \in T : \A y \in T : ~(<<y, x>> \in R)
  BY <1>1, WFMin
<1> QED BY <1>2, <1>3

LEMMA MaxIs ==
  ASSUME NEW n \in Nat, NEW T, T \subseteq 1 .. n, T # {}
  PROVE  Max(T) \in T /\ \A x \in T : x <= Max(T)
<1>1. {n - x : x \in T} \subseteq Nat /\ {n - x : x \in T} # {}
  <2>1. ASSUME NEW x \in T PROVE n - x \in Nat
    <3>1. x \in 1 .. n
      OBVIOUS
    <3> QED BY <3>1
  <2> QED BY <2>1
<1>2. PICK least \in {n - x : x \in T} : \A y \in {n - x : x \in T} : least <= y
  BY <1>1, LeastNumber
<1>3. PICK x \in T : least = n - x
  BY <1>2
<1>4. ASSUME NEW y \in T PROVE x >= y
  <2>1. x \in 1 .. n /\ y \in 1 .. n
    BY <1>3
  <2>2. n - x <= n - y
    BY <1>2, <1>3
  <2> QED BY <2>1, <2>2
<1>5. \E z \in T : \A y \in T : z >= y
  BY <1>3, <1>4
<1>6. Max(T) \in T /\ \A y \in T : Max(T) >= y
  BY <1>5 DEF Max
<1>7. ASSUME NEW y \in T PROVE y <= Max(T)
  <2>1. Max(T) \in 1 .. n /\ y \in 1 .. n /\ Max(T) >= y
    BY <1>6
  <2> QED BY <2>1
<1> QED BY <1>6, <1>7

-----------------------------------------------------------------------------
(* DeviceSupport.                                                          *)

(* What each of the actors of the facts phase finds.                       *)
OfProcessor == {i \in ddData : EntryAt(i).type = "cpu" /\ MatchesCpu(EntryAt(i))}
OfModules == UNION {DriverEntry(m) : m \in ddSystem.modules}
OfDevices ==
    (UNION {FoundFor(d) : d \in ddSystem.devices})
      \cup (UNION {DriverEntry(m) : m \in DriversOfDevices})
FoundBy(actor) ==
    IF actor = "cpu" THEN OfProcessor ELSE IF actor = "drivers" THEN OfModules ELSE OfDevices
Scanners == {"cpu", "drivers", "pci"}
Scanned == {"check", "accepted", "inhibited"}
HasScanned(actor) == ddAt \in Scanned \/ (ddAt = "scan" /\ actor \notin ddTodo)

DeviceTodo ==
    /\ ddAt \in {"load", "scan", "stopped"} \cup Scanned
    /\ ddAt = "scan" => ddTodo \subseteq Scanners
    /\ ddAt = "check" => ddTodo \subseteq {"assets", "devices"}

(* The data, once read, are those of the asset without USB devices.        *)
DataRead ==
    ddAt \in {"scan"} \cup Scanned =>
      /\ Usable /\ ddStreams = StreamsOf
      /\ ddData = {i \in DOMAIN ddSystem.entries : ddSystem.entries[i].type # "usb"}

(* An entry is detected when one of the actors that have run finds it.     *)
DetectedAreFound ==
    /\ ddDetected \in [DOMAIN ddSystem.entries -> Nat]
    /\ \A i \in DOMAIN ddSystem.entries :
         ddDetected[i] > 0 <=> \E actor \in Scanners : HasScanned(actor) /\ i \in FoundBy(actor)

(* The reports are those of the checks that have run.                      *)
ReportsMade ==
    /\ ddAt \in {"load", "scan"} => ddReports = {}
    /\ ddAt = "check" =>
         ddReports = (IF "assets" \in ddTodo THEN {} ELSE AssetReports)
                       \cup (IF "devices" \in ddTodo THEN {} ELSE DeviceReports)
    /\ ddAt \in {"accepted", "inhibited"} => ddReports = AssetReports \cup DeviceReports
    /\ ddAt = "accepted" => \A r \in ddReports : r[1] # "inhibitor"

DevicesInv ==
    /\ ddSystem \in DdSystems
    /\ DeviceTodo /\ DataRead /\ DetectedAreFound /\ ReportsMade

LEMMA SystemIs ==
  ASSUME ddSystem \in DdSystems
  PROVE  /\ Len(ddSystem.entries) \in Nat /\ DOMAIN ddSystem.entries = 1 .. Len(ddSystem.entries)
         /\ \A i \in DOMAIN ddSystem.entries : IsEntry(EntryAt(i))
         /\ IsFiniteSet(ddSystem.devices)
         /\ \A d \in ddSystem.devices : d.id \in Seq(STRING) /\ Len(d.id) \in {2, 4}
         /\ "" \notin ddSystem.modules /\ ddSystem.majors \subseteq Nat
         /\ ddSystem.streams \in StreamFields
<1>1. IsDeviceSystem(ddSystem)
  BY DeviceAssumption
<1>2. ddSystem.entries \in Seq(ToSet(ddSystem.entries))
  BY <1>1 DEF IsDeviceSystem
<1>3. Len(ddSystem.entries) \in Nat /\ DOMAIN ddSystem.entries = 1 .. Len(ddSystem.entries)
  BY <1>2
<1>4. \A i \in DOMAIN ddSystem.entries : IsEntry(EntryAt(i))
  BY <1>1 DEF IsDeviceSystem, EntryAt
<1>5. /\ IsFiniteSet(ddSystem.devices)
      /\ \A d \in ddSystem.devices : d.id \in Seq(STRING) /\ Len(d.id) \in {2, 4}
  BY <1>1 DEF IsDeviceSystem
<1>6. /\ "" \notin ddSystem.modules /\ ddSystem.majors \subseteq Nat
      /\ ddSystem.streams \in StreamFields
  BY <1>1 DEF IsDeviceSystem
<1> QED BY <1>3, <1>4, <1>5, <1>6

LEMMA FoundStays ==
  ASSUME ddSystem' = ddSystem, ddData' = ddData, NEW actor
  PROVE  FoundBy(actor)' = FoundBy(actor)
<1>1. ASSUME NEW e PROVE MatchesCpu(e)' = MatchesCpu(e)
  BY DEF MatchesCpu
<1>2. OfProcessor' = OfProcessor
  BY <1>1 DEF OfProcessor, EntryAt
<1>3. ASSUME NEW m PROVE DriverEntry(m)' = DriverEntry(m)
  BY DEF DriverEntry, EntryAt
<1>4. ASSUME NEW id PROVE DeviceEntry(id)' = DeviceEntry(id)
  BY DEF DeviceEntry, EntryAt
<1>5. ASSUME NEW d PROVE FoundFor(d)' = FoundFor(d)
  BY <1>4 DEF FoundFor
<1>6. DriversOfDevices' = DriversOfDevices
  BY DEF DriversOfDevices
<1>7. OfModules' = OfModules
  BY <1>3 DEF OfModules
<1>8. OfDevices' = OfDevices
  BY <1>3, <1>5, <1>6 DEF OfDevices
<1> QED BY <1>2, <1>7, <1>8 DEF FoundBy

LEMMA DevicesStart == DeviceInit => DevicesInv
<1> SUFFICES ASSUME DeviceInit PROVE DevicesInv
  OBVIOUS
<1>1. /\ ddSystem \in DdSystems /\ ddAt = "load" /\ ddReports = {}
      /\ ddDetected = [i \in DOMAIN ddSystem.entries |-> 0]
  BY DEF DeviceInit
<1>2. DetectedAreFound
  BY <1>1 DEF DetectedAreFound, HasScanned, Scanned
<1> QED BY <1>1, <1>2 DEF DevicesInv, DeviceTodo, DataRead, ReportsMade, Scanned

LEMMA DevicesLoaded ==
  ASSUME DevicesInv, LoadData
  PROVE  DevicesInv'
<1>1. /\ ddAt = "load" /\ UNCHANGED <<ddSystem, ddDetected, ddReports>>
      /\ \/ /\ ddAt' = "scan" /\ ddTodo' = Scanners /\ Usable /\ ddStreams' = StreamsOf
            /\ ddData' = {i \in DOMAIN ddSystem.entries : ddSystem.entries[i].type # "usb"}
         \/ ddAt' = "stopped"
  BY DEF LoadData, Scanners
<1>2. /\ ddSystem \in DdSystems /\ ddReports = {}
      /\ ddDetected \in [DOMAIN ddSystem.entries -> Nat]
      /\ \A i \in DOMAIN ddSystem.entries : ~(ddDetected[i] > 0)
  BY <1>1 DEF DevicesInv, ReportsMade, DetectedAreFound, HasScanned, Scanned
<1>3. DetectedAreFound'
  <2>1. ASSUME NEW actor \in Scanners PROVE ~HasScanned(actor)'
    BY <1>1 DEF HasScanned, Scanned
  <2> QED BY <1>1, <1>2, <2>1 DEF DetectedAreFound
<1>4. DataRead'
  BY <1>1 DEF DataRead, Scanned, Usable, StreamsOf
<1> QED BY <1>1, <1>2, <1>3, <1>4 DEF DevicesInv, DeviceTodo, ReportsMade, Scanned

(* An actor that counts what it finds.                                     *)
LEMMA DevicesScanned ==
  ASSUME DevicesInv, NEW actor \in Scanners, NEW counts, Reported(actor, counts),
         \A i \in DOMAIN ddSystem.entries :
           counts[i] \in Nat /\ (counts[i] > 0 <=> i \in FoundBy(actor))
  PROVE  DevicesInv'
<1>1. /\ ddAt = "scan" /\ actor \in ddTodo /\ UNCHANGED <<ddSystem, ddData, ddStreams, ddReports>>
      /\ ddDetected' = [i \in DOMAIN ddDetected |-> ddDetected[i] + counts[i]]
      /\ \/ ddTodo = {actor} /\ ddTodo' = {"assets", "devices"} /\ ddAt' = "check"
         \/ ddTodo # {actor} /\ ddTodo' = ddTodo \ {actor} /\ ddAt' = "scan"
  BY DEF Reported
<1>2. /\ ddSystem \in DdSystems /\ ddReports = {} /\ ddTodo \subseteq Scanners
      /\ ddDetected \in [DOMAIN ddSystem.entries -> Nat]
  BY <1>1 DEF DevicesInv, ReportsMade, DetectedAreFound, DeviceTodo
<1>3. ASSUME NEW a \in Scanners
      PROVE  /\ HasScanned(a)' <=> HasScanned(a) \/ a = actor
             /\ FoundBy(a)' = FoundBy(a)
  <2>1. HasScanned(a) <=> a \notin ddTodo
    BY <1>1 DEF HasScanned, Scanned
  <2>2. HasScanned(a)' <=> ddAt' = "check" \/ a \notin ddTodo'
    BY <1>1 DEF HasScanned, Scanned
  <2>3. HasScanned(a)' <=> HasScanned(a) \/ a = actor
    BY <1>1, <2>1, <2>2
  <2> QED BY <1>1, <2>3, FoundStays
<1>4. ASSUME NEW i \in DOMAIN ddSystem.entries
      PROVE  ddDetected'[i] \in Nat /\ (ddDetected'[i] > 0 <=> ddDetected[i] > 0 \/ counts[i] > 0)
  BY <1>1, <1>2
<1>5. DetectedAreFound'
  <2>1. ddDetected' \in [DOMAIN ddSystem.entries -> Nat]
    BY <1>1, <1>2, <1>4
  <2>2. ASSUME NEW i \in DOMAIN ddSystem.entries
        PROVE  ddDetected'[i] > 0 <=>
                 \E a \in Scanners : HasScanned(a)' /\ i \in FoundBy(a)'
    <3>1. ddDetected[i] > 0 <=> \E a \in Scanners : HasScanned(a) /\ i \in FoundBy(a)
      BY DEF DevicesInv, DetectedAreFound
    <3>2. ddDetected'[i] > 0 <=> ddDetected[i] > 0 \/ i \in FoundBy(actor)
      BY <1>4
    <3> QED BY <1>3, <3>1, <3>2
  <2> QED BY <1>1, <2>1, <2>2 DEF DetectedAreFound
<1>6. DataRead'
  BY <1>1 DEF DevicesInv, DataRead, Scanned, Usable, StreamsOf
<1> QED BY <1>1, <1>2, <1>5, <1>6 DEF DevicesInv, DeviceTodo, ReportsMade, Scanned

LEMMA DevicesScanning ==
  ASSUME DevicesInv, ScanCPU \/ DetectKernelDrivers \/ ScanDevices
  PROVE  DevicesInv'
<1>1. /\ ddSystem \in DdSystems /\ DOMAIN ddDetected = DOMAIN ddSystem.entries
      /\ IsFiniteSet(ddSystem.devices)
  BY SystemIs DEF DevicesInv, DetectedAreFound
<1>2. CASE ScanCPU
  <2> DEFINE counts == [i \in DOMAIN ddDetected |->
        IF i \in ddData /\ EntryAt(i).type = "cpu" /\ MatchesCpu(EntryAt(i)) THEN 1 ELSE 0]
  <2>1. Reported("cpu", counts)
    BY <1>2 DEF ScanCPU
  <2>2. ASSUME NEW i \in DOMAIN ddSystem.entries
        PROVE  counts[i] \in Nat /\ (counts[i] > 0 <=> i \in FoundBy("cpu"))
    BY <1>1 DEF FoundBy, OfProcessor
  <2> HIDE DEF counts
  <2> QED BY <2>1, <2>2, DevicesScanned DEF Scanners
<1>3. CASE DetectKernelDrivers
  <2> DEFINE counts == [i \in DOMAIN ddDetected |->
        IF i \in UNION {DriverEntry(m) : m \in ddSystem.modules} THEN 1 ELSE 0]
  <2>1. Reported("drivers", counts)
    BY <1>3 DEF DetectKernelDrivers
  <2>2. ASSUME NEW i \in DOMAIN ddSystem.entries
        PROVE  counts[i] \in Nat /\ (counts[i] > 0 <=> i \in FoundBy("drivers"))
    BY <1>1 DEF FoundBy, OfModules
  <2> HIDE DEF counts
  <2> QED BY <2>1, <2>2, DevicesScanned DEF Scanners
<1>4. CASE ScanDevices
  <2> DEFINE drivers == UNION {DriverEntry(m) : m \in DriversOfDevices}
             count(i) == Cardinality({d \in ddSystem.devices : i \in FoundFor(d)})
             counts == [i \in DOMAIN ddDetected |->
                          count(i) + (IF i \in drivers THEN 1 ELSE 0)]
  <2>1. Reported("pci", counts)
    BY <1>4 DEF ScanDevices
  <2>2. ASSUME NEW i \in DOMAIN ddSystem.entries
        PROVE  counts[i] \in Nat /\ (counts[i] > 0 <=> i \in FoundBy("pci"))
    <3>1. IsFiniteSet({d \in ddSystem.devices : i \in FoundFor(d)})
      BY <1>1, FS_Subset
    <3>2. /\ count(i) \in Nat
          /\ count(i) = 0 <=> {d \in ddSystem.devices : i \in FoundFor(d)} = {}
      BY <3>1, FS_CardinalityType, FS_EmptySet
    <3>3. i \in FoundBy("pci") <=>
            \/ {d \in ddSystem.devices : i \in FoundFor(d)} # {}
            \/ i \in drivers
      <4> DEFINE ofThem == UNION {FoundFor(d) : d \in ddSystem.devices}
      <4>1. i \in ofThem <=> {d \in ddSystem.devices : i \in FoundFor(d)} # {}
        OBVIOUS
      <4>2. FoundBy("pci") = ofThem \cup drivers
        <5>1. FoundBy("pci") = OfDevices
          BY DEF FoundBy
        <5> QED BY <5>1 DEF OfDevices
      <4> HIDE DEF ofThem, drivers
      <4> QED BY <4>1, <4>2
    <3>4. counts[i] = count(i) + (IF i \in drivers THEN 1 ELSE 0)
      BY <1>1
    <3> HIDE DEF counts, count, drivers
    <3>5. counts[i] \in Nat /\ (counts[i] > 0 <=> ~(count(i) = 0) \/ i \in drivers)
      BY <3>2, <3>4
    <3> QED BY <3>2, <3>3, <3>5
  <2> HIDE DEF counts
  <2> QED BY <2>1, <2>2, DevicesScanned DEF Scanners
<1> QED BY <1>2, <1>3, <1>4

LEMMA ReportsStay ==
  ASSUME UNCHANGED <<ddSystem, ddStreams, ddDetected>>
  PROVE  AssetReports' = AssetReports /\ DeviceReports' = DeviceReports
<1>1. AssetClass' = AssetClass
  BY DEF AssetClass, IsForThis, Newest
<1>2. DeviceReports' = DeviceReports
  BY DEF DeviceReports, NotAvailable, NotMaintained, EntryAt
<1> QED BY <1>1, <1>2 DEF AssetReports

LEMMA DevicesChecked ==
  ASSUME DevicesInv, CheckConsumedAssets \/ CheckDetectedDevices
  PROVE  DevicesInv'
<1>1. /\ ddAt = "check" /\ UNCHANGED <<ddSystem, ddData, ddStreams, ddDetected>>
      /\ \E actor \in {"assets", "devices"} :
           /\ actor \in ddTodo /\ ddTodo' = ddTodo \ {actor}
           /\ ddReports' = ddReports \cup (IF actor = "assets" THEN AssetReports ELSE DeviceReports)
           /\ \/ ddTodo # {actor} /\ ddAt' = "check"
              \/ /\ ddTodo = {actor}
                 /\ ddAt' = IF \E r \in ddReports' : r[1] = "inhibitor" THEN "inhibited"
                            ELSE "accepted"
  BY DEF CheckConsumedAssets, CheckDetectedDevices, Check
<1>2. /\ ddSystem \in DdSystems /\ ddTodo \subseteq {"assets", "devices"}
      /\ ddReports = (IF "assets" \in ddTodo THEN {} ELSE AssetReports)
                       \cup (IF "devices" \in ddTodo THEN {} ELSE DeviceReports)
  BY <1>1 DEF DevicesInv, DeviceTodo, ReportsMade, Scanned
<1>3. AssetReports' = AssetReports /\ DeviceReports' = DeviceReports
  BY <1>1, ReportsStay
<1>4. ReportsMade'
  <2>1. PICK actor \in {"assets", "devices"} :
           /\ actor \in ddTodo /\ ddTodo' = ddTodo \ {actor}
           /\ ddReports' = ddReports \cup (IF actor = "assets" THEN AssetReports ELSE DeviceReports)
           /\ \/ ddTodo # {actor} /\ ddAt' = "check"
              \/ /\ ddTodo = {actor}
                 /\ ddAt' = IF \E r \in ddReports' : r[1] = "inhibitor" THEN "inhibited"
                            ELSE "accepted"
    BY <1>1
  <2>2. ddReports' = (IF "assets" \in ddTodo' THEN {} ELSE AssetReports)
                       \cup (IF "devices" \in ddTodo' THEN {} ELSE DeviceReports)
    BY <1>2, <2>1
  <2>3. CASE ddAt' = "check"
    BY <1>3, <2>2, <2>3 DEF ReportsMade
  <2>4. CASE ddTodo = {actor}
    <3>1. ddReports' = AssetReports \cup DeviceReports
      BY <2>1, <2>2, <2>4
    <3>2. ddAt' = IF \E r \in ddReports' : r[1] = "inhibitor" THEN "inhibited" ELSE "accepted"
      BY <2>1, <2>4
    <3>3. /\ ddAt' = "accepted" => \A r \in ddReports' : r[1] # "inhibitor"
          /\ ddAt' \in {"accepted", "inhibited"}
      BY <3>2
    <3> QED BY <1>3, <3>1, <3>3 DEF ReportsMade
  <2> QED BY <2>1, <2>3, <2>4
<1>5. DetectedAreFound'
  <2>1. ddAt' \in Scanned
    BY <1>1 DEF Scanned
  <2>2. ASSUME NEW a \in Scanners
        PROVE  HasScanned(a)' /\ HasScanned(a) /\ FoundBy(a)' = FoundBy(a)
    BY <1>1, <2>1, FoundStays DEF HasScanned, Scanned
  <2> QED BY <1>1, <2>2 DEF DevicesInv, DetectedAreFound
<1>6. DataRead'
  BY <1>1 DEF DevicesInv, DataRead, Scanned, Usable, StreamsOf
<1>7. DeviceTodo'
  BY <1>1, <1>2 DEF DeviceTodo, Scanned
<1> QED BY <1>1, <1>2, <1>4, <1>5, <1>6, <1>7 DEF DevicesInv

LEMMA DevicesUnchanged ==
  ASSUME DevicesInv, UNCHANGED ddVars
  PROVE  DevicesInv'
<1>1. UNCHANGED <<ddSystem, ddAt, ddTodo, ddData, ddStreams, ddDetected, ddReports>>
  BY DEF ddVars
<1>2. AssetReports' = AssetReports /\ DeviceReports' = DeviceReports
  BY <1>1, ReportsStay
<1>3. ASSUME NEW a PROVE (HasScanned(a)' <=> HasScanned(a)) /\ FoundBy(a)' = FoundBy(a)
  BY <1>1, FoundStays DEF HasScanned
<1>4. DetectedAreFound'
  BY <1>1, <1>3 DEF DevicesInv, DetectedAreFound
<1>5. DataRead'
  BY <1>1 DEF DevicesInv, DataRead, Usable, StreamsOf
<1> QED BY <1>1, <1>2, <1>4, <1>5 DEF DevicesInv, DeviceTodo, ReportsMade

LEMMA DevicesInductive == DeviceSpec => []DevicesInv
<1>1. DevicesInv /\ [DeviceNext]_ddVars => DevicesInv'
  BY DevicesLoaded, DevicesScanning, DevicesChecked, DevicesUnchanged DEF DeviceNext
<1> QED BY DevicesStart, <1>1, PTL DEF DeviceSpec

-----------------------------------------------------------------------------
(* The entries that decide.                                                *)

(* Of the entries found for an id or a driver the last one counts.         *)
LEMMA LastIs ==
  ASSUME NEW n \in Nat, NEW found, found \subseteq 1 .. n, NEW i
  PROVE  i \in LastOf(found) <=> i \in found /\ \A j \in found : ~(j > i)
<1>1. CASE found = {}
  BY <1>1 DEF LastOf
<1>2. CASE found # {}
  <2>1. Max(found) \in found /\ \A j \in found : j <= Max(found)
    BY <1>2, MaxIs
  <2>2. LastOf(found) = {Max(found)}
    BY <1>2 DEF LastOf
  <2>3. ASSUME i = Max(found) PROVE i \in found /\ \A j \in found : ~(j > i)
    <3>1. ASSUME NEW j \in found PROVE ~(j > i)
      <4>1. j \in 1 .. n /\ i \in 1 .. n /\ j <= i
        BY <2>1, <2>3
      <4> QED BY <4>1
    <3> QED BY <2>1, <2>3, <3>1
  <2>4. ASSUME i \in found, \A j \in found : ~(j > i) PROVE i = Max(found)
    <3>1. /\ i \in 1 .. n /\ Max(found) \in 1 .. n /\ ~(Max(found) > i)
          /\ i <= Max(found)
      BY <2>1, <2>4
    <3> QED BY <3>1
  <2> QED BY <2>2, <2>3, <2>4
<1> QED BY <1>1, <1>2

LEMMA DriverEntryIs ==
  ASSUME DevicesInv, ddAt \in Scanned, NEW i, NEW m
  PROVE  i \in DriverEntry(m) <=>
           /\ i \in ddData /\ EntryAt(i).id = <<>> /\ EntryAt(i).driver = m
           /\ ~\E j \in ddData : j > i /\ EntryAt(j).id = <<>> /\ EntryAt(j).driver = m
<1>1. ddData \subseteq 1 .. Len(ddSystem.entries) /\ Len(ddSystem.entries) \in Nat
  BY SystemIs DEF DevicesInv, DataRead
<1> DEFINE found == {k \in ddData : EntryAt(k).id = <<>> /\ EntryAt(k).driver = m}
<1>2. found \subseteq 1 .. Len(ddSystem.entries)
  BY <1>1
<1>3. i \in LastOf(found) <=> i \in found /\ \A j \in found : ~(j > i)
  <2> HIDE DEF found
  <2> QED BY <1>1, <1>2, LastIs
<1> QED BY <1>3 DEF DriverEntry

LEMMA DeviceEntryIs ==
  ASSUME DevicesInv, ddAt \in Scanned, NEW i, NEW id
  PROVE  i \in DeviceEntry(id) <=>
           /\ i \in ddData /\ EntryAt(i).type = "pci" /\ EntryAt(i).id = id
           /\ ~\E j \in ddData : j > i /\ EntryAt(j).type = "pci" /\ EntryAt(j).id = id
<1>1. ddData \subseteq 1 .. Len(ddSystem.entries) /\ Len(ddSystem.entries) \in Nat
  BY SystemIs DEF DevicesInv, DataRead
<1> DEFINE found == {k \in ddData : EntryAt(k).type = "pci" /\ EntryAt(k).id = id}
<1>2. found \subseteq 1 .. Len(ddSystem.entries)
  BY <1>1
<1>3. i \in LastOf(found) <=> i \in found /\ \A j \in found : ~(j > i)
  <2> HIDE DEF found
  <2> QED BY <1>1, <1>2, LastIs
<1> QED BY <1>3 DEF DeviceEntry

(* There is an entry of an id when there is one in the data.               *)
LEMMA DeviceEntryIsThere ==
  ASSUME DevicesInv, ddAt \in Scanned, NEW id
  PROVE  DeviceEntry(id) = {} <=> ~\E j \in ddData : EntryAt(j).type = "pci" /\ EntryAt(j).id = id
BY DEF DeviceEntry, LastOf

LEMMA NotEmpty ==
  ASSUME NEW s, Len(s) \in {2, 4}
  PROVE  s # <<>>
OBVIOUS

LEMMA NotEqual ==
  ASSUME NEW s, NEW t, Len(s) = 2, Len(t) = 4
  PROVE  s # t
OBVIOUS

(* An id without its subsystem is that of a device with one.               *)
LEMMA ShortIs ==
  ASSUME NEW S, NEW d, NEW id, d.id \in Seq(S), Len(d.id) \in {2, 4},
         id \in Seq(S), Len(id) \in {2, 4}
  PROVE  IsStrictPrefix(id, d.id) <=> ShortId(d) = id
<1>1. CASE Len(d.id) = 2
  <2>1. ShortId(d) = <<>>
    BY <1>1 DEF ShortId
  <2>2. IsStrictPrefix(id, d.id) => FALSE
    <3> SUFFICES ASSUME Len(id) <= Len(d.id), id # d.id,
                        SubSeq(id, 1, Len(id)) = SubSeq(d.id, 1, Len(id))
                 PROVE  FALSE
      BY DEF IsStrictPrefix, IsPrefix
    <3>1. Len(id) = 2
      BY <1>1
    <3>2. SubSeq(id, 1, Len(id)) = id /\ SubSeq(d.id, 1, Len(d.id)) = d.id
      OBVIOUS
    <3> QED BY <1>1, <3>1, <3>2
  <2>3. id # <<>>
    BY NotEmpty
  <2> QED BY <2>1, <2>2, <2>3
<1>2. CASE Len(d.id) = 4
  <2>1. ShortId(d) = SubSeq(d.id, 1, 2) /\ Len(SubSeq(d.id, 1, 2)) = 2
    BY <1>2 DEF ShortId
  <2>2. SubSeq(id, 1, Len(id)) = id /\ SubSeq(d.id, 1, Len(d.id)) = d.id
    OBVIOUS
  <2>3. ASSUME IsStrictPrefix(id, d.id) PROVE ShortId(d) = id
    <3>1. /\ Len(id) <= Len(d.id) /\ id # d.id
          /\ SubSeq(id, 1, Len(id)) = SubSeq(d.id, 1, Len(id))
      BY <2>3 DEF IsStrictPrefix, IsPrefix
    <3>2. Len(id) = 2
      BY <1>2, <2>2, <3>1
    <3> QED BY <2>1, <2>2, <3>1, <3>2
  <2>4. ASSUME ShortId(d) = id PROVE IsStrictPrefix(id, d.id)
    <3>1. Len(id) = 2
      BY <2>1, <2>4
    <3>2. Len(id) = 2 /\ id # d.id
      BY <1>2, <3>1, NotEqual
    <3> QED BY <1>2, <2>1, <2>2, <2>4, <3>2 DEF IsStrictPrefix, IsPrefix
  <2> QED BY <2>3, <2>4
<1> QED BY <1>1, <1>2

(* What is detected is what the data decide about: entries about a part of *)
(* the system that no later entry takes the place of.                      *)
Decides(i) == i \in ddData /\ IsAbout(i) /\ ~Superseded(i)

LEMMA ProcessorsDecide ==
  ASSUME DevicesInv, ddAt \in Scanned, NEW i \in ddData, EntryAt(i).type = "cpu"
  PROVE  Decides(i) <=> i \in OfProcessor
<1>1. IsAbout(i) <=> MatchesCpu(EntryAt(i))
  BY DEF IsAbout
<1>2. ~Superseded(i)
  BY DEF Superseded, Class
<1> QED BY <1>1, <1>2 DEF Decides, OfProcessor

LEMMA EntryIs ==
  ASSUME DevicesInv, ddAt \in Scanned, NEW i \in ddData
  PROVE  /\ EntryAt(i).type \in {"pci", "cpu"} /\ EntryAt(i).id \in Seq(STRING)
         /\ EntryAt(i).type = "pci" => EntryAt(i).id = <<>> \/ Len(EntryAt(i).id) \in {2, 4}
         /\ EntryAt(i).type = "cpu" => EntryAt(i).id # <<>>
         /\ i \in DOMAIN ddSystem.entries
<1>1. i \in DOMAIN ddSystem.entries /\ EntryAt(i).type # "usb"
  BY DEF DevicesInv, DataRead, EntryAt
<1>2. IsEntry(EntryAt(i))
  BY <1>1, SystemIs DEF DevicesInv
<1>3. EntryAt(i).type = "cpu" => EntryAt(i).id # <<>>
  <2>1. EntryAt(i).type = "cpu" => EntryAt(i).id \in Seq(STRING) /\ Len(EntryAt(i).id) = 2
    BY <1>2 DEF IsEntry
  <2> QED BY <2>1, NotEmpty
<1> QED BY <1>1, <1>2, <1>3 DEF IsEntry

LEMMA DriversDecide ==
  ASSUME DevicesInv, ddAt \in Scanned, NEW i \in ddData, EntryAt(i).id = <<>>
  PROVE  Decides(i) <=> i \in OfModules \/ i \in UNION {DriverEntry(m) : m \in DriversOfDevices}
<1> DEFINE used == (ddSystem.modules \cup {d.driver : d \in ddSystem.devices}) \ {""}
<1>1. EntryAt(i).type = "pci"
  BY EntryIs
<1>2. IsAbout(i) <=> EntryAt(i).driver \in used
  BY <1>1 DEF IsAbout
<1>3. ASSUME NEW j \in ddData, EntryAt(j).id = <<>>
      PROVE  Class(EntryAt(j)) = "driver"
  <2>1. EntryAt(j).type = "pci"
    BY <1>3, EntryIs
  <2> QED BY <1>3, <2>1 DEF Class
<1>4. Superseded(i) <=> \E j \in ddData : /\ j > i /\ EntryAt(j).id = <<>>
                                        /\ EntryAt(j).driver = EntryAt(i).driver
  <2>1. Class(EntryAt(i)) = "driver"
    BY <1>3
  <2> QED BY <1>3, <2>1 DEF Superseded
<1>5. used = ddSystem.modules \cup DriversOfDevices
  BY SystemIs DEF DriversOfDevices, ActiveModules, DevicesInv
<1>6. ASSUME NEW m PROVE i \in DriverEntry(m) <=> EntryAt(i).driver = m /\ ~Superseded(i)
  BY <1>4, DriverEntryIs
<1> HIDE DEF used
<1>7. i \in OfModules <=> EntryAt(i).driver \in ddSystem.modules /\ ~Superseded(i)
  BY <1>6 DEF OfModules
<1>8. i \in UNION {DriverEntry(m) : m \in DriversOfDevices} <=>
        EntryAt(i).driver \in DriversOfDevices /\ ~Superseded(i)
  BY <1>6
<1> QED BY <1>2, <1>5, <1>7, <1>8 DEF Decides

LEMMA DevicesDecide ==
  ASSUME DevicesInv, ddAt \in Scanned, NEW i \in ddData, EntryAt(i).type = "pci",
         EntryAt(i).id # <<>>
  PROVE  Decides(i) <=> i \in UNION {FoundFor(d) : d \in ddSystem.devices}
<1> DEFINE id == EntryAt(i).id
           Named(x) == \E j \in ddData : EntryAt(j).type = "pci" /\ EntryAt(j).id = x
<1>1. id \in Seq(STRING) /\ Len(id) \in {2, 4}
  BY EntryIs
<1>2. ASSUME NEW j \in ddData, EntryAt(j).id = id
      PROVE  Class(EntryAt(j)) = Class(EntryAt(i)) <=> EntryAt(j).type = "pci"
  BY <1>2, EntryIs DEF Class
<1>3. Superseded(i) <=> \E j \in ddData : j > i /\ EntryAt(j).type = "pci" /\ EntryAt(j).id = id
  <2>1. Class(EntryAt(i)) = "device"
    BY DEF Class
  <2> QED BY <1>2, <2>1 DEF Superseded
<1>4. ASSUME NEW x PROVE i \in DeviceEntry(x) <=> id = x /\ ~Superseded(i)
  BY <1>3, DeviceEntryIs
<1>5. ASSUME NEW x PROVE DeviceEntry(x) = {} <=> ~Named(x)
  BY DeviceEntryIsThere
<1>6. ASSUME NEW d \in ddSystem.devices, Len(d.id) = 4
      PROVE  Named(d.id) <=> \E j \in ddData : EntryAt(j).id = d.id
  <2>1. ASSUME NEW j \in ddData, EntryAt(j).id = d.id PROVE EntryAt(j).type = "pci"
    <3>1. EntryAt(j).type # "cpu"
      <4>1. j \in DOMAIN ddSystem.entries
        BY EntryIs
      <4>2. IsEntry(EntryAt(j))
        BY <4>1, SystemIs DEF DevicesInv
      <4>3. Len(EntryAt(j).id) = 4
        BY <1>6, <2>1
      <4>4. EntryAt(j).type = "cpu" => Len(EntryAt(j).id) = 2
        BY <4>2 DEF IsEntry
      <4> QED BY <4>3, <4>4
    <3> QED BY <3>1, EntryIs
  <2> QED BY <2>1
<1> HIDE DEF id, Named
<1>7. ASSUME NEW d \in ddSystem.devices
      PROVE  i \in FoundFor(d) <=>
               /\ ~Superseded(i)
               /\ \/ d.id = id
                  \/ IsStrictPrefix(id, d.id) /\ ~\E j \in ddData : EntryAt(j).id = d.id
  <2>1. d.id \in Seq(STRING) /\ Len(d.id) \in {2, 4}
    BY SystemIs DEF DevicesInv
  <2>2. IsStrictPrefix(id, d.id) <=> ShortId(d) = id
    BY <1>1, <2>1, ShortIs
  <2>3. ShortId(d) # <<>> => Len(d.id) = 4
    BY <2>1 DEF ShortId
  <2>4. id # <<>>
    BY DEF id
  <2>5. Named(id)
    BY DEF Named, id
  <2>6. CASE Named(d.id)
    <3>1. FoundFor(d) = DeviceEntry(d.id)
      BY <1>5, <2>6 DEF FoundFor
    <3>2. \E j \in ddData : EntryAt(j).id = d.id
      BY <2>6 DEF Named
    <3> QED BY <1>4, <3>1, <3>2
  <2>7. CASE ~Named(d.id)
    <3>1. FoundFor(d) = IF ShortId(d) = <<>> THEN {} ELSE DeviceEntry(ShortId(d))
      BY <1>5, <2>7 DEF FoundFor
    <3>2. d.id # id
      BY <2>5, <2>7
    <3>3. CASE ShortId(d) = <<>>
      BY <2>2, <2>4, <3>1, <3>2, <3>3
    <3>4. CASE ShortId(d) # <<>>
      <4>1. ~\E j \in ddData : EntryAt(j).id = d.id
        BY <1>6, <2>3, <2>7, <3>4
      <4> QED BY <1>4, <2>2, <3>1, <3>2, <3>4, <4>1
    <3> QED BY <3>3, <3>4
  <2> QED BY <2>6, <2>7
<1>8. IsAbout(i) <=>
        \E d \in ddSystem.devices :
          \/ d.id = id
          \/ IsStrictPrefix(id, d.id) /\ ~\E j \in ddData : EntryAt(j).id = d.id
  BY DEF IsAbout, id
<1> QED BY <1>7, <1>8 DEF Decides

LEMMA DetectedDecide ==
  ASSUME DevicesInv, ddAt \in Scanned, NEW i \in DOMAIN ddSystem.entries
  PROVE  ddDetected[i] > 0 <=> Decides(i)
<1> DEFINE ofThem == UNION {FoundFor(d) : d \in ddSystem.devices}
           drivers == UNION {DriverEntry(m) : m \in DriversOfDevices}
<1>1. ddDetected[i] > 0 <=> i \in OfProcessor \/ i \in OfModules \/ i \in ofThem \/ i \in drivers
  <2>1. \A actor \in Scanners : HasScanned(actor)
    BY DEF HasScanned
  <2>2. ddDetected[i] > 0 <=> \E actor \in Scanners : i \in FoundBy(actor)
    BY <2>1 DEF DevicesInv, DetectedAreFound
  <2>3. OfDevices = ofThem \cup drivers
    BY DEF OfDevices
  <2> HIDE DEF ofThem, drivers
  <2>4. /\ FoundBy("cpu") = OfProcessor /\ FoundBy("drivers") = OfModules
        /\ FoundBy("pci") = OfDevices
    BY DEF FoundBy
  <2> QED BY <2>2, <2>3, <2>4 DEF Scanners
<1>2. ASSUME NEW m, i \in DriverEntry(m)
      PROVE  i \in ddData /\ EntryAt(i).id = <<>>
  BY <1>2, DriverEntryIs
<1>3. ASSUME NEW d \in ddSystem.devices, i \in FoundFor(d)
      PROVE  i \in ddData /\ EntryAt(i).type = "pci" /\ EntryAt(i).id # <<>>
  <2>1. PICK id : i \in DeviceEntry(id) /\ (id = d.id \/ (id = ShortId(d) /\ ShortId(d) # <<>>))
    BY <1>3 DEF FoundFor
  <2>2. i \in ddData /\ EntryAt(i).type = "pci" /\ EntryAt(i).id = id
    BY <2>1, DeviceEntryIs
  <2>3. id # <<>>
    <3>1. Len(d.id) \in {2, 4}
      BY SystemIs DEF DevicesInv
    <3>2. d.id # <<>>
      BY <3>1, NotEmpty
    <3> QED BY <2>1, <3>2
  <2> QED BY <2>2, <2>3
<1>4. i \in ofThem => i \in ddData /\ EntryAt(i).type = "pci" /\ EntryAt(i).id # <<>>
  BY <1>3
<1>5. i \in drivers \/ i \in OfModules => i \in ddData /\ EntryAt(i).id = <<>>
  BY <1>2 DEF OfModules
<1>6. i \in OfProcessor => i \in ddData /\ EntryAt(i).type = "cpu"
  BY DEF OfProcessor
<1>7. Decides(i) => i \in ddData
  BY DEF Decides
<1>8. i \in ddData /\ EntryAt(i).type = "cpu" =>
        EntryAt(i).id # <<>> /\ (Decides(i) <=> i \in OfProcessor)
  BY EntryIs, ProcessorsDecide
<1>9. i \in ddData /\ EntryAt(i).id = <<>> => (Decides(i) <=> i \in OfModules \/ i \in drivers)
  BY DriversDecide
<1>10. i \in ddData /\ EntryAt(i).type = "pci" /\ EntryAt(i).id # <<>> =>
         (Decides(i) <=> i \in ofThem)
  BY DevicesDecide
<1>11. i \in ddData => EntryAt(i).type \in {"pci", "cpu"}
  BY EntryIs
<1> HIDE DEF ofThem, drivers
<1> QED BY <1>1, <1>4, <1>5, <1>6, <1>7, <1>8, <1>9, <1>10, <1>11

-----------------------------------------------------------------------------
(* Both checks have run when the upgrade goes on or is inhibited.          *)
LEMMA WhatIsReported ==
  ASSUME DevicesInv, ddAt \in {"accepted", "inhibited"}, NEW i \in ddData, Decides(i)
  PROVE  /\ NotAvailable(EntryAt(i)) => <<"inhibitor", Class(EntryAt(i))>> \in ddReports
         /\ ~NotAvailable(EntryAt(i)) /\ NotMaintained(EntryAt(i)) =>
              <<"warning", Class(EntryAt(i))>> \in ddReports
<1>1. i \in DOMAIN ddDetected /\ ddDetected[i] > 0
  BY EntryIs, DetectedDecide DEF Scanned, DevicesInv, DetectedAreFound
<1>2. DeviceReports \subseteq ddReports
  BY DEF DevicesInv, ReportsMade
<1>3. EntryAt(i) \in {EntryAt(k) : k \in {j \in DOMAIN ddDetected : ddDetected[j] > 0}}
  BY <1>1
<1>4. /\ NotAvailable(EntryAt(i)) => <<"inhibitor", Class(EntryAt(i))>> \in DeviceReports
      /\ ~NotAvailable(EntryAt(i)) /\ NotMaintained(EntryAt(i)) =>
           <<"warning", Class(EntryAt(i))>> \in DeviceReports
  BY <1>3 DEF DeviceReports
<1> QED BY <1>2, <1>4

LEMMA WhatInhibits ==
  ASSUME DevicesInv, ddAt \in {"accepted", "inhibited"}, NEW class \in {"cpu", "driver", "device"},
         <<"inhibitor", class>> \in ddReports
  PROVE  \E j \in ddData : IsAbout(j) /\ NotAvailable(EntryAt(j))
<1>1. <<"inhibitor", class>> \notin AssetReports
  BY DEF AssetReports, AssetClass
<1>2. <<"inhibitor", class>> \in DeviceReports
  BY <1>1 DEF DevicesInv, ReportsMade
<1>3. PICK j \in DOMAIN ddDetected : ddDetected[j] > 0 /\ NotAvailable(EntryAt(j))
  BY <1>2 DEF DeviceReports
<1>4. Decides(j)
  BY <1>3, DetectedDecide DEF DevicesInv, DetectedAreFound, Scanned
<1> QED BY <1>3, <1>4 DEF Decides

LEMMA DevicesJudged == DevicesInv => HardwareIsJudged
<1> SUFFICES ASSUME DevicesInv PROVE HardwareIsJudged
  OBVIOUS
<1>1. NoHardwareIsLost
  <2> SUFFICES ASSUME ddAt = "accepted", NEW i \in ddData, IsAbout(i), ~Superseded(i)
               PROVE  ddSystem.target \in EntryAt(i).available
    BY DEF NoHardwareIsLost
  <2>1. Decides(i)
    BY DEF Decides
  <2>2. <<"inhibitor", Class(EntryAt(i))>> \notin ddReports
    <3>1. \A r \in ddReports : r[1] # "inhibitor"
      BY DEF DevicesInv, ReportsMade
    <3> QED BY <3>1
  <2> QED BY <2>1, <2>2, WhatIsReported DEF NotAvailable
<1>2. ClosestEntryDecides
  <2>1. ASSUME ddAt \in {"accepted", "inhibited"}, NEW i \in DOMAIN ddDetected, ddDetected[i] > 0
        PROVE  IsAbout(i) /\ ~Superseded(i)
    BY <2>1, DetectedDecide DEF Decides, Scanned, DevicesInv, DetectedAreFound
  <2> QED BY <2>1 DEF ClosestEntryDecides
<1>3. UnmaintainedIsNoInhibitor
  <2> SUFFICES ASSUME ddAt \in {"accepted", "inhibited"}, NEW i \in ddData, IsAbout(i),
                      ~Superseded(i)
               PROVE  /\ ddSystem.target \notin EntryAt(i).available \cap EntryAt(i).maintained
                           => \E r \in ddReports : r[2] = Class(EntryAt(i))
                      /\ (\A j \in ddData :
                            IsAbout(j) => ddSystem.target \in EntryAt(j).available)
                           => <<"inhibitor", Class(EntryAt(i))>> \notin ddReports
    BY DEF UnmaintainedIsNoInhibitor
  <2>1. Decides(i)
    BY DEF Decides
  <2>2. ASSUME ddSystem.target \notin EntryAt(i).available \cap EntryAt(i).maintained
        PROVE  \E r \in ddReports : r[2] = Class(EntryAt(i))
    <3>1. NotAvailable(EntryAt(i)) \/ (~NotAvailable(EntryAt(i)) /\ NotMaintained(EntryAt(i)))
      BY <2>2 DEF NotAvailable, NotMaintained
    <3> QED BY <2>1, <3>1, WhatIsReported
  <2>3. Class(EntryAt(i)) \in {"cpu", "driver", "device"}
    BY DEF Class
  <2>4. ASSUME <<"inhibitor", Class(EntryAt(i))>> \in ddReports
        PROVE  \E j \in ddData : IsAbout(j) /\ ddSystem.target \notin EntryAt(j).available
    BY <2>3, <2>4, WhatInhibits DEF NotAvailable
  <2> QED BY <2>2, <2>4
<1>4. DataAreForThisLeapp
  <2> SUFFICES ASSUME ddAt = "accepted" PROVE DataAreForThisLeapp
    BY DEF DataAreForThisLeapp
  <2>1. /\ Usable /\ ddStreams = StreamsOf /\ ddSystem \in DdSystems
        /\ ddData = {i \in DOMAIN ddSystem.entries : ddSystem.entries[i].type # "usb"}
    BY DEF DevicesInv, DataRead, Scanned
  <2>2. AssetClass = "right"
    <3>1. \A r \in AssetReports : r[1] # "inhibitor"
      BY DEF DevicesInv, ReportsMade
    <3> QED BY <3>1 DEF AssetReports
  <2>3. /\ ddStreams.field \notin {"absent", "wrong list"} /\ ddStreams.majors # {}
        /\ IsForThis
    BY <2>2 DEF AssetClass
  <2>4. ddSystem.streams \in StreamFields /\ ddSystem.streams # "zero"
    BY <2>1, SystemIs DEF Usable
  <2>5. ddSystem.streams # "value"
    BY <2>1, <2>3 DEF StreamsOf
  <2>6. ddStreams.field = ddSystem.streams /\ ddStreams.majors = ddSystem.majors
    BY <2>1, <2>5 DEF StreamsOf
  <2> QED BY <2>1, <2>3, <2>4, <2>5, <2>6 DEF DataAreForThisLeapp, StreamFields, IsForThis
<1> QED BY <1>1, <1>2, <1>3, <1>4 DEF HardwareIsJudged

(* Devices, drivers and processors are judged by the entry of the data     *)
(* that fits them best, in data made for this leapp, and none the target   *)
(* does not support passes unnoticed: for any data, any system and any     *)
(* order of the scanners and checks (scan_cpu, detect_kernel_drivers,      *)
(* pci_devices_scanner, checkdddd, check_consumed_assets).                 *)
THEOREM AllHardwareIsJudged == DeviceSpec => []HardwareIsJudged
BY DevicesInductive, DevicesJudged, PTL

-----------------------------------------------------------------------------
(* PackageKeys.                                                            *)

(* The scripts that are registered: the removal of the keys that were      *)
(* found, if there were any, and then the import.                          *)
FoundObsolete == (VendorKeysToRemove \cup RhuiKeysToRemove) \cap pkSystem.installed
Removal == [script |-> "remove", keys |-> FoundObsolete]
Import == [script |-> "import", keys |-> TrustedCerts]
Registered == IF FoundObsolete = {} THEN <<>> ELSE <<Removal>>
Planned == IF pkSystem.nogpgcheck THEN Registered ELSE Append(Registered, Import)

BeforeTheReboot == {"facts", "stopped", "inhibited", "reboot"}

ScansMade ==
    /\ pkAt \notin {"facts", "stopped"} => pkTodo = {}
    /\ "trusted" \notin pkTodo =>
         pkTrusted = Fingerprints(pkSystem.installed \cup TrustedCerts)

ScriptsRegistered ==
    /\ pkAt = "facts" => pkWorkarounds = IF "obsolete" \in pkTodo THEN <<>> ELSE Registered
    /\ pkAt = "reboot" => pkWorkarounds = Planned

(* Keys are those of the source until the reboot; a key in the form of the *)
(* source was installed then.                                              *)
SourceKeys == pkAt \in BeforeTheReboot => pkDb = pkSystem.installed \X {"old"}
OldKeys == \A entry \in pkDb : entry[2] = "old" => entry[1] \in pkSystem.installed

(* In the preparation what is left to run and what has been done together  *)
(* make the plan.                                                          *)
IsRemoved == \A entry \in pkDb : entry[2] = "old" => entry[1] \notin FoundObsolete
IsImported == ~pkSystem.nogpgcheck => TrustedCerts \subseteq InstalledKeys
ScriptsApplied ==
    /\ pkAt = "preparation" =>
         \/ pkLeft = <<Removal, Import>> /\ ~pkSystem.nogpgcheck
         \/ pkLeft = <<Removal>> /\ pkSystem.nogpgcheck
         \/ pkLeft = <<Import>> /\ ~pkSystem.nogpgcheck /\ IsRemoved
         \/ pkLeft = <<>> /\ IsRemoved /\ IsImported
    /\ pkAt = "transaction" => IsRemoved /\ IsImported

FilesChecked ==
    pkAt \in {"reboot", "preparation", "transaction"} /\ ~pkSystem.nogpgcheck => MissingKeys = {}

KeysReported ==
    pkAt = "done" /\ ~pkSystem.nogpgcheck =>
      \A f \in UnexpectedKeys : <<"unexpected", f>> \in pkReports

KeysInv ==
    /\ ScansMade /\ ScriptsRegistered /\ SourceKeys /\ OldKeys /\ ScriptsApplied
    /\ FilesChecked /\ KeysReported

-----------------------------------------------------------------------------
(* Sequences of at most two elements.                                      *)
LEMMA OfTwo ==
  ASSUME NEW x, NEW y
  PROVE  /\ Append(<<>>, x) = <<x>> /\ Append(<<x>>, y) = <<x, y>>
         /\ Head(<<x>>) = x /\ Tail(<<x>>) = <<>> /\ <<x>> # <<>>
         /\ Head(<<x, y>>) = x /\ Tail(<<x, y>>) = <<y>> /\ <<x, y>> # <<>>
<1>1. <<x>> \in Seq({x, y}) /\ <<>> \in Seq({x, y}) /\ <<x, y>> \in Seq({x, y})
  OBVIOUS
<1>2. Append(<<>>, x) = <<x>>
  OBVIOUS
<1>3. Append(<<x>>, y) = <<x, y>>
  <2> DEFINE s == Append(<<x>>, y)
  <2>1. s \in Seq({x, y}) /\ Len(s) = 2 /\ s[1] = x /\ s[2] = y
    BY <1>1
  <2>2. ASSUME NEW t \in Seq({x, y}), Len(t) = 2, t[1] = x, t[2] = y PROVE t = <<x, y>>
    BY <2>2
  <2> QED BY <2>1, <2>2
<1>4. Tail(<<x>>) = <<>>
  OBVIOUS
<1>5. Tail(<<x, y>>) = <<y>>
  OBVIOUS
<1>6. Head(<<x>>) = x /\ Head(<<x, y>>) = x
  OBVIOUS
<1>7. <<x>> # <<>>
  OBVIOUS
<1>8. <<x, y>> # <<>>
  OBVIOUS
<1> QED BY <1>2, <1>3, <1>4, <1>5, <1>6, <1>7, <1>8

(* What is derived from the system stays.                                  *)
LEMMA KeySystemDecides ==
  ASSUME pkSystem' = pkSystem
  PROVE  /\ TrustedCerts' = TrustedCerts /\ FoundObsolete' = FoundObsolete
         /\ Removal' = Removal /\ Import' = Import
         /\ Registered' = Registered /\ Planned' = Planned
         /\ KeyFiles' = KeyFiles /\ InvalidFiles' = InvalidFiles
<1>1. TrustedCerts' = TrustedCerts
  BY DEF TrustedCerts
<1>2. VendorKeysToRemove' = VendorKeysToRemove
  BY DEF VendorKeysToRemove, Converts, ObsoletedUpTo
<1>3. FoundObsolete' = FoundObsolete
  BY <1>2 DEF FoundObsolete, RhuiKeysToRemove
<1>4. KeyUrls' = KeyUrls
  BY DEF KeyUrls, CheckedRepos
<1>5. KeyFiles' = KeyFiles
  BY <1>4 DEF KeyFiles, NotDownloaded, UnknownProtocol
<1>6. Removal' = Removal /\ Import' = Import
  BY <1>1, <1>3 DEF Removal, Import
<1>7. Registered' = Registered
  BY <1>3, <1>6 DEF Registered
<1> QED BY <1>1, <1>3, <1>5, <1>6, <1>7 DEF Planned, InvalidFiles, NotReachable

LEMMA KeysStart == KeyInit => KeysInv
<1> SUFFICES ASSUME KeyInit PROVE KeysInv
  OBVIOUS
<1>1. /\ pkAt = "facts" /\ pkTodo = {"trusted", "obsolete"} /\ pkWorkarounds = <<>>
      /\ pkDb = pkSystem.installed \X {"old"}
  BY DEF KeyInit
<1> QED BY <1>1 DEF KeysInv, ScansMade, ScriptsRegistered, SourceKeys, OldKeys, ScriptsApplied,
       FilesChecked, KeysReported

(* The Facts phase.                                                        *)
LEMMA KeysFound == KeysInv /\ pkAt = "facts" => InstalledKeys = pkSystem.installed
<1> SUFFICES ASSUME KeysInv, pkAt = "facts" PROVE InstalledKeys = pkSystem.installed
  OBVIOUS
<1>1. pkDb = pkSystem.installed \X {"old"}
  BY DEF KeysInv, SourceKeys, OldKeys, BeforeTheReboot
<1>2. ASSUME NEW key \in pkSystem.installed PROVE key \in InstalledKeys
  <2>1. <<key, "old">> \in pkDb /\ <<key, "old">>[1] = key
    BY <1>1
  <2> QED BY <2>1 DEF InstalledKeys
<1> QED BY <1>1, <1>2 DEF InstalledKeys

LEMMA KeysScanned ==
  ASSUME KeysInv, ScanTrustedKeys \/ RemoveObsoleteKeys
  PROVE  KeysInv'
<1>1. CASE ScanTrustedKeys
  <2>1. /\ pkAt = "facts" /\ pkAt' = "facts" /\ pkTodo' = pkTodo \ {"trusted"}
        /\ pkTrusted' = Fingerprints(InstalledKeys \cup TrustedCerts)
        /\ pkSystem' = pkSystem /\ pkDb' = pkDb /\ pkWorkarounds' = pkWorkarounds
    BY <1>1 DEF ScanTrustedKeys
  <2>2. pkTrusted' = Fingerprints(pkSystem.installed \cup TrustedCerts)
    BY <2>1, KeysFound
  <2>3. ScansMade'
    BY <2>1, <2>2, KeySystemDecides DEF ScansMade
  <2>4. ScriptsRegistered' /\ SourceKeys' /\ OldKeys'
    BY <2>1, KeySystemDecides DEF KeysInv, ScriptsRegistered, SourceKeys, OldKeys
  <2> QED BY <2>1, <2>3, <2>4 DEF KeysInv, ScriptsApplied, FilesChecked, KeysReported
<1>2. CASE RemoveObsoleteKeys
  <2>1. /\ pkAt = "facts" /\ "obsolete" \in pkTodo
        /\ pkSystem' = pkSystem /\ pkDb' = pkDb /\ pkTrusted' = pkTrusted
        /\ \/ pkAt' = "stopped" /\ pkTodo' = pkTodo /\ pkWorkarounds' = pkWorkarounds
           \/ /\ pkAt' = "facts" /\ pkTodo' = pkTodo \ {"obsolete"}
              /\ pkWorkarounds' = IF KeysToRemove = {} THEN pkWorkarounds
                                  ELSE Append(pkWorkarounds, [script |-> "remove", keys |-> KeysToRemove])
    BY <1>2 DEF RemoveObsoleteKeys
  <2>2. KeysToRemove = FoundObsolete
    BY <2>1, KeysFound DEF KeysToRemove, FoundObsolete
  <2>3. pkWorkarounds = <<>>
    BY <2>1 DEF KeysInv, ScriptsRegistered
  <2>4. pkAt' = "facts" => pkWorkarounds' = Registered
    BY <2>1, <2>2, <2>3, OfTwo DEF Registered, Removal
  <2>5. ScansMade'
    BY <2>1, KeySystemDecides DEF KeysInv, ScansMade
  <2>6. ScriptsRegistered'
    BY <2>1, <2>4, KeySystemDecides DEF ScriptsRegistered
  <2>7. SourceKeys' /\ OldKeys'
    BY <2>1 DEF KeysInv, SourceKeys, OldKeys, BeforeTheReboot
  <2> QED BY <2>1, <2>5, <2>6, <2>7 DEF KeysInv, ScriptsApplied, FilesChecked, KeysReported
<1> QED BY <1>1, <1>2

(* The check of the repositories, and the reboot.                          *)
LEMMA KeysChecked ==
  ASSUME KeysInv, CheckMissingKeys
  PROVE  KeysInv'
<1>1. /\ pkAt = "facts" /\ pkTodo = {} /\ pkTodo' = pkTodo
      /\ pkSystem' = pkSystem /\ pkDb' = pkDb /\ pkTrusted' = pkTrusted
      /\ pkAt' \in {"reboot", "inhibited"}
      /\ pkSystem.nogpgcheck => pkAt' = "reboot" /\ pkWorkarounds' = pkWorkarounds
      /\ ~pkSystem.nogpgcheck =>
           /\ pkAt' = "reboot" => MissingKeys = {}
           /\ pkWorkarounds' = Append(pkWorkarounds, Import)
  BY DEF CheckMissingKeys, RegisterImport, ImportLast, Import
<1>2. pkWorkarounds = Registered
  BY <1>1 DEF KeysInv, ScriptsRegistered
<1>3. ScriptsRegistered'
  BY <1>1, <1>2, KeySystemDecides DEF ScriptsRegistered, Planned
<1>4. ScansMade'
  BY <1>1, KeySystemDecides DEF KeysInv, ScansMade
<1>5. SourceKeys' /\ OldKeys'
  BY <1>1 DEF KeysInv, SourceKeys, OldKeys, BeforeTheReboot
<1>6. MissingKeys' = MissingKeys
  BY <1>1, KeySystemDecides DEF MissingKeys
<1> QED BY <1>1, <1>3, <1>4, <1>5, <1>6 DEF KeysInv, ScriptsApplied, FilesChecked, KeysReported

LEMMA KeysErased ==
  ASSUME KeysInv, AdministratorErases
  PROVE  KeysInv'
<1>1. /\ pkAt = "reboot" /\ pkAt' = "preparation" /\ pkLeft' = pkWorkarounds
      /\ pkDb' = {entry \in pkDb : entry[1] \notin pkSystem.erased}
      /\ pkSystem' = pkSystem /\ pkTodo' = pkTodo /\ pkTrusted' = pkTrusted
  BY DEF AdministratorErases
<1>2. pkLeft' = Planned
  BY <1>1 DEF KeysInv, ScriptsRegistered
<1>3. SourceKeys' /\ OldKeys'
  BY <1>1 DEF KeysInv, SourceKeys, OldKeys, BeforeTheReboot
<1>4. FoundObsolete = {} => IsRemoved'
  BY <1>1, KeySystemDecides DEF IsRemoved
<1>5. ScriptsApplied'
  <2>1. CASE FoundObsolete = {}
    <3>1. Registered = <<>>
      BY <2>1 DEF Registered
    <3>2. CASE pkSystem.nogpgcheck
      BY <1>1, <1>2, <1>4, <2>1, <3>1, <3>2 DEF ScriptsApplied, Planned, IsImported
    <3>3. CASE ~pkSystem.nogpgcheck
      <4>1. pkLeft' = <<Import>>
        BY <1>2, <3>1, <3>3, OfTwo DEF Planned
      <4> QED BY <1>1, <1>4, <2>1, <3>3, <4>1, KeySystemDecides DEF ScriptsApplied
    <3> QED BY <3>2, <3>3
  <2>2. CASE FoundObsolete # {}
    <3>1. Registered = <<Removal>>
      BY <2>2 DEF Registered
    <3>2. CASE pkSystem.nogpgcheck
      BY <1>1, <1>2, <3>1, <3>2, KeySystemDecides DEF ScriptsApplied, Planned
    <3>3. CASE ~pkSystem.nogpgcheck
      <4>1. pkLeft' = <<Removal, Import>>
        BY <1>2, <3>1, <3>3, OfTwo DEF Planned
      <4> QED BY <1>1, <3>3, <4>1, KeySystemDecides DEF ScriptsApplied
    <3> QED BY <3>2, <3>3
  <2> QED BY <2>1, <2>2
<1>6. FilesChecked'
  <2>1. MissingKeys' = MissingKeys
    BY <1>1, KeySystemDecides DEF MissingKeys
  <2> QED BY <1>1, <2>1 DEF KeysInv, FilesChecked
<1>7. ScansMade'
  BY <1>1, KeySystemDecides DEF KeysInv, ScansMade
<1> QED BY <1>1, <1>3, <1>5, <1>6, <1>7 DEF KeysInv, ScriptsRegistered, KeysReported

(* The scripts: the removal first, the import last.                        *)
LEMMA KeysRemoved ==
  ASSUME KeysInv, NEW w, w = Removal,
         pkSystem' = pkSystem, pkDb' = AfterScript(pkDb, w)
  PROVE  IsRemoved' /\ OldKeys'
<1>1. pkDb' = {entry \in pkDb : entry[1] \notin FoundObsolete}
  BY DEF AfterScript, Removal
<1> QED BY <1>1, KeySystemDecides DEF KeysInv, IsRemoved, OldKeys

LEMMA KeysImported ==
  ASSUME KeysInv, IsRemoved, NEW w, w = Import,
         pkSystem' = pkSystem, pkDb' = AfterScript(pkDb, w)
  PROVE  IsRemoved' /\ IsImported' /\ OldKeys'
<1> DEFINE Names == {entry[1] : entry \in pkDb}
<1>1. pkDb' = pkDb \cup ((TrustedCerts \ Names) \X {"new"})
  BY DEF AfterScript, Import
<1>2. \A entry \in pkDb' : entry[2] = "old" => entry \in pkDb
  BY <1>1
<1>3. TrustedCerts \subseteq {entry[1] : entry \in pkDb'}
  <2> SUFFICES ASSUME NEW key \in TrustedCerts PROVE \E entry \in pkDb' : key = entry[1]
    OBVIOUS
  <2>1. CASE key \in Names
    BY <1>1, <2>1
  <2>2. CASE key \notin Names
    <3>1. <<key, "new">> \in pkDb' /\ key = <<key, "new">>[1]
      BY <1>1, <2>2
    <3> QED BY <3>1
  <2> QED BY <2>1, <2>2
<1>4. IsRemoved' /\ OldKeys'
  BY <1>2, KeySystemDecides DEF KeysInv, IsRemoved, OldKeys
<1>5. IsImported'
  BY <1>3, KeySystemDecides DEF IsImported, InstalledKeys
<1> QED BY <1>4, <1>5

LEMMA KeysApplied ==
  ASSUME KeysInv, ApplyWorkaround
  PROVE  KeysInv'
<1>1. /\ pkAt = "preparation" /\ pkLeft # <<>>
      /\ pkAt' \in {"preparation", "failed"}
      /\ pkSystem' = pkSystem /\ pkTodo' = pkTodo /\ pkTrusted' = pkTrusted
      /\ pkLeft' = Tail(pkLeft)
  BY DEF ApplyWorkaround
<1>2. PICK w : w = Head(pkLeft) /\ pkDb' = AfterScript(pkDb, w)
  BY DEF ApplyWorkaround
<1>3. OldKeys' /\ (pkAt' = "preparation" => ScriptsApplied')
  <2>1. CASE pkLeft = <<Removal, Import>> /\ ~pkSystem.nogpgcheck
    <3>1. w = Removal /\ pkLeft' = <<Import>>
      BY <1>1, <1>2, <2>1, OfTwo
    <3>2. IsRemoved' /\ OldKeys'
      BY <1>1, <1>2, <3>1, KeysRemoved
    <3> QED BY <1>1, <2>1, <3>1, <3>2, KeySystemDecides DEF ScriptsApplied
  <2>2. CASE pkLeft = <<Removal>> /\ pkSystem.nogpgcheck
    <3>1. w = Removal /\ pkLeft' = <<>>
      BY <1>1, <1>2, <2>2, OfTwo
    <3>2. IsRemoved' /\ OldKeys'
      BY <1>1, <1>2, <3>1, KeysRemoved
    <3> QED BY <1>1, <2>2, <3>1, <3>2 DEF ScriptsApplied, IsImported
  <2>3. CASE pkLeft = <<Import>> /\ ~pkSystem.nogpgcheck /\ IsRemoved
    <3>1. w = Import /\ pkLeft' = <<>>
      BY <1>1, <1>2, <2>3, OfTwo
    <3>2. IsRemoved' /\ IsImported' /\ OldKeys'
      BY <1>1, <1>2, <2>3, <3>1, KeysImported
    <3> QED BY <1>1, <3>1, <3>2 DEF ScriptsApplied
  <2> QED BY <1>1, <2>1, <2>2, <2>3 DEF KeysInv, ScriptsApplied
<1>4. ScriptsApplied'
  BY <1>1, <1>3 DEF ScriptsApplied
<1>5. MissingKeys' = MissingKeys
  BY <1>1, KeySystemDecides DEF MissingKeys
<1>6. FilesChecked' /\ ScansMade'
  BY <1>1, <1>5, KeySystemDecides DEF KeysInv, FilesChecked, ScansMade
<1> QED BY <1>1, <1>3, <1>4, <1>6 DEF KeysInv, ScriptsRegistered, SourceKeys, BeforeTheReboot,
       KeysReported

(* What follows the scripts.                                               *)
LEMMA KeysUpgraded ==
  ASSUME KeysInv, EndOfWorkarounds \/ UpgradePackages \/ CheckInstalledKeys
  PROVE  KeysInv'
<1>1. CASE EndOfWorkarounds
  <2>1. /\ pkAt = "preparation" /\ pkAt' = "transaction" /\ pkLeft = <<>>
        /\ UNCHANGED <<pkSystem, pkTodo, pkTrusted, pkWorkarounds, pkLeft, pkDb, pkReports>>
    BY <1>1 DEF EndOfWorkarounds
  <2>2. IsRemoved /\ IsImported
    BY <2>1, OfTwo DEF KeysInv, ScriptsApplied
  <2>3. MissingKeys' = MissingKeys
    BY <2>1, KeySystemDecides DEF MissingKeys
  <2>4. IsRemoved' /\ IsImported'
    BY <2>1, <2>2, KeySystemDecides DEF IsRemoved, IsImported, InstalledKeys
  <2>5. FilesChecked' /\ ScansMade' /\ OldKeys'
    BY <2>1, <2>3, KeySystemDecides DEF KeysInv, FilesChecked, ScansMade, OldKeys
  <2> QED BY <2>1, <2>4, <2>5 DEF KeysInv, ScriptsRegistered, SourceKeys, BeforeTheReboot,
         KeysReported, ScriptsApplied
<1>2. CASE UpgradePackages
  <2>1. /\ pkAt' = "applications" /\ pkAt = "transaction"
        /\ UNCHANGED <<pkSystem, pkTodo, pkTrusted>>
        /\ \E keys \in SUBSET KeysOfRepos :
             pkDb' = pkDb \cup ((keys \ InstalledKeys) \X {"new"})
    BY <1>2 DEF UpgradePackages
  <2>2. \A entry \in pkDb' : entry[2] = "old" => entry \in pkDb
    BY <2>1
  <2>3. ScansMade' /\ OldKeys'
    BY <2>1, <2>2, KeySystemDecides DEF KeysInv, ScansMade, OldKeys
  <2> QED BY <2>1, <2>3 DEF KeysInv, ScriptsRegistered, SourceKeys, BeforeTheReboot,
         KeysReported, ScriptsApplied, FilesChecked
<1>3. CASE CheckInstalledKeys
  <2>1. /\ pkAt' = "done" /\ pkAt = "applications"
        /\ pkReports' = pkReports \cup (IF pkSystem.nogpgcheck THEN {}
                          ELSE {<<"unexpected", f>> : f \in UnexpectedKeys})
        /\ UNCHANGED <<pkSystem, pkTodo, pkTrusted, pkDb>>
    BY <1>3 DEF CheckInstalledKeys
  <2>2. UnexpectedKeys' = UnexpectedKeys
    BY <2>1 DEF UnexpectedKeys, InstalledKeys
  <2>3. KeysReported'
    BY <2>1, <2>2 DEF KeysReported
  <2>4. ScansMade' /\ OldKeys'
    BY <2>1, KeySystemDecides DEF KeysInv, ScansMade, OldKeys
  <2> QED BY <2>1, <2>3, <2>4 DEF KeysInv, ScriptsRegistered, SourceKeys, BeforeTheReboot,
         ScriptsApplied, FilesChecked
<1> QED BY <1>1, <1>2, <1>3

LEMMA KeysUnchanged ==
  ASSUME KeysInv, UNCHANGED pkVars
  PROVE  KeysInv'
<1>1. UNCHANGED <<pkSystem, pkAt, pkTodo, pkTrusted, pkWorkarounds, pkLeft, pkDb, pkReports>>
  BY DEF pkVars
<1>2. MissingKeys' = MissingKeys /\ UnexpectedKeys' = UnexpectedKeys
  BY <1>1, KeySystemDecides DEF MissingKeys, UnexpectedKeys, InstalledKeys
<1>3. IsRemoved' = IsRemoved /\ IsImported' = IsImported
  BY <1>1, KeySystemDecides DEF IsRemoved, IsImported, InstalledKeys
<1>4. ScansMade' /\ ScriptsRegistered' /\ SourceKeys' /\ OldKeys'
  BY <1>1, KeySystemDecides DEF KeysInv, ScansMade, ScriptsRegistered, SourceKeys, OldKeys
<1>5. ScriptsApplied'
  BY <1>1, <1>3, KeySystemDecides DEF KeysInv, ScriptsApplied
<1>6. FilesChecked' /\ KeysReported'
  BY <1>1, <1>2 DEF KeysInv, FilesChecked, KeysReported
<1> QED BY <1>4, <1>5, <1>6 DEF KeysInv

LEMMA KeysInductive == KeySpec => []KeysInv
<1>1. KeysInv /\ [KeyNext]_pkVars => KeysInv'
  BY KeysScanned, KeysChecked, KeysErased, KeysApplied, KeysUpgraded, KeysUnchanged DEF KeyNext
<1> QED BY KeysStart, <1>1, PTL DEF KeySpec

LEMMA KeysRight == KeysInv => KeysAreTheTargets
<1> SUFFICES ASSUME KeysInv PROVE KeysAreTheTargets
  OBVIOUS
<1>1. TargetKeysAreInstalled
  BY DEF KeysInv, ScriptsApplied, IsImported, TargetKeysAreInstalled
<1>2. ObsoleteKeysAreReplaced
  <2> SUFFICES ASSUME pkAt = "transaction", NEW entry \in pkDb, entry[2] = "old"
               PROVE  entry[1] \notin VendorKeysToRemove
    BY DEF ObsoleteKeysAreReplaced, VendorKeysToRemove, ObsoleteForTarget
  <2>1. entry[1] \in pkSystem.installed /\ entry[1] \notin FoundObsolete
    BY DEF KeysInv, OldKeys, ScriptsApplied, IsRemoved
  <2> QED BY <2>1 DEF FoundObsolete
<1>3. ImportedKeysWereTrusted
  <2> SUFFICES ASSUME pkAt \in {"reboot", "preparation", "transaction"}, ~pkSystem.nogpgcheck,
                      NEW r \in CheckedRepos, r.gpgcheck = "on",
                      NEW u \in r.gpgkeys, u.scheme = "file", u.reachable
               PROVE  Fingerprints(u.keys) \subseteq pkTrusted
    BY DEF ImportedKeysWereTrusted
  <2>1. MissingKeys = {}
    BY DEF KeysInv, FilesChecked
  <2>2. u \in KeyFiles
    BY DEF KeyFiles, KeyUrls, NotDownloaded, UnknownProtocol
  <2>3. CASE u.keys = {}
    BY <2>3 DEF Fingerprints
  <2>4. CASE u.keys # {}
    BY <2>1, <2>2, <2>4 DEF MissingKeys, InvalidFiles, NotReachable
  <2> QED BY <2>3, <2>4
<1>4. NoUnknownKeyUnreported
  <2> SUFFICES ASSUME pkAt = "done", ~pkSystem.nogpgcheck, NEW key \in InstalledKeys
               PROVE  \/ key[1] \in Fingerprints(pkSystem.installed \cup TrustedCerts)
                      \/ <<"unexpected", key[1]>> \in pkReports
    BY DEF NoUnknownKeyUnreported
  <2>1. pkTrusted = Fingerprints(pkSystem.installed \cup TrustedCerts)
    BY DEF KeysInv, ScansMade
  <2>2. key[1] \in Fingerprints(InstalledKeys)
    BY DEF Fingerprints
  <2> QED BY <2>1, <2>2 DEF KeysInv, KeysReported, UnexpectedKeys
<1> QED BY <1>1, <1>2, <1>3, <1>4 DEF KeysAreTheTargets

(* However many repositories and keys there are, and whatever the order of *)
(* the scans: the RPM DB gets the keys of the target, the obsolete ones of *)
(* the source go, DNF can import no key that was not trusted, and a key    *)
(* nobody knows is reported (trustedgpgkeys, removeobsoleterpmgpgkeys,     *)
(* missinggpgkey, apply_workarounds, gpgpubkeycheck).                      *)
THEOREM KeysEndAsTheTargets == KeySpec => []KeysAreTheTargets
BY KeysInductive, KeysRight, PTL

-----------------------------------------------------------------------------
(* ContentAccess.                                                          *)

BeforeTheSwap == {"scan", "rhui", "checks", "upgrade"}
AfterTheSwap == {"release", "repos", "done"}

(* The setup of a cloud, where one is used: from the configuration, or the *)
(* only one left of those that match the system.                           *)
SetupUsed ==
    /\ caAt \in {"scan", "rhui"} => caRhui = NoSetup
    /\ caRhui # NoSetup =>
         IF caSystem.config.use THEN caRhui.src = caSystem.config.src
         ELSE \E m \in Matching : SourceSetups = {m} /\ m.setup.clients = caRhui.src

(* The packages are those of the source until the tasks are carried out.   *)
ClientsHandled ==
    /\ caTasks = Swap(caRhui.src, caRhui.target)
    /\ caAt \in BeforeTheSwap => caPackages = caSystem.packages
    /\ caAt \in AfterTheSwap =>
         caPackages = (caSystem.packages \cup caTasks.install) \ caTasks.remove

(* A system of a cloud whose setup is not known is inhibited.              *)
CloudIsKnown ==
    caAt = "checks" /\ caSystem.noRhsm /\ Matching # {} /\ caRhui = NoSetup =>
      "inhibitor" \in caReports

(* The release of dnf, and that of the subscription manager.               *)
ReleaseverSet ==
    /\ caReleasever \in {"unset", "source", "target"}
    /\ caAt \in AfterTheSwap =>
         caReleasever = IF SetsReleasever THEN "target" ELSE "unset"
    /\ caAt \in BeforeTheSwap =>
         caReleasever = IF caSystem.releasever THEN "source" ELSE "unset"
ReleaseSet ==
    caAt \in {"repos", "done"} => caRelease = "target" \/ caSystem.noRhsm \/ caSystem.beta
ReposSet ==
    caRepos = "target" => caAt = "done" /\ (caRelease = "target" \/ caSystem.beta)

(* What the administrator was told before the transaction.                 *)
AdministratorTold ==
    caAt \in {"upgrade"} \cup AfterTheSwap =>
      /\ SetsReleasever => "releasever" \in caReports
      /\ caSystem.noRhsm /\ caSystem.rhel => "release is kept" \in caReports

AccessInv ==
    /\ caSystem \in AccessSystems
    /\ SetupUsed /\ ClientsHandled /\ CloudIsKnown /\ ContentIsAccessible
    /\ ReleaseverSet /\ ReleaseSet /\ ReposSet /\ AdministratorTold

-----------------------------------------------------------------------------
(* Each setup has one client, and a minor release of which there are few.  *)
IsSetup(s) == (\E c : s.clients = {c}) /\ s.release[2] \in 0..10

LEMMA SetupIs ==
  ASSUME NEW client, NEW package, NEW major, NEW minor \in 0..10
  PROVE  IsSetup(Setup(client, package, <<major, minor>>))
BY DEF Setup, IsSetup

LEMMA MajorsAre ==
  ASSUME NEW client, NEW package
  PROVE  \A s \in Majors(client, package) : IsSetup(s)
<1>1. ASSUME NEW major PROVE IsSetup(Setup(client, package, <<major, 0>>))
  <2>1. 0 \in 0..10
    OBVIOUS
  <2> QED BY <2>1, SetupIs
<1> QED BY <1>1 DEF Majors

LEMMA FamilyIs ==
  ASSUME NEW family, NEW setups, \A s \in setups : IsSetup(s)
  PROVE  \A m \in Of(family, setups) : IsSetup(m.setup)
BY DEF Of

LEMMA RhuiAre == \A m \in RhuiSetups : IsSetup(m.setup)
<1> USE SetupIs
<1>0. 0 \in 0..10 /\ 10 \in 0..10
  OBVIOUS
<1>1. \A m \in AwsSetups : IsSetup(m.setup)
  BY MajorsAre, FamilyIs DEF AwsSetups
<1>2. \A m \in AwsSapSetups : IsSetup(m.setup)
  <2>1. \A s \in Majors("rh-amazon-rhui-client-sap-bundle-e4s", "leapp-rhui-aws-sap-e4s")
           \cup {Setup("rh-amazon-rhui-client-sap-bundle", "leapp-rhui-aws-sap-e4s", <<8, 10>>)} : IsSetup(s)
    BY <1>0, MajorsAre
  <2> QED BY <2>1, FamilyIs DEF AwsSapSetups
<1>3. \A m \in AzureSetups : IsSetup(m.setup)
  <2>1. \A s \in {Setup("rhui-azure-rhel8", "leapp-rhui-azure", <<8, 0>>),
                 Setup("rhui-azure-rhel9", "leapp-rhui-azure", <<9, 0>>),
                 Setup("rhui-azure-rhel10", "leapp-rhui-azure", <<10, 0>>)} : IsSetup(s)
    BY <1>0
  <2> QED BY <2>1, FamilyIs DEF AzureSetups
<1>4. \A m \in AzureSapSetups : IsSetup(m.setup)
  <2>1. \A s \in {Setup("rhui-azure-rhel8-sapapps", "leapp-rhui-azure-sap", <<8, 0>>),
                 Setup("rhui-azure-rhel8-base-sap-apps", "leapp-rhui-azure-sap", <<8, 10>>),
                 Setup("rhui-azure-rhel9-sapapps", "leapp-rhui-azure-sap", <<9, 0>>),
                 Setup("rhui-azure-rhel10-sapapps", "leapp-rhui-azure-sap", <<10, 0>>)} : IsSetup(s)
    BY <1>0
  <2>2. \A s \in {Setup("rhui-azure-rhel8-sap-ha", "leapp-rhui-azure-sap", <<8, 0>>),
                 Setup("rhui-azure-rhel8-base-sap-ha", "leapp-rhui-azure-sap", <<8, 10>>),
                 Setup("rhui-azure-rhel9-sap-ha", "leapp-rhui-azure-sap", <<9, 0>>),
                 Setup("rhui-azure-rhel10-sap-ha", "leapp-rhui-azure-sap", <<10, 0>>)} : IsSetup(s)
    BY <1>0
  <2> QED BY <2>1, <2>2, FamilyIs DEF AzureSapSetups
<1>5. \A m \in GoogleSetups : IsSetup(m.setup)
  <2>1. \A s \in {Setup("google-rhui-client-rhel8", "leapp-rhui-google", <<8, 0>>),
                 Setup("google-rhui-client-rhel9", "leapp-rhui-google", <<9, 0>>)} : IsSetup(s)
    BY <1>0
  <2>2. \A s \in {Setup("google-rhui-client-rhel8-sap", "leapp-rhui-google-sap", <<8, 0>>),
                 Setup("google-rhui-client-rhel810-sap", "leapp-rhui-google-sap", <<8, 10>>),
                 Setup("google-rhui-client-rhel9-sap", "leapp-rhui-google-sap", <<9, 0>>)} : IsSetup(s)
    BY <1>0
  <2> QED BY <2>1, <2>2, FamilyIs DEF GoogleSetups
<1>6. \A m \in AlibabaSetups : IsSetup(m.setup)
  <2>1. \A s \in {Setup("aliyun_rhui_rhel8", "leapp-rhui-alibaba", <<8, 0>>),
                 Setup("aliyun_rhui_rhel9", "leapp-rhui-alibaba", <<9, 0>>),
                 Setup("aliyun_rhui_rhel10", "leapp-rhui-alibaba", <<10, 0>>)} : IsSetup(s)
    BY <1>0
  <2> QED BY <2>1, FamilyIs DEF AlibabaSetups
<1> QED BY <1>1, <1>2, <1>3, <1>4, <1>5, <1>6 DEF RhuiSetups

-----------------------------------------------------------------------------
(* What is derived from the system stays.                                  *)
LEMMA AccessSystemDecides ==
  ASSUME caSystem' = caSystem
  PROVE  Matching' = Matching /\ SourceSetups' = SourceSetups
<1>1. Matching' = Matching
  BY DEF Matching
<1> QED BY <1>1 DEF SourceSetups

LEMMA AccessStart == AccessInit => AccessInv
<1> SUFFICES ASSUME AccessInit PROVE AccessInv
  OBVIOUS
<1>1. /\ caSystem \in AccessSystems /\ caAt = "scan" /\ caRhui = NoSetup
      /\ caTasks = NoRpmTasks /\ caPackages = caSystem.packages /\ caRepos = "source"
      /\ caReleasever = (IF caSystem.releasever THEN "source" ELSE "unset")
  BY DEF AccessInit
<1>2. ClientsHandled
  BY <1>1 DEF ClientsHandled, NoRpmTasks, Swap, NoSetup, AfterTheSwap
<1>3. ReleaseverSet
  BY <1>1 DEF ReleaseverSet, AfterTheSwap
<1> QED BY <1>1, <1>2, <1>3 DEF AccessInv, SetupUsed, CloudIsKnown, ContentIsAccessible,
       ReleaseSet, ReposSet, AdministratorTold, AfterTheSwap

(* The facts.                                                              *)
LEMMA SubscriptionScanned ==
  ASSUME AccessInv, ScanSubscription
  PROVE  AccessInv'
<1>1. /\ caAt = "scan" /\ caAt' \in {"rhui", "stopped"}
      /\ UNCHANGED <<caSystem, caRhui, caTasks, caPackages, caReleasever, caRelease,
                     caRepos, caTries, caReports>>
  BY DEF ScanSubscription
<1>2. SetupUsed'
  BY <1>1, AccessSystemDecides DEF AccessInv, SetupUsed
<1>3. ClientsHandled'
  BY <1>1 DEF AccessInv, ClientsHandled, BeforeTheSwap, AfterTheSwap, Swap
<1>4. ReleaseverSet'
  BY <1>1 DEF AccessInv, ReleaseverSet, BeforeTheSwap, AfterTheSwap
<1> QED BY <1>1, <1>2, <1>3, <1>4 DEF AccessInv, CloudIsKnown, ContentIsAccessible,
       ReleaseSet, ReposSet, AdministratorTold, AfterTheSwap

(* The choice of the setup: a setup that is used is not the empty one.     *)
LEMMA SetupsAreNone ==
  ASSUME NEW src, NEW target, NEW bootstrap, src # {}
  PROVE  [src |-> src, target |-> target, bootstrap |-> bootstrap] # NoSetup
BY DEF NoSetup

LEMMA RhuiChecked ==
  ASSUME AccessInv, CheckRhui
  PROVE  AccessInv'
<1>1. /\ caAt = "rhui" /\ caRhui = NoSetup
      /\ UNCHANGED <<caSystem, caInfo, caPackages, caReleasever, caRelease, caRepos, caTries>>
  BY DEF CheckRhui, AccessInv, SetupUsed
<1> DEFINE Outcome ==
      /\ caAt' \in {"checks", "stopped"}
      /\ caTasks' = Swap(caRhui'.src, caRhui'.target)
      /\ SetupUsed'
      /\ CloudIsKnown'
<1>2. ASSUME caAt' \in {"checks", "stopped"}, UNCHANGED <<caRhui, caTasks>>,
             \/ caAt' = "stopped" \/ Matching = {} \/ ~caSystem.noRhsm
             \/ "inhibitor" \in caReports'
      PROVE  Outcome
  <2>1. caTasks' = Swap(caRhui'.src, caRhui'.target)
    BY <1>2 DEF AccessInv, ClientsHandled
  <2>2. SetupUsed'
    BY <1>1, <1>2 DEF SetupUsed
  <2>3. CloudIsKnown'
    BY <1>1, <1>2, AccessSystemDecides DEF CloudIsKnown
  <2> QED BY <1>2, <2>1, <2>2, <2>3
<1>3. ASSUME NEW src, NEW target, NEW bootstrap, src # {}, UseSetup(src, target, bootstrap),
             IF caSystem.config.use THEN src = caSystem.config.src
             ELSE \E m \in Matching : SourceSetups = {m} /\ m.setup.clients = src
      PROVE  Outcome
  <2>1. /\ caRhui' = [src |-> src, target |-> target, bootstrap |-> bootstrap]
        /\ caTasks' = Swap(src, target) /\ caAt' = "checks"
    BY <1>3 DEF UseSetup
  <2>2. caRhui' # NoSetup /\ caRhui'.src = src /\ caRhui'.target = target
    BY <1>3, <2>1, SetupsAreNone
  <2>3. SetupUsed'
    BY <1>1, <1>3, <2>1, <2>2, AccessSystemDecides DEF SetupUsed
  <2>4. CloudIsKnown'
    BY <2>2 DEF CloudIsKnown
  <2> QED BY <2>1, <2>2, <2>3, <2>4
<1>4. Outcome
  <2> HIDE DEF Outcome
  <2>1. CASE ConfiguredSetup
    <3>1. CASE caAt' = "stopped" /\ UNCHANGED <<caRhui, caTasks, caReports>>
      BY <1>2, <3>1
    <3>2. CASE /\ caSystem.config.use /\ caSystem.config.src # {}
               /\ UseSetup(caSystem.config.src, caSystem.config.target, FALSE)
      BY <1>3, <3>2
    <3> QED BY <2>1, <3>1, <3>2 DEF ConfiguredSetup
  <2>2. CASE /\ ~caSystem.config.use /\ Matching = {}
             /\ caAt' = "checks" /\ UNCHANGED <<caRhui, caTasks, caReports>>
    BY <1>2, <2>2
  <2>3. CASE caAt' = "stopped" /\ UNCHANGED <<caRhui, caTasks, caReports>>
    BY <1>2, <2>3
  <2>4. CASE /\ ~caSystem.config.use
             /\ \E match \in SourceSetups :
                   /\ SourceSetups = {match}
                   /\ \/ /\ TargetSetups(match.family) = {}
                         /\ caAt' = "stopped" /\ UNCHANGED <<caRhui, caTasks, caReports>>
                      \/ \E target \in TargetSetups(match.family) :
                            DetectedSetup(match, target)
    <3>1. PICK match \in SourceSetups :
             /\ SourceSetups = {match}
             /\ \/ caAt' = "stopped" /\ UNCHANGED <<caRhui, caTasks, caReports>>
                \/ \E target \in TargetSetups(match.family) : DetectedSetup(match, target)
      BY <2>4
    <3>2. match \in Matching
      BY <3>1 DEF SourceSetups, Closest, Largest
    <3>3. match.setup.clients # {}
      BY <3>2, RhuiAre DEF Matching, IsSetup
    <3>4. CASE caAt' = "stopped" /\ UNCHANGED <<caRhui, caTasks, caReports>>
      BY <1>2, <3>4
    <3>5. CASE \E target \in TargetSetups(match.family) : DetectedSetup(match, target)
      <4>1. PICK target \in TargetSetups(match.family) : DetectedSetup(match, target)
        BY <3>5
      <4>2. CASE /\ caAt' = "checks" /\ UNCHANGED <<caRhui, caTasks>>
                 /\ ~caSystem.noRhsm \/ "inhibitor" \in caReports'
        BY <1>2, <4>2
      <4>3. CASE UseSetup(match.setup.clients, target.setup.clients, Bootstraps(match.family))
        BY <1>3, <2>4, <3>1, <3>2, <3>3, <4>3
      <4> QED BY <4>1, <4>2, <4>3 DEF DetectedSetup
    <3> QED BY <3>1, <3>4, <3>5
  <2> QED BY <2>1, <2>2, <2>3, <2>4 DEF CheckRhui
<1>5. ClientsHandled'
  BY <1>1, <1>4 DEF AccessInv, ClientsHandled, BeforeTheSwap, AfterTheSwap
<1>6. ReleaseverSet'
  BY <1>1, <1>4 DEF AccessInv, ReleaseverSet, BeforeTheSwap, AfterTheSwap
<1> QED BY <1>1, <1>4, <1>5, <1>6 DEF AccessInv, ContentIsAccessible,
       ReleaseSet, ReposSet, AdministratorTold, AfterTheSwap

(* The checks.                                                             *)
LEMMA AccessChecked ==
  ASSUME AccessInv, CheckAccess
  PROVE  AccessInv'
<1>1. /\ caAt = "checks" /\ caAt' \in {"inhibited", "upgrade"}
      /\ caAt' = "upgrade" => "inhibitor" \notin caReports'
      /\ Unsubscribed => "inhibitor" \in caReports'
      /\ "inhibitor" \in caReports => "inhibitor" \in caReports'
      /\ SetsReleasever => "releasever" \in caReports'
      /\ caSystem.noRhsm /\ caSystem.rhel => "release is kept" \in caReports'
      /\ UNCHANGED <<caSystem, caInfo, caRhui, caTasks, caPackages, caReleasever,
                     caRelease, caRepos, caTries>>
  BY DEF CheckAccess
<1>2. SetupUsed'
  BY <1>1, AccessSystemDecides DEF AccessInv, SetupUsed
<1>3. ClientsHandled'
  BY <1>1 DEF AccessInv, ClientsHandled, BeforeTheSwap, AfterTheSwap, Swap
<1>4. ReleaseverSet'
  BY <1>1 DEF AccessInv, ReleaseverSet, BeforeTheSwap, AfterTheSwap
<1>5. ContentIsAccessible'
  BY <1>1, AccessSystemDecides DEF AccessInv, CloudIsKnown, ContentIsAccessible, Unsubscribed
<1>6. AdministratorTold'
  BY <1>1 DEF AdministratorTold, SetsReleasever
<1> QED BY <1>1, <1>2, <1>3, <1>4, <1>5, <1>6 DEF AccessInv, CloudIsKnown, ReleaseSet, ReposSet

(* The transaction and what follows it.                                    *)
LEMMA ClientsAreSwapped ==
  ASSUME AccessInv, SwapClients
  PROVE  AccessInv'
<1>1. /\ caAt = "upgrade" /\ caAt' = "release"
      /\ caPackages' = (caPackages \cup caTasks.install) \ caTasks.remove
      /\ caReleasever' = (IF SetsReleasever THEN "target" ELSE caReleasever)
      /\ UNCHANGED <<caSystem, caInfo, caRhui, caTasks, caRelease, caRepos, caTries, caReports>>
  BY DEF SwapClients
<1>2. SetupUsed'
  BY <1>1, AccessSystemDecides DEF AccessInv, SetupUsed
<1>3. ClientsHandled'
  BY <1>1 DEF AccessInv, ClientsHandled, BeforeTheSwap, AfterTheSwap, Swap
<1>4. ReleaseverSet'
  BY <1>1 DEF AccessInv, ReleaseverSet, BeforeTheSwap, AfterTheSwap, SetsReleasever
<1>5. ContentIsAccessible'
  BY <1>1, AccessSystemDecides DEF AccessInv, ContentIsAccessible
<1>6. AdministratorTold'
  BY <1>1 DEF AccessInv, AdministratorTold, SetsReleasever, AfterTheSwap
<1> QED BY <1>1, <1>2, <1>3, <1>4, <1>5, <1>6 DEF AccessInv, CloudIsKnown, ReleaseSet, ReposSet

LEMMA ReleaseIsSet ==
  ASSUME AccessInv, SkipRelease \/ TrySetRelease \/ EnableRepos
  PROVE  AccessInv'
<1>1. /\ UNCHANGED <<caSystem, caInfo, caRhui, caTasks, caPackages, caReleasever, caReports>>
      /\ \/ /\ caAt = "release" /\ caAt' \in {"release", "stopped"}
            /\ caRepos' = caRepos
         \/ /\ caAt = "release" /\ caAt' = "repos" /\ caRepos' = caRepos
            /\ caRelease' = "target" \/ caSystem.noRhsm \/ caSystem.beta
         \/ /\ caAt = "repos" /\ caAt' = "done" /\ caRelease' = caRelease
            /\ caRepos' \in (IF caSystem.noRhsm THEN {caRepos} ELSE {caRepos, "target"})
  BY DEF SkipRelease, TrySetRelease, EnableRepos, AfterLastAttempt
<1>2. SetupUsed'
  BY <1>1, AccessSystemDecides DEF AccessInv, SetupUsed
<1>3. ClientsHandled'
  BY <1>1 DEF AccessInv, ClientsHandled, BeforeTheSwap, AfterTheSwap, Swap
<1>4. ReleaseverSet'
  BY <1>1 DEF AccessInv, ReleaseverSet, BeforeTheSwap, AfterTheSwap, SetsReleasever
<1>5. ContentIsAccessible'
  BY <1>1, AccessSystemDecides DEF AccessInv, ContentIsAccessible
<1>6. AdministratorTold'
  BY <1>1 DEF AccessInv, AdministratorTold, SetsReleasever, AfterTheSwap
<1>7. ReleaseSet' /\ ReposSet'
  BY <1>1 DEF AccessInv, ReleaseSet, ReposSet
<1>8. CloudIsKnown'
  BY <1>1 DEF CloudIsKnown
<1> QED BY <1>1, <1>2, <1>3, <1>4, <1>5, <1>6, <1>7, <1>8 DEF AccessInv

LEMMA AccessUnchanged ==
  ASSUME AccessInv, UNCHANGED caVars
  PROVE  AccessInv'
<1>1. UNCHANGED <<caSystem, caAt, caInfo, caRhui, caTasks, caPackages, caReleasever,
                  caRelease, caRepos, caTries, caReports>>
  BY DEF caVars
<1>2. Matching' = Matching /\ SourceSetups' = SourceSetups
  BY <1>1, AccessSystemDecides
<1>3. SetupUsed' /\ CloudIsKnown' /\ ContentIsAccessible'
  BY <1>1, <1>2 DEF AccessInv, SetupUsed, CloudIsKnown, ContentIsAccessible
<1>4. ClientsHandled'
  BY <1>1 DEF AccessInv, ClientsHandled, Swap
<1>5. ReleaseverSet' /\ ReleaseSet' /\ ReposSet' /\ AdministratorTold'
  BY <1>1 DEF AccessInv, ReleaseverSet, ReleaseSet, ReposSet, AdministratorTold, SetsReleasever
<1> QED BY <1>1, <1>3, <1>4, <1>5 DEF AccessInv

LEMMA AccessInductive == AccessSpec => []AccessInv
<1>1. AccessInv /\ [AccessNext]_caVars => AccessInv'
  BY SubscriptionScanned, RhuiChecked, AccessChecked, ClientsAreSwapped, ReleaseIsSet,
     AccessUnchanged DEF AccessNext
<1> QED BY AccessStart, <1>1, PTL DEF AccessSpec

-----------------------------------------------------------------------------
(* The minor release of the setups that are closest in time.               *)
LEMMA GreatestMinor ==
  ASSUME NEW T, T \subseteq 0..10, T # {}
  PROVE  Max(T) \in T /\ \A x \in T : x <= Max(T)
<1>1. {10 - x : x \in T} \subseteq Nat /\ {10 - x : x \in T} # {}
  <2>1. ASSUME NEW x \in T PROVE 10 - x \in Nat
    <3>1. x \in 0..10
      OBVIOUS
    <3> QED BY <3>1
  <2> QED BY <2>1
<1>2. PICK least \in {10 - x : x \in T} : \A y \in {10 - x : x \in T} : least <= y
  BY <1>1, LeastNumber
<1>3. PICK x \in T : least = 10 - x
  BY <1>2
<1>4. ASSUME NEW y \in T PROVE x >= y
  <2>1. x \in 0..10 /\ y \in 0..10
    OBVIOUS
  <2>2. 10 - x <= 10 - y
    BY <1>2, <1>3
  <2> QED BY <2>1, <2>2
<1>5. Max(T) \in T /\ \A y \in T : Max(T) >= y
  BY <1>4 DEF Max
<1>6. ASSUME NEW y \in T PROVE y <= Max(T)
  <2>1. Max(T) \in 0..10 /\ y \in 0..10 /\ Max(T) >= y
    BY <1>5
  <2> QED BY <2>1
<1> QED BY <1>5, <1>6

LEMMA HighestIs ==
  ASSUME NEW minors, minors \subseteq 0..10, NEW optimal \in Nat
  PROVE  \A v \in minors : optimal = 0 \/ v <= optimal => v <= Highest(minors, optimal)
<1> DEFINE T == {0} \cup {v \in minors : optimal = 0 \/ v <= optimal}
<1>1. T \subseteq 0..10 /\ T # {}
  <2>1. 0 \in 0..10 /\ 0 \in T
    OBVIOUS
  <2>2. {v \in minors : optimal = 0 \/ v <= optimal} \subseteq minors
    OBVIOUS
  <2> QED BY <2>1, <2>2, Zenon
<1>2. \A x \in T : x <= Max(T)
  <2> HIDE DEF T
  <2> QED BY <1>1, GreatestMinor
<1> QED BY <1>2 DEF Highest

LEMMA OnlySetupFits ==
  ASSUME NEW m, SourceSetups = {m}, caSystem.source[2] \in Nat,
         NEW n \in Matching, n # m
  PROVE  \/ Cardinality(n.setup.clients) < Cardinality(m.setup.clients)
         \/ n.setup.release[2] < m.setup.release[2]
         \/ caSystem.source[2] # 0 /\ n.setup.release[2] > caSystem.source[2]
<1> DEFINE largest == Largest(Matching)
           minors == {k.setup.release[2] : k \in largest}
           highest == Highest(minors, caSystem.source[2])
<1>1. largest \subseteq Matching
  BY DEF Largest
<1>2. \A k \in Matching : /\ Cardinality(k.setup.clients) \in Nat
                          /\ k.setup.release[2] \in 0..10
  <2> SUFFICES ASSUME NEW k \in Matching
               PROVE  Cardinality(k.setup.clients) \in Nat /\ k.setup.release[2] \in 0..10
    OBVIOUS
  <2>1. IsSetup(k.setup)
    BY RhuiAre DEF Matching
  <2>2. PICK c : k.setup.clients = {c}
    BY <2>1 DEF IsSetup
  <2>3. Cardinality({c}) = 1
    BY FS_Singleton
  <2> QED BY <2>1, <2>2, <2>3 DEF IsSetup
<1>3. /\ m \in largest /\ m.setup.release[2] = highest
      /\ \A k \in largest : k.setup.release[2] = highest => k = m
  BY DEF SourceSetups, Closest
<1>4. \A k \in Matching : Cardinality(k.setup.clients) <= Cardinality(m.setup.clients)
  BY <1>3 DEF Largest
<1>5. CASE n \notin largest
  <2>1. PICK k \in Matching : ~(Cardinality(k.setup.clients) <= Cardinality(n.setup.clients))
    BY <1>5 DEF Largest
  <2>2. Cardinality(k.setup.clients) <= Cardinality(m.setup.clients)
    BY <1>4
  <2>3. m \in Matching
    BY <1>1, <1>3
  <2> QED BY <1>2, <2>1, <2>2, <2>3
<1>6. CASE n \in largest
  <2>1. minors \subseteq 0..10
    BY <1>1, <1>2
  <2>2. n.setup.release[2] \in minors /\ n.setup.release[2] \in 0..10
        /\ m.setup.release[2] \in 0..10
    BY <1>1, <1>2, <1>3, <1>6
  <2>3. n.setup.release[2] # m.setup.release[2]
    BY <1>3, <1>6
  <2>4. CASE caSystem.source[2] = 0 \/ n.setup.release[2] <= caSystem.source[2]
    <3>1. n.setup.release[2] <= highest
      BY <2>1, <2>2, <2>4, HighestIs
    <3> QED BY <1>3, <2>2, <2>3, <3>1
  <2>5. CASE caSystem.source[2] # 0 /\ ~(n.setup.release[2] <= caSystem.source[2])
    BY <2>2, <2>5
  <2> QED BY <2>4, <2>5
<1> QED BY <1>5, <1>6

LEMMA AccessFits == AccessInv => ContentFitsTheRelease
<1> SUFFICES ASSUME AccessInv PROVE ContentFitsTheRelease
  OBVIOUS
<1>1. SourceSetupFits
  <2> SUFFICES ASSUME caRhui # NoSetup, ~caSystem.config.use PROVE SourceSetupFits
    BY DEF SourceSetupFits
  <2>1. PICK m \in Matching : SourceSetups = {m} /\ m.setup.clients = caRhui.src
    BY DEF AccessInv, SetupUsed
  <2>2. caSystem.source[2] \in Nat
    BY AccessAssumption DEF AccessInv, IsAccessSystem
  <2>3. ASSUME NEW n \in Matching \ {m}
        PROVE  \/ Cardinality(n.setup.clients) < Cardinality(m.setup.clients)
               \/ n.setup.release[2] < m.setup.release[2]
               \/ caSystem.source[2] # 0 /\ n.setup.release[2] > caSystem.source[2]
    BY <2>1, <2>2, OnlySetupFits
  <2> QED BY <2>1, <2>3 DEF SourceSetupFits
<1>2. ClientsSwapped
  <2> SUFFICES ASSUME caAt \in AfterTheSwap, caRhui # NoSetup PROVE ClientsSwapped
    BY DEF ClientsSwapped, AfterTheSwap
  <2>1. /\ caTasks.install = caRhui.target \ caRhui.src
        /\ caTasks.remove = caRhui.src \ caRhui.target
        /\ caPackages = (caSystem.packages \cup caTasks.install) \ caTasks.remove
    BY DEF AccessInv, ClientsHandled, Swap
  <2>2. caRhui.src \subseteq
          caSystem.packages \cup (IF caSystem.config.use
                                 THEN caSystem.config.src \ caSystem.packages ELSE {})
    BY DEF AccessInv, SetupUsed, Matching
  <2> QED BY <2>1, <2>2 DEF ClientsSwapped
<1>3. NoSilentSourceRelease
  BY DEF AccessInv, ReleaseverSet, ReleaseSet, AdministratorTold, AfterTheSwap, SetsReleasever,
         NoSilentSourceRelease
<1>4. ReposMatchRelease
  BY DEF AccessInv, ReposSet, ReposMatchRelease
<1> QED BY <1>1, <1>2, <1>3, <1>4 DEF AccessInv, ContentFitsTheRelease

(* A subscribed system, or one of a cloud, gets at the content of the      *)
(* target with the setup that fits its release best, has the clients of    *)
(* the target after it, and what stays of the release of the source is     *)
(* told: however often a call of subscription-manager fails (checkrhui,    *)
(* checkrhsmsku, setetcreleasever, enablerhsmtargetrepos).                 *)
THEOREM ContentFits == AccessSpec => []ContentFitsTheRelease
BY AccessInductive, AccessFits, PTL

-----------------------------------------------------------------------------
(* RepositoryMap.                                                          *)

(* A repository of the source that leads to a family, and what serves it   *)
(* there.                                                                  *)
Leads(repoid, f) == \E s \in EntryOf(repoid) : f \in FamiliesOf(s)
Serves(t, repoid, f) ==
    \E s \in EntryOf(repoid) : f \in FamiliesOf(s) /\ t \in Equivalent(s, f)

ReposTypes ==
    /\ rpSystem \in RepoSystems
    /\ rpAt \in {"load", "channels", "map", "check", "accepted", "inhibited", "stopped"}
    /\ rpAt \in {"channels", "map"} => rpTodo \subseteq ReposToMap
    /\ rpAt = "channels" => rpBest = <<>>
    /\ rpAt = "load" => rpBest = <<>> /\ rpTop = "none"

(* The channel found is the best of the base repositories looked at.       *)
TopOf(done) ==
    /\ \A r \in done : \A s \in EntryOf(r) :
         s.family = BaseFamily =>
           rpTop # "none" /\ ChannelPrio(s.channel) <= ChannelPrio(rpTop)
    /\ rpTop # "none" =>
         \E r \in done : \E s \in EntryOf(r) : s.family = BaseFamily /\ rpTop = s.channel
TopInv ==
    /\ rpAt = "channels" => TopOf(ReposToMap \ rpTodo)
    /\ rpAt = "map" \/ ReposMapped => TopOf(ReposToMap)

(* Of each family there is the best of what was found for it so far.       *)
BestOf(done) ==
    /\ \A f : f \in DOMAIN rpBest <=> \E r \in done : Leads(r, f)
    /\ \A f \in DOMAIN rpBest : /\ \A t, o \in rpBest[f] : t = o
                                /\ \A t \in rpBest[f] : \E r \in done : Serves(t, r, f)
    /\ \A r \in done : \A f, t :
         Serves(t, r, f) =>
           \E best \in rpBest[f] : ChannelPrio(t.channel) <= ChannelPrio(best.channel)
BestInv ==
    /\ rpAt = "map" => BestOf(ReposToMap \ rpTodo)
    /\ ReposMapped => BestOf(ReposToMap) /\ rpTarget = TargetRepoids

ReposInv == ReposTypes /\ TopInv /\ BestInv

-----------------------------------------------------------------------------

LEMMA PrioIs == \A c : ChannelPrio(c) \in Nat
BY DEF ChannelPrio

LEMMA PlacesAre ==
  ASSUME rpSystem \in RepoSystems
  PROVE  /\ MapEntries \subseteq Nat /\ MapEntries \subseteq DOMAIN rpSystem.entries
         /\ \A i \in MapEntries : IsRepoEntry(rpSystem.entries[i])
BY RepoAssumption DEF IsRepoSystem, MapEntries

LEMMA FirstEntryIs ==
  ASSUME NEW P, P \subseteq Nat
  PROVE  /\ \A r \in FirstEntry(P) : \E i \in P : r = rpSystem.entries[i]
         /\ \A r, q \in FirstEntry(P) : r = q
         /\ P # {} => FirstEntry(P) # {}
<1>1. \A i, j \in P : i <= j /\ j <= i => i = j
  OBVIOUS
<1>2. P # {} => FirstEntry(P) # {}
  BY LeastNumber DEF FirstEntry
<1> QED BY <1>1, <1>2 DEF FirstEntry

LEMMA LastEntryIs ==
  ASSUME NEW P, P \subseteq Nat
  PROVE  /\ \A r \in LastEntry(P) : \E i \in P : r = rpSystem.entries[i]
         /\ \A r, q \in LastEntry(P) : r = q
<1>1. \A i, j \in P : i <= j /\ j <= i => i = j
  OBVIOUS
<1> QED BY <1>1 DEF LastEntry

LEMMA SourceEntryIs ==
  ASSUME rpSystem \in RepoSystems, NEW repoid
  PROVE  /\ \A r, q \in EntryOf(repoid) : r = q
         /\ \A r \in EntryOf(repoid) :
              /\ \E i \in SourceEntries(repoid) : r = rpSystem.entries[i]
              /\ r.channel \in Channels
              /\ \/ r.rhui = rpSystem.cloud
                 \/ \A i \in SourceEntries(repoid) : rpSystem.entries[i].rhui # rpSystem.cloud
<1> DEFINE found == SourceEntries(repoid)
           of(cloud) == {i \in found : rpSystem.entries[i].rhui = cloud}
<1>1. found \subseteq MapEntries /\ found \subseteq Nat
  BY PlacesAre DEF SourceEntries
<1>2. CASE \A i, j \in found : i = j
  <2>1. EntryOf(repoid) = FirstEntry(found)
    BY <1>2 DEF EntryOf
  <2>2. \A r \in EntryOf(repoid) : \E i \in found : r = rpSystem.entries[i]
    BY <1>1, <2>1, FirstEntryIs
  <2>3. \A r, q \in EntryOf(repoid) : r = q
    BY <1>1, <2>1, FirstEntryIs
  <2> HIDE DEF found
  <2>4. \A r \in EntryOf(repoid) : r.channel \in Channels
    BY <1>1, <2>2, PlacesAre DEF IsRepoEntry
  <2> QED BY <1>2, <2>2, <2>3, <2>4 DEF found
<1>3. CASE ~(\A i, j \in found : i = j) /\ of(rpSystem.cloud) # {}
  <2>1. EntryOf(repoid) = FirstEntry(of(rpSystem.cloud))
    BY <1>3 DEF EntryOf
  <2>2. of(rpSystem.cloud) \subseteq Nat
    BY <1>1
  <2>3. \A r, q \in EntryOf(repoid) : r = q
    BY <2>1, <2>2, FirstEntryIs
  <2>4. \A r \in EntryOf(repoid) :
          \E i \in found : r = rpSystem.entries[i] /\ r.rhui = rpSystem.cloud
    BY <2>1, <2>2, FirstEntryIs
  <2> HIDE DEF found
  <2>5. \A r \in EntryOf(repoid) : r.channel \in Channels
    BY <1>1, <2>4, PlacesAre DEF IsRepoEntry
  <2> QED BY <2>3, <2>4, <2>5 DEF found
<1>4. CASE ~(\A i, j \in found : i = j) /\ of(rpSystem.cloud) = {}
  <2>1. EntryOf(repoid) = LastEntry(of(""))
    BY <1>4 DEF EntryOf
  <2>2. of("") \subseteq Nat
    BY <1>1
  <2>3. \A r, q \in EntryOf(repoid) : r = q
    BY ZenonT(60), <2>1, <2>2, LastEntryIs
  <2>4. \A r \in EntryOf(repoid) : \E i \in found : r = rpSystem.entries[i]
    <3>1. \A r \in EntryOf(repoid) : \E i \in of("") : r = rpSystem.entries[i]
      <4>1. PICK P : P = of("")
        OBVIOUS
      <4>2. P \subseteq Nat /\ EntryOf(repoid) = LastEntry(P)
        BY <2>1, <2>2, <4>1
      <4>3. \A r \in LastEntry(P) : \E i \in P : r = rpSystem.entries[i]
        BY <4>2, LastEntryIs
      <4> QED BY <4>1, <4>2, <4>3
    <3> QED BY <3>1
  <2>5. \A i \in found : rpSystem.entries[i].rhui # rpSystem.cloud
    BY <1>4
  <2> HIDE DEF found
  <2>6. \A r \in EntryOf(repoid) : r.channel \in Channels
    BY <1>1, <2>4, PlacesAre DEF IsRepoEntry
  <2> QED BY <2>3, <2>4, <2>5, <2>6 DEF found
<1> QED BY <1>2, <1>3, <1>4

LEMMA EquivalentIs ==
  ASSUME rpSystem \in RepoSystems, NEW s, NEW f
  PROVE  /\ \A t, o \in Equivalent(s, f) : t = o
         /\ \A t \in Equivalent(s, f) :
              \E i \in Candidates(s, f) : t = rpSystem.entries[i]
<1>1. Candidates(s, f) \subseteq Nat
  BY PlacesAre DEF Candidates
<1> DEFINE of(channel) ==
             {i \in Candidates(s, f) : rpSystem.entries[i].channel = channel}
<1>2. \A c : of(c) \subseteq Nat /\ of(c) \subseteq Candidates(s, f)
  BY <1>1
<1>3. PICK c : Equivalent(s, f) = FirstEntry(of(c))
  BY DEF Equivalent
<1> HIDE DEF of
<1> QED BY <1>2, <1>3, FirstEntryIs

(* The source decides, and the default channel for what serves a family.   *)
LEMMA SourceDecides ==
  ASSUME UNCHANGED rpSystem
  PROVE  /\ ReposToMap' = ReposToMap
         /\ \A r : EntryOf(r)' = EntryOf(r)
         /\ \A s : FamiliesOf(s)' = FamiliesOf(s)
<1>1. ASSUME NEW r PROVE EntryOf(r)' = EntryOf(r)
  BY DEF EntryOf, SourceEntries, MapEntries, FirstEntry, LastEntry
<1>2. ASSUME NEW r PROVE IsMapped(r)' = IsMapped(r)
  BY <1>1 DEF IsMapped
<1>3. ReposToMap' = ReposToMap
  BY <1>2 DEF ReposToMap
<1>4. ASSUME NEW s PROVE FamiliesOf(s)' = FamiliesOf(s)
  BY DEF FamiliesOf
<1> QED BY <1>1, <1>3, <1>4

LEMMA ChannelDecides ==
  ASSUME UNCHANGED <<rpSystem, rpTop>>
  PROVE  /\ \A s, f : Equivalent(s, f)' = Equivalent(s, f)
         /\ \A t, r, f : Serves(t, r, f)' = Serves(t, r, f)
         /\ \A r, f : Leads(r, f)' = Leads(r, f)
<1>1. ASSUME NEW s, NEW f PROVE Equivalent(s, f)' = Equivalent(s, f)
  BY DEF Equivalent, Candidates, MapEntries, FirstEntry, WantedChannel, RequestedChannel,
         DefaultChannel
<1>2. ASSUME NEW t, NEW r, NEW f PROVE Serves(t, r, f)' = Serves(t, r, f)
  BY <1>1, SourceDecides DEF Serves
<1>3. ASSUME NEW r, NEW f PROVE Leads(r, f)' = Leads(r, f)
  BY SourceDecides DEF Leads
<1> QED BY <1>1, <1>2, <1>3

LEMMA LoadKeeps == ReposInv /\ LoadMapping => ReposInv'
<1> SUFFICES ASSUME ReposInv, LoadMapping PROVE ReposInv'
  OBVIOUS
<1>1. /\ rpAt = "load" /\ UNCHANGED <<rpSystem, rpTop, rpBest>>
      /\ \/ rpAt' = "stopped"
         \/ rpAt' = "channels" /\ rpTodo' = ReposToMap
  BY DEF LoadMapping
<1>2. ReposToMap' = ReposToMap
  BY <1>1, SourceDecides
<1>3. ReposTypes'
  BY <1>1, <1>2 DEF ReposInv, ReposTypes
<1>4. TopInv'
  <2>1. rpTop' = "none" /\ ~ReposMapped' /\ rpAt' # "map"
    BY <1>1 DEF ReposInv, ReposTypes, ReposMapped
  <2>2. rpAt' = "channels" => (ReposToMap \ rpTodo)' = {}
    BY <1>1, <1>2
  <2> QED BY <2>1, <2>2 DEF TopInv, TopOf
<1>5. BestInv'
  BY <1>1 DEF BestInv, ReposMapped
<1> QED BY <1>3, <1>4, <1>5 DEF ReposInv

(* The channel of one more repository is taken when it is better.          *)
LEMMA TopIs ==
  ASSUME rpSystem \in RepoSystems, NEW done, TopOf(done), NEW r,
         rpTop' = TopChannel(r), UNCHANGED rpSystem
  PROVE  TopOf(done \cup {r})'
<1>1. PICK found : found = {s \in EntryOf(r) : s.family = BaseFamily}
  OBVIOUS
<1>2. \A q : EntryOf(q)' = EntryOf(q)
  BY SourceDecides
<1>3. \A s \in EntryOf(r) : s.channel \in Channels
  BY SourceEntryIs
<1>4. CASE found = {}
  <2>1. rpTop' = rpTop
    BY <1>1, <1>4 DEF TopChannel
  <2> QED BY <1>1, <1>2, <1>4, <2>1 DEF TopOf
<1>5. CASE found # {}
  <2>1. PICK s \in found : s = CHOOSE x \in found : TRUE
    BY <1>5
  <2>2. found = {s} /\ s \in EntryOf(r) /\ s.family = BaseFamily
    BY <1>1, SourceEntryIs
  <2>3. rpTop' = IF rpTop = "none" \/ ChannelPrio(s.channel) > ChannelPrio(rpTop)
                 THEN s.channel ELSE rpTop
    BY <1>1, <1>5, <2>1 DEF TopChannel
  <2>4. rpTop' # "none"
    BY <1>3, <2>2, <2>3 DEF Channels
  <2>5. /\ ChannelPrio(s.channel) <= ChannelPrio(rpTop')
        /\ rpTop # "none" => ChannelPrio(rpTop) <= ChannelPrio(rpTop')
    BY <2>3, PrioIs
  <2>6. \A q \in done \cup {r} : \A x \in EntryOf(q) :
          x.family = BaseFamily => ChannelPrio(x.channel) <= ChannelPrio(rpTop')
    <3>1. SUFFICES ASSUME NEW q \in done \cup {r}, NEW x \in EntryOf(q), x.family = BaseFamily
                 PROVE  ChannelPrio(x.channel) <= ChannelPrio(rpTop')
      OBVIOUS
    <3>2. CASE q \in done
      <4>1. rpTop # "none" /\ ChannelPrio(x.channel) <= ChannelPrio(rpTop)
        BY <3>1, <3>2 DEF TopOf
      <4> QED BY <2>5, <4>1, PrioIs
    <3>3. CASE q = r
      <4>1. x = s
        BY <1>1, <2>2, <3>1, <3>3
      <4> QED BY <2>5, <4>1
    <3> QED BY <3>2, <3>3
  <2>7. \E q \in done \cup {r} : \E x \in EntryOf(q) : x.family = BaseFamily /\ rpTop' = x.channel
    <3>1. CASE rpTop' = s.channel
      BY <2>2, <3>1
    <3>2. CASE rpTop' # s.channel
      <4>1. rpTop' = rpTop /\ rpTop # "none"
        BY <2>3, <3>2
      <4> QED BY <4>1 DEF TopOf
    <3> QED BY <3>1, <3>2
  <2> QED BY <1>2, <2>4, <2>6, <2>7 DEF TopOf, ChannelPrio
<1> QED BY <1>4, <1>5

LEMMA ChannelsKeep == ReposInv /\ FindChannels => ReposInv'
<1> SUFFICES ASSUME ReposInv, FindChannels PROVE ReposInv'
  OBVIOUS
<1>1. rpAt = "channels" /\ UNCHANGED <<rpSystem, rpBest>>
  BY DEF FindChannels
<1>2. ReposToMap' = ReposToMap
  BY <1>1, SourceDecides
<1>3. rpTodo \subseteq ReposToMap /\ rpBest = <<>> /\ rpSystem \in RepoSystems
  BY <1>1 DEF ReposInv, ReposTypes
<1>4. TopOf(ReposToMap \ rpTodo)
  BY <1>1 DEF ReposInv, TopInv
<1>5. CASE \E repoid \in rpTodo : /\ rpTop' = TopChannel(repoid)
                                  /\ rpTodo' = rpTodo \ {repoid} /\ UNCHANGED rpAt
  <2>1. PICK repoid \in rpTodo : /\ rpTop' = TopChannel(repoid)
                                 /\ rpTodo' = rpTodo \ {repoid} /\ UNCHANGED rpAt
    BY <1>5
  <2>2. (ReposToMap \ rpTodo)' = (ReposToMap \ rpTodo) \cup {repoid}
    BY <1>2, <1>3, <2>1
  <2>3. PICK done : done = ReposToMap \ rpTodo
    OBVIOUS
  <2>4. TopOf(done \cup {repoid})'
    BY <1>1, <1>3, <1>4, <2>1, <2>3, TopIs
  <2>5. TopOf(ReposToMap \ rpTodo)'
    BY <2>2, <2>3, <2>4
  <2>6. ReposTypes'
    BY <1>1, <1>2, <1>3, <2>1 DEF ReposTypes
  <2> QED BY <1>1, <2>1, <2>5, <2>6 DEF ReposInv, TopInv, BestInv, ReposMapped
<1>6. CASE rpTodo = {} /\ rpAt' = "map" /\ rpTodo' = ReposToMap /\ UNCHANGED rpTop
  <2>1. ReposTypes'
    BY <1>1, <1>2, <1>3, <1>6 DEF ReposTypes
  <2>2. TopOf(ReposToMap)'
    <3>1. \A q : EntryOf(q)' = EntryOf(q)
      BY <1>1, SourceDecides
    <3>2. ReposToMap \ rpTodo = ReposToMap
      BY <1>6
    <3> QED BY <1>2, <1>4, <1>6, <3>1, <3>2 DEF TopOf
  <2>3. BestOf(ReposToMap \ rpTodo)'
    <3>1. (ReposToMap \ rpTodo)' = {} /\ rpBest' = <<>>
      BY <1>1, <1>2, <1>3, <1>6
    <3>2. \A f : f \notin DOMAIN rpBest'
      BY <3>1
    <3> QED BY <3>1, <3>2 DEF BestOf
  <2> QED BY <1>6, <2>1, <2>2, <2>3 DEF ReposInv, TopInv, BestInv, ReposMapped
<1> QED BY <1>5, <1>6 DEF FindChannels

LEMMA BetterIs ==
  ASSUME NEW best, NEW found, \A t, o \in best : t = o, \A t, o \in found : t = o
  PROVE  /\ \A t, o \in Better(best, found) : t = o
         /\ Better(best, found) \subseteq best \cup found
         /\ \A t \in best \cup found : \E b \in Better(best, found) :
              ChannelPrio(t.channel) <= ChannelPrio(b.channel)
<1>1. ASSUME NEW n \in Nat PROVE n <= n
  BY <1>1
<1>2. CASE best = {} \/ found = {}
  <2>1. Better(best, found) = best \cup found
    BY <1>2 DEF Better
  <2> QED BY <1>1, <1>2, <2>1, PrioIs
<1>3. CASE best # {} /\ found # {}
  <2>1. PICK b \in best, n \in found : best = {b} /\ found = {n}
    BY <1>3
  <2>2. Better(best, found) =
          IF ChannelPrio(n.channel) > ChannelPrio(b.channel) THEN {n} ELSE {b}
    BY <1>3, <2>1 DEF Better
  <2>3. ChannelPrio(n.channel) \in Nat /\ ChannelPrio(b.channel) \in Nat
    BY PrioIs
  <2>4. CASE ChannelPrio(n.channel) > ChannelPrio(b.channel)
    <3>1. ChannelPrio(b.channel) <= ChannelPrio(n.channel)
          /\ ChannelPrio(n.channel) <= ChannelPrio(n.channel)
      BY <2>3, <2>4
    <3> QED BY <2>1, <2>2, <2>4, <3>1
  <2>5. CASE ~(ChannelPrio(n.channel) > ChannelPrio(b.channel))
    <3>1. ChannelPrio(n.channel) <= ChannelPrio(b.channel)
          /\ ChannelPrio(b.channel) <= ChannelPrio(b.channel)
      BY <2>3, <2>5
    <3> QED BY <2>1, <2>2, <2>5, <3>1
  <2> QED BY <2>4, <2>5
<1> QED BY <1>2, <1>3

LEMMA BestIs ==
  ASSUME rpSystem \in RepoSystems, NEW done, BestOf(done), NEW r, UNCHANGED <<rpSystem, rpTop>>,
         LET families == UNION {FamiliesOf(s) : s \in EntryOf(r)}
             found(f) == UNION {Equivalent(s, f) : s \in EntryOf(r)}
         IN rpBest' = [f \in DOMAIN rpBest \cup families |->
                         IF f \notin families THEN rpBest[f]
                         ELSE IF f \notin DOMAIN rpBest THEN found(f)
                         ELSE Better(rpBest[f], found(f))]
  PROVE  BestOf(done \cup {r})'
<1> DEFINE families == UNION {FamiliesOf(s) : s \in EntryOf(r)}
           found(f) == UNION {Equivalent(s, f) : s \in EntryOf(r)}
<1>1. \A f : f \in families <=> Leads(r, f)
  BY DEF Leads
<1>2. \A s, q \in EntryOf(r) : s = q
  BY SourceEntryIs
<1>3. \A f \in families : \A t : t \in found(f) <=> Serves(t, r, f)
  BY <1>2 DEF Serves
<1>4. \A f : \A t, o \in found(f) : t = o
  BY <1>2, EquivalentIs
<1>5. \A f, t, q : Serves(t, q, f) => Leads(q, f)
  BY DEF Serves, Leads
<1>6. /\ DOMAIN rpBest' = DOMAIN rpBest \cup families
      /\ \A f \in DOMAIN rpBest \cup families :
           rpBest'[f] = IF f \notin families THEN rpBest[f]
                        ELSE IF f \notin DOMAIN rpBest THEN found(f)
                        ELSE Better(rpBest[f], found(f))
  BY Zenon
<1> HIDE DEF families, found
<1>7. ASSUME NEW f \in DOMAIN rpBest'
      PROVE  /\ \A t, o \in rpBest'[f] : t = o
             /\ \A t \in rpBest'[f] : \E q \in done \cup {r} : Serves(t, q, f)
             /\ \A q \in done \cup {r} : \A t : Serves(t, q, f) =>
                  \E b \in rpBest'[f] : ChannelPrio(t.channel) <= ChannelPrio(b.channel)
  <2>1. CASE f \notin families
    <3>1. rpBest'[f] = rpBest[f] /\ f \in DOMAIN rpBest
      BY <1>6, <1>7, <2>1
    <3>2. \A t : ~Serves(t, r, f)
      BY <1>1, <1>5, <2>1
    <3>3. /\ \A t, o \in rpBest[f] : t = o
          /\ \A t \in rpBest[f] : \E q \in done : Serves(t, q, f)
          /\ \A q \in done : \A t : Serves(t, q, f) =>
               \E b \in rpBest[f] : ChannelPrio(t.channel) <= ChannelPrio(b.channel)
      BY <3>1 DEF BestOf
    <3> QED BY <3>1, <3>2, <3>3
  <2>2. CASE f \in families /\ f \notin DOMAIN rpBest
    <3>1. rpBest'[f] = found(f)
      BY <1>6, <1>7, <2>2
    <3>2. \A q \in done : ~Leads(q, f)
      BY <2>2 DEF BestOf
    <3>3. \A t : ChannelPrio(t.channel) <= ChannelPrio(t.channel)
      <4>1. \A n \in Nat : n <= n
        OBVIOUS
      <4> QED BY <4>1, PrioIs
    <3>4. \A t : t \in rpBest'[f] <=> Serves(t, r, f)
      BY <1>3, <2>2, <3>1
    <3>5. \A t, o \in rpBest'[f] : t = o
      BY <1>4, <3>1
    <3>6. \A q \in done \cup {r} : \A t : Serves(t, q, f) => q = r
      BY <1>5, <3>2
    <3> QED BY <3>3, <3>4, <3>5, <3>6
  <2>3. CASE f \in families /\ f \in DOMAIN rpBest
    <3>1. rpBest'[f] = Better(rpBest[f], found(f))
      BY <1>6, <1>7, <2>3
    <3>2. \A t, o \in rpBest[f] : t = o
      BY <2>3 DEF BestOf
    <3>3. /\ \A t, o \in rpBest'[f] : t = o
          /\ rpBest'[f] \subseteq rpBest[f] \cup found(f)
          /\ \A t \in rpBest[f] \cup found(f) : \E b \in rpBest'[f] :
               ChannelPrio(t.channel) <= ChannelPrio(b.channel)
      <4>1. PICK new : new = found(f)
        OBVIOUS
      <4>2. \A t, o \in new : t = o
        BY <1>4, <4>1
      <4>3. PICK old : old = rpBest[f]
        OBVIOUS
      <4>4. \A t, o \in old : t = o
        BY <3>2, <4>3
      <4>5. /\ \A t, o \in Better(old, new) : t = o
            /\ Better(old, new) \subseteq old \cup new
            /\ \A t \in old \cup new : \E b \in Better(old, new) :
                 ChannelPrio(t.channel) <= ChannelPrio(b.channel)
        BY <4>2, <4>4, BetterIs
      <4>6. Better(old, new) = rpBest'[f]
        BY <3>1, <4>1, <4>3
      <4>7. rpBest[f] \cup found(f) = old \cup new
        BY <4>1, <4>3
      <4>8. \A t, o \in rpBest'[f] : t = o
        BY <4>5, <4>6
      <4>9. rpBest'[f] \subseteq rpBest[f] \cup found(f)
        BY <4>5, <4>6, <4>7
      <4>10. ASSUME NEW t \in rpBest[f] \cup found(f)
             PROVE  \E b \in rpBest'[f] : ChannelPrio(t.channel) <= ChannelPrio(b.channel)
        <5>1. t \in old \cup new
          BY <4>7, <4>10
        <5>2. PICK best \in Better(old, new) : ChannelPrio(t.channel) <= ChannelPrio(best.channel)
          BY <4>5, <5>1
        <5> QED BY <4>6, <5>2
      <4> QED BY <4>8, <4>9, <4>10
    <3>4. \A t \in rpBest'[f] : \E q \in done \cup {r} : Serves(t, q, f)
      BY <1>3, <2>3, <3>3 DEF BestOf
    <3>5. ASSUME NEW q \in done \cup {r}, NEW t, Serves(t, q, f)
          PROVE  \E b \in rpBest'[f] : ChannelPrio(t.channel) <= ChannelPrio(b.channel)
      <4>1. CASE q = r
        BY <1>3, <2>3, <3>3, <3>5, <4>1
      <4>2. CASE q \in done
        <5>1. PICK o \in rpBest[f] : ChannelPrio(t.channel) <= ChannelPrio(o.channel)
          BY <3>5, <4>2 DEF BestOf
        <5>2. PICK b \in rpBest'[f] : ChannelPrio(o.channel) <= ChannelPrio(b.channel)
          BY <3>3
        <5>3. \A k, m, n \in Nat : k <= m /\ m <= n => k <= n
          OBVIOUS
        <5>4. ChannelPrio(t.channel) <= ChannelPrio(b.channel)
          BY <5>1, <5>2, <5>3, PrioIs
        <5> QED BY <5>4
      <4> QED BY <4>1, <4>2
    <3> QED BY <3>3, <3>4, <3>5
  <2> QED BY <2>1, <2>2, <2>3
<1>8. \A f : f \in DOMAIN rpBest' <=> \E q \in done \cup {r} : Leads(q, f)
  BY <1>1, <1>6 DEF BestOf
<1>9. ASSUME NEW q \in done \cup {r}, NEW f, NEW t, Serves(t, q, f)
      PROVE  \E b \in rpBest'[f] : ChannelPrio(t.channel) <= ChannelPrio(b.channel)
  BY <1>5, <1>7, <1>8, <1>9
<1>10. /\ \A t, q, f : Serves(t, q, f)' = Serves(t, q, f)
       /\ \A q, f : Leads(q, f)' = Leads(q, f)
  BY ChannelDecides
<1>11. \A f : (f \in DOMAIN rpBest <=> \E q \in done \cup {r} : Leads(q, f))'
  BY <1>8, <1>10
<1>12. \A f \in DOMAIN rpBest' : (/\ \A t, o \in rpBest[f] : t = o
                                 /\ \A t \in rpBest[f] : \E q \in done \cup {r} : Serves(t, q, f))'
  BY <1>7, <1>10
<1>13. \A q \in done \cup {r} : \A f, t : Serves(t, q, f) =>
         \E b \in rpBest'[f] : ChannelPrio(t.channel) <= ChannelPrio(b.channel)
  BY <1>9
<1>14. ASSUME NEW q \in done \cup {r}, NEW f, NEW t, Serves(t, q, f)'
       PROVE  (\E best \in rpBest[f] : ChannelPrio(t.channel) <= ChannelPrio(best.channel))'
  <2>1. PICK best \in rpBest'[f] : ChannelPrio(t.channel) <= ChannelPrio(best.channel)
    BY <1>10, <1>13, <1>14
  <2> QED BY <2>1 DEF ChannelPrio
<1> QED BY <1>11, <1>12, <1>14 DEF BestOf

LEMMA MapKeeps ==
  ASSUME ReposInv, NEW repoid \in rpTodo, MapRepository(repoid)
  PROVE  ReposInv'
<1>1. rpAt = "map" /\ rpTodo' = rpTodo \ {repoid} /\ UNCHANGED <<rpSystem, rpAt, rpTop, rpTarget>>
  BY DEF MapRepository
<1>2. ReposToMap' = ReposToMap
  BY <1>1, SourceDecides
<1>3. rpTodo \subseteq ReposToMap /\ rpSystem \in RepoSystems
  BY <1>1 DEF ReposInv, ReposTypes
<1>4. PICK done : done = ReposToMap \ rpTodo
  OBVIOUS
<1>5. (ReposToMap \ rpTodo)' = done \cup {repoid}
  BY <1>1, <1>2, <1>3, <1>4
<1>6. BestOf(done)
  BY <1>1, <1>4 DEF ReposInv, BestInv
<1>7. BestOf(done \cup {repoid})'
  BY <1>1, <1>3, <1>6, BestIs DEF MapRepository
<1>8. TopOf(ReposToMap)'
  <2>1. \A q : EntryOf(q)' = EntryOf(q)
    BY <1>1, SourceDecides
  <2>2. TopOf(ReposToMap)
    BY <1>1 DEF ReposInv, TopInv
  <2> QED BY <1>1, <1>2, <2>1, <2>2 DEF TopOf
<1>9. ReposTypes'
  BY <1>1, <1>2, <1>3 DEF ReposTypes
<1> QED BY <1>1, <1>5, <1>7, <1>8, <1>9 DEF ReposInv, TopInv, BestInv, ReposMapped

LEMMA MappedStays ==
  ASSUME UNCHANGED <<rpSystem, rpTop, rpBest>>
  PROVE  /\ TopOf(ReposToMap)' = TopOf(ReposToMap)
         /\ BestOf(ReposToMap)' = BestOf(ReposToMap)
         /\ BestOf(ReposToMap \ rpTodo) /\ rpTodo = {} => BestOf(ReposToMap)'
         /\ TargetRepoids' = TargetRepoids
<1>1. ReposToMap' = ReposToMap /\ \A q : EntryOf(q)' = EntryOf(q)
  BY SourceDecides
<1>2. /\ \A t, q, f : Serves(t, q, f)' = Serves(t, q, f)
      /\ \A q, f : Leads(q, f)' = Leads(q, f)
  BY ChannelDecides
<1>3. TopOf(ReposToMap)' = TopOf(ReposToMap)
  BY <1>1 DEF TopOf, ChannelPrio
<1>4. BestOf(ReposToMap)' = BestOf(ReposToMap)
  BY <1>1, <1>2 DEF BestOf, ChannelPrio
<1>5. rpTodo = {} => ReposToMap \ rpTodo = ReposToMap
  OBVIOUS
<1>6. TargetRepoids' = TargetRepoids
  BY DEF TargetRepoids, ChosenRepos
<1> QED BY <1>3, <1>4, <1>5, <1>6

LEMMA SetupKeeps == ReposInv /\ SetupTargetRepos => ReposInv'
<1> SUFFICES ASSUME ReposInv, SetupTargetRepos PROVE ReposInv'
  OBVIOUS
<1>1. /\ rpAt = "map" /\ rpTodo = {} /\ rpAt' = "check" /\ rpTarget' = TargetRepoids
      /\ UNCHANGED <<rpSystem, rpTodo, rpTop, rpBest>>
  BY DEF SetupTargetRepos
<1>2. TopOf(ReposToMap) /\ BestOf(ReposToMap \ rpTodo)
  BY <1>1 DEF ReposInv, TopInv, BestInv
<1>3. TopOf(ReposToMap)' /\ BestOf(ReposToMap)' /\ rpTarget' = TargetRepoids'
  BY <1>1, <1>2, MappedStays
<1>4. ReposTypes'
  BY <1>1 DEF ReposInv, ReposTypes
<1> QED BY <1>1, <1>3, <1>4 DEF ReposInv, TopInv, BestInv

LEMMA CheckKeeps == ReposInv /\ CheckTargetRepos => ReposInv'
<1> SUFFICES ASSUME ReposInv, CheckTargetRepos PROVE ReposInv'
  OBVIOUS
<1>1. /\ rpAt = "check" /\ rpAt' \in {"accepted", "inhibited"}
      /\ UNCHANGED <<rpSystem, rpTop, rpBest, rpTarget>>
  BY DEF CheckTargetRepos
<1>2. TopOf(ReposToMap) /\ BestOf(ReposToMap) /\ rpTarget = TargetRepoids
  BY <1>1 DEF ReposInv, TopInv, BestInv, ReposMapped
<1>3. TopOf(ReposToMap)' /\ BestOf(ReposToMap)' /\ rpTarget' = TargetRepoids'
  BY <1>1, <1>2, MappedStays
<1>4. ReposTypes'
  BY <1>1 DEF ReposInv, ReposTypes
<1> QED BY <1>1, <1>3, <1>4 DEF ReposInv, TopInv, BestInv

LEMMA StillRepos == ReposInv /\ UNCHANGED rpVars => ReposInv'
<1> SUFFICES ASSUME ReposInv, UNCHANGED rpVars PROVE ReposInv'
  OBVIOUS
<1>1. UNCHANGED <<rpSystem, rpAt, rpTodo, rpTop, rpBest, rpTarget>>
  BY DEF rpVars
<1>2. ReposToMap' = ReposToMap /\ \A q : EntryOf(q)' = EntryOf(q)
  BY <1>1, SourceDecides
<1>3. /\ \A t, q, f : Serves(t, q, f)' = Serves(t, q, f)
      /\ \A q, f : Leads(q, f)' = Leads(q, f)
  BY <1>1, ChannelDecides
<1>4. TargetRepoids' = TargetRepoids
  BY <1>1, MappedStays
<1>5. ReposTypes'
  BY <1>1, <1>2 DEF ReposInv, ReposTypes
<1>6. TopInv'
  BY <1>1, <1>2 DEF ReposInv, TopInv, TopOf, ReposMapped, ChannelPrio
<1>7. BestInv'
  BY <1>1, <1>2, <1>3, <1>4 DEF ReposInv, BestInv, BestOf, ReposMapped, ChannelPrio
<1> QED BY <1>5, <1>6, <1>7 DEF ReposInv

LEMMA ReposInductive == RepoSpec => []ReposInv
<1>1. RepoInit => ReposInv
  BY DEF RepoInit, ReposInv, ReposTypes, TopInv, BestInv, ReposMapped
<1>2. ReposInv /\ [RepoNext]_rpVars => ReposInv'
  BY LoadKeeps, ChannelsKeep, MapKeeps, SetupKeeps, CheckKeeps, StillRepos DEF RepoNext
<1> QED BY <1>1, <1>2, PTL DEF RepoSpec

LEMMA ServersServe ==
  ASSUME NEW t, NEW f
  PROVE  t \in Servers(f) <=> \E r \in ReposToMap : Serves(t, r, f)
BY DEF Servers, Serves

LEMMA ReposServed == ReposInv => EachFamilyIsServed /\ HighestChannelIsChosen
<1> SUFFICES ASSUME ReposInv, ReposMapped PROVE EachFamilyIsServed /\ HighestChannelIsChosen
  BY DEF EachFamilyIsServed, HighestChannelIsChosen
<1>1. BestOf(ReposToMap) /\ rpTarget = TargetRepoids
  BY DEF ReposInv, BestInv
<1>2. ASSUME NEW f, NEW t \in Servers(f)
      PROVE  \E best \in rpBest[f] : /\ ChannelPrio(t.channel) <= ChannelPrio(best.channel)
                                     /\ \A o \in rpBest[f] : o = best
  <2>1. PICK r \in ReposToMap : Serves(t, r, f)
    BY <1>2, ServersServe
  <2>2. f \in DOMAIN rpBest
    BY <1>1, <2>1 DEF BestOf, Serves, Leads
  <2> QED BY <1>1, <2>1, <2>2 DEF BestOf
<1>3. HighestChannelIsChosen
  BY <1>2 DEF HighestChannelIsChosen
<1>4. EachFamilyIsServed
  <2>1. SUFFICES ASSUME NEW r \in ReposToMap, NEW s \in EntryOf(r), NEW f \in FamiliesOf(s),
                        Servers(f) # {}
                 PROVE  \E t \in Servers(f) : t.repoid \in rpTarget \cup rpSystem.excluded
    BY DEF EachFamilyIsServed
  <2>2. PICK best \in rpBest[f] : TRUE
    BY <1>2, <2>1
  <2>3. f \in DOMAIN rpBest
    BY <1>1 DEF BestOf, Leads
  <2>4. best \in Servers(f)
    BY <1>1, <2>3, ServersServe DEF BestOf
  <2>5. best.repoid \in rpTarget \cup rpSystem.excluded
    BY <1>1, <2>3 DEF TargetRepoids, ChosenRepos
  <2> QED BY <2>4, <2>5
<1> QED BY <1>3, <1>4

LEMMA CloudStays == ReposInv => CloudStaysCloud
<1> SUFFICES ASSUME ReposInv, ReposMapped, NEW f \in DOMAIN rpBest, NEW t \in rpBest[f],
                    t.rhui # rpSystem.cloud
             PROVE  \E r \in ReposToMap : \E s \in EntryOf(r) :
                      /\ f \in FamiliesOf(s) /\ s.rhui = t.rhui
                      /\ \A i \in SourceEntries(r) : rpSystem.entries[i].rhui # rpSystem.cloud
  BY DEF CloudStaysCloud
<1>1. BestOf(ReposToMap) /\ rpSystem \in RepoSystems
  BY DEF ReposInv, BestInv, ReposTypes
<1>2. PICK r \in ReposToMap : Serves(t, r, f)
  BY <1>1 DEF BestOf
<1>3. PICK s \in EntryOf(r) : f \in FamiliesOf(s) /\ t \in Equivalent(s, f)
  BY <1>2 DEF Serves
<1>4. t.rhui = s.rhui
  BY <1>1, <1>3, EquivalentIs DEF Candidates
<1>5. \A i \in SourceEntries(r) : rpSystem.entries[i].rhui # rpSystem.cloud
  BY <1>1, <1>3, <1>4, SourceEntryIs
<1> QED BY <1>3, <1>4, <1>5

LEMMA PremiumIs ==
  ASSUME NEW c \in Channels \cup {"none"}
  PROVE  ChannelPrio(c) >= 10 <=> c \notin {"beta", "ga"}
BY DEF ChannelPrio, Channels

LEMMA SystemPreferred == ReposInv => SystemChannelIsPreferred
<1> SUFFICES ASSUME ReposInv, ReposMapped,
                    NEW r \in ReposToMap, NEW s \in EntryOf(r), NEW f \in FamiliesOf(s),
                    PremiumChannels # {},
                    PremiumChannels \subseteq {rpSystem.entries[i].channel : i \in Candidates(s, f)},
                    WantedChannel(s) \notin {rpSystem.entries[i].channel : i \in Candidates(s, f)}
             PROVE  \E t \in rpBest[f] : t.channel \notin {"beta", "ga"}
  BY DEF SystemChannelIsPreferred
<1> DEFINE of(channel) ==
             {i \in Candidates(s, f) : rpSystem.entries[i].channel = channel}
<1>1. BestOf(ReposToMap) /\ TopOf(ReposToMap) /\ rpSystem \in RepoSystems
  BY DEF ReposInv, BestInv, TopInv, ReposTypes
<1>2. /\ rpTop \in PremiumChannels
      /\ rpTop \notin {"none", "beta", "ga"}
  <2>1. PICK q \in ReposToMap : \E b \in EntryOf(q) :
               b.family = BaseFamily /\ b.channel \notin {"beta", "ga"}
    BY DEF PremiumChannels
  <2>8. PICK b \in EntryOf(q) : b.family = BaseFamily /\ b.channel \notin {"beta", "ga"}
    BY <2>1
  <2>2. b.channel \in Channels /\ rpTop # "none" /\ ChannelPrio(b.channel) <= ChannelPrio(rpTop)
    BY <1>1, <2>8, SourceEntryIs DEF TopOf
  <2>3. PICK p \in ReposToMap : \E x \in EntryOf(p) : x.family = BaseFamily /\ rpTop = x.channel
    BY <1>1, <2>2 DEF TopOf
  <2>4. rpTop \in Channels
    BY <1>1, <2>3, SourceEntryIs
  <2>5. ChannelPrio(b.channel) >= 10
    BY <2>8, <2>2, PremiumIs
  <2>6. ChannelPrio(rpTop) >= 10
    BY <2>2, <2>5, PrioIs
  <2>7. rpTop \notin {"beta", "ga"}
    BY <2>4, <2>6, PremiumIs
  <2> QED BY <2>2, <2>3, <2>7 DEF PremiumChannels
<1>3. of(WantedChannel(s)) = {} /\ of(rpTop) # {} /\ DefaultChannel = rpTop
  BY <1>2 DEF DefaultChannel
<1>4. Equivalent(s, f) = FirstEntry(of(rpTop))
  BY <1>3 DEF Equivalent
<1>5. of(rpTop) \subseteq Nat
  BY <1>1, PlacesAre DEF Candidates
<1> HIDE DEF of
<1>6. PICK t \in Equivalent(s, f) : TRUE
  BY <1>3, <1>4, <1>5, FirstEntryIs
<1>7. t.channel = rpTop
  BY <1>4, <1>5, FirstEntryIs DEF of
<1>8. PICK best \in rpBest[f] : ChannelPrio(t.channel) <= ChannelPrio(best.channel)
  BY <1>1, <1>6 DEF BestOf, Serves
<1>9. best.channel \in Channels
  <2>1. f \in DOMAIN rpBest
    BY <1>1 DEF BestOf, Leads
  <2>2. PICK q \in ReposToMap : \E x \in EntryOf(q) : best \in Equivalent(x, f)
    BY <1>1, <2>1 DEF BestOf, Serves
  <2>3. PICK i \in MapEntries : best = rpSystem.entries[i]
    BY <1>1, <2>2, EquivalentIs DEF Candidates
  <2> QED BY <1>1, <2>3, PlacesAre DEF IsRepoEntry
<1>10. ChannelPrio(rpTop) >= 10
  BY <1>2, <1>7 DEF ChannelPrio
<1>11. ChannelPrio(best.channel) >= 10
  BY <1>7, <1>8, <1>10, PrioIs
<1> QED BY <1>9, <1>11, PremiumIs

(* Whatever the map, the clouds and channels in it and the order in which  *)
(* the repositories of the source are looked at, each family in use gets   *)
(* the best repository for it (get_expected_target_pesid_repos,            *)
(* get_default_repository_channels, get_pesid_repo_entry).                 *)
THEOREM BestChosen == RepoSpec => []BestRepositoriesAreChosen
<1>1. ReposInv => BestRepositoriesAreChosen
  BY ReposServed, CloudStays, SystemPreferred DEF BestRepositoriesAreChosen
<1> QED BY <1>1, ReposInductive, PTL

-----------------------------------------------------------------------------
(* UpgradePath.                                                            *)

LEMMA PathSystemIs == ASSUME upSystem \in PathSystems PROVE IsPathSystem(upSystem)
BY PathAssumption

LEMMA PathIs ==
    ASSUME NEW d \in Distros, NEW f \in Flavours, NEW v \in DOMAIN Paths(d, f)
    PROVE  IsPath(d, v, Paths(d, f)[v])
BY PathAssumption DEF IsPathTable

LEMMA PathTargetIs ==
    ASSUME NEW d \in Distros, NEW f \in Flavours, NEW v \in DOMAIN Paths(d, f),
           NEW t \in ToSet(Paths(d, f)[v])
    PROVE  /\ t \in Seq(Nat) /\ WellFormed(t, d) /\ HasVirtual(d, t)
           /\ t[1] = v[1] + 1
<1> DEFINE ts == Paths(d, f)[v]
<1>1. IsPath(d, v, ts)
  BY PathIs
<1> HIDE DEF ts
<1>2. t \in Range(ts) /\ ts \in Seq(Seq(Nat))
  BY <1>1 DEF IsPath, ToSet, Range, ts
<1>3. t \in Seq(Nat)
  BY <1>2 DEF Range
<1> QED BY <1>1, <1>2, <1>3 DEF IsPath

LEMMA RhelMinorIs ==
    ASSUME NEW f \in Flavours, NEW v \in DOMAIN Paths("rhel", f),
           NEW t \in ToSet(Paths("rhel", f)[v]),
           Len(v) = 2, v = Virtual("centos", <<v[1]>>)
    PROVE  t[2] < 10
<1> DEFINE ts == Paths("rhel", f)[v]
<1>1. IsPath("rhel", v, ts)
  BY PathIs DEF Distros
<1> HIDE DEF ts
<1>2. t \in Range(ts)
  BY DEF ToSet, Range, ts
<1> QED BY <1>1, <1>2 DEF IsPath

LEMMA LastPath ==
    ASSUME NEW d \in Distros, NEW f \in Flavours, NEW v \in DOMAIN Paths(d, f)
    PROVE  /\ Paths(d, f)[v] # <<>>
           /\ Last(Paths(d, f)[v]) \in ToSet(Paths(d, f)[v])
<1> DEFINE ts == Paths(d, f)[v]
<1>1. ts \in Seq(Seq(Nat)) /\ ts # <<>>
  BY PathIs DEF IsPath
<1> HIDE DEF ts
<1>2. Last(ts) \in ToSet(ts)
  BY <1>1 DEF Last, ToSet
<1> QED BY <1>1, <1>2 DEF ts

LEMMA SingleIs ==
    ASSUME NEW s \in Seq(Nat), Len(s) = 1
    PROVE  s[1] \in Nat /\ s = <<s[1]>>
<1>1. s[1] \in Nat
  <2>1. 1 \in 1..Len(s)
    OBVIOUS
  <2> QED BY <2>1, ElementOfSeq
<1>2. /\ <<s[1]>> \in Seq(Nat) /\ Len(<<s[1]>>) = 1
      /\ \A i \in 1..1 : s[i] = <<s[1]>>[i]
  BY <1>1
<1>3. s = <<s[1]>>
  BY <1>2, SeqEqual
<1> QED BY <1>1, <1>3

LEMMA PairIs ==
    ASSUME NEW s \in Seq(Nat), Len(s) = 2
    PROVE  s[1] \in Nat /\ s[2] \in Nat /\ s = <<s[1], s[2]>>
<1>1. s[1] \in Nat /\ s[2] \in Nat
  <2>1. 1 \in 1..Len(s) /\ 2 \in 1..Len(s)
    OBVIOUS
  <2> QED BY <2>1, ElementOfSeq
<1>2. /\ <<s[1], s[2]>> \in Seq(Nat) /\ Len(<<s[1], s[2]>>) = 2
      /\ \A i \in 1..2 : s[i] = <<s[1], s[2]>>[i]
  BY <1>1
<1>3. s = <<s[1], s[2]>>
  BY <1>2, SeqEqual
<1> QED BY <1>1, <1>3

LEMMA VirtualIs ==
    ASSUME NEW v \in Seq(Nat), Len(v) \in 1..2, NEW d
    PROVE  /\ Virtual(d, v) \in Seq(Nat) /\ Virtual(d, v)[1] = v[1]
           /\ Len(Virtual(d, v)) \in 1..2
           /\ d # "centos" => Virtual(d, v) = v
           /\ (d = "centos" /\ HasVirtual(d, v)) =>
                 Virtual(d, v) = <<v[1], VirtualMinor[v[1]]>> /\ Len(Virtual(d, v)) = 2
<1>1. v[1] \in Nat
  OBVIOUS
<1>2. v[1] \in DOMAIN VirtualMinor => VirtualMinor[v[1]] \in Nat
  BY PathAssumption DEF IsPathTable, Range
<1> QED BY <1>1, <1>2 DEF Virtual, HasVirtual

LEMMA SameVirtual ==
    ASSUME NEW d \in Distros, NEW f \in Flavours,
           NEW v \in DOMAIN Paths(d, f), NEW w \in DOMAIN Paths(d, f),
           Virtual(d, v) = Virtual(d, w)
    PROVE  v = w
<1>1. IsPath(d, v, Paths(d, f)[v]) /\ IsPath(d, w, Paths(d, f)[w])
  BY PathIs
<1>2. CASE d # "centos"
  BY <1>1, <1>2, VirtualIs DEF IsPath
<1>3. CASE d = "centos"
  <2>1. /\ v \in Seq(Nat) /\ Len(v) = 1 /\ w \in Seq(Nat) /\ Len(w) = 1
    BY <1>1, <1>3 DEF IsPath
  <2>2. v[1] = w[1]
    BY <2>1, VirtualIs
  <2> QED BY <2>1, <2>2, SingleIs
<1> QED BY <1>2, <1>3

-----------------------------------------------------------------------------
OwnPaths == Paths(upSystem.distro, upSystem.flavour)
TheirPaths == Paths(upSystem.target, upSystem.flavour)
StandsFor(v, w) == Virtual(upSystem.target, w) = Virtual(upSystem.distro, v)

(* The paths of the actor are the two tables joined on virtual releases.   *)
LEMMA RawPathsAre ==
    ASSUME upSystem \in PathSystems
    PROVE  /\ \A v \in DOMAIN RawPaths :
                /\ v \in DOMAIN OwnPaths
                /\ \E w \in DOMAIN TheirPaths : StandsFor(v, w) /\ RawPaths[v] = TheirPaths[w]
           /\ \A v \in DOMAIN OwnPaths, w \in DOMAIN TheirPaths :
                StandsFor(v, w) => v \in DOMAIN RawPaths /\ RawPaths[v] = TheirPaths[w]
<1>1. /\ upSystem.distro \in Distros /\ upSystem.target \in Distros
      /\ upSystem.flavour \in Flavours
  BY PathSystemIs DEF IsPathSystem
<1>2. CASE upSystem.distro = upSystem.target
  <2>1. RawPaths = OwnPaths /\ OwnPaths = TheirPaths
    BY <1>2 DEF RawPaths, OwnPaths, TheirPaths
  <2>2. \A v, w \in DOMAIN OwnPaths : StandsFor(v, w) => v = w
    BY <1>1, <1>2, SameVirtual DEF StandsFor, OwnPaths
  <2>3. \A v : StandsFor(v, v)
    BY <1>2 DEF StandsFor
  <2> QED BY <2>1, <2>2, <2>3
<1>3. CASE upSystem.distro # upSystem.target
  <2>1. RawPaths = CrossDistroPaths(OwnPaths, TheirPaths)
    BY <1>3 DEF RawPaths, OwnPaths, TheirPaths
  <2>2. \A v : Equivalents(v, TheirPaths) = {w \in DOMAIN TheirPaths : StandsFor(v, w)}
    BY DEF Equivalents, StandsFor
  <2>3. \A v : \A w, u \in DOMAIN TheirPaths : StandsFor(v, w) /\ StandsFor(v, u) => w = u
    BY <1>1, SameVirtual DEF StandsFor, TheirPaths
  <2>4. RawPaths = [v \in {w \in DOMAIN OwnPaths : Equivalents(w, TheirPaths) # {}} |->
                      TheirPaths[CHOOSE w \in Equivalents(v, TheirPaths) : TRUE]]
    BY <2>1 DEF CrossDistroPaths
  <2>5. ASSUME NEW v \in DOMAIN OwnPaths, NEW w \in DOMAIN TheirPaths, StandsFor(v, w)
        PROVE  v \in DOMAIN RawPaths /\ RawPaths[v] = TheirPaths[w]
    <3>1. Equivalents(v, TheirPaths) = {w}
      BY <2>2, <2>3, <2>5
    <3>2. (CHOOSE u \in Equivalents(v, TheirPaths) : TRUE) = w
      BY <3>1
    <3> QED BY <2>4, <3>1, <3>2
  <2>6. ASSUME NEW v \in DOMAIN RawPaths
        PROVE  /\ v \in DOMAIN OwnPaths
               /\ \E w \in DOMAIN TheirPaths : StandsFor(v, w)
    BY <2>2, <2>4
  <2> QED BY <2>5, <2>6
<1> QED BY <1>2, <1>3

-----------------------------------------------------------------------------
(* The targets from CentOS to RHEL have a latest one, and its place in the *)
(* order of strings is that of its minor version.                          *)
LEMMA LatestIs ==
    ASSUME upSystem \in PathSystems, IsCentosToRhel,
           NEW w \in DOMAIN TheirPaths, NEW v \in DOMAIN OwnPaths, StandsFor(v, w)
    PROVE  /\ LatestAsString(TheirPaths[w]) \in ToSet(TheirPaths[w])
           /\ \A t \in ToSet(TheirPaths[w]) : t[2] <= LatestAsString(TheirPaths[w])[2]
           /\ \A t \in ToSet(TheirPaths[w]) : t[2] \in 0..9 /\ t = <<w[1] + 1, t[2]>>
<1> DEFINE ts == ToSet(TheirPaths[w])
<1>1. /\ upSystem.distro = "centos" /\ upSystem.target = "rhel"
      /\ upSystem.flavour \in Flavours /\ "centos" \in Distros /\ "rhel" \in Distros
  BY PathSystemIs DEF IsPathSystem, IsCentosToRhel, Distros
<1>2. /\ v \in Seq(Nat) /\ Len(v) = 1 /\ HasVirtual("centos", v)
      /\ w \in Seq(Nat) /\ Len(w) \in 1..2
  BY <1>1, PathIs DEF IsPath, OwnPaths, TheirPaths
<1>3. w = Virtual("centos", v) /\ v = <<v[1]>> /\ w[1] = v[1] /\ Len(w) = 2
  BY <1>1, <1>2, VirtualIs, SingleIs DEF StandsFor
<1>4. w = Virtual("centos", <<w[1]>>)
  BY <1>3
<1>5. \A t \in ts : t \in Seq(Nat) /\ WellFormed(t, "rhel") /\ t[1] = w[1] + 1 /\ t[2] < 10
  BY <1>1, <1>3, <1>4, PathTargetIs, RhelMinorIs DEF TheirPaths
<1>6. \A t \in ts : t[2] \in 0..9 /\ t = <<w[1] + 1, t[2]>>
  <2> TAKE t \in ts
  <2>1. t \in Seq(Nat) /\ Len(t) = 2 /\ t[1] = w[1] + 1 /\ t[2] < 10
    BY <1>5 DEF WellFormed
  <2>2. t[2] \in Nat /\ t = <<t[1], t[2]>>
    <3> HIDE DEF ts
    <3> QED BY ONLY <2>1, PairIs
  <2>3. t[2] \in 0..9
    BY <2>1, <2>2
  <2>4. <<t[1], t[2]>> = <<w[1] + 1, t[2]>>
    BY <2>1
  <2> QED BY <2>2, <2>3, <2>4
<1>7. ts # {}
  BY <1>1, LastPath DEF TheirPaths
<1> HIDE DEF ts
<1>8. PICK t \in ts : \A u \in ts : u[2] <= t[2]
  <2>1. {u[2] : u \in ts} \in SUBSET (0..10) /\ {u[2] : u \in ts} # {}
    BY <1>6, <1>7
  <2>2. \A m \in {u[2] : u \in ts} : m <= Max({u[2] : u \in ts})
    BY <2>1, GreatestMinor
  <2>5. Max({u[2] : u \in ts}) \in {u[2] : u \in ts}
    BY <2>1, GreatestMinor
  <2>3. PICK t \in ts : t[2] = Max({u[2] : u \in ts})
    BY <2>5
  <2>4. \A u \in ts : u[2] <= t[2]
    BY <2>2, <2>3
  <2> QED BY <2>4
<1>9. \A m, n \in 0..9 : StringOrder(m) <= StringOrder(n) <=> m <= n
  BY DEF StringOrder
<1>10. \A u \in ts : StringOrder(u[2]) <= StringOrder(t[2])
  BY <1>6, <1>8, <1>9
<1>11. LatestAsString(TheirPaths[w]) =
         CHOOSE x \in ts : \A u \in ts : StringOrder(u[2]) <= StringOrder(x[2])
  BY DEF LatestAsString, ts
<1>12. LatestAsString(TheirPaths[w]) \in ts
       /\ \A u \in ts : StringOrder(u[2]) <= StringOrder(LatestAsString(TheirPaths[w])[2])
  BY <1>8, <1>10, <1>11
<1> QED BY <1>6, <1>9, <1>12 DEF ts

-----------------------------------------------------------------------------
(* What the target release is once the command has chosen it.              *)
TargetIsChosen ==
    \/ /\ upSystem.asked # NoVersion /\ WellFormed(upSystem.asked, upSystem.target)
       /\ upTarget = upSystem.asked
    \/ /\ upSystem.asked = NoVersion /\ WellFormed(upSystem.version, upSystem.distro)
       /\ upTarget = (IF CommandTargets = <<>> THEN NoVersion ELSE Last(CommandTargets))
Malformed ==
    IF upSystem.asked # NoVersion THEN ~WellFormed(upSystem.asked, upSystem.target)
    ELSE ~CanChoose

PathReports == OsReleaseReports \cup TargetReports \cup SupportReports

(* Each step of the command and of the actors is decided by the system: the *)
(* target the command chooses, the paths, and the reports about the two.    *)
PathInv ==
    /\ upSystem \in PathSystems
    /\ upAt \in {"command", "config", "checks", "accepted", "inhibited", "stopped"}
    /\ upAt \in {"config", "checks", "accepted", "inhibited"} => TargetIsChosen
    /\ upAt \in {"checks", "accepted", "inhibited"} =>
         CanBeConfigured /\ upPaths = SupportedPaths
    /\ upAt \in {"accepted", "inhibited"} =>
         /\ upReports = PathReports
         /\ (upAt = "inhibited" <=> "inhibitor" \in upReports)
    /\ upAt = "stopped" => Malformed \/ (TargetIsChosen /\ ~CanBeConfigured)

LEMMA ChosenStays ==
    ASSUME UNCHANGED upSystem
    PROVE  /\ Malformed' <=> Malformed
           /\ UNCHANGED upTarget => (TargetIsChosen' <=> TargetIsChosen)
BY DEF Malformed, CanChoose, TargetIsChosen, CommandTargets, LookedUp

LEMMA ConfiguredStays ==
    ASSUME UNCHANGED upSystem
    PROVE  /\ SupportedPaths' = SupportedPaths
           /\ UNCHANGED upTarget => (CanBeConfigured' <=> CanBeConfigured)
<1>1. UNCHANGED <<RawPaths, IsCentosToRhel>>
  BY DEF RawPaths, CrossDistroPaths, Equivalents, IsCentosToRhel
<1>2. UNCHANGED OfSourceMajor(RawPaths)
  BY <1>1 DEF OfSourceMajor
<1> QED BY <1>1, <1>2 DEF SupportedPaths, CanBeConfigured, RequiredMajor

LEMMA CheckedStay ==
    ASSUME UNCHANGED <<upSystem, upPaths>>
    PROVE  CheckedTargets' = CheckedTargets
BY DEF CheckedTargets

LEMMA PathReportsStay ==
    ASSUME UNCHANGED <<upSystem, upTarget, upPaths>>
    PROVE  PathReports' = PathReports
BY CheckedStay DEF PathReports, OsReleaseReports, TargetReports, SupportReports

LEMMA PathStart == PathInit => PathInv
BY DEF PathInit, PathInv

LEMMA TargetIsTaken == PathInv /\ GetTargetRelease => PathInv'
<1> SUFFICES ASSUME PathInv, GetTargetRelease PROVE PathInv'
  OBVIOUS
<1>1. UNCHANGED upSystem /\ upSystem \in PathSystems
  BY DEF PathInv, GetTargetRelease
<1>2. CASE upAt' = "config"
  <2>1. TargetIsChosen'
    BY <1>2 DEF GetTargetRelease, CanChoose, TargetIsChosen, CommandTargets, LookedUp
  <2> QED BY <1>1, <1>2, <2>1 DEF PathInv
<1>3. CASE upAt' = "stopped"
  <2>1. Malformed
    BY <1>3 DEF GetTargetRelease, Malformed
  <2> QED BY <1>1, <1>3, <2>1, ChosenStays DEF PathInv
<1> QED BY <1>2, <1>3 DEF GetTargetRelease

LEMMA IpuConfigured == PathInv /\ ProduceIpuConfig => PathInv'
<1> SUFFICES ASSUME PathInv, ProduceIpuConfig PROVE PathInv'
  OBVIOUS
<1>1. /\ UNCHANGED <<upSystem, upTarget>> /\ upSystem \in PathSystems
      /\ TargetIsChosen' /\ upAt' \in {"checks", "stopped"}
  BY ChosenStays DEF PathInv, ProduceIpuConfig
<1>2. upAt' = "checks" => (CanBeConfigured /\ upPaths = SupportedPaths)'
  BY <1>1, ConfiguredStays DEF ProduceIpuConfig
<1>3. upAt' = "stopped" => ~CanBeConfigured'
  BY <1>1, ConfiguredStays DEF ProduceIpuConfig
<1> QED BY <1>1, <1>2, <1>3 DEF PathInv

LEMMA PathChecked == PathInv /\ CheckPath => PathInv'
<1> SUFFICES ASSUME PathInv, CheckPath PROVE PathInv'
  OBVIOUS
<1>1. /\ UNCHANGED <<upSystem, upTarget, upPaths>> /\ upSystem \in PathSystems
      /\ TargetIsChosen' /\ upAt' \in {"accepted", "inhibited"}
      /\ CanBeConfigured' /\ (upPaths = SupportedPaths)'
  BY ChosenStays, ConfiguredStays DEF PathInv, CheckPath
<1>2. upReports' = PathReports' /\ (upAt' = "inhibited" <=> "inhibitor" \in upReports')
  <2>1. upReports' = PathReports
    BY DEF CheckPath, PathReports
  <2>2. PathReports' = PathReports
    BY <1>1, PathReportsStay
  <2> QED BY <2>1, <2>2 DEF CheckPath
<1> QED BY <1>1, <1>2 DEF PathInv

LEMMA PathUnchanged == PathInv /\ UNCHANGED upVars => PathInv'
<1> SUFFICES ASSUME PathInv, UNCHANGED upVars PROVE PathInv'
  OBVIOUS
<1>1. UNCHANGED <<upSystem, upAt, upTarget, upPaths, upReports>>
  BY DEF upVars
<1>2. /\ Malformed' <=> Malformed
      /\ TargetIsChosen' <=> TargetIsChosen
      /\ CanBeConfigured' <=> CanBeConfigured
      /\ SupportedPaths' = SupportedPaths
      /\ PathReports' = PathReports
  BY <1>1, ChosenStays, ConfiguredStays, PathReportsStay
<1> QED BY <1>1, <1>2 DEF PathInv

LEMMA PathInductive == PathSpec => []PathInv
<1>1. PathInv /\ [PathNext]_upVars => PathInv'
  BY TargetIsTaken, IpuConfigured, PathChecked, PathUnchanged DEF PathNext
<1> QED BY PathStart, <1>1, PTL DEF PathSpec

-----------------------------------------------------------------------------
(* The paths that are supported: those of the releases of the source's     *)
(* major version, and from CentOS to RHEL one target more.                 *)
LEMMA SupportedAre ==
    ASSUME upSystem \in PathSystems,
           NEW v \in DOMAIN OwnPaths, NEW w \in DOMAIN TheirPaths, StandsFor(v, w),
           v[1] = upSystem.version[1]
    PROVE  /\ v \in DOMAIN SupportedPaths
           /\ SupportedPaths[v] = IF IsCentosToRhel THEN WithPreviousMinor(TheirPaths[w])
                                                    ELSE TheirPaths[w]
<1>1. v \in DOMAIN RawPaths /\ RawPaths[v] = TheirPaths[w]
  BY RawPathsAre
<1>2. v \in DOMAIN OfSourceMajor(RawPaths) /\ OfSourceMajor(RawPaths)[v] = TheirPaths[w]
  BY <1>1 DEF OfSourceMajor
<1> QED BY <1>2 DEF SupportedPaths

LEMMA SupportedOnly ==
    ASSUME upSystem \in PathSystems, NEW v \in DOMAIN SupportedPaths
    PROVE  /\ v \in DOMAIN OwnPaths /\ v[1] = upSystem.version[1]
           /\ \E w \in DOMAIN TheirPaths : StandsFor(v, w)
<1>1. v \in DOMAIN OfSourceMajor(RawPaths)
  BY DEF SupportedPaths
<1>2. v \in DOMAIN RawPaths /\ v[1] = upSystem.version[1]
  BY <1>1 DEF OfSourceMajor
<1> QED BY <1>2, RawPathsAre

(* The targets with the one before the latest.                             *)
LEMMA PreviousMinorIs ==
    ASSUME upSystem \in PathSystems, IsCentosToRhel,
           NEW w \in DOMAIN TheirPaths, NEW v \in DOMAIN OwnPaths, StandsFor(v, w)
    PROVE  /\ ToSet(TheirPaths[w]) \subseteq ToSet(WithPreviousMinor(TheirPaths[w]))
           /\ \A u \in ToSet(WithPreviousMinor(TheirPaths[w])) \ ToSet(TheirPaths[w]) :
                LET latest == LatestAsString(TheirPaths[w])
                IN latest[2] # 0 /\ u = <<latest[1], latest[2] - 1>>
           /\ LET latest == LatestAsString(TheirPaths[w])
              IN latest[2] # 0 => <<latest[1], latest[2] - 1>>
                                    \in ToSet(WithPreviousMinor(TheirPaths[w]))
<1> DEFINE ts == TheirPaths[w]
           previous == <<LatestAsString(ts)[1], LatestAsString(ts)[2] - 1>>
<1>1. /\ upSystem.target \in Distros /\ upSystem.flavour \in Flavours
  BY PathSystemIs DEF IsPathSystem
<1>2. ts \in Seq(Seq(Nat))
  BY <1>1, PathIs DEF IsPath, TheirPaths
<1>3. WithPreviousMinor(ts) = IF LatestAsString(ts)[2] = 0 \/ previous \in ToSet(ts)
                              THEN ts ELSE Append(ts, previous)
  BY DEF WithPreviousMinor
<1> HIDE DEF ts, previous
<1>4. ToSet(Append(ts, previous)) = ToSet(ts) \cup {previous}
  <2>1. /\ DOMAIN Append(ts, previous) = 1..(Len(ts) + 1) /\ DOMAIN ts = 1..Len(ts)
        /\ Len(ts) \in Nat
        /\ \A i \in 1..Len(ts) : Append(ts, previous)[i] = ts[i]
        /\ Append(ts, previous)[Len(ts) + 1] = previous
    BY <1>2, AppendProperties
  <2> QED BY <2>1 DEF ToSet
<1>5. /\ ToSet(ts) \subseteq ToSet(WithPreviousMinor(ts))
      /\ \A u \in ToSet(WithPreviousMinor(ts)) \ ToSet(ts) :
            LatestAsString(ts)[2] # 0 /\ u = previous
      /\ LatestAsString(ts)[2] # 0 => previous \in ToSet(WithPreviousMinor(ts))
  BY <1>3, <1>4
<1> QED BY <1>5 DEF ts, previous

-----------------------------------------------------------------------------
(* What the command chooses by itself, for a release the table lists, is a *)
(* target of the release that stands for it.                               *)
Stand(w) == w \in DOMAIN TheirPaths /\ StandsFor(upSystem.version, w)
LEMMA ListedStands ==
    ASSUME upSystem \in PathSystems, SourceIsListed
    PROVE  /\ upSystem.version \in DOMAIN OwnPaths
           /\ WellFormed(upSystem.version, upSystem.distro)
           /\ HasVirtual(upSystem.distro, upSystem.version)
           /\ \E w : Stand(w) /\ w \in Listed(upSystem.target, upSystem.flavour)
<1>1. /\ upSystem.distro \in Distros /\ upSystem.flavour \in Flavours
  BY PathSystemIs DEF IsPathSystem
<1>2. upSystem.version \in DOMAIN OwnPaths
  BY DEF SourceIsListed, Listed, OwnPaths
<1>3. IsPath(upSystem.distro, upSystem.version, OwnPaths[upSystem.version])
  BY <1>1, <1>2, PathIs DEF OwnPaths
<1>4. upSystem.distro = "centos" \/ Len(upSystem.version) = 2
  BY DEF SourceIsListed, Listed
<1>5. /\ WellFormed(upSystem.version, upSystem.distro)
      /\ HasVirtual(upSystem.distro, upSystem.version)
  BY <1>3, <1>4 DEF IsPath, WellFormed, HasVirtual
<1> QED BY <1>2, <1>5 DEF SourceIsListed, Stand, StandsFor, TheirPaths, Listed

LEMMA CommandTargetsAre ==
    ASSUME upSystem \in PathSystems, SourceIsListed, NEW w, Stand(w),
           w \in Listed(upSystem.target, upSystem.flavour)
    PROVE  CommandTargets = TheirPaths[w]
<1> DEFINE version == upSystem.version
<1>1. /\ upSystem.distro \in Distros /\ upSystem.target \in Distros
      /\ upSystem.flavour \in Flavours /\ version \in Seq(Nat) /\ Len(version) \in 1..2
  BY PathSystemIs DEF IsPathSystem
<1>2. IsPath(upSystem.target, w, TheirPaths[w]) /\ TheirPaths[w] # <<>>
  BY <1>1, PathIs DEF IsPath, TheirPaths, Stand
<1>3. w \in Seq(Nat) /\ Len(w) \in 1..2
  BY <1>2 DEF IsPath
<1>4. WellFormed(version, upSystem.distro) /\ HasVirtual(upSystem.distro, version)
  BY ListedStands
<1>5. Virtual(upSystem.target, w) = Virtual(upSystem.distro, version)
  BY DEF Stand, StandsFor
<1>6. CASE upSystem.target # "centos" \/ upSystem.distro = "centos"
  <2>1. LookedUp = w
    <3>1. CASE upSystem.distro = upSystem.target
      <4>1. version = w
        BY <1>1, <1>5, <3>1, ListedStands, SameVirtual DEF OwnPaths, TheirPaths, Stand
      <4> QED BY <3>1, <4>1 DEF LookedUp
    <3>2. CASE upSystem.distro # upSystem.target
      <4>1. upSystem.target # "centos"
        BY <1>6, <3>2
      <4>2. w = Virtual(upSystem.distro, version)
        BY <1>3, <1>5, <4>1, VirtualIs
      <4>3. upSystem.distro # "centos" => Virtual(upSystem.distro, version) = version
        BY <1>1, VirtualIs
      <4> QED BY <4>1, <4>2, <4>3 DEF LookedUp
    <3> QED BY <3>1, <3>2
  <2> QED BY <1>2, <2>1 DEF CommandTargets, TargetsOf, TheirPaths, Stand
<1>7. CASE upSystem.target = "centos" /\ upSystem.distro # "centos"
  <2>1. LookedUp = version /\ Len(version) = 2
    BY <1>4, <1>7 DEF LookedUp, WellFormed
  <2>2. Len(w) = 1
    BY <1>2, <1>7 DEF IsPath
  <2>3. version \notin DOMAIN TheirPaths
    <3> SUFFICES ASSUME version \in DOMAIN TheirPaths PROVE FALSE
      OBVIOUS
    <3>1. IsPath(upSystem.target, version, TheirPaths[version])
      BY <1>1, PathIs DEF TheirPaths
    <3> QED BY <1>7, <2>1, <3>1 DEF IsPath
  <2>4. w = <<version[1]>>
    <3>1. w[1] = version[1]
      BY <1>1, <1>3, <1>5, VirtualIs
    <3>2. w = <<w[1]>>
      BY <1>3, <2>2, SingleIs
    <3> QED BY <3>1, <3>2
  <2>5. TargetsOf(TheirPaths, LookedUp) = <<>>
    BY <2>1, <2>3 DEF TargetsOf
  <2>6. CommandTargets = TargetsOf(TheirPaths, <<version[1]>>)
    BY <2>5 DEF CommandTargets, TheirPaths
  <2> QED BY <2>4, <2>6 DEF TargetsOf, Stand
<1> QED BY <1>6, <1>7

LEMMA TheirTargetIs ==
    ASSUME upSystem \in PathSystems,
           NEW w \in DOMAIN TheirPaths, NEW t \in ToSet(TheirPaths[w])
    PROVE  /\ t \in Seq(Nat) /\ WellFormed(t, upSystem.target)
           /\ HasVirtual(upSystem.target, t) /\ t[1] = w[1] + 1
<1>1. upSystem.target \in Distros /\ upSystem.flavour \in Flavours
  BY PathSystemIs DEF IsPathSystem
<1>2. /\ w \in DOMAIN Paths(upSystem.target, upSystem.flavour)
      /\ t \in ToSet(Paths(upSystem.target, upSystem.flavour)[w])
  BY DEF TheirPaths
<1>3. /\ t \in Seq(Nat) /\ WellFormed(t, upSystem.target)
      /\ HasVirtual(upSystem.target, t) /\ t[1] = w[1] + 1
  BY ONLY <1>1, <1>2, PathTargetIs
<1> QED BY <1>3

LEMMA ChosenIs ==
    ASSUME upSystem \in PathSystems, TargetIsChosen, upTarget # NoVersion
    PROVE  upTarget \in Seq(Nat) /\ WellFormed(upTarget, upSystem.target)
<1>1. /\ upSystem.target \in Distros /\ upSystem.flavour \in Flavours
      /\ upSystem.asked \in Seq(Nat)
  BY PathSystemIs DEF IsPathSystem
<1>2. CASE upTarget = upSystem.asked /\ WellFormed(upSystem.asked, upSystem.target)
  BY <1>1, <1>2
<1>3. CASE CommandTargets # <<>> /\ upTarget = Last(CommandTargets)
  <2>1. PICK w \in DOMAIN TheirPaths : CommandTargets = TheirPaths[w]
    <3>1. CommandTargets \in {TargetsOf(TheirPaths, LookedUp),
                              TargetsOf(TheirPaths, <<upSystem.version[1]>>)}
      BY DEF CommandTargets, TheirPaths
    <3> QED BY <1>3, <3>1 DEF TargetsOf
  <2>2. upTarget \in ToSet(TheirPaths[w])
    BY <1>1, <1>3, <2>1, LastPath DEF TheirPaths
  <2> QED BY <2>2, TheirTargetIs
<1> QED BY <1>2, <1>3 DEF TargetIsChosen

LEMMA CentosIsOne ==
    ASSUME upSystem \in PathSystems, IsCentosToRhel
    PROVE  Cardinality(DOMAIN OfSourceMajor(RawPaths)) <= 1
<1> DEFINE sources == DOMAIN OfSourceMajor(RawPaths)
           one == <<upSystem.version[1]>>
<1>1. upSystem.distro = "centos" /\ "centos" \in Distros /\ upSystem.flavour \in Flavours
  BY PathSystemIs DEF IsPathSystem, IsCentosToRhel, Distros
<1>2. ASSUME NEW v \in sources PROVE v = one
  <2>1. v \in DOMAIN RawPaths /\ v[1] = upSystem.version[1]
    BY DEF OfSourceMajor
  <2>2. v \in DOMAIN OwnPaths
    BY <2>1, RawPathsAre
  <2>3. v \in Seq(Nat) /\ Len(v) = 1
    BY <1>1, <2>2, PathIs DEF IsPath, OwnPaths
  <2>4. v = <<v[1]>>
    BY <2>3, SingleIs
  <2> QED BY <2>1, <2>4
<1> HIDE DEF sources, one
<1>3. sources = {} \/ sources = {one}
  BY <1>2
<1>4. Cardinality({}) = 0 /\ Cardinality({one}) = 1
  BY FS_EmptySet, FS_Singleton
<1>5. Cardinality(sources) <= 1
  BY <1>3, <1>4
<1> QED BY <1>5 DEF sources

(* A release the table lists is refused for its target only.               *)
LEMMA OnlyTargetRefused ==
    ASSUME upSystem \in PathSystems, SourceIsListed, upSystem.env = {},
           upPaths = SupportedPaths, "inhibitor" \in PathReports
    PROVE  /\ upSystem.version \in DOMAIN SupportedPaths
           /\ upTarget \notin ToSet(SupportedPaths[upSystem.version])
<1>1. PICK w : Stand(w)
  BY ListedStands
<1>2. upSystem.version \in DOMAIN SupportedPaths
  BY <1>1, ListedStands, SupportedAre DEF Stand
<1>3. CheckedTargets = SupportedPaths[upSystem.version]
  BY <1>2 DEF CheckedTargets
<1>4. "inhibitor" \notin OsReleaseReports /\ "inhibitor" \notin SupportReports
  BY <1>2 DEF OsReleaseReports, SupportReports
<1>5. "inhibitor" \in TargetReports
  BY <1>4 DEF PathReports
<1> QED BY <1>2, <1>3, <1>5 DEF TargetReports

LEMMA DefaultAccepted == PathInv => DefaultIsAccepted
<1> SUFFICES ASSUME PathInv, upSystem.asked = NoVersion, upSystem.env = {}, SourceIsListed,
                    upAt \in {"inhibited", "stopped"}
             PROVE  FALSE
  BY DEF DefaultIsAccepted
<1>1. /\ upSystem \in PathSystems
      /\ upSystem.distro \in Distros /\ upSystem.target \in Distros
      /\ upSystem.flavour \in Flavours
      /\ upSystem.version \in Seq(Nat) /\ Len(upSystem.version) \in 1..2
  BY PathSystemIs DEF PathInv, IsPathSystem
<1>2. PICK w : Stand(w) /\ w \in Listed(upSystem.target, upSystem.flavour)
  BY <1>1, ListedStands
<1>3. TargetIsChosen
  BY <1>1, ListedStands DEF PathInv, Malformed, CanChoose
<1>4. upTarget \in ToSet(TheirPaths[w])
  <2>1. CommandTargets = TheirPaths[w]
    BY <1>1, <1>2, CommandTargetsAre
  <2>2. TheirPaths[w] # <<>> /\ Last(TheirPaths[w]) \in ToSet(TheirPaths[w])
    BY <1>1, <1>2, LastPath DEF TheirPaths, Stand
  <2> QED BY <1>3, <2>1, <2>2 DEF TargetIsChosen
<1>5. /\ upTarget \in Seq(Nat) /\ WellFormed(upTarget, upSystem.target)
      /\ HasVirtual(upSystem.target, upTarget) /\ upTarget[1] = w[1] + 1
  BY <1>1, <1>2, <1>4, TheirTargetIs DEF Stand
<1>6. w[1] = upSystem.version[1]
  <2>1. w \in Seq(Nat) /\ Len(w) \in 1..2
    BY <1>1, <1>2, PathIs DEF IsPath, TheirPaths, Stand
  <2> QED BY <1>1, <1>2, <2>1, VirtualIs DEF Stand, StandsFor
<1>7. upTarget # NoVersion
  BY <1>5 DEF WellFormed, NoVersion
<1>8. CanBeConfigured
  BY <1>1, <1>5, <1>6, <1>7, ListedStands, CentosIsOne DEF CanBeConfigured, RequiredMajor
<1>9. upAt = "inhibited" /\ upPaths = SupportedPaths /\ "inhibitor" \in PathReports
  BY <1>1, <1>3, <1>8, ListedStands DEF PathInv, Malformed, CanChoose
<1>10. upTarget \notin ToSet(SupportedPaths[upSystem.version])
  BY <1>1, <1>9, OnlyTargetRefused
<1>11. SupportedPaths[upSystem.version] =
         IF IsCentosToRhel THEN WithPreviousMinor(TheirPaths[w]) ELSE TheirPaths[w]
  BY <1>1, <1>2, ListedStands, SupportedAre DEF Stand
<1>12. IsCentosToRhel => ToSet(TheirPaths[w]) \subseteq ToSet(WithPreviousMinor(TheirPaths[w]))
  BY <1>1, <1>2, ListedStands, PreviousMinorIs DEF Stand
<1> QED BY <1>4, <1>10, <1>11, <1>12

LEMMA OnlyListed == PathInv => OnlyListedTargets
<1> SUFFICES ASSUME PathInv, upAt = "accepted" PROVE OnlyListedTargets
  BY DEF OnlyListedTargets
<1>1. /\ upSystem \in PathSystems /\ upPaths = SupportedPaths /\ upReports = PathReports
      /\ upTarget[1] = upSystem.version[1] + 1 /\ "inhibitor" \notin upReports
  BY DEF PathInv, CanBeConfigured, RequiredMajor
<1>2. ASSUME "unsupported" \notin upReports
      PROVE  \E v \in DOMAIN Paths(upSystem.target, upSystem.flavour) :
                 /\ Virtual(upSystem.target, v) = Virtual(upSystem.distro, upSystem.version)
                 /\ LET targets == ToSet(Paths(upSystem.target, upSystem.flavour)[v])
                    IN \/ upTarget \in targets
                       \/ /\ IsCentosToRhel
                          /\ <<upTarget[1], upTarget[2] + 1>> \in targets
                          /\ \A t \in targets : t[2] <= upTarget[2] + 1
  <2>1. /\ "inhibitor" \notin OsReleaseReports /\ "inhibitor" \notin TargetReports
        /\ "inhibitor" \notin SupportReports /\ "unsupported" \notin SupportReports
    BY <1>1, <1>2 DEF PathReports
  <2>2. upSystem.env = {}
    BY <2>1 DEF SupportReports
  <2>3. upSystem.version \in DOMAIN SupportedPaths
    BY <1>1, <2>1, <2>2 DEF OsReleaseReports
  <2>4. upTarget \in ToSet(SupportedPaths[upSystem.version])
    BY <1>1, <2>1, <2>2, <2>3 DEF TargetReports, CheckedTargets
  <2>5. upSystem.version \in DOMAIN OwnPaths
        /\ \E w \in DOMAIN TheirPaths : StandsFor(upSystem.version, w)
    BY <1>1, <2>3, SupportedOnly
  <2>6. PICK w \in DOMAIN TheirPaths : StandsFor(upSystem.version, w)
    BY <2>5
  <2>7. SupportedPaths[upSystem.version] =
          IF IsCentosToRhel THEN WithPreviousMinor(TheirPaths[w]) ELSE TheirPaths[w]
    BY <1>1, <2>5, <2>6, SupportedAre
  <2>8. CASE upTarget \in ToSet(TheirPaths[w])
    BY <2>6, <2>8 DEF StandsFor, TheirPaths
  <2>9. CASE upTarget \notin ToSet(TheirPaths[w])
    <3> DEFINE latest == LatestAsString(TheirPaths[w])
    <3>1. IsCentosToRhel
      BY <2>4, <2>7, <2>9
    <3>2. latest[2] # 0 /\ upTarget = <<latest[1], latest[2] - 1>>
      BY <1>1, <2>4, <2>5, <2>6, <2>7, <2>9, <3>1, PreviousMinorIs
    <3>3. /\ latest \in ToSet(TheirPaths[w])
          /\ \A t \in ToSet(TheirPaths[w]) : t[2] <= latest[2]
          /\ latest[2] \in 0..9 /\ latest = <<w[1] + 1, latest[2]>>
      BY <1>1, <2>5, <2>6, <3>1, LatestIs
    <3> HIDE DEF latest
    <3>4. upTarget[2] + 1 = latest[2] /\ upTarget[1] = latest[1]
      BY <3>2, <3>3
    <3>5. latest = <<latest[1], latest[2]>>
      BY <3>3
    <3>6. <<upTarget[1], upTarget[2] + 1>> \in ToSet(TheirPaths[w])
      BY <3>3, <3>4, <3>5
    <3>7. \A t \in ToSet(TheirPaths[w]) : t[2] <= upTarget[2] + 1
      BY <3>3, <3>4
    <3> QED BY <2>6, <3>1, <3>6, <3>7 DEF StandsFor, TheirPaths
  <2> QED BY <2>8, <2>9
<1> QED BY <1>1, <1>2 DEF OnlyListedTargets

LEMMA PreviousAccepted == PathInv => PreviousMinorIsAccepted
<1> SUFFICES ASSUME PathInv, IsCentosToRhel, SourceIsListed, upSystem.env = {},
                    upAt = "inhibited",
                    NEW v \in Listed("rhel", upSystem.flavour),
                    Virtual("centos", upSystem.version) = v
             PROVE  LET minors == {t[2] : t \in ToSet(Paths("rhel", upSystem.flavour)[v])}
                    IN upTarget # <<v[1] + 1, Max(minors) - 1>>
  BY DEF PreviousMinorIsAccepted
<1> DEFINE ts == TheirPaths[v]
           minors == {t[2] : t \in ToSet(ts)}
           latest == LatestAsString(ts)
<1>1. /\ upSystem \in PathSystems /\ upPaths = SupportedPaths /\ "inhibitor" \in PathReports
      /\ TargetIsChosen /\ CanBeConfigured
  BY DEF PathInv
<1>2. /\ upSystem.distro = "centos" /\ upSystem.target = "rhel"
      /\ upSystem.flavour \in Flavours /\ "rhel" \in Distros
  BY <1>1, PathSystemIs DEF IsPathSystem, IsCentosToRhel, Distros
<1>3. v \in DOMAIN TheirPaths /\ TheirPaths = Paths("rhel", upSystem.flavour)
  BY <1>2 DEF Listed, TheirPaths
<1>4. StandsFor(upSystem.version, v)
  <2>1. v \in Seq(Nat) /\ Len(v) \in 1..2
    BY <1>2, <1>3, PathIs DEF IsPath
  <2>2. Virtual("rhel", v) = v
    BY <2>1, VirtualIs
  <2> QED BY <1>2, <2>2 DEF StandsFor
<1>5. upSystem.version \in DOMAIN OwnPaths
  BY <1>1, ListedStands
<1>6. /\ latest \in ToSet(ts)
      /\ \A t \in ToSet(ts) : t[2] <= latest[2]
      /\ \A t \in ToSet(ts) : t[2] \in 0..9 /\ t = <<v[1] + 1, t[2]>>
  BY <1>1, <1>3, <1>4, <1>5, LatestIs
<1>7. upTarget \notin ToSet(WithPreviousMinor(ts))
  <2>1. upTarget \notin ToSet(SupportedPaths[upSystem.version])
    BY <1>1, OnlyTargetRefused
  <2>2. SupportedPaths[upSystem.version] = WithPreviousMinor(ts)
    BY <1>1, <1>3, <1>4, <1>5, SupportedAre
  <2> QED BY <2>1, <2>2
<1>8. latest[2] # 0 => <<latest[1], latest[2] - 1>> \in ToSet(WithPreviousMinor(ts))
  BY <1>1, <1>3, <1>4, <1>5, PreviousMinorIs
<1> HIDE DEF ts, latest
<1>9. latest[2] \in 0..9 /\ latest = <<v[1] + 1, latest[2]>>
  BY <1>6
<1>10. Max(minors) = latest[2]
  <2>1. latest[2] \in minors /\ \A m \in minors : m <= latest[2] /\ m \in 0..9
    BY <1>6
  <2>2. minors \subseteq 0..10 /\ minors # {}
    BY <2>1
  <2> HIDE DEF minors
  <2>3. Max(minors) \in minors /\ \A m \in minors : m <= Max(minors)
    BY <2>2, GreatestMinor
  <2>4. Max(minors) \in 0..9 /\ Max(minors) <= latest[2] /\ latest[2] <= Max(minors)
    BY <2>1, <2>3
  <2> QED BY <1>9, <2>4
<1> HIDE DEF minors
<1>11. upTarget # <<v[1] + 1, latest[2] - 1>>
  <2>1. CASE latest[2] # 0
    <3>1. latest[1] = v[1] + 1
      BY <1>9
    <3> QED BY <1>7, <1>8, <2>1, <3>1
  <2>2. CASE latest[2] = 0
    <3>1. upTarget \in Seq(Nat) /\ Len(upTarget) = 2
      BY <1>1, <1>2, ChosenIs DEF CanBeConfigured, WellFormed
    <3>2. upTarget[2] \in Nat
      BY <3>1, PairIs
    <3>3. latest[2] - 1 \notin Nat
      BY <2>2
    <3> QED BY <3>2, <3>3
  <2> QED BY <2>1, <2>2
<1>12. upTarget # <<v[1] + 1, Max(minors) - 1>>
  BY <1>10, <1>11
<1> QED BY <1>3, <1>12 DEF minors, ts

(* The versions of an upgrade that is configured have a minor wherever they *)
(* are compared.                                                           *)
LEMMA Compare == PathInv => VersionsCompare
<1> SUFFICES ASSUME PathInv, upAt \in {"checks", "accepted"} PROVE VersionsCompare
  BY DEF VersionsCompare
<1> DEFINE version == upSystem.version
           d == Autocorrect(version)
           t == Autocorrect(upTarget)
<1>1. /\ upSystem \in PathSystems /\ version \in Seq(Nat) /\ Len(version) \in 1..2
      /\ upSystem.distro \in Distros /\ upSystem.target \in Distros
  BY PathSystemIs DEF PathInv, IsPathSystem
<1>2. TargetIsChosen /\ CanBeConfigured
  BY DEF PathInv
<1>3. /\ upTarget \in Seq(Nat) /\ WellFormed(upTarget, upSystem.target)
      /\ upTarget[1] = version[1] + 1
      /\ HasVirtual(upSystem.distro, version) /\ HasVirtual(upSystem.target, upTarget)
  BY <1>1, <1>2, ChosenIs DEF CanBeConfigured, RequiredMajor
<1>4. version[1] \in Nat /\ upTarget # version /\ Len(upTarget) \in 1..2
  BY <1>1, <1>3 DEF WellFormed
<1>5. t \in Seq(Nat) /\ Len(t) = 2 /\ t[1] = version[1] + 1
  <2>1. CASE upSystem.target = "centos"
    BY <1>3, <1>4, <2>1, VirtualIs DEF Autocorrect
  <2>2. CASE upSystem.target # "centos"
    <3>1. Virtual(upSystem.target, upTarget) = upTarget /\ Len(upTarget) = 2
      BY <1>3, <1>4, <2>2, VirtualIs DEF WellFormed
    <3> QED BY <1>3, <1>4, <3>1 DEF Autocorrect
  <2> QED BY <2>1, <2>2
<1>6. ASSUME WellFormed(version, upSystem.distro)
      PROVE  Len(d) = 2 /\ d[1] = version[1]
  <2>1. CASE upSystem.distro = "centos"
    BY <1>1, <1>3, <2>1, VirtualIs DEF Autocorrect
  <2>2. CASE upSystem.distro # "centos"
    <3>1. Virtual(upSystem.distro, version) = version /\ Len(version) = 2
      BY <1>1, <1>6, <2>2, VirtualIs DEF WellFormed
    <3> QED BY <3>1 DEF Autocorrect
  <2> QED BY <2>1, <2>2
<1> HIDE DEF version, d, t
<1>7. WellFormed(version, upSystem.distro) =>
         /\ MatchesVersion("<", upTarget, version) = {TRUE}
         /\ MatchesVersion("=", version, version) = {TRUE}
  <2> SUFFICES ASSUME WellFormed(version, upSystem.distro)
               PROVE  /\ MatchesVersion("<", upTarget, version) = {TRUE}
                      /\ MatchesVersion("=", version, version) = {TRUE}
    OBVIOUS
  <2>1. Order("<", d, t) = TRUE /\ Order("=", d, d) = TRUE
    BY <1>4, <1>5, <1>6 DEF Order
  <2>2. /\ MatchesVersion("<", upTarget, version) = {Order("<", d, t)}
        /\ MatchesVersion("=", version, version) = {Order("=", d, d)}
    BY <1>5, <1>6 DEF MatchesVersion, d, t
  <2> QED BY <2>1, <2>2
<1>8. MatchesVersion(">=", upTarget, upTarget) = {TRUE}
  <2>1. MatchesVersion(">=", upTarget, upTarget) = {Order(">=", t, t)}
    BY <1>5 DEF MatchesVersion, t
  <2>2. t[1] \in Nat /\ t[2] \in Nat
    BY <1>5, PairIs
  <2>3. Order(">=", t, t) = TRUE
    BY <2>2 DEF Order
  <2> QED BY <2>1, <2>3
<1> QED BY <1>7, <1>8 DEF VersionsCompare, version

(* For every table of upgrade paths that has what the actors take for      *)
(* granted, and every pair of distributions: the command and the           *)
(* configuration actor agree on what is supported, nothing else is let     *)
(* through, and the versions can be compared (get_target_release,          *)
(* produce_ipu_config, checktargetversion, matches_version).               *)
THEOREM TargetsSupported == PathSpec => []TargetsAreSupported
<1>1. PathInv => TargetsAreSupported
  BY DefaultAccepted, OnlyListed, PreviousAccepted, Compare DEF TargetsAreSupported
<1> QED BY <1>1, PathInductive, PTL

-----------------------------------------------------------------------------
(* Types of the systemd services.                                           *)

(* States that systemctl or the packages give.                              *)
LEMMA StatesStayStates ==
  ASSUME ServicesInv, ServicesTypeOK, ServiceNext
  PROVE  \A u \in DOMAIN svState' : svState'[u] \in UnitStates
<1>1. \A u \in DOMAIN svState : svState[u] \in UnitStates
  BY DEF ServicesTypeOK
<1>2. "enabled" \in UnitStates /\ "disabled" \in UnitStates
  BY DEF UnitStates, Relevant
<1>3. ASSUME NEW state, NEW units, \A u \in DOMAIN state : state[u] \in UnitStates
      PROVE  /\ \A u \in DOMAIN AfterEnable(state, units) : AfterEnable(state, units)[u] \in UnitStates
             /\ \A u \in DOMAIN AfterDisable(state, units) : AfterDisable(state, units)[u] \in UnitStates
  BY <1>2, <1>3 DEF AfterEnable, AfterDisable
<1>4. CASE UpgradeUnits
  <2>1. svState' = svSystem.target /\ svSystem \in ServiceSystems
    BY <1>4 DEF UpgradeUnits, ServicesInv
  <2> QED BY <2>1, ServiceAssumption DEF IsServiceSystem
<1>5. CASE svState' = svState
  BY <1>1, <1>5
<1>6. CASE RepairSystemdSymlinks
  <2>1. PICK disable, reenable :
          svState' = AfterEnable(AfterDisable(svState, disable), reenable)
    BY <1>6 DEF RepairSystemdSymlinks
  <2>2. \A u \in DOMAIN AfterDisable(svState, disable) :
          AfterDisable(svState, disable)[u] \in UnitStates
    BY <1>1, <1>3
  <2>3. PICK state : state = AfterDisable(svState, disable)
    OBVIOUS
  <2>4. \A u \in DOMAIN state : state[u] \in UnitStates
    BY <2>2, <2>3
  <2> QED BY <1>3, <2>1, <2>3, <2>4
<1>7. CASE SetServicesStates
  <2>1. svState' = AfterTasks
    BY <1>7 DEF SetServicesStates
  <2>2. PICK state : state = AfterEnable(svState, Enabling(svTasks) \ Disabling(svTasks))
    OBVIOUS
  <2>3. \A u \in DOMAIN state : state[u] \in UnitStates
    BY <1>1, <1>3, <2>2
  <2>4. svState' = AfterDisable(state, Disabling(svTasks))
    BY <2>1, <2>2 DEF AfterTasks
  <2> QED BY <1>3, <2>3, <2>4
<1> QED BY <1>4, <1>5, <1>6, <1>7 DEF ServiceNext, ScanSystemdSource, CheckBrokenSymlinks,
      CheckServicesTasks, ScanSystemdTarget, TransitionServices, EndOfApplications

(* The tasks that leapp adds are of units there are, and do not conflict.   *)
LEMMA OwnTasksAre ==
  ASSUME ServicesInv
  PROVE  \A t \in svTasks \ (svSystem.early \cup svSystem.late) :
           /\ t.enable \cup t.disable \subseteq DOMAIN svState \ IgnoredServices
           /\ t.enable \cap t.disable = {}
<1> SUFFICES ASSUME NEW t \in svTasks, t \notin svSystem.early \cup svSystem.late
             PROVE  /\ t.enable \cup t.disable \subseteq DOMAIN svState \ IgnoredServices
                    /\ t.enable \cap t.disable = {}
  OBVIOUS
<1>1. svAt \in AfterTransaction
  BY DEF ServicesInv, ServicePhases, SourceState, AfterFacts, BeforeTransaction,
    AfterTransaction
<1>2. DOMAIN svScans # {"source"} /\ t = TransitionTask
  BY <1>1 DEF ServicesInv, TransitionDone, Transitioned
<1>3. DOMAIN svScans.target.units = DOMAIN svState
  BY <1>1, <1>2 DEF ServicesInv, TargetScan, TargetState, TasksCarriedOut, AfterTransaction
<1>4. HandledServices \subseteq DOMAIN svState \ IgnoredServices
  BY <1>3 DEF HandledServices
<1>5. /\ t.enable = Wanted("enabled") /\ t.disable = Wanted("disabled")
  BY <1>2 DEF TransitionTask
<1> QED BY <1>4, <1>5 DEF Wanted

(* Every step of the services actors keeps the types.                       *)
LEMMA ServiceTypeStays ==
  ASSUME ServicesInv, ServicesInv', ServicesTypeOK, ServiceNext
  PROVE  ServicesTypeOK'
<1>0. svSystem' = svSystem
  BY DEF ServiceNext, ScanSystemdSource, CheckBrokenSymlinks, CheckServicesTasks, UpgradeUnits,
    ScanSystemdTarget, TransitionServices, RepairSystemdSymlinks, EndOfApplications,
    SetServicesStates
<1>1. svAt' \in {"facts", "checks", "tasks", "transaction", "applications", "finalization",
                 "done", "stopped", "inhibited", "failed"}
  BY DEF ServicesInv, ServicePhases, AfterFacts
<1>2. svLinks' \subseteq svSystem.brokenBefore \cup svSystem.brokenByUpgrade
  <2>1. \/ svLinks' = svLinks \/ svLinks' = svSystem.brokenBefore \cup svSystem.brokenByUpgrade
        \/ \E units : svLinks' = LinksAfterDisable(svLinks, units)
    BY DEF ServiceNext, ScanSystemdSource, CheckBrokenSymlinks, CheckServicesTasks,
      UpgradeUnits, ScanSystemdTarget, TransitionServices, RepairSystemdSymlinks,
      EndOfApplications, SetServicesStates
  <2>2. \A units : LinksAfterDisable(svLinks, units) \subseteq svLinks
    BY DEF LinksAfterDisable
  <2> QED BY <2>1, <2>2 DEF ServicesTypeOK
<1>3. svTodo' \subseteq {"transition", "repair"}
  BY DEF ServicesTypeOK, ServiceNext, ScanSystemdSource, CheckBrokenSymlinks,
    CheckServicesTasks, UpgradeUnits, ScanSystemdTarget, TransitionServices,
    RepairSystemdSymlinks, EndOfApplications, SetServicesStates
<1>4. DOMAIN svScans' \subseteq {"source", "target", "has"}
  <2>1. \/ svScans' = svScans \/ DOMAIN svScans' = {"source"}
        \/ DOMAIN svScans' = {"source", "target", "has"}
    BY DEF ServiceNext, ScanSystemdSource, CheckBrokenSymlinks, CheckServicesTasks,
      UpgradeUnits, ScanSystemdTarget, TransitionServices, RepairSystemdSymlinks,
      EndOfApplications, SetServicesStates
  <2> QED BY <2>1 DEF ServicesTypeOK
<1>5. (\A t \in svTasks \ (svSystem.early \cup svSystem.late) :
         /\ t.enable \cup t.disable \subseteq DOMAIN svState \ IgnoredServices
         /\ t.enable \cap t.disable = {})'
  <2>1. ServicesInv => \A t \in svTasks \ (svSystem.early \cup svSystem.late) :
         /\ t.enable \cup t.disable \subseteq DOMAIN svState \ IgnoredServices
         /\ t.enable \cap t.disable = {}
    BY OwnTasksAre
  <2> QED BY <2>1, OwnTasksAre, PTL
<1> QED BY <1>0, <1>1, <1>2, <1>3, <1>4, <1>5, StatesStayStates DEF ServicesTypeOK

(* ServicesTypeOK: whichever calls of systemctl fail, the scans are made    *)
(* when they are due and the states of the units are those systemd knows.   *)
THEOREM ServicesTyped == ServiceSpec => []ServicesTypeOK
<1>1. ServiceInit => ServicesTypeOK
  <2> SUFFICES ASSUME ServiceInit PROVE ServicesTypeOK
    OBVIOUS
  <2>1. IsServiceSystem(svSystem)
    BY ServiceAssumption DEF ServiceInit
  <2> QED BY <2>1 DEF ServiceInit, ServicesTypeOK, IsServiceSystem
<1>2. ServicesInv /\ ServicesInv' /\ ServicesTypeOK /\ [ServiceNext]_svVars => ServicesTypeOK'
  <2>1. ASSUME ServicesTypeOK, UNCHANGED svVars PROVE ServicesTypeOK'
    BY <2>1 DEF svVars, ServicesTypeOK
  <2> QED BY <2>1, ServiceTypeStays
<1> QED BY <1>1, <1>2, ServicesInductive, PTL DEF ServiceSpec

-----------------------------------------------------------------------------
(* Types of the devices.                                                    *)

(* Only entries of the data are found, and no USB device is among them.     *)
LEMMA FoundAreData ==
  ASSUME DevicesInv, ddAt \in {"scan"} \cup Scanned, NEW actor, NEW i \in FoundBy(actor)
  PROVE  i \in ddData /\ EntryAt(i).type \in {"pci", "cpu"}
<1>1. /\ ddData = {j \in DOMAIN ddSystem.entries : ddSystem.entries[j].type # "usb"}
      /\ DOMAIN ddSystem.entries = 1 .. Len(ddSystem.entries)
      /\ Len(ddSystem.entries) \in Nat
      /\ \A j \in DOMAIN ddSystem.entries : IsEntry(EntryAt(j))
  BY SystemIs DEF DevicesInv, DataRead
<1>2. ASSUME NEW found, found \subseteq ddData PROVE LastOf(found) \subseteq ddData
  <2>1. found \subseteq 1 .. Len(ddSystem.entries)
    BY <1>1, <1>2
  <2> QED BY <1>1, <1>2, <2>1, LastIs
<1>3. \A m : DriverEntry(m) \subseteq ddData
  <2> SUFFICES ASSUME NEW m PROVE DriverEntry(m) \subseteq ddData
    OBVIOUS
  <2>1. {j \in ddData : EntryAt(j).id = <<>> /\ EntryAt(j).driver = m} \subseteq ddData
    OBVIOUS
  <2> QED BY <1>2, <2>1 DEF DriverEntry
<1>4. \A id : DeviceEntry(id) \subseteq ddData
  <2> SUFFICES ASSUME NEW id PROVE DeviceEntry(id) \subseteq ddData
    OBVIOUS
  <2>1. {j \in ddData : EntryAt(j).type = "pci" /\ EntryAt(j).id = id} \subseteq ddData
    OBVIOUS
  <2> QED BY <1>2, <2>1 DEF DeviceEntry
<1>5. \A d : FoundFor(d) \subseteq ddData
  BY <1>4 DEF FoundFor
<1>6. OfProcessor \subseteq ddData /\ OfModules \subseteq ddData /\ OfDevices \subseteq ddData
  BY <1>3, <1>5 DEF OfProcessor, OfModules, OfDevices
<1>7. i \in ddData
  BY <1>6 DEF FoundBy
<1> QED BY <1>1, <1>7 DEF EntryAt, IsEntry

(* What is detected comes from the data.                                    *)
LEMMA DetectedAreTyped ==
  ASSUME DevicesInv
  PROVE  \A i \in DOMAIN ddDetected : ddDetected[i] > 0 => EntryAt(i).type \in {"pci", "cpu"}
<1> SUFFICES ASSUME NEW i \in DOMAIN ddDetected, ddDetected[i] > 0
             PROVE  EntryAt(i).type \in {"pci", "cpu"}
  OBVIOUS
<1>1. PICK actor \in Scanners : HasScanned(actor) /\ i \in FoundBy(actor)
  BY DEF DevicesInv, DetectedAreFound
<1>2. ddAt \in {"scan"} \cup Scanned
  BY <1>1 DEF HasScanned
<1> QED BY <1>1, <1>2, FoundAreData

(* What was accepted rests on a list of streams.                            *)
LEMMA AcceptedStreams ==
  ASSUME DevicesInv, ddAt = "accepted"
  PROVE  ddStreams.field = "list"
<1>1. /\ Usable /\ ddStreams = StreamsOf /\ \A r \in AssetReports : r[1] # "inhibitor"
  BY DEF DevicesInv, DataRead, ReportsMade, Scanned
<1>2. AssetClass = "right"
  BY <1>1 DEF AssetReports
<1>3. ddStreams.field # "absent" /\ ddStreams.field # "wrong list"
  BY <1>2 DEF AssetClass
<1>4. ddSystem.streams \in StreamFields /\ ddSystem.streams # "zero"
  BY <1>1, SystemIs DEF DevicesInv, Usable
<1> QED BY <1>1, <1>3, <1>4 DEF StreamsOf, StreamFields

(* The reports of devices and drivers are of the kinds there are.           *)
LEMMA ReportsAreTyped ==
  \A r \in AssetReports \cup DeviceReports : r[1] \in {"inhibitor", "warning"}
BY DEF AssetReports, DeviceReports

(* DevicesTypeOK: whatever devices and data files there are, the detected   *)
(* ones come from the data and the reports are those the actors make.       *)
THEOREM DevicesTyped == DeviceSpec => []DevicesTypeOK
<1> DEFINE Rest == ddAt = "accepted" => ddTodo = {}
           Said == \A r \in ddReports : r[1] \in {"inhibitor", "warning"}
<1>1. DeviceInit => Rest /\ Said
  BY DEF DeviceInit
<1>2. Rest /\ Said /\ [DeviceNext]_ddVars => Rest' /\ Said'
  <2> SUFFICES ASSUME Rest, Said, [DeviceNext]_ddVars
               PROVE  Rest' /\ Said'
    OBVIOUS
  <2>1. CASE UNCHANGED ddVars
    BY <2>1 DEF ddVars
  <2>2. CASE LoadData
    BY <2>2 DEF LoadData
  <2>3. CASE ScanCPU \/ DetectKernelDrivers \/ ScanDevices
    BY <2>3 DEF ScanCPU, DetectKernelDrivers, ScanDevices, Reported
  <2>4. CASE CheckConsumedAssets \/ CheckDetectedDevices
    <3>1. PICK actor \in {"assets", "devices"}, reports \in {AssetReports, DeviceReports} :
             /\ ddTodo' = ddTodo \ {actor} /\ ddReports' = ddReports \cup reports
             /\ ddTodo # {actor} => ddAt' = "check"
      BY <2>4 DEF CheckConsumedAssets, CheckDetectedDevices, Check
    <3> QED BY <3>1, ReportsAreTyped
  <2> QED BY <2>1, <2>2, <2>3, <2>4 DEF DeviceNext
<1>3. DevicesInv /\ Rest /\ Said => DevicesTypeOK
  BY DetectedAreTyped, AcceptedStreams DEF DevicesTypeOK, DevicesInv, DeviceTodo, Scanned
<1> HIDE DEF Rest, Said
<1> QED BY <1>1, <1>2, <1>3, DevicesInductive, PTL DEF DeviceSpec

-----------------------------------------------------------------------------
(* Types of the package keys, and the forms of a key.                       *)

(* The keys of the system, of leapp and of the repositories have a release.  *)
KeySystemTyped == pkSystem \in KeySystems
OneForm(db) == \A k, l \in db : k[1] = l[1] => k = l
AreKeys(keys) == \A key \in keys : Len(key) = 2
KeysHaveForms == \A entry \in pkDb : Len(entry[1]) = 2 /\ entry[2] \in {"old", "new"}
DbTyped == KeysHaveForms /\ OneForm(pkDb)

(* The keys of leapp and of the repositories are keys.                      *)
LEMMA TheirKeys ==
  ASSUME KeySystemTyped
  PROVE  AreKeys(pkSystem.installed) /\ AreKeys(TrustedCerts) /\ AreKeys(KeysOfRepos)
<1>1. IsKeySystem(pkSystem)
  BY KeyAssumption DEF KeySystemTyped
<1>2. AreKeys(pkSystem.installed) /\ AreKeys(pkSystem.custom)
  BY <1>1 DEF IsKeySystem, AreKeys
<1>3. \A distro, major : AreKeys(CertsOf(distro, major))
  <2>1. Len(Release) = 2 /\ Len(Aux2022) = 2 /\ Len(Official) = 2 /\ Len(Extras) = 2
    BY DEF Release, Aux2022, Official, Extras
  <2> QED BY <2>1 DEF CertsOf, AreKeys
<1>4. AreKeys(TrustedCerts)
  BY <1>2, <1>3 DEF TrustedCerts, AreKeys
<1>5. AreKeys(KeysOfRepos)
  BY <1>1 DEF IsKeySystem, IsKeyUrl, KeysOfRepos, AreKeys
<1> QED BY <1>2, <1>4, <1>5

(* Keys that are new to the RPM DB leave it one form of each.               *)
LEMMA NewKeysAre ==
  ASSUME NEW db, NEW keys,
         \A entry \in db : Len(entry[1]) = 2 /\ entry[2] \in {"old", "new"},
         OneForm(db), AreKeys(keys)
  PROVE  LET more == db \cup ((keys \ {entry[1] : entry \in db}) \X {"new"})
         IN /\ \A entry \in more : Len(entry[1]) = 2 /\ entry[2] \in {"old", "new"}
            /\ OneForm(more)
<1> DEFINE Added == (keys \ {entry[1] : entry \in db}) \X {"new"}
<1>1. ASSUME NEW k \in Added
      PROVE  k = <<k[1], "new">> /\ k[1] \in keys /\ \A entry \in db : entry[1] # k[1]
  OBVIOUS
<1> HIDE DEF Added
<1>2. \A k \in Added : Len(k[1]) = 2 /\ k[2] = "new"
  BY <1>1 DEF AreKeys
<1>3. \A k, l \in Added : k[1] = l[1] => k = l
  BY <1>1
<1>4. \A k \in Added, l \in db : k[1] # l[1] /\ l[1] # k[1]
  BY <1>1
<1>5. OneForm(db \cup Added)
  BY <1>3, <1>4 DEF OneForm
<1>6. \A entry \in db \cup Added : Len(entry[1]) = 2 /\ entry[2] \in {"old", "new"}
  BY <1>2
<1> QED BY <1>5, <1>6 DEF Added

(* Every step leaves the RPM DB one form of each key.                       *)
LEMMA DbStaysTyped ==
  ASSUME KeysInv, KeySystemTyped, DbTyped, KeyNext
  PROVE  DbTyped'
<1>1. \A db : OneForm(db) => \A s \in SUBSET db : OneForm(s)
  BY DEF OneForm
<1>2. CASE pkDb' = pkDb
  BY <1>2 DEF DbTyped, KeysHaveForms, OneForm
<1>3. CASE pkDb' \subseteq pkDb
  BY <1>1, <1>3 DEF DbTyped, KeysHaveForms
<1>4. ASSUME NEW keys, AreKeys(keys),
             pkDb' = pkDb \cup ((keys \ {entry[1] : entry \in pkDb}) \X {"new"})
      PROVE  DbTyped'
  BY <1>4, NewKeysAre DEF DbTyped, KeysHaveForms
<1>5. CASE ApplyWorkaround
  <2>1. PICK w : w = Head(pkLeft) /\ pkDb' = AfterScript(pkDb, w)
    BY <1>5 DEF ApplyWorkaround
  <2>2. w = Removal \/ w = Import
    <3>1. /\ pkAt = "preparation" /\ pkLeft # <<>>
      BY <1>5 DEF ApplyWorkaround
    <3>2. pkLeft \in {<<Removal, Import>>, <<Removal>>, <<Import>>}
      BY <3>1 DEF KeysInv, ScriptsApplied
    <3> QED BY <2>1, <3>2, OfTwo
  <2>3. CASE w = Removal
    <3>1. pkDb' \subseteq pkDb
      BY <2>1, <2>3 DEF AfterScript, Removal
    <3> QED BY <1>3, <3>1
  <2>4. CASE w = Import
    <3>1. pkDb' = pkDb \cup ((TrustedCerts \ {entry[1] : entry \in pkDb}) \X {"new"})
      BY <2>1, <2>4 DEF AfterScript, Import
    <3> QED BY <1>4, <3>1, TheirKeys
  <2> QED BY <2>2, <2>3, <2>4
<1>6. CASE UpgradePackages
  <2>1. PICK keys \in SUBSET KeysOfRepos : pkDb' = pkDb \cup ((keys \ InstalledKeys) \X {"new"})
    BY <1>6 DEF UpgradePackages
  <2>2. AreKeys(keys)
    BY TheirKeys DEF AreKeys
  <2> QED BY <1>4, <2>1, <2>2 DEF InstalledKeys
<1>7. CASE AdministratorErases
  BY <1>3, <1>7 DEF AdministratorErases
<1> QED BY <1>2, <1>5, <1>6, <1>7 DEF KeyNext, ScanTrustedKeys, RemoveObsoleteKeys,
      CheckMissingKeys, EndOfWorkarounds, CheckInstalledKeys

(* What is left of the scripts is an end of those that were registered.     *)
Scripts == {Removal, Import}
ScriptsTyped ==
    /\ pkWorkarounds \in Seq(Scripts) /\ pkLeft \in Seq(Scripts)
    /\ IsSuffix(pkLeft, pkWorkarounds)
    /\ pkAt \in BeforeTheReboot => pkLeft = <<>>

(* What is registered and planned are scripts.                              *)
LEMMA RegisteredAre == Registered \in Seq(Scripts) /\ Planned \in Seq(Scripts)
<1>1. Removal \in Scripts /\ Import \in Scripts
  BY DEF Scripts
<1>2. Registered \in Seq(Scripts)
  BY <1>1 DEF Registered
<1> QED BY <1>1, <1>2 DEF Planned

(* Every step leaves an end of the scripts.                                 *)
LEMMA ScriptsStayTyped ==
  ASSUME KeysInv, KeysInv', KeySystemTyped, ScriptsTyped, KeyNext
  PROVE  ScriptsTyped'
<1>0. pkSystem' = pkSystem
  BY DEF KeyNext, ScanTrustedKeys, RemoveObsoleteKeys, CheckMissingKeys, AdministratorErases,
    ApplyWorkaround, EndOfWorkarounds, UpgradePackages, CheckInstalledKeys
<1>1. Scripts' = Scripts
  BY <1>0, KeySystemDecides DEF Scripts
<1>2. PICK S : S = Scripts
  OBVIOUS
<1>3. /\ pkWorkarounds \in Seq(S) /\ pkLeft \in Seq(S) /\ IsSuffix(pkLeft, pkWorkarounds)
      /\ pkAt \in BeforeTheReboot => pkLeft = <<>>
  BY <1>2 DEF ScriptsTyped
<1>4. <<>> \in Seq(S)
  OBVIOUS
<1>5. CASE pkAt = "facts"
  <2>1. pkLeft' = <<>> /\ pkAt' \in BeforeTheReboot
    BY <1>3, <1>5 DEF BeforeTheReboot, KeyNext, ScanTrustedKeys, RemoveObsoleteKeys,
      CheckMissingKeys, AdministratorErases, ApplyWorkaround, EndOfWorkarounds,
      UpgradePackages, CheckInstalledKeys
  <2>2. pkWorkarounds' \in Seq(S)
    <3>1. pkAt' \in {"facts", "reboot"} => pkWorkarounds' \in {<<>>, Registered, Planned}
      <4>1. pkAt' \in {"facts", "reboot"} => pkWorkarounds' \in {<<>>, Registered', Planned'}
        BY DEF KeysInv, ScriptsRegistered
      <4> QED BY <1>0, <4>1, KeySystemDecides
    <3>2. pkAt' \in {"facts", "reboot"} \/ pkWorkarounds' = pkWorkarounds
          \/ pkWorkarounds' = Append(pkWorkarounds, Import)
      BY <1>5 DEF KeyNext, ScanTrustedKeys, RemoveObsoleteKeys, CheckMissingKeys,
        RegisterImport, ImportLast, Import, AdministratorErases,
        ApplyWorkaround, EndOfWorkarounds, UpgradePackages, CheckInstalledKeys
    <3>3. Import \in S
      BY <1>2 DEF Scripts
    <3>4. Append(pkWorkarounds, Import) \in Seq(S)
      BY <1>3, <3>3
    <3> QED BY <1>2, <1>3, <1>4, <3>1, <3>2, <3>4, RegisteredAre
  <2>3. IsSuffix(pkLeft', pkWorkarounds')
    BY <2>1, <2>2, SuffixSelf
  <2> QED BY <1>1, <1>2, <1>4, <2>1, <2>2, <2>3 DEF ScriptsTyped
<1>6. CASE AdministratorErases
  <2>1. pkLeft' = pkWorkarounds /\ pkWorkarounds' = pkWorkarounds /\ pkAt' = "preparation"
    BY <1>6 DEF AdministratorErases
  <2>2. IsSuffix(pkLeft', pkWorkarounds')
    BY <1>3, <2>1, SuffixSelf
  <2> QED BY <1>1, <1>2, <1>3, <2>1, <2>2 DEF ScriptsTyped, BeforeTheReboot
<1>7. CASE ApplyWorkaround
  <2>1. /\ pkLeft # <<>> /\ pkLeft' = Tail(pkLeft) /\ pkWorkarounds' = pkWorkarounds
        /\ pkAt' \in {"preparation", "failed"}
    BY <1>7 DEF ApplyWorkaround
  <2>2. IsSuffix(pkLeft', pkWorkarounds') /\ pkLeft' \in Seq(S)
    BY <1>3, <2>1, SuffixTail
  <2> QED BY <1>1, <1>2, <1>3, <2>1, <2>2 DEF ScriptsTyped, BeforeTheReboot
<1>8. CASE EndOfWorkarounds \/ UpgradePackages \/ CheckInstalledKeys
  <2>1. /\ pkLeft' = pkLeft /\ pkWorkarounds' = pkWorkarounds
        /\ pkAt' \in {"transaction", "applications", "done"}
    BY <1>8 DEF EndOfWorkarounds, UpgradePackages, CheckInstalledKeys
  <2> QED BY <1>1, <1>2, <1>3, <2>1 DEF ScriptsTyped, BeforeTheReboot
<1> QED BY <1>5, <1>6, <1>7, <1>8 DEF KeyNext, ScanTrustedKeys, RemoveObsoleteKeys,
      CheckMissingKeys

(* The steps of the upgrade, as far as keys go.                             *)
LEMMA KeyPlacesStay ==
  ASSUME KeyNext
  PROVE  pkAt' \in {"facts", "reboot", "preparation", "transaction", "applications",
                    "done", "stopped", "inhibited", "failed"}
BY DEF KeyNext, ScanTrustedKeys, RemoveObsoleteKeys, CheckMissingKeys, AdministratorErases,
  ApplyWorkaround, EndOfWorkarounds, UpgradePackages, CheckInstalledKeys

KeyPlaces == pkAt \in {"facts", "reboot", "preparation", "transaction", "applications",
                        "done", "stopped", "inhibited", "failed"}
(* The parts imply the types.                                               *)
LEMMA KeysTypedBy == KeyPlaces /\ DbTyped /\ ScriptsTyped => KeysTypeOK
<1> SUFFICES ASSUME KeyPlaces, DbTyped, ScriptsTyped PROVE KeysTypeOK
  OBVIOUS
<1>1. \A i \in DOMAIN pkWorkarounds : pkWorkarounds[i] \in Scripts
  BY DEF ScriptsTyped
<1>2. \A i \in DOMAIN pkWorkarounds : pkWorkarounds[i].script \in {"remove", "import"}
  BY <1>1 DEF Scripts, Removal, Import
<1> QED BY <1>2 DEF KeysTypeOK, KeyPlaces, DbTyped, KeysHaveForms, OneForm, ScriptsTyped

(* KeysTypeOK: whatever keys the system, leapp and the repositories have,   *)
(* the RPM DB has one form of each key and the scripts run in the order     *)
(* they were registered.                                                    *)
THEOREM KeysTyped == KeySpec => []KeysTypeOK
<1> DEFINE Typed == KeySystemTyped /\ KeyPlaces /\ DbTyped /\ ScriptsTyped
<1>1. KeyInit => Typed
  <2> SUFFICES ASSUME KeyInit PROVE Typed
    OBVIOUS
  <2>1. /\ pkSystem \in KeySystems /\ pkAt = "facts" /\ pkWorkarounds = <<>> /\ pkLeft = <<>>
        /\ pkDb = pkSystem.installed \X {"old"}
    BY DEF KeyInit
  <2>2. AreKeys(pkSystem.installed)
    BY <2>1, TheirKeys DEF KeySystemTyped
  <2>3. DbTyped
    BY <2>1, <2>2 DEF DbTyped, KeysHaveForms, OneForm, AreKeys
  <2>4. <<>> \in Seq(Scripts)
    OBVIOUS
  <2>5. ScriptsTyped
    BY <2>1, <2>4, SuffixSelf DEF ScriptsTyped
  <2> QED BY <2>1, <2>3, <2>5 DEF KeySystemTyped, KeyPlaces
<1>2. KeysInv /\ KeysInv' /\ Typed /\ [KeyNext]_pkVars => Typed'
  <2> SUFFICES ASSUME KeysInv, KeysInv', Typed, [KeyNext]_pkVars PROVE Typed'
    OBVIOUS
  <2>1. CASE UNCHANGED pkVars
    <3>1. UNCHANGED <<pkSystem, pkAt, pkWorkarounds, pkLeft, pkDb>>
      BY <2>1 DEF pkVars
    <3>2. Scripts' = Scripts
      BY <3>1, KeySystemDecides DEF Scripts
    <3> QED BY <3>1, <3>2 DEF KeySystemTyped, KeyPlaces, DbTyped, KeysHaveForms, OneForm,
          ScriptsTyped
  <2>2. CASE KeyNext
    <3>1. KeySystemTyped'
      BY <2>2 DEF KeySystemTyped, KeyNext, ScanTrustedKeys, RemoveObsoleteKeys,
        CheckMissingKeys, AdministratorErases, ApplyWorkaround, EndOfWorkarounds,
        UpgradePackages, CheckInstalledKeys
    <3> QED BY <2>2, <3>1, DbStaysTyped, ScriptsStayTyped, KeyPlacesStay DEF KeyPlaces
  <2> QED BY <2>1, <2>2
<1>3. Typed => KeysTypeOK
  BY KeysTypedBy
<1> HIDE DEF Typed
<1> QED BY <1>1, <1>2, <1>3, KeysInductive, PTL DEF KeySpec

-----------------------------------------------------------------------------
(* Types of the content access, and the tries of a call.                    *)

(* The subscription is one there is, and a call of subscription-manager is  *)
(* tried no more often than it may be.                                      *)
AccessPlaces == caAt \in {"scan", "rhui", "checks", "upgrade", "release", "repos", "done",
                          "stopped", "inhibited"}
SettingsTyped ==
    /\ caInfo \in {"none", "skus", "sca"}
    /\ DOMAIN caRhui = DOMAIN NoSetup /\ DOMAIN caTasks = DOMAIN NoRpmTasks
    /\ caRelease \in {"unset", "source", "target"}
    /\ caRepos \in {"source", "target"}
TriesCounted ==
    /\ caTries \in 0..MaxAttempts
    /\ caAt \in BeforeTheSwap => caTries = 0
    /\ caAt = "release" => caTries < MaxAttempts

(* Every step keeps the subscription and the settings of releases.          *)
LEMMA SettingsStayTyped ==
  ASSUME AccessInv, AccessPlaces, SettingsTyped, AccessNext
  PROVE  AccessPlaces' /\ SettingsTyped'
<1>1. AccessPlaces'
  BY DEF AccessPlaces, AccessNext, ScanSubscription, CheckRhui, ConfiguredSetup, DetectedSetup,
    UseSetup, CheckAccess, SwapClients, SkipRelease, TrySetRelease, AfterLastAttempt,
    EnableRepos
<1>2. caInfo' \in {"none", "skus", "sca"}
  <2>1. caSystem.subscription \in {"none", "skus", "sca"}
    BY AccessAssumption DEF AccessInv, IsAccessSystem
  <2> QED BY <2>1 DEF SettingsTyped, AccessNext, ScanSubscription, CheckRhui, CheckAccess,
        SwapClients, SkipRelease, TrySetRelease, EnableRepos
<1>3. DOMAIN caRhui' = DOMAIN NoSetup /\ DOMAIN caTasks' = DOMAIN NoRpmTasks
  <2>1. \/ UNCHANGED <<caRhui, caTasks>>
        \/ \E src, target, bootstrap : UseSetup(src, target, bootstrap)
    BY DEF AccessNext, ScanSubscription, CheckRhui, ConfiguredSetup, DetectedSetup,
      CheckAccess, SwapClients, SkipRelease, TrySetRelease, EnableRepos
  <2>2. ASSUME NEW src, NEW target, NEW bootstrap, UseSetup(src, target, bootstrap)
        PROVE  DOMAIN caRhui' = DOMAIN NoSetup /\ DOMAIN caTasks' = DOMAIN NoRpmTasks
    BY <2>2 DEF UseSetup, Swap, NoSetup, NoRpmTasks
  <2> QED BY <2>1, <2>2 DEF SettingsTyped
<1>4. caRelease' \in {"unset", "source", "target"} /\ caRepos' \in {"source", "target"}
  BY DEF SettingsTyped, AccessNext, ScanSubscription, CheckRhui, CheckAccess,
    SwapClients, SkipRelease, TrySetRelease, EnableRepos
<1> QED BY <1>1, <1>2, <1>3, <1>4 DEF SettingsTyped

(* Every step keeps the count of tries.                                     *)
LEMMA TriesStayCounted ==
  ASSUME TriesCounted, AccessNext
  PROVE  TriesCounted'
<1>0. MaxAttempts \in Nat \ {0}
  BY AccessAssumption
<1>1. CASE ScanSubscription \/ CheckRhui \/ CheckAccess
  <2>1. caTries' = caTries /\ caAt \in BeforeTheSwap /\ caAt' # "release"
    BY <1>1 DEF BeforeTheSwap, ScanSubscription, CheckRhui, ConfiguredSetup, DetectedSetup,
      UseSetup, CheckAccess
  <2> QED BY <1>0, <2>1 DEF TriesCounted
<1>2. CASE SwapClients
  BY <1>0, <1>2 DEF SwapClients, TriesCounted, BeforeTheSwap
<1>3. CASE SkipRelease \/ EnableRepos
  BY <1>0, <1>3 DEF SkipRelease, EnableRepos, TriesCounted, BeforeTheSwap
<1>4. CASE TrySetRelease
  <2>1. caAt = "release" /\ caTries \in 0..MaxAttempts /\ caTries < MaxAttempts
    BY <1>4 DEF TrySetRelease, TriesCounted
  <2>2. \/ caTries' = caTries /\ caAt' = "repos"
        \/ caTries' = caTries + 1 /\ caAt' = "stopped"
        \/ caTries' = caTries + 1 /\ caAt' = "release" /\ ~(MaxAttempts <= caTries')
    BY <1>4, <2>1 DEF TrySetRelease, AfterLastAttempt
  <2> QED BY <1>0, <2>1, <2>2 DEF TriesCounted, BeforeTheSwap
<1> QED BY <1>1, <1>2, <1>3, <1>4 DEF AccessNext

(* AccessTypeOK: whatever subscription, client of a cloud or configuration  *)
(* there is, the settings are those subscription-manager knows, and a       *)
(* failing call is not tried once more than MaxAttempts allows.             *)
THEOREM AccessTyped == AccessSpec => []AccessTypeOK
<1> DEFINE Typed == AccessPlaces /\ SettingsTyped /\ TriesCounted
<1>1. AccessInit => Typed
  BY AccessAssumption DEF AccessInit, AccessPlaces, SettingsTyped, TriesCounted
<1>2. AccessInv /\ Typed /\ [AccessNext]_caVars => Typed'
  <2> SUFFICES ASSUME AccessInv, Typed, [AccessNext]_caVars PROVE Typed'
    OBVIOUS
  <2>1. CASE UNCHANGED caVars
    <3>1. UNCHANGED <<caAt, caInfo, caRhui, caTasks, caRelease, caRepos, caTries>>
      BY <2>1 DEF caVars
    <3> QED BY <3>1 DEF AccessPlaces, SettingsTyped, TriesCounted
  <2> QED BY <2>1, SettingsStayTyped, TriesStayCounted
<1>3. AccessInv /\ Typed => AccessTypeOK
  BY DEF AccessInv, ReleaseverSet, AccessPlaces, SettingsTyped, TriesCounted, AccessTypeOK
<1> HIDE DEF Typed
<1> QED BY <1>1, <1>2, <1>3, AccessInductive, PTL DEF AccessSpec

-----------------------------------------------------------------------------
(* Types of the repositories.                                               *)

(* The channel is one there is, and no repository is chosen or set up       *)
(* before its turn.                                                         *)
ReposSetUp ==
    /\ rpTop \in Channels \cup {"none"}
    /\ rpAt = "stopped" => rpBest = <<>>
    /\ ~ReposMapped => rpTarget = {}

(* Every step keeps this.                                                   *)
LEMMA ReposStaySetUp ==
  ASSUME ReposInv, ReposSetUp, RepoNext
  PROVE  ReposSetUp'
<1>0. rpSystem \in RepoSystems
  BY DEF ReposInv, ReposTypes
<1>1. CASE LoadMapping
  BY <1>1 DEF LoadMapping, ReposInv, ReposTypes, ReposSetUp, ReposMapped
<1>2. CASE FindChannels
  <2>1. \A repoid : \A r \in EntryOf(repoid) : r.channel \in Channels
    BY <1>0, SourceEntryIs
  <2>2. \A repoid : TopChannel(repoid) \in Channels \cup {"none"}
    <3> SUFFICES ASSUME NEW repoid PROVE TopChannel(repoid) \in Channels \cup {"none"}
      OBVIOUS
    <3> DEFINE ofBase == {r \in EntryOf(repoid) : r.family = BaseFamily}
               chosen == CHOOSE r \in ofBase : TRUE
    <3>1. CASE ofBase = {}
      BY <3>1 DEF TopChannel, ReposSetUp
    <3>2. CASE ofBase # {}
      <4>1. chosen \in ofBase
        BY <3>2
      <4>2. chosen.channel \in Channels
        BY <2>1, <4>1
      <4>3. TopChannel(repoid) \in {chosen.channel, rpTop}
        BY <3>2 DEF TopChannel
      <4> QED BY <4>2, <4>3 DEF ReposSetUp
    <3> QED BY <3>1, <3>2
  <2>3. /\ rpTop' = rpTop \/ \E repoid : rpTop' = TopChannel(repoid)
        /\ rpAt = "channels" /\ rpAt' \in {"channels", "map"} /\ rpTarget' = rpTarget
    BY <1>2 DEF FindChannels
  <2> QED BY <2>2, <2>3 DEF ReposSetUp, ReposMapped
<1>3. CASE \E repoid \in rpTodo : MapRepository(repoid)
  BY <1>3 DEF MapRepository, ReposSetUp, ReposMapped
<1>4. CASE SetupTargetRepos \/ CheckTargetRepos
  BY <1>4 DEF SetupTargetRepos, CheckTargetRepos, ReposSetUp, ReposMapped
<1> QED BY <1>1, <1>2, <1>3, <1>4 DEF RepoNext

(* What serves a family is of that family and of the target.                *)
LEMMA ServesItsFamily ==
  ASSUME rpSystem \in RepoSystems, NEW t, NEW r, NEW f, Serves(t, r, f)
  PROVE  t.family = f /\ t.major = "target"
<1>1. PICK s : t \in Equivalent(s, f)
  BY DEF Serves
<1>2. PICK i \in Candidates(s, f) : t = rpSystem.entries[i]
  BY <1>1, EquivalentIs
<1> QED BY <1>2 DEF Candidates

(* So the best of them are repositories of the target.                      *)
LEMMA BestAreTyped ==
  ASSUME rpSystem \in RepoSystems, NEW done, BestOf(done), NEW f \in DOMAIN rpBest
  PROVE  /\ Cardinality(rpBest[f]) <= 1
         /\ \A r \in rpBest[f] : r.family = f /\ r.major = "target"
<1>1. /\ \A t, o \in rpBest[f] : t = o
      /\ \A t \in rpBest[f] : \E r \in done : Serves(t, r, f)
  BY DEF BestOf
<1>2. Cardinality(rpBest[f]) <= 1
  <2>1. CASE rpBest[f] = {}
    BY <2>1, FS_EmptySet
  <2>2. CASE rpBest[f] # {}
    <3>1. PICK t : rpBest[f] = {t}
      BY <1>1, <2>2
    <3>2. Cardinality({t}) = 1
      BY FS_Singleton
    <3> QED BY <3>1, <3>2
  <2> QED BY <2>1, <2>2
<1> QED BY <1>1, <1>2, ServesItsFamily

(* The parts imply the types.                                               *)
LEMMA ReposTypedBy == ReposInv /\ ReposSetUp => ReposTypeOK
<1> SUFFICES ASSUME ReposInv, ReposSetUp PROVE ReposTypeOK
  OBVIOUS
<1>1. rpSystem \in RepoSystems
      /\ rpAt \in {"load", "channels", "map", "check", "accepted", "inhibited", "stopped"}
  BY DEF ReposInv, ReposTypes
<1>2. rpBest = <<>> \/ \E done : BestOf(done)
  BY <1>1 DEF ReposInv, ReposTypes, ReposSetUp, BestInv, ReposMapped
<1>3. \A f \in DOMAIN rpBest : /\ Cardinality(rpBest[f]) <= 1
                               /\ \A r \in rpBest[f] : r.family = f /\ r.major = "target"
  <2>1. CASE rpBest = <<>>
    BY <2>1
  <2>2. CASE \E done : BestOf(done)
    BY <1>1, <2>2, BestAreTyped
  <2> QED BY <1>2, <2>1, <2>2
<1>4. rpTarget \cap rpSystem.excluded = {}
  <2>1. rpTarget = {} \/ rpTarget = TargetRepoids
    BY DEF ReposInv, BestInv, ReposSetUp
  <2> QED BY <2>1 DEF TargetRepoids
<1> QED BY <1>1, <1>3, <1>4 DEF ReposTypeOK, ReposSetUp

(* ReposTypeOK: whatever the map says and the options choose, what is       *)
(* mapped are repositories of the map, chosen and set up in their turn.     *)
THEOREM ReposTyped == RepoSpec => []ReposTypeOK
<1>1. RepoInit => ReposSetUp
  BY DEF RepoInit, ReposSetUp
<1>2. ReposInv /\ ReposSetUp /\ [RepoNext]_rpVars => ReposSetUp'
  <2>1. ASSUME ReposSetUp, UNCHANGED rpVars PROVE ReposSetUp'
    <3>1. UNCHANGED <<rpTop, rpAt, rpBest, rpTarget>>
      BY <2>1 DEF rpVars
    <3> QED BY <2>1, <3>1 DEF ReposSetUp, ReposMapped
  <2> QED BY <2>1, ReposStaySetUp
<1> QED BY <1>1, <1>2, ReposTypedBy, ReposInductive, PTL DEF RepoSpec

-----------------------------------------------------------------------------
(* Types of the upgrade path.                                               *)

(* A release has a major version and mostly a minor one; each source that   *)
(* is supported has targets.                                                *)
TargetTyped == Len(upTarget) \in 0..2
PathsTyped == \A v \in DOMAIN upPaths : Len(v) \in 1..2 /\ upPaths[v] # <<>>
PathReportsTyped == upReports \subseteq {"inhibitor", "unsupported", "skipped os release"}

(* What the table supports.                                                 *)
LEMMA SupportedAreTyped ==
  ASSUME upSystem \in PathSystems, NEW v \in DOMAIN SupportedPaths
  PROVE  Len(v) \in 1..2 /\ SupportedPaths[v] # <<>>
<1>1. /\ upSystem.distro \in Distros /\ upSystem.target \in Distros
      /\ upSystem.flavour \in Flavours
  BY PathSystemIs DEF IsPathSystem
<1>2. v \in DOMAIN OwnPaths /\ v[1] = upSystem.version[1]
  BY SupportedOnly
<1>3. PICK w \in DOMAIN TheirPaths : StandsFor(v, w)
  BY SupportedOnly
<1>4. Len(v) \in 1..2
  BY <1>1, <1>2, PathIs DEF IsPath, OwnPaths
<1>5. TheirPaths[w] \in Seq(Seq(Nat)) /\ TheirPaths[w] # <<>>
  BY <1>1, PathIs DEF IsPath, TheirPaths
<1>6. SupportedPaths[v] \in {WithPreviousMinor(TheirPaths[w]), TheirPaths[w]}
  BY <1>2, <1>3, SupportedAre
<1>7. PICK ts : ts = TheirPaths[w]
  OBVIOUS
<1>8. WithPreviousMinor(ts) # <<>>
  <2>1. PICK previous : WithPreviousMinor(ts) \in {ts, Append(ts, previous)}
    BY DEF WithPreviousMinor
  <2>2. ts \in Seq(Seq(Nat)) /\ Len(Append(ts, previous)) = Len(ts) + 1 /\ Len(ts) \in Nat
    BY <1>5, <1>7
  <2>3. Append(ts, previous) # <<>>
    BY <2>2
  <2> QED BY <1>5, <1>7, <2>1, <2>3
<1> QED BY <1>4, <1>5, <1>6, <1>7, <1>8

(* Every step keeps the release of the target and the paths.                *)
LEMMA PathStaysTyped ==
  ASSUME PathInv, PathInv', TargetTyped, PathsTyped, PathReportsTyped, PathNext
  PROVE  TargetTyped' /\ PathsTyped' /\ PathReportsTyped'
<1>0. upSystem \in PathSystems /\ upSystem' = upSystem
  BY DEF PathInv, PathNext, GetTargetRelease, ProduceIpuConfig, CheckPath
<1>1. TargetTyped'
  <2>1. CASE upTarget' = upTarget
    BY <2>1 DEF TargetTyped
  <2>2. CASE upTarget' # upTarget
    <3>1. upAt' = "config"
      BY <2>2 DEF PathNext, GetTargetRelease, ProduceIpuConfig, CheckPath
    <3>2. TargetIsChosen'
      BY <3>1 DEF PathInv
    <3>3. (upTarget = NoVersion)' => Len(upTarget') \in 0..2
      BY DEF NoVersion
    <3>4. upSystem \in PathSystems /\ TargetIsChosen /\ upTarget # NoVersion
             => WellFormed(upTarget, upSystem.target)
      BY ChosenIs
    <3>5. (upSystem \in PathSystems /\ TargetIsChosen /\ upTarget # NoVersion)'
             => WellFormed(upTarget, upSystem.target)'
      BY <3>4, ChosenIs, PTL
    <3>6. (upTarget # NoVersion)' => Len(upTarget') \in 0..2
      BY <1>0, <3>2, <3>5 DEF WellFormed
    <3> QED BY <3>3, <3>6 DEF TargetTyped
  <2> QED BY <2>1, <2>2
<1>2. PathsTyped'
  <2>1. upPaths' = upPaths \/ upPaths' = SupportedPaths
    BY DEF PathNext, GetTargetRelease, ProduceIpuConfig, CheckPath
  <2>2. PICK paths : paths = SupportedPaths
    OBVIOUS
  <2>3. \A v \in DOMAIN paths : Len(v) \in 1..2 /\ paths[v] # <<>>
    BY <1>0, <2>2, SupportedAreTyped
  <2> QED BY <2>1, <2>2, <2>3 DEF PathsTyped
<1>3. PathReportsTyped'
  BY DEF PathReportsTyped, PathNext, GetTargetRelease, ProduceIpuConfig, CheckPath,
    OsReleaseReports, TargetReports, SupportReports
<1> QED BY <1>1, <1>2, <1>3

(* PathTypeOK: whatever table and options there are, the target is a        *)
(* release or none, and a supported source has targets.                     *)
THEOREM PathTyped == PathSpec => []PathTypeOK
<1>1. PathInit => TargetTyped /\ PathsTyped /\ PathReportsTyped
  BY DEF PathInit, NoVersion, TargetTyped, PathsTyped, PathReportsTyped
<1>2. PathInv /\ PathInv' /\ TargetTyped /\ PathsTyped /\ PathReportsTyped
        /\ [PathNext]_upVars => TargetTyped' /\ PathsTyped' /\ PathReportsTyped'
  <2>1. ASSUME TargetTyped, PathsTyped, PathReportsTyped, UNCHANGED upVars
        PROVE  TargetTyped' /\ PathsTyped' /\ PathReportsTyped'
    BY <2>1 DEF upVars, TargetTyped, PathsTyped, PathReportsTyped
  <2> QED BY <2>1, PathStaysTyped
<1>3. PathInv /\ TargetTyped /\ PathsTyped /\ PathReportsTyped => PathTypeOK
  BY DEF PathInv, TargetTyped, PathsTyped, PathReportsTyped, PathTypeOK
<1> QED BY <1>1, <1>2, <1>3, PathInductive, PTL DEF PathSpec

-----------------------------------------------------------------------------
(* All components together, as the run of the actors checks them.           *)

(* Each component takes its own steps, or stays as it is.                   *)
LEMMA ActorsSteps ==
  ASSUME [ActorsNext]_actorsVars
  PROVE  /\ [KernelNext]_kaVars
         /\ [BootOrderNext]_ebVars
         /\ [InitramfsNext]_inVars
         /\ [AccessNext]_caVars
         /\ [PathNext]_upVars
         /\ [ServiceNext]_svVars
         /\ [KeyNext]_pkVars
         /\ [RepoNext]_rpVars
         /\ [MultipathNext]_mpVars
         /\ [DeviceNext]_ddVars
         /\ [LiveNext]_lmVars
<1>1. CASE KernelArgumentsSteps
  BY <1>1 DEF KernelArgumentsSteps
<1>2. CASE UpgradeBootOrderSteps
  BY <1>2 DEF UpgradeBootOrderSteps
<1>3. CASE UpgradeInitramfsSteps
  BY <1>3 DEF UpgradeInitramfsSteps
<1>4. CASE ContentAccessSteps
  BY <1>4 DEF ContentAccessSteps
<1>5. CASE UpgradePathSteps
  BY <1>5 DEF UpgradePathSteps
<1>6. CASE SystemdServicesSteps
  BY <1>6 DEF SystemdServicesSteps
<1>7. CASE PackageKeysSteps
  BY <1>7 DEF PackageKeysSteps
<1>8. CASE RepositoryMapSteps
  BY <1>8 DEF RepositoryMapSteps
<1>9. CASE MultipathConfigSteps
  BY <1>9 DEF MultipathConfigSteps
<1>10. CASE DeviceSupportSteps
  BY <1>10 DEF DeviceSupportSteps
<1>11. CASE LiveModeSteps
  BY <1>11 DEF LiveModeSteps
<1>12. CASE UNCHANGED actorsVars
  BY <1>12 DEF actorsVars
<1> QED
  BY <1>1, <1>2, <1>3, <1>4, <1>5, <1>6, <1>7, <1>8, <1>9, <1>10, <1>11, <1>12
     DEF ActorsNext

(* Each starts as one of its systems.                                       *)
LEMMA ActorsStart ==
  ASSUME ActorsInit
  PROVE  /\ KernelInit
         /\ BootOrderInit
         /\ InitramfsInit
         /\ AccessInit
         /\ PathInit
         /\ ServiceInit
         /\ KeyInit
         /\ RepoInit
         /\ MultipathInit
         /\ DeviceInit
         /\ LiveInit
BY DEF ActorsInit

(* MCUpgradeActors puts modules together that share no variable, so that    *)
(* what is proved of each module can be used of all of them.                *)
LEMMA ActorsRunApart ==
    ActorsSpec =>
      /\ KernelSpec
      /\ BootOrderSpec
      /\ InitramfsSpec
      /\ AccessSpec
      /\ PathSpec
      /\ ServiceSpec
      /\ KeySpec
      /\ RepoSpec
      /\ MultipathSpec
      /\ DeviceSpec
      /\ LiveSpec
<1>1. ActorsInit =>
      /\ KernelInit /\ BootOrderInit /\ InitramfsInit
      /\ AccessInit /\ PathInit /\ ServiceInit
      /\ KeyInit /\ RepoInit /\ MultipathInit
      /\ DeviceInit /\ LiveInit
  BY ActorsStart
<1>2. [ActorsNext]_actorsVars =>
      /\ [KernelNext]_kaVars /\ [BootOrderNext]_ebVars /\ [InitramfsNext]_inVars
      /\ [AccessNext]_caVars /\ [PathNext]_upVars /\ [ServiceNext]_svVars
      /\ [KeyNext]_pkVars /\ [RepoNext]_rpVars /\ [MultipathNext]_mpVars
      /\ [DeviceNext]_ddVars /\ [LiveNext]_lmVars
  BY ActorsSteps
<1> QED
  BY <1>1, <1>2, PTL
     DEF ActorsSpec, KernelSpec, BootOrderSpec, InitramfsSpec, AccessSpec, PathSpec,
         ServiceSpec, KeySpec, RepoSpec, MultipathSpec, DeviceSpec, LiveSpec

(* ActorsTypeOK: the state of every component is well-typed, on any systems *)
(* of theirs, whatever fails and is run again.                              *)
THEOREM ActorsTyped == ActorsSpec => []ActorsTypeOK
<1> QED
  BY ActorsRunApart, KernelArgsTyped, BootOrderTyped, InitramfsTyped, AccessTyped,
     PathTyped, ServicesTyped, KeysTyped, ReposTyped, MultipathTypes, DevicesTyped,
     LiveTyped, PTL DEF ActorsTypeOK
=============================================================================
