---------------------- MODULE TransactionStagesProofs ----------------------
(***************************************************************************)
(* Proofs about the target userspace and the transaction stages together:  *)
(* whichever of them uses the overlay, and however they interleave with    *)
(* failures and kills over any number of executions, the mounts stay       *)
(* nested, nothing of the host is lost without a mishap, and the overlay   *)
(* shows every file system.                                                *)
(***************************************************************************)
EXTENDS TransactionStages, SourceOverlayProofs

(* Who uses the overlay, and what it has mounted there so far.             *)
LinkInv ==
  /\ step # "idle" => pc = "done"
  /\ step = "idle" /\ pc \in {"done", "dead"} => mode = "out"
  /\ pc = "iso" \/ step = "enter" => Iso \notin Entered
  /\ pc \in {"iso", "rhui", "gather", "select", "remove", "bind"} => Userspace \notin Entered
  /\ pc \in {"install", "unbind"} /\ mode = "in" =>
       stack # << >> /\ Last(stack) = Userspace /\ Complete
  /\ pc \in {"install", "unbind"} => mode # "prepare"

StagesInv == OverlayInv /\ ShownInv /\ LinkInv

-----------------------------------------------------------------------------
(* What is entered next in the overlay itself is never what its users      *)
(* mount.                                                                  *)
LEMMA UpcomingIsTheOverlays ==
  ASSUME OverlayInv, Entering
  PROVE  Upcoming # Iso /\ Upcoming # Userspace
<1>1. AfterOverlay.kind \in {"image", "cache"}
  <2>1. CASE left = {}
    BY <2>1, FieldsOf DEF AfterOverlay
  <2>2. CASE left # {}
    <3>1. left \subseteq Paths
      BY StackEntries DEF OverlayInv
    <3>2. PICK q \in left : NextImage = Image(q)
      BY <2>2, <3>1, NextImageFits
    <3> QED BY <2>2, <3>2, FieldsOf DEF AfterOverlay
  <2> QED BY <2>1, <2>2
<1>2. Upcoming.kind \in {"image", "overlay", "bind", "target", "cache"}
  BY <1>1, FieldsOf DEF Upcoming
<1> QED BY <1>2, FieldsOf

LEMMA StepEntered ==
  ASSUME OverlayInv, OverlayStep
  PROVE  /\ Iso \notin Entered => Iso \notin Entered'
         /\ Userspace \notin Entered => Userspace \notin Entered'
<1>1. stack \in Seq(Mounts) /\ Len(stack) \in Nat /\ DOMAIN stack = 1 .. Len(stack)
  BY StackEntries DEF OverlayInv, OverlayTypeOK
<1>2. CASE BuildOverlay
  <2>1. Fits(Upcoming) /\ stack' = Append(stack, Upcoming) /\ Upcoming \in Mounts
    BY <1>2, UpcomingFits DEF BuildOverlay, EnterMount, Fits
  <2>2. /\ DOMAIN stack' = 1 .. Len(stack) + 1
        /\ \A k \in DOMAIN stack : stack'[k] = stack[k]
        /\ stack'[Len(stack) + 1] = Upcoming
    BY <1>1, <2>1, Pushed
  <2>3. DOMAIN stack' = DOMAIN stack \cup {Len(stack) + 1}
    BY <1>1, <2>2
  <2>4. Entered' = Entered \cup {Upcoming}
    <3>1. ASSUME NEW x \in Entered' PROVE x \in Entered \cup {Upcoming}
      <4>1. PICK k \in DOMAIN stack' : x = stack'[k]
        BY <3>1 DEF Entered
      <4> QED BY <2>2, <2>3, <4>1 DEF Entered
    <3>2. ASSUME NEW x \in Entered PROVE x \in Entered'
      <4>1. PICK k \in DOMAIN stack : x = stack[k]
        BY <3>2 DEF Entered
      <4>2. k \in DOMAIN stack' /\ x = stack'[k]
        BY <2>2, <2>3, <4>1
      <4> QED BY <4>2 DEF Entered
    <3>3. Upcoming \in Entered'
      <4>1. Len(stack) + 1 \in DOMAIN stack'
        BY <2>3
      <4> QED BY <2>2, <4>1 DEF Entered
    <3> QED BY <3>1, <3>2, <3>3
  <2> QED BY <1>2, <2>4, UpcomingIsTheOverlays DEF BuildOverlay
<1>3. CASE PrepareImages \/ BuildFails \/ CleanupScratch
  <2>1. stack' = stack
    BY <1>3 DEF PrepareImages, BuildFails, MountFails, CleanupScratch
  <2> QED BY <2>1 DEF Entered
<1>4. CASE Unwind
  <2>1. CASE stack' = stack
    BY <2>1 DEF Entered
  <2>2. CASE ExitMount
    BY <2>2, ExitEntered
  <2> QED BY <1>4, <2>1, <2>2 DEF Unwind
<1> QED BY <1>2, <1>3, <1>4 DEF OverlayStep
-----------------------------------------------------------------------------
(* What the users of the overlay do with it.                               *)

LEMMA OverlayAsItWas ==
  ASSUME StagesInv, UNCHANGED overlayVars
  PROVE  /\ OverlayInv' /\ ShownInv'
         /\ Entered' = Entered /\ stack' = stack /\ mode' = mode
         /\ Last(stack)' = Last(stack) /\ Complete' = Complete
<1>1. OverlayInv'
  BY OverlayStutter DEF StagesInv
<1>2. /\ stack' = stack /\ mode' = mode /\ task' = task /\ sizes' = sizes /\ left' = left
  BY DEF overlayVars
<1>3. Entered' = Entered /\ Complete' = Complete /\ Last(stack)' = Last(stack)
  BY <1>2 DEF Entered, Complete, Last
<1>4. ShownInv'
  BY <1>2, <1>3 DEF StagesInv, ShownInv, OnItsWay, Last
<1> QED BY <1>1, <1>2, <1>3, <1>4

(* The body raises or returns, or a mount in it fails.                     *)
LEMMA OverlayLeft ==
  ASSUME StagesInv,
         \/ \E ok \in BOOLEAN : LeaveOverlay(ok)
         \/ \E m \in {Iso, Userspace} : Inside /\ m \notin Entered /\ MountFails(m)
  PROVE  OverlayInv' /\ ShownInv' /\ mode' = "out of"
<1>1. CASE \E ok \in BOOLEAN : LeaveOverlay(ok)
  BY <1>1, LeaveKeeps DEF StagesInv, LeaveOverlay, ShownInv
<1>2. CASE \E m \in {Iso, Userspace} : Inside /\ m \notin Entered /\ MountFails(m)
  <2>1. PICK m \in {Iso, Userspace} : Inside /\ m \notin Entered /\ MountFails(m)
    BY <1>2
  <2>2. Fits(m)
    BY <2>1, UserMountFits DEF StagesInv
  <2>3. OverlayInv' /\ mode' = "out of"
    BY <2>1, <2>2, FailKeeps DEF StagesInv, MountFails
  <2> QED BY <2>3 DEF ShownInv
<1> QED BY <1>1, <1>2

LEMMA UserMounts ==
  ASSUME StagesInv, NEW m \in {Iso, Userspace}, Inside, m \notin Entered, EnterMount(m)
  PROVE  /\ OverlayInv' /\ ShownInv' /\ mode' = "in" /\ Entered' = Entered \cup {m}
         /\ stack' # << >> /\ Last(stack)' = m /\ Complete'
<1>1. Fits(m) /\ m \in Mounts
  BY UserMountFits, MountKinds DEF StagesInv
<1>2. OverlayInv' /\ ShownInv' /\ mode' = "in"
  BY <1>1, EnterKeeps, EnterKeepsShown DEF StagesInv, Inside, EnterMount
<1>3. stack' # << >> /\ Last(stack)' = m /\ Complete'
  BY <1>1, <1>2, EnterKeepsShown DEF StagesInv
<1>4. stack \in Seq(Mounts) /\ stack' = Append(stack, m)
  BY DEF StagesInv, OverlayInv, OverlayTypeOK, EnterMount
<1>5. /\ DOMAIN stack' = DOMAIN stack \cup {Len(stack) + 1}
      /\ \A k \in DOMAIN stack : stack'[k] = stack[k]
      /\ stack'[Len(stack) + 1] = m
  BY <1>1, <1>4, Pushed
<1> QED BY <1>2, <1>3, <1>5 DEF Entered

(* The end of a user's work, whichever it was.                             *)
LEMMA CreatorLeaves ==
  ASSUME StagesInv, pc \notin {"done", "dead"}, pc' = "leave", step' = step
  PROVE  LinkInv'
  BY DEF StagesInv, LinkInv

LEMMA CreatorGoesOn ==
  ASSUME StagesInv, UNCHANGED <<overlayVars, step>>, pc \notin {"done", "dead"},
         pc' \in {"rhui", "gather", "select", "remove", "bind"} => Userspace \notin Entered,
         pc' \in {"rhui", "gather", "select", "remove", "bind", "unbind", "access", "finish",
                  "produce"},
         pc' = "unbind" => pc = "install"
  PROVE  StagesInv'
<1>1. /\ OverlayInv' /\ ShownInv'
      /\ Entered' = Entered /\ stack' = stack /\ mode' = mode
      /\ Last(stack)' = Last(stack) /\ Complete' = Complete
  BY OverlayAsItWas
<1>2. step = "idle"
  BY DEF StagesInv, LinkInv
<1>3. LinkInv'
  BY <1>1, <1>2 DEF StagesInv, LinkInv
<1> QED BY <1>1, <1>3 DEF StagesInv

(* An action of the creator that gives up.                                 *)
LEMMA CreatorGivesUp ==
  ASSUME StagesInv, pc \notin {"done", "dead"}, step' = step,
         \/ \E how, why : GiveUp(how, why)
         \/ /\ pc' = "leave"
            /\ \/ \E ok \in BOOLEAN : LeaveOverlay(ok)
               \/ \E m \in {Iso, Userspace} : Inside /\ m \notin Entered /\ MountFails(m)
  PROVE  StagesInv'
<1>1. pc' = "leave"
  BY DEF GiveUp
<1>2. \/ \E ok \in BOOLEAN : LeaveOverlay(ok)
      \/ \E m \in {Iso, Userspace} : Inside /\ m \notin Entered /\ MountFails(m)
  BY DEF GiveUp
<1>3. OverlayInv' /\ ShownInv'
  BY <1>2, OverlayLeft
<1>4. LinkInv'
  BY <1>1, CreatorLeaves
<1> QED BY <1>3, <1>4 DEF StagesInv

LEMMA CreatorKeeps ==
  ASSUME StagesInv, CreatorStep, step' = step
  PROVE  StagesInv'
<1>1. CASE MountIso
  <2>1. pc = "iso" /\ Inside /\ Iso \notin Entered /\ Userspace \notin Entered /\ step = "idle"
    BY <1>1 DEF MountIso, Ready, StagesInv, LinkInv
  <2>2. CASE pc' = "rhui" /\ UNCHANGED overlayVars
    BY <2>1, <2>2, CreatorGoesOn
  <2>3. CASE EnterMount(Iso) /\ pc' = "rhui"
    <3>1. OverlayInv' /\ ShownInv' /\ Entered' = Entered \cup {Iso}
      BY <2>1, <2>3, UserMounts
    <3>2. Userspace \notin Entered'
      BY <2>1, <3>1, FieldsOf
    <3>3. LinkInv'
      BY <2>1, <2>3, <3>2 DEF LinkInv
    <3> QED BY <3>1, <3>3 DEF StagesInv
  <2>4. CASE MountFails(Iso) /\ pc' = "leave"
    BY <2>1, <2>4, CreatorGivesUp
  <2> QED BY <1>1, <2>2, <2>3, <2>4 DEF MountIso
<1>2. CASE SetupRhuiAccess
  <2>1. pc = "rhui" /\ Userspace \notin Entered
    BY <1>2 DEF SetupRhuiAccess, Ready, StagesInv, LinkInv
  <2>2. (pc' = "gather" /\ UNCHANGED overlayVars) \/ GiveUp("error", {})
    BY <1>2 DEF SetupRhuiAccess
  <2> QED BY <2>1, <2>2, CreatorGoesOn, CreatorGivesUp
<1>3. CASE GatherDistroRepos
  <2>1. pc = "gather" /\ Userspace \notin Entered
    BY <1>3 DEF GatherDistroRepos, Ready, StagesInv, LinkInv
  <2>2. (pc' = "select" /\ UNCHANGED overlayVars) \/ \E how, why : GiveUp(how, why)
    BY <1>3, Zenon DEF GatherDistroRepos
  <2> QED BY <2>1, <2>2, CreatorGoesOn, CreatorGivesUp
<1>4. CASE SelectRepos
  <2>1. pc = "select" /\ Userspace \notin Entered
    BY <1>4 DEF SelectRepos, Ready, StagesInv, LinkInv
  <2>2. (pc' = "remove" /\ UNCHANGED overlayVars) \/ \E how, why : GiveUp(how, why)
    BY <1>4, Zenon DEF SelectRepos
  <2> QED BY <2>1, <2>2, CreatorGoesOn, CreatorGivesUp
<1>5. CASE RemoveUserspace
  <2>1. pc = "remove" /\ Userspace \notin Entered
    BY <1>5 DEF RemoveUserspace, Ready, StagesInv, LinkInv
  <2>2. (pc' = "bind" /\ UNCHANGED overlayVars) \/ GiveUp("error", {})
    BY <1>5 DEF RemoveUserspace
  <2> QED BY <2>1, <2>2, CreatorGoesOn, CreatorGivesUp
<1>6. CASE BindUserspace
  <2>1. pc = "bind" /\ Inside /\ Userspace \notin Entered /\ step = "idle"
    BY <1>6 DEF BindUserspace, Ready, StagesInv, LinkInv
  <2>2. CASE EnterMount(Userspace) /\ pc' = "install"
    <3>1. /\ OverlayInv' /\ ShownInv' /\ mode' = "in"
          /\ stack' # << >> /\ Last(stack)' = Userspace /\ Complete'
      BY <2>1, <2>2, UserMounts
    <3>2. LinkInv'
      BY <2>1, <2>2, <3>1 DEF LinkInv
    <3> QED BY <3>1, <3>2 DEF StagesInv
  <2>3. CASE MountFails(Userspace) /\ pc' = "leave"
    BY <2>1, <2>3, CreatorGivesUp
  <2> QED BY <1>6, <2>2, <2>3 DEF BindUserspace
<1>7. CASE InstallUserspace
  <2>1. pc = "install"
    BY <1>7 DEF InstallUserspace, Ready
  <2>2. (pc' = "unbind" /\ UNCHANGED overlayVars) \/ GiveUp("error", {})
    BY <1>7 DEF InstallUserspace
  <2> QED BY <2>1, <2>2, CreatorGoesOn, CreatorGivesUp
<1>8. CASE UnbindUserspace
  <2>1. pc = "unbind" /\ Inside /\ mode = "in" /\ pc' = "access" /\ step = "idle"
        /\ Last(stack) = Userspace
    BY <1>8 DEF UnbindUserspace, Ready, Inside, StagesInv, LinkInv
  <2>2. ExitMount /\ UNCHANGED <<mode, task, left, sizes, broken, calls>>
    BY <1>8 DEF UnbindUserspace
  <2>3. OverlayInv' /\ ShownInv'
    BY <2>1, <2>2, ExitKeeps, ExitKeepsShown DEF StagesInv
  <2>4. LinkInv'
    BY <2>1 DEF LinkInv
  <2> QED BY <2>3, <2>4 DEF StagesInv
<1>9. CASE PrepRepositoryAccess
  <2>1. pc = "access"
    BY <1>9 DEF PrepRepositoryAccess, Ready
  <2>2. (pc' = "finish" /\ UNCHANGED overlayVars) \/ GiveUp("error", {})
    BY <1>9 DEF PrepRepositoryAccess
  <2> QED BY <2>1, <2>2, CreatorGoesOn, CreatorGivesUp
<1>10. CASE FinishUserspace
  <2>1. pc = "finish"
    BY <1>10 DEF FinishUserspace, Ready
  <2>2. (pc' = "produce" /\ UNCHANGED overlayVars) \/ GiveUp("error", {})
    BY <1>10 DEF FinishUserspace
  <2> QED BY <2>1, <2>2, CreatorGoesOn, CreatorGivesUp
<1>11. CASE ProduceUserspace
  <2>1. pc = "produce"
    BY <1>11 DEF ProduceUserspace, Ready
  <2>2. (pc' = "leave" /\ LeaveOverlay(TRUE)) \/ GiveUp("error", {})
    BY <1>11 DEF ProduceUserspace
  <2> QED BY <2>1, <2>2, CreatorGivesUp
<1>12. CASE CreatorOverlay
  <2>1. OverlayStep /\ pc \notin {"done", "dead"} /\ step = "idle"
    BY <1>12 DEF CreatorOverlay, StagesInv, LinkInv
  <2>2. OverlayInv' /\ ShownInv'
    BY <2>1, StepKeeps, StepKeepsShown DEF StagesInv
  <2>3. CASE mode' = "out"
    <3>1. pc' = "done"
      BY <1>12, <2>3 DEF CreatorOverlay
    <3>2. LinkInv'
      BY <2>1, <2>3, <3>1 DEF LinkInv
    <3> QED BY <2>2, <3>2 DEF StagesInv
  <2>4. CASE mode' # "out"
    <3>1. pc' = pc
      BY <1>12, <2>4 DEF CreatorOverlay
    <3>2. /\ Iso \notin Entered => Iso \notin Entered'
          /\ Userspace \notin Entered => Userspace \notin Entered'
      BY <2>1, StepEntered DEF StagesInv
    <3>3. pc \in {"install", "unbind"} => mode' # "in" /\ mode' # "prepare"
      <4>1. SUFFICES ASSUME pc \in {"install", "unbind"}, mode' \in {"in", "prepare"} PROVE FALSE
        OBVIOUS
      <4>2. (mode = "in" => Complete) /\ mode # "prepare"
        BY <4>1 DEF StagesInv, LinkInv
      <4>3. CASE PrepareImages
        <5>1. mode = "prepare"
          BY <4>3 DEF PrepareImages
        <5> QED BY <4>2, <5>1
      <4>4. CASE BuildOverlay
        BY <4>2, <4>4 DEF BuildOverlay, Entering
      <4>5. CASE BuildFails \/ Unwind \/ CleanupScratch
        BY <4>1, <4>5 DEF BuildFails, MountFails, Unwind, CleanupScratch
      <4> QED BY <2>1, <4>3, <4>4, <4>5 DEF OverlayStep
    <3>4. LinkInv'
      BY <2>1, <3>1, <3>2, <3>3 DEF StagesInv, LinkInv
    <3> QED BY <2>2, <3>4 DEF StagesInv
  <2> QED BY <2>3, <2>4
<1>13. CASE CreatorKilled
  <2>1. Killed /\ pc' = "dead" /\ step = "idle" /\ mode' = "out"
    BY <1>13 DEF CreatorKilled, Killed, StagesInv, LinkInv
  <2>2. OverlayInv' /\ ShownInv'
    BY <2>1, KilledKeeps DEF StagesInv, ShownInv
  <2>3. LinkInv'
    BY <2>1 DEF LinkInv
  <2> QED BY <2>2, <2>3 DEF StagesInv
<1> QED BY <1>1, <1>2, <1>3, <1>4, <1>5, <1>6, <1>7, <1>8, <1>9, <1>10, <1>11, <1>12, <1>13
        DEF CreatorStep
-----------------------------------------------------------------------------
(* The stages of the transaction, which come when the creator is done.     *)

LEMMA StageGoesOn ==
  ASSUME StagesInv, UNCHANGED <<overlayVars, pc>>, step # "idle",
         step' \notin {"idle", "enter"}
  PROVE  StagesInv'
<1>1. /\ OverlayInv' /\ ShownInv'
  BY OverlayAsItWas
<1>2. pc' = "done"
  BY DEF StagesInv, LinkInv
<1>3. LinkInv'
  BY <1>2 DEF LinkInv
<1> QED BY <1>1, <1>3 DEF StagesInv

LEMMA StageLeaves ==
  ASSUME StagesInv, step # "idle", step' = "leave", pc' = pc,
         \/ \E ok \in BOOLEAN : LeaveOverlay(ok)
         \/ \E m \in {Iso, Userspace} : Inside /\ m \notin Entered /\ MountFails(m)
  PROVE  StagesInv'
<1>1. OverlayInv' /\ ShownInv'
  BY OverlayLeft
<1>2. pc' = "done"
  BY DEF StagesInv, LinkInv
<1>3. LinkInv'
  BY <1>2 DEF LinkInv
<1> QED BY <1>1, <1>3 DEF StagesInv

LEMMA ExecuteKeeps ==
  ASSUME StagesInv, NEW t \in CreatorTasks, Execute(t)
  PROVE  StagesInv'
<1>1. t \in Tasks
  BY StagesAssumption
<1>2. step = "idle" /\ step' = "idle" /\ pc \in {"done", "dead"} /\ mode = "out"
  BY DEF Execute, StartCreator, StagesInv, LinkInv
<1>3. CASE OpenOverlay(t) /\ pc' = "iso"
  <2>1. OverlayInv' /\ mode' = "prepare" /\ stack' = stack /\ stack = << >>
    BY <1>1, <1>3, OpenKeeps DEF StagesInv, OpenOverlay, OverlayInv, ModeInv
  <2>2. Entered' = {}
    BY <2>1 DEF Entered
  <2>3. LinkInv'
    BY <1>2, <1>3, <2>2 DEF LinkInv
  <2> QED BY <2>1, <2>3 DEF StagesInv, ShownInv
<1>4. CASE /\ mode = "out" /\ calls < MaxCalls /\ pc' = "done" /\ calls' = calls + 1
           /\ UNCHANGED <<mode, task, left, sizes, stack, attached, lost, broken, mishaps>>
  <2>1. OverlayTypeOK' /\ AttachedInv' /\ mode' = "out"
    <3>1. stack = << >>
      BY <1>2 DEF StagesInv, OverlayInv, ModeInv
    <3>2. calls \in Nat /\ calls' \in 0 .. MaxCalls /\ 1 .. calls \subseteq 1 .. calls'
      BY <1>4, OverlayAssumption DEF StagesInv, OverlayInv, OverlayTypeOK
    <3>3. attached' \subseteq Mounts \X (1 .. calls')
      BY <1>4, <3>2 DEF StagesInv, OverlayInv, OverlayTypeOK
    <3>4. OverlayTypeOK'
      BY <1>4, <3>2, <3>3 DEF StagesInv, OverlayInv, OverlayTypeOK
    <3>5. /\ {<<stack[k], calls>> : k \in DOMAIN stack} = {}
          /\ {<<stack'[k], calls'>> : k \in DOMAIN stack'} = {}
      BY <1>4, <3>1
    <3>6. AttachedInv'
      BY <1>4, <3>5 DEF StagesInv, OverlayInv, AttachedInv
    <3> QED BY <1>2, <1>4, <3>4, <3>6
  <2>2. StackInv'
    BY <1>4 DEF StagesInv, OverlayInv, StackInv
  <2>3. LeftInv' /\ ModeInv' /\ ShownInv'
    BY <1>2, <1>4 DEF StagesInv, OverlayInv, LeftInv, ModeInv, ShownInv
  <2>4. LinkInv'
    BY <1>2, <1>4 DEF LinkInv
  <2> QED BY <2>1, <2>2, <2>3, <2>4 DEF StagesInv, OverlayInv
<1> QED BY <1>3, <1>4 DEF Execute, StartCreator

LEMMA StartStageKeeps ==
  ASSUME StagesInv, NEW t \in StageTasks, StartStage(t)
  PROVE  StagesInv'
<1>1. t \in Tasks
  BY StagesAssumption
<1>2. OpenOverlay(t) /\ pc = "done" /\ pc' = "done" /\ step' = "enter"
  BY DEF StartStage, MayGoOn, actorVars
<1>3. OverlayInv' /\ mode' = "prepare" /\ stack' = stack /\ stack = << >>
  BY <1>1, <1>2, OpenKeeps DEF StagesInv, OpenOverlay, OverlayInv, ModeInv
<1>4. Entered' = {}
  BY <1>3 DEF Entered
<1>5. LinkInv'
  BY <1>2, <1>4 DEF LinkInv
<1> QED BY <1>3, <1>5 DEF StagesInv, ShownInv

LEMMA StagesStepKeeps ==
  ASSUME StagesInv, StagesStep
  PROVE  StagesInv'
<1>1. CASE Forget
  <2>1. UNCHANGED overlayVars /\ step' = step /\ pc' = pc
    BY <1>1 DEF Forget, stageVars
  <2>2. /\ OverlayInv' /\ ShownInv'
        /\ Entered' = Entered /\ stack' = stack /\ mode' = mode
        /\ Last(stack)' = Last(stack) /\ Complete' = Complete
    BY <2>1, OverlayAsItWas
  <2>3. LinkInv'
    BY <2>1, <2>2 DEF StagesInv, LinkInv
  <2> QED BY <2>2, <2>3 DEF StagesInv
<1>2. CASE Create
  BY <1>2, CreatorKeeps DEF Create
<1>3. CASE StageOverlay
  <2>1. step # "idle" /\ OverlayStep /\ pc = "done" /\ pc' = "done"
    BY <1>3 DEF StageOverlay, actorVars, StagesInv, LinkInv
  <2>2. OverlayInv' /\ ShownInv'
    BY <2>1, StepKeeps, StepKeepsShown DEF StagesInv
  <2>3. Iso \notin Entered => Iso \notin Entered'
    BY <2>1, StepEntered DEF StagesInv
  <2>4. IF mode' = "out" THEN step' = "idle" ELSE step' = step
    BY <1>3 DEF StageOverlay
  <2>5. LinkInv'
    BY <2>1, <2>3, <2>4 DEF StagesInv, LinkInv
  <2> QED BY <2>2, <2>5 DEF StagesInv
<1>4. CASE StageIso
  <2>1. step = "enter" /\ Inside /\ Iso \notin Entered /\ pc = "done" /\ pc' = "done"
    BY <1>4 DEF StageIso, actorVars, StagesInv, LinkInv
  <2>2. CASE step' = "workarounds" /\ UNCHANGED overlayVars
    BY <2>1, <2>2, StageGoesOn
  <2>3. CASE EnterMount(Iso) /\ step' = "workarounds"
    <3>1. OverlayInv' /\ ShownInv'
      BY <2>1, <2>3, UserMounts
    <3>2. LinkInv'
      BY <2>1, <2>3 DEF LinkInv
    <3> QED BY <3>1, <3>2 DEF StagesInv
  <2>4. CASE MountFails(Iso) /\ step' = "leave"
    BY <2>1, <2>4, StageLeaves
  <2> QED BY <1>4, <2>2, <2>3, <2>4 DEF StageIso
<1>5. CASE Workarounds
  <2>1. step # "idle" /\ pc' = pc
    BY <1>5 DEF Workarounds, actorVars
  <2>2. (step' = "config" /\ UNCHANGED overlayVars) \/ (LeaveOverlay(FALSE) /\ step' = "leave")
    BY <1>5 DEF Workarounds, Fail
  <2> QED BY <2>1, <2>2, StageGoesOn, StageLeaves
<1>6. CASE CreateConfig
  <2>1. step # "idle" /\ pc' = pc /\ step' = "dnf" /\ UNCHANGED overlayVars
    BY <1>6 DEF CreateConfig, actorVars
  <2> QED BY <2>1, StageGoesOn
<1>7. CASE RunDnf
  <2>1. step # "idle" /\ pc' = pc
    BY <1>7 DEF RunDnf, actorVars
  <2>2. \E ok \in BOOLEAN : LeaveOverlay(ok) /\ step' = "leave"
    BY <1>7 DEF RunDnf, Fail
  <2> QED BY <2>1, <2>2, StageLeaves
<1>8. CASE StageKilled
  <2>1. step # "idle" /\ Killed /\ step' = "idle" /\ pc = "done" /\ pc' = "done" /\ mode' = "out"
    BY <1>8 DEF StageKilled, Killed, actorVars, StagesInv, LinkInv
  <2>2. OverlayInv' /\ ShownInv'
    BY <2>1, KilledKeeps DEF StagesInv, ShownInv
  <2>3. LinkInv'
    BY <2>1 DEF LinkInv
  <2> QED BY <2>2, <2>3 DEF StagesInv
<1>9. CASE Upgrade
  <2>1. /\ step = "idle" /\ step' = "idle" /\ pc = "done" /\ pc' = "done" /\ attached' = {}
        /\ mode = "out" /\ stack = << >>
        /\ UNCHANGED <<mode, task, left, sizes, stack, lost, broken, calls, mishaps>>
    BY <1>9 DEF Upgrade, MayGoOn, StagesInv, LinkInv, OverlayInv, ModeInv
  <2>2. OverlayTypeOK'
    BY <2>1 DEF StagesInv, OverlayInv, OverlayTypeOK
  <2>3. StackInv'
    BY <2>1 DEF StagesInv, OverlayInv, StackInv
  <2>4. LeftInv' /\ ModeInv' /\ ShownInv' /\ LinkInv'
    BY <2>1 DEF StagesInv, OverlayInv, LeftInv, ModeInv, ShownInv, LinkInv
  <2>5. {<<stack'[k], calls'>> : k \in DOMAIN stack'} = {}
    BY <2>1
  <2>6. AttachedInv'
    BY <2>1, <2>5 DEF StagesInv, OverlayInv, AttachedInv
  <2> QED BY <2>2, <2>3, <2>4, <2>6 DEF StagesInv, OverlayInv
<1> QED BY <1>1, <1>2, <1>3, <1>4, <1>5, <1>6, <1>7, <1>8, <1>9 DEF StagesStep

-----------------------------------------------------------------------------
(* The invariant always holds, for any file systems, tasks, systems,       *)
(* executions and mishaps.                                                 *)
THEOREM StagesInductive == StagesSpec => []StagesInv
<1>1. StagesInit => StagesInv
  <2>1. SUFFICES ASSUME StagesInit PROVE StagesInv
    OBVIOUS
  <2>2. OverlayInit /\ pc = "done" /\ step = "idle"
    BY <2>1 DEF StagesInit, UserspaceInit
  <2>3. OverlayInv
    BY <2>2, OverlayStart
  <2>4. mode = "out"
    BY <2>2 DEF OverlayInit
  <2> QED BY <2>2, <2>3, <2>4 DEF StagesInv, ShownInv, LinkInv
<1>2. StagesInv /\ [StagesNext]_stagesVars => StagesInv'
  <2>1. SUFFICES ASSUME StagesInv, [StagesNext]_stagesVars PROVE StagesInv'
    OBVIOUS
  <2>2. CASE UNCHANGED stagesVars
    <3>1. UNCHANGED overlayVars /\ step' = step /\ pc' = pc
      BY <2>2 DEF stagesVars, actorVars, stageVars
    <3>2. /\ OverlayInv' /\ ShownInv'
          /\ Entered' = Entered /\ stack' = stack /\ mode' = mode
          /\ Last(stack)' = Last(stack) /\ Complete' = Complete
      BY <2>1, <3>1, OverlayAsItWas
    <3>3. LinkInv'
      BY <2>1, <3>1, <3>2 DEF StagesInv, LinkInv
    <3> QED BY <3>2, <3>3 DEF StagesInv
  <2>3. CASE \E t \in CreatorTasks : Execute(t)
    BY <2>1, <2>3, ExecuteKeeps
  <2>4. CASE \E t \in StageTasks : StartStage(t)
    BY <2>1, <2>4, StartStageKeeps
  <2>5. CASE StagesStep
    BY <2>1, <2>5, StagesStepKeeps
  <2> QED BY <2>1, <2>2, <2>3, <2>4, <2>5 DEF StagesNext
<1> QED BY <1>1, <1>2, PTL DEF StagesSpec

(* Mounts are made and undone as a stack, and without a mishap none is     *)
(* left (MountingBase of mounting.py, overlaygen.create_source_overlay).   *)
THEOREM Undone == StagesSpec => []MountsAreUndone
<1>1. StagesInv => MountsAreUndone
  BY NestedFollows DEF StagesInv
<1> QED BY <1>1, StagesInductive, PTL

(* No directory of the host is emptied through a mount without a mishap    *)
(* (rm -rf of MountingBase._cleanup, rmtree of cleanup_scratch).           *)
THEOREM NothingLost == StagesSpec => []LostOnlyByMishap
<1>1. StagesInv => LostOnlyByMishap
  BY NestedFollows DEF StagesInv
<1> QED BY <1>1, StagesInductive, PTL

(* Whoever works in the overlay sees every file system of fstab, on images *)
(* that leave the reserve free (_prepare_required_mounts,                  *)
(* _build_overlay_mount).                                                  *)
THEOREM Shown == StagesSpec => []OverlayIsComplete
<1>1. StagesInv => OverlayIsComplete
  BY CompleteFollows DEF StagesInv
<1> QED BY <1>1, StagesInductive, PTL
-----------------------------------------------------------------------------
(* What the stages hand over to each other.                                *)

Body == {"enter", "workarounds", "config", "dnf"}

(* All that the upgrade needs from the stages before it.                   *)
HandedToUpgrade ==
  /\ data.writer = "download" /\ data.of = execution
  /\ data.aws = OnAws /\ (OnAws => data.region)
  /\ excluded
  /\ mishaps = 0 => cached = execution

RehearsedInv ==
  /\ stage \in Stages /\ step \in Body \cup {"idle", "leave"}
  /\ pc # "done" => stage = "check"
  /\ step \in Body /\ mode \in {"out of", "cleanup"} => broken
  /\ stage \in {"dry-run", "upgrade"} => HandedToUpgrade
  /\ stage = "download" /\ step = "dnf" => data = PluginData
  /\ stage = "download" /\ step = "leave" /\ ~broken => HandedToUpgrade
  /\ step \in {"config", "dnf"} => excluded
  /\ outcome = "upgraded" => stage = "upgrade" /\ step = "idle" /\ excluded /\ hostExcluded

LEMMA RehearsedFollows ==
  ASSUME RehearsedInv
  PROVE  UpgradeIsTheRehearsed
<1>1. UpgradesWhatWasDownloaded
  BY DEF RehearsedInv, HandedToUpgrade, UpgradesWhatWasDownloaded
<1>2. PackagesStayCached
  BY DEF RehearsedInv, HandedToUpgrade, PackagesStayCached
<1>3. LeappNeverInTransaction
  BY DEF RehearsedInv, LeappNeverInTransaction
<1> QED BY <1>1, <1>2, <1>3 DEF UpgradeIsTheRehearsed

(* Nothing is lost while nothing goes wrong, so the cache is not either.   *)
LEMMA CacheStays ==
  ASSUME OverlayInv', cached' = (IF CacheDir \in lost' \ lost THEN 0 ELSE cached), mishaps' = 0
  PROVE  cached' = cached
  BY DEF OverlayInv, AttachedInv

(* The overlay of a stage.                                                 *)
LEMMA HowTheOverlayMoves ==
  ASSUME StagesInv, OverlayStep
  PROVE  /\ mode' = "out" => mode = "cleanup" /\ broken' = broken
         /\ mode' \in {"out of", "cleanup"} =>
              broken' \/ (mode \in {"out of", "cleanup"} /\ broken' = broken)
         /\ broken' = broken \/ broken' = TRUE
         /\ mishaps' = 0 => mishaps = 0
<1>1. CASE PrepareImages
  BY <1>1 DEF PrepareImages
<1>2. CASE BuildOverlay
  <2>1. mode = "in" /\ mode' = "in" /\ EnterMount(Upcoming)
    BY <1>2 DEF BuildOverlay, EnterMount
  <2>2. (mishaps' = mishaps \/ mishaps' = mishaps + 1) /\ broken' = broken
    BY <2>1 DEF EnterMount
  <2>3. mishaps \in Nat
    BY StackEntries DEF StagesInv, OverlayInv
  <2> QED BY <2>1, <2>2, <2>3
<1>3. CASE BuildFails
  <2>1. mode' = "out of" /\ broken' = TRUE /\ CleanMount(Upcoming)
    BY <1>3 DEF BuildFails, MountFails
  <2>2. mishaps' = 0 => mishaps = 0
    BY <2>1, CleanTypes DEF StagesInv, OverlayInv
  <2> QED BY <2>1, <2>2
<1>4. CASE Unwind
  <2>1. mode = "out of" /\ broken' = broken /\ mode' \in {"out of", "cleanup"}
    BY <1>4 DEF Unwind
  <2>2. mishaps' = 0 => mishaps = 0
    <3>1. ExitMount \/ mishaps' = mishaps
      BY <1>4 DEF Unwind
    <3> QED BY <3>1, CleanTypes DEF ExitMount, StagesInv, OverlayInv
  <2> QED BY <2>1, <2>2
<1>5. CASE CleanupScratch
  BY <1>5 DEF CleanupScratch
<1> QED BY <1>1, <1>2, <1>3, <1>4, <1>5 DEF OverlayStep

LEMMA StageOverlayRehearsed ==
  ASSUME StagesInv, OverlayInv', RehearsedInv, StageOverlay
  PROVE  RehearsedInv'
<1>1. /\ step # "idle" /\ OverlayStep /\ pc = "done" /\ pc' = "done"
      /\ UNCHANGED <<execution, data, excluded, hostExcluded>>
      /\ cached' = (IF CacheDir \in lost' \ lost THEN 0 ELSE cached)
  BY DEF StageOverlay, actorVars, StagesInv, LinkInv
<1>2. HandedToUpgrade => HandedToUpgrade'
  <2>1. mishaps' = 0 => mishaps = 0 /\ cached' = cached
    BY <1>1, HowTheOverlayMoves, CacheStays
  <2> QED BY <1>1, <2>1 DEF HandedToUpgrade
<1>3. CASE mode' = "out"
  <2>1. /\ mode = "cleanup" /\ step' = "idle" /\ outcome' \in {"failed", "passed"}
        /\ stage' = (IF broken THEN stage ELSE NextStage(stage))
    BY <1>1, <1>3, HowTheOverlayMoves DEF StageOverlay
  <2>2. CASE broken
    BY <1>1, <1>2, <2>1, <2>2 DEF RehearsedInv, Body
  <2>3. CASE ~broken
    <3>1. step \notin Body
      BY <2>1, <2>3 DEF RehearsedInv
    <3>2. CASE stage = "check"
      <4>1. stage' = "download"
        BY <2>1, <2>3, <3>2 DEF NextStage
      <4> QED BY <1>1, <2>1, <4>1 DEF RehearsedInv, Body, Stages
    <3>3. CASE stage = "download" /\ step = "leave"
      <4>1. stage' = "dry-run" /\ HandedToUpgrade'
        BY <1>2, <2>1, <2>3, <3>3 DEF NextStage, RehearsedInv
      <4> QED BY <1>1, <2>1, <4>1 DEF RehearsedInv, HandedToUpgrade, Body, Stages
    <3>4. CASE stage \in {"dry-run", "upgrade"}
      <4>1. stage' = "upgrade" /\ HandedToUpgrade'
        BY <1>2, <2>1, <2>3, <3>4 DEF NextStage, RehearsedInv
      <4> QED BY <1>1, <2>1, <4>1 DEF RehearsedInv, HandedToUpgrade, Body, Stages
    <3>5. stage \in Stages /\ step \in Body \cup {"leave"}
      BY <1>1 DEF RehearsedInv
    <3> QED BY <3>1, <3>2, <3>3, <3>4, <3>5 DEF Stages
  <2> QED BY <2>2, <2>3
<1>4. CASE mode' # "out"
  <2>1. step' = step /\ outcome' = outcome /\ stage' = stage
    BY <1>4 DEF StageOverlay
  <2>2. step \in Body /\ mode' \in {"out of", "cleanup"} => broken'
    BY <1>1, HowTheOverlayMoves DEF RehearsedInv
  <2>3. stage = "download" /\ step = "leave" /\ ~broken' => ~broken
    BY <1>1, HowTheOverlayMoves
  <2> QED BY <1>1, <1>2, <2>1, <2>2, <2>3 DEF RehearsedInv, PluginData
<1> QED BY <1>3, <1>4

LEMMA StagesRehearsed ==
  ASSUME StagesInv, StagesInv', RehearsedInv, StagesStep
  PROVE  RehearsedInv'
<1> USE DEF Body
<1>1. CASE Forget
  <2>1. UNCHANGED <<overlayVars, pc, stageVars>>
    BY <1>1 DEF Forget
  <2> QED BY <2>1 DEF overlayVars, stageVars, RehearsedInv, HandedToUpgrade, PluginData
<1>2. CASE Create
  <2>1. pc # "done" /\ CreatorStep
    BY <1>2 DEF Create, CreatorStep, MountIso, SetupRhuiAccess, GatherDistroRepos, SelectRepos,
       RemoveUserspace, BindUserspace, InstallUserspace, UnbindUserspace, PrepRepositoryAccess,
       FinishUserspace, ProduceUserspace, CreatorOverlay, CreatorKilled, Ready
  <2>2. stage = "check" /\ step = "idle" /\ UNCHANGED <<stage, step, outcome>>
    BY <1>2, <2>1 DEF RehearsedInv, StagesInv, LinkInv, Create
  <2> QED BY <2>2 DEF RehearsedInv
<1>3. CASE StageOverlay
  BY <1>3, StageOverlayRehearsed DEF StagesInv
<1>4. CASE StageIso
  <2>1. /\ step = "enter" /\ mode = "in" /\ pc' = pc
        /\ UNCHANGED <<execution, stage, data, cached, excluded, hostExcluded>>
    BY <1>4 DEF StageIso, Inside, actorVars
  <2>2. CASE UNCHANGED <<overlayVars, outcome>> /\ step' = "workarounds"
    BY <2>1, <2>2 DEF overlayVars, RehearsedInv, HandedToUpgrade
  <2>3. CASE EnterMount(Iso) /\ step' = "workarounds" /\ UNCHANGED outcome
    <3>1. mode' = "in" /\ (mishaps' = mishaps \/ mishaps' = mishaps + 1)
      BY <2>1, <2>3 DEF EnterMount
    <3>2. mishaps' = 0 => mishaps = 0
      BY <3>1, StackEntries DEF StagesInv, OverlayInv
    <3> QED BY <2>1, <2>3, <3>1, <3>2 DEF RehearsedInv, HandedToUpgrade
  <2>4. CASE MountFails(Iso) /\ step' = "leave" /\ outcome' = "failed"
    <3>1. mode' = "out of" /\ broken' = TRUE /\ CleanMount(Iso)
      BY <2>4 DEF MountFails
    <3>2. mishaps' = 0 => mishaps = 0
      BY <3>1, CleanTypes DEF StagesInv, OverlayInv
    <3> QED BY <2>1, <2>4, <3>1, <3>2 DEF RehearsedInv, HandedToUpgrade
  <2> QED BY <1>4, <2>2, <2>3, <2>4 DEF StageIso
<1>5. CASE Workarounds
  <2>1. /\ step = "workarounds" /\ mode = "in" /\ pc' = pc
        /\ UNCHANGED <<execution, stage, data, cached, hostExcluded>>
    BY <1>5 DEF Workarounds, Inside, actorVars
  <2>2. CASE /\ excluded' = ExcludedThen /\ step' = "config" /\ UNCHANGED <<overlayVars, outcome>>
    <3>1. excluded'
      BY <2>2 DEF ExcludedThen, RehearsedInv, HandedToUpgrade
    <3> QED BY <2>1, <2>2, <3>1 DEF overlayVars, RehearsedInv, HandedToUpgrade
  <2>3. CASE Fail /\ UNCHANGED excluded
    <3>1. /\ mode' = "out of" /\ broken' = TRUE /\ step' = "leave" /\ outcome' = "failed"
          /\ mishaps' = mishaps
      BY <2>3 DEF Fail, LeaveOverlay
    <3> QED BY <2>1, <2>3, <3>1 DEF RehearsedInv, HandedToUpgrade
  <2> QED BY <1>5, <2>2, <2>3 DEF Workarounds
<1>6. CASE CreateConfig
  <2>1. /\ step = "config" /\ mode = "in" /\ pc' = pc /\ step' = "dnf"
        /\ data' = (IF WritesData THEN PluginData ELSE data)
        /\ UNCHANGED <<overlayVars, execution, stage, cached, excluded, hostExcluded, outcome>>
    BY <1>6 DEF CreateConfig, Inside, actorVars
  <2>2. stage = "download" => data' = PluginData'
    BY <2>1 DEF WritesData, PluginData
  <2>3. stage \in {"dry-run", "upgrade"} => data' = data
    BY <2>1 DEF WritesData
  <2> QED BY <2>1, <2>2, <2>3 DEF overlayVars, RehearsedInv, HandedToUpgrade
<1>7. CASE RunDnf
  <2>1. /\ step = "dnf" /\ step' = "leave" /\ mode' = "out of" /\ pc' = pc
        /\ data' = RegionSaved /\ mishaps' = mishaps
        /\ UNCHANGED <<execution, stage, excluded, hostExcluded>>
    BY <1>7 DEF RunDnf, Fail, LeaveOverlay, actorVars
  <2>2. stage \in {"dry-run", "upgrade"} => data' = data /\ cached' = cached
    BY <1>7, <2>1 DEF RunDnf, RegionSaved, CachedThen
  <2>3. stage \in {"dry-run", "upgrade"} => HandedToUpgrade'
    BY <2>1, <2>2 DEF RehearsedInv, HandedToUpgrade
  <2>4. outcome # "upgraded" /\ outcome' # "upgraded"
    BY <1>7, <2>1 DEF RunDnf, Fail, RehearsedInv
  <2>5. ASSUME stage = "download", ~broken' PROVE HandedToUpgrade'
    <3>1. cached' = execution
      BY <1>7, <2>5 DEF RunDnf, Fail, LeaveOverlay, CachedThen
    <3>2. data = [writer |-> "download", of |-> execution, test |-> TRUE,
                  aws |-> OnAws, region |-> FALSE]
      BY <2>1, <2>5, StagesAssumption DEF RehearsedInv, PluginData
    <3>3. /\ data'.writer = "download" /\ data'.of = execution /\ data'.aws = OnAws
          /\ OnAws => data'.region
      BY <2>1, <2>5, <3>2 DEF RegionSaved
    <3> QED BY <2>1, <3>1, <3>3 DEF RehearsedInv, HandedToUpgrade
  <2> QED BY <2>1, <2>3, <2>4, <2>5 DEF RehearsedInv
<1>8. CASE StageKilled
  <2>1. /\ step # "idle" /\ step' = "idle" /\ outcome' = "failed" /\ pc' = pc /\ mode' = "out"
        /\ mishaps' = mishaps + 1
        /\ UNCHANGED <<execution, stage, data, cached, excluded, hostExcluded>>
    BY <1>8 DEF StageKilled, Killed, actorVars
  <2>2. mishaps' # 0
    BY <2>1, StackEntries DEF StagesInv, OverlayInv
  <2> QED BY <2>1, <2>2 DEF RehearsedInv, HandedToUpgrade
<1>9. CASE Upgrade
  <2>1. /\ step = "idle" /\ stage = "upgrade" /\ pc' = pc /\ excluded' = TRUE
        /\ (outcome' = "upgraded" /\ hostExcluded' = TRUE) \/ outcome' = "broken"
        /\ UNCHANGED <<mishaps, execution, stage, step, data, cached>>
    BY <1>9 DEF Upgrade
  <2> QED BY <2>1 DEF RehearsedInv, HandedToUpgrade
<1> QED BY <1>1, <1>2, <1>3, <1>4, <1>5, <1>6, <1>7, <1>8, <1>9 DEF StagesStep

(* What the upgrade finds was made by this execution's download and        *)
(* rehearsed by its dry run (dnfplugin, rhel_upgrade.py), in any sequence  *)
(* of executions, failures and kills.                                      *)
THEOREM Rehearsed == StagesSpec => []UpgradeIsTheRehearsed
<1>1. StagesInit => RehearsedInv
  BY DEF StagesInit, UserspaceInit, RehearsedInv, Stages, Body
<1>2. StagesInv /\ StagesInv' /\ RehearsedInv /\ [StagesNext]_stagesVars => RehearsedInv'
  <2>1. SUFFICES ASSUME StagesInv, StagesInv', RehearsedInv, [StagesNext]_stagesVars
                 PROVE  RehearsedInv'
    OBVIOUS
  <2>2. CASE UNCHANGED stagesVars
    <3>1. UNCHANGED <<overlayVars, actorVars, stageVars>>
      BY <2>2 DEF stagesVars
    <3> QED BY <2>1, <3>1 DEF overlayVars, actorVars, stageVars, RehearsedInv, HandedToUpgrade,
            PluginData
  <2>3. CASE \E t \in CreatorTasks : Execute(t)
    <3>1. step = "idle" /\ step' = "idle" /\ stage' = "check" /\ outcome' = ""
      BY <2>3 DEF Execute
    <3> QED BY <3>1 DEF RehearsedInv, Stages, Body
  <2>4. CASE \E t \in StageTasks : StartStage(t)
    <3>1. /\ pc = "done" /\ pc' = "done" /\ step' = "enter" /\ mode' = "prepare"
          /\ stage \in Stages \ {"upgrade"} /\ mishaps' = mishaps
          /\ UNCHANGED <<execution, stage, data, cached, excluded, hostExcluded, outcome>>
      BY <2>4 DEF StartStage, MayGoOn, OpenOverlay, actorVars
    <3> QED BY <2>1, <3>1 DEF RehearsedInv, HandedToUpgrade, Body
  <2>5. CASE StagesStep
    BY <2>1, <2>5, StagesRehearsed
  <2> QED BY <2>1, <2>2, <2>3, <2>4, <2>5 DEF StagesNext
<1>3. RehearsedInv => UpgradeIsTheRehearsed
  BY RehearsedFollows
<1> QED BY <1>1, <1>2, <1>3, StagesInductive, PTL DEF StagesSpec
-----------------------------------------------------------------------------
(* The repository files and the repositories that are used.                *)

(* When others replace files and some are removed, no repository of those  *)
(* in A is lost,                                                           *)
LEMMA NoneIsLost ==
  ASSUME NEW D, NEW E, NEW F, NEW A,
         \A f \in DOMAIN D \cap (DOMAIN E \cup F) : D[f] \cap A \subseteq Ids(Drop(E, F)),
         NEW r \in Ids(D), r \in A
  PROVE  r \in Ids(Drop(Put(D, E), F))
<1> DEFINE U == Drop(Put(D, E), F)
<1>0. /\ DOMAIN U = (DOMAIN D \cup DOMAIN E) \ F
      /\ \A f \in DOMAIN E \ F : U[f] = E[f]
      /\ \A f \in DOMAIN D \ (DOMAIN E \cup F) : U[f] = D[f]
  BY DEF Put, Drop
<1> HIDE DEF U
<1>1. PICK f \in DOMAIN D : r \in D[f]
  BY DEF Ids
<1>2. \E g \in DOMAIN U : r \in U[g]
  <2>1. CASE f \notin DOMAIN E \cup F
    BY <1>0, <1>1, <2>1
  <2>2. CASE f \in DOMAIN E \cup F
    <3>1. r \in Ids(Drop(E, F))
      BY <1>1, <2>2
    <3>2. PICK g \in DOMAIN E \ F : r \in E[g]
      BY <3>1 DEF Ids, Drop
    <3> QED BY <1>0, <3>2
  <2> QED BY <2>1, <2>2
<1> QED BY <1>2 DEF Ids, U

(* and none is defined twice that was not before.                          *)
LEMMA NoneIsDoubled ==
  ASSUME NEW D, NEW E, NEW F, Duplicates(D) = {}, Duplicates(Drop(E, F)) = {},
         \A f \in DOMAIN Drop(E, F), g \in DOMAIN D \ (DOMAIN E \cup F) :
           Drop(E, F)[f] \cap D[g] = {}
  PROVE  Duplicates(Drop(Put(D, E), F)) = {}
<1> DEFINE U == Drop(Put(D, E), F)
<1>0. /\ DOMAIN U = (DOMAIN D \cup DOMAIN E) \ F
      /\ \A f \in DOMAIN E \ F : U[f] = E[f]
      /\ \A f \in DOMAIN D \ (DOMAIN E \cup F) : U[f] = D[f]
  BY DEF Put, Drop
<1>1. \A f, g \in DOMAIN D : f # g => D[f] \cap D[g] = {}
  BY DEF Duplicates, Ids
<1>2. DOMAIN Drop(E, F) = DOMAIN E \ F /\ \A f \in DOMAIN E \ F : Drop(E, F)[f] = E[f]
  BY DEF Drop
<1>3. \A f, g \in DOMAIN E \ F : f # g => E[f] \cap E[g] = {}
  <2>1. \A f, g \in DOMAIN Drop(E, F) : f # g => Drop(E, F)[f] \cap Drop(E, F)[g] = {}
    BY DEF Duplicates, Ids
  <2> QED BY <1>2, <2>1
<1>4. \A f \in DOMAIN E \ F, g \in DOMAIN D \ (DOMAIN E \cup F) : E[f] \cap D[g] = {}
  BY <1>2
<1>5. \A f \in DOMAIN U : \/ f \in DOMAIN E \ F /\ U[f] = E[f]
                          \/ f \in DOMAIN D \ (DOMAIN E \cup F) /\ U[f] = D[f]
  BY <1>0
<1> HIDE DEF U
<1>6. ASSUME NEW f \in DOMAIN U, NEW g \in DOMAIN U, f # g
      PROVE  U[f] \cap U[g] = {}
  BY <1>1, <1>3, <1>4, <1>5, <1>6
<1>7. Duplicates(U) = {}
  BY <1>6 DEF Duplicates
<1> QED BY <1>7 DEF U

Gathering == {"iso", "rhui", "gather", "select"}
Creating  == {"remove", "bind", "install", "unbind", "access", "finish", "produce"}

(* The creator has selected the repositories, or is done.                  *)
Selected == pc \in Creating \/ info

HasReason == failure = "error" \/ (failure = "stop" /\ reports # {})
Reported  == Duplicates(scratch) = {} \/ "duplicate repositories" \in reports

(* The files that have been put together so far,                           *)
FilesInv ==
  /\ pc \in {"iso", "rhui"} => scratch = setup.source
  /\ pc = "gather" => scratch = RhuiFiles(setup)
  /\ pc = "select" \/ Selected => scratch = ScratchFiles(setup)
  /\ pc \in Gathering \cup Creating /\ ~setup.rhui.bootstrap => ~installed
  /\ pc = "finish" => repofiles = HandedOver
  /\ pc = "produce" \/ info => repofiles = UserspaceFiles(setup)
  /\ pc = "produce" => userspace = "ready"
  /\ info => userspace \in {"ready", "none"}

(* the repositories that they define,                                      *)
SelectedInv ==
  /\ pc = "select" => distroIds \subseteq Ids(scratch)
  /\ Selected => /\ used # {} /\ setup.custom \subseteq used
                 /\ used \subseteq Ids(scratch) \cap (setup.wanted \cup setup.custom)
  /\ pc = "select" /\ setup.rhsm => Reported
  /\ Selected => Reported

(* and how the creator ends.                                               *)
EndInv ==
  /\ info => pc \in {"leave", "done"}
  /\ pc = "leave" /\ ~info => HasReason
  /\ pc = "done" /\ calls > 0 /\ ~info => HasReason
  /\ pc \in Gathering \cup Creating => failure = "" /\ (mode \in {"out of", "cleanup"} => broken)

ReposInv ==
  /\ setup \in Setups /\ pc \in Gathering \cup Creating \cup {"leave", "done", "dead"}
  /\ FilesInv /\ SelectedInv /\ EndInv

LEMMA ReposFollow ==
  ASSUME ReposInv, RepofilesFit(setup)
  PROVE  RepositoriesAreDefined
<1> DEFINE D == ScratchFiles(setup)
           A == setup.wanted \cup setup.custom
<1>a. info => /\ scratch = D /\ repofiles = Drop(Put(D, setup.packaged), StandIns(setup))
              /\ used \subseteq Ids(D) \cap A
  BY DEF ReposInv, FilesInv, SelectedInv, Selected, UserspaceFiles
<1>b. /\ \A f \in DOMAIN D \cap (DOMAIN setup.packaged \cup StandIns(setup)) :
           D[f] \cap A \subseteq Ids(Drop(setup.packaged, StandIns(setup)))
      /\ \A f \in DOMAIN Drop(setup.packaged, StandIns(setup)),
            g \in DOMAIN D \ (DOMAIN setup.packaged \cup StandIns(setup)) :
           Drop(setup.packaged, StandIns(setup))[f] \cap D[g] = {}
      /\ Duplicates(Drop(setup.packaged, StandIns(setup))) = {}
  BY DEF RepofilesFit
<1> HIDE DEF D, A
<1>1. UsedReposAreDefined
  <2>1. info => used \subseteq Ids(repofiles)
    <3>1. SUFFICES ASSUME info, NEW r \in used PROVE r \in Ids(repofiles)
      OBVIOUS
    <3> QED BY <1>a, <1>b, <3>1, NoneIsLost
  <2>2. info /\ userspace # "none" => userspace = "ready" /\ used # {}
    BY DEF ReposInv, FilesInv, SelectedInv, Selected
  <2> QED BY <2>1, <2>2 DEF UsedReposAreDefined
<1>2. DefinedOnce
  <2>1. info /\ "duplicate repositories" \notin reports => Duplicates(scratch) = {}
    BY DEF ReposInv, SelectedInv, Selected, Reported
  <2> QED BY <1>a, <1>b, <2>1, NoneIsDoubled DEF DefinedOnce
<1>3. NoCustomRepoDropped
  BY DEF ReposInv, SelectedInv, Selected, NoCustomRepoDropped
<1>4. EndsWithReason
  BY DEF ReposInv, EndInv, HasReason, EndsWithReason
<1> QED BY <1>1, <1>2, <1>3, <1>4 DEF RepositoriesAreDefined
(* Types.                                                                  *)

IsFiles(D) == DOMAIN D \subseteq RepoFiles /\ Ids(D) \subseteq RepoIds

LEMMA FilesStay ==
  /\ \A D, E : IsFiles(D) /\ IsFiles(E) => IsFiles(Put(D, E))
  /\ \A D, F : IsFiles(D) => IsFiles(Drop(D, F))
  /\ \A D, F : Ids(KeepOnly(D, F)) \subseteq Ids(D)
<1>1. ASSUME NEW D, NEW E, IsFiles(D), IsFiles(E) PROVE IsFiles(Put(D, E))
  BY <1>1 DEF IsFiles, Put, Ids
<1>2. ASSUME NEW D, NEW F, IsFiles(D) PROVE IsFiles(Drop(D, F))
  BY <1>2 DEF IsFiles, Drop, Ids
<1>3. ASSUME NEW D, NEW F PROVE Ids(KeepOnly(D, F)) \subseteq Ids(D)
  BY DEF KeepOnly, Ids
<1> QED BY <1>1, <1>2, <1>3

LEMMA SetupFiles ==
  ASSUME NEW s \in Setups
  PROVE  /\ IsFiles(s.source) /\ IsFiles(s.rhui.copied) /\ IsFiles(s.rhui.client)
         /\ IsFiles(s.customFiles) /\ IsFiles(s.packaged)
         /\ s.rhui.bootstrap \in BOOLEAN /\ s.rhui.present \in BOOLEAN
         /\ s.subscribed \subseteq RepoIds /\ s.wanted \subseteq RepoIds
         /\ s.custom \subseteq RepoIds
         /\ s.distro \in {"rhel", "centos"} /\ (s.rhsm => s.distro = "rhel")
<1>1. IsSetup(s)
  BY UserspaceAssumption
<1>2. IsDir(s.source) /\ IsDir(s.rhui.copied) /\ IsDir(s.rhui.client) /\ IsDir(s.customFiles)
      /\ IsDir(s.packaged)
  BY <1>1 DEF IsSetup
<1>3. ASSUME NEW D, IsDir(D) PROVE IsFiles(D)
  BY <1>3 DEF IsDir, IsFiles, Ids
<1> QED BY <1>1, <1>2, <1>3 DEF IsSetup

LEMMA GatheredTypes ==
  ASSUME NEW D, IsFiles(D), setup \in Setups
  PROVE  /\ IsFiles(Subscribed(D)) /\ IsFiles(Put(D, setup.customFiles))
         /\ RhuiIds(D) \subseteq Ids(D)
         /\ (setup.rhsm => RedhatRepo \in DOMAIN D) => DistroIds(D) \subseteq Ids(D)
<1>1. IsFiles([f \in {RedhatRepo} |-> setup.subscribed])
  <2>1. setup.subscribed \subseteq RepoIds /\ RedhatRepo \in RepoFiles
    BY SetupFiles, UserspaceAssumption
  <2> QED BY <2>1 DEF IsFiles, Ids
<1>2. IsFiles(Subscribed(D)) /\ IsFiles(Put(D, setup.customFiles))
  BY <1>1, FilesStay, SetupFiles DEF Subscribed
<1>3. RhuiIds(D) \subseteq Ids(D)
  BY FilesStay DEF RhuiIds
<1>4. ASSUME setup.rhsm => RedhatRepo \in DOMAIN D PROVE DistroIds(D) \subseteq Ids(D)
  <2>1. setup.rhsm => D[RedhatRepo] \subseteq Ids(D)
    BY <1>4 DEF Ids
  <2>2. Ids(KeepOnly(D, DistroFiles)) \subseteq Ids(D)
    BY FilesStay
  <2> QED BY <2>1, <2>2 DEF DistroIds
<1> QED BY <1>2, <1>3, <1>4

(* What GatherDistroRepos finds.                                           *)
LEMMA Gathered ==
  ASSUME GatherDistroRepos, setup \in Setups, IsFiles(scratch)
  PROVE  /\ scratch' = Put(IF setup.rhsm THEN Subscribed(scratch) ELSE scratch,
                           setup.customFiles)
         /\ IsFiles(scratch')
         /\ distroIds' = distroIds \/ distroIds' \subseteq Ids(scratch')
         /\ pc' = "select" => distroIds' \subseteq Ids(scratch')
         /\ \/ /\ pc' = "select" /\ UNCHANGED <<overlayVars, failure>>
               /\ reports' = reports \cup DuplicateReport(setup.rhsm, scratch')
            \/ \E why : GiveUp("error", why)
            \/ \E why : why # {} /\ GiveUp("stop", why)
<1> DEFINE D == Put(IF setup.rhsm THEN Subscribed(scratch) ELSE scratch, setup.customFiles)
           found == DistroIds(D)
           dup == DuplicateReport(setup.rhsm, D)
<1>1. setup.rhsm => setup.distro = "rhel"
  BY SetupFiles
<1>2. (setup.distro = "rhel" /\ setup.rhsm) = setup.rhsm /\ (setup.rhsm /\ setup.distro = "rhel") = setup.rhsm
  <2>1. setup.rhsm \in BOOLEAN
    BY UserspaceAssumption DEF IsSetup
  <2> QED BY <1>1, <2>1
<1>3. /\ scratch' = D
      /\ \/ /\ ChecksBaseRepos /\ ~HasBaseRepos(found)
            /\ GiveUp("stop", dup \cup {"no base repositories"})
            /\ UNCHANGED distroIds
         \/ /\ ~ChecksBaseRepos \/ HasBaseRepos(found)
            /\ distroIds' = found \cup (IF rhui.present THEN RhuiIds(D) ELSE {})
            /\ reports' = reports \cup dup
            /\ pc' = "select" /\ UNCHANGED <<overlayVars, failure>>
         \/ GiveUp("error", dup) /\ UNCHANGED distroIds
  BY <1>2, Zenon DEF GatherDistroRepos
<1>4. IsFiles(D)
  BY GatheredTypes
<1>5. setup.rhsm => RedhatRepo \in DOMAIN D
  BY DEF Put, Subscribed
<1>6. found \subseteq Ids(D) /\ RhuiIds(D) \subseteq Ids(D)
  BY <1>4, <1>5, GatheredTypes
<1>7. pc' = "leave" \/ distroIds' \subseteq Ids(scratch')
  BY <1>3, <1>6 DEF GiveUp
<1> HIDE DEF D, found, dup
<1>8. distroIds' = distroIds \/ distroIds' \subseteq Ids(scratch')
  BY <1>3, <1>6
<1>9. \/ /\ pc' = "select" /\ UNCHANGED <<overlayVars, failure>>
         /\ reports' = reports \cup DuplicateReport(setup.rhsm, scratch')
      \/ \E why : GiveUp("error", why)
      \/ \E why : why # {} /\ GiveUp("stop", why)
  <2>1. dup \cup {"no base repositories"} # {}
    OBVIOUS
  <2>2. dup = DuplicateReport(setup.rhsm, scratch')
    BY <1>3 DEF dup
  <2> QED BY <1>3, <2>1, <2>2
<1> QED BY <1>3, <1>4, <1>7, <1>8, <1>9 DEF D

ActorTypes ==
  /\ UserspaceTypeOK /\ IsFiles(scratch) /\ IsFiles(repofiles)

LEMMA CreatorTypes ==
  ASSUME ActorTypes, CreatorStep
  PROVE  ActorTypes'
<1> USE DEF ActorTypes
<1>0. /\ setup \in Setups /\ setup' = setup /\ distroIds \subseteq RepoIds /\ used \subseteq RepoIds
  BY DEF UserspaceTypeOK, CreatorStep, MountIso, SetupRhuiAccess, GatherDistroRepos,
     SelectRepos, RemoveUserspace, BindUserspace, InstallUserspace, UnbindUserspace,
     PrepRepositoryAccess, FinishUserspace, ProduceUserspace, CreatorOverlay, CreatorKilled
<1>t. ASSUME IsFiles(scratch'), IsFiles(repofiles'), distroIds' \subseteq RepoIds,
             used' \subseteq RepoIds,
             pc' \in {"iso", "rhui", "gather", "select", "remove", "bind", "install", "unbind",
                      "access", "finish", "produce", "leave", "done", "dead"},
             userspace' \in {"none", "empty", "installed", "ready"},
             installed' \in BOOLEAN, info' \in BOOLEAN, failure' \in {"", "stop", "error"}
      PROVE  ActorTypes'
  BY <1>0, <1>t DEF UserspaceTypeOK, IsFiles
<1>1. CASE MountIso
  BY <1>1, <1>0, <1>t DEF MountIso, UserspaceTypeOK
<1>2. CASE SetupRhuiAccess
  <2>1. IsFiles(Preinstalled)
    BY <1>0, FilesStay, SetupFiles DEF Preinstalled, rhui
  <2>2. IsFiles(Drop(Put(Drop(Preinstalled, setup.owned), rhui.client), NoLongerNeeded))
    BY <1>0, <2>1, FilesStay, SetupFiles DEF rhui
  <2>3. scratch' \in {scratch, Preinstalled,
                      Drop(Put(Drop(Preinstalled, setup.owned), rhui.client), NoLongerNeeded)}
    BY <1>2 DEF SetupRhuiAccess
  <2>4. IsFiles(scratch')
    BY <2>1, <2>2, <2>3
  <2>5. /\ pc' \in {"gather", "leave"} /\ installed' \in BOOLEAN
        /\ userspace' \in {userspace, "empty"} /\ failure' \in {failure, "error"}
        /\ UNCHANGED <<repofiles, distroIds, used, info>>
    BY <1>2 DEF SetupRhuiAccess, GiveUp, UserspaceTypeOK
  <2> QED BY <1>0, <1>t, <2>4, <2>5 DEF UserspaceTypeOK
<1>3. CASE GatherDistroRepos
  <2>1. /\ IsFiles(scratch') /\ (distroIds' = distroIds \/ distroIds' \subseteq Ids(scratch'))
        /\ pc' \in {"select", "leave"} /\ failure' \in {failure, "error", "stop"}
    BY <1>0, <1>3, Gathered DEF GiveUp
  <2>2. distroIds' \subseteq RepoIds
    BY <1>0, <2>1 DEF IsFiles
  <2>3. UNCHANGED <<installed, used, userspace, repofiles, info>>
    BY <1>3 DEF GatherDistroRepos
  <2> QED BY <1>0, <1>t, <2>1, <2>2, <2>3 DEF UserspaceTypeOK
<1>4. CASE SelectRepos
  <2>1. setup.custom \subseteq RepoIds
    BY <1>0, SetupFiles
  <2>2. /\ used' = used \/ used' = (setup.wanted \cap distroIds) \cup (setup.custom \cap Ids(scratch))
        /\ pc' \in {"remove", "leave"} /\ failure' \in {failure, "stop"}
    BY <1>4 DEF SelectRepos, GiveUp
  <2> QED BY <1>0, <1>4, <1>t, <2>1, <2>2 DEF SelectRepos, UserspaceTypeOK
<1>5. CASE RemoveUserspace
  <2>1. IsFiles(<< >>)
    BY DEF IsFiles, Ids
  <2> QED BY <1>0, <1>5, <1>t, <2>1 DEF RemoveUserspace, GiveUp, UserspaceTypeOK
<1>6. CASE BindUserspace
  BY <1>0, <1>6, <1>t DEF BindUserspace, UserspaceTypeOK
<1>7. CASE InstallUserspace
  BY <1>0, <1>7, <1>t, SetupFiles DEF InstallUserspace, GiveUp, UserspaceTypeOK
<1>8. CASE UnbindUserspace
  <2>1. IsFiles(<< >>)
    BY DEF IsFiles, Ids
  <2> QED BY <1>0, <1>8, <1>t, <2>1 DEF UnbindUserspace, UserspaceTypeOK
<1>9. CASE PrepRepositoryAccess
  <2>1. IsFiles(HandedOver)
    BY <1>0, FilesStay, SetupFiles DEF HandedOver
  <2> QED BY <1>0, <1>9, <1>t, <2>1 DEF PrepRepositoryAccess, GiveUp, UserspaceTypeOK
<1>10. CASE FinishUserspace
  <2>1. IsFiles(Drop(repofiles, Injected))
    BY FilesStay
  <2> QED BY <1>0, <1>10, <1>t, <2>1 DEF FinishUserspace, GiveUp, UserspaceTypeOK
<1>11. CASE ProduceUserspace
  BY <1>0, <1>11, <1>t DEF ProduceUserspace, GiveUp, UserspaceTypeOK
<1>12. CASE CreatorOverlay
  BY <1>0, <1>12, <1>t DEF CreatorOverlay, FailureThen, UserspaceTypeOK
<1>13. CASE CreatorKilled
  BY <1>0, <1>13, <1>t DEF CreatorKilled, UserspaceTypeOK
<1> QED BY <1>1, <1>2, <1>3, <1>4, <1>5, <1>6, <1>7, <1>8, <1>9, <1>10, <1>11, <1>12, <1>13
        DEF CreatorStep

DataTypes ==
  /\ StagesTypeOK
  /\ data \in [writer : {"none", "check", "download"}, of : 0 .. MaxExecutions,
               test : BOOLEAN, aws : BOOLEAN, region : BOOLEAN]

(* No step that is not the creator's changes what it has found.            *)
LEMMA DataStay ==
  ASSUME DataTypes, ActorTypes, StagesStep
  PROVE  DataTypes'
<1>0. MaxExecutions \in Nat /\ OnAws \in BOOLEAN
  BY StagesAssumption
<1> DEFINE R == [writer : {"none", "check", "download"}, of : 0 .. MaxExecutions,
                 test : BOOLEAN, aws : BOOLEAN, region : BOOLEAN]
<1>1. NoData \in R
  BY <1>0 DEF NoData
<1>2. WritesData => PluginData \in R
  BY <1>0 DEF DataTypes, StagesTypeOK, WritesData, PluginData
<1>3. RegionSaved \in R
  BY DEF DataTypes, RegionSaved
<1>4. data' \in R /\ execution' = execution
  <2>1. data' \in {data, NoData, RegionSaved} \/ (WritesData /\ data' = PluginData)
    BY DEF StagesStep, Forget, Create, StageOverlay, StageIso, Workarounds, CreateConfig, RunDnf,
           StageKilled, Upgrade, stageVars
  <2>2. execution' = execution
    BY DEF StagesStep, Forget, Create, StageOverlay, StageIso, Workarounds, CreateConfig, RunDnf,
           StageKilled, Upgrade, stageVars
  <2> QED BY <1>1, <1>2, <1>3, <2>1, <2>2 DEF DataTypes
<1>5. stage' \in Stages
  BY DEF StagesStep, Forget, Create, StageOverlay, StageIso, Workarounds, CreateConfig, RunDnf,
         StageKilled, Upgrade, stageVars, DataTypes, StagesTypeOK, NextStage, Stages
<1>6. step' \in {"idle", "enter", "workarounds", "config", "dnf", "leave"}
  BY DEF StagesStep, Forget, Create, StageOverlay, StageIso, Workarounds, CreateConfig, RunDnf,
         Fail, StageKilled, Upgrade, stageVars, DataTypes, StagesTypeOK
<1>7. cached' \in 0 .. MaxExecutions
  <2>1. cached' \in {cached, execution, 0}
    BY DEF StagesStep, Forget, Create, StageOverlay, StageIso, Workarounds, CreateConfig, RunDnf,
           CachedThen, StageKilled, Upgrade, stageVars
  <2>2. cached \in 0 .. MaxExecutions /\ execution \in 0 .. MaxExecutions
    BY DEF DataTypes, StagesTypeOK
  <2> QED BY <1>0, <2>1, <2>2
<1>8. excluded' \in BOOLEAN /\ hostExcluded' \in BOOLEAN
  BY DEF StagesStep, Forget, Create, StageOverlay, StageIso, Workarounds, ExcludedThen,
         CreateConfig, RunDnf, StageKilled, Upgrade, stageVars, DataTypes, StagesTypeOK
<1>9. outcome' \in {"", "passed", "failed", "broken", "upgraded"}
  BY DEF StagesStep, Forget, Create, StageOverlay, StageIso, Workarounds, Fail,
         CreateConfig, RunDnf, StageKilled, Upgrade, stageVars, DataTypes, StagesTypeOK
<1> HIDE DEF R
<1>10. data'.writer \in {"none", "check", "download"} /\ data'.of \in 0 .. MaxExecutions
       /\ data'.test \in BOOLEAN /\ data'.aws \in BOOLEAN /\ data'.region \in BOOLEAN
  BY <1>4 DEF R
<1> QED BY <1>4, <1>5, <1>6, <1>7, <1>8, <1>9, <1>10 DEF DataTypes, StagesTypeOK, R
-----------------------------------------------------------------------------
(* The creator keeps what is known of the files.                           *)

LEMMA GivenUp ==
  ASSUME ReposInv, pc \in Gathering \cup Creating, setup' = setup, info' = info,
         pc' = "leave", failure' = "error" \/ (failure' = "stop" /\ reports' # {})
  PROVE  ReposInv'
<1>1. ~info'
  BY DEF ReposInv, EndInv, Gathering, Creating
<1>2. FilesInv' /\ SelectedInv'
  BY <1>1 DEF FilesInv, SelectedInv, Selected, Gathering, Creating
<1>3. EndInv'
  BY <1>1 DEF EndInv, HasReason, Gathering, Creating
<1> QED BY <1>2, <1>3 DEF ReposInv

(* A step in which the creator goes on, having failed nothing.             *)
LEMMA GoneOn ==
  ASSUME ReposInv, pc \in Gathering \cup Creating, setup' = setup, info' = info,
         pc' \in Gathering \cup Creating, failure' = failure,
         mode' \in {"out of", "cleanup"} => mode' = mode /\ broken' = broken,
         FilesInv', SelectedInv'
  PROVE  ReposInv'
<1>1. ~info'
  BY DEF ReposInv, EndInv, Gathering, Creating
<1>2. EndInv'
  BY <1>1 DEF ReposInv, EndInv, Gathering, Creating
<1> QED BY <1>2 DEF ReposInv

LEMMA FirstSteps ==
  ASSUME ReposInv, ActorTypes, MountIso \/ SetupRhuiAccess
  PROVE  ReposInv'
<1> USE DEF Gathering, Creating
<1>0. ~info
  BY DEF ReposInv, EndInv, MountIso, SetupRhuiAccess, Ready
<1>1. CASE MountIso
  <2>1. pc = "iso" /\ setup' = setup /\ info' = info /\ mode = "in"
        /\ UNCHANGED <<scratch, installed, distroIds, used, userspace, repofiles, reports>>
    BY <1>1 DEF MountIso, Ready, Inside
  <2>2. CASE pc' = "rhui" /\ failure' = failure /\ (UNCHANGED overlayVars \/ EnterMount(Iso))
    <3>1. mode' = "in"
      BY <2>1, <2>2 DEF EnterMount, overlayVars
    <3>2. FilesInv' /\ SelectedInv'
      BY <1>0, <2>1, <2>2 DEF ReposInv, FilesInv, SelectedInv, Selected
    <3> QED BY <2>1, <2>2, <3>1, <3>2, GoneOn
  <2>3. CASE pc' = "leave" /\ failure' = "error"
    BY <2>1, <2>3, GivenUp
  <2> QED BY <1>1, <2>2, <2>3 DEF MountIso
<1>2. CASE SetupRhuiAccess
  <2>1. /\ pc = "rhui" /\ mode = "in" /\ UNCHANGED <<setup, distroIds, used, repofiles, info>>
        /\ scratch = setup.source
    BY <1>2 DEF SetupRhuiAccess, Ready, Inside, ReposInv, FilesInv
  <2>2. CASE pc' = "leave" /\ failure' = "error"
    BY <2>1, <2>2, GivenUp
  <2>3. CASE /\ pc' = "gather" /\ UNCHANGED <<overlayVars, failure>>
             /\ scratch' = RhuiFiles(setup) /\ (~setup.rhui.bootstrap => installed' = installed)
    <3>1. FilesInv' /\ SelectedInv'
      BY <1>0, <2>1, <2>3 DEF ReposInv, FilesInv, SelectedInv, Selected
    <3> QED BY <2>1, <2>3, <3>1, GoneOn DEF overlayVars
  <2>4. \/ pc' = "leave" /\ failure' = "error"
        \/ /\ pc' = "gather" /\ UNCHANGED <<overlayVars, failure>>
           /\ scratch' = RhuiFiles(setup) /\ (~setup.rhui.bootstrap => installed' = installed)
    <3>1. CASE ~setup.rhui.present
      BY <1>2, <2>1, <3>1 DEF SetupRhuiAccess, rhui, RhuiFiles
    <3>2. CASE setup.rhui.present /\ ~setup.rhui.bootstrap
      BY <1>2, <3>2 DEF SetupRhuiAccess, rhui, RhuiFiles, Preinstalled
    <3>3. CASE setup.rhui.present /\ setup.rhui.bootstrap
      BY <1>2, <3>3 DEF SetupRhuiAccess, rhui, RhuiFiles, Preinstalled, NoLongerNeeded, GiveUp
    <3> QED BY <3>1, <3>2, <3>3
  <2> QED BY <2>2, <2>3, <2>4
<1> QED BY <1>1, <1>2

LEMMA GatherStep ==
  ASSUME ReposInv, ActorTypes, GatherDistroRepos
  PROVE  ReposInv'
<1> USE DEF Gathering, Creating
<1>1. pc = "gather" /\ mode = "in" /\ setup \in Setups /\ scratch = RhuiFiles(setup)
  BY DEF GatherDistroRepos, Ready, Inside, ReposInv, FilesInv
<1>2. ~info /\ UNCHANGED <<setup, installed, used, userspace, repofiles, info>>
  BY <1>1 DEF GatherDistroRepos, ReposInv, EndInv
<1>3. scratch' = ScratchFiles(setup)
  BY <1>1, Gathered DEF ActorTypes, ScratchFiles, Subscribed
<1>4. CASE \E why : GiveUp("error", why) \/ (why # {} /\ GiveUp("stop", why))
  BY <1>1, <1>2, <1>4, GivenUp DEF GiveUp
<1>5. CASE /\ pc' = "select" /\ UNCHANGED <<overlayVars, failure>>
           /\ reports' = reports \cup DuplicateReport(setup.rhsm, scratch')
  <2>1. distroIds' \subseteq Ids(scratch')
    BY <1>1, <1>5, Gathered DEF ActorTypes
  <2>2. setup.rhsm => Reported'
    BY <1>5 DEF Reported, DuplicateReport
  <2>3. FilesInv' /\ SelectedInv'
    BY <1>1, <1>2, <1>3, <1>5, <2>1, <2>2 DEF ReposInv, FilesInv, SelectedInv, Selected, ActorTypes
  <2> QED BY <1>1, <1>2, <1>5, <2>3, GoneOn DEF overlayVars
<1> QED BY <1>1, <1>4, <1>5, Gathered DEF ActorTypes

LEMMA SelectStep ==
  ASSUME ReposInv, ActorTypes, SelectRepos
  PROVE  ReposInv'
<1> USE DEF Gathering, Creating
<1> DEFINE chosen == (setup.wanted \cap distroIds) \cup (setup.custom \cap Ids(scratch))
           dup == DuplicateReport(~setup.rhsm, scratch)
<1>1. pc = "select" /\ mode = "in" /\ scratch = ScratchFiles(setup) /\ distroIds \subseteq Ids(scratch)
  BY DEF SelectRepos, Ready, Inside, ReposInv, FilesInv, SelectedInv
<1>2. ~info /\ UNCHANGED <<setup, scratch, installed, distroIds, userspace, repofiles, info>>
  BY <1>1 DEF SelectRepos, ReposInv, EndInv
<1>3. CASE \E why : why # {} /\ GiveUp("stop", why)
  BY <1>1, <1>2, <1>3, GivenUp DEF GiveUp
<1>4. CASE /\ chosen # {} /\ ~MissingCustom
           /\ used' = chosen /\ reports' = reports \cup dup
           /\ pc' = "remove" /\ UNCHANGED <<overlayVars, failure>>
  <2>1. /\ used' # {} /\ setup.custom \subseteq used'
        /\ used' \subseteq Ids(scratch) \cap (setup.wanted \cup setup.custom)
    BY <1>1, <1>4 DEF MissingCustom
  <2>2. setup.rhsm => Duplicates(scratch) = {} \/ "duplicate repositories" \in reports
    BY <1>1 DEF ReposInv, SelectedInv, Reported
  <2>3. Reported'
    BY <1>2, <1>4, <2>2 DEF Reported, DuplicateReport
  <2>4. FilesInv'
    BY <1>1, <1>2, <1>4 DEF ReposInv, FilesInv, Selected
  <2>5. SelectedInv'
    BY <1>2, <1>4, <2>1, <2>3 DEF SelectedInv, Selected
  <2> QED BY <1>1, <1>2, <1>4, <2>4, <2>5, GoneOn DEF overlayVars
<1>5. /\ dup \cup {"no target repositories"} # {}
      /\ dup \cup {"missing custom repositories"} # {}
  OBVIOUS
<1> QED BY <1>3, <1>4, <1>5 DEF SelectRepos

(* A step of the creation that changes nothing that was selected.          *)
LEMMA StillSelected ==
  ASSUME ReposInv, pc \in Creating, pc' \in Creating, info' = info,
         UNCHANGED <<setup, scratch, installed, distroIds, used, reports>>
  PROVE  /\ SelectedInv'
         /\ (pc' = "finish" => repofiles' = HandedOver) /\
            (pc' = "produce" => repofiles' = UserspaceFiles(setup) /\ userspace' = "ready")
              => FilesInv'
<1> USE DEF Gathering, Creating
<1>0. ~info
  BY DEF ReposInv, EndInv
<1>1. SelectedInv'
  BY <1>0 DEF ReposInv, SelectedInv, Selected, Reported
<1>2. HandedOver' = HandedOver
  BY DEF HandedOver
<1>3. (pc' = "finish" => repofiles' = HandedOver) /\
      (pc' = "produce" => repofiles' = UserspaceFiles(setup) /\ userspace' = "ready")
        => FilesInv'
  BY <1>0, <1>2 DEF ReposInv, FilesInv, Selected
<1> QED BY <1>1, <1>3

LEMMA CreationSteps ==
  ASSUME ReposInv, ActorTypes,
         \/ RemoveUserspace \/ BindUserspace \/ InstallUserspace \/ UnbindUserspace
         \/ PrepRepositoryAccess \/ FinishUserspace
  PROVE  ReposInv'
<1> USE DEF Creating
<1>0. pc \in Creating /\ mode = "in" /\ setup \in Setups
      /\ UNCHANGED <<setup, scratch, installed, distroIds, used, info>>
  BY DEF RemoveUserspace, BindUserspace, InstallUserspace, UnbindUserspace,
         PrepRepositoryAccess, FinishUserspace, Ready, Inside, ReposInv
<1>1. CASE pc' = "leave" /\ failure' = "error"
  BY <1>0, <1>1, GivenUp
<1>2. ASSUME pc' \in {"bind", "install", "unbind", "access"}, failure' = failure, reports' = reports,
             mode' \in {"out of", "cleanup"} => mode' = mode /\ broken' = broken
      PROVE  ReposInv'
  BY <1>0, <1>2, StillSelected, GoneOn
<1>3. CASE RemoveUserspace
  BY <1>1, <1>2, <1>3 DEF RemoveUserspace, GiveUp, overlayVars
<1>4. CASE BindUserspace
  BY <1>0, <1>1, <1>2, <1>4 DEF BindUserspace, EnterMount
<1>5. CASE InstallUserspace
  BY <1>1, <1>2, <1>5 DEF InstallUserspace, GiveUp, overlayVars
<1>6. CASE UnbindUserspace
  BY <1>0, <1>2, <1>6 DEF UnbindUserspace
<1>7. CASE PrepRepositoryAccess
  <2>1. CASE repofiles' = HandedOver /\ pc' = "finish" /\ UNCHANGED <<overlayVars, failure, reports>>
    BY <1>0, <2>1, StillSelected, GoneOn DEF overlayVars
  <2> QED BY <1>1, <1>7, <2>1 DEF PrepRepositoryAccess, GiveUp
<1>8. CASE FinishUserspace
  <2>1. pc = "finish" /\ repofiles = HandedOver /\ scratch = ScratchFiles(setup)
    BY <1>8 DEF FinishUserspace, Ready, ReposInv, FilesInv, Selected
  <2>2. CASE /\ repofiles' = (IF rhui.present /\ ~rhui.bootstrap THEN Drop(repofiles, Injected)
                              ELSE repofiles)
             /\ userspace' = "ready" /\ pc' = "produce" /\ UNCHANGED <<overlayVars, failure, reports>>
    <3>1. repofiles' = UserspaceFiles(setup)
      <4>1. CASE rhui.present /\ ~rhui.bootstrap
        <5>1. ~installed
          BY <4>1, <2>1 DEF ReposInv, FilesInv, rhui
        <5>2. Injected = StandIns(setup)
          BY <4>1, <5>1 DEF Injected, OwnedInScratch, StandIns, rhui
        <5> QED BY <2>1, <2>2, <4>1, <5>2 DEF HandedOver, UserspaceFiles
      <4>2. CASE ~(rhui.present /\ ~rhui.bootstrap)
        <5>1. StandIns(setup) = {}
          BY <4>2 DEF StandIns, rhui
        <5>2. Drop(HandedOver, {}) = HandedOver
          BY DEF Drop, HandedOver, Put
        <5> QED BY <2>1, <2>2, <4>2, <5>1, <5>2 DEF HandedOver, UserspaceFiles
      <4> QED BY <4>1, <4>2
    <3> QED BY <1>0, <2>2, <3>1, StillSelected, GoneOn DEF overlayVars
  <2> QED BY <1>1, <1>8, <2>2 DEF FinishUserspace, GiveUp
<1> QED BY <1>3, <1>4, <1>5, <1>6, <1>7, <1>8

LEMMA LastSteps ==
  ASSUME StagesInv, ReposInv, ProduceUserspace \/ CreatorOverlay \/ CreatorKilled
  PROVE  ReposInv'
<1> USE DEF Gathering, Creating
<1>1. CASE ProduceUserspace
  <2>1. pc = "produce" /\ mode = "in" /\ pc' = "leave" /\ ~info
        /\ UNCHANGED <<setup, scratch, installed, distroIds, used, userspace, repofiles>>
    BY <1>1 DEF ProduceUserspace, Ready, Inside, GiveUp, ReposInv, EndInv
  <2>2. CASE GiveUp("error", {}) /\ info' = info
    BY <2>1, <2>2, GivenUp DEF GiveUp
  <2>3. CASE info' = TRUE /\ UNCHANGED <<failure, reports>>
    <3>1. FilesInv' /\ SelectedInv'
      BY <2>1, <2>3 DEF ReposInv, FilesInv, SelectedInv, Selected, Reported
    <3>2. EndInv'
      BY <2>1, <2>3 DEF EndInv
    <3> QED BY <2>1, <2>3, <3>1, <3>2 DEF ReposInv
  <2> QED BY <1>1, <2>2, <2>3 DEF ProduceUserspace
<1>2. CASE CreatorOverlay
  <2>1. /\ pc \in Gathering \cup Creating \cup {"leave"} /\ OverlayStep
        /\ UNCHANGED <<setup, scratch, installed, distroIds, used, userspace, repofiles, info,
                       reports>>
    BY <1>2 DEF CreatorOverlay, ReposInv
  <2>2. CASE mode' = "out"
    <3>1. pc' = "done" /\ mode = "cleanup" /\ broken' = broken /\ failure' = FailureThen
      BY <1>2, <2>1, <2>2, HowTheOverlayMoves DEF CreatorOverlay
    <3>2. FilesInv' /\ SelectedInv'
      BY <2>1, <3>1 DEF ReposInv, FilesInv, SelectedInv, Selected, Reported
    <3>3. ~info => HasReason'
      BY <2>1, <3>1 DEF ReposInv, EndInv, HasReason, FailureThen
    <3>4. EndInv'
      BY <2>1, <3>1, <3>3 DEF EndInv
    <3> QED BY <2>1, <3>1, <3>2, <3>4 DEF ReposInv
  <2>3. CASE mode' # "out"
    <3>1. pc' = pc /\ failure' = failure
      BY <1>2, <2>3 DEF CreatorOverlay
    <3>2. mode' \in {"out of", "cleanup"} =>
            broken' \/ (mode \in {"out of", "cleanup"} /\ broken' = broken)
      BY <2>1, HowTheOverlayMoves
    <3>3. FilesInv' /\ SelectedInv'
      <4>1. HandedOver' = HandedOver
        BY <2>1 DEF HandedOver
      <4> QED BY <2>1, <3>1, <4>1 DEF ReposInv, FilesInv, SelectedInv, Selected, Reported
    <3>4. EndInv'
      BY <2>1, <3>1, <3>2 DEF ReposInv, EndInv, HasReason
    <3> QED BY <2>1, <3>1, <3>3, <3>4 DEF ReposInv
  <2> QED BY <2>2, <2>3
<1>3. CASE CreatorKilled
  <2>1. pc' = "dead" /\ info' = FALSE /\ setup' = setup
    BY <1>3 DEF CreatorKilled
  <2> QED BY <2>1 DEF ReposInv, FilesInv, SelectedInv, Selected, EndInv
<1> QED BY <1>1, <1>2, <1>3

LEMMA CreatorRepos ==
  ASSUME StagesInv, ReposInv, ActorTypes, CreatorStep
  PROVE  ReposInv'
BY FirstSteps, GatherStep, SelectStep, CreationSteps, LastSteps DEF CreatorStep

(* The steps that are not the creator's.                                   *)
LEMMA OthersKeepRepos ==
  ASSUME StagesInv, ReposInv, ActorTypes,
         \/ Forget \/ StageOverlay \/ StageIso \/ Workarounds \/ CreateConfig \/ RunDnf
         \/ StageKilled \/ Upgrade \/ \E t \in StageTasks : StartStage(t)
  PROVE  ReposInv' /\ ActorTypes'
<1> USE DEF Gathering, Creating
<1>1. CASE Forget
  <2>1. /\ pc = "done" /\ pc' = "done" /\ info' = FALSE /\ failure' = "error" /\ used' = {}
        /\ UNCHANGED <<setup, scratch, installed, distroIds, userspace, repofiles>>
    BY <1>1 DEF Forget
  <2>2. ReposInv'
    BY <2>1 DEF ReposInv, FilesInv, SelectedInv, Selected, EndInv, HasReason
  <2>3. ActorTypes'
    BY <2>1 DEF ActorTypes, UserspaceTypeOK, IsFiles
  <2> QED BY <2>2, <2>3
<1>2. ASSUME UNCHANGED actorVars, pc = "done", calls > 0 \/ info \/ calls' = calls
      PROVE  ReposInv' /\ ActorTypes'
  <2>1. UNCHANGED <<setup, pc, scratch, installed, distroIds, used, userspace, repofiles,
                    info, reports, failure>>
    BY <1>2 DEF actorVars
  <2>2. ActorTypes'
    BY <2>1 DEF ActorTypes, UserspaceTypeOK, IsFiles
  <2>3. FilesInv' /\ SelectedInv'
    BY <1>2, <2>1 DEF ReposInv, FilesInv, SelectedInv, Selected, Reported
  <2>4. EndInv'
    BY <1>2, <2>1 DEF ReposInv, EndInv, HasReason
  <2> QED BY <2>1, <2>2, <2>3, <2>4 DEF ReposInv
<1>3. CASE StageOverlay
  <2>1. UNCHANGED actorVars /\ pc = "done" /\ OverlayStep
    BY <1>3 DEF StageOverlay, StagesInv, LinkInv
  <2>2. calls' = calls
    BY <2>1 DEF OverlayStep, PrepareImages, BuildOverlay, EnterMount, BuildFails, MountFails,
       Unwind, CleanupScratch
  <2> QED BY <1>2, <2>1, <2>2
<1>4. CASE StageIso \/ Workarounds \/ CreateConfig \/ RunDnf \/ StageKilled
  <2>1. UNCHANGED actorVars /\ step # "idle"
    BY <1>4 DEF StageIso, Workarounds, CreateConfig, RunDnf, StageKilled
  <2>2. calls' = calls
    BY <1>4 DEF StageIso, EnterMount, MountFails, Workarounds, CreateConfig, RunDnf, Fail,
       LeaveOverlay, StageKilled, Killed, overlayVars
  <2> QED BY <1>2, <2>1, <2>2 DEF StagesInv, LinkInv
<1>5. CASE \E t \in StageTasks : StartStage(t)
  BY <1>2, <1>5 DEF StartStage, MayGoOn
<1>6. CASE Upgrade
  <2>1. /\ pc = "done" /\ info /\ userspace' \in {"none", userspace}
        /\ UNCHANGED <<calls, setup, pc, scratch, installed, distroIds, used, repofiles, info,
                       reports, failure>>
    BY <1>6 DEF Upgrade, MayGoOn
  <2>2. ActorTypes'
    BY <2>1 DEF ActorTypes, UserspaceTypeOK, IsFiles
  <2>3. FilesInv' /\ SelectedInv' /\ EndInv'
    BY <2>1 DEF ReposInv, FilesInv, SelectedInv, Selected, Reported, EndInv, HasReason
  <2> QED BY <2>1, <2>2, <2>3 DEF ReposInv
<1> QED BY <1>1, <1>3, <1>4, <1>5, <1>6

(* An execution begins anew.                                               *)
LEMMA ExecuteRepos ==
  ASSUME ReposInv, ActorTypes, DataTypes, NEW t \in CreatorTasks, Execute(t)
  PROVE  ReposInv' /\ ActorTypes' /\ DataTypes'
<1> USE DEF Gathering, Creating
<1>1. /\ info' = FALSE /\ used' = {} /\ distroIds' = {} /\ installed' = FALSE
      /\ scratch' = setup.source /\ UNCHANGED <<setup, userspace, repofiles>>
      /\ \/ pc' = "done" /\ failure' = "stop" /\ reports' = {"no certificate"}
         \/ pc' = "iso" /\ failure' = "" /\ mode' = "prepare"
  BY DEF Execute, StartCreator, OpenOverlay
<1>2. ReposInv'
  BY <1>1 DEF ReposInv, FilesInv, SelectedInv, Selected, EndInv, HasReason
<1>3. ActorTypes'
  <2>1. setup \in Setups /\ IsFiles(repofiles) /\ userspace \in {"none", "empty", "installed", "ready"}
    BY DEF ActorTypes, UserspaceTypeOK
  <2>2. IsFiles(setup.source)
    BY <2>1, SetupFiles
  <2>3. IsFiles(scratch') /\ IsFiles(repofiles')
    BY <1>1, <2>1, <2>2
  <2>4. Ids(scratch') \cup Ids(repofiles') \cup distroIds' \cup used' \subseteq RepoIds
    BY <1>1, <2>3 DEF IsFiles
  <2> QED BY <1>1, <2>1, <2>3, <2>4 DEF ActorTypes, UserspaceTypeOK, IsFiles
<1>4. DataTypes'
  <2>1. /\ execution' = execution + 1 /\ execution < MaxExecutions /\ stage' = "check"
        /\ outcome' = "" /\ UNCHANGED <<step, data, cached, excluded, hostExcluded>>
    BY DEF Execute
  <2>2. execution' \in 0 .. MaxExecutions
    <3>1. execution \in 0 .. MaxExecutions
      BY DEF DataTypes, StagesTypeOK
    <3>2. MaxExecutions \in Nat
      BY StagesAssumption
    <3>3. execution' = execution + 1 /\ execution < MaxExecutions
      BY <2>1
    <3> QED BY <3>1, <3>2, <3>3
  <2> QED BY <2>1, <2>2 DEF DataTypes, StagesTypeOK, Stages
<1> QED BY <1>2, <1>3, <1>4

(* The state of the creator and of the stages.                             *)
CreatorInv == ReposInv /\ ActorTypes /\ DataTypes

THEOREM CreatorInductive == StagesSpec => []CreatorInv
<1>1. StagesInit => CreatorInv
  <2>1. SUFFICES ASSUME StagesInit PROVE CreatorInv
    OBVIOUS
  <2>2. /\ setup \in Setups /\ pc = "done" /\ scratch = << >> /\ installed = FALSE
        /\ distroIds = {} /\ used = {} /\ userspace = "none" /\ repofiles = << >> /\ info = FALSE
        /\ failure = "" /\ calls = 0
    BY <2>1 DEF StagesInit, UserspaceInit, OverlayInit
  <2>3. ReposInv
    <3>1. pc \notin Gathering \cup Creating \cup {"leave"} /\ ~Selected
      BY <2>2 DEF Selected, Gathering, Creating
    <3>2. FilesInv /\ SelectedInv
      BY <2>2, <3>1 DEF FilesInv, SelectedInv, Gathering, Creating
    <3>3. ~info /\ pc # "leave" /\ ~(calls > 0)
      <4>1. calls = 0 /\ info = FALSE /\ pc = "done"
        BY <2>2
      <4> QED BY <4>1
    <3>4. EndInv
      BY <3>1, <3>3 DEF EndInv
    <3> QED BY <2>2, <3>2, <3>4 DEF ReposInv
  <2>4. IsFiles(<< >>) /\ Ids(<< >>) = {}
    BY DEF IsFiles, Ids
  <2>5. ActorTypes
    BY <2>2, <2>4 DEF ActorTypes, UserspaceTypeOK, IsFiles
  <2>6. DataTypes
    <3>1. 0 \in 0 .. MaxExecutions
      BY StagesAssumption
    <3>2. NoData \in [writer : {"none", "check", "download"}, of : 0 .. MaxExecutions,
                      test : BOOLEAN, aws : BOOLEAN, region : BOOLEAN]
      BY <3>1 DEF NoData
    <3>3. /\ execution = 0 /\ stage = "check" /\ step = "idle" /\ data = NoData /\ cached = 0
          /\ excluded = FALSE /\ hostExcluded = FALSE /\ outcome = ""
      BY <2>1 DEF StagesInit
    <3>4. data.writer = "none" /\ data.of = 0 /\ data.test = FALSE /\ data.aws = FALSE
          /\ data.region = FALSE
      BY <3>3 DEF NoData
    <3>5. StagesTypeOK
      BY <3>1, <3>3, <3>4 DEF StagesTypeOK, Stages
    <3> QED BY <3>2, <3>3, <3>5 DEF DataTypes
  <2> QED BY <2>3, <2>5, <2>6 DEF CreatorInv
<1>2. StagesInv /\ CreatorInv /\ [StagesNext]_stagesVars => CreatorInv'
  <2>1. SUFFICES ASSUME StagesInv, CreatorInv, [StagesNext]_stagesVars PROVE CreatorInv'
    OBVIOUS
  <2>2. CASE UNCHANGED stagesVars
    <3>1. UNCHANGED <<setup, pc, scratch, installed, distroIds, used, userspace, repofiles,
                      info, reports, failure>>
      BY <2>2 DEF stagesVars, actorVars
    <3>2. UNCHANGED <<mode, broken, calls>>
      BY <2>2 DEF stagesVars, overlayVars
    <3>3. HandedOver' = HandedOver
      BY <3>1 DEF HandedOver
    <3>4. FilesInv' /\ SelectedInv'
      BY <2>1, <3>1, <3>3 DEF CreatorInv, ReposInv, FilesInv, SelectedInv, Selected, Reported
    <3>5. EndInv'
      BY <2>1, <3>1, <3>2 DEF CreatorInv, ReposInv, EndInv, HasReason
    <3>6. UNCHANGED <<execution, stage, step, data, cached, excluded, hostExcluded, outcome>>
      BY <2>2 DEF stagesVars, stageVars
    <3>7. ActorTypes'
      BY <2>1, <3>1 DEF CreatorInv, ActorTypes, UserspaceTypeOK, IsFiles
    <3>8. DataTypes'
      BY <2>1, <3>6 DEF CreatorInv, DataTypes, StagesTypeOK
    <3> QED BY <2>1, <3>1, <3>4, <3>5, <3>7, <3>8 DEF CreatorInv, ReposInv
  <2>3. CASE \E t \in CreatorTasks : Execute(t)
    BY <2>1, <2>3, ExecuteRepos DEF CreatorInv
  <2>4. CASE \E t \in StageTasks : StartStage(t)
    <3>1. UNCHANGED <<execution, stage, data, cached, excluded, hostExcluded, outcome>>
          /\ step' = "enter"
      BY <2>4 DEF StartStage
    <3>2. DataTypes'
      BY <2>1, <3>1 DEF CreatorInv, DataTypes, StagesTypeOK
    <3> QED BY <2>1, <2>4, <3>2, OthersKeepRepos DEF CreatorInv
  <2>5. CASE StagesStep
    <3>1. DataTypes'
      BY <2>1, <2>5, DataStay DEF CreatorInv
    <3>2. CASE Create
      BY <2>1, <3>1, <3>2, CreatorRepos, CreatorTypes DEF CreatorInv, Create
    <3>3. CASE ~Create
      BY <2>1, <2>5, <3>1, <3>3, OthersKeepRepos DEF CreatorInv, StagesStep
    <3> QED BY <3>2, <3>3
  <2> QED BY <2>1, <2>2, <2>3, <2>4, <2>5 DEF StagesNext
<1> QED BY <1>1, <1>2, StagesInductive, PTL DEF StagesSpec

(* The state of the overlay, the creator and the stages is well-typed.     *)
THEOREM WellTyped == StagesSpec => []UserspaceStateOK
<1>1. StagesInv /\ CreatorInv => UserspaceStateOK
  BY DEF StagesInv, OverlayInv, CreatorInv, ActorTypes, DataTypes, UserspaceStateOK
<1> QED BY <1>1, StagesInductive, CreatorInductive, PTL

(* Wherever the files of the packages fit the others, the repositories the *)
(* upgrade will use are defined, once, in the userspace, none of the       *)
(* custom ones is dropped, and a creator that ends without them says why   *)
(* (userspacegen.perform), in any sequence of executions, failures and     *)
(* kills.                                                                  *)
THEOREM Defined ==
  ASSUME \A s \in Setups : RepofilesFit(s)
  PROVE  StagesSpec => []RepositoriesAreDefined
<1>1. CreatorInv => RepositoriesAreDefined
  BY ReposFollow DEF CreatorInv, ReposInv
<1> QED BY <1>1, CreatorInductive, PTL

(* On every system whatsoever, no custom repository is dropped, and the    *)
(* creator does not end in silence.                                        *)
THEOREM DefinedAnyway == StagesSpec => [](NoCustomRepoDropped /\ EndsWithReason)
<1>1. CreatorInv => NoCustomRepoDropped /\ EndsWithReason
  BY DEF CreatorInv, ReposInv, SelectedInv, Selected, EndInv, HasReason, NoCustomRepoDropped,
         EndsWithReason
<1> QED BY <1>1, CreatorInductive, PTL
=============================================================================
