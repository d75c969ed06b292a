--------------------------- MODULE TargetUserspace ---------------------------
(***************************************************************************)
(* The actor target_userspace_creator (userspacegen.perform): in an overlay *)
(* of the source system, the scratch container, it gets access to the      *)
(* target content (RHSM, RHUI, repositories of the distribution or of the  *)
(* user), finds out which of the wanted repositories there are, installs   *)
(* the target userspace from them and makes it a container that has access *)
(* to the same repositories.                                               *)
(*                                                                         *)
(* The directory /etc/yum.repos.d of a container is a function from its    *)
(* files to the repoids each of them defines.                              *)
(***************************************************************************)
EXTENDS SourceOverlay

CONSTANTS
  RepoFiles,   \* names of repository files
  RepoIds,
  RedhatRepo,  \* redhat.repo, which subscription-manager generates
  DistroFiles, \* the files the distribution provides, _DISTRO_REPOFILES_MAP
  BaseOS, AppStream, \* the repoids with baseos, appstream in them
  Setups       \* the systems and what they ask for

IsDir(D) == DOMAIN D \subseteq RepoFiles /\ \A f \in DOMAIN D : D[f] \subseteq RepoIds

NoRhui == [present |-> FALSE, bootstrap |-> FALSE, remove |-> {}, copied |-> << >>,
           support |-> {}, client |-> << >>]

(* The configuration and the messages: the target distribution; conversion *)
(* (or CentOS Stream 8 to 9), where only custom repositories are used;     *)
(* RHSM and whether its product certificate is there; the repository files *)
(* of the source system and which of them packages of it own; the ids      *)
(* RHSM gives with the target certificate; RHUIInfo; the repository files  *)
(* in CustomTargetRepositoryFile and those owned by the packages of the    *)
(* userspace; TargetRepositories; an ISO.                                  *)
IsSetup(s) ==
  /\ s.distro \in {"rhel", "centos"}
  /\ {s.customOnly, s.rhsm, s.certificate, s.iso, s.rhui.present, s.rhui.bootstrap} \subseteq BOOLEAN
  /\ \A D \in {s.source, s.rhui.copied, s.rhui.client, s.customFiles, s.packaged} : IsDir(D)
  /\ s.rhsm => s.distro = "rhel" \* process_args of commands/upgrade/util.py
  /\ s.owned \subseteq DOMAIN s.source /\ s.rhui.remove \subseteq RepoFiles
  /\ s.rhui.support \subseteq DOMAIN s.rhui.copied
  /\ {s.subscribed, s.wanted, s.custom} \subseteq SUBSET RepoIds

ASSUME UserspaceAssumption == RedhatRepo \in RepoFiles /\ \A s \in Setups : IsSetup(s)

VARIABLES
  setup,     \* never changes
  pc,        \* the next step of perform
  scratch,   \* /etc/yum.repos.d of the scratch container
  installed, \* the packages of the target RHUI client are in the scratch container
  distroIds, \* distro_repoids
  used,      \* target_repoids; UsedTargetRepositories once produced
  userspace, \* "none", "empty", "installed" or "ready"
  repofiles, \* /etc/yum.repos.d of the userspace
  info,      \* TargetUserSpaceInfo has been produced
  reports,   \* the inhibitors
  failure    \* how the actor has ended: "", "stop" or "error"

actorVars == <<setup, pc, scratch, installed, distroIds, used, userspace, repofiles,
               info, reports, failure>>

-----------------------------------------------------------------------------
(* Repository files.                                                       *)

Ids(D)       == UNION {D[f] : f \in DOMAIN D}
Put(D, E)    == [f \in DOMAIN D \cup DOMAIN E |-> IF f \in DOMAIN E THEN E[f] ELSE D[f]]
Drop(D, F)   == [f \in DOMAIN D \ F |-> D[f]]
KeepOnly(D, F) == [f \in DOMAIN D \cap F |-> D[f]]

(* repofileutils.get_duplicate_repositories: in two files.                 *)
Duplicates(D) == {r \in Ids(D) : \E f, g \in DOMAIN D : f # g /\ r \in D[f] /\ r \in D[g]}

rhui == setup.rhui

(* with_rhsm; get_available_repo_ids has yum and subscription-manager      *)
(* generate redhat.repo, for the product certificate of the container.     *)
Subscribed(D) == Put(D, [f \in {RedhatRepo} |-> setup.subscribed])

-----------------------------------------------------------------------------
(* The actor.                                                              *)

(* _InputData, _get_product_certificate_path, create_source_overlay.       *)
NeedsCertificate == setup.distro = "rhel"

UserspaceInit ==
  /\ OverlayInit
  /\ setup \in Setups
  /\ pc = "done" /\ scratch = << >> /\ installed = FALSE /\ distroIds = {} /\ used = {}
  /\ userspace = "none" /\ repofiles = << >> /\ info = FALSE /\ reports = {} /\ failure = ""

(* The target_userspace_creator of an execution of leapp.                  *)
StartCreator(t) ==
  /\ pc \in {"done", "dead"} /\ ~info
  /\ info' = FALSE /\ used' = {} /\ distroIds' = {} /\ installed' = FALSE
  /\ scratch' = setup.source
  /\ \/ /\ NeedsCertificate /\ ~setup.certificate
        /\ mode = "out" /\ calls < MaxCalls
        /\ pc' = "done" /\ failure' = "stop" /\ reports' = {"no certificate"}
        /\ calls' = calls + 1
        /\ UNCHANGED <<mode, task, left, sizes, stack, attached, lost, broken, mishaps>>
     \/ /\ ~NeedsCertificate \/ setup.certificate
        /\ OpenOverlay(t)
        /\ pc' = "iso" /\ failure' = "" /\ reports' = {}
  /\ UNCHANGED <<setup, userspace, repofiles>>

(* An exception: the context managers unwind, nothing is produced.         *)
GiveUp(how, why) ==
  /\ LeaveOverlay(FALSE)
  /\ pc' = "leave" /\ failure' = how
  /\ reports' = reports \cup why

Ready(step) == pc = step /\ Inside

MountIso ==
  /\ Ready("iso")
  /\ \/ ~setup.iso /\ pc' = "rhui" /\ UNCHANGED overlayVars /\ UNCHANGED failure
     \/ setup.iso /\ EnterMount(Iso) /\ pc' = "rhui" /\ UNCHANGED failure
     \/ setup.iso /\ MountFails(Iso) /\ pc' = "leave" /\ failure' = "error"
  /\ UNCHANGED <<setup, scratch, installed, distroIds, used, userspace, repofiles, info, reports>>

(* _apply_rhui_access_preinstall_tasks                                     *)
Preinstalled == Put(Drop(setup.source, rhui.remove), rhui.copied)

(* What the cleanup of setup_target_rhui_access_if_needed deletes.         *)
NoLongerNeeded == DOMAIN rhui.copied \ (DOMAIN rhui.client \cup rhui.support)

(* setup_target_rhui_access_if_needed: it creates the directory of the     *)
(* userspace first.  Swapping the clients in a dnf shell removes the files *)
(* of the source client, which packages own, and installs those of the     *)
(* target client.                                                          *)
SetupRhuiAccess ==
  /\ Ready("rhui")
  /\ IF ~rhui.present
     THEN /\ pc' = "gather" /\ UNCHANGED <<overlayVars, scratch, installed, userspace, failure, reports>>
     ELSE /\ userspace' = (IF userspace = "none" THEN "empty" ELSE userspace)
          /\ \/ /\ ~rhui.bootstrap
                /\ scratch' = Preinstalled
                /\ pc' = "gather" /\ UNCHANGED <<overlayVars, installed, failure, reports>>
             \/ /\ rhui.bootstrap
                /\ scratch' = Drop(Put(Drop(Preinstalled, setup.owned), rhui.client), NoLongerNeeded)
                /\ installed' = TRUE
                /\ pc' = "gather" /\ UNCHANGED <<overlayVars, failure, reports>>
             \/ /\ rhui.bootstrap
                /\ GiveUp("error", {})
                /\ UNCHANGED <<scratch, installed>>
  /\ UNCHANGED <<setup, distroIds, used, repofiles, info>>

(* Mutant: the names of the files for the repoids.                         *)
RhuiFileNames(D) == DOMAIN D

(* _get_rhui_available_repoids: dnf repolist with the files of others      *)
(* renamed.                                                                *)
RhuiIds(D) ==
  Ids(KeepOnly(D, DOMAIN rhui.copied
                  \cup (IF rhui.bootstrap THEN DOMAIN rhui.client ELSE {})))

(* distro.get_target_distro_repoids                                        *)
DistroIds(D) ==
  CASE setup.distro = "rhel" /\ setup.rhsm -> D[RedhatRepo]
    [] setup.distro = "rhel" /\ ~setup.rhsm -> {}
    [] OTHER -> Ids(KeepOnly(D, DistroFiles))

ChecksBaseRepos == ~setup.customOnly /\ (setup.distro # "rhel" \/ setup.rhsm)
HasBaseRepos(R) == R \cap BaseOS # {} /\ R \cap AppStream # {}

(* _inhibit_on_duplicate_repos, of rhsm.py and, without RHSM, of the actor. *)
DuplicateReport(checked, D) ==
  IF checked /\ Duplicates(D) # {} THEN {"duplicate repositories"} ELSE {}

(* switch_certificate, _install_custom_repofiles, _get_distro_available_-   *)
(* repoids.                                                                *)
GatherDistroRepos ==
  /\ Ready("gather")
  /\ LET D == Put(IF setup.distro = "rhel" /\ setup.rhsm THEN Subscribed(scratch) ELSE scratch,
                  setup.customFiles)
         found == DistroIds(D)
         dup == DuplicateReport(setup.rhsm /\ setup.distro = "rhel", D)
     IN  /\ scratch' = D
         /\ \/ /\ ChecksBaseRepos /\ ~HasBaseRepos(found)
               /\ GiveUp("stop", dup \cup {"no base repositories"})
               /\ UNCHANGED distroIds
            \/ /\ ~ChecksBaseRepos \/ HasBaseRepos(found)
               /\ distroIds' = found \cup (IF rhui.present THEN RhuiIds(D) ELSE {})
               /\ reports' = reports \cup dup
               /\ pc' = "select" /\ UNCHANGED <<overlayVars, failure>>
            \/ GiveUp("error", dup) /\ UNCHANGED distroIds
  /\ UNCHANGED <<setup, installed, used, userspace, repofiles, info>>

MissingCustom == ~(setup.custom \subseteq Ids(scratch))

(* gather_target_repositories                                              *)
SelectRepos ==
  /\ Ready("select")
  /\ LET chosen == (setup.wanted \cap distroIds) \cup (setup.custom \cap Ids(scratch))
         dup == DuplicateReport(~setup.rhsm, scratch)
     IN  \/ chosen = {} /\ GiveUp("stop", dup \cup {"no target repositories"}) /\ UNCHANGED used
         \/ /\ chosen # {} /\ MissingCustom
            /\ GiveUp("stop", dup \cup {"missing custom repositories"}) /\ UNCHANGED used
         \/ /\ chosen # {} /\ ~MissingCustom
            /\ used' = chosen /\ reports' = reports \cup dup
            /\ pc' = "remove" /\ UNCHANGED <<overlayVars, failure>>
  /\ UNCHANGED <<setup, scratch, installed, distroIds, userspace, repofiles, info>>

(* rm -rf of the userspace: it fails when something is mounted in there.   *)
Busy == \E x \in attached : x[1] = Target

RemoveUserspace ==
  /\ Ready("remove")
  /\ \/ ~Busy /\ userspace' = "empty" /\ repofiles' = << >>
        /\ pc' = "bind" /\ UNCHANGED <<overlayVars, failure, reports>>
     \/ /\ userspace' \in {userspace, "empty"}
        /\ GiveUp("error", {}) /\ UNCHANGED repofiles
  /\ UNCHANGED <<setup, scratch, installed, distroIds, used, info>>

BindUserspace ==
  /\ Ready("bind")
  /\ \/ EnterMount(Userspace) /\ pc' = "install" /\ UNCHANGED failure
     \/ MountFails(Userspace) /\ pc' = "leave" /\ failure' = "error"
  /\ UNCHANGED <<setup, scratch, installed, distroIds, used, userspace, repofiles, info, reports>>

(* _import_gpg_keys and dnf install, in prepare_target_userspace.          *)
InstallUserspace ==
  /\ Ready("install")
  /\ \/ /\ userspace' = "installed" /\ repofiles' = setup.packaged
        /\ pc' = "unbind" /\ UNCHANGED <<overlayVars, failure, reports>>
     \/ GiveUp("error", {}) /\ UNCHANGED <<userspace, repofiles>>
  /\ UNCHANGED <<setup, scratch, installed, distroIds, used, info>>

UnbindUserspace ==
  /\ Ready("unbind")
  /\ ExitMount
  /\ UNCHANGED <<mode, task, left, sizes, broken, calls>>
  /\ pc' = "access"
  /\ LET wiped == UserspaceDir \in lost' \ lost
     IN  /\ userspace' = (IF wiped THEN "empty" ELSE userspace)
         /\ repofiles' = (IF wiped THEN << >> ELSE repofiles)
  /\ UNCHANGED <<setup, scratch, installed, distroIds, used, info, reports, failure>>

(* Mutant: only the files of the packages.                                 *)
HandedPackaged == setup.packaged

HandedOver == Put(scratch, setup.packaged)

(* _prep_repository_access: the files of the scratch container, and those  *)
(* that packages of the userspace own.  A userspace that is gone has no    *)
(* /etc/pki to move away.                                                  *)
PrepRepositoryAccess ==
  /\ Ready("access")
  /\ \/ /\ userspace = "installed"
        /\ repofiles' = HandedOver
        /\ pc' = "finish" /\ UNCHANGED <<overlayVars, failure, reports>>
     \/ GiveUp("error", {}) /\ UNCHANGED repofiles
  /\ UNCHANGED <<setup, scratch, installed, distroIds, used, userspace, info>>

(* _remove_injected_repofiles_from_our_rhui_packages: those that no        *)
(* package of the scratch container owns.                                  *)
OwnedInScratch == setup.owned \cup (IF installed THEN DOMAIN rhui.client ELSE {})
Injected == DOMAIN rhui.copied \ OwnedInScratch

(* _copy_files, dnfplugin.install, set_container_mode.                     *)
FinishUserspace ==
  /\ Ready("finish")
  /\ \/ /\ repofiles' = (IF rhui.present /\ ~rhui.bootstrap THEN Drop(repofiles, Injected) ELSE repofiles)
        /\ userspace' = "ready"
        /\ pc' = "produce" /\ UNCHANGED <<overlayVars, failure, reports>>
     \/ GiveUp("error", {}) /\ UNCHANGED <<repofiles, userspace>>
  /\ UNCHANGED <<setup, scratch, installed, distroIds, used, info>>

(* TMPTargetRepositoriesFacts, UsedTargetRepositories, TargetUserSpaceInfo; *)
(* parsing the repository files may fail.                                  *)
ProduceUserspace ==
  /\ Ready("produce")
  /\ \/ info' = TRUE /\ LeaveOverlay(TRUE) /\ pc' = "leave" /\ UNCHANGED <<failure, reports>>
     \/ GiveUp("error", {}) /\ UNCHANGED info
  /\ UNCHANGED <<setup, scratch, installed, distroIds, used, userspace, repofiles>>

FailureThen == IF broken /\ failure = "" THEN "error" ELSE failure

(* create_source_overlay fails before the body, or everything is unwound.  *)
CreatorOverlay ==
  /\ pc \notin {"done", "dead"}
  /\ OverlayStep
  /\ IF mode' = "out"
     THEN /\ pc' = "done"
          /\ failure' = FailureThen
     ELSE UNCHANGED <<pc, failure>>
  /\ UNCHANGED <<setup, scratch, installed, distroIds, used, userspace, repofiles, info, reports>>

(* Whoever is killed, a later execution starts with what is on the disk.   *)
CreatorKilled ==
  /\ pc \notin {"done", "dead"} /\ Killed
  /\ pc' = "dead" /\ failure' = "error" /\ info' = FALSE /\ used' = {}
  /\ UNCHANGED <<setup, scratch, installed, distroIds, userspace, repofiles, reports>>

CreatorStep ==
  \/ MountIso \/ SetupRhuiAccess \/ GatherDistroRepos \/ SelectRepos
  \/ RemoveUserspace \/ BindUserspace \/ InstallUserspace \/ UnbindUserspace
  \/ PrepRepositoryAccess \/ FinishUserspace \/ ProduceUserspace
  \/ CreatorOverlay \/ CreatorKilled

-----------------------------------------------------------------------------
(* The repository files that a creator which gets that far has, as a       *)
(* function of the system alone.                                           *)

(* The scratch container with access to RHUI, when there is one,           *)
RhuiFiles(s) ==
  LET copied == Put(Drop(s.source, s.rhui.remove), s.rhui.copied)
      swapped == Put(Drop(copied, s.owned), s.rhui.client)
  IN  IF ~s.rhui.present THEN s.source
      ELSE IF ~s.rhui.bootstrap THEN copied
      ELSE Drop(swapped, DOMAIN s.rhui.copied \ (DOMAIN s.rhui.client \cup s.rhui.support))

(* and with all repositories,                                              *)
ScratchFiles(s) ==
  Put(IF s.rhsm THEN Put(RhuiFiles(s), [f \in {RedhatRepo} |-> s.subscribed]) ELSE RhuiFiles(s),
      s.customFiles)

(* the files of leapp that only stand in for those of the target client,   *)
StandIns(s) == IF s.rhui.present /\ ~s.rhui.bootstrap THEN DOMAIN s.rhui.copied \ s.owned ELSE {}

(* and the userspace.                                                      *)
UserspaceFiles(s) == Drop(Put(ScratchFiles(s), s.packaged), StandIns(s))

(* The files of the packages of the userspace fit the others: a repository *)
(* asked for that was in a file they replace, or in a stand-in, is in one  *)
(* of theirs, and they have no repository that another file has.  (A       *)
(* stand-in with the name of a file of the client does not fit.)           *)
RepofilesFit(s) ==
  LET D == ScratchFiles(s)
      stay == Drop(s.packaged, StandIns(s))
      replaced == DOMAIN s.packaged \cup StandIns(s)
  IN  /\ \A f \in DOMAIN D \cap replaced :
           D[f] \cap (s.wanted \cup s.custom) \subseteq Ids(stay)
      /\ \A f \in DOMAIN stay, g \in DOMAIN D \ replaced : stay[f] \cap D[g] = {}
      /\ Duplicates(stay) = {}

-----------------------------------------------------------------------------
(* Properties.                                                             *)

UserspaceTypeOK ==
  /\ setup \in Setups
  /\ pc \in {"iso", "rhui", "gather", "select", "remove", "bind", "install", "unbind",
             "access", "finish", "produce", "leave", "done", "dead"}
  /\ DOMAIN scratch \subseteq RepoFiles /\ DOMAIN repofiles \subseteq RepoFiles
  /\ Ids(scratch) \cup Ids(repofiles) \cup distroIds \cup used \subseteq RepoIds
  /\ userspace \in {"none", "empty", "installed", "ready"}
  /\ installed \in BOOLEAN /\ info \in BOOLEAN
  /\ failure \in {"", "stop", "error"}

(* What TargetUserSpaceInfo promises, until the upgrade removes the         *)
(* userspace: it is complete, and every repository of                      *)
(* UsedTargetRepositories is defined in its yum.repos.d, whatever has      *)
(* happened to the files on the way there.                                 *)
UsedReposAreDefined ==
  info /\ userspace # "none" => userspace = "ready" /\ used # {} /\ used \subseteq Ids(repofiles)

(* No repoid is defined by two files of the userspace, unless the report   *)
(* on duplicate repositories inhibits the upgrade.                         *)
DefinedOnce ==
  info /\ "duplicate repositories" \notin reports => Duplicates(repofiles) = {}

(* The actor never ends in silence: without a userspace there is an error  *)
(* or an inhibitor.                                                        *)
EndsWithReason ==
  pc = "done" /\ calls > 0 /\ ~info => failure = "error" \/ (failure = "stop" /\ reports # {})

(* The upgrade never gets a custom repository less than was asked for.     *)
NoCustomRepoDropped == info => setup.custom \subseteq used

(* A repository file that a package of the userspace owns stays there.     *)
OwnedRepofilesKept ==
  info => \A f \in DOMAIN setup.packaged : f \in DOMAIN repofiles /\ repofiles[f] = setup.packaged[f]

(* The repositories that the upgrade will use are defined once, in the     *)
(* userspace it will run from; a creator that ends without them says why.  *)
RepositoriesAreDefined ==
    /\ UsedReposAreDefined
    /\ DefinedOnce
    /\ NoCustomRepoDropped
    /\ EndsWithReason
=============================================================================
