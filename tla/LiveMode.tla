------------------------------ MODULE LiveMode ------------------------------
(***************************************************************************)
(* Live mode, the experimental other way into the upgrade environment: the *)
(* target userspace is turned into a system of its own, packed into a      *)
(* squashfs image and booted; a service of it runs the upgrade on the      *)
(* source system mounted under /run/upgrade (actors/livemode).             *)
(*                                                                         *)
(* A part of the userspace is a member of LiveParts, made once or not at   *)
(* all; packages stand for the programs the enabled services call.         *)
(***************************************************************************)
EXTENDS Naturals, Sequences, SequencesExt

CONSTANTS LiveSystems,      \* configurations and sources to start from
          MaxLiveRuns,      \* executions of `leapp upgrade`
          MaxLiveAttempts,  \* runs of do-upgrade.sh
          MaxLiveFaults     \* steps that fail without a reason in the model

VARIABLES lmSystem, lmAt, lmTodo,
          lmRun,        \* which execution, and which made the userspace
          lmUserspace,  \* the parts of the userspace
          lmSquash,     \* what was packed into the image, one after the other
          lmFakeRoot,   \* /var/lib/leapp/.fakerootfs is there
          lmEntry,      \* the upgrade entry boots the image
          lmStarted,    \* the upgrade services systemd started in this boot
          lmKernelRoot, \* what /proc/cmdline said when the kernel was installed
          lmAttempts, lmFaults,
          lmLogged      \* what went wrong and did not stop the upgrade
lmVars == <<lmSystem, lmAt, lmTodo, lmRun, lmUserspace, lmSquash, lmFakeRoot,
            lmEntry, lmStarted, lmKernelRoot, lmAttempts, lmFaults, lmLogged>>
lmDisk == <<lmUserspace, lmSquash, lmFakeRoot, lmEntry, lmKernelRoot>>

UpgradeLinks == {"upgrade.service", "upgrade-strace.service"}
ConsoleLinks == {"tty2", "console.service"}
LiveParts == UpgradeLinks \cup ConsoleLinks \cup
    {"tty1", "sysroot", "fstab", "dbus", "sshd", "keys", "root", "network"}

(* The configuration, and what decides of source, target and userspace: host  *)
(* and image may have a getty on tty1; passwd is there, with or without root. *)
IsLiveSystem(s) ==
    /\ \A f \in {"unsupported", "tools", "ssh", "rootLogin", "network", "autostart",
                 "strace", "hostTty1", "imageTty1", "noreboot"} : s[f] \in BOOLEAN
    /\ s.passwd \in {"missing", "no root", "root"}
    /\ s.rootType \in {"xfs", "btrfs"} /\ s.target \in {9, 10}
ASSUME LiveAssumption ==
    /\ \A s \in LiveSystems : IsLiveSystem(s)
    /\ MaxLiveRuns \in Nat /\ MaxLiveAttempts \in Nat /\ MaxLiveFaults \in Nat

FreshUserspace(s) == IF s.imageTty1 THEN {"tty1"} ELSE {}

(* emit_livemode_userspace_requirements, as far as a service needs it.        *)
LivePackages(s) ==
    {"bash"} \cup (IF s.ssh THEN {"openssh-server"} ELSE {})
             \cup (IF s.strace THEN {"strace"} ELSE {})
ProgramOf(service) == IF service = "upgrade.service" THEN "bash" ELSE "strace"

(* create_fstab_mounting_current_root_elsewhere leaves out the file systems   *)
(* of other types, the root like any other.                                   *)
RootIsMounted(s) == s.rootType \in {"xfs", "ext4", "ext3", "vfat"}

(* The steps of modify_userspace_as_configured in their order, and the last   *)
(* one, which is no part of the userspace.                                    *)
If(configured, step) == IF configured THEN <<step>> ELSE <<>>
LiveSteps(s) ==
    <<"services", "console", "fstab", "sysroot", "issue", "dbus">>
      \o If(s.ssh, "sshd") \o If(s.rootLogin, "root") \o If(s.network, "network")
      \o <<"fakeroot">>

(* LiveImagePreparationInfo: the optional steps that came to their end.       *)
PreparationInfo(s) == {"sshd", "root", "network"} \cap ToSet(LiveSteps(s))

LiveInit ==
    /\ lmSystem \in LiveSystems /\ lmAt = "facts" /\ lmTodo = <<>> /\ lmRun = 1
    /\ lmUserspace = FreshUserspace(lmSystem) /\ lmSquash = <<>>
    /\ lmFakeRoot = FALSE /\ lmEntry = FALSE /\ lmStarted = {} /\ lmKernelRoot = "none"
    /\ lmAttempts = 0 /\ lmFaults = 0 /\ lmLogged = {}

-----------------------------------------------------------------------------
(* On the source system.                                                      *)

(* should_scan_config and the message it decides about.                       *)
ScanLiveConfig ==
    /\ lmAt = "facts"
    /\ lmAt' = IF ~lmSystem.unsupported THEN "not live"
               ELSE IF ~lmSystem.tools THEN "stopped" ELSE "prepare"
    /\ lmTodo' = LiveSteps(lmSystem)
    /\ UNCHANGED <<lmSystem, lmRun, lmDisk, lmStarted, lmAttempts, lmFaults, lmLogged>>

(* What a step makes in the userspace, in this order; what os.symlink makes   *)
(* must not be there yet, but for dbus. The getty of tty1 is looked for on    *)
(* the host and removed from the userspace. A missing passwd is passed over,  *)
(* and so is the network on 10: setup_network compares the versions as        *)
(* strings, and "10" is less than "9".                                        *)
StepMakes(step) ==
    CASE step = "services" -> <<"upgrade.service", "upgrade-strace.service">>
      [] step = "console"  -> <<"tty2", "console.service">>
      [] step = "sshd"     -> <<"keys", "sshd">>
      [] step \in {"issue", "fakeroot"} -> <<>>
      [] step = "root" /\ lmSystem.passwd = "missing" -> <<>>
      [] step = "network" /\ lmSystem.target = 10     -> <<>>
      [] OTHER             -> <<step>>
StepRemoves(step) ==
    IF step = "console" /\ lmSystem.hostTty1 THEN {"tty1"} ELSE {}
StepCannot(step) ==
    \/ /\ step \in {"services", "console", "sysroot"}
       /\ ToSet(StepMakes(step)) \cap lmUserspace # {}
    \/ ~(StepRemoves(step) \subseteq lmUserspace)
    \/ step = "root" /\ lmSystem.passwd = "no root"
AfterStep(step, n) ==
    (lmUserspace \ StepRemoves(step)) \cup ToSet(SubSeq(StepMakes(step), 1, n))

ToNextStep ==
    /\ lmTodo' = Tail(lmTodo)
    /\ lmAt' = IF Tail(lmTodo) = <<>> THEN "generate" ELSE "prepare"

PrepareStep ==
    /\ lmAt = "prepare"
    /\ LET step == Head(lmTodo)
       IN /\ ~StepCannot(step)
          /\ lmUserspace' = AfterStep(step, Len(StepMakes(step)))
          /\ lmFakeRoot' = (lmFakeRoot \/ step = "fakeroot")
    /\ ToNextStep
    /\ UNCHANGED <<lmSystem, lmRun, lmSquash, lmEntry, lmStarted, lmKernelRoot,
                   lmAttempts, lmFaults, lmLogged>>

(* A step that cannot be done, or fails half way, stops the upgrade.          *)
StepFails ==
    /\ lmAt = "prepare" /\ lmAt' = "stopped" /\ lmTodo' = <<>>
    /\ LET step == Head(lmTodo)
       IN IF StepCannot(step)
          THEN /\ UNCHANGED lmFaults
               /\ lmUserspace' = IF StepRemoves(step) \subseteq lmUserspace
                                 THEN AfterStep(step, 0) ELSE lmUserspace
          ELSE /\ StepMakes(step) # <<>> \/ step = "fakeroot"
               /\ lmFaults < MaxLiveFaults /\ lmFaults' = lmFaults + 1
               /\ \/ UNCHANGED lmUserspace
                  \/ \E n \in 0 .. Len(StepMakes(step)) - 1 :
                       step # "sshd" /\ lmUserspace' = AfterStep(step, n)
    /\ UNCHANGED <<lmSystem, lmRun, lmSquash, lmFakeRoot, lmEntry, lmStarted,
                   lmKernelRoot, lmAttempts, lmLogged>>

(* That the notices cannot be written, or sshd not be enabled, is logged.     *)
StepIsLogged ==
    /\ lmAt = "prepare" /\ Head(lmTodo) \in {"issue", "sshd"}
    /\ lmFaults < MaxLiveFaults /\ lmFaults' = lmFaults + 1
    /\ lmLogged' = lmLogged \cup {Head(lmTodo)}
    /\ lmUserspace' = AfterStep(Head(lmTodo), IF Head(lmTodo) = "sshd" THEN 1 ELSE 0)
    /\ ToNextStep
    /\ UNCHANGED <<lmSystem, lmRun, lmSquash, lmFakeRoot, lmEntry, lmStarted,
                   lmKernelRoot, lmAttempts>>

(* build_squashfs: that an old image cannot be removed is only logged, and    *)
(* mksquashfs appends to a file that is there: what was in it keeps its name. *)
Packed(whole) == [run |-> lmRun, parts |-> lmUserspace, whole |-> whole]
GenerateImage ==
    /\ lmAt = "generate" /\ lmAt' = "boot entry"
    /\ \/ /\ lmSquash' = <<Packed(TRUE)>> /\ UNCHANGED <<lmFaults, lmLogged>>
       \/ /\ lmSquash # <<>> /\ lmSquash[1].whole /\ lmFaults < MaxLiveFaults
          /\ lmFaults' = lmFaults + 1 /\ lmSquash' = Append(lmSquash, Packed(TRUE))
          /\ lmLogged' = lmLogged \cup {"old image"}
    /\ UNCHANGED <<lmSystem, lmTodo, lmRun, lmUserspace, lmFakeRoot, lmEntry,
                   lmStarted, lmKernelRoot, lmAttempts>>
GenerateFails ==
    /\ lmAt = "generate" /\ lmAt' = "stopped"
    /\ lmFaults < MaxLiveFaults /\ lmFaults' = lmFaults + 1
    /\ lmSquash' \in {<<>>, <<Packed(FALSE)>>}
    /\ UNCHANGED <<lmSystem, lmTodo, lmRun, lmUserspace, lmFakeRoot, lmEntry,
                   lmStarted, lmKernelRoot, lmAttempts, lmLogged>>

(* construct_cmdline_args_for_livemode; the arguments are the configuration.  *)
AddLiveEntry ==
    /\ lmAt = "boot entry" /\ lmAt' = "reboot" /\ lmEntry' = TRUE
    /\ UNCHANGED <<lmSystem, lmTodo, lmRun, lmUserspace, lmSquash, lmFakeRoot,
                   lmStarted, lmKernelRoot, lmAttempts, lmFaults, lmLogged>>

(* A grubby call fails, or the arguments cannot be worked out: the old entry  *)
(* may be gone by then.                                                       *)
AddLiveEntryFails ==
    /\ lmAt = "boot entry" /\ lmAt' = "stopped" /\ lmEntry' \in {lmEntry, FALSE}
    /\ lmFaults < MaxLiveFaults /\ lmFaults' = lmFaults + 1
    /\ UNCHANGED <<lmSystem, lmTodo, lmRun, lmUserspace, lmSquash, lmFakeRoot,
                   lmStarted, lmKernelRoot, lmAttempts, lmLogged>>

(* The phase is repeated, with the userspace as it was left; or another       *)
(* upgrade is started, which builds the userspace anew.                       *)
ResumePreparation ==
    /\ lmAt = "stopped" /\ lmSystem.tools /\ lmAttempts < MaxLiveAttempts
    /\ lmAt' = "prepare" /\ lmTodo' = LiveSteps(lmSystem)
    /\ lmAttempts' = lmAttempts + 1
    /\ UNCHANGED <<lmSystem, lmRun, lmDisk, lmStarted, lmFaults, lmLogged>>
UpgradeAnew ==
    /\ lmAt \in {"stopped", "reboot"} /\ lmRun < MaxLiveRuns
    /\ lmRun' = lmRun + 1 /\ lmAt' = "facts"
    /\ lmUserspace' = FreshUserspace(lmSystem)
    /\ UNCHANGED <<lmSystem, lmTodo, lmSquash, lmFakeRoot, lmEntry, lmStarted,
                   lmKernelRoot, lmAttempts, lmFaults, lmLogged>>

-----------------------------------------------------------------------------
(* In the live system.                                                        *)

(* The conditions of the two services on the kernel command line; and what    *)
(* they start has to be installed.                                            *)
UpgradeServicesTwice(parts, s) ==   \* mutant
    {u \in parts \cap UpgradeLinks :
       /\ s.autostart /\ (u = "upgrade-strace.service" => s.strace)
       /\ ProgramOf(u) \in LivePackages(s)}
UpgradeServices(parts, s) ==
    {u \in parts \cap UpgradeLinks :
       /\ s.autostart /\ (s.strace <=> u = "upgrade-strace.service")
       /\ ProgramOf(u) \in LivePackages(s)}
ImageCanBoot == lmSquash # <<>> /\ lmSquash[1].whole

BootLive ==
    /\ lmAt \in {"reboot", "failed"} /\ lmEntry /\ ImageCanBoot
    /\ lmAt' = "live"
    /\ lmStarted' = UpgradeServices(lmSquash[1].parts, lmSystem)
    /\ UNCHANGED <<lmSystem, lmTodo, lmRun, lmDisk, lmAttempts, lmFaults, lmLogged>>

(* The entry of a prepared upgrade is still the default one when a later      *)
(* execution stops, which may have replaced the image.                        *)
BootAfterStop ==
    /\ lmAt = "stopped" /\ lmEntry
    /\ lmAt' = IF ImageCanBoot THEN "live, unprepared" ELSE "broken"
    /\ UNCHANGED <<lmSystem, lmTodo, lmRun, lmDisk, lmStarted, lmAttempts, lmFaults, lmLogged>>

(* /usr/bin/upgrade, by a service or typed at the console, also after an      *)
(* attempt that failed: the flag of the failure only makes it say so. The     *)
(* command line the kernel's scripts see is put together from .fakerootfs,    *)
(* which is removed in the end, whatever the end is. The first leapp removes  *)
(* the entry before the transaction, the second one does what follows.        *)
StartsDoUpgrade ==
    /\ lmAt \in {"live", "failed"} /\ lmAttempts < MaxLiveAttempts
    /\ (lmStarted # {} \/ lmAt = "failed" \/ ~lmSystem.autostart)
    /\ lmAttempts' = lmAttempts + 1 /\ lmFakeRoot' = FALSE
    /\ UNCHANGED <<lmSystem, lmTodo, lmRun, lmUserspace, lmSquash, lmStarted>>
Transacts ==
    /\ RootIsMounted(lmSystem) /\ lmEntry' = FALSE
    /\ lmKernelRoot' = IF lmKernelRoot # "none" THEN lmKernelRoot
                       ELSE IF lmFakeRoot THEN "source" ELSE "missing"
DoUpgrade ==
    /\ StartsDoUpgrade /\ Transacts
    /\ lmAt' = IF lmSystem.noreboot THEN "waits" ELSE "target"
    /\ UNCHANGED <<lmFaults, lmLogged>>
DoUpgradeFails ==
    /\ StartsDoUpgrade /\ lmAt' = "failed" /\ lmLogged' = lmLogged \cup {"failed"}
    /\ IF RootIsMounted(lmSystem)
       THEN /\ lmFaults < MaxLiveFaults /\ lmFaults' = lmFaults + 1
            /\ Transacts \/ (lmEntry' \in {FALSE, lmEntry} /\ UNCHANGED lmKernelRoot)
       ELSE UNCHANGED <<lmEntry, lmKernelRoot, lmFaults>>

RebootByHand ==
    /\ lmAt = "waits" /\ lmAt' = "target"
    /\ UNCHANGED <<lmSystem, lmTodo, lmRun, lmDisk, lmStarted, lmAttempts, lmFaults, lmLogged>>

(* FirstBoot; that the image cannot be removed is only logged.                *)
RemoveLiveImage ==
    /\ lmAt = "target" /\ lmAt' = "done"
    /\ \/ lmSquash' = <<>> /\ UNCHANGED <<lmFaults, lmLogged>>
       \/ /\ lmFaults < MaxLiveFaults /\ lmFaults' = lmFaults + 1
          /\ lmLogged' = lmLogged \cup {"image left"} /\ UNCHANGED lmSquash
    /\ UNCHANGED <<lmSystem, lmTodo, lmRun, lmUserspace, lmFakeRoot, lmEntry,
                   lmStarted, lmKernelRoot, lmAttempts>>

LiveNext ==
    \/ ScanLiveConfig \/ PrepareStep \/ StepFails \/ StepIsLogged
    \/ GenerateImage \/ GenerateFails \/ AddLiveEntry \/ AddLiveEntryFails
    \/ ResumePreparation \/ UpgradeAnew \/ BootLive \/ BootAfterStop
    \/ DoUpgrade \/ DoUpgradeFails \/ RebootByHand \/ RemoveLiveImage
LiveSpec == LiveInit /\ [][LiveNext]_lmVars

-----------------------------------------------------------------------------
(* The sets the variables take their values from.                             *)
LiveTypeOK ==
    /\ lmAt \in {"facts", "not live", "prepare", "generate", "boot entry", "stopped",
                 "reboot", "live", "live, unprepared", "broken", "failed", "waits",
                 "target", "done"}
    /\ lmUserspace \subseteq LiveParts /\ lmStarted \subseteq UpgradeLinks
    /\ \A i \in DOMAIN lmSquash : lmSquash[i].run \in 1 .. lmRun
    /\ lmKernelRoot \in {"none", "source", "missing"}
    /\ lmFaults \in 0 .. MaxLiveFaults /\ lmAttempts \in 0 .. MaxLiveAttempts

(* What the configuration asks the image to hold, whatever the steps do.      *)
IfAsked(configured, parts) == IF configured THEN parts ELSE {}
ConfiguredParts(s) ==
    (LiveParts \ {"tty1", "sshd", "keys", "root", "network"})
      \cup IfAsked(s.ssh, {"sshd", "keys"}) \cup IfAsked(s.rootLogin, {"root"})
      \cup IfAsked(s.network, {"network"})

(* What the booted image holds is the userspace of this execution with all    *)
(* that was configured, in whatever state earlier executions have left the    *)
(* file - but for an sshd that is logged, root if there is no passwd, and the *)
(* network of 9 to 10 (see NetworkIsSetUp). On tty1 there is no getty next to *)
(* the log, unless it was only in the userspace.                              *)
ImageIsOfThisRun ==
    lmAt \in {"live", "waits"} =>
        LET image == lmSquash[1]
        IN /\ image.run = lmRun \/ "old image" \in lmLogged
           /\ ConfiguredParts(lmSystem) \subseteq
                image.parts \cup (lmLogged \cap {"sshd"})
                  \cup IfAsked(lmSystem.passwd = "missing", {"root"})
                  \cup IfAsked(lmSystem.target = 10, {"network"})
           /\ "tty1" \in image.parts => ~lmSystem.hostTty1

(* An image of which LiveImagePreparationInfo says that the network is set up *)
(* has the profiles of the source, as the option setup_network_manager        *)
(* promises. It has not on 10.                                                *)
NetworkIsSetUp ==
    lmAt = "live" /\ "network" \in PreparationInfo(lmSystem) =>
        "network" \in lmSquash[1].parts

(* In every boot of the live system one of the two services runs the upgrade, *)
(* never both at a time and, when it is not to start by itself, neither.      *)
OneServiceUpgrades ==
    lmAt = "live" => /\ lmStarted # {} <=> lmSystem.autostart
                     /\ \A u, v \in lmStarted : u = v

(* The scripts of the new kernel find the arguments of the source system, not *)
(* those of the image (docstring of fakerootfs), unless an attempt has failed *)
(* and with it the file they are in was removed.                              *)
KernelGetsItsRoot ==
    lmKernelRoot = "missing" => "failed" \in lmLogged

(* The machine cannot be left with an entry for an image that is not there,   *)
(* but by another execution that stops after one was prepared.                *)
LiveBootWorks ==
    /\ lmAt = "broken" => lmRun > 1
    /\ lmAt = "reboot" => lmEntry /\ ImageCanBoot

(* An attempt fails for a fault, or because the root is of a type that the    *)
(* fstab of the image leaves out; and the image does not stay behind without  *)
(* a warning.                                                                 *)
LiveEndsWell ==
    /\ lmAt = "failed" /\ lmFaults = 0 => ~RootIsMounted(lmSystem)
    /\ lmAt = "done" => lmSquash = <<>> \/ "image left" \in lmLogged

(* Together: live mode upgrades the system that was prepared, or says why not.*)
LiveUpgradesThePrepared ==
    /\ ImageIsOfThisRun /\ OneServiceUpgrades /\ KernelGetsItsRoot
    /\ LiveBootWorks /\ LiveEndsWell
=============================================================================
