--------------------------- MODULE KernelArguments ---------------------------
(* The kernel command line from the source system over the upgrade boot entry *)
(* to the target kernel.                                                      *)
(*                                                                            *)
(* The actors of the checks ask for arguments of the upgrade kernel and of    *)
(* the target kernel; addupgradebootentry creates the upgrade entry with      *)
(* grubby, one command at a time and once per configuration file, and asks    *)
(* for the removal of what only the upgrade needs; the target kernel is       *)
(* installed with the arguments of the booted (upgrade) kernel; and           *)
(* kernelcmdlineconfig applies the requests to it and stores the result as    *)
(* the default of the kernels to come.  An argument is a pair <<key, value>>  *)
(* (value "" when it has none), a command line a set of them; root= is left   *)
(* out, for grubby keeps it apart.                                            *)
EXTENDS FiniteSets, Sequences, SequencesExt

CONSTANTS KernelSystems   \* the systems to upgrade, see IsKernelSystem

Bare(key) == <<key, "">>
Keys(args) == {a[1] : a \in args}
ValuesOf(key, args) == {a \in args : a[1] = key}

IsKernelSystem(s) ==
    /\ s.major \in {"8", "9"}                     \* of the source
    /\ \A a \in s.cmdline \cup s.entry : Len(a) = 2  \* booted with; default entry
    /\ s.env \subseteq {"debug", "network", "noscheme"}  \* LEAPP_* variables
    /\ s.live \in {"no", "local", "network"}     \* the image, if any, is loaded from
    /\ s.liveOptions \subseteq {"dracut network", "no autostart", "strace"}
    /\ s.selinux \in {"enforcing", "permissive", "disabled"}
    /\ s.nics \in {"predictable", "eth0", "ethX"}
    /\ s.luks \in {"none", "ceph", "luks1", "no tpm", "tpm", "unreadable"}
    /\ s.nvme \in {"none", "pcie", "fc", "fc unnamed", "tcp", "tcp in fstab"}
    /\ s.configs \in Seq(STRING) /\ s.configs # <<>>  \* the files grubby writes

ASSUME KernelSystemsAssumption ==
    \A s \in KernelSystems : IsKernelSystem(s)

VARIABLES
    kaSystem,   \* the system, one of KernelSystems
    kaAt,       \* where the upgrade is
    kaTasks,    \* the requests of the actors of the checks
    kaLate,     \* LateTargetKernelCmdlineArgTasks.to_remove
    kaTodo,     \* configurations whose entry grubby has still to write
    kaCopied,   \* the entry of the first of them was created
    kaEntry,    \* configuration -> arguments of the upgrade entry ({} if none)
    kaTarget,   \* configuration -> arguments of the target kernel
    kaDefault,  \* default arguments of the kernels to be installed
    kaReports   \* what was reported

kaVars == <<kaSystem, kaAt, kaTasks, kaLate, kaTodo, kaCopied, kaEntry,
            kaTarget, kaDefault, kaReports>>

(* A command line in which the values of a key may be several.                *)
(* grubby takes "key" out with any value, "key=value" only with that value,   *)
(* and does so before it adds; an added key replaces its former values.       *)
Taken(a, remove) == a \in remove \/ Bare(a[1]) \in remove
Grubby(args, add, remove) ==
    {a \in args : ~Taken(a, remove) /\ a[1] \notin Keys(add)} \cup add

NoTasks == [upAdd |-> {}, upRemove |-> {}, add |-> {}, remove |-> {}]
ForBoth(args) == [NoTasks EXCEPT !.upAdd = args, !.add = args]
Joined(tasks) ==
    [f \in DOMAIN NoTasks |-> UNION {t[f] : t \in tasks}]

-----------------------------------------------------------------------------
(* What the actors of the checks ask for.                                     *)

EnforcingOne == <<"enforcing", "1">>

(* checkselinux: selinux=0 on 9 when SELinux is disabled in its configuration *)
(* (asked for with a bare KernelCmdlineArg); else enforcing=1 goes from both  *)
(* the upgrade and the target.                                                *)
SELinuxTasks(s) ==
    IF s.selinux = "disabled"
    THEN [NoTasks EXCEPT !.add =
            IF s.major = "8" THEN {<<"selinux", "0">>} ELSE {}]
    ELSE IF EnforcingOne \in s.cmdline \cup s.entry
    THEN [NoTasks EXCEPT !.upRemove = {EnforcingOne}, !.remove = {EnforcingOne}]
    ELSE NoTasks

(* checkluks: rd.luks.uuid would limit what clevis unlocks in the initramfs;  *)
(* the arguments are taken from the upgrade and given back to the target.     *)
LuksUuids(s) == ValuesOf("rd.luks.uuid", s.cmdline)
LuksTasksForgetful(s) == [NoTasks EXCEPT !.upRemove = LuksUuids(s)]   \* mutant
LuksTasks(s) ==
    IF s.luks = "tpm"
    THEN [NoTasks EXCEPT !.upRemove = LuksUuids(s), !.add = LuksUuids(s)]
    ELSE NoTasks

(* checknvme: discovery in the initramfs, and native multipath off on 9 as it *)
(* was on 8, unless the system was booted with a choice.                      *)
NvmeTasks(s) ==
    LET discover == IF s.live = "no" THEN {<<"rd.nvmf.discover", "fc,auto">>}
                                     ELSE {}
        chosen == ValuesOf("nvme_core.multipath", s.cmdline) # {}
        off == IF s.major = "8" /\ ~chosen THEN {<<"nvme_core.multipath", "N">>}
                                           ELSE {}
    IN  IF s.nvme = "none" THEN NoTasks
        ELSE [NoTasks EXCEPT !.upAdd = discover \cup off, !.add = off]

(* persistentnetnamesdisable: a single eth0 keeps its name.                   *)
NameTasks(s) ==
    IF s.nics = "eth0" THEN ForBoth({<<"net.ifnames", "0">>}) ELSE NoTasks

(* emit_net_naming_scheme: the names of the source, unless the command line   *)
(* has a scheme or no predictable names.                                      *)
SchemeTasks(s) ==
    IF /\ "noscheme" \notin s.env
       /\ <<"net.ifnames", "0">> \notin s.cmdline
       /\ ValuesOf("net.naming-scheme", s.cmdline) = {}
    THEN ForBoth({<<"net.naming-scheme", "rhel-" \o s.major \o ".0">>})
    ELSE NoTasks

(* The checks that stop the upgrade, with an error or an inhibitor.           *)
LuksUnreadable(s) == s.luks = "unreadable"
LuksUnsuitable(s) == s.luks \in {"luks1", "no tpm"}     \* ceph's are skipped
NvmeInFstab(s) == s.nvme = "tcp in fstab"
NvmeUnnamed(s) == s.nvme = "fc unnamed"                 \* no hostid, hostnqn
NvmeNativeOff(s) == /\ s.nvme # "none" /\ s.major = "9"
                    /\ <<"nvme_core.multipath", "N">> \in s.cmdline
NamesUnstable(s) == s.nics = "ethX"                     \* of several
Unsuitable(s) ==
    \/ LuksUnreadable(s) \/ LuksUnsuitable(s)
    \/ NvmeInFstab(s) \/ NvmeUnnamed(s) \/ NvmeNativeOff(s)
    \/ NamesUnstable(s)

KernelChecks ==
    /\ kaAt = "checks"
    /\ IF Unsuitable(kaSystem)
       THEN kaAt' = "inhibited" /\ UNCHANGED kaTasks
       ELSE /\ kaTasks' = Joined({SELinuxTasks(kaSystem), LuksTasks(kaSystem),
                                  NvmeTasks(kaSystem), NameTasks(kaSystem),
                                  SchemeTasks(kaSystem)})
            /\ kaAt' = "prepare"
    /\ UNCHANGED <<kaSystem, kaLate, kaTodo, kaCopied, kaEntry, kaTarget,
                   kaDefault, kaReports>>

-----------------------------------------------------------------------------
(* addupgradebootentry.                                                       *)

(* construct_cmdline_args_for_livemode, for a configuration that is right.    *)
LiveArgs(s) ==
    {Bare("rw"),
     <<"upgrade.autostart", IF "no autostart" \in s.liveOptions THEN "0" ELSE "1">>}
       \cup (IF s.live = "network" THEN {}
             ELSE {<<"rd.live.dir", "/">>, <<"rd.live.squashimg", "image">>})
       \cup (IF "dracut network" \in s.liveOptions
             THEN {<<"ip", "ens3:dhcp">>, <<"rd.needsnet", "1">>} ELSE {})
       \cup (IF "strace" \in s.liveOptions THEN {<<"upgrade.strace", "file">>} ELSE {})

(* A dictionary: a later request for a key replaces the earlier ones.         *)
UpdatedSet(args, more) == args \cup more   \* mutant
Updated(args, more) == {a \in args : a[1] \notin Keys(more)} \cup more

UpgradeArgs(s, tasks) ==
    LET base == {<<"enforcing", "0">>, <<"rd.plymouth", "0">>,
                 <<"plymouth.enable", "0">>}
                  \cup (IF "debug" \in s.env THEN {Bare("debug")} ELSE {})
                  \cup (IF "network" \in s.env
                        THEN {<<"ip", "dhcp">>, <<"rd.neednet", "1">>} ELSE {})
        live == IF s.live = "no" THEN {} ELSE LiveArgs(s)
    IN  Updated(Updated(base, live), tasks.upAdd)

LiveUndesired(s) ==
    IF s.live = "no" THEN {}
    ELSE {Bare("ro"), Bare("rhgb"), Bare("quiet")}
           \cup ValuesOf("rd.lvm.lv", s.cmdline)
UndesiredArgs(s, tasks) == LiveUndesired(s) \cup tasks.upRemove

BootConfigs == Range(kaSystem.configs)
MainConfig == Head(kaSystem.configs)

(* _remove_old_upgrade_boot_entry: a failing grubby is only logged, and the   *)
(* configuration files after it keep their old entry.                         *)
PrepareEntry ==
    /\ kaAt = "prepare"
    /\ \E n \in 0 .. Len(kaSystem.configs) :
         kaEntry' = [c \in BootConfigs |->
             IF c \in Range(SubSeq(kaSystem.configs, 1, n)) THEN {} ELSE kaEntry[c]]
    /\ kaTodo' = kaSystem.configs /\ kaCopied' = FALSE
    /\ kaAt' = "entry"
    /\ UNCHANGED <<kaSystem, kaTasks, kaLate, kaTarget, kaDefault, kaReports>>

(* For each configuration file the entry is created with --copy-default and   *)
(* --args, and is the one that is booted, also next to an old one; another    *)
(* call takes the undesired arguments from it: in the first one --remove-args *)
(* would have no effect on what is copied.                                    *)
CreateEntry ==
    /\ kaAt = "entry" /\ kaTodo # <<>> /\ ~kaCopied
    /\ kaEntry' = [kaEntry EXCEPT ![Head(kaTodo)] =
                      Grubby(kaSystem.entry, UpgradeArgs(kaSystem, kaTasks), {})]
    /\ IF UndesiredArgs(kaSystem, kaTasks) = {}
       THEN kaTodo' = Tail(kaTodo) /\ UNCHANGED kaCopied
       ELSE kaCopied' = TRUE /\ UNCHANGED kaTodo
    /\ UNCHANGED <<kaSystem, kaAt, kaTasks, kaLate, kaTarget, kaDefault, kaReports>>

RemoveUndesired ==
    /\ kaAt = "entry" /\ kaCopied
    /\ kaEntry' = [kaEntry EXCEPT ![Head(kaTodo)] =
                      Grubby(@, {}, UndesiredArgs(kaSystem, kaTasks))]
    /\ kaTodo' = Tail(kaTodo) /\ kaCopied' = FALSE
    /\ UNCHANGED <<kaSystem, kaAt, kaTasks, kaLate, kaTarget, kaDefault, kaReports>>

(* A failing grubby stops the phase; the upgrade is run again after that.     *)
EntryCommandFails ==
    /\ kaAt = "entry" /\ kaTodo # <<>>
    /\ kaAt' = "prepare"
    /\ UNCHANGED <<kaSystem, kaTasks, kaLate, kaTodo, kaCopied, kaEntry, kaTarget,
                   kaDefault, kaReports>>

(* emit_removal_of_args_meant_only_for_upgrade_kernel                         *)
OnlyForUpgrade(s, tasks) ==
    UpgradeArgs(s, tasks)
        \ (UndesiredArgs(s, tasks) \cup s.cmdline \cup tasks.add)

FinishEntry ==
    /\ kaAt = "entry" /\ kaTodo = <<>>
    /\ kaLate' = OnlyForUpgrade(kaSystem, kaTasks)
    /\ kaAt' = "boot"
    /\ UNCHANGED <<kaSystem, kaTasks, kaTodo, kaCopied, kaEntry, kaTarget,
                   kaDefault, kaReports>>

-----------------------------------------------------------------------------
(* The upgrade boot and the target kernel.                                    *)

(* The package of the target kernel copies the arguments of the booted one.   *)
InstallTargetKernel ==
    /\ kaAt = "boot"
    /\ kaTarget' = kaEntry
    /\ \E known \in BOOLEAN :     \* InstalledTargetKernelInfo
         IF known THEN kaAt' = "configure" ELSE kaAt' = "unknown kernel"
    /\ UNCHANGED <<kaSystem, kaTasks, kaLate, kaTodo, kaCopied, kaEntry,
                   kaDefault, kaReports>>

(* retrieve_arguments_to_modify, without the requests that are not there.     *)
ToAdd == kaTasks.add
ToRemove == kaTasks.remove \cup kaLate

Configured(target) == [c \in DOMAIN target |-> Grubby(target[c], ToAdd, ToRemove)]

(* retrieve_args_for_default_kernel, set_default_kernel_args: what grubby     *)
(* lists for the target kernel becomes the default of future kernels; grubby  *)
(* may list no arguments or no root, which is reported.                       *)
DefaultArgs(target) == target[MainConfig]

ConfigureKernel ==
    /\ kaAt = "configure"
    /\ IF ToAdd \cup ToRemove = {}
       THEN UNCHANGED <<kaTarget, kaDefault, kaReports>>
       ELSE /\ kaTarget' = Configured(kaTarget)
            /\ \/ /\ DefaultArgs(kaTarget') # {}
                  /\ kaDefault' = DefaultArgs(kaTarget')
                  /\ UNCHANGED kaReports
               \/ /\ kaReports' = kaReports \cup {"not the default"}
                  /\ UNCHANGED kaDefault
    /\ kaAt' = "done"
    /\ UNCHANGED <<kaSystem, kaTasks, kaLate, kaTodo, kaCopied, kaEntry>>

(* A grubby call fails, in the end the one that lists the arguments, or       *)
(* /etc/kernel/cmdline cannot be written: the actor stops, some configuration *)
(* files or all of them are done, and the default may have been cut off.      *)
ConfigureFails ==
    /\ kaAt = "configure" /\ ToAdd \cup ToRemove # {}
    /\ \E n \in 0 .. Len(kaSystem.configs) :
         /\ kaTarget' = [c \in BootConfigs |->
                IF c \in Range(SubSeq(kaSystem.configs, 1, n))
                THEN Configured(kaTarget)[c] ELSE kaTarget[c]]
         /\ kaDefault' = kaDefault \/ (n = Len(kaSystem.configs) /\ kaDefault' = {})
    /\ kaAt' = "failed"
    /\ UNCHANGED <<kaSystem, kaTasks, kaLate, kaTodo, kaCopied, kaEntry, kaReports>>

KernelInit ==
    /\ kaSystem \in KernelSystems
    /\ kaAt = "checks" /\ kaTasks = NoTasks /\ kaLate = {}
    /\ kaTodo = <<>> /\ kaCopied = FALSE
    /\ kaEntry = [c \in BootConfigs |-> {}] /\ kaTarget = [c \in BootConfigs |-> {}]
    /\ kaDefault = kaSystem.entry /\ kaReports = {}

KernelNext ==
    \/ KernelChecks \/ PrepareEntry
    \/ CreateEntry \/ RemoveUndesired \/ EntryCommandFails \/ FinishEntry
    \/ InstallTargetKernel \/ ConfigureKernel \/ ConfigureFails

KernelSpec == KernelInit /\ [][KernelNext]_kaVars

-----------------------------------------------------------------------------
(* Properties.                                                                *)

KernelArgsTypeOK ==
    /\ IsKernelSystem(kaSystem)
    /\ kaAt \in {"checks", "inhibited", "prepare", "entry", "boot", "configure",
                 "unknown kernel", "failed", "done"}
    /\ DOMAIN kaTasks = DOMAIN NoTasks
    /\ Range(kaTodo) \subseteq BootConfigs /\ kaCopied \in BOOLEAN
    /\ DOMAIN kaEntry = BootConfigs /\ DOMAIN kaTarget = BootConfigs
    /\ \A c \in BootConfigs : \A a, b \in kaEntry[c] :   \* a dictionary is added
         a[1] = b[1] => a = b \/ {a, b} \subseteq kaSystem.entry
    /\ kaReports \subseteq {"not the default"}

(* UpgradeKernelCmdlineArgTasks: what is in to_remove is guaranteed not to be *)
(* on the upgrade entry, in whatever message it was also asked for, and       *)
(* neither is what the live image cannot be booted with.                      *)
RemovalWins ==
    kaAt \in {"boot", "configure", "done"} =>
        \A c \in BootConfigs : \A a \in kaEntry[c] :
            ~Taken(a, UndesiredArgs(kaSystem, kaTasks))

(* The target kernel takes over the arguments of the upgrade kernel; in the   *)
(* end it has only what the source had or an actor asked for: no enforcing=0, *)
(* no live image, no network of the initramfs.                                *)
NothingLeftOfTheUpgrade ==
    kaAt = "done" =>
        \A c \in BootConfigs : kaTarget[c] \subseteq
            kaSystem.cmdline \cup kaSystem.entry \cup kaTasks.add

(* An argument of the default entry survives, unless its removal from the     *)
(* target was asked for, leapp sets the same key, or the live image cannot    *)
(* have it: what is taken for the upgrade alone has to be given back.         *)
ArgumentsSurvive ==
    kaAt = "done" =>
        \A c \in BootConfigs, a \in kaSystem.entry :
            \/ a \in kaTarget[c]
            \/ Taken(a, kaTasks.remove) \/ Taken(a, LiveUndesired(kaSystem))
            \/ a[1] \in Keys(UpgradeArgs(kaSystem, kaTasks) \cup kaTasks.add)

(* A BIOS system with a mounted EFI partition has two configuration files:    *)
(* the target kernel is booted with the same arguments from either.           *)
FilesAgree ==
    kaAt = "done" => \A c, d \in BootConfigs : kaTarget[c] = kaTarget[d]

(* The kernels installed later start as the target kernel does; otherwise     *)
(* the administrator was told.                                                *)
LaterKernelsAlike ==
    (kaAt = "done" /\ ToAdd \cup ToRemove # {}) =>
        (kaDefault = kaTarget[MainConfig] \/ "not the default" \in kaReports)

(* What checks, boot entry and kernel configuration promise together: the     *)
(* upgrade is booted without the arguments that would stop it, and the        *)
(* target, from whichever configuration file, with those of the source and    *)
(* what actors asked for, no more and no less.                                *)
TargetBootsAsTheSource ==
    /\ RemovalWins
    /\ NothingLeftOfTheUpgrade
    /\ ArgumentsSurvive
    /\ FilesAgree
    /\ LaterKernelsAlike
=============================================================================
