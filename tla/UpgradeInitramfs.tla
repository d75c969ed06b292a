--------------------------- MODULE UpgradeInitramfs ---------------------------
(* The upgrade initramfs and the initramfs of the target.                     *)
(*                                                                            *)
(* Actors ask for dracut modules, kernel modules and files; a module may come *)
(* with a path, from where it is copied, and is asked for by name only if it  *)
(* has none.  checkinitramfstasks looks for conflicts among the requests; the *)
(* upgrade initramfs is generated in the target userspace container and taken *)
(* to /boot with a kernel and its HMAC, one file after the other; after the   *)
(* transaction the target kernel is identified and its initramfs is           *)
(* generated again.  A module is stored under its name (the base name of its  *)
(* path); a file is a pair <<directory, name>>, a directory a 1-tuple.        *)
EXTENDS Naturals, Sequences, SequencesExt, FiniteSets, TLC

CONSTANTS
    InitramfsSystems,    \* the systems to upgrade, see IsInitramfsSystem
    MaxInitramfsRuns     \* bound: runs of `leapp upgrade`

InSystem == "system"     \* the module of the system, for the lack of a path
OtherPaths == {"a", "b"}
BootParts == {"kernel", "image", "hmac"}
NoKernel == [type |-> "none", wide |-> FALSE, major |-> "none"]
(* How the release of a kernel ends, up to 9.2 and later.                     *)
Unames(old) == {"plain", "+64k"} \cup (IF old THEN {".rt"} ELSE {"+rt", "+rt-64k"})
KernelPackages ==
    [type : {"ordinary", "realtime"}, wide : BOOLEAN, major : {"source", "target"}]
ModuleRequests ==                                  \* old: UpgradeDracutModule
    {r \in [msg : {"old", "upgrade", "target"}, kind : {"dracut", "kernel"},
            name : STRING, path : OtherPaths \cup {InSystem}] :
        r.msg = "old" => r.kind = "dracut"}

IsInitramfsSystem(s) ==
    /\ s.requests \in Seq(ModuleRequests)
    /\ s.copies \in Seq(Seq(STRING))
    /\ \A i \in DOMAIN s.copies : Len(s.copies[i]) \in {1, 2}  \* CopyFile.dst
    /\ \A f \in s.files \cup s.provided : Len(f) = 2  \* include_files; of packages
    /\ s.packaged \cap s.drivers = {}     \* dracut modules, drivers of the target
    /\ s.live \in BOOLEAN /\ s.raid \in BOOLEAN /\ s.lowSpace \in BOOLEAN
    /\ s.containerKernels \in 0 .. 2
    /\ s.running \in s.kernels /\ s.s390 \in BOOLEAN  \* releases of the source's
    /\ s.oldNames \in BOOLEAN /\ s.uname \in Unames(s.oldNames)  \* 9.2 or older
    /\ s.wide \in BOOLEAN                       \* 64k pages on aarch64
    /\ s.installed \in Seq(KernelPackages)       \* by the transaction, in order

ASSUME InitramfsAssumption ==
    /\ MaxInitramfsRuns \in Nat \ {0}
    /\ \A s \in InitramfsSystems : IsInitramfsSystem(s)

VARIABLES
    inSystem,     \* the system, one of InitramfsSystems
    inAt,         \* where the upgrade is
    inRun,        \* the number of the run
    inFiles,      \* file in the container -> where it is from
    inCopied,     \* the number of files that have been copied from the host
    inTodo,       \* what is still to be done for the boot files
    inArtifacts,  \* what the generator has left in the container
    inImage,      \* what the upgrade initramfs has
    inBoot,       \* part of BootParts -> the run it is from (0: none)
    inKernel,     \* InstalledTargetKernelInfo
    inTarget      \* what the target initramfs has

inVars == <<inSystem, inAt, inRun, inFiles, inCopied, inTodo, inArtifacts,
            inImage, inBoot, inKernel, inTarget>>

NoImage == [dracut |-> {}, kernel |-> {}, files |-> {}]

(* commonleappdracutmodules: leapp's own dracut modules are asked for in the  *)
(* deprecated and in the new message; not in live mode.                       *)
OwnRequests ==
    LET own(m) == [msg |-> m, kind |-> "dracut", name |-> "leapp", path |-> "a"]
    IN  IF inSystem.live THEN <<>> ELSE <<own("old"), own("upgrade")>>
AllRequests == OwnRequests \o inSystem.requests

(* The requests of one kind in the messages.                                  *)
Requests(messages, kind) ==
    {r \in ToSet(AllRequests) : r.msg \in messages /\ r.kind = kind}
ForUpgrade == {"old", "upgrade"}
ForTarget == {"target"}
Requested(messages, kind) == {r.name : r \in Requests(messages, kind)}

-----------------------------------------------------------------------------
(* checkinitramfstasks: one module asked for from several paths.              *)

PathsOf(name, messages, kind) ==
    {r.path : r \in {q \in Requests(messages, kind) : q.name = name}}
Conflicts(messages, kind) ==
    {n \in Requested(messages, kind) : Cardinality(PathsOf(n, messages, kind)) > 1}
InConflict ==
    \/ Conflicts({"upgrade"}, "kernel") # {}
    \/ Conflicts({"upgrade"}, "dracut") # {}
    \/ Conflicts(ForTarget, "dracut") # {}

(* checkinstalledkernels: booted into the newest one; on s390x the only one.  *)
KernelsUnsafe ==
    \/ inSystem.s390 /\ Cardinality(inSystem.kernels) > 1
    \/ \E k \in inSystem.kernels : k > inSystem.running

CheckInitramfsTasks ==
    /\ inAt = "checks"
    /\ inAt' = IF InConflict \/ KernelsUnsafe THEN "inhibited" ELSE "userspace"
    /\ UNCHANGED <<inSystem, inRun, inFiles, inCopied, inTodo, inArtifacts, inImage,
                   inBoot, inKernel, inTarget>>

-----------------------------------------------------------------------------
(* The container: packages first, then files of the host.                     *)

(* A directory is removed before it is copied, with what is in it.            *)
CopyOne(files, dst) ==
    LET kept == IF Len(dst) = 1 THEN {f \in DOMAIN files : f[1] # dst[1]}
                                ELSE DOMAIN files
        new == IF Len(dst) = 1 THEN {<<dst[1], "own">>} ELSE {dst}
    IN  [f \in kept \cup new |-> IF f \in new THEN "host" ELSE files[f]]

RpmFiles(provided) == [f \in provided |-> "rpm"]

(* The HMAC is of the kernel that is copied; in live mode both are taken from *)
(* the container before the image is generated.                               *)
BootFileSteps ==
    IF inSystem.live THEN <<"kernel", "hmac", "generate", "image">>
                     ELSE <<"generate", "kernel", "image", "hmac">>

(* The deprecated and the new message of leapp's own modules ask for the same *)
(* packages and files: sets, and unique pairs in the order of the messages.   *)
InstallInitramDeps ==
    /\ inAt = "userspace"
    /\ \/ inFiles' = RpmFiles(inSystem.provided) /\ inAt' = "copying"
       \/ inAt' = "stopped" /\ UNCHANGED inFiles                \* dnf fails
    /\ UNCHANGED <<inSystem, inRun, inCopied, inTodo, inArtifacts, inImage, inBoot,
                   inKernel, inTarget>>

CopyHostFile ==
    /\ inAt = "copying" /\ inCopied < Len(inSystem.copies)
    /\ \/ /\ inFiles' = CopyOne(inFiles, inSystem.copies[inCopied + 1])
          /\ inCopied' = inCopied + 1 /\ UNCHANGED inAt
       \/ inAt' = "stopped" /\ UNCHANGED <<inFiles, inCopied>>
    /\ UNCHANGED <<inSystem, inRun, inTodo, inArtifacts, inImage, inBoot,
                   inKernel, inTarget>>

StartBootFiles ==
    /\ inAt = "copying" /\ inCopied = Len(inSystem.copies)
    /\ inTodo' = BootFileSteps
    /\ inAt' = IF \/ ~inSystem.live /\ inSystem.lowSpace
                  \/ inSystem.containerKernels # 1
               THEN "stopped" ELSE "boot files"
    /\ UNCHANGED <<inSystem, inRun, inFiles, inCopied, inArtifacts, inImage, inBoot,
                   inKernel, inTarget>>

(* _copy_modules: into an empty directory, the first of a name; the requests  *)
(* of the deprecated message come first.                                      *)
Sources(messages, kind, name) ==
    {i \in DOMAIN AllRequests :
        LET r == AllRequests[i]
        IN  r \in Requests(messages, kind) /\ r.name = name /\ r.path # InSystem}
FirstOf(places) ==
    LET old == {i \in places : AllRequests[i].msg = "old"}
    IN  AllRequests[Min(IF old # {} THEN old ELSE places)]
Staged(messages, kind) ==
    [n \in {r.name : r \in {q \in Requests(messages, kind) : q.path # InSystem}} |->
        FirstOf(Sources(messages, kind, n)).path]
Origins(names) == [n \in names |-> InSystem]
Over(f, g) ==
    [n \in DOMAIN f \cup DOMAIN g |-> IF n \in DOMAIN f THEN f[n] ELSE g[n]]

(* What dracut and depmod find.  The generator script copies the staged       *)
(* dracut modules over those of the packages and runs depmod; live mode       *)
(* calls dracut without it.                                                   *)
DracutKeptFirst == Over(Origins(inSystem.packaged), Staged(ForUpgrade, "dracut"))   \* mutant
DracutFound ==
    IF inSystem.live THEN Origins(inSystem.packaged)
    ELSE Over(Staged(ForUpgrade, "dracut"), Origins(inSystem.packaged))
DriversFound ==
    IF inSystem.live THEN Origins(inSystem.drivers)
    ELSE Over(Staged(ForUpgrade, "kernel"), Origins(inSystem.drivers))

(* dracut only logs what it does not find.                                    *)
Included(found, names) == {<<n, found[n]>> : n \in names \cap DOMAIN found}
RaidConf == <<"cmdline.d", "leapp">>
UpgradeImage ==
    [dracut |-> Included(DracutFound, Requested(ForUpgrade, "dracut")),
     kernel |-> Included(DriversFound, Requested(ForUpgrade, "kernel")),
     files |-> (inSystem.files \cap DOMAIN inFiles)
                 \cup (IF inSystem.raid THEN {RaidConf} ELSE {})]

(* The script ends without an error if only a copy or dracut fails: then the  *)
(* files are missing in the directory it has emptied before.                  *)
Generate ==
    /\ inAt = "boot files" /\ inTodo # <<>> /\ Head(inTodo) = "generate"
    /\ \/ /\ inSystem.live \/ Requested(ForUpgrade, "dracut") # {}
          /\ inArtifacts' \in (IF inSystem.live THEN {BootParts}
                                                ELSE SUBSET BootParts)
          /\ inImage' = UpgradeImage
          /\ inTodo' = Tail(inTodo)
          /\ UNCHANGED inAt
       \/ inAt' = "stopped" /\ UNCHANGED <<inTodo, inArtifacts, inImage>>
    /\ UNCHANGED <<inSystem, inRun, inFiles, inCopied, inBoot, inKernel, inTarget>>

Available(part) == part \in inArtifacts \/ (inSystem.live /\ part # "image")

(* One part is copied to /boot; the HMAC is rewritten for the other name of   *)
(* the kernel, and only a single line is expected.                            *)
CopyBootFile ==
    /\ inAt = "boot files" /\ inTodo # <<>> /\ Head(inTodo) \in BootParts
    /\ \/ /\ Available(Head(inTodo))
          /\ inBoot' = [inBoot EXCEPT ![Head(inTodo)] = inRun]
          /\ inTodo' = Tail(inTodo)
          /\ UNCHANGED inAt
       \/ inAt' = "stopped" /\ UNCHANGED <<inBoot, inTodo>>
    /\ UNCHANGED <<inSystem, inRun, inFiles, inCopied, inArtifacts, inImage, inKernel,
                   inTarget>>

FinishBootFiles ==
    /\ inAt = "boot files" /\ inTodo = <<>>
    /\ inAt' = "prepared"                                     \* BootContent
    /\ UNCHANGED <<inSystem, inRun, inFiles, inCopied, inTodo, inArtifacts, inImage,
                   inBoot, inKernel, inTarget>>

(* The next run starts with a new userspace, but with what /boot has.         *)
RunAgain ==
    /\ inAt \in {"stopped", "prepared"} /\ inRun < MaxInitramfsRuns
    /\ inRun' = inRun + 1 /\ inAt' = "checks"
    /\ inFiles' = RpmFiles({}) /\ inCopied' = 0 /\ inTodo' = <<>>
    /\ inArtifacts' = {} /\ inImage' = NoImage
    /\ UNCHANGED <<inSystem, inBoot, inKernel, inTarget>>

-----------------------------------------------------------------------------
(* After the transaction.                                                     *)

SourceType ==
    LET ends == IF inSystem.oldNames THEN {".rt"} ELSE {"+rt", "+rt-64k"}
    IN  IF inSystem.uname \in ends THEN "realtime" ELSE "ordinary"

(* rpm -q of the core package of a variant, in the order of installation: the *)
(* first one of the target.                                                   *)
OfType(type) ==
    {i \in DOMAIN inSystem.installed :
        inSystem.installed[i].type = type /\ inSystem.installed[i].wide = inSystem.wide}
TargetKernel(type) ==
    LET found == {i \in OfType(type) : inSystem.installed[i].major = "target"}
    IN  IF found = {} THEN NoKernel ELSE inSystem.installed[Min(found)]

(* The kernel of the source's type, else the ordinary one; no message if      *)
(* there is none or its version is not determined, an error if its files      *)
(* are not in /boot.                                                          *)
ScanTargetKernel ==
    /\ inAt = "prepared"
    /\ \/ /\ inKernel' = (IF TargetKernel(SourceType) # NoKernel
                          THEN TargetKernel(SourceType)
                          ELSE TargetKernel("ordinary"))
          /\ inAt' = "upgraded"
       \/ inKernel' = NoKernel /\ inAt' = "upgraded"
       \/ inKernel' = NoKernel /\ inAt' = "failed"
    /\ UNCHANGED <<inSystem, inRun, inFiles, inCopied, inTodo, inArtifacts, inImage,
                   inBoot, inTarget>>

(* targetinitramfsgenerator: what the system has is not replaced; depmod only *)
(* if a module was copied; dracut always.                                     *)
NeedsDepmod ==
    \E r \in Requests(ForTarget, "kernel") : r.path # InSystem
TargetDrivers ==
    Over(IF NeedsDepmod THEN Staged(ForTarget, "kernel") ELSE Origins({}),
         Origins(inSystem.drivers))
TargetImage ==
    [dracut |-> Included(Over(Origins(inSystem.packaged), Staged(ForTarget, "dracut")),
                         Requested(ForTarget, "dracut")),
     kernel |-> Included(TargetDrivers, Requested(ForTarget, "kernel")),
     files |-> {}]                                     \* --install is left out

GenerateTargetInitramfs ==
    /\ inAt = "upgraded"
    /\ \/ /\ inKernel # NoKernel
          /\ inTarget' = TargetImage /\ inAt' = "done"
       \/ inAt' = "failed" /\ UNCHANGED inTarget   \* no kernel, depmod, dracut
    /\ UNCHANGED <<inSystem, inRun, inFiles, inCopied, inTodo, inArtifacts, inImage,
                   inBoot, inKernel>>

InitramfsInit ==
    /\ inSystem \in InitramfsSystems
    /\ inAt = "checks" /\ inRun = 1 /\ inFiles = RpmFiles({}) /\ inTodo = <<>>
    /\ inCopied = 0 /\ inArtifacts = {} /\ inImage = NoImage /\ inTarget = NoImage
    /\ inBoot = [p \in BootParts |-> 0] /\ inKernel = NoKernel

InitramfsNext ==
    \/ CheckInitramfsTasks \/ InstallInitramDeps \/ CopyHostFile \/ StartBootFiles
    \/ Generate \/ CopyBootFile \/ FinishBootFiles \/ RunAgain
    \/ ScanTargetKernel \/ GenerateTargetInitramfs

InitramfsSpec == InitramfsInit /\ [][InitramfsNext]_inVars

-----------------------------------------------------------------------------
(* Properties.                                                                *)

InitramfsTypeOK ==
    /\ IsInitramfsSystem(inSystem)
    /\ inAt \in {"checks", "inhibited", "userspace", "copying", "stopped",
                 "boot files", "prepared", "upgraded", "failed", "done"}
    /\ inRun \in 1 .. MaxInitramfsRuns
    /\ \A f \in DOMAIN inFiles : Len(f) = 2 /\ inFiles[f] \in {"rpm", "host"}
    /\ inCopied \in 0 .. Len(inSystem.copies)
    /\ IsSuffix(inTodo, BootFileSteps) /\ inArtifacts \subseteq BootParts
    /\ \A p \in BootParts : inBoot[p] \in 0 .. inRun

(* prepare_userspace_for_initram: what is copied from the host is not         *)
(* overwritten in the transaction - a file that was asked for is the host's,  *)
(* and gone only if a directory request removed it.                           *)
HostFilesWin ==
    inAt \in {"boot files", "prepared"} =>
        \A dst \in ToSet(inSystem.copies) :
            /\ Len(dst) = 2 =>
                 \/ dst \in DOMAIN inFiles /\ inFiles[dst] = "host"
                 \/ <<dst[1]>> \in ToSet(inSystem.copies)
            /\ Len(dst) = 1 => \A f \in DOMAIN inFiles :
                 f[1] = dst[1] => inFiles[f] = "host"

(* Whatever was left in /boot by earlier runs, stopped between two files: a   *)
(* prepared machine boots kernel and initramfs of one build, and the HMAC the *)
(* kernel is checked with (FIPS) is that of this kernel.                      *)
UpgradeBootsOneBuild ==
    inAt = "prepared" => \A p \in BootParts : inBoot[p] = inRun

(* A module asked for from a path is in the upgrade initramfs, and from this  *)
(* path even if the packages have it too - unless the deprecated message      *)
(* named another path, which no check looks at.  (Not in live mode.)          *)
RequestedAreIncluded ==
    (inAt = "prepared" /\ ~inSystem.live) =>
        \A r \in ToSet(AllRequests) :
            (r.msg \in ForUpgrade /\ r.path # InSystem) =>
                \/ <<r.name, r.path>> \in inImage[r.kind]
                \/ \E q \in ToSet(AllRequests) :
                     q.msg = "old" /\ q.name = r.name /\ q.path # r.path

(* A module asked for the target is in its initramfs whenever anything has    *)
(* it; a module of the system is not replaced, and of several paths the first *)
(* one counts.                                                                *)
TargetIncludesRequested ==
    inAt = "done" =>
        \A r \in ToSet(AllRequests) :
            (r.msg = "target" /\ r.path # InSystem) =>
                \E p \in OtherPaths \cup {InSystem} :
                    <<r.name, p>> \in inTarget[r.kind]

(* The target kernel is one of the target, with the page size of the source;  *)
(* if several are installed, one of the type of the source, however its       *)
(* release was spelled and in whatever order they were installed.             *)
KernelOfTheTarget ==
    inKernel # NoKernel =>
        /\ inKernel.major = "target" /\ inKernel.wide = inSystem.wide
        /\ \A k \in ToSet(inSystem.installed) :
             (k.major = "target" /\ k.wide = inSystem.wide) =>
                 \/ inKernel.type = k.type
                 \/ inKernel.type = "realtime" <=>
                      inSystem.uname \in {".rt", "+rt", "+rt-64k"}

(* Both initramfs are built from what was asked for: kernel, initramfs and    *)
(* modules of one build, the requested files, dracut and kernel modules in    *)
(* them, and no version of another kernel.                                    *)
InitramfsIsComplete ==
    /\ HostFilesWin
    /\ UpgradeBootsOneBuild
    /\ RequestedAreIncluded
    /\ TargetIncludesRequested
    /\ KernelOfTheTarget
=============================================================================
