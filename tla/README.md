# Verification of leapp-repository

TLA+ models of the in-place upgrade (IPU) in this repository, checked with TLC
on small instances and, for the core, proved with TLAPS for every value of the
constants. The code is the reference: every definition is a translation of the
lines that `PROJECT.json` names under `map`. Paths below are relative to `src/`;
`actors/` is short for `repos/system_upgrade/common/actors/`, `libraries/` for
`repos/system_upgrade/common/libraries/`.

## 1. Inventory

An upgrade is one workflow, `IPUWorkflow`, of 15 phases. Some 170 actors are
tagged with a phase; they communicate only through messages stored in
`leapp.db`. The workflow is cut in three by reboots: the source system runs the
phases up to InterimPreparation, an upgrade initramfs (the *interim system*)
runs InitRamStart to Finalization, and the target system runs FirstBoot.

| part | state it keeps | operations | what is hard |
|---|---|---|---|
| **lifecycle** `commands/`, `workflows/inplace_upgrade.py` | executions, checkpoints and messages in `leapp.db` | `upgrade`, `upgrade --resume`, `preupgrade`, `rerun` | the process ends on purpose and by accident; which execution and phase is resumed; the database is not synced by default |
| **boot environment** `actors/addupgradebootentry`, `removeupgradebootentry`, `removebootfiles`, `initramfs/upgradeinitramfsgenerator`, `forcedefaultboot…` | boot loader entry and default, kernel and initramfs in `/boot` | create, make default, remove, overwrite | several external commands in a row that fail half way; entry and files must go in the right order |
| **interim system** `actors/commonleappdracutmodules/files/dracut` | position in `do-upgrade.sh`, failed flag | two runs of leapp, flag, reboot, emergency shell | a second interpreter; restart by leaving the shell; reboot in any case |
| **resume service** `actors/createresumeservice`, `removeresumeservice`, `preparepythonworkround` | enabled symlink, `/root/tmp_leapp_py3` | enable, start once per boot, disable | leftovers of an earlier attempt |
| **transaction** `actors/dnfupgradetransaction`, `dnfpackagedownload`, `dnfdryrun`, `targetuserspacecreator`, `libraries/dnflibs` | installed packages, target userspace | download, dry run, upgrade | fails before, in the middle, or after the last package |
| **target content** `actors/targetcontentresolver`, `filterrpmtransactionevents` | sets of packages with PES ids, blocklist, tasks | apply PES events release by release, map, block, combine with the user's instructions | order of events, module streams, equality that ignores the repository |
| **repository mapping** `repomap_calc.py`, `repomap_loader.py` | mapping data | best target repository for a PES id | priorities of channel, cloud, distro |
| **mounts and overlay** `libraries/mounting.py`, `overlaygen.py` | mount table, disk images | nested context managers | failure in the middle, leftovers of a killed run, shared propagation |
| **dnf plugin** `libraries/dnflibs/dnfplugin.py`, `files/rhel_upgrade.py` | configuration of the stages | check, download, dry-run, upgrade | the stages must agree |
| **subscription, RHUI** `libraries/rhsm.py`, `rhui.py` | registration, container mode, clients | attach, set release, swap clients | retries, partial failure |
| **GPG keys** `libraries/gpg.py`, `actors/missinggpgkeysinhibitor` | trusted keys | collect, import, remove obsolete | which file or key is trusted |
| **systemd services** `libraries/systemd.py`, `actors/systemd` | states and presets before and after | restore or follow the preset | three inputs per service |
| **live mode** `actors/livemode` | squashfs image, second do-upgrade | a second way into the interim system | experimental |
| **kernel arguments** `actors/addupgradebootentry`, `kernelcmdlineconfig`, the checks that ask for arguments | arguments of the upgrade entry, of the target kernel, of kernels to come | grubby, command by command and configuration by configuration | what the upgrade needs must not stay, what the user has must not go |
| **EFI boot entries** `libraries/efi_reboot_fix.py`, `actors/addarmbootloaderworkaround`, `convert/updateefi` | entries, BootOrder, BootNext, BootCurrent | efibootmgr in four actors of three phases | boot numbers are given out again, the order of actors is open |
| **upgrade path** `command_utils.py`, `actors/ipuworkflowconfig`, `libraries/config/version.py` | configuration of the workflow | choose and check the target release | one table read in two ways, versions without a minor |
| **multipath** `actors/multipath` of both upgrades | configuration files, their updates | read, update, copy, patch | files at places their configuration names |
| **devices and drivers** `actors/pcidevicesscanner`, `scancpu`, `detectkerneldrivers`, `checkdddd` | data of an asset | match the hardware with the best entry | an asset for another leapp, two actors for one driver |
| **other checks, scanners, migrations** | none beyond messages | read facts, report, edit a file | independent small programs |

Interactions. A phase is a barrier: its actors run (in the order of their
messages) before the next phase begins. `BootContent` ties the generator of the
initramfs to the actors that add and remove the boot entry and the files.
`TargetUserSpaceInfo` ties the userspace to download, dry run and transaction.
`RpmTransactionTasks` (user and actors) feeds both the PES scanner and, with
the scanner's `PESRpmTransactionTasks`, the filter whose result dnf executes.
`TargetRepositories` goes from the resolver to the userspace creator, and
`UsedTargetRepositories` from there to every stage of the transaction.
`UpgradeKernelCmdlineArgTasks` and `TargetKernelCmdlineArgTasks`, the tasks for
the two initramfs, `SystemdServicesTasks` and the requests for files and packages
in the userspace collect what many actors want for one that carries it out. Across a
reboot only the disk counts: `leapp.db`, the boot loader, `/boot`, the RPM
database, `/root/tmp_leapp_py3` and the systemd symlink.

What makes each part correct is stated as properties in section 3; what could
go wrong, line by line, is the list `hazards` of `PROJECT.json`.

## 2. Modules

| module | what it is |
|---|---|
| `IPULifecycle` | the life of an upgrade across reboots: commands, phases, checkpoints, boot entry, `do-upgrade.sh`, resume service, power losses |
| `InPlaceUpgrade` | the abstract upgrade: which system runs, is the upgrade armed, what is installed, is it finished |
| `IPULifecycleProofs` | the inductive invariant of the lifecycle and the theorems that need nothing else |
| `IPULifecycleRefinement` | boot entry, boot files, and the lifecycle implementing `InPlaceUpgrade` |
| `IPULifecyclePreparation` | a finished preparation has prepared everything, and a failing one leaves a machine that boots |
| `MCIPULifecycle` | the lifecycle for TLC; configurations `lifecycle*.cfg` and `flag_rerun.cfg` |
| `TargetContent` | the target content resolver and the filter of its tasks |
| `TargetContentProofs` | the inductive invariant of the computation and all its properties, for every input |
| `MCTargetContent` | its inputs for TLC; `content.cfg`, and `excluded_repo.cfg` for a claim that does not hold |
| `SourceOverlay` | the overlay of the source system: disk images, nested mounts, cleanup, killed processes |
| `TargetUserspace` | the creator of the target userspace, at work in an overlay (extends `SourceOverlay`) |
| `TransactionStages` | check, download, dry run and upgrade of the transaction (extends `TargetUserspace`) |
| `SourceOverlayProofs`, `TransactionStagesProofs` | their inductive invariants, and from them every property of the run `userspace` |
| `MCTargetUserspace` | systems for TLC; `userspace.cfg` and `rhui_repofile.cfg` |
| `KernelArguments`, `UpgradeBootOrder`, `UpgradeInitramfs`, `ContentAccess`, `UpgradePath`, `SystemdServices`, `PackageKeys`, `RepositoryMap`, `MultipathConfig`, `DeviceSupport`, `LiveMode` | the actors around the core, one component each (section 2.5) |
| `UpgradeEnvironmentProofs` | proofs about live mode, the boot order, kernel arguments, the initramfs and multipath |
| `UpgradePathTable` | the upgrade paths leapp is delivered with, for `UpgradePath` |
| `UpgradeActorsProofs` | proofs about services, devices, keys, access to the content, the repository map and the upgrade path, and about all actors together |
| `MCUpgradeActors` | these components for TLC; `actors.cfg`, `arm_conversion.cfg`, `overridden_presets.cfg`, `live_network.cfg` |

### 2.1 IPULifecycle

State. `host` is what the machine runs (`os`, the upgrade initramfs `initram`,
its `emergency` shell, `off`, or `broken` at the boot loader). `run` is the one
leapp process: the execution it works on, the phase, the actors of that phase
still to run, and what they have asked for. `script` is the line `do-upgrade.sh`
is at. `db` is the sequence of executions with their last checkpoint and
whether they hold a `BootContent` message; `durable` is the part of it a power
loss leaves. `pkgs`, `entry`, `default`, `bootFiles`, `userspace`, `home`
(`/root/tmp_leapp_py3`), `svc` are the disk; `svcJob` is a service systemd has
still to start in this boot.

Actions.

* `LeappUpgrade`, `LeappUpgradeResume`, `LeappPreupgrade`, `LeappRerun` are the
  commands. `IsLastUpgrade` is `fetch_last_upgrade_context`: the newest
  execution of kind `upgrade`, so a `rerun` is never resumed. `Synced` is
  `disable_database_sync`, which only `upgrade` without `--resume` and
  `preupgrade` call.
* `BeginPhase`, `PhaseEnds`, `PhaseFails`, `NothingToDo` and `ActorEnds` are
  `Workflow.run` of the leapp framework, which is not in this repository. They
  follow from how the repository uses it: phases with policies and flags in
  `inplace_upgrade.py`, `skip_phases_until`, `RequestStopAfterPhase`,
  `StopActorExecutionError`. They are marked external. When the checkpoint of a
  phase is written is not visible from here, so both readings are a constant,
  `CheckpointEarly`.
* One action per actor that changes this state. Each ends `ok`, with an `error`
  (`StopActorExecutionError`) or with a `crash`, and leaves what the code may
  leave then: a truncated initramfs, an entry added although zipl has failed, a
  half-done transaction. An outcome other than `ok` that nothing in the state
  explains costs one of `MaxFaults`. `RemoveBootFiles` removes kernel, initramfs and
  HMAC independently and only logs what cannot be removed, so some of them may
  stay. The boot loader is the one `grubby` and `zipl` write: the separate BLS
  directory of ARM, for which `remove_boot_entry` returns before grubby, is in
  `UpgradeBootOrder`.
* `RunLeapp`, `RunLeapp3`, `SetFailedFlag`, `ServiceEnds`, `EmergencyExit` are
  `do-upgrade.sh` with `upgrade.service`. `/usr/bin/leapp` is taken to fail once
  all packages are those of the target system (its Python is gone, which is why
  `preparepythonworkround` exists); with packages half-way it may do either.
* `PowerOn`, `PickOtherEntry`, `PowerLoss`, `Shutdown`: firmware and operator.

Actors that do not touch this state (checks, scanners, migrations) are not
there: a phase without a named actor only ends. `verify_check_results` stops the
process or not, for all the inhibitors there may be.

### 2.2 InPlaceUpgrade and the refinement mapping

The abstract upgrade has no process, phase or file. It says that packages change
only in the interim system and only once the upgrade entry is gone, never back
from `target`; that the interim system is entered through an armed entry only;
and that the upgrade finishes on the booted target system. The mapping is
`world <- World` (from `host`), `armed <- entry`, `system <- pkgs`,
`finished <- UpgradeFinished` (an `upgrade` execution has its FirstBoot
checkpoint).

### 2.3 TargetContent

A sequential computation over one set of consumed messages, `input`. A Python
set of `Package`s becomes a function from (name, stream), which is all that
`Package.__eq__` compares, to the repository; `Plus` is `set.union`, where the
left element stays. `Prepare` applies the user's instructions, `NextRelease` and
`ApplyEvent` are the loops over releases and events (in the order of the cleaned
event list), `ProduceTasks` is the rest of `scan_pes_events`: modules left at the
major version, PES ids mapped, blocklist applied, tasks by name. Then
`SetupTargetRepos` and, in a later phase, `FilterRpmTransactionTasks`.
Releases are numbers; `Crossing` is the first one of the target major version.
What the repository mapping answers (`map`, `expected`, `crb`) is an input.
An event may have no packages to start from; it then fires always, as `all` of an
empty list does. `FilterRpmTransactionTasks` takes the RHUI clients of the source
(`clients`) as signed by the distribution and passes on the modules to enable and to
reset. The JSON files and the expansion of modulestream maps into events come
before.

### 2.4 SourceOverlay, TargetUserspace, TransactionStages

Three modules, each extending the one before: the overlay does not know its user,
the creator uses it once, each stage of the transaction once more.

`SourceOverlay` is `create_source_overlay` with the context managers it nests.
`mode` is where the function is (`prepare`, `in`, `out of`, `cleanup`, `out`),
`task` what it was called with, `left` the mount points whose image is not used
yet, `stack` the context managers entered, and `attached` what is really mounted,
each mount with the call that made it. `PrepareImages` makes the disk images
(`SizeOf` is the arithmetic of `_prepare_required_mounts`, in MiB),
`EnterMount` is `MountingBase.__enter__` with its `_cleanup` of a former mount,
`Unwind` leaves the innermost context manager, `CleanupScratch` is
`cleanup_scratch`, `Killed` ends the process and leaves everything mounted.
Every `umount -fl` may fail, which is only logged; the `rm -rf` after it then
empties the host's directory (`lost`). Both cost one of `MaxFaults`.

`TargetUserspace` is `userspacegen.perform` from `MountIso` over `SetupRhuiAccess`,
`GatherDistroRepos`, `SelectRepos`, `RemoveUserspace`, `InstallUserspace`,
`PrepRepositoryAccess` to `ProduceUserspace`, one action per step between two
results that can end it. A directory `yum.repos.d` is a function from files to the
repoids they define; `scratch` and `repofiles` are those of the scratch
container and of the userspace.

`TransactionStages` adds `stage` and `step`, the plugin data in the userspace
(`data`), the packages in `/var/cache/dnf` (`cached`) and the two `dnf.conf`. An
execution that fails may be followed by another one, which finds what is left.
What DNF resolves is a choice.

### 2.5 The actors around the core

The eleven modules do not share state: they are programs of their own, called in
certain phases, which exchange messages with actors that need no model. Each has
a constant, the set of systems it is run on, a condition (`Is…System`) that says
what such a system is, and variables with a prefix of two letters.
`MCUpgradeActors` chooses one component (`theme`); the others stay at rest on
one system. Its state space is the sum of theirs.

* `KernelArguments`: the actors of the checks ask for arguments (`kaTasks`);
  `CreateEntry` and `RemoveUndesired` are the commands that `add_boot_entry`
  runs for each configuration file, either of which may fail; the target kernel is
  installed with the arguments of the booted one; `ConfigureKernel` applies the
  requests, and those of `LateTargetKernelCmdlineArgTasks`. `Grubby` is
  what grubby does to a set of arguments. A failing removal of the old entry is only
  logged, and a failing configuration may leave some files done and the default
  arguments cut off. The options of live mode are independent of the place its
  image is loaded from.
* `UpgradeBootOrder`: `EfiInterimFix`, `AddWorkaround` (ARM) and
  `AddUpgradeEntry`, in the orders their phase allows, the reboot with the choice
  of the firmware, `RemoveUpgradeEntry`, the actors of a conversion, the last fix
  and the second reboot.
* `UpgradeInitramfs`: requests for modules and files, conflicts among them, the
  container in which the upgrade initramfs is generated (packages, then the host's
  files one by one), what is copied to `/boot` file by file, and after the
  transaction the target kernel and its initramfs.
* `ContentAccess`: which cloud the clients belong to, the checks of subscription
  and RHUI, the swap of clients in the transaction, the release and
  repositories set with retries.
* `UpgradePath`: the target release the command chooses (where it ends with an
  exception if CentOS has no virtual release of the number, `CanChoose`), what the
  workflow supports, the checks, and the comparison of versions. The table of paths is a
  constant, for which `IsPathTable` says what the actors take for granted; the run
  gives it `upgrade_paths.json` as it is (`UpgradePathTable`), and checks that.
* `SystemdServices`: two scans of units, presets and symlinks, the tasks from
  them, the repair of symlinks, and systemctl at the end, which may fail.
* `PackageKeys`: the keys that are trusted, planned for removal, asked for by
  repositories, removed and imported, script by script, before the transaction,
  and checked after it.
* `RepositoryMap`: the map is loaded, channels are found, families mapped in any
  order, the result is checked.
* `MultipathConfig`: the configuration is read, checked and patched, the data files
  moved, the copies for the userspace asked for and made and the target patched,
  one file at a time, for both upgrades; the administrator may remove files
  meanwhile.
* `DeviceSupport`: the asset with the data, three actors that match, two that check.
* `LiveMode`: the userspace becomes a system of its own, is packed, booted and
  runs the upgrade; faults, further attempts and further executions. `StepMakes` is
  what each step of `modify_userspace_as_configured` makes, which depends on the
  target version for the network, and `PreparationInfo` what the message about it
  says. The arguments of its boot entry are those of `KernelArguments`
  (`LiveArgs`); a `dracut_network` that is no `ip=` is one of the failures of
  `AddLiveEntryFails`.

## 3. Runs and properties

Each property has a comment above it in its module. `TypeOK`, `UserspaceStateOK`
and `ActorsTypeOK` are the type invariants.

### 3.1 The lifecycle

* `TransactionNotRepeated`: a transaction that has upgraded everything is never
  started again, whatever happens before its checkpoint.
* `LatePhasesNeedTarget`, `FirstBootOnTarget`: later phases need the packages of
  the target, and FirstBoot the booted target system.
* `ResumeServiceOnTarget`: the service is enabled only on an upgraded system
  whose newest upgrade is past the transaction.
* `BootFilesOutliveEntry`, `TransactionAfterEntryRemoved`: entry, files and
  packages go in this order, across failures, reboots and newer executions; not
  one of the files is removed before the entry.
* `PreparationIsComplete`: the checkpoint of InterimPreparation means that entry,
  default, boot files and userspace are there.
* `NeverBroken`: one fault never leaves a default entry without its files.
* `NoBootLoop`, `PreparedFinishes`: the liveness of the reboots.
* `ImplementsUpgrade`: the refinement of section 2.2.

| run | constants | shows |
|---|---|---|
| `lifecycle` | 3 executions, 3 faults, synced | every safety property, the refinement, and the invariants of the proofs |
| `lifecycle_hostile` | 3, 3, synced, early checkpoints, `--resume` by hand | that boot files still outlive their entry when phases run half or in the wrong system |
| `lifecycle_live` | 1, 1, fair | no broken machine, no boot loop, a prepared upgrade finishes |

Two executions are the least with an older and a newer one, and the third one adds
a rerun or a preupgrade between them; two faults let a second failure meet the
recovery from the first (a power loss in the boot after a failed removal of the
entry, for example), and the third one meets that of the second. Both are bounds
on counters of the model: the code has none.

Without the sync, a power loss in the source system can roll `leapp.db` back to
a state before the boot entry was made, so `BootFilesOutliveEntry`,
`TransactionAfterEntryRemoved`, `PreparationIsComplete` and `ImplementsUpgrade` need
`ForceSync`: this is the trade-off that `LEAPP_DATABASE_FORCE_SYNC_ON` is for.
The other properties are proved without it (section 5). With early checkpoints a
phase whose first actor has finished is skipped after a crash; of the properties
above only `BootFilesOutliveEntry` and, for one run with one fault, those of
`lifecycle_live` survive that. `lifecycle_hostile` checks the first one with an operator
who resumes by hand in addition; it and `NeverBroken` are proved for either reading.
If the framework wrote checkpoints in that way, the others would be wrong.
`NeverBroken` needs a single fault in a single run: with a second `leapp
upgrade` the initramfs of a still-default entry is overwritten in place, and a
failure then leaves it truncated.

### 3.2 Target content

* `Untouched`: a package that no event and no instruction names is upgraded when
  it is installed, and is neither installed nor removed.
* `ReleaseIsTheSumOfItsEvents`: the events of a release, applied one by one, have
  the effect of all of them on the packages before it, unless one takes what
  another adds.
* `StreamsComeFromEvents`: only streams that events of the target major version
  name are enabled.
* `InstalledFromEnabledRepos`: what the events install comes from a repository
  that is enabled. `TypeOK` also says that the repositories requested are repoids
  and never PES ids.

The run `content` starts from three sets of inputs: pairs of 45 kinds of events
on three packages, in one release or two; no event or one, into a supported or a
CRB repository, with packages the user installs, removes or keeps and a custom
CRB repository; and pairs of events on packages in two streams, the first before
and the second after the major version is crossed.

Three packages are enough for a SPLIT or MERGED event with one more package that
no event names; two events for every order and conflict of a pair; two releases
for the crossing of the major version and for what is `seen` but gone.
No event names the package `c` of the last set, which is in a module: it has to
leave the module and be upgraded.

### 3.3 Userspace and transaction

* `MountsAreUndone`: mounts are made and undone as a stack, each on what is
  mounted; a call that is over leaves none, unless an unmount failed or
  it was killed, which is what the code does not handle.
* `LostOnlyByMishap`: the same for the host's directories: `rm -rf` and `rmtree`
  never go into a mount.
* `OverlayIsComplete`: whoever works in the overlay sees every file system of
  fstab, none hidden by one bound later, and the image for the scratch directory's
  own file system leaves the reserve for the userspace free.
* `RepositoriesAreDefined`: what `UsedTargetRepositories` names is defined in the
  userspace, once unless a report inhibits the upgrade; no custom repository is
  dropped; a creator that ends without a userspace says why.
* `UpgradeIsTheRehearsed`: the upgrade, which has no network, finds the plugin
  data and the packages that the download of the same execution left and its dry
  run tested; leapp itself is never part of the transaction.

The run `userspace` has thirteen systems (RHSM, with and without the
certificate, RHUI with and without bootstrap, custom repositories, a
distribution of its own, colliding files, an ISO), fstab with `/`, `/var`,
`/var/log` in four combinations, the scratch directory on `/var`, and file systems
from none to beyond the largest image. Two executions are the
least in which one finds what another left; eight calls are the overlays of two
executions; `MaxFaults` is one mishap. Three nested
directories are enough for a bind that has to come after two others.

### 3.4 The actors

All are checked by the run `actors`; those that consist of parts name them.

* `TargetBootsAsTheSource`: the target kernel, in every configuration file, has
  the arguments of the source and those asked for, nothing of the upgrade's;
  later kernels get the same; a removal wins over an addition.
* `FirmwareBootsWhatIsDue`: at the two reboots the firmware chooses the upgrade,
  then the installed system. `FirmwareIsLeftClean`: entries of others stay,
  no upgrade entry does, and an upgrade that stops has a reason.
* `InitramfsIsComplete`: files of the host win over those of packages, kernel,
  image and HMAC are of one build, what was asked for is in both initramfs, and
  the kernel chosen is the target's.
* `ContentFitsTheRelease`: a setup of RHUI fits the release, clients are swapped,
  the content is accessible, and a release of the source left behind is reported.
* `TargetsAreSupported`: the default target is accepted; an accepted one is of the
  next major version and listed, or the minor version before a listed one (from
  CentOS to RHEL), unless the user says `LEAPP_UNSUPPORTED`; and versions compare
  on both sides alike.
* `ServicesFollowTheUser`: after the upgrade each service is in the state that the
  administrator, an actor or the presets give, or a report says otherwise.
  `OnlyNewlyBrokenAreRepaired` (of each step): symlinks broken before are left.
* `KeysAreTheTargets`: the keys of the target are installed, obsolete ones gone,
  none was imported that had not been trusted, unknown ones are reported.
* `BestRepositoriesAreChosen`: each family in use gets the best repository, of
  the cloud and channel that suit it, in any order of the set.
* `MultipathIsMigrated`: multipathd reads the same files in the upgrade
  environment as on the source, updated where needed, and on the target the same.
* `HardwareIsJudged`: the closest entry of the data decides, nothing unsupported
  goes unnoticed, and data for another leapp are reported.
* `LiveUpgradesThePrepared`: the image that is booted holds the userspace of this
  execution with all that the configuration asks for (`ConfiguredParts`, stated
  without the steps), one service upgrades, the kernel gets its root, and the attempt
  ends well, unless a fault says otherwise. Three parts may be missing without a
  fault that stops the upgrade: an sshd whose links could not be made, which is
  logged; the root account, if there is no `passwd`; and the network on the way to
  10, about which the run `live_network` is.

The systems are built from one at rest by changing one or two features at a time,
so that every branch of an actor and every pair of interacting features occurs.
`MaxPreparations`, `MaxInitramfsRuns` and `MaxLiveRuns` are 2: a second execution
meets what the first left. `MaxEfiErrors`, `MaxLiveFaults` are 2: a failure and a
failing recovery. `MaxRemoved` is 1: one file of multipath removed at any time between
its reading and its use. `MaxAttempts` is 5, as in `rhsm.py`. Two live attempts are an
attempt and a retry.

These computations, those of 3.2 and 3.3 end, so their runs do not check for deadlock.

### 3.5 Disagreements

Six runs show that a comment, a docstring or a test says something else than the
code does (`findings` in `PROJECT.json`):

* `flag_rerun`: the failed flag does not prevent a second run of the upgrade.
* `excluded_repo`: a package that leaves its module for an excluded repository is
  removed, although a test says that the blocklist removes nothing installed.
* `rhui_repofile`: a file of the target RHUI client is removed with the injected
  ones, because its owner is looked up in the wrong container.
* `arm_conversion`: a conversion on ARM does not remove the entry of the source:
  BootCurrent's number has gone to another entry.
* `overridden_presets`: a preset in `/usr` counts although one in `/etc` overrides
  it, because a list is changed while it is looped over.
* `live_network`: on the way from 9 to 10 no network is set up in the live image,
  because `"10" < "9"` as strings, and a message says that it is.

The code also does the following. No run is about it: nothing in the repository
claims the opposite precisely enough.

* of a group of events with two latest releases the earlier events are applied, too
  (`pes_events_scanner.py:192`);
* a driver is reported twice, since `pcidevicesscanner.py:98` looks at a message
  its actor does not consume; `lspci` is run twice and its lines are paired by
  position (line 124);
* `enablerhsmtargetrepos.py:20` catches `CalledProcessError`, but `rhsm` raises
  `StopActorExecutionError` once the retries are used up; a beta target skips the
  setting of the release;
* with `--nogpgcheck`, 9 to 10, the release key is removed as obsolete and not
  imported again (`missinggpgkey.py:280`);
* a package with an unmapped PES id is removed, although the report says that it
  may not be upgraded (`pes_events_scanner.py:402`);
* `rerun` asks for the checkpoints before it checks that there is an upgrade
  (`rerun/__init__.py:32`);
* a missing `prkeys_file` named by a multipath configuration stops leapp with a
  traceback; the report of incompatible assets links to no document;
* live mode: `mksquashfs` appends to an image that could not be removed,
  `.fakerootfs` is removed after a failed attempt, host keys are looked for under
  another prefix than they have (`prepareliveimage.py:345`), and the getty on tty1
  is looked for on the host but removed in the image (line 133).

## 4. Fairness

`lifecycle_live` assumes that a running process, script or
machine makes its next step (`WF(Progress)`: the kernel schedules them, and
`upgrade.service` ends with a reboot), that systemd starts an enabled service in
a boot (`SF(ResumeServiceStart)`: it waits only for its target, and may be
disabled by a process in between), and that the operator reboots once the
upgrade entry is the default one, as `leapp upgrade` asks. Nothing is assumed of
the choices: an operator may never type a command, and a fault may never happen.
The other specifications state no fairness: their properties are about safety.

## 5. Proofs

### 5.1 The lifecycle

`IPULifecycleProofs` proves `Spec => []IInv` (`Inductive`), where `IInv` is

* `ProcessInv`: the process works on a stored execution in the phase after its
  last checkpoint, with actors of that phase only, and an `upgrade` process works
  on the newest one;
* `ScriptInv`: which phases the first and the second leapp of `do-upgrade.sh` may
  be in, and what they leave behind;
* `RecordInv`: a checkpoint of RPMUpgrade means upgraded packages, in `db` and in
  `durable`; outside the source system the two agree;
* `TransactionInv`: a transaction still to run means that packages are still to
  be upgraded, and a phase that will succeed has upgraded them;
* `ServiceInv`: the service needs both.

None of them is inductive alone. `TransactionNotRepeated`, for example, has to
exclude that a power loss after the transaction takes the process back before
it: the first leapp cannot start on target packages, the second one needs the
checkpoint (`ScriptInv`), and `RecordInv` says that it is there. One lemma per
action, `NextKeeps` puts them together. From `IInv` follow `TypeCorrect`,
`LatePhases`, `FirstBootPlace`, `TransactionOnce`, `ServicePlace`, for every
number of executions and faults, synced or not, resumed by hand or not; the
assumption is `~CheckpointEarly`, which `TypeCorrect` does without. It rests on
`HalfwayInv`, what is left of `ProcessInv` with either reading of the checkpoint: a
process works on a stored execution, in the phase after its last checkpoint or in
the phase of it.

`IPULifecycleRefinement` adds `EntryInv` (once InitRamStart is recorded, or will
be, the entry is gone; a default upgrade entry exists) under `ForceSync`, which
gives `TransactionWithoutEntry`, and `ResumedInv` (what is resumed in the installed system is past the transaction) under `~HandResume`,
which gives `Refinement`: initial states map to initial states and each step to a
step or a stutter. `InvariantAlways` is the whole invariant, as the run
`lifecycle` checks it.

`BootFilesKept` assumes `ForceSync` only, so it covers early checkpoints and `--resume`
by hand. With early checkpoints `EntryInv` is false: an execution whose boot
content was never made passes InitRamStart when the removal of the entry fails, and
the entry, of an older execution, stays. `EntryGoneInv` is what remains, for
an execution that has sent `BootContent`: once it is past InitRamStart the entry is gone.
Without `BootContent` the actor that removes the boot files does nothing. That a
later phase works on the newest upgrade comes from `HalfwayInv`, and nothing is
forgotten in a power loss (`ForceSync`). Both invariants have been checked by TLC with
the constants of `lifecycle_hostile`.

`IPULifecyclePreparation` adds `PreparationInv`: inside InterimPreparation, as
long as no actor has failed, those that have ended have left what they make,
and in the order of their messages. It holds with either kind of checkpoint; that only the end
of a phase records it, which `PreparationReached` needs in addition, under
`~CheckpointEarly` and `ForceSync`.

`StaysBootable` is `NeverBroken`, from `BootableInv`: while the upgrade entry is the
default one its files are complete, no process is in a phase before
InterimPreparation, and either the phase has been passed, or no fault is left, or
the phase is going well and the actor that makes the entry has ended, so that the
ones before it cannot run any more. The files go away only after the entry
(`EntryGoneInv`), and a power loss takes no record away (`ForceSync`). It rests on
`HalfwayInv` alone, so that it covers early checkpoints, too, with two more facts:
a process runs in the installed system or under `do-upgrade.sh` (`PlaceInv`), and a default
upgrade entry exists (`DefaultInv`). Its hypotheses are those of the property: one
execution and at most one fault (`MaxRuns = 1`, `MaxFaults <= 1`); that the upgrade may
be resumed by hand is included. TLC has checked these invariants with both kinds
of checkpoints, with and without `--resume` by hand.

### 5.2 Target content

`TargetContentProofs` proves `Spec => []ContentInvariant` (`ContentInductive`) and
from it every property of the run `content`, for any number of packages, events,
releases and instructions; the assumption, `ContentAssumption`, is that the inputs
are well-formed. `ContentInvariant` is `TypeOK` and

* `Progress`: what is known from the point the computation has reached;
* `SparedInvariant`: of a name that nobody mentions, the sets `source` and
  `target` hold what is installed, and a package that waits to leave its module is
  still there as it was. That it then survives the loss of its stream, the mapping
  and the blocklist is `SparedResult`: its repository is one of the source system,
  which the mapping leaves alone, and not a blocked one, which is why
  `BlockedModular` is excluded from `Untouched` (the run `excluded_repo` shows what
  happens otherwise);
* `SumInvariant`: `ReleaseIsTheSumOfItsEvents` in the middle of a release;
* `StreamInvariant`: past the crossing, a package in a module either waits to leave
  it or is named, with its stream, by an event of the target major version;
* `InstallInvariant`: what is to be installed comes from a requested repository.

The module also has `KeptIsKept`: what the user keeps is not removed.

### 5.3 Userspace and transaction

`SourceOverlayProofs` shows of each step of the overlay, without knowing its user,
that it keeps `OverlayInv` and `ShownInv`; `TransactionStagesProofs` shows the same of
each step of the users and draws the conclusions for `StagesSpec`
(`StagesInductive`). The invariant is

* `StackInv`: the order of the stack. The image of `/` and its overlay are at the
  bottom, an image is followed by its overlay and that by its bind, a directory is
  bound after its parents, and the users' mounts are on top;
* `LeftInv`: what is mounted is not left to be mounted, nor is a parent of it;
* `ModeInv`, `AttachedInv`: outside the mounts the stack is empty, and until
  something goes wrong the stack is what is mounted and nothing is lost;
* `ShownInv`: each directory of fstab is bound or still on its way, on an image of
  the computed size;
* `LinkInv`: who uses the overlay and what he has mounted, which makes sure that
  nothing is mounted twice and that what is unmounted is the top.

`StackInv` is why a failing mount never empties a directory of the host: the
`rm -rf` of a context manager goes to a mount point on which nothing is mounted
any more. `Undone`, `NothingLost` and `Shown` follow. `Rehearsed` needs
`RehearsedInv` in addition: from the dry run on, data, cache and `dnf.conf` are
as the download of this execution left them (`HandedToUpgrade`), since a
failure or another execution begins with the check again.

`CreatorInv` is about the creator of the userspace: `FilesInv` says which
repository files have been put together at each of its steps, `SelectedInv` that
the repositories selected from them are defined there and that duplicates have
been reported, `EndInv` that a creator that gives up has a reason, and
`ActorTypes` and `DataTypes` are the types. `WellTyped` is `UserspaceStateOK`, for
all systems. `Defined` is `RepositoriesAreDefined` for systems with `RepofilesFit`:
the files that the packages in the userspace bring have no repository that
another file has, and where they replace a file they define what was asked for
from it. The code does not check that, and the run `rhui_repofile` shows a system
on which a repository is lost without it. `DefinedAnyway` are the parts that
need no such condition. The assumptions are `OverlayAssumption` and
`StagesAssumption`: ancestors of a directory come before it in the order of names,
and what is asked for is well-formed. File systems, setups, executions and mishaps
are arbitrary.

### 5.4 The upgrade environment

`UpgradeEnvironmentProofs` has one inductive invariant for each of five components.
The assumption is the condition on the systems of the component (`Is...System`, its
only `ASSUME`), so the theorems are about every system of the kind, any number of
executions, attempts and faults.

* `LiveModeUpgrades` (`LiveUpgradesThePrepared`). `LiveInv`: a configured step is
  still in the list or the parts it makes are in the userspace (`StepsInv`); an image
  that can be booted has all of them, and with the steps of a configuration these
  are the parts it asks for but the three named in 3.4 (`PartsAreConfigured`); from
  the packing to the end of an attempt it is of this execution, or a message says
  that an old one could not be removed (`ImageInv`); the file with the root arguments is there until an attempt has
  failed (`RootInv`); the first execution has no entry before its end (`EntryInv`).
* `FirmwareBoot`, `FirmwareLeft` (`FirmwareBootsWhatIsDue`, `FirmwareIsLeftClean`).
  `BootInv`: entries that the machine did not have are one of the upgrade and one
  of the target, so that a number is always free (`EntriesInv`); what the actors of
  the interim phase leave in any order (`InterimInv`); which system is due at each
  step from the transaction on (`TransactionInv`); and what is gone by then
  (`CleanInv`). The numbers are any `0 .. LastNumber` with at least two that the machine does
  not use, for the entry of the upgrade and that of the target.
* `TargetKernelBoots` (`TargetBootsAsTheSource`). `KernelInv`: the tasks are those of
  all actors (`TasksJoined`); a configuration file is written or still in the list,
  and only its first one may be half written (`EntryWritten`); then every file has
  the entry the upgrade boots (`EntryIsLeft`) and the target kernel what follows
  from it (`TargetIsLeft`).
* `InitramfsComplete` (`InitramfsIsComplete`). `InitramfsInv`: the host's files copied
  so far are there, unless their directory was asked for as well (`HostFilesCopied`); each
  boot file is of this run or still to be made (`BootFilesMade`); there is no
  conflict past the checks; and kernel and initramfs of the target follow from what
  was installed (`KernelScanned`, `TargetGenerated`).

* `MultipathCorrect` (`MultipathIsMigrated`). `MpInvariant` says for each list that is
  worked off what holds of the part that is done: the files read are those of
  the system, in the order of their names (`MpFacts`, `MpAllRead`); there is no conflict
  of directories past the checks (`MpNoConflict`); an update leads from a file, or
  from its patched version in the store, to one place that no other update
  leads to (`MpShapes`, `MpOnce`, `MpStore`), and each file that needs one has it
  (`MpAllPatched`, `MpAllMoved`); so have the copies (`MpCopied`), the userspace
  (`MpUserspace`) and the target (`MpPatched`). What the administrator removes in between
  only makes `mpFiles` smaller (`MpFilesLeft`).

`LiveTyped`, `BootOrderTyped`, `KernelArgsTyped`, `InitramfsTyped` and `MultipathTypes`
are the types. They need more than the types themselves where the code relies on
it: a boot order lists each entry once and only existing ones, a dictionary of
kernel arguments has one value for each key, a step of the initramfs is
one that was configured.

### 5.5 The other actors

`UpgradeActorsProofs` does the same for six more components.

* `ServicesAreTheUsers`, `RepairIsSparing` (`ServicesFollowTheUser`,
  `OnlyNewlyBrokenAreRepaired`). `ServicesInv`: the two scans are those of the source
  and of the target before any repair (`SourceScan`, `TargetScan`), although the
  repair and the transition come in either order; the repair leaves every state as
  the packages gave it (`TargetState`); the tasks are the early ones and those of
  the transition (`TransitionDone`) and carried out where systemctl did not fail
  (`TasksCarriedOut`).
* `AllHardwareIsJudged` (`HardwareIsJudged`). `DevicesInv`: the data are those of the
  asset without USB devices (`DataRead`); an entry has been detected exactly when
  one of the actors that have run finds it (`DetectedAreFound`); the reports are
  those of the checks that have run (`ReportsMade`).
* `KeysEndAsTheTargets` (`KeysAreTheTargets`). `KeysInv`: which scripts are
  registered, in which order (`ScriptsRegistered`), and that what is left of them
  and what is done make up the plan (`ScriptsApplied`); a key in the form of the
  source was installed then (`OldKeys`).
* `ContentFits` (`ContentFitsTheRelease`). `AccessInv`: where the setup of the cloud
  comes from (`SetupUsed`), the packages before and after the swap
  (`ClientsHandled`), the release of dnf and of the subscription manager
  (`ReleaseverSet`, `ReleaseSet`, `ReposSet`) and what was reported
  (`AdministratorTold`).
* `BestChosen` (`BestRepositoriesAreChosen`). `ReposInv`: of the repositories
  looked at so far, in any order, the channel found is the best (`TopInv`), and each
  family has a repository of the best channel among those found for it
  (`BestInv`).
* `TargetsSupported` (`TargetsAreSupported`), for every table with `IsPathTable`. Each
  step is decided by the system, which `PathInv` says; the rest is about tables. The
  paths of the actor are the tables of the two distributions joined on virtual
  releases, and a release stands for at most one other (`RawPathsAre`,
  `SameVirtual`); the command finds the same one by looking up a virtual release or
  a major version (`CommandTargetsAre`); the latest target as a string is the latest
  one, since no minor has two digits (`LatestIs`).

The run `actors` puts the eleven components beside each other: they share no
variable (a choice of the model: what actors tell each other is in the systems), and
one of them takes a step at a time. That each behaviour of this composition is one
of every component is a lemma; with the types of the components
(`ServicesTyped`, `DevicesTyped`, `KeysTyped`, `AccessTyped`, `ReposTyped`, `PathTyped` for
the six) it gives `ActorsTyped` (`ActorsTypeOK`), for every choice of the systems. The
other properties of the run `actors` are proved of their component.

The proofs changed the models in places. A list that was worked off in one action
is now worked off one element at a time, as in the code (the commands for
the boot entry, the files of the initramfs, the scripts of the keys, the files of
multipath), which also lets a failure, or the administrator, come between two of them. Five properties had been right on the
systems TLC was given and were not right for all: an argument that live mode takes
away from the upgrade may be missing on the target, too (`ArgumentsSurvive`); a client that the administrator wrongly names as one of the source is not
installed if it is also one of the target (`ClientsSwapped`); the real-time kernel
is told from the end of `uname -r`, in a form that depends on the release
(`KernelIsTheTargets`); and with two premium channels, which the code says it does
not expect, the better one wins over the one in use (`SystemChannelIsPreferred`);
and a source that gives its major version only, which the command does not notice
when the target is asked for, is accepted by the line of the table for that major
version (`OnlyListedTargets`). One type was too strong, too: two different arguments
with the same key are possible if both are the user's (`KernelArgsTypeOK`).

### 5.6 Only model-checked

* The liveness properties `NoBootLoop` and `PreparedFinishes`: fairness and ENABLED
  are outside the prover.
* With early checkpoints, nothing but the types, `BootFilesOutliveEntry` and `NeverBroken`
  is proved: the other safety properties are false there (section 3.1).

Every other property of a passing run is stated by a theorem.

## 6. Not modelled

* The leapp framework, dnf, grubby, systemd, dracut and efibootmgr, except for what
  the code relies on.
* The parsing of PES data and the expansion of modulestream maps into events; the
  composition of `RepositoryMap` with `TargetContent`, which takes the mapping as
  input.
* The arithmetic of `_check_free_space` and of DNF's own space check; that the userspace
  creator stops when a message it needs (`RHSMInfo`, `StorageInfo`) was not sent.
* Copying of certificates and symlinks into the userspace, systemd-nspawn and
  chroot; GRUB device detection and grub2-install; the classification of packages
  by signature; debug dumps and waiting for mounts in the interim system.
* The other checks, scanners and migrations: independent small programs whose
  outcome the lifecycle takes as a choice (inhibit or not, fail or not).
* Two leapp processes at a time: the framework takes a lock.
* Packaging, tooling, tests, and the wording of reports and logs.

## 7. Plan

Done: the lifecycle, the target content, overlay, userspace and transaction, all
with proofs, and the actors of section 2.5.

Next, in this order:

1. `PESParsing`: `generate_event_for_ms_mapping_entry` and the modulestream maps on
   bounded inputs, composed with `TargetContent`; `RepositoryMap` in place of its
   inputs `map` and `expected`.
2. `DiskSpace`: `_check_free_space` with its rounding.
3. The remaining migrations that keep a state of their own (network
   configuration, PAM, SSSD).

With each of them its inductive invariant. Of what is modelled, only liveness is
left without a theorem.
