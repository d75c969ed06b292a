--------------------------- MODULE MultipathConfig ---------------------------
(* The configuration of device-mapper-multipath on its way through the        *)
(* upgrade. The configuration files are read among the facts and checked; the *)
(* ones the target cannot use are not changed but prepared beside the system, *)
(* where the target userspace gets them from for the upgrade environment; the *)
(* upgraded system gets the same files at the end (actors multipath_* of the  *)
(* upgrades from 8 to 9 and from 9 to 10, request_multipath_conf_in_target_   *)
(* userspace, multipath_system_config_patcher).                               *)
EXTENDS Integers, Sequences, FiniteSets, FiniteSetsExt, SequencesExt

CONSTANTS MpSystems,   \* the systems, see IsMpSystem
          ConfNames,   \* names of configuration files (*.conf), sorted
          MpDirs,      \* directories of the system
          MaxRemoved   \* files the administrator may remove while leapp is at work

DataFiles == {"bindings", "wwids", "prkeys"}
DefaultDir == "multipath/conf.d"
System(dir, name) == [root |-> "system", dir |-> dir, name |-> name]
Primary == System("etc", "multipath.conf")
DefaultFile(file) == System("multipath", file)
Stored(path) == [path EXCEPT !.root = "store"]   \* MODIFICATIONS_STORE_PATH

(* What matters in a configuration file: config_dir and the locations of the  *)
(* data files ("unset", or a directory), a regular expression "*",            *)
(* enable_foreign and allow_usb_devices in the defaults, getuid_callout.      *)
DirOrUnset == MpDirs \cup {"unset"}
Confs == [configDir : DirOrUnset, files : [DataFiles -> DirOrUnset], star : BOOLEAN,
          foreign : BOOLEAN, usb : BOOLEAN, getuid : BOOLEAN]
ConfigDir(c) == IF c.configDir = "unset" THEN DefaultDir ELSE c.configDir

(* The directory of the configuration files is not that of the primary one,   *)
(* which would be read twice.                                                 *)
MpPaths == [root : {"system"}, dir : MpDirs,
            name : DataFiles \cup Range(ConfNames) \cup {"multipath.conf"}]
IsMpSystem(s) ==
    /\ s.source \in {8, 9} /\ s.installed \in BOOLEAN
    /\ s.files = [p \in DOMAIN s.files |-> s.files[p]] /\ DOMAIN s.files \subseteq MpPaths
    /\ \A p \in DOMAIN s.files :
         p = Primary \/ p.name \in Range(ConfNames) => s.files[p] \in Confs
    /\ \A name \in Range(ConfNames) :
         Primary \in DOMAIN s.files => System(ConfigDir(s.files[Primary]), name) # Primary

ASSUME MpAssumption ==
    /\ {"etc", "multipath", DefaultDir} \subseteq MpDirs /\ "unset" \notin MpDirs
    /\ ConfNames \in Seq(Range(ConfNames)) /\ Range(ConfNames) \cap DataFiles = {}
    /\ \A i, j \in DOMAIN ConfNames : ConfNames[i] = ConfNames[j] => i = j
    /\ MaxRemoved \in Nat
    /\ \A s \in MpSystems : IsMpSystem(s)

VARIABLES
    mpSystem,     \* the system, one of MpSystems
    mpAt,         \* the step the upgrade is at
    mpNext,       \* how many elements of its list the step is through with
    mpFiles,      \* the files of the system and of the store
    mpFacts,      \* MultipathConfFacts: the files read, the primary first
    mpLocations,  \* where the data files are, as far as it is configured
    mpUpdates,    \* MultipathConfigUpdatesInfo: from the first path to the second
    mpCopies,     \* files asked for in the target userspace
    mpUserspace   \* the files of multipath in the target userspace
mpVars == <<mpSystem, mpAt, mpNext, mpFiles, mpFacts, mpLocations, mpUpdates, mpCopies,
            mpUserspace>>

MultipathInit ==
    /\ mpSystem \in MpSystems
    /\ mpAt = "facts" /\ mpNext = 0 /\ mpFiles = mpSystem.files
    /\ mpFacts = <<>> /\ mpLocations = [file \in DataFiles |-> "unset"]
    /\ mpUpdates = <<>> /\ mpCopies = {} /\ mpUserspace = <<>>

-----------------------------------------------------------------------------
(* Facts: the primary file and those of its config_dir, in the order of their *)
(* names; of several settings of a location the last one counts. Without a    *)
(* primary file multipath is not used.                                        *)
FirstLocations(conf) ==   \* mutant
    [file \in DataFiles |->
        IF mpLocations[file] # "unset" THEN mpLocations[file] ELSE conf.files[file]]
Locations(conf) ==
    [file \in DataFiles |->
        IF conf.files[file] # "unset" THEN conf.files[file] ELSE mpLocations[file]]
ParseConfig(path) ==
    /\ mpFacts' = Append(mpFacts, [path |-> path, conf |-> mpFiles[path]])
    /\ mpLocations' = Locations(mpFiles[path])
ReadPrimary ==
    /\ mpAt = "facts"
    /\ IF ~mpSystem.installed \/ Primary \notin DOMAIN mpFiles
       THEN mpAt' = "not used" /\ UNCHANGED <<mpFacts, mpLocations>>
       ELSE mpAt' = "reading" /\ ParseConfig(Primary)
    /\ UNCHANGED <<mpSystem, mpNext, mpFiles, mpUpdates, mpCopies, mpUserspace>>
Main == mpFacts[1].conf
ReadConfig ==
    /\ mpAt = "reading" /\ mpNext < Len(ConfNames) /\ mpNext' = mpNext + 1
    /\ LET path == System(ConfigDir(Main), ConfNames[mpNext + 1])
       IN IF path \in DOMAIN mpFiles THEN ParseConfig(path)
          ELSE UNCHANGED <<mpFacts, mpLocations>>
    /\ UNCHANGED <<mpSystem, mpAt, mpFiles, mpUpdates, mpCopies, mpUserspace>>

OwnConfigDir == ConfigDir(Main) # DefaultDir
ConfsIn(dir) == {System(dir, name) : name \in Range(ConfNames)} \cap DOMAIN mpFiles
Location(file) ==
    IF mpLocations[file] = "unset" THEN DefaultFile(file)
    ELSE System(mpLocations[file], file)

(* Checks: from 9 to 10 a config_dir of its own is given up, which nothing in *)
(* the default one may get in the way of; getuid_callout is gone.             *)
DirConflicts == mpSystem.source = 9 /\ OwnConfigDir /\ ConfsIn(DefaultDir) # {}
HasGetuid == mpSystem.source = 9 /\ \E i \in DOMAIN mpFacts : mpFacts[i].conf.getuid
CheckConfigs ==
    /\ mpAt = "reading" /\ mpNext = Len(ConfNames) /\ mpNext' = 0
    /\ mpAt' = IF DirConflicts \/ HasGetuid THEN "inhibited" ELSE "patch"
    /\ UNCHANGED <<mpSystem, mpFiles, mpFacts, mpLocations, mpUpdates, mpCopies,
                   mpUserspace>>

-----------------------------------------------------------------------------
(* The new contents of a file. From 8 to 9 the primary file gets what no file *)
(* sets; from 9 to 10 the locations are commented out.                        *)
NeedForeign == ~\E i \in DOMAIN mpFacts : mpFacts[i].conf.foreign
NeedUsb == ~\E i \in DOMAIN mpFacts : mpFacts[i].conf.usb
UpdatedFor9(c, first) ==
    [c EXCEPT !.foreign = @ \/ (first /\ NeedForeign),
              !.usb = @ \/ (first /\ NeedUsb), !.star = FALSE]
UpdatedFor10(c) ==
    [c EXCEPT !.configDir = "unset", !.files = [file \in DataFiles |-> "unset"]]
UpdatedConf(c, first) ==
    IF mpSystem.source = 8 THEN UpdatedFor9(c, first) ELSE UpdatedFor10(c)

(* Where the contents of a file of the facts go to, in the upgraded system;   *)
(* a file that is not changed is only named when it moves.                    *)
TargetPath(i) ==
    IF mpSystem.source = 8 \/ i = 1 THEN mpFacts[i].path
    ELSE [mpFacts[i].path EXCEPT !.dir = DefaultDir]
Changed(i) ==
    LET path == mpFacts[i].path
    IN path \in DOMAIN mpFiles /\ UpdatedConf(mpFiles[path], i = 1) # mpFiles[path]
NewContents(i) ==
    IF Changed(i) THEN Stored(mpFacts[i].path) ELSE mpFacts[i].path
Moves(i) == mpSystem.source = 9 /\ i > 1 /\ OwnConfigDir

(* A file written over another one, in a file system.                         *)
Placed(files, path, content) ==
    [p \in DOMAIN files \cup {path} |-> IF p = path THEN content ELSE files[p]]

PatchConfig ==
    /\ mpAt = "patch"
    /\ LET i == mpNext + 1
           path == mpFacts[i].path
       IN /\ mpFiles' = IF Changed(i)
                        THEN Placed(mpFiles, Stored(path), UpdatedConf(mpFiles[path], i = 1))
                        ELSE mpFiles
          /\ mpUpdates' = IF Changed(i) \/ Moves(i)
                          THEN Append(mpUpdates, [from |-> NewContents(i), to |-> TargetPath(i)])
                          ELSE mpUpdates
          /\ IF i = Len(mpFacts) THEN mpAt' = "move" /\ mpNext' = 0
             ELSE mpNext' = i /\ UNCHANGED mpAt
    /\ UNCHANGED <<mpSystem, mpFacts, mpLocations, mpCopies, mpUserspace>>

(* From 9 to 10 a data file at a place of its own goes to the default one.    *)
FilesToMove == <<"bindings", "wwids", "prkeys">>
MoveFile ==
    /\ mpAt = "move"
    /\ LET file == FilesToMove[mpNext + 1]
       IN mpUpdates' = IF mpSystem.source = 9 /\ Location(file) # DefaultFile(file)
                       THEN Append(mpUpdates, [from |-> Location(file), to |-> DefaultFile(file)])
                       ELSE mpUpdates
    /\ IF mpNext + 1 = Len(FilesToMove) THEN mpAt' = "request" /\ mpNext' = 0
       ELSE mpNext' = mpNext + 1 /\ UNCHANGED mpAt
    /\ UNCHANGED <<mpSystem, mpFiles, mpFacts, mpLocations, mpCopies, mpUserspace>>

-----------------------------------------------------------------------------
(* MultipathInfo: what is copied as it is. From 9 to 10 only what is at its   *)
(* default location; a location of its own is copied to the default one.      *)
CopiedAsIs ==
    LET files == {f \in DataFiles : mpSystem.source = 9 => Location(f) = DefaultFile(f)}
        confs == IF mpSystem.source = 9 /\ OwnConfigDir THEN {} ELSE ConfsIn(ConfigDir(Main))
    IN {Primary} \cup ({Location(f) : f \in files} \cap DOMAIN mpFiles) \cup confs
CopiedFrom(path) == [src |-> path, dst |-> path]
RequestFiles ==
    /\ mpAt = "request" /\ mpAt' = "copy"
    /\ mpCopies' = {CopiedFrom(path) : path \in CopiedAsIs}
    /\ UNCHANGED <<mpSystem, mpNext, mpFiles, mpFacts, mpLocations, mpUpdates, mpUserspace>>

(* Then the updates, one by one: of one source there is one copy, and what is *)
(* the target of an update is not a source any more.                          *)
WithUpdate(copies, u) ==
    {c \in copies : c.src \notin {u.to, u.from}} \cup {[src |-> u.from, dst |-> u.to]}
RequestUpdate ==
    /\ mpAt = "copy" /\ mpNext < Len(mpUpdates) /\ mpNext' = mpNext + 1
    /\ mpCopies' = WithUpdate(mpCopies, mpUpdates[mpNext + 1])
    /\ UNCHANGED <<mpSystem, mpAt, mpFiles, mpFacts, mpLocations, mpUpdates, mpUserspace>>

(* A file that is not there stops leapp (_copy_files). No two files are       *)
(* copied to one place.                                                       *)
CopyToUserspace ==
    /\ mpAt = "copy" /\ mpNext = Len(mpUpdates) /\ mpNext' = 0
    /\ IF \E c \in mpCopies : c.src \notin DOMAIN mpFiles
       THEN mpAt' = "stopped" /\ UNCHANGED mpUserspace
       ELSE /\ mpAt' = "applications"
            /\ mpUserspace' = [path \in {c.dst : c \in mpCopies} |->
                                 mpFiles[(CHOOSE c \in mpCopies : c.dst = path).src]]
    /\ UNCHANGED <<mpSystem, mpFiles, mpFacts, mpLocations, mpUpdates, mpCopies>>

(* The upgraded system: the files are copied one after the other.             *)
PatchSystem ==
    /\ mpAt = "applications" /\ mpNext < Len(mpUpdates)
    /\ LET u == mpUpdates[mpNext + 1]
       IN IF u.from \notin DOMAIN mpFiles
          THEN mpAt' = "broken" /\ UNCHANGED <<mpNext, mpFiles>>
          ELSE /\ mpFiles' = Placed(mpFiles, u.to, mpFiles[u.from])
               /\ mpNext' = mpNext + 1 /\ UNCHANGED mpAt
    /\ UNCHANGED <<mpSystem, mpFacts, mpLocations, mpUpdates, mpCopies, mpUserspace>>
SystemPatched ==
    /\ mpAt = "applications" /\ mpNext = Len(mpUpdates) /\ mpAt' = "done"
    /\ UNCHANGED <<mpSystem, mpNext, mpFiles, mpFacts, mpLocations, mpUpdates, mpCopies,
                   mpUserspace>>

(* The administrator removes a file while leapp is at work.                   *)
SystemFiles == {p \in DOMAIN mpFiles : p.root = "system"}
AdministratorRemoves ==
    /\ mpAt \in {"reading", "patch", "move", "request", "copy"}
    /\ Cardinality(DOMAIN mpSystem.files \ SystemFiles) < MaxRemoved
    /\ \E path \in SystemFiles :
         mpFiles' = [p \in DOMAIN mpFiles \ {path} |-> mpFiles[p]]
    /\ UNCHANGED <<mpSystem, mpAt, mpNext, mpFacts, mpLocations, mpUpdates, mpCopies,
                   mpUserspace>>

MultipathNext ==
    \/ ReadPrimary \/ ReadConfig \/ CheckConfigs \/ PatchConfig \/ MoveFile
    \/ RequestFiles \/ RequestUpdate \/ CopyToUserspace
    \/ PatchSystem \/ SystemPatched \/ AdministratorRemoves
MultipathSpec == MultipathInit /\ [][MultipathNext]_mpVars

-----------------------------------------------------------------------------
(* What multipathd of a RHEL reads from some files: RHEL 10 knows only the    *)
(* default locations.                                                         *)
DirReadBy(major, files) ==
    IF major = 10 THEN DefaultDir ELSE ConfigDir(files[Primary])
ReadBy(major, files) ==
    LET confs == {p \in DOMAIN files : /\ p.root = "system" /\ p.dir = DirReadBy(major, files)
                                       /\ p.name \in Range(ConfNames)}
    IN [p \in {Primary} \cup confs |-> files[p]]
NamesRead(major, files) == {p.name : p \in DOMAIN ReadBy(major, files)}
TargetMajor == mpSystem.source + 1
Unchanged == SystemFiles = DOMAIN mpSystem.files
CanReboot == mpAt = "applications" /\ mpNext = 0

(* The sets the variables take their values from.                             *)
MultipathTypeOK ==
    /\ mpAt \in {"facts", "not used", "reading", "inhibited", "patch", "move", "request",
                 "copy", "stopped", "applications", "done", "broken"}
    /\ mpNext \in Nat
    /\ \A i \in DOMAIN mpFacts : mpFacts[i].conf \in Confs
    /\ mpLocations \in [DataFiles -> DirOrUnset]
    /\ \A c, d \in mpCopies : c.dst = d.dst => c = d
    /\ \A p \in DOMAIN mpUserspace : p.root = "system"

(* Multipath of the upgrade environment reads the same configuration files    *)
(* as multipath of the source does: none is lost with the directory they are  *)
(* in, and none that was not in use before comes in                           *)
(* (scan_and_emit_multipath_info, check_configs, request_mpath_confs).        *)
SameFilesAreRead ==
    CanReboot /\ Unchanged =>
      NamesRead(TargetMajor, mpUserspace) = NamesRead(mpSystem.source, mpFiles)

(* The upgraded system has what the upgrade environment had: multipath finds  *)
(* the devices under the names it found them under before                     *)
(* ("Propagate any modified multipath configs to the source system").         *)
SystemLikeUserspace ==
    mpAt = "done" =>
      /\ ReadBy(TargetMajor, mpFiles) = ReadBy(TargetMajor, mpUserspace)
      /\ \A p \in DOMAIN mpUserspace :
           p.name \in DataFiles => p \in DOMAIN mpFiles /\ mpFiles[p] = mpUserspace[p]

(* The file in use on the source, the last one configured, is the one in the  *)
(* place the target looks in (mpath_file_locations).                          *)
InUse(file) ==
    LET used == {i \in DOMAIN mpFacts : mpFacts[i].conf.files[file] # "unset"}
    IN IF used = {} THEN DefaultFile(file)
       ELSE System(mpFacts[Max(used)].conf.files[file], file)
DevicesKeepTheirNames ==
    CanReboot /\ Unchanged =>
      \A f \in DataFiles :
        LET there == IF mpSystem.source = 8 THEN InUse(f) ELSE DefaultFile(f)
        IN InUse(f) \in DOMAIN mpFiles =>
             there \in DOMAIN mpUserspace /\ mpUserspace[there] = mpFiles[InUse(f)]

(* Nothing the target rejects or ignores is in a file it reads, and the       *)
(* defaults that change with RHEL 9 are set, once.                            *)
NothingObsoleteIsRead ==
    CanReboot /\ Unchanged =>
      LET read == ReadBy(TargetMajor, mpUserspace)
      IN IF mpSystem.source = 8
         THEN /\ \A p \in DOMAIN read : ~read[p].star
              /\ \E p \in DOMAIN read : read[p].foreign
              /\ \E p \in DOMAIN read : read[p].usb
         ELSE \A p \in DOMAIN read : ~read[p].getuid /\ read[p] = UpdatedFor10(read[p])

(* Until the system is upgraded its own files are left alone: an upgrade      *)
(* given up leaves multipath as it was.                                       *)
SourceIsLeftAlone ==
    mpAt \notin {"applications", "broken", "done"} \/ CanReboot =>
      \A p \in SystemFiles : p \in DOMAIN mpSystem.files /\ mpFiles[p] = mpSystem.files[p]

(* A file that cannot be copied is found before the reboot, never by the      *)
(* upgraded system (patch_system_configs has no way out).                     *)
PatchesCanBeApplied == mpAt # "broken"

(* multipathd reads the same configuration in the target userspace, in the    *)
(* initramfs and on the target as on the source, updated where the new        *)
(* version needs it, and the source is not changed before the transaction.    *)
MultipathIsMigrated ==
    /\ SameFilesAreRead
    /\ SystemLikeUserspace
    /\ DevicesKeepTheirNames
    /\ NothingObsoleteIsRead
    /\ SourceIsLeftAlone
    /\ PatchesCanBeApplied
=============================================================================
