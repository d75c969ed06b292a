----------------------------- MODULE UpgradePath -----------------------------
(* Which release the system is upgraded to, and whether it may.               *)
(*                                                                            *)
(* The leapp command chooses the target release (command_utils.py); the       *)
(* configuration actor of the workflow works out the paths that are supported *)
(* (ipuworkflowconfig.py), reading the same table in another way; actors of   *)
(* the checks compare the two, and others compare versions (version.py).      *)
(* A release is <<major, minor>>, or <<major>> as CentOS Stream has it; paths *)
(* are functions from source releases to sequences of targets.                *)
EXTENDS Integers, Sequences, FiniteSets, FiniteSetsExt, SequencesExt

CONSTANTS
    PathTable,     \* upgrade_paths.json: of a distribution and a flavour, the paths
    VirtualMinor,  \* its _virtual_versions: the minor of a major of CentOS Stream
    PathSystems    \* the systems and the user's wishes, see IsPathSystem

Distros == {"rhel", "centos", "almalinux"}
Flavours == {"default", "saphana"}
NoVersion == <<>>

Paths(distro, flavour) ==
    IF distro \in DOMAIN PathTable /\ flavour \in DOMAIN PathTable[distro]
    THEN PathTable[distro][flavour] ELSE <<>>
TargetsOf(paths, source) ==
    IF source \in DOMAIN paths THEN paths[source] ELSE <<>>

(* The form of a version is that of its distribution.                         *)
WellFormed(version, distro) == Len(version) = (IF distro = "centos" THEN 1 ELSE 2)
Virtual(distro, version) ==
    IF distro = "centos" /\ version[1] \in DOMAIN VirtualMinor
    THEN <<version[1], VirtualMinor[version[1]]>> ELSE version
HasVirtual(distro, version) == distro = "centos" => version[1] \in DOMAIN VirtualMinor

-----------------------------------------------------------------------------
(* What the actors take for granted of the table: each source has targets, of *)
(* the next major version and in the form of the distribution; each release   *)
(* of CentOS has a virtual one; and where that is a source of RHEL no minor   *)
(* of a target has two digits (see StringOrder).                              *)
IsPath(distro, source, targets) ==
    /\ source \in Seq(Nat) /\ Len(source) \in 1..2
    /\ distro = "centos" => Len(source) = 1 /\ HasVirtual(distro, source)
    /\ targets \in Seq(Seq(Nat)) /\ targets # <<>>
    /\ \A t \in Range(targets) :
         /\ WellFormed(t, distro) /\ HasVirtual(distro, t)
         /\ t[1] = source[1] + 1
         /\ (distro = "rhel" /\ Len(source) = 2 /\ source = Virtual("centos", <<source[1]>>))
               => t[2] < 10
IsPathTable ==
    /\ DOMAIN VirtualMinor \subseteq Nat /\ Range(VirtualMinor) \subseteq Nat
    /\ \A d \in Distros, f \in Flavours : \A v \in DOMAIN Paths(d, f) :
         IsPath(d, v, Paths(d, f)[v])

IsPathSystem(s) ==
    /\ s.distro \in Distros /\ s.target \in Distros   \* ID; --target-os or ID
    /\ s.version \in Seq(Nat) /\ Len(s.version) \in 1..2   \* VERSION_ID
    /\ s.asked \in Seq(Nat) /\ Len(s.asked) \in 0..2    \* --target, or NoVersion
    /\ s.flavour \in Flavours
    /\ s.env \subseteq {"unsupported", "skip os release", "target release"}

ASSUME PathAssumption == IsPathTable /\ \A s \in PathSystems : IsPathSystem(s)

VARIABLES
    upSystem,    \* the system, one of PathSystems
    upAt,        \* "command", "config", "checks", "accepted", "inhibited", "stopped"
    upTarget,    \* the target release, or NoVersion
    upPaths,     \* IPUConfig.supported_upgrade_paths
    upReports    \* what the administrator is told
upVars == <<upSystem, upAt, upTarget, upPaths, upReports>>

PathInit ==
    /\ upSystem \in PathSystems
    /\ upAt = "command" /\ upTarget = NoVersion /\ upPaths = <<>> /\ upReports = {}

(* get_supported_target_versions of the command: by the release, for a        *)
(* conversion from CentOS by its virtual release, else by the major version.  *)
LookedUpAsIs == upSystem.version   \* mutant
LookedUp ==
    IF upSystem.distro = "centos" /\ upSystem.target # "centos"
    THEN Virtual("centos", upSystem.version) ELSE upSystem.version
CommandTargets ==
    LET paths == Paths(upSystem.target, upSystem.flavour)
    IN IF TargetsOf(paths, LookedUp) # <<>> THEN TargetsOf(paths, LookedUp)
       ELSE TargetsOf(paths, <<upSystem.version[1]>>)

(* get_supported_target_versions fails on a release of CentOS that has no     *)
(* virtual one, if it is looked up by that.                                   *)
CanChoose ==
    /\ WellFormed(upSystem.version, upSystem.distro)
    /\ upSystem.target # "centos" => HasVirtual(upSystem.distro, upSystem.version)

(* get_target_release: a release that is asked for is checked for its form    *)
(* only, else the last of the targets is taken.                               *)
GetTargetRelease ==
    /\ upAt = "command"
    /\ \/ /\ upSystem.asked # NoVersion /\ WellFormed(upSystem.asked, upSystem.target)
          /\ upTarget' = upSystem.asked /\ upAt' = "config"
       \/ /\ upSystem.asked = NoVersion /\ CanChoose
          /\ upTarget' = (IF CommandTargets = <<>> THEN NoVersion ELSE Last(CommandTargets))
          /\ upAt' = "config"
       \/ /\ ~IF upSystem.asked # NoVersion THEN WellFormed(upSystem.asked, upSystem.target)
             ELSE CanChoose
          /\ upAt' = "stopped" /\ UNCHANGED upTarget
    /\ UNCHANGED <<upSystem, upPaths, upReports>>

-----------------------------------------------------------------------------
(* make_cross_distro_paths: the targets of the releases of the target's       *)
(* distribution with the virtual release of the source; a later one wins.     *)
Equivalents(source, theirs) ==
    {v \in DOMAIN theirs :
        Virtual(upSystem.target, v) = Virtual(upSystem.distro, source)}
CrossDistroPaths(own, theirs) ==
    [v \in {w \in DOMAIN own : Equivalents(w, theirs) # {}} |->
        theirs[CHOOSE w \in Equivalents(v, theirs) : TRUE]]

RawPaths ==
    LET own == Paths(upSystem.distro, upSystem.flavour)
        theirs == Paths(upSystem.target, upSystem.flavour)
    IN IF upSystem.distro = upSystem.target THEN own ELSE CrossDistroPaths(own, theirs)
OfSourceMajor(paths) ==
    [v \in {w \in DOMAIN paths : w[1] = upSystem.version[1]} |-> paths[v]]

(* max() compares the versions as strings: a minor of two digits is less than *)
(* one of a greater first digit.                                              *)
StringOrder(n) == IF n < 10 THEN 11 * n ELSE 11 * (n \div 10) + 1 + (n % 10)
LatestAsString(targets) ==
    CHOOSE v \in ToSet(targets) : \A w \in ToSet(targets) :
        StringOrder(w[2]) <= StringOrder(v[2])

(* _centos_to_rhel_supported_version_workaround: the minor version before the *)
(* latest is supported too.                                                   *)
WithPreviousMinor(targets) ==
    LET latest == LatestAsString(targets)
        previous == <<latest[1], latest[2] - 1>>
    IN IF latest[2] = 0 \/ previous \in ToSet(targets) THEN targets
       ELSE Append(targets, previous)
IsCentosToRhel == upSystem.distro = "centos" /\ upSystem.target = "rhel"
SupportedPaths ==
    LET paths == OfSourceMajor(RawPaths)
    IN IF IsCentosToRhel THEN [v \in DOMAIN paths |-> WithPreviousMinor(paths[v])] ELSE paths

RequiredMajor(version) == version[1] + 1
CanBeConfigured ==
    /\ upTarget # NoVersion
    /\ upTarget[1] = RequiredMajor(upSystem.version)
    /\ HasVirtual(upSystem.distro, upSystem.version)
    /\ HasVirtual(upSystem.target, upTarget)
    /\ IsCentosToRhel => Cardinality(DOMAIN OfSourceMajor(RawPaths)) <= 1
ProduceIpuConfig ==
    /\ upAt = "config"
    /\ IF CanBeConfigured
       THEN upPaths' = SupportedPaths /\ upAt' = "checks"
       ELSE upAt' = "stopped" /\ UNCHANGED upPaths
    /\ UNCHANGED <<upSystem, upTarget, upReports>>

(* checkosrelease, checktargetversion (by the major version when the source   *)
(* is not listed) and unsupportedupgradecheck.                                *)
CheckedTargets ==
    IF upSystem.version \in DOMAIN upPaths THEN upPaths[upSystem.version]
    ELSE TargetsOf(upPaths, <<upSystem.version[1]>>)
OsReleaseReports ==
    IF "skip os release" \in upSystem.env THEN {"skipped os release"}
    ELSE IF upSystem.version \notin DOMAIN upPaths THEN {"inhibitor"} ELSE {}
TargetReports ==
    IF upTarget \in ToSet(CheckedTargets) \/ "unsupported" \in upSystem.env
    THEN {} ELSE {"inhibitor"}
SupportReports ==
    IF "unsupported" \in upSystem.env THEN {"unsupported"}
    ELSE IF upSystem.env # {} THEN {"inhibitor"} ELSE {}
CheckPath ==
    /\ upAt = "checks"
    /\ upReports' = OsReleaseReports \cup TargetReports \cup SupportReports
    /\ upAt' = (IF "inhibitor" \in upReports' THEN "inhibited" ELSE "accepted")
    /\ UNCHANGED <<upSystem, upTarget, upPaths>>

PathNext == GetTargetRelease \/ ProduceIpuConfig \/ CheckPath
PathSpec == PathInit /\ [][PathNext]_upVars

-----------------------------------------------------------------------------
(* matches_version: with CentOS on either side the release of the source or   *)
(* of the target stands for its virtual release, in the list and in what is   *)
(* detected; then all have to be <<major, minor>>.  A predicate is an         *)
(* operator ("=" in a list of releases) with a release; the result is a set,  *)
(* empty when the comparison raises ValueError.                               *)
Autocorrect(version) ==
    IF upSystem.distro # "centos" /\ upSystem.target # "centos" THEN version
    ELSE IF version = upSystem.version THEN Virtual(upSystem.distro, version)
    ELSE IF version = upTarget THEN Virtual(upSystem.target, version)
    ELSE version
Order(op, v, w) ==
    LET less == v[1] < w[1] \/ (v[1] = w[1] /\ v[2] < w[2])
    IN CASE op = "=" -> v = w
         [] op = "<" -> less
         [] op = "<=" -> less \/ v = w
         [] op = ">" -> ~less /\ v # w
         [] op = ">=" -> ~less
MatchesVersion(op, version, detected) ==
    LET d == Autocorrect(detected)
        v == Autocorrect(version)
    IN IF Len(d) # 2 \/ Len(v) # 2 THEN {} ELSE {Order(op, d, v)}

-----------------------------------------------------------------------------
PathTypeOK ==
    /\ upAt \in {"command", "config", "checks", "accepted", "inhibited", "stopped"}
    /\ Len(upTarget) \in 0..2
    /\ \A v \in DOMAIN upPaths : Len(v) \in 1..2 /\ upPaths[v] # <<>>
    /\ upReports \subseteq {"inhibitor", "unsupported", "skipped os release"}

(* The releases of the table that are the source to a conversion.             *)
Listed(distro, flavour) ==
    {v \in DOMAIN Paths(distro, flavour) : Len(v) = 2 \/ distro = "centos"}
SourceIsListed ==
    /\ upSystem.version \in Listed(upSystem.distro, upSystem.flavour)
    /\ \E v \in Listed(upSystem.target, upSystem.flavour) :
          Virtual(upSystem.target, v) = Virtual(upSystem.distro, upSystem.version)

(* What the command chooses by itself for a release that the table lists is   *)
(* what the checks accept: the command and the actor read the table           *)
(* differently, for every pair of distributions.                              *)
DefaultIsAccepted ==
    (upSystem.asked = NoVersion /\ upSystem.env = {} /\ SourceIsListed) =>
        upAt \notin {"inhibited", "stopped"}

(* Nothing but the next major version is ever upgraded to, and without        *)
(* LEAPP_UNSUPPORTED nothing but what the table has for the release that the  *)
(* source stands for, or the minor version before it from CentOS to RHEL.     *)
OnlyListedTargets ==
    upAt = "accepted" =>
        /\ upTarget[1] = upSystem.version[1] + 1
        /\ "unsupported" \notin upReports =>
              \E v \in DOMAIN Paths(upSystem.target, upSystem.flavour) :
                 /\ Virtual(upSystem.target, v) = Virtual(upSystem.distro, upSystem.version)
                 /\ LET targets == ToSet(Paths(upSystem.target, upSystem.flavour)[v])
                    IN \/ upTarget \in targets
                       \/ /\ IsCentosToRhel
                          /\ <<upTarget[1], upTarget[2] + 1>> \in targets
                          /\ \A t \in targets : t[2] <= upTarget[2] + 1

(* From CentOS to RHEL the user can ask for the minor version before the      *)
(* latest, which may not be out yet.                                          *)
PreviousMinorIsAccepted ==
    (IsCentosToRhel /\ SourceIsListed /\ upSystem.env = {} /\ upAt = "inhibited") =>
        \A v \in Listed("rhel", upSystem.flavour) :
            Virtual("centos", upSystem.version) = v =>
                LET minors == {t[2] : t \in ToSet(Paths("rhel", upSystem.flavour)[v])}
                IN upTarget # <<v[1] + 1, Max(minors) - 1>>

(* Comparing the versions of the running upgrade never fails, and puts the    *)
(* source before the target, whatever forms the two have.                     *)
VersionsCompare ==
    upAt \in {"checks", "accepted"} =>
        /\ WellFormed(upSystem.version, upSystem.distro) =>
              /\ MatchesVersion("<", upTarget, upSystem.version) = {TRUE}
              /\ MatchesVersion("=", upSystem.version, upSystem.version) = {TRUE}
        /\ MatchesVersion(">=", upTarget, upTarget) = {TRUE}

(* The target release that is chosen, accepted or refused, with or without    *)
(* the variables of the user, is one the maps of the paths list for the       *)
(* source.                                                                    *)
TargetsAreSupported ==
    /\ DefaultIsAccepted
    /\ OnlyListedTargets
    /\ PreviousMinorIsAccepted
    /\ VersionsCompare
=============================================================================
