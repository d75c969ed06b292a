---------------------------- MODULE RepositoryMap ----------------------------
(* Which repositories of the target stand in for those of the source. The     *)
(* repository map relates families of repositories (PES IDs); of each family  *)
(* of the target one repository is chosen, by the cloud, architecture,        *)
(* channel and type of a repository of the source (repomap_loader.py,         *)
(* repomap_calc.py), and becomes a target repository (setuptargetrepos.py)    *)
(* that is checked before the upgrade goes on (checktargetrepos.py). The      *)
(* repositories of the source are a set in Python: they come in any order.    *)
EXTENDS Integers, Sequences, FiniteSets

CONSTANTS RepoSystems,    \* the systems, see IsRepoSystem
          BaseFamily      \* DEFAULT_PESID of the source

Channels == {"beta", "ga", "e4s", "eus", "aus"}
MapDefects == {"none", "format", "unknown family", "not a list", "no such path"}

(* An entry of the map: a repository of a family. Entries are in the order of *)
(* the file; one repoid may occur several times.                              *)
IsRepoEntry(r) ==
    /\ r.channel \in Channels /\ r.type \in {"rpm", "debug"}
    /\ r.major \in {"source", "target", "other"}
IsRepoSystem(s) ==
    /\ DOMAIN s.entries \subseteq Nat
    /\ \A i \in DOMAIN s.entries : IsRepoEntry(s.entries[i])
    /\ s.defect \in MapDefects
    /\ \A family \in DOMAIN s.families : IsFiniteSet(s.families[family])
    /\ {s.devel, s.option} \subseteq Channels \cup {"none", "unknown"}
    /\ IsFiniteSet(s.enabled) /\ IsFiniteSet(s.ofPackages)  \* repoids of the source
    /\ s.used \subseteq s.enabled                  \* some package comes from them
    /\ s.useRhsm \in BOOLEAN /\ s.renamed \in BOOLEAN   \* RHUI repoids of RHEL 8.10

ASSUME RepoAssumption == \A s \in RepoSystems : IsRepoSystem(s)

VARIABLES
    rpSystem,     \* the system, one of RepoSystems
    rpAt,         \* "load", "channels", "map", "check", "accepted", "inhibited", "stopped"
    rpTodo,       \* the repoids of the source still to look at
    rpTop,        \* the channel of the base family found so far
    rpBest,       \* of families of the target: the repositories found, as a set
    rpTarget,     \* TargetRepositories: repoids
    rpSkipped     \* SkippedRepositories: repoids
rpVars == <<rpSystem, rpAt, rpTodo, rpTop, rpBest, rpTarget, rpSkipped>>

RepoInit ==
    /\ rpSystem \in RepoSystems
    /\ rpAt = "load" /\ rpTodo = {} /\ rpTop = "none" /\ rpBest = <<>>
    /\ rpTarget = {} /\ rpSkipped = {}

-----------------------------------------------------------------------------
(* The map is loaded; anything wrong with it stops leapp. Its entries are     *)
(* looked at in the order of the file, by their places in it.                 *)
MapEntries ==
    {i \in DOMAIN rpSystem.entries : rpSystem.entries[i].major \in {"source", "target"}}
FirstEntry(places) ==
    {rpSystem.entries[i] : i \in {j \in places : \A k \in places : j <= k}}
LastEntry(places) ==
    {rpSystem.entries[i] : i \in {j \in places : \A k \in places : k <= j}}

ChannelPrio(channel) == CASE channel = "beta" -> 0 [] channel = "ga" -> 1 [] OTHER -> 10

(* get_pesid_repo_entry: of several entries of a repoid the first of the      *)
(* cloud, else the last of no cloud. The result is a set of one or none.      *)
SourceEntries(repoid) ==
    {i \in MapEntries : LET r == rpSystem.entries[i]
                        IN r.repoid = repoid /\ r.major = "source"
                             /\ r.distro = rpSystem.sourceDistro}
EntryOf(repoid) ==
    LET found == SourceEntries(repoid)
        of(cloud) == {i \in found : rpSystem.entries[i].rhui = cloud}
    IN IF \A i, j \in found : i = j THEN FirstEntry(found)
       ELSE IF of(rpSystem.cloud) # {} THEN FirstEntry(of(rpSystem.cloud))
       ELSE LastEntry(of(""))
IsMapped(repoid) == EntryOf(repoid) # {}

(* The repositories to map: the enabled ones, and those packages come from    *)
(* that are in the map; RHUI repoids of RHEL 8.10 under their older names.    *)
OldName(repoid) == IF repoid = "new name" THEN "old name" ELSE repoid
ReposToMap ==
    LET found == rpSystem.enabled \cup {r \in rpSystem.ofPackages : IsMapped(r)}
    IN IF rpSystem.renamed THEN {OldName(r) : r \in found} ELSE found

(* get_target_product_channel: the variable for development comes first, and  *)
(* beta is for it only; a channel that is unknown stops leapp.                *)
RequestedChannel == IF rpSystem.devel # "none" THEN rpSystem.devel ELSE rpSystem.option
ValidChannels ==
    IF rpSystem.devel # "none" THEN Channels ELSE (Channels \ {"beta"}) \cup {"none"}

LoadMapping ==
    /\ rpAt = "load"
    /\ IF rpSystem.defect # "none" \/ RequestedChannel \notin ValidChannels
       THEN rpAt' = "stopped" /\ UNCHANGED rpTodo
       ELSE rpAt' = "channels" /\ rpTodo' = ReposToMap
    /\ UNCHANGED <<rpSystem, rpTop, rpBest, rpTarget, rpSkipped>>

-----------------------------------------------------------------------------
(* get_default_repository_channels                                            *)
TopChannel(repoid) ==
    LET ofBase == {r \in EntryOf(repoid) : r.family = BaseFamily}
    IN IF ofBase = {} THEN rpTop
       ELSE LET channel == (CHOOSE r \in ofBase : TRUE).channel
            IN IF rpTop = "none" \/ ChannelPrio(channel) > ChannelPrio(rpTop)
               THEN channel ELSE rpTop
FindChannels ==
    /\ rpAt = "channels"
    /\ \/ \E repoid \in rpTodo :
            /\ rpTop' = TopChannel(repoid) /\ rpTodo' = rpTodo \ {repoid}
            /\ UNCHANGED rpAt
       \/ /\ rpTodo = {} /\ rpAt' = "map" /\ rpTodo' = ReposToMap /\ UNCHANGED rpTop
    /\ UNCHANGED <<rpSystem, rpBest, rpTarget, rpSkipped>>
DefaultChannel == IF rpTop = "none" THEN "ga" ELSE rpTop   \* ga comes after it

(* _find_repository_target_equivalent: the wanted channel, else the default   *)
(* one, else ga.                                                              *)
Candidates(source, family) ==
    {i \in MapEntries :
        LET r == rpSystem.entries[i]
        IN r.family = family /\ r.major = "target" /\ r.distro = rpSystem.distro
             /\ r.rhui = source.rhui /\ r.type = "rpm" /\ r.arch = rpSystem.arch}
WantedChannel(source) ==
    IF RequestedChannel = "none" THEN source.channel ELSE RequestedChannel
Equivalent(source, family) ==
    LET of(channel) ==
            {i \in Candidates(source, family) : rpSystem.entries[i].channel = channel}
    IN IF of(WantedChannel(source)) # {} THEN FirstEntry(of(WantedChannel(source)))
       ELSE IF of(DefaultChannel) # {} THEN FirstEntry(of(DefaultChannel))
       ELSE FirstEntry(of("ga"))

(* get_expected_target_pesid_repos: a family may have been entered with no    *)
(* repository; of two repositories the one of the higher channel is kept.     *)
FirstFound(best, found) == IF best = {} THEN found ELSE best   \* mutant
Better(best, found) ==
    IF best = {} \/ found = {} THEN best \cup found
    ELSE IF ChannelPrio((CHOOSE r \in found : TRUE).channel)
              > ChannelPrio((CHOOSE r \in best : TRUE).channel)
         THEN found ELSE best
FamiliesOf(source) ==
    IF source.family \in DOMAIN rpSystem.families
    THEN rpSystem.families[source.family] ELSE {}
MapRepository(repoid) ==
    /\ rpAt = "map" /\ repoid \in rpTodo
    /\ rpTodo' = rpTodo \ {repoid}
    /\ LET families == UNION {FamiliesOf(s) : s \in EntryOf(repoid)}
           found(f) == UNION {Equivalent(s, f) : s \in EntryOf(repoid)}
       IN rpBest' = [f \in DOMAIN rpBest \cup families |->
                       IF f \notin families THEN rpBest[f]
                       ELSE IF f \notin DOMAIN rpBest THEN found(f)
                       ELSE Better(rpBest[f], found(f))]
    /\ UNCHANGED <<rpSystem, rpAt, rpTop, rpTarget, rpSkipped>>

(* The target repositories: those of the families, those asked for and the    *)
(* custom ones, but none that is excluded.                                    *)
ChosenRepos == UNION {rpBest[f] : f \in DOMAIN rpBest}
TargetRepoids ==
    ({r.repoid : r \in ChosenRepos} \cup rpSystem.requested \cup rpSystem.custom)
      \ rpSystem.excluded
SetupTargetRepos ==
    /\ rpAt = "map" /\ rpTodo = {} /\ rpAt' = "check"
    /\ rpTarget' = TargetRepoids
    /\ rpSkipped' = {r \in rpSystem.enabled \cap rpSystem.used : ~IsMapped(r)}
    /\ UNCHANGED <<rpSystem, rpTodo, rpTop, rpBest>>

(* Without subscription manager and RHUI, RHEL needs custom repositories.     *)
CheckTargetRepos ==
    /\ rpAt = "check"
    /\ rpAt' = IF /\ rpSystem.distro = "rhel" /\ ~rpSystem.useRhsm /\ rpSystem.cloud = ""
                  /\ rpSystem.custom \subseteq rpSystem.excluded
               THEN "inhibited" ELSE "accepted"
    /\ UNCHANGED <<rpSystem, rpTodo, rpTop, rpBest, rpTarget, rpSkipped>>

RepoNext ==
    \/ LoadMapping \/ FindChannels \/ SetupTargetRepos \/ CheckTargetRepos
    \/ \E repoid \in rpTodo : MapRepository(repoid)
RepoSpec == RepoInit /\ [][RepoNext]_rpVars

-----------------------------------------------------------------------------
(* The sets the variables take their values from.                             *)
ReposTypeOK ==
    /\ rpAt \in {"load", "channels", "map", "check", "accepted", "inhibited", "stopped"}
    /\ rpTop \in Channels \cup {"none"}
    /\ \A f \in DOMAIN rpBest : /\ Cardinality(rpBest[f]) <= 1
                                /\ \A r \in rpBest[f] : r.family = f /\ r.major = "target"
    /\ rpTarget \cap rpSystem.excluded = {}

(* What could serve a family of the target, found from any of the source.     *)
ReposMapped == rpAt \in {"check", "accepted", "inhibited"}
Servers(f) ==
    UNION {Equivalent(s, f) : s \in {t \in UNION {EntryOf(r) : r \in ReposToMap} :
                                       f \in FamiliesOf(t)}}

(* A family that some repository of the source is mapped to and has a         *)
(* counterpart in is among the target repositories, although others of the    *)
(* source have none there, in whichever order they are looked at; only an     *)
(* excluded one is not (get_expected_target_pesid_repos).                     *)
EachFamilyIsServed ==
    ReposMapped =>
      \A r \in ReposToMap : \A s \in EntryOf(r) : \A f \in FamiliesOf(s) :
        Servers(f) # {} =>
          \E t \in Servers(f) : t.repoid \in rpTarget \cup rpSystem.excluded

(* "priority: beta < ga < all_else": of the repositories that could serve a   *)
(* family none is of a higher channel than the one chosen.                    *)
HighestChannelIsChosen ==
    ReposMapped =>
      \A f \in DOMAIN rpBest : \A t \in rpBest[f], other \in Servers(f) :
        ChannelPrio(other.channel) <= ChannelPrio(t.channel)

(* A repository of the target is of the cloud the system is on, unless one of *)
(* the source that leads to its family is in the map for no such cloud: with  *)
(* an entry for the cloud the one for the CDN does not count                  *)
(* (get_pesid_repo_entry).                                                    *)
CloudStaysCloud ==
    ReposMapped =>
      \A f \in DOMAIN rpBest : \A t \in rpBest[f] :
        \/ t.rhui = rpSystem.cloud
        \/ \E r \in ReposToMap : \E s \in EntryOf(r) :
             /\ f \in FamiliesOf(s) /\ s.rhui = t.rhui
             /\ \A i \in SourceEntries(r) : rpSystem.entries[i].rhui # rpSystem.cloud

(* When a family has nothing in the channel wanted, it is served from the     *)
(* premium channel of the base repositories before it is from ga or beta      *)
(* ("we do not expect multiple different premium channels": if there are, it  *)
(* has to have all of them; get_default_repository_channels).                 *)
PremiumChannels ==
    {r.channel : r \in {s \in UNION {EntryOf(q) : q \in ReposToMap} :
                          s.family = BaseFamily /\ s.channel \notin {"beta", "ga"}}}
SystemChannelIsPreferred ==
    ReposMapped =>
      \A r \in ReposToMap : \A s \in EntryOf(r) : \A f \in FamiliesOf(s) :
        LET channels == {rpSystem.entries[i].channel : i \in Candidates(s, f)}
        IN PremiumChannels # {} /\ PremiumChannels \subseteq channels
             /\ WantedChannel(s) \notin channels
           => \E t \in rpBest[f] : t.channel \notin {"beta", "ga"}

(* For each family of repositories in use the best target repository is       *)
(* chosen, of the cloud the system runs in and of the channel that suits it,  *)
(* whatever the order of the map.                                             *)
BestRepositoriesAreChosen ==
    /\ EachFamilyIsServed
    /\ HighestChannelIsChosen
    /\ CloudStaysCloud
    /\ SystemChannelIsPreferred
=============================================================================
