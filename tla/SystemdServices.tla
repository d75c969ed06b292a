--------------------------- MODULE SystemdServices ---------------------------
(* Systemd services across the upgrade: units, presets and symlinks are       *)
(* scanned before it and after the RPM transaction; from the two scans leapp  *)
(* works out which services to enable and to disable, repairs the symlinks    *)
(* the upgrade broke, and at the end carries out all tasks (systemd.py and    *)
(* the actors under actors/systemd). systemctl is modelled by its effect.     *)
EXTENDS Integers, Sequences, FiniteSets, FiniteSetsExt, SequencesExt

CONSTANTS ServiceSystems   \* the systems, see IsServiceSystem

Relevant == {"enabled", "disabled", "enabled-runtime"}
UnitStates == Relevant \cup {"masked", "masked-runtime", "static"}
ScanSteps == {"links", "units", "presets"}

(* A preset file: its name (a number, for its place in the order), whether it *)
(* is a symlink to /dev/null, and its entries: a verb and the units it        *)
(* matches. Of one directory, no two files have the same name.                *)
IsPresetFile(f) ==
    /\ f.name \in Nat /\ f.null \in BOOLEAN
    /\ \A i \in DOMAIN f.entries : f.entries[i].verb \in {"enable", "disable", "bad"}
IsServiceSystem(s) ==
    /\ \A u \in DOMAIN s.source : s.source[u] \in UnitStates
    /\ \A u \in DOMAIN s.target : s.target[u] \in UnitStates
    /\ \A side \in {"source", "target"} : \A dir \in {"etc", "usr"} :
         \A i \in DOMAIN s.presets[side][dir] : IsPresetFile(s.presets[side][dir][i])
    /\ s.brokenBefore \cap s.brokenByUpgrade = {}    \* of <<directory, unit>>
    /\ \A t \in s.early \cup s.late : DOMAIN t = {"enable", "disable"}
    /\ s.failing \subseteq DOMAIN s.target           \* systemctl fails for them
    /\ s.failingScans \subseteq {"source", "target"} \X ScanSteps

ASSUME ServiceAssumption == \A s \in ServiceSystems : IsServiceSystem(s)

VARIABLES
    svSystem,     \* the system, one of ServiceSystems
    svAt,         \* the phase
    svState,      \* the states of the units
    svLinks,      \* the broken symlinks of /etc/systemd/system
    svScans,      \* the messages of the two scans
    svTasks,      \* the SystemdServicesTasks messages
    svTodo,       \* the actors of the Applications phase still to run
    svReports
svVars == <<svSystem, svAt, svState, svLinks, svScans, svTasks, svTodo, svReports>>

ServiceInit ==
    /\ svSystem \in ServiceSystems
    /\ svAt = "facts" /\ svState = svSystem.source /\ svLinks = svSystem.brokenBefore
    /\ svScans = <<>> /\ svTasks = svSystem.early /\ svTodo = {} /\ svReports = {}

-----------------------------------------------------------------------------
(* Presets. The loops go over the lists they remove files from: after a       *)
(* symlink to /dev/null is taken out of etc, the file next to it is passed    *)
(* over.                                                                      *)
RemovesInLoop(lists, n) ==
    IF lists.next > Len(lists.etc) THEN lists
    ELSE LET file == lists.etc[lists.next]
             overrides == \E u \in Range(lists.usr) : u.name = file.name
         IN [etc |-> IF overrides /\ file.null THEN Remove(lists.etc, file) ELSE lists.etc,
             usr |-> SelectSeq(lists.usr, LAMBDA u : u.name # file.name),
             next |-> lists.next + 1]
JoinPresets(etc, usr) ==
    FoldLeft(RemovesInLoop, [etc |-> etc, usr |-> usr, next |-> 1],
             [i \in 1..Len(etc) |-> i])

(* The files are sorted by path, so those of /etc come first.                 *)
ByName(files) == SortSeq(files, LAMBDA f, g : f.name < g.name)
PresetFiles(dirs) ==
    LET joined == JoinPresets(dirs.etc, dirs.usr)
    IN ByName(joined.etc) \o ByName(joined.usr)
Entries(files) == FlattenSeq([i \in DOMAIN files |-> files[i].entries])
HasInvalidEntry(dirs) == \E e \in Range(Entries(PresetFiles(dirs))) : e.verb = "bad"

(* The first entry that matches a unit counts. None of static units is kept.  *)
ParsePresets(dirs, units) ==
    LET entries == SelectSeq(Entries(PresetFiles(dirs)), LAMBDA e : e.verb # "bad")
        matching(u) == {i \in DOMAIN entries : u \in entries[i].units}
    IN [u \in {v \in DOMAIN units : units[v] # "static" /\ matching(v) # {}} |->
          entries[Min(matching(u))].verb]
PresetOf(u, presets) == IF u \in DOMAIN presets THEN presets[u] ELSE "disable"

-----------------------------------------------------------------------------
(* Facts: a scan of the source that fails stops leapp.                        *)
ScanOf(side) ==
    [links |-> svLinks, units |-> svState,
     presets |-> ParsePresets(svSystem.presets[side], svState)]
ScanSystemdSource ==
    /\ svAt = "facts"
    /\ IF \/ \E step \in ScanSteps : <<"source", step>> \in svSystem.failingScans
          \/ HasInvalidEntry(svSystem.presets["source"])
       THEN svAt' = "stopped" /\ UNCHANGED svScans
       ELSE svAt' = "checks" /\ svScans' = [source |-> ScanOf("source")]
    /\ UNCHANGED <<svSystem, svState, svLinks, svTasks, svTodo, svReports>>

CheckBrokenSymlinks ==
    LET scan == svScans.source
        enabled(link) == link[2] \in DOMAIN scan.units /\ scan.units[link[2]] = "enabled"
    IN /\ svAt = "checks" /\ svAt' = "tasks"
       /\ svReports' = svReports \cup
            {<<IF enabled(link) THEN "broken for existing" ELSE "broken", link>> :
               link \in scan.links}
       /\ UNCHANGED <<svSystem, svState, svLinks, svScans, svTasks, svTodo>>

Enabling(tasks) == UNION {t.enable : t \in tasks}
Disabling(tasks) == UNION {t.disable : t \in tasks}

(* TargetTransactionChecks: only what was asked for by then can be checked.   *)
TaskConflicts == Enabling(svTasks) \cap Disabling(svTasks)
CheckServicesTasks ==
    /\ svAt = "tasks"
    /\ svAt' = IF TaskConflicts = {} THEN "transaction" ELSE "inhibited"
    /\ UNCHANGED <<svSystem, svState, svLinks, svScans, svTasks, svTodo, svReports>>

(* The RPM transaction, and the actors that ask for services after it.        *)
UpgradeUnits ==
    /\ svAt = "transaction" /\ svAt' = "applications"
    /\ svState' = svSystem.target
    /\ svLinks' = svSystem.brokenBefore \cup svSystem.brokenByUpgrade
    /\ svTasks' = svTasks \cup svSystem.late
    /\ svTodo' = {"transition", "repair"}
    /\ UNCHANGED <<svSystem, svScans, svReports>>

(* Applications: a scan of the target that fails is left out; presets are not *)
(* scanned without units, and their invalid entries are passed over.          *)
ScanSystemdTarget ==
    LET failed(step) == <<"target", step>> \in svSystem.failingScans
    IN /\ svAt = "applications" /\ DOMAIN svScans = {"source"}
       /\ svScans' = [source |-> svScans.source, target |-> ScanOf("target"),
                      has |-> {step \in ScanSteps :
                                 /\ ~failed(step)
                                 /\ step = "presets" => ~failed("units")}]
       /\ UNCHANGED <<svSystem, svAt, svState, svLinks, svTasks, svTodo, svReports>>
TargetScanned == svAt = "applications" /\ DOMAIN svScans # {"source"}

-----------------------------------------------------------------------------
(* The states the services are to have.                                       *)
IgnoredServices == {"libvirtd.service"}       \* and the others of libvirt
HandledServices ==
    LET source == svScans.source.units
        target == svScans.target.units
    IN {u \in DOMAIN target \cap (DOMAIN source \ IgnoredServices) :
          target[u] \in Relevant /\ source[u] # "masked-runtime"}
DesiredOfTarget(u) ==
    IF PresetOf(u, svScans.target.presets) = "enable" THEN "enabled" ELSE "disabled"
DesiredOfPresets(u) ==   \* mutant
    IF svScans.source.units[u] \in {"disabled", "enabled-runtime"}
    THEN DesiredOfTarget(u) ELSE svScans.source.units[u]
DesiredState(u) ==
    IF /\ svScans.source.units[u] \in {"disabled", "enabled-runtime"}
       /\ PresetOf(u, svScans.source.presets) = "disable"
    THEN DesiredOfTarget(u)
    ELSE svScans.source.units[u]
Wanted(state) ==
    {u \in HandledServices : DesiredState(u) = state /\ svScans.target.units[u] # state}
NewlyEnabled ==
    {u \in HandledServices :
       svScans.source.units[u] = "disabled" /\ DesiredState(u) = "enabled"}

TransitionServices ==
    /\ TargetScanned /\ "transition" \in svTodo
    /\ IF {"units", "presets"} \subseteq svScans.has
       THEN /\ svTasks' = svTasks \cup
                 {[enable |-> Wanted("enabled"), disable |-> Wanted("disabled")]}
            /\ svReports' = svReports \cup {<<"newly enabled", u>> : u \in NewlyEnabled}
            /\ svTodo' = svTodo \ {"transition"} /\ UNCHANGED svAt
       ELSE svAt' = "failed" /\ UNCHANGED <<svTasks, svReports, svTodo>>
    /\ UNCHANGED <<svSystem, svState, svLinks, svScans>>

-----------------------------------------------------------------------------
(* systemctl enable and disable, each for the units it does not fail for.     *)
CanEnable(u) == u \in DOMAIN svState \ svSystem.failing /\ svState[u] \in Relevant
AfterEnable(state, units) ==
    [u \in DOMAIN state |->
       IF u \in units /\ CanEnable(u) THEN "enabled" ELSE state[u]]
AfterDisable(state, units) ==
    [u \in DOMAIN state |->
       IF u \in units \ svSystem.failing /\ state[u] = "enabled"
       THEN "disabled" ELSE state[u]]
LinksAfterDisable(links, units) ==
    {link \in links : link[2] \notin units \ svSystem.failing}

(* The repair of the symlinks that were not broken before. A unit that is not *)
(* enabled is disabled, which removes its links; one that is, before and now, *)
(* is disabled and enabled again. Services whose installation changed: none.  *)
InstallationChanged == {}
IsUnitEnabled(u) == u \in DOMAIN svState /\ svState[u] = "enabled"
EnabledOnSource(u) ==
    u \in DOMAIN svScans.source.units /\ svScans.source.units[u] = "enabled"
AllBroken == svScans.target.links   \* mutant
NewlyBroken == svScans.target.links \ svScans.source.links
UnitsOf(links) == {link[2] : link \in links}
RepairSystemdSymlinks ==
    LET broken == IF "links" \in svScans.has THEN UnitsOf(NewlyBroken) ELSE {}
        disable == {u \in broken : ~IsUnitEnabled(u)}
        reenable == {u \in broken \cup InstallationChanged :
                       EnabledOnSource(u) /\ IsUnitEnabled(u)}
    IN /\ TargetScanned /\ "repair" \in svTodo
       /\ svLinks' = LinksAfterDisable(svLinks, disable \cup reenable)
       /\ svState' = AfterEnable(AfterDisable(svState, disable), reenable)
       /\ svTodo' = svTodo \ {"repair"}
       /\ UNCHANGED <<svSystem, svAt, svScans, svTasks, svReports>>

EndOfApplications ==
    /\ TargetScanned /\ svTodo = {} /\ svAt' = "finalization"
    /\ UNCHANGED <<svSystem, svState, svLinks, svScans, svTasks, svTodo, svReports>>

(* Finalization: each service by a call of its own, the disabling ones last.  *)
AfterTasks ==
    AfterDisable(AfterEnable(svState, Enabling(svTasks) \ Disabling(svTasks)),
                 Disabling(svTasks))
SetServicesStates ==
    /\ svAt = "finalization" /\ svAt' = "done"
    /\ svState' = AfterTasks
    /\ svLinks' = LinksAfterDisable(svLinks, Disabling(svTasks))
    /\ UNCHANGED <<svSystem, svScans, svTasks, svTodo, svReports>>

ServiceNext ==
    \/ ScanSystemdSource \/ CheckBrokenSymlinks \/ CheckServicesTasks \/ UpgradeUnits
    \/ ScanSystemdTarget \/ TransitionServices \/ RepairSystemdSymlinks
    \/ EndOfApplications \/ SetServicesStates
ServiceSpec == ServiceInit /\ [][ServiceNext]_svVars
-----------------------------------------------------------------------------
(* The sets the variables take their values from.                             *)
ServicesTypeOK ==
    /\ svAt \in {"facts", "checks", "tasks", "transaction", "applications", "finalization",
                 "done", "stopped", "inhibited", "failed"}
    /\ \A u \in DOMAIN svState : svState[u] \in UnitStates
    /\ svLinks \subseteq svSystem.brokenBefore \cup svSystem.brokenByUpgrade
    /\ svTodo \subseteq {"transition", "repair"}
    /\ DOMAIN svScans \subseteq {"source", "target", "has"}
    /\ \A t \in svTasks \ (svSystem.early \cup svSystem.late) :
         /\ t.enable \cup t.disable \subseteq DOMAIN svState \ IgnoredServices
         /\ t.enable \cap t.disable = {}

AskedFor == Enabling(svSystem.early \cup svSystem.late)
AskedAgainst == Disabling(svSystem.early \cup svSystem.late)

(* "All enabled services remain enabled": whatever the transaction, the       *)
(* repair and the presets do to a service, and whichever other service        *)
(* systemctl fails for, it ends enabled if it was and can be                  *)
(* (transitionsystemdservicesstates, setsystemdservicesstates).               *)
EnabledStayEnabled ==
    svAt = "done" =>
      \A u \in DOMAIN svState \ (IgnoredServices \cup svSystem.failing \cup AskedAgainst) :
        /\ u \in DOMAIN svSystem.source /\ svSystem.source[u] = "enabled"
        /\ svSystem.target[u] \in Relevant
        => svState[u] = "enabled"

(* A service the administrator disabled although the preset enables it is not *)
(* enabled by the upgrade, not by the packages and not by the presets of the  *)
(* target, unless an actor asks for it (_get_desired_service_state).          *)
DisabledByHandStays ==
    svAt = "done" =>
      \A u \in DOMAIN svState \ (IgnoredServices \cup svSystem.failing \cup AskedFor) :
        /\ u \in DOMAIN svSystem.source /\ svSystem.source[u] = "disabled"
        /\ PresetOf(u, svScans.source.presets) = "enable"
        /\ svSystem.target[u] \in Relevant
        => svState[u] # "enabled"

(* A service that was disabled and ends enabled is one the administrator is   *)
(* told of, one an actor asked for, or one leapp leaves alone or could not    *)
(* change (_report_newly_enabled).                                            *)
NewlyEnabledAreReported ==
    svAt = "done" =>
      \A u \in DOMAIN svState \ (IgnoredServices \cup svSystem.failing \cup AskedFor) :
        /\ u \in DOMAIN svSystem.source /\ svSystem.source[u] = "disabled"
        /\ svState[u] = "enabled"
        => <<"newly enabled", u>> \in svReports

(* A service asked to be enabled and to be disabled is never enabled by it:   *)
(* it inhibits the upgrade when both are known before the transaction, and    *)
(* ends disabled when one comes later (models/systemd.py, conflicting tasks). *)
ConflictsEndDisabled ==
    /\ svAt \notin {"facts", "checks", "tasks", "stopped", "inhibited"} =>
         Enabling(svSystem.early) \cap Disabling(svSystem.early) = {}
    /\ svAt = "done" =>
         \A u \in DOMAIN svState \cap (AskedFor \cap AskedAgainst) :
           u \notin svSystem.failing => svState[u] # "enabled"

(* Symlinks that were broken before the upgrade are not handled by the repair *)
(* unless the same unit has one the upgrade broke; those the upgrade broke do *)
(* not stay when the unit is not enabled or was enabled before                *)
(* (checksystemdbrokensymlinks, repairsystemdsymlinks).                       *)
OnlyNewlyBrokenAreRepaired ==
    [][RepairSystemdSymlinks =>
         LET touched == svLinks \ svLinks'
             known == "links" \in svScans.has
             units == UnitsOf(svSystem.brokenByUpgrade)
         IN /\ \A link \in touched : known /\ link[2] \in units
            /\ \A link \in svLinks' \cap svSystem.brokenByUpgrade :
                 \/ ~known \/ link[2] \in svSystem.failing
                 \/ IsUnitEnabled(link[2]) /\ ~EnabledOnSource(link[2])]_svVars

(* "Preset files in /etc/ override those with the same name in /usr/. If such *)
(* a file is a symlink to /dev/null, it disables the one in /usr/ instead."   *)
(* (docstring of _join_presets_resolving_overrides)                           *)
OverriddenPresetsAreOff ==
    svAt = "facts" =>
      \A side \in {"source", "target"} :
        LET dirs == svSystem.presets[side]
            joined == JoinPresets(dirs.etc, dirs.usr)
        IN \A e \in Range(dirs.etc), u \in Range(joined.usr) : e.name # u.name

(* Once the upgrade is done each service is in the state that the             *)
(* administrator had chosen, the presets of the target give or an actor asked *)
(* for, in this order of strength, or a report says otherwise.                *)
ServicesFollowTheUser ==
    /\ EnabledStayEnabled
    /\ DisabledByHandStays
    /\ NewlyEnabledAreReported
    /\ ConflictsEndDisabled
=============================================================================
