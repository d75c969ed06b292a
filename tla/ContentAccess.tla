---------------------------- MODULE ContentAccess ----------------------------
(* How the system gets at the content of the target and keeps at it: the      *)
(* subscription manager (RHSM) or the clients of a public cloud (RHUI).       *)
(*                                                                            *)
(* The facts tell the subscription and which cloud the installed clients      *)
(* belong to; the checks inhibit the upgrade; the transaction swaps the       *)
(* clients; dnf's release variable and the release and repositories of the    *)
(* subscription manager are set on the target system.  A release is a pair    *)
(* <<major, minor>>; minor 0 also stands for a version without a minor        *)
(* (CentOS Stream), which the code treats alike.                              *)
EXTENDS Integers, FiniteSets, FiniteSetsExt

CONSTANTS
    AccessSystems,   \* the systems to upgrade, see IsAccessSystem
    MaxAttempts      \* how often a call of subscription-manager is tried

-----------------------------------------------------------------------------
(* RHUI_SETUPS: the setups of each family <<provider, variant, architecture>> *)
Setup(client, package, release) ==
    [clients |-> {client}, leappPkg |-> package, release |-> release]
Majors(client, package) == {Setup(client, package, <<major, 0>>) : major \in 8..10}
Of(family, setups) == {[family |-> family, setup |-> s] : s \in setups}

AwsSetups ==
    UNION {Of(<<"aws", "ordinary", arch>>, Majors("rh-amazon-rhui-client", "leapp-rhui-aws")) :
             arch \in {"x86_64", "aarch64"}}
AwsSapSetups ==
    Of(<<"aws", "sap", "x86_64">>,
       Majors("rh-amazon-rhui-client-sap-bundle-e4s", "leapp-rhui-aws-sap-e4s")
         \cup {Setup("rh-amazon-rhui-client-sap-bundle", "leapp-rhui-aws-sap-e4s", <<8, 10>>)})
AzureSetups ==
    Of(<<"azure", "ordinary", "x86_64">>,
       {Setup("rhui-azure-rhel8", "leapp-rhui-azure", <<8, 0>>),
        Setup("rhui-azure-rhel9", "leapp-rhui-azure", <<9, 0>>),
        Setup("rhui-azure-rhel10", "leapp-rhui-azure", <<10, 0>>)})
AzureSapSetups ==
    Of(<<"azure", "sap-apps", "x86_64">>,
       {Setup("rhui-azure-rhel8-sapapps", "leapp-rhui-azure-sap", <<8, 0>>),
        Setup("rhui-azure-rhel8-base-sap-apps", "leapp-rhui-azure-sap", <<8, 10>>),
        Setup("rhui-azure-rhel9-sapapps", "leapp-rhui-azure-sap", <<9, 0>>),
        Setup("rhui-azure-rhel10-sapapps", "leapp-rhui-azure-sap", <<10, 0>>)})
    \cup
    Of(<<"azure", "sap-ha", "x86_64">>,
       {Setup("rhui-azure-rhel8-sap-ha", "leapp-rhui-azure-sap", <<8, 0>>),
        Setup("rhui-azure-rhel8-base-sap-ha", "leapp-rhui-azure-sap", <<8, 10>>),
        Setup("rhui-azure-rhel9-sap-ha", "leapp-rhui-azure-sap", <<9, 0>>),
        Setup("rhui-azure-rhel10-sap-ha", "leapp-rhui-azure-sap", <<10, 0>>)})
GoogleSetups ==
    Of(<<"google", "ordinary", "x86_64">>,
       {Setup("google-rhui-client-rhel8", "leapp-rhui-google", <<8, 0>>),
        Setup("google-rhui-client-rhel9", "leapp-rhui-google", <<9, 0>>)})
    \cup
    Of(<<"google", "sap", "x86_64">>,
       {Setup("google-rhui-client-rhel8-sap", "leapp-rhui-google-sap", <<8, 0>>),
        Setup("google-rhui-client-rhel810-sap", "leapp-rhui-google-sap", <<8, 10>>),
        Setup("google-rhui-client-rhel9-sap", "leapp-rhui-google-sap", <<9, 0>>)})
AlibabaSetups ==
    UNION {Of(<<"alibaba", "ordinary", arch>>,
              {Setup("aliyun_rhui_rhel8", "leapp-rhui-alibaba", <<8, 0>>),
               Setup("aliyun_rhui_rhel9", "leapp-rhui-alibaba", <<9, 0>>),
               Setup("aliyun_rhui_rhel10", "leapp-rhui-alibaba", <<10, 0>>)}) :
             arch \in {"x86_64", "aarch64"}}
RhuiSetups == AwsSetups \cup AwsSapSetups \cup AzureSetups \cup AzureSapSetups
                \cup GoogleSetups \cup AlibabaSetups

-----------------------------------------------------------------------------
NoConfig == [use |-> FALSE, src |-> {}, target |-> {}, repos |-> {}, files |-> TRUE]

IsAccessSystem(s) ==
    /\ s.packages # {}                          \* installed, clients among them
    /\ s.arch \in {"x86_64", "aarch64"}
    /\ s.source \in Nat \X Nat /\ s.target \in Nat \X Nat /\ s.source[1] < s.target[1]
    /\ s.rhel \in BOOLEAN                       \* RHEL before and after
    /\ s.noRhsm \in BOOLEAN                     \* LEAPP_NO_RHSM
    /\ s.beta \in BOOLEAN                       \* the target product type
    /\ s.subscription \in {"skus", "sca", "none"}
    /\ s.pinned \in BOOLEAN                     \* subscription-manager release
    /\ s.releasever \in BOOLEAN                 \* /etc/dnf/vars/releasever is there
    /\ DOMAIN s.config = DOMAIN NoConfig        \* the section rhui of the configuration

ASSUME AccessAssumption ==
    /\ MaxAttempts \in Nat \ {0}
    /\ \A s \in AccessSystems : IsAccessSystem(s)

VARIABLES
    caSystem,       \* the system, one of AccessSystems
    caAt,           \* where the upgrade is
    caInfo,         \* RHSMInfo: "none" or the subscription
    caRhui,         \* RHUIInfo: the families' setups, or NoSetup
    caTasks,        \* RpmTransactionTasks of checkrhui
    caPackages,     \* installed
    caReleasever,   \* what dnf's variable says: "unset", "source" or "target"
    caRelease,      \* the release of the subscription manager, likewise
    caRepos,        \* the repositories of which system it enables
    caTries,        \* failed attempts of the running call
    caReports       \* what the administrator is told
caVars == <<caSystem, caAt, caInfo, caRhui, caTasks, caPackages, caReleasever,
            caRelease, caRepos, caTries, caReports>>

NoSetup == [src |-> {}, target |-> {}, bootstrap |-> FALSE]
NoRpmTasks == [install |-> {}, remove |-> {}]

AccessInit ==
    /\ caSystem \in AccessSystems
    /\ caAt = "scan"
    /\ caInfo = "none" /\ caRhui = NoSetup /\ caTasks = NoRpmTasks
    /\ caPackages = caSystem.packages
    /\ caReleasever = (IF caSystem.releasever THEN "source" ELSE "unset")
    /\ caRelease = (IF caSystem.pinned THEN "source" ELSE "unset")
    /\ caRepos = "source" /\ caTries = 0 /\ caReports = {}

(* scansubscriptionmanagerinfo: skipped without RHSM; any of its calls of     *)
(* subscription-manager and yum may fail.                                     *)
ScanSubscription ==
    /\ caAt = "scan"
    /\ \/ /\ caSystem.noRhsm
          /\ caAt' = "rhui" /\ caInfo' = "none"
       \/ /\ ~caSystem.noRhsm
          /\ caAt' = "rhui" /\ caInfo' = caSystem.subscription
       \/ /\ ~caSystem.noRhsm
          /\ caAt' = "stopped" /\ UNCHANGED caInfo
    /\ UNCHANGED <<caSystem, caRhui, caTasks, caPackages, caReleasever, caRelease,
                   caRepos, caTries, caReports>>

-----------------------------------------------------------------------------
(* checkrhui: the setups whose clients are installed, those of them with the  *)
(* most clients, and of these the closest in time.                            *)
Matching ==
    {m \in RhuiSetups :
        /\ m.family[3] = caSystem.arch
        /\ m.setup.release[1] = caSystem.source[1]
        /\ m.setup.clients \subseteq caSystem.packages}
Largest(matching) ==
    {m \in matching : \A n \in matching :
        Cardinality(n.setup.clients) <= Cardinality(m.setup.clients)}

Highest(minors, optimal) ==
    Max({0} \cup {v \in minors : optimal = 0 \/ v <= optimal})
Closest(matching, optimal) ==
    LET minors == {m.setup.release[2] : m \in matching}
    IN {m \in matching : m.setup.release[2] = Highest(minors, optimal)}

SourceSetups == Closest(Largest(Matching), caSystem.source[2])
OfTarget(family) ==
    {m \in RhuiSetups : m.family = family /\ m.setup.release[1] = caSystem.target[1]}
(* Unlike for the source, the newest is taken when the target predates all.   *)
TargetSetups(family) ==
    IF Closest(OfTarget(family), caSystem.target[2]) # {}
    THEN Closest(OfTarget(family), caSystem.target[2])
    ELSE {m \in OfTarget(family) : \A n \in OfTarget(family) :
             n.setup.release[2] <= m.setup.release[2]}

(* The client of AWS is installed into the userspace only to get to RHEL 9.   *)
Bootstraps(family) == family[1] = "aws" => caSystem.target[1] = 9

SwapAll(src, target) == [install |-> target, remove |-> src]   \* mutant
Swap(src, target) == [install |-> target \ src, remove |-> src \ target]

UseSetup(src, target, bootstrap) ==
    /\ caRhui' = [src |-> src, target |-> target, bootstrap |-> bootstrap]
    /\ caTasks' = Swap(src, target)
    /\ caAt' = "checks" /\ UNCHANGED caReports

ConfiguredSetup ==
    /\ caSystem.config.use
    /\ IF {} \in {caSystem.config.src, caSystem.config.target, caSystem.config.repos}
             \/ ~caSystem.config.files
       THEN caAt' = "stopped" /\ UNCHANGED <<caRhui, caTasks, caReports>>
       ELSE UseSetup(caSystem.config.src, caSystem.config.target, FALSE)

DetectedSetup(match, target) ==
    IF ~caSystem.noRhsm
    THEN /\ caAt' = "checks" /\ caReports' = caReports \cup {"RHSM on a cloud"}
         /\ UNCHANGED <<caRhui, caTasks>>
    ELSE IF target.setup.leappPkg \notin caSystem.packages
    THEN /\ caAt' = "checks" /\ caReports' = caReports \cup {"inhibitor"}
         /\ UNCHANGED <<caRhui, caTasks>>
    ELSE UseSetup(match.setup.clients, target.setup.clients, Bootstraps(match.family))

CheckRhui ==
    /\ caAt = "rhui"
    /\ \/ ConfiguredSetup
       \/ /\ ~caSystem.config.use /\ Matching = {}
          /\ caAt' = "checks" /\ UNCHANGED <<caRhui, caTasks, caReports>>
       \/ /\ ~caSystem.config.use /\ Matching # {}
          /\ Cardinality(SourceSetups) # 1      \* ambiguous, or a MatchingSetup has
          /\ caAt' = "stopped"                  \* no os_version: AttributeError
          /\ UNCHANGED <<caRhui, caTasks, caReports>>
       \/ /\ ~caSystem.config.use
          /\ \E match \in SourceSetups :
                /\ SourceSetups = {match}
                /\ \/ /\ TargetSetups(match.family) = {}
                      /\ caAt' = "stopped" /\ UNCHANGED <<caRhui, caTasks, caReports>>
                   \/ \E target \in TargetSetups(match.family) :
                         DetectedSetup(match, target)
    /\ UNCHANGED <<caSystem, caInfo, caPackages, caReleasever, caRelease, caRepos,
                   caTries>>

-----------------------------------------------------------------------------
SetsReleasever == caSystem.releasever \/ caRhui # NoSetup
Unsubscribed == ~caSystem.noRhsm /\ caInfo = "none"

(* checkrhsmsku, checketcreleasever and reportsettargetrelease.               *)
CheckAccess ==
    /\ caAt = "checks"
    /\ caReports' = caReports
          \cup (IF Unsubscribed THEN {"inhibitor"} ELSE {})
          \cup (IF SetsReleasever THEN {"releasever"} ELSE {})
          \cup (IF ~caSystem.noRhsm THEN {"release is set"}
                ELSE IF caSystem.rhel THEN {"release is kept"} ELSE {})
    /\ caAt' = (IF "inhibitor" \in caReports' THEN "inhibited" ELSE "upgrade")
    /\ UNCHANGED <<caSystem, caInfo, caRhui, caTasks, caPackages, caReleasever,
                   caRelease, caRepos, caTries>>

(* The transaction; setetcreleasever in the applications phase after it.      *)
SwapClients ==
    /\ caAt = "upgrade"
    /\ caPackages' = (caPackages \cup caTasks.install) \ caTasks.remove
    /\ caReleasever' = (IF SetsReleasever THEN "target" ELSE caReleasever)
    /\ caAt' = "release"
    /\ UNCHANGED <<caSystem, caInfo, caRhui, caTasks, caRelease, caRepos, caTries,
                   caReports>>

(* enablerhsmtargetrepos, set_rhsm_release: what fails is tried again, and in *)
(* the end stops the actor.                                                   *)
SkipRelease ==
    /\ caAt = "release" /\ (caSystem.noRhsm \/ caSystem.beta)
    /\ caAt' = "repos"
    /\ UNCHANGED <<caSystem, caInfo, caRhui, caTasks, caPackages, caReleasever,
                   caRelease, caRepos, caTries, caReports>>
AfterLastAttempt == "stopped"
TrySetRelease ==
    /\ caAt = "release" /\ ~caSystem.noRhsm /\ ~caSystem.beta
    /\ \/ /\ caRelease' = "target" /\ caAt' = "repos" /\ UNCHANGED caTries
       \/ /\ caTries' = caTries + 1 /\ UNCHANGED caRelease
          /\ caAt' = (IF MaxAttempts <= caTries' THEN AfterLastAttempt ELSE caAt)
    /\ UNCHANGED <<caSystem, caInfo, caRhui, caTasks, caPackages, caReleasever,
                   caRepos, caReports>>

(* enable_rhsm_repos: a failure is only warned about.                         *)
EnableRepos ==
    /\ caAt = "repos" /\ caAt' = "done"
    /\ caRepos' \in (IF caSystem.noRhsm THEN {caRepos} ELSE {caRepos, "target"})
    /\ UNCHANGED <<caSystem, caInfo, caRhui, caTasks, caPackages, caReleasever,
                   caRelease, caTries, caReports>>

AccessNext ==
    \/ ScanSubscription \/ CheckRhui \/ CheckAccess \/ SwapClients
    \/ SkipRelease \/ TrySetRelease \/ EnableRepos
AccessSpec == AccessInit /\ [][AccessNext]_caVars

-----------------------------------------------------------------------------
AccessTypeOK ==
    /\ caAt \in {"scan", "rhui", "checks", "upgrade", "release", "repos", "done",
                 "stopped", "inhibited"}
    /\ caInfo \in {"none", "skus", "sca"}
    /\ DOMAIN caRhui = DOMAIN NoSetup /\ DOMAIN caTasks = DOMAIN NoRpmTasks
    /\ caReleasever \in {"unset", "source", "target"}
    /\ caRelease \in {"unset", "source", "target"}
    /\ caRepos \in {"source", "target"} /\ caTries \in 0..MaxAttempts

(* The setup a running upgrade takes for the source (comment in               *)
(* find_rhui_setup_matching_src_system): its clients are installed, no other  *)
(* setup of the release with as many is, but an older one of the same family, *)
(* or one that is newer than the system.                                      *)
SourceSetupFits ==
    (caRhui # NoSetup /\ ~caSystem.config.use) =>
        \E m \in Matching :
            /\ m.setup.clients = caRhui.src
            /\ \A n \in Matching \ {m} :
                  \/ Cardinality(n.setup.clients) < Cardinality(m.setup.clients)
                  \/ n.setup.release[2] < m.setup.release[2]
                  \/ caSystem.source[2] # 0 /\ n.setup.release[2] > caSystem.source[2]

(* The upgraded system of a cloud has the clients of the target, and no       *)
(* client of another release of its family: not the source's, where they      *)
(* differ, and above all not none, where they have the same name.  Only what  *)
(* the configuration takes for clients of the source, and is not installed,   *)
(* is not installed either if it is to stay (source_clients).                 *)
ClientsSwapped ==
    (caAt \in {"release", "repos", "done"} /\ caRhui # NoSetup) =>
        /\ caRhui.target \subseteq
             caPackages \cup (IF caSystem.config.use
                              THEN caSystem.config.src \ caSystem.packages ELSE {})
        /\ (caRhui.src \ caRhui.target) \cap caPackages = {}

(* What runs the transaction can get at the content of the target: it is      *)
(* subscribed, or the setup of its cloud is known, or it has no client of a   *)
(* cloud at all and the user brings repositories.                             *)
ContentIsAccessible ==
    caAt \in {"upgrade", "release"} =>
        IF caSystem.noRhsm
        THEN Matching = {} \/ caRhui # NoSetup
        ELSE caInfo # "none"

(* The target release is kept: no setting of the source's release is left on  *)
(* an upgraded system that the administrator was not told of before it began. *)
NoSilentSourceRelease ==
    caAt = "done" =>
        /\ caReleasever # "source"
        /\ caReleasever = "target" => "releasever" \in caReports
        /\ \/ caRelease # "source" \/ caSystem.beta
           \/ "release is kept" \in caReports \/ ~caSystem.rhel

(* Repositories of the target are never enabled at the subscription manager   *)
(* while it is pinned to another release (the docstring of the actor: dnf     *)
(* would fail), but for a beta.                                               *)
ReposMatchRelease ==
    caRepos = "target" => (caRelease = "target" \/ caSystem.beta)

(* Subscription manager and RHUI clients agree with the release the packages  *)
(* come from, before the upgrade and after it, or a report says what is left  *)
(* to do.                                                                     *)
ContentFitsTheRelease ==
    /\ SourceSetupFits
    /\ ClientsSwapped
    /\ ContentIsAccessible
    /\ NoSilentSourceRelease
    /\ ReposMatchRelease
=============================================================================
