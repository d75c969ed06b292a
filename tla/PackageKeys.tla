----------------------------- MODULE PackageKeys -----------------------------
(* The GPG keys packages are verified with. Before the upgrade leapp gathers  *)
(* the keys it trusts, plans which keys of the RPM DB to remove, and checks   *)
(* that the keys of the target repositories are among the trusted ones. In    *)
(* the interim system the keys are removed and those of the target imported,  *)
(* before the packages are; afterwards the keys installed are compared with   *)
(* the trusted ones (gpg.py, the actors around it and two scripts of tools).  *)
(* A key is <<fingerprint, release>>, as in gpg-pubkey-<fingerprint>-<release>*)
(* with the release shortened; in the RPM DB it also has a form, for a key    *)
(* that comes again with another self-signature keeps its name.               *)
EXTENDS Integers, Sequences, FiniteSets, FiniteSetsExt, SequencesExt, TLC

CONSTANTS KeySystems      \* the systems, see IsKeySystem

KeyDistros == {"rhel", "centos"}
Fingerprints(keys) == {key[1] : key \in keys}

-----------------------------------------------------------------------------
(* gpg-signatures.json and the key files under rpm-gpg, by target version.    *)
Release == <<"fd431d51", "4ae0">>
Aux2018 == <<"d4082792", "5b32">>
Aux2022 == <<"5a6340b3", "6229">>
OldRelease == <<"37017186", "4576">>
Official == <<"8483c65d", "5ccc">>
Extras == <<"1d997668", "61ba">>
ExtrasAgain == <<"1d997668", "621e">>

KnownKeys(distro) ==
    IF distro = "rhel" THEN {Release, Aux2018, Aux2022, OldRelease}
    ELSE {Official, Extras, ExtrasAgain}
ObsoletedKeys(distro) ==
    IF distro = "rhel"
    THEN 8 :> {OldRelease} @@ 9 :> {Aux2018} @@ 10 :> {Release}
    ELSE 10 :> {Official}
CertsOf(distro, major) ==
    IF distro = "rhel" THEN {Release, Aux2022} ELSE {Official, Extras}

-----------------------------------------------------------------------------
(* A key file at a URL: keys {} if there are none in it. Files of file:/// are*)
(* looked for in the container, then on the host.                             *)
IsKeyUrl(u) ==
    /\ u.scheme \in {"file", "http", "other"} /\ u.reachable \in BOOLEAN
    /\ \A key \in u.keys : Len(key) = 2
IsKeySystem(s) ==
    /\ s.source \in KeyDistros /\ s.target \in KeyDistros /\ s.major \in {9, 10}
    /\ \A key \in s.installed \cup s.custom \cup s.rhuiObsolete : Len(key) = 2
    /\ s.nogpgcheck \in BOOLEAN /\ s.rhuiConfig \in BOOLEAN
    /\ s.rhuiValid \in BOOLEAN      \* the format of the keys configured for RHUI
    /\ \A r \in s.repos : /\ r.gpgcheck \in {"on", "off", "unknown"}
                          /\ r.scanned \in BOOLEAN
                          /\ \A u \in r.gpgkeys : IsKeyUrl(u)
    /\ s.erased \subseteq s.installed   \* by the administrator, before the reboot
    /\ s.unreadable \in BOOLEAN         \* a file among the keys of the target is

ASSUME KeyAssumption == \A s \in KeySystems : IsKeySystem(s)

VARIABLES
    pkSystem,       \* the system, one of KeySystems
    pkAt,           \* where the upgrade is
    pkTodo,         \* the actors of the Facts phase still to run
    pkTrusted,      \* TrustedGpgKeys: fingerprints
    pkWorkarounds,  \* DNFWorkaround messages, in the order they were produced
    pkLeft,         \* those of them that are still to be applied
    pkDb,           \* the keys in the RPM DB: <<key, form>>
    pkReports
pkVars == <<pkSystem, pkAt, pkTodo, pkTrusted, pkWorkarounds, pkLeft, pkDb, pkReports>>

KeyInit ==
    /\ pkSystem \in KeySystems
    /\ pkAt = "facts" /\ pkTodo = {"trusted", "obsolete"}
    /\ pkTrusted = {} /\ pkWorkarounds = <<>> /\ pkLeft = <<>> /\ pkReports = {}
    /\ pkDb = pkSystem.installed \X {"old"}

InstalledKeys == {entry[1] : entry \in pkDb}
Converts == pkSystem.source # pkSystem.target

(* The keys leapp brings for the target; the administrator may add to them.   *)
TrustedCerts == CertsOf(pkSystem.target, pkSystem.major) \cup pkSystem.custom

-----------------------------------------------------------------------------
(* Facts                                                                      *)
ScanTrustedKeys ==
    /\ pkAt = "facts" /\ "trusted" \in pkTodo
    /\ pkTrusted' = Fingerprints(InstalledKeys \cup TrustedCerts)
    /\ pkTodo' = pkTodo \ {"trusted"}
    /\ UNCHANGED <<pkSystem, pkAt, pkWorkarounds, pkLeft, pkDb, pkReports>>

ObsoletedUpTo(major) ==
    LET map == ObsoletedKeys(pkSystem.target)
    IN UNION {map[v] : v \in (7..major) \cap DOMAIN map}
ObsoleteForTarget == ObsoletedUpTo(pkSystem.major)
VendorKeysToRemove ==
    IF Converts THEN KnownKeys(pkSystem.source) ELSE ObsoletedUpTo(pkSystem.major)
RhuiKeysToRemove == IF pkSystem.rhuiConfig THEN pkSystem.rhuiObsolete ELSE {}
KeysToRemove == (VendorKeysToRemove \cup RhuiKeysToRemove) \cap InstalledKeys

RemoveObsoleteKeys ==
    /\ pkAt = "facts" /\ "obsolete" \in pkTodo
    /\ IF pkSystem.rhuiConfig /\ ~pkSystem.rhuiValid
       THEN pkAt' = "stopped" /\ UNCHANGED <<pkTodo, pkWorkarounds>>
       ELSE /\ pkTodo' = pkTodo \ {"obsolete"}
            /\ pkWorkarounds' =
                 IF KeysToRemove = {} THEN pkWorkarounds
                 ELSE Append(pkWorkarounds, [script |-> "remove", keys |-> KeysToRemove])
            /\ UNCHANGED pkAt
    /\ UNCHANGED <<pkSystem, pkTrusted, pkLeft, pkDb, pkReports>>

-----------------------------------------------------------------------------
(* TargetTransactionChecks. A repository of which no facts were scanned is    *)
(* passed over with a warning.                                                *)
CheckedRepos == {r \in pkSystem.repos : r.scanned}
ReposWithoutKeys ==
    {r \in CheckedRepos : \/ r.gpgcheck = "unknown"
                          \/ r.gpgcheck = "on" /\ r.gpgkeys = {}}
KeyUrls == UNION {r.gpgkeys : r \in {q \in CheckedRepos : q.gpgcheck = "on"}}
NotDownloaded == {u \in KeyUrls : u.scheme = "http" /\ ~u.reachable}
UnknownProtocol == {u \in KeyUrls : u.scheme = "other"}
KeyFiles == KeyUrls \ (NotDownloaded \cup UnknownProtocol)
NotReachable(u) == u.scheme = "file" /\ ~u.reachable
InvalidFiles == {u \in KeyFiles : NotReachable(u) \/ u.keys = {}}
MissingKeys ==
    {u \in KeyFiles \ InvalidFiles : ~(Fingerprints(u.keys) \subseteq pkTrusted)}

ImportLast(workarounds) ==
    Append(workarounds, [script |-> "import", keys |-> TrustedCerts])
ImportFirst(workarounds) ==   \* mutant
    <<[script |-> "import", keys |-> TrustedCerts]>> \o workarounds
RegisterImport(workarounds) == ImportLast(workarounds)

MissingReported == {<<"missing", u>> : u \in MissingKeys}
CheckMissingKeys ==
    /\ pkAt = "facts" /\ pkTodo = {}
    /\ IF pkSystem.nogpgcheck
       THEN pkAt' = "reboot" /\ UNCHANGED <<pkWorkarounds, pkReports>>
       ELSE /\ pkReports' = {<<"no key", r>> : r \in ReposWithoutKeys}
                 \cup {<<"download", u>> : u \in NotDownloaded}
                 \cup {<<"protocol", u>> : u \in UnknownProtocol}
                 \cup {<<"invalid", u>> : u \in InvalidFiles}
                 \cup MissingReported
            /\ pkWorkarounds' = RegisterImport(pkWorkarounds)
            /\ pkAt' = IF MissingKeys = {} THEN "reboot" ELSE "inhibited"
    /\ UNCHANGED <<pkSystem, pkTodo, pkTrusted, pkLeft, pkDb>>

AdministratorErases ==
    /\ pkAt = "reboot" /\ pkAt' = "preparation" /\ pkLeft' = pkWorkarounds
    /\ pkDb' = {entry \in pkDb : entry[1] \notin pkSystem.erased}
    /\ UNCHANGED <<pkSystem, pkTodo, pkTrusted, pkWorkarounds, pkReports>>

-----------------------------------------------------------------------------
(* Preparation: one script after the other, as they were registered, to the   *)
(* first that fails. A script goes on after a key it fails for, and rpm does  *)
(* not import a key of the name of one it has.                                *)
ScriptFails(db, w) ==
    IF w.script = "remove" THEN ~(w.keys \subseteq {entry[1] : entry \in db})
    ELSE pkSystem.unreadable
AfterScript(db, w) ==
    IF w.script = "remove" THEN {entry \in db : entry[1] \notin w.keys}
    ELSE db \cup ((w.keys \ {entry[1] : entry \in db}) \X {"new"})
ApplyWorkaround ==
    /\ pkAt = "preparation" /\ pkLeft # <<>>
    /\ pkDb' = AfterScript(pkDb, Head(pkLeft))
    /\ pkAt' = IF ScriptFails(pkDb, Head(pkLeft)) THEN "failed" ELSE "preparation"
    /\ pkLeft' = Tail(pkLeft)
    /\ UNCHANGED <<pkSystem, pkTodo, pkTrusted, pkWorkarounds, pkReports>>
EndOfWorkarounds ==
    /\ pkAt = "preparation" /\ pkLeft = <<>> /\ pkAt' = "transaction"
    /\ UNCHANGED <<pkSystem, pkTodo, pkTrusted, pkWorkarounds, pkLeft, pkDb, pkReports>>

(* The RPM transaction (assumeyes): DNF imports keys of the repositories; it  *)
(* has no network then.                                                       *)
KeysOfRepos ==
    UNION {u.keys : u \in {v \in UNION {r.gpgkeys : r \in
                             {q \in pkSystem.repos : q.gpgcheck # "off"}} :
                             v.scheme = "file" /\ v.reachable}}
UpgradePackages ==
    /\ pkAt = "transaction" /\ pkAt' = "applications"
    /\ \E keys \in SUBSET KeysOfRepos :
         /\ pkSystem.nogpgcheck => keys = {}
         /\ pkDb' = pkDb \cup ((keys \ InstalledKeys) \X {"new"})
    /\ UNCHANGED <<pkSystem, pkTodo, pkTrusted, pkWorkarounds, pkLeft, pkReports>>

UnexpectedKeys == Fingerprints(InstalledKeys) \ pkTrusted
CheckInstalledKeys ==
    /\ pkAt = "applications" /\ pkAt' = "done"
    /\ pkReports' = pkReports \cup
         (IF pkSystem.nogpgcheck THEN {}
          ELSE {<<"unexpected", f>> : f \in UnexpectedKeys})
    /\ UNCHANGED <<pkSystem, pkTodo, pkTrusted, pkWorkarounds, pkLeft, pkDb>>

KeyNext ==
    \/ ScanTrustedKeys \/ RemoveObsoleteKeys \/ CheckMissingKeys \/ AdministratorErases
    \/ ApplyWorkaround \/ EndOfWorkarounds \/ UpgradePackages \/ CheckInstalledKeys
KeySpec == KeyInit /\ [][KeyNext]_pkVars

-----------------------------------------------------------------------------
(* The sets the variables take their values from.                             *)
KeysTypeOK ==
    /\ pkAt \in {"facts", "reboot", "preparation", "transaction", "applications",
                 "done", "stopped", "inhibited", "failed"}
    /\ \A entry \in pkDb : Len(entry[1]) = 2 /\ entry[2] \in {"old", "new"}
    /\ \A k, l \in pkDb : k[1] = l[1] => k = l
    /\ \A i \in DOMAIN pkWorkarounds : pkWorkarounds[i].script \in {"remove", "import"}
    /\ IsSuffix(pkLeft, pkWorkarounds)

(* When the packages are upgraded the keys of the target are in the RPM DB,   *)
(* also those that are obsolete in the form the source has them: the scripts  *)
(* are registered by actors of different phases and run in that order         *)
(* (removeobsoleterpmgpgkeys, missinggpgkey, apply_workarounds).              *)
TargetKeysAreInstalled ==
    pkAt = "transaction" /\ ~pkSystem.nogpgcheck => TrustedCerts \subseteq InstalledKeys

(* No key the vendor made obsolete, and after a conversion no key of the      *)
(* distribution the system was, is left as it was; a key that is still there  *)
(* has come anew (_get_all_obsolete_keys).                                    *)
ObsoleteKeysAreReplaced ==
    pkAt = "transaction" =>
      \A entry \in pkDb :
        entry[2] = "old" =>
          entry[1] \notin (IF Converts THEN KnownKeys(pkSystem.source) ELSE ObsoleteForTarget)

(* Without a key file that could not be looked into, every key DNF may import *)
(* from a repository leapp knows of was trusted before the upgrade began      *)
(* (process of missinggpgkey).                                                *)
ImportedKeysWereTrusted ==
    pkAt \in {"reboot", "preparation", "transaction"} /\ ~pkSystem.nogpgcheck =>
      \A r \in CheckedRepos :
        r.gpgcheck = "on" =>
          \A u \in r.gpgkeys :
            u.scheme = "file" /\ u.reachable => Fingerprints(u.keys) \subseteq pkTrusted

(* Whatever the order of the scans, the scripts and the imports, a key in the *)
(* upgraded system was there before, came with leapp, or is reported          *)
(* (gpgpubkeycheck).                                                          *)
NoUnknownKeyUnreported ==
    pkAt = "done" /\ ~pkSystem.nogpgcheck =>
      \A key \in InstalledKeys :
        \/ key[1] \in Fingerprints(pkSystem.installed \cup TrustedCerts)
        \/ <<"unexpected", key[1]>> \in pkReports

(* The rpm database ends with the keys of the target: none is missing, no     *)
(* obsolete one stays, none got in that was not trusted before, and what is   *)
(* unknown is reported.                                                       *)
KeysAreTheTargets ==
    /\ TargetKeysAreInstalled
    /\ ObsoleteKeysAreReplaced
    /\ ImportedKeysWereTrusted
    /\ NoUnknownKeyUnreported
=============================================================================
