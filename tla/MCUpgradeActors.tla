---------------------------- MODULE MCUpgradeActors ----------------------------
(* The actors around the core of the upgrade, each component by itself on small *)
(* systems: one theme is chosen and runs, all others stay at rest.  (The      *)
(* components do not share state but through the facts they are given, so the *)
(* state space is the sum of theirs.)                                         *)
EXTENDS KernelArguments, UpgradeBootOrder, UpgradeInitramfs, ContentAccess, UpgradePath, SystemdServices, PackageKeys, RepositoryMap, MultipathConfig, DeviceSupport, LiveMode, UpgradePathTable, TLC

VARIABLE theme   \* the component that runs; the others stay at rest

(* Kernel arguments: a plain system with up to two arguments of the user, on  *)
(* the command line and the default entry, on the command line only, or on    *)
(* the entry only; and one feature of the hardware or of the setup, or two    *)
(* together with some of the arguments.                                       *)
KernelAtRest ==
    [major |-> "8", cmdline |-> {Bare("ro")}, entry |-> {Bare("ro")},
     env |-> {}, live |-> "no", liveOptions |-> {}, selinux |-> "enforcing",
     nics |-> "predictable", luks |-> "none", nvme |-> "none",
     configs |-> <<"grub2">>]
UserArgs ==
    {Bare("ro"), Bare("debug"), <<"enforcing", "1">>, <<"enforcing", "0">>,
     <<"ip", "static">>, <<"rd.lvm.lv", "root">>, <<"net.ifnames", "0">>,
     <<"rd.luks.uuid", "a">>, <<"rd.luks.uuid", "b">>,
     <<"nvme_core.multipath", "N">>}
WithArgs(booted, entry) ==
    [KernelAtRest EXCEPT !.cmdline = booted, !.entry = entry]
Plain == {WithArgs({a, b}, {a, b}) : a, b \in UserArgs}
            \cup {WithArgs({Bare("ro"), a}, {Bare("ro")}) : a \in UserArgs}
            \cup {WithArgs({Bare("ro")}, {Bare("ro"), a}) : a \in UserArgs}
Features(s) ==
    {[s EXCEPT !.env = {e}] : e \in {"debug", "network", "noscheme"}}
      \cup {[s EXCEPT !.live = l, !.liveOptions = o] : l \in {"local", "network"},
                o \in {{}, {"dracut network"}}}
      \cup {[s EXCEPT !.nics = n] : n \in {"eth0", "ethX"}}
      \cup {[s EXCEPT !.luks = l] : l \in {"unreadable", "no tpm", "tpm"}}
      \cup {[s EXCEPT !.nvme = n] : n \in {"fc", "fc unnamed", "tcp in fstab"}}
      \cup {[s EXCEPT !.major = "9"], [s EXCEPT !.selinux = "disabled"],
             [s EXCEPT !.configs = <<"grub2", "efi">>]}
Combined ==
    UNION {Features(t) : t \in UNION {Features(WithArgs({a}, {a})) :
        a \in {<<"enforcing", "1">>, <<"rd.luks.uuid", "a">>,
               <<"nvme_core.multipath", "N">>}}}
MCKernelSystems ==
    {KernelAtRest} \cup UNION {Features(s) : s \in Plain} \cup Combined
      \cup {[WithArgs({a}, {a}) EXCEPT !.live = "local",
                !.liveOptions = {"no autostart", "strace"}] : a \in {<<"rhgb", "1">>, <<"rd.lvm.lv", "root">>, Bare("rd.lvm.lv")}}

(* Boot order: the source's entry 1 and one of another system, in any order   *)
(* and with or without a BootNext of the user; or an entry left by an earlier *)
(* upgrade on ARM, first in the order.                                        *)
Machine(arm, conversion, entries, order, next) ==
    [arm |-> arm, conversion |-> conversion, entries |-> entries,
     order |-> order, current |-> 1, next |-> next]
TwoSystems == 0 :> "other" @@ 1 :> "source"
BootOrderAtRest == Machine(FALSE, FALSE, TwoSystems, <<0, 1>>, NoNumber)
MCBootSystems ==
    {Machine(arm, conversion, TwoSystems, order, next) :
        arm, conversion \in BOOLEAN, order \in {<<0, 1>>, <<1, 0>>, <<1>>},
        next \in {NoNumber, 0}}
      \cup {Machine(TRUE, conversion, 1 :> "source" @@ 2 :> "upgrade" @@ 3 :> "other",
                    <<2, 1, 3>>, NoNumber) : conversion \in BOOLEAN}

(* Initramfs: one or two requests besides leapp's own (x is a packaged dracut *)
(* module, y is not, m is a driver); files to copy in some orders; kernels    *)
(* installed in some orders.                                                  *)
Ask(msg, kind, name, path) == [msg |-> msg, kind |-> kind, name |-> name, path |-> path]
InitramfsAtRest ==
    [requests |-> <<>>, copies |-> <<>>, files |-> {<<"etc", "f">>},
     provided |-> {<<"etc", "f">>}, packaged |-> {"x"}, drivers |-> {},
     live |-> FALSE, raid |-> FALSE, lowSpace |-> FALSE, containerKernels |-> 1,
     kernels |-> {1}, running |-> 1, s390 |-> FALSE, uname |-> "plain", oldNames |-> FALSE, wide |-> FALSE,
     installed |-> <<[type |-> "ordinary", wide |-> FALSE, major |-> "target"]>>]
AskedDracut(msg, name, path) ==
    [InitramfsAtRest EXCEPT !.requests = <<Ask(msg, "dracut", name, path)>>]
AskedTwice(kind, name, m1, p1, m2, p2) ==
    [InitramfsAtRest EXCEPT
        !.requests = <<Ask(m1, kind, name, p1), Ask(m2, kind, name, p2)>>]
Kernel(type, major) == [type |-> type, wide |-> FALSE, major |-> major]
InstalledKernels(uname, old, kernels) ==
    [InitramfsAtRest EXCEPT !.uname = uname, !.oldNames = old, !.installed = kernels]
Wide(s) == [s EXCEPT !.wide = TRUE, !.installed =
                       [i \in DOMAIN @ |-> [@[i] EXCEPT !.wide = TRUE]]]
KernelOrders ==
    {<<Kernel(t, "source"), Kernel(u, "target")>> : t, u \in {"ordinary", "realtime"}}
      \cup {<<Kernel("ordinary", "target"), Kernel("realtime", "target")>>,
            <<Kernel("ordinary", "source")>>}
KernelSources ==
    {InstalledKernels(u, FALSE, k) : u \in {"plain", "+rt"}, k \in KernelOrders}
      \cup {InstalledKernels(".rt", TRUE, k) : k \in KernelOrders}
      \cup {Wide(InstalledKernels(u, FALSE, k)) : u \in {"+rt-64k", "+64k"},
             k \in KernelOrders}
MCInitramfsSystems ==
    {[s EXCEPT !.live = l] : l \in BOOLEAN, s \in
        {AskedDracut(m, n, p) : m \in {"old", "upgrade", "target"},
                                n \in {"x", "y"}, p \in {"system", "a"}}
        \cup {AskedTwice("dracut", "y", m, "a", n, "b") :
                 m, n \in {"old", "upgrade", "target"}}
        \cup {AskedTwice("kernel", "m", m, "a", n, p) :
                 m, n \in {"upgrade", "target"}, p \in {"a", "b", "system"}}}
    \cup {[InitramfsAtRest EXCEPT !.copies = c] : c \in
        {<<<<"etc", "f">>>>, <<<<"etc", "f">>, <<"etc">>>>, <<<<"etc">>, <<"etc", "f">>>>}}
    \cup KernelSources
    \cup {InitramfsAtRest, [InitramfsAtRest EXCEPT !.lowSpace = TRUE],
          [InitramfsAtRest EXCEPT !.raid = TRUE],
          [InitramfsAtRest EXCEPT !.containerKernels = 2],
          [InitramfsAtRest EXCEPT !.kernels = {1, 2}, !.s390 = TRUE, !.running = 2],
          [InitramfsAtRest EXCEPT !.kernels = {1, 2}]}

(* Content access: subscribed systems with each setting; systems with one or  *)
(* two of the cloud clients leapp knows, on each of three source releases,    *)
(* with and without leapp's package; and RHUI by configuration.               *)
AccessAtRest ==
    [packages |-> {"bash"}, arch |-> "x86_64", source |-> <<8, 10>>, target |-> <<9, 6>>,
     rhel |-> TRUE, noRhsm |-> FALSE, beta |-> FALSE, subscription |-> "skus",
     pinned |-> TRUE, releasever |-> FALSE, config |-> NoConfig]
Subscribed ==
    {[AccessAtRest EXCEPT !.subscription = s, !.noRhsm = n, !.beta = b, !.pinned = p,
                          !.releasever = v, !.rhel = r] :
        s \in {"skus", "sca", "none"}, n, b, p, v, r \in BOOLEAN}
AllClients == UNION {m.setup.clients : m \in RhuiSetups}
LeappPkgs == {m.setup.leappPkg : m \in RhuiSetups}
OnCloud(packages, arch, source, target) ==
    [AccessAtRest EXCEPT !.packages = packages, !.arch = arch, !.source = source,
                         !.target = target, !.noRhsm = TRUE, !.subscription = "none"]
Clouds ==
    {OnCloud(p, a, <<8, 10>>, <<9, 6>>) : a \in {"x86_64", "aarch64"},
        p \in {{c, d} \cup LeappPkgs : c, d \in AllClients} \cup {{c} : c \in AllClients}}
    \cup {OnCloud({c} \cup LeappPkgs, "x86_64", r, t) : c \in AllClients,
            r \in {<<8, 8>>, <<8, 0>>}, t \in {<<9, 6>>, <<9, 0>>}}
    \cup {OnCloud({c} \cup LeappPkgs, "x86_64", <<9, 6>>, <<10, 0>>) : c \in AllClients}
ConfiguredRhui ==
    {[OnCloud({"b"}, "x86_64", <<8, 10>>, <<9, 6>>) EXCEPT !.config =
        [use |-> TRUE, src |-> s, target |-> t, repos |-> r, files |-> f]] :
        s \in {{}, {"b"}, {"c"}}, t \in {{}, {"b"}, {"c"}}, r \in {{}, {"r"}}, f \in BOOLEAN}
MCAccessSystems ==
    Subscribed \cup Clouds \cup ConfiguredRhui
      \cup {[OnCloud({"rhui-azure-rhel8"} \cup LeappPkgs, "x86_64", <<8, 10>>, <<9, 6>>)
                EXCEPT !.noRhsm = FALSE, !.subscription = s] : s \in {"none", "sca"}}

(* Upgrade path: each release the table has, and some it has not, of each     *)
(* distribution to each, with the target left to leapp or asked for.          *)
PathAtRest ==
    [distro |-> "rhel", target |-> "rhel", version |-> <<8, 10>>, asked |-> NoVersion,
     flavour |-> "default", env |-> {}]
Releases ==
    {<<7>>, <<8>>, <<9>>, <<10>>, <<8, 10>>, <<8, 8>>, <<9, 5>>, <<9, 6>>, <<9, 8>>, <<9, 9>>,
     <<10, 0>>, <<10, 2>>, <<10, 3>>}
MCPathSystems ==
    {s \in {[distro |-> d, target |-> t, flavour |-> f, version |-> v, asked |-> a,
              env |-> {}] :
            d, t \in Distros, f \in Flavours, v \in Releases,
            a \in {NoVersion} \cup Releases} :
        WellFormed(s.version, s.distro)}
      \cup {[PathAtRest EXCEPT !.target = t, !.version = v, !.asked = a, !.env = e] :
            t \in {"rhel", "centos"}, v \in {<<8, 10>>, <<8, 8>>},
            a \in {NoVersion, <<9, 5>>, <<9>>},
            e \in {{"unsupported"}, {"skip os release"}, {"unsupported", "skip os release"}}}
      \cup {[PathAtRest EXCEPT !.version = <<8>>, !.asked = a] : a \in {NoVersion, <<9, 6>>, <<9, 5>>}}

(* Systemd: service a in every state before and after, by every preset, and b *)
(* next to it; requests of other actors; symlinks; calls that fail.           *)
PresetFile(name, null, verb, units) ==
    [name |-> name, null |-> null, entries |-> <<[verb |-> verb, units |-> units]>>]
NullFile(name) == [name |-> name, null |-> TRUE, entries |-> <<>>]
PresetDirs(etc, verb) ==
    [etc |-> etc, usr |-> <<PresetFile(2, FALSE, verb, {"a"}),
                            PresetFile(9, FALSE, "disable", {"a", "b", "c"})>>]
ServicesAtRest ==
    [source |-> [u \in {"a", "b"} |-> "enabled"], target |-> [u \in {"a", "b"} |-> "disabled"],
     presets |-> [source |-> PresetDirs(<<>>, "disable"), target |-> PresetDirs(<<>>, "disable")],
     brokenBefore |-> {}, brokenByUpgrade |-> {}, early |-> {}, late |-> {},
     failing |-> {}, failingScans |-> {}]
StatesOfA(s, x, y) == [s EXCEPT !.source["a"] = x, !.target["a"] = y]
PresetsOfA(s, x, y) ==
    [s EXCEPT !.presets = [source |-> PresetDirs(<<>>, x), target |-> PresetDirs(<<>>, y)]]
EnableOnly(u) == [enable |-> {u}, disable |-> {}]
DisableOnly(u) == [enable |-> {}, disable |-> {u}]
MCServiceSystems ==
    {[PresetsOfA(StatesOfA(ServicesAtRest, x, y), p, q) EXCEPT !.failing = f] :
       x \in UnitStates, y \in UnitStates, p, q \in {"enable", "disable"}, f \in {{}, {"b"}}}
      \cup {[StatesOfA(ServicesAtRest, x, y) EXCEPT !.early = e, !.late = l] :
            x, y \in {"enabled", "disabled"},
            e \in {{}, {EnableOnly("a")}, {EnableOnly("a"), DisableOnly("a")}},
            l \in {{}, {EnableOnly("a")}, {DisableOnly("a")}}}
      \cup {[StatesOfA(ServicesAtRest, x, y) EXCEPT !.brokenBefore = b,
               !.brokenByUpgrade = {<<"w", "a">>, <<"w", "c">>} \ b, !.failing = f] :
            x, y \in {"enabled", "disabled"}, f \in {{}, {"a"}},
            b \in SUBSET {<<"m", "a">>, <<"w", "a">>, <<"w", "c">>}}
      \cup {[StatesOfA(ServicesAtRest, x, y) EXCEPT !.failingScans = {side} \X steps,
               !.brokenByUpgrade = {<<"w", "a">>}] :
            x, y \in {"enabled", "disabled"}, side \in {"source", "target"},
            steps \in {{"links"}, {"units"}, {"presets"}}}
      \cup {[StatesOfA(ServicesAtRest, "disabled", y) EXCEPT
               !.presets = [source |-> PresetDirs(e, p), target |-> PresetDirs(e, p)]] :
            y \in {"enabled", "disabled"}, p \in {"enable", "disable", "bad"},
            e \in {<<NullFile(2)>>, <<NullFile(9), NullFile(2)>>,
                   <<PresetFile(2, FALSE, "enable", {"a"})>>, <<PresetFile(3, FALSE, "disable", {"a"})>>}}
      \cup {[ServicesAtRest EXCEPT !.source = [u \in {"libvirtd.service"} |-> "disabled"],
               !.target = [u \in {"libvirtd.service", "new"} |-> "enabled"]]}

(* Package keys: upgrades and conversions of a system with keys of its        *)
(* vendor, and repositories with key files of each kind.                      *)
ForeignKey == <<"77777777", "1111">>
KeysAtRest ==
    [source |-> "rhel", target |-> "rhel", major |-> 10, installed |-> {Release, Aux2022},
     custom |-> {}, rhuiObsolete |-> {}, rhuiConfig |-> FALSE, rhuiValid |-> TRUE,
     nogpgcheck |-> FALSE, repos |-> {}, erased |-> {}, unreadable |-> FALSE]
KeyUrl(scheme, reachable, keys) == [scheme |-> scheme, reachable |-> reachable, keys |-> keys]
KeyRepo(gpgcheck, scanned, keys) == [gpgcheck |-> gpgcheck, scanned |-> scanned, gpgkeys |-> keys]
WithRepos(r, no) == [KeysAtRest EXCEPT !.repos = r, !.nogpgcheck = no]
SomeUrls ==
    {KeyUrl(x, y, k) : x \in {"file", "http", "other"}, y \in BOOLEAN,
                       k \in {{}, {Release}, {ForeignKey}, {Release, ForeignKey}}}
MCKeySystems ==
    {KeysAtRest} \cup
    {[KeysAtRest EXCEPT !.source = x, !.target = y, !.major = m, !.installed = k,
        !.nogpgcheck = n, !.erased = e \cap k] :
       x, y \in KeyDistros, m \in {9, 10}, n \in BOOLEAN, e \in {{}, {Release}},
       k \in {{Release, Aux2018, OldRelease}, {Release, Aux2022, ForeignKey},
              {Official, Extras, ExtrasAgain}}}
      \cup {WithRepos({KeyRepo(c, s, {u})}, n) :
            c \in {"on", "off", "unknown"}, s, n \in BOOLEAN, u \in SomeUrls}
      \cup {WithRepos({KeyRepo("on", TRUE, {KeyUrl("file", TRUE, {Release}), u}),
                       KeyRepo("on", TRUE, {})}, FALSE) : u \in SomeUrls}
      \cup {[KeysAtRest EXCEPT !.rhuiConfig = c, !.rhuiValid = v, !.rhuiObsolete = k,
               !.custom = m, !.installed = @ \cup {ForeignKey}, !.unreadable = r] :
            c, v, r \in BOOLEAN, k \in {{}, {ForeignKey}, {Release, Aux2018}},
            m \in {{}, {ForeignKey}}}

(* Repository map: BaseOS and an extra family, of the CDN and of a cloud, in  *)
(* some channels on each side; both families may lead to one of the target.   *)
Entry(repoid, family, major, channel, rhui) ==
    [repoid |-> repoid, family |-> family, major |-> major, channel |-> channel,
     rhui |-> rhui, type |-> "rpm", arch |-> "x", distro |-> "rhel"]
SourceMap ==
    <<Entry("b-ga", "base8", "source", "ga", ""), Entry("b-eus", "base8", "source", "eus", ""),
      Entry("b-beta", "base8", "source", "beta", ""), Entry("both", "extra8", "source", "ga", ""),
      Entry("both", "extra8", "source", "ga", "aws"), Entry("e-eus", "extra8", "source", "eus", ""),
      Entry("e-aws", "extra8", "source", "ga", "aws"), Entry("old name", "extra8", "source", "ga", "")>>
OtherMap ==
    <<Entry("t-x", "base9", "other", "ga", ""), [Entry("t-y", "base9", "target", "ga", "") EXCEPT !.arch = "y"],
      [Entry("t-debug", "base9", "target", "ga", "") EXCEPT !.type = "debug"]>>
TargetMaps ==
    {<<Entry("B-ga", "base9", "target", "ga", "")>>,
     <<Entry("B-ga", "base9", "target", "ga", ""), Entry("B-eus", "base9", "target", "eus", ""),
       Entry("E-ga", "extra9", "target", "ga", ""), Entry("E-aws", "extra9", "target", "ga", "aws")>>,
     <<Entry("B-beta", "base9", "target", "beta", ""), Entry("E-aws", "extra9", "target", "ga", "aws"),
       Entry("E-eus", "extra9", "target", "eus", "")>>}
ReposAtRest ==
    [entries |-> SourceMap, defect |-> "none", families |-> [f \in {"base8"} |-> {"base9"}],
     devel |-> "none", option |-> "none", enabled |-> {}, ofPackages |-> {}, used |-> {},
     distro |-> "rhel", sourceDistro |-> "rhel", cloud |-> "", arch |-> "x",
     useRhsm |-> TRUE, renamed |-> FALSE, requested |-> {}, custom |-> {}, excluded |-> {}]
MapOf(target, together) ==
    [ReposAtRest EXCEPT !.entries = SourceMap \o OtherMap \o target,
        !.families = [f \in {"base8", "extra8"} |->
            IF f = "base8" THEN {"base9"} ELSE IF together THEN {"base9", "extra9"} ELSE {"extra9"}]]
MCRepoSystems ==
    {ReposAtRest}
      \cup {[MapOf(t, g) EXCEPT !.enabled = e, !.used = e \ {"b-ga"}, !.cloud = c, !.devel = w] :
            t \in TargetMaps, g \in BOOLEAN, c \in {"", "aws"}, w \in {"none", "ga", "beta"},
            e \in {{"b-ga", "e-eus"}, {"b-eus", "both"}, {"b-ga", "b-beta", "e-aws"},
                   {"b-ga", "b-eus", "both", "custom"}}}
      \cup {[MapOf(t, TRUE) EXCEPT !.enabled = {"b-ga"}, !.ofPackages = p, !.renamed = r,
               !.requested = {"B-eus"}, !.excluded = x, !.custom = {"own"}, !.useRhsm = u] :
            t \in TargetMaps, p \in {{"new name"}, {"old name", "unknown"}}, r, u \in BOOLEAN,
            x \in {{}, {"B-ga", "B-eus"}, {"own"}}}
      \cup {[MapOf(<<Entry("B-ga", "base9", "target", "ga", "")>>, TRUE) EXCEPT
               !.enabled = {"b-eus"}, !.option = o, !.devel = d] :
            o \in {"none", "eus", "beta", "unknown"}, d \in {"none", "beta", "unknown"}}
      \cup {[ReposAtRest EXCEPT !.defect = d] : d \in MapDefects}

(* Multipath: configuration files in the default directory and in one of      *)
(* their own, data files in several places, options set in several files.     *)
MCConfNames == <<"a.conf", "b.conf">>
MCMpDirs == {"etc", "multipath", DefaultDir, "own.d", "opt", "own"}
NoOptions ==
    [configDir |-> "unset", files |-> [f \in DataFiles |-> "unset"],
     star |-> FALSE, foreign |-> FALSE, usb |-> FALSE, getuid |-> FALSE]
At(file, dir) == [f \in DataFiles |-> IF f = file THEN dir ELSE "unset"]
WithFiles(path, content, files) == [p \in DOMAIN files \cup {path} |->
                                       IF p = path THEN content ELSE files[p]]
Data == [p \in {DefaultFile("bindings"), DefaultFile("prkeys"), System("opt", "bindings"), System("own", "bindings")} |-> p.dir]
MultipathAtRest == [source |-> 8, installed |-> FALSE, files |-> <<>>]
MpFilesOf(main, dir, second, other) ==
    WithFiles(Primary, main, WithFiles(System(dir, "a.conf"), second,
      WithFiles(System(DefaultDir, "b.conf"), other, Data)))
MCMpSystems ==
    {MultipathAtRest, [MultipathAtRest EXCEPT !.installed = TRUE, !.files = Data]}
      \cup {[source |-> m, installed |-> TRUE, files |->
              MpFilesOf([NoOptions EXCEPT !.star = x, !.foreign = y], DefaultDir,
                        [NoOptions EXCEPT !.star = ~x, !.usb = z], [NoOptions EXCEPT !.getuid = z])] :
            m \in {8, 9}, x, y, z \in BOOLEAN}
      \cup {[source |-> m, installed |-> TRUE, files |->
              WithFiles(Primary, [NoOptions EXCEPT !.configDir = d, !.files = At("bindings", x)],
                WithFiles(System("own.d", "a.conf"), [NoOptions EXCEPT !.files = At("bindings", y)],
                  WithFiles(System("own.d", "b.conf"), NoOptions, Data)))] :
            m \in {8, 9}, d \in {"unset", DefaultDir, "own.d"}, x \in {"unset", "opt"},
            y \in {"unset", "own", "multipath"}}
      \cup {[source |-> m, installed |-> TRUE, files |->
              MpFilesOf([NoOptions EXCEPT !.configDir = "own.d", !.files = At("wwids", w)], "own.d",
                        NoOptions, NoOptions)] : m \in {8, 9}, w \in {"unset", "opt"}}

(* Device support: a controller with and without its subsystem, a driver, a   *)
(* processor, and assets of all kinds.                                        *)
DeviceEntryOf(type, id, driver, available, maintained) ==
    [type |-> type, id |-> id, driver |-> driver, models |-> {},
     available |-> available, maintained |-> maintained]
DevicesAtRest ==
    [asset |-> "readable", streams |-> "list", majors |-> {4}, entries |-> <<>>, devices |-> {},
     modules |-> {}, arch |-> "x86_64", cpu |-> [family |-> "f", model |-> 1], target |-> 9]
Controller == [id |-> <<"v", "d", "s", "t">>, driver |-> "megaraid"]
SupportSets == {{8}, {8, 9}}
MCDdSystems ==
    {DevicesAtRest}
      \cup {[DevicesAtRest EXCEPT !.asset = a] : a \in AssetStates}
      \cup {[DevicesAtRest EXCEPT !.streams = x, !.majors = m, !.entries = <<DeviceEntryOf("usb", <<>>, "u", {8}, {})>>] :
            x \in StreamFields, m \in {{}, {3}, {4, 5}, {3, 5}, {5, 6}}}
      \cup {[DevicesAtRest EXCEPT !.devices = d, !.entries =
               <<DeviceEntryOf("pci", <<"v", "d">>, "", x, {8}), DeviceEntryOf("pci", i, "", y, z)>>] :
            d \in {{Controller}, {[Controller EXCEPT !.id = <<"v", "d">>]},
                   {Controller, [Controller EXCEPT !.id = <<"v", "d", "s", "u">>]}},
            i \in {<<"v", "d", "s", "t">>, <<"v", "d">>}, x, y, z \in SupportSets}
      \cup {[DevicesAtRest EXCEPT !.devices = d, !.modules = m, !.entries =
               <<DeviceEntryOf("pci", <<>>, "megaraid", x, {8}), DeviceEntryOf("pci", <<>>, n, y, {8})>>] :
            d \in {{}, {Controller}, {[Controller EXCEPT !.driver = ""]}}, m \in {{}, {"megaraid"}, {"floppy"}},
            n \in {"megaraid", "floppy", ""}, x, y \in SupportSets}
      \cup {[DevicesAtRest EXCEPT !.arch = a, !.cpu.model = c, !.entries =
               <<[DeviceEntryOf("cpu", <<"x86_64", "f">>, "", x, {8}) EXCEPT !.models = m],
                 DeviceEntryOf("cpu", <<"aarch64", "f">>, "", {}, {}),
                 DeviceEntryOf("cpu", <<"s390x", "f">>, "", {8}, {})>>] :
            a \in {"x86_64", "s390x", "aarch64"}, c \in 1..2, x \in SupportSets, m \in {{}, {1}}}

(* Live mode: each option alone and all together; tty1 and passwd of every    *)
(* kind; a root that is not mounted; the network for either target.           *)
LiveAtRest ==
    [unsupported |-> FALSE, tools |-> TRUE, ssh |-> FALSE, rootLogin |-> FALSE,
     network |-> FALSE, autostart |-> TRUE, strace |-> FALSE, hostTty1 |-> TRUE,
     imageTty1 |-> TRUE, noreboot |-> FALSE, passwd |-> "root", rootType |-> "xfs",
     target |-> 9]
Live == [LiveAtRest EXCEPT !.unsupported = TRUE]
MCLiveSystems ==
    {LiveAtRest, Live, [Live EXCEPT !.tools = FALSE], [Live EXCEPT !.strace = TRUE],
     [Live EXCEPT !.autostart = FALSE], [Live EXCEPT !.rootType = "btrfs"],
     [Live EXCEPT !.ssh = TRUE, !.network = TRUE, !.noreboot = TRUE],
     [Live EXCEPT !.network = TRUE, !.target = 10]}
      \cup {[Live EXCEPT !.rootLogin = TRUE, !.passwd = p] : p \in {"missing", "no root", "root"}}
      \cup {[Live EXCEPT !.hostTty1 = h, !.imageTty1 = i] : h, i \in BOOLEAN}

-----------------------------------------------------------------------------
Themes == {"kernel arguments", "boot order", "initramfs", "content access", "upgrade path", "systemd", "package keys", "repository map", "multipath", "device support", "live"}

(* The components at rest come first, so that TLC does not start with every  *)
(* combination.                                                               *)
ActorsInit ==
    /\ theme \in Themes
    /\ IF theme = "kernel arguments" THEN TRUE
       ELSE kaSystem = KernelAtRest /\ KernelInit
    /\ IF theme = "boot order" THEN TRUE
       ELSE ebSystem = BootOrderAtRest /\ BootOrderInit
    /\ IF theme = "initramfs" THEN TRUE
       ELSE inSystem = InitramfsAtRest /\ InitramfsInit
    /\ IF theme = "content access" THEN TRUE
       ELSE caSystem = AccessAtRest /\ AccessInit
    /\ IF theme = "upgrade path" THEN TRUE
       ELSE upSystem = PathAtRest /\ PathInit
    /\ IF theme = "systemd" THEN TRUE
       ELSE svSystem = ServicesAtRest /\ ServiceInit
    /\ IF theme = "package keys" THEN TRUE
       ELSE pkSystem = KeysAtRest /\ KeyInit
    /\ IF theme = "repository map" THEN TRUE
       ELSE rpSystem = ReposAtRest /\ RepoInit
    /\ IF theme = "multipath" THEN TRUE
       ELSE mpSystem = MultipathAtRest /\ MultipathInit
    /\ IF theme = "device support" THEN TRUE
       ELSE ddSystem = DevicesAtRest /\ DeviceInit
    /\ IF theme = "live" THEN TRUE
       ELSE lmSystem = LiveAtRest /\ LiveInit
    /\ IF theme = "kernel arguments" THEN KernelInit ELSE TRUE
    /\ IF theme = "boot order" THEN BootOrderInit ELSE TRUE
    /\ IF theme = "initramfs" THEN InitramfsInit ELSE TRUE
    /\ IF theme = "content access" THEN AccessInit ELSE TRUE
    /\ IF theme = "upgrade path" THEN PathInit ELSE TRUE
    /\ IF theme = "systemd" THEN ServiceInit ELSE TRUE
    /\ IF theme = "package keys" THEN KeyInit ELSE TRUE
    /\ IF theme = "repository map" THEN RepoInit ELSE TRUE
    /\ IF theme = "multipath" THEN MultipathInit ELSE TRUE
    /\ IF theme = "device support" THEN DeviceInit ELSE TRUE
    /\ IF theme = "live" THEN LiveInit ELSE TRUE

KernelArgumentsSteps ==
    theme = "kernel arguments" /\ KernelNext
        /\ UNCHANGED <<theme, ebVars, inVars, caVars, upVars, svVars, pkVars,
            rpVars, mpVars, ddVars, lmVars>>
UpgradeBootOrderSteps ==
    theme = "boot order" /\ BootOrderNext
        /\ UNCHANGED <<theme, kaVars, inVars, caVars, upVars, svVars, pkVars,
            rpVars, mpVars, ddVars, lmVars>>
UpgradeInitramfsSteps ==
    theme = "initramfs" /\ InitramfsNext
        /\ UNCHANGED <<theme, kaVars, ebVars, caVars, upVars, svVars, pkVars,
            rpVars, mpVars, ddVars, lmVars>>
ContentAccessSteps ==
    theme = "content access" /\ AccessNext
        /\ UNCHANGED <<theme, kaVars, ebVars, inVars, upVars, svVars, pkVars,
            rpVars, mpVars, ddVars, lmVars>>
UpgradePathSteps ==
    theme = "upgrade path" /\ PathNext
        /\ UNCHANGED <<theme, kaVars, ebVars, inVars, caVars, svVars, pkVars,
            rpVars, mpVars, ddVars, lmVars>>
SystemdServicesSteps ==
    theme = "systemd" /\ ServiceNext
        /\ UNCHANGED <<theme, kaVars, ebVars, inVars, caVars, upVars, pkVars,
            rpVars, mpVars, ddVars, lmVars>>
PackageKeysSteps ==
    theme = "package keys" /\ KeyNext
        /\ UNCHANGED <<theme, kaVars, ebVars, inVars, caVars, upVars, svVars,
            rpVars, mpVars, ddVars, lmVars>>
RepositoryMapSteps ==
    theme = "repository map" /\ RepoNext
        /\ UNCHANGED <<theme, kaVars, ebVars, inVars, caVars, upVars, svVars,
            pkVars, mpVars, ddVars, lmVars>>
MultipathConfigSteps ==
    theme = "multipath" /\ MultipathNext
        /\ UNCHANGED <<theme, kaVars, ebVars, inVars, caVars, upVars, svVars,
            pkVars, rpVars, ddVars, lmVars>>
DeviceSupportSteps ==
    theme = "device support" /\ DeviceNext
        /\ UNCHANGED <<theme, kaVars, ebVars, inVars, caVars, upVars, svVars,
            pkVars, rpVars, mpVars, lmVars>>
LiveModeSteps ==
    theme = "live" /\ LiveNext
        /\ UNCHANGED <<theme, kaVars, ebVars, inVars, caVars, upVars, svVars,
            pkVars, rpVars, mpVars, ddVars>>

ActorsNext ==
    \/ KernelArgumentsSteps
    \/ UpgradeBootOrderSteps
    \/ UpgradeInitramfsSteps
    \/ ContentAccessSteps
    \/ UpgradePathSteps
    \/ SystemdServicesSteps
    \/ PackageKeysSteps
    \/ RepositoryMapSteps
    \/ MultipathConfigSteps
    \/ DeviceSupportSteps
    \/ LiveModeSteps

actorsVars ==
    <<theme, kaVars, ebVars, inVars, caVars, upVars,
      svVars, pkVars, rpVars, mpVars, ddVars,
      lmVars>>
ActorsSpec == ActorsInit /\ [][ActorsNext]_actorsVars

-----------------------------------------------------------------------------
(* The state of each component is well-typed; the parts name what types do    *)
(* not say by themselves (entries of one key, numbers that are in use, ...).  *)
ActorsTypeOK ==
    /\ KernelArgsTypeOK
    /\ BootOrderTypeOK
    /\ InitramfsTypeOK
    /\ AccessTypeOK
    /\ PathTypeOK
    /\ ServicesTypeOK
    /\ KeysTypeOK
    /\ ReposTypeOK
    /\ MultipathTypeOK
    /\ DevicesTypeOK
    /\ LiveTypeOK
=============================================================================
