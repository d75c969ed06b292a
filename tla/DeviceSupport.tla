---------------------------- MODULE DeviceSupport ----------------------------
(* Whether the target knows the hardware of the system. The data on devices,  *)
(* drivers and processors are an asset, a JSON file of the leapp package that *)
(* an administrator may have replaced (fetch.py). Three actors of the facts   *)
(* phase match the system with it: scan_cpu, detect_kernel_drivers and        *)
(* pci_devices_scanner; two of the checks phase report what they found        *)
(* (checkdddd.py) and an asset made for another leapp                         *)
(* (check_consumed_assets.py).                                                *)
EXTENDS Integers, Sequences, FiniteSets, FiniteSetsExt, SequencesExt

CONSTANTS DdSystems     \* the systems, see IsDeviceSystem

RequiredStream == 4     \* CONSUMED_DATA_STREAM_ID
AssetStates == {"missing", "unreadable", "empty", "not JSON", "not an object",
                "no entries", "readable"}
(* The field provided_data_streams: not there, a list of versions, a list     *)
(* with something else in it, or a single value.                              *)
StreamFields == {"absent", "list", "wrong list", "value", "zero"}

(* An entry of the data: a device or a processor (id), or a driver. The id of *)
(* a device has its vendor and device, and may have those of its subsystem;   *)
(* that of a processor its architecture and family.                           *)
IsEntry(e) ==
    /\ e.type \in {"pci", "cpu", "usb"} /\ e.id \in Seq(STRING)
    /\ e.type = "pci" => e.id = <<>> \/ Len(e.id) \in {2, 4}
    /\ e.type = "cpu" => Len(e.id) = 2
    /\ e.available \cup e.maintained \subseteq Nat
IsDeviceSystem(s) ==
    /\ s.asset \in AssetStates /\ s.streams \in StreamFields /\ s.majors \subseteq Nat
    /\ s.entries \in Seq(ToSet(s.entries))
    /\ \A i \in DOMAIN s.entries : IsEntry(s.entries[i])
    /\ IsFiniteSet(s.devices)
    /\ \A d \in s.devices : d.id \in Seq(STRING) /\ Len(d.id) \in {2, 4}
    /\ "" \notin s.modules /\ s.arch \in {"x86_64", "ppc64le", "s390x", "aarch64"}

ASSUME DeviceAssumption == \A s \in DdSystems : IsDeviceSystem(s)

VARIABLES
    ddSystem,     \* the system, one of DdSystems
    ddAt,         \* "load", "scan", "check", "accepted", "inhibited", "stopped"
    ddTodo,       \* the actors of the phase that have not run
    ddData,       \* DeviceDriverDeprecationData: indices of entries
    ddStreams,    \* ConsumedDataAsset: the streams the asset is for
    ddDetected,   \* DetectedDeviceOrDriver: of each entry, how often
    ddReports     \* reports: <<severity, about>>
ddVars == <<ddSystem, ddAt, ddTodo, ddData, ddStreams, ddDetected, ddReports>>

DeviceInit ==
    /\ ddSystem \in DdSystems
    /\ ddAt = "load" /\ ddTodo = {} /\ ddData = {} /\ ddStreams = [field |-> "unread", majors |-> {}]
    /\ ddDetected = [i \in DOMAIN ddSystem.entries |-> 0] /\ ddReports = {}

-----------------------------------------------------------------------------
(* load_data_asset: whatever is wrong with the file stops leapp, but for the  *)
(* streams: a value that is no list is taken for an empty one, though not if  *)
(* it is zero or empty itself.                                                *)
Usable == ddSystem.asset = "readable" /\ ddSystem.streams # "zero"
StreamsAsRead == [field |-> ddSystem.streams, majors |-> ddSystem.majors]   \* mutant
StreamsOf ==
    IF ddSystem.streams = "value" THEN [field |-> "list", majors |-> {}]
    ELSE [field |-> ddSystem.streams, majors |-> ddSystem.majors]
LoadData ==
    /\ ddAt = "load"
    /\ IF Usable
       THEN /\ ddAt' = "scan" /\ ddTodo' = {"cpu", "drivers", "pci"}
            /\ ddStreams' = StreamsOf
            /\ ddData' = {i \in DOMAIN ddSystem.entries : ddSystem.entries[i].type # "usb"}
       ELSE ddAt' = "stopped" /\ UNCHANGED <<ddTodo, ddData, ddStreams>>
    /\ UNCHANGED <<ddSystem, ddDetected, ddReports>>

-----------------------------------------------------------------------------
(* Of several entries of one id, or of one driver, the last one counts.       *)
EntryAt(i) == ddSystem.entries[i]
LastOf(found) == IF found = {} THEN {} ELSE {Max(found)}
DeviceEntry(id) == LastOf({i \in ddData : EntryAt(i).type = "pci" /\ EntryAt(i).id = id})
DriverEntry(driver) ==
    LastOf({i \in ddData : EntryAt(i).id = <<>> /\ EntryAt(i).driver = driver})
Reported(actor, counts) ==
    /\ ddAt = "scan" /\ actor \in ddTodo
    /\ ddTodo' = IF ddTodo = {actor} THEN {"assets", "devices"} ELSE ddTodo \ {actor}
    /\ ddAt' = IF ddTodo = {actor} THEN "check" ELSE "scan"
    /\ ddDetected' = [i \in DOMAIN ddDetected |-> ddDetected[i] + counts[i]]
    /\ UNCHANGED <<ddSystem, ddData, ddStreams, ddReports>>

(* scan_cpu: the processor is matched by its family, and on x86_64 by its     *)
(* model or a set of models; that of an aarch64 is not recognised.            *)
MatchesCpu(entry) ==
    LET cpu == ddSystem.cpu
    IN /\ ddSystem.arch # "aarch64" /\ entry.id[1] = ddSystem.arch /\ entry.id[2] = cpu.family
       /\ ddSystem.arch = "x86_64" => (entry.models = {} \/ cpu.model \in entry.models)
ScanCPU ==
    Reported("cpu", [i \in DOMAIN ddDetected |->
        IF i \in ddData /\ EntryAt(i).type = "cpu" /\ MatchesCpu(EntryAt(i)) THEN 1 ELSE 0])

(* detect_kernel_drivers: the modules that are loaded.                        *)
DetectKernelDrivers ==
    LET found == UNION {DriverEntry(m) : m \in ddSystem.modules}
    IN Reported("drivers", [i \in DOMAIN ddDetected |-> IF i \in found THEN 1 ELSE 0])

(* pci_devices_scanner: each device by its id with its subsystem, else        *)
(* without; and the drivers of devices. ActiveKernelModulesFacts is not among *)
(* the messages the actor gets, so no driver is left out as already reported. *)
ShortId(d) == IF Len(d.id) = 2 THEN <<>> ELSE SubSeq(d.id, 1, 2)
FoundFor(d) ==
    IF DeviceEntry(d.id) # {} THEN DeviceEntry(d.id)
    ELSE IF ShortId(d) = <<>> THEN {} ELSE DeviceEntry(ShortId(d))
ActiveModules == {}
DriversOfDevices == {d.driver : d \in ddSystem.devices} \ ({""} \cup ActiveModules)
ScanDevices ==
    LET drivers == UNION {DriverEntry(m) : m \in DriversOfDevices}
        count(i) == Cardinality({d \in ddSystem.devices : i \in FoundFor(d)})
    IN Reported("pci", [i \in DOMAIN ddDetected |->
                          count(i) + (IF i \in drivers THEN 1 ELSE 0)])

-----------------------------------------------------------------------------
(* check_consumed_assets: why the asset is not for this leapp.                *)
Newest == Max(ddStreams.majors)
IsForThis == RequiredStream \in ddStreams.majors
AssetClass ==
    IF ddStreams.field = "absent" THEN "outdated"
    ELSE IF ddStreams.field = "wrong list" \/ ddStreams.majors = {} THEN "malformed"
    ELSE IF IsForThis THEN "right"
    ELSE IF RequiredStream > Newest THEN "outdated"
    ELSE IF RequiredStream < Min(ddStreams.majors) THEN "too new" ELSE "unknown"
AssetReports == IF AssetClass = "right" THEN {} ELSE {<<"inhibitor", AssetClass>>}

(* checkdddd: what the target does not have, and what it has unmaintained.    *)
Class(e) == IF e.type = "cpu" THEN "cpu" ELSE IF e.id = <<>> THEN "driver" ELSE "device"
NotMaintained(e) == ddSystem.target \notin e.maintained
NotAvailable(e) == ddSystem.target \notin e.available
DeviceReports ==
    LET found == {EntryAt(i) : i \in {j \in DOMAIN ddDetected : ddDetected[j] > 0}}
    IN {<<"inhibitor", Class(e)>> : e \in {f \in found : NotAvailable(f)}}
         \cup {<<"warning", Class(e)>> :
                 e \in {f \in found : ~NotAvailable(f) /\ NotMaintained(f)}}
Check(actor, reports) ==
    /\ ddAt = "check" /\ actor \in ddTodo
    /\ ddTodo' = ddTodo \ {actor} /\ ddReports' = ddReports \cup reports
    /\ ddAt' = IF ddTodo # {actor} THEN "check"
               ELSE IF \E r \in ddReports' : r[1] = "inhibitor" THEN "inhibited" ELSE "accepted"
    /\ UNCHANGED <<ddSystem, ddData, ddStreams, ddDetected>>
CheckConsumedAssets == Check("assets", AssetReports)
CheckDetectedDevices == Check("devices", DeviceReports)

DeviceNext ==
    \/ LoadData \/ ScanCPU \/ DetectKernelDrivers \/ ScanDevices
    \/ CheckConsumedAssets \/ CheckDetectedDevices
DeviceSpec == DeviceInit /\ [][DeviceNext]_ddVars

-----------------------------------------------------------------------------
(* The sets the variables take their values from.                             *)
DevicesTypeOK ==
    /\ ddAt \in {"load", "scan", "check", "accepted", "inhibited", "stopped"}
    /\ \A i \in DOMAIN ddDetected : ddDetected[i] > 0 => EntryAt(i).type \in {"pci", "cpu"}
    /\ \A r \in ddReports : r[1] \in {"inhibitor", "warning"}
    /\ ddAt = "accepted" => ddTodo = {} /\ ddStreams.field = "list"

(* What of the system an entry is about: a driver in use, whether or not its  *)
(* module goes by its name; a processor; a device no entry names more closely.*)
IsAbout(i) ==
    LET e == EntryAt(i)
    IN CASE e.type = "cpu" -> MatchesCpu(e)
         [] e.type = "pci" /\ e.id = <<>> ->
              e.driver \in (ddSystem.modules \cup {d.driver : d \in ddSystem.devices}) \ {""}
         [] e.type = "pci" /\ e.id # <<>> ->
              \E d \in ddSystem.devices :
                \/ d.id = e.id
                \/ IsStrictPrefix(e.id, d.id) /\ ~\E j \in ddData : EntryAt(j).id = d.id
         [] OTHER -> FALSE
Superseded(i) ==
    \E j \in ddData :
      /\ j > i /\ EntryAt(j).id = EntryAt(i).id /\ Class(EntryAt(j)) = Class(EntryAt(i))
      /\ CASE Class(EntryAt(i)) = "driver" -> EntryAt(j).driver = EntryAt(i).driver
           [] Class(EntryAt(i)) = "cpu" -> FALSE
           [] OTHER -> TRUE

(* An upgrade that is not inhibited leaves no hardware behind: each driver,   *)
(* device and processor the data know is available on the target ("the        *)
(* upgrade must be inhibited to avoid problems on boot").                     *)
NoHardwareIsLost ==
    ddAt = "accepted" =>
      \A i \in ddData :
        IsAbout(i) /\ ~Superseded(i) => ddSystem.target \in EntryAt(i).available

(* An entry for a device with its subsystem overrides the one for all of      *)
(* them: support of a variant is not denied for the sake of another           *)
(* (produce_detected_devices).                                                *)
ClosestEntryDecides ==
    ddAt \in {"accepted", "inhibited"} =>
      \A i \in DOMAIN ddDetected : ddDetected[i] > 0 => IsAbout(i) /\ ~Superseded(i)

(* What is only no longer maintained is reported and stops nobody ("a warning *)
(* should be generated, but the upgrade must NOT be inhibited").              *)
UnmaintainedIsNoInhibitor ==
    ddAt \in {"accepted", "inhibited"} =>
      \A i \in ddData :
        IsAbout(i) /\ ~Superseded(i) =>
          /\ ddSystem.target \notin EntryAt(i).available \cap EntryAt(i).maintained
               => \E r \in ddReports : r[2] = Class(EntryAt(i))
          /\ (\A j \in ddData : IsAbout(j) => ddSystem.target \in EntryAt(j).available)
               => <<"inhibitor", Class(EntryAt(i))>> \notin ddReports

(* The upgrade never rests on data made for another leapp, whichever of the   *)
(* two checks comes first (inhibit_if_assets_with_incorrect_version).         *)
DataAreForThisLeapp ==
    ddAt = "accepted" =>
      /\ ddSystem.streams = "list" /\ RequiredStream \in ddSystem.majors
      /\ \A i \in DOMAIN ddSystem.entries : ddSystem.entries[i].type # "usb" => i \in ddData

(* Devices, drivers and processors are judged by the entry of the data that   *)
(* fits them best, in data meant for this leapp, and what the target does not *)
(* support does not pass unnoticed.                                           *)
HardwareIsJudged ==
    /\ NoHardwareIsLost
    /\ ClosestEntryDecides
    /\ UnmaintainedIsNoInhibitor
    /\ DataAreForThisLeapp
=============================================================================
