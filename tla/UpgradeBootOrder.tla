-------------------------- MODULE UpgradeBootOrder --------------------------
(* The entries of the UEFI boot manager over the upgrade: what the actors do  *)
(* with efibootmgr so that the machine boots the upgrade and then the target. *)
(*                                                                            *)
(* InterimPreparation: efi_interim_fix, on ARM also                           *)
(* add_arm_bootloader_workaround (an entry of its own, with its own loader),  *)
(* and add_upgrade_boot_entry; InitRamStart: remove_upgrade_efi_entry;        *)
(* Applications: update_efi, when the distribution is converted;              *)
(* Finalization: efi_finalization_fix.  The firmware boots BootNext once,     *)
(* else the first entry of BootOrder that it can load.                        *)
EXTENDS Naturals, FiniteSets, Sequences, SequencesExt

CONSTANTS
    LastNumber,      \* the boot numbers of the firmware go up to it
    BootSystems,     \* the machines, see IsBootSystem
    MaxPreparations, \* executions of InterimPreparation
    MaxEfiErrors     \* failing calls of efibootmgr and failing actors

Numbers == 0 .. LastNumber
NoNumber == LastNumber + 1   \* no boot number

(* An entry is the loader it names: the source's, the upgrade's, the target's *)
(* or one of somebody else (a disk with another system, the network).         *)
Loaders == {"source", "upgrade", "target", "other"}

(* An entry of the upgrade is one that an earlier upgrade has left, on ARM;   *)
(* the firmware has numbers for the two that may be added.                    *)
IsBootSystem(s) ==
    /\ s.arm \in BOOLEAN /\ s.conversion \in BOOLEAN
    /\ DOMAIN s.entries \subseteq Numbers /\ s.entries \in [DOMAIN s.entries -> Loaders]
    /\ s.order \in Seq(DOMAIN s.entries) /\ IsInjective(s.order)
    /\ s.current \in DOMAIN s.entries /\ s.entries[s.current] = "source"
    /\ s.next \in DOMAIN s.entries \cup {NoNumber}
    /\ \A m, n \in DOMAIN s.entries :
         s.entries[m] = "upgrade" /\ s.entries[n] = "upgrade" => s.arm /\ m = n
    /\ \E m, n \in Numbers \ DOMAIN s.entries : m # n

ASSUME BootSystemsAssumption ==
    /\ LastNumber \in Nat /\ MaxPreparations \in Nat /\ MaxEfiErrors \in Nat
    /\ \A s \in BootSystems : IsBootSystem(s)

VARIABLES
    ebSystem,    \* the machine
    ebAt,        \* the phase, or the kind of boot under way
    ebTodo,      \* what is left to do in it: actors or steps
    ebEntries,   \* boot number -> loader
    ebOrder,     \* BootOrder
    ebNext,      \* BootNext or NoNumber
    ebCurrent,   \* BootCurrent
    ebDirs,      \* the directories of the ESP with a loader
    ebBls,       \* the BLS directories with the upgrade's entry
    ebInfo,      \* ArmWorkaroundEFIBootloaderInfo: [original, upgrade]
    ebSeen,      \* the entries update_efi has read
    ebReports,   \* what was reported or logged
    ebPrepared,  \* executions of InterimPreparation so far
    ebErrors     \* errors so far

ebNvram == <<ebEntries, ebOrder, ebNext, ebCurrent>>
ebVars == <<ebSystem, ebAt, ebTodo, ebNvram, ebDirs, ebBls, ebInfo, ebSeen,
            ebReports, ebPrepared, ebErrors>>

(* efibootmgr --create takes the lowest free number and puts it first.        *)
FreeNumber == CHOOSE n \in Numbers \ DOMAIN ebEntries :
                  \A m \in Numbers \ DOMAIN ebEntries : n <= m
Number(loader) == CHOOSE n \in DOMAIN ebEntries : ebEntries[n] = loader
HasEntry(loader) == \E n \in DOMAIN ebEntries : ebEntries[n] = loader

AddEntry(loader) ==
    IF HasEntry(loader)
    THEN UNCHANGED <<ebEntries, ebOrder>>
    ELSE /\ ebEntries' = [n \in DOMAIN ebEntries \cup {FreeNumber} |->
                             IF n = FreeNumber THEN loader ELSE ebEntries[n]]
         /\ ebOrder' = <<FreeNumber>> \o ebOrder

RemoveEntry(number) ==
    /\ ebEntries' = [n \in DOMAIN ebEntries \ {number} |-> ebEntries[n]]
    /\ \/ number \notin ToSet(ebOrder) /\ UNCHANGED ebOrder
       \/ \E i \in DOMAIN ebOrder :
            ebOrder[i] = number /\ ebOrder' = RemoveAt(ebOrder, i)

(* efi.set_bootnext raises EFIError when efibootmgr fails; it may refuse a    *)
(* number that has no entry.                                                  *)
MayRefuse(number) == number \notin DOMAIN ebEntries \/ ebErrors < MaxEfiErrors
Refused(number) ==
    ebErrors' = IF number \in DOMAIN ebEntries THEN ebErrors + 1 ELSE ebErrors

EfiFault == ebErrors < MaxEfiErrors /\ ebErrors' = ebErrors + 1
EfiReport(what) == ebReports' = ebReports \cup {what}

(* The firmware.                                                              *)
Loadable(n) == n \in DOMAIN ebEntries /\ ebEntries[n] \in ebDirs
BootList == IF ebNext = NoNumber THEN ebOrder ELSE <<ebNext>> \o ebOrder
BootChoices == {i \in DOMAIN BootList : Loadable(BootList[i])}
Chosen == BootList[CHOOSE i \in BootChoices : \A j \in BootChoices : i <= j]

(* Which kernel a loader starts by default: grubby has made the upgrade's     *)
(* entry the default, but it is only seen by the loader whose grubenv names   *)
(* the BLS directory in which it is.                                          *)
StartsUpgrade(loader) ==
    IF ebBls = {"upgrade"} THEN loader = "upgrade" ELSE "system" \in ebBls

FirmwareBoots ==
    /\ BootChoices # {}
    /\ ebCurrent' = Chosen /\ ebNext' = NoNumber
    /\ UNCHANGED <<ebEntries, ebOrder>>

-----------------------------------------------------------------------------
(* InterimPreparation                                                         *)

InterimActors == {"fix", "entry"} \cup (IF ebSystem.arm THEN {"workaround"} ELSE {})

StartPreparation ==
    /\ ebAt = "source" /\ ebPrepared < MaxPreparations
    /\ ebAt' = "interim" /\ ebTodo' = InterimActors
    /\ ebPrepared' = ebPrepared + 1
    /\ UNCHANGED <<ebSystem, ebNvram, ebDirs, ebBls, ebInfo, ebSeen, ebReports,
                   ebErrors>>

(* maybe_emit_updated_boot_entry, in the interim and in the finalization: an  *)
(* error is only logged.                                                      *)
KeepsBootAlways == TRUE   \* mutant
KeepsBoot == ebNext = NoNumber
BootFix ==
    /\ IF ~KeepsBoot THEN UNCHANGED <<ebNext, ebErrors>>
       ELSE \/ ebNext' = ebCurrent /\ UNCHANGED ebErrors
            \/ MayRefuse(ebCurrent) /\ Refused(ebCurrent) /\ UNCHANGED ebNext
    /\ UNCHANGED <<ebEntries, ebOrder, ebCurrent>>

EfiInterimFix ==
    /\ ebAt = "interim" /\ "fix" \in ebTodo
    /\ BootFix
    /\ ebTodo' = ebTodo \ {"fix"}
    /\ UNCHANGED <<ebSystem, ebAt, ebDirs, ebBls, ebInfo, ebSeen, ebReports,
                   ebPrepared>>

(* The directory of the upgrade's loader is made anew, the entry is added or  *)
(* found, BootNext set and the original entry (BootCurrent) recorded.  On an  *)
(* error the actor stops after the directory, or after the entry.             *)
AddWorkaround ==
    /\ ebAt = "interim" /\ "workaround" \in ebTodo
    /\ ebDirs' = ebDirs \cup {"upgrade"}
    /\ AddEntry("upgrade")
    /\ LET upgrade == CHOOSE n \in DOMAIN ebEntries' : ebEntries'[n] = "upgrade"
       IN  /\ ebNext' = upgrade
           /\ ebInfo' = [original |-> ebCurrent, upgrade |-> upgrade]
    /\ ebTodo' = ebTodo \ {"workaround"}
    /\ UNCHANGED <<ebSystem, ebAt, ebCurrent, ebBls, ebSeen, ebReports,
                   ebPrepared, ebErrors>>

WorkaroundFails ==
    /\ ebAt = "interim" /\ "workaround" \in ebTodo /\ EfiFault
    /\ \/ ebDirs' = ebDirs \ {"upgrade"} /\ UNCHANGED ebNvram
       \/ ebDirs' = ebDirs \cup {"upgrade"} /\ UNCHANGED ebNvram
       \/ /\ ebDirs' = ebDirs \cup {"upgrade"} /\ AddEntry("upgrade")
          /\ UNCHANGED <<ebNext, ebCurrent>>
    /\ ebAt' = "source" /\ ebTodo' = {}
    /\ UNCHANGED <<ebSystem, ebBls, ebInfo, ebSeen, ebReports, ebPrepared>>

(* add_upgrade_boot_entry, after the workaround whose message it consumes:    *)
(* grubby replaces the entry in the system's BLS directory; with the message  *)
(* it is moved to a directory of its own, made anew, which the grubenv of the *)
(* upgrade's loader names.                                                    *)
AddUpgradeEntry ==
    /\ ebAt = "interim" /\ "entry" \in ebTodo /\ "workaround" \notin ebTodo
    /\ ebBls' = IF ebSystem.arm THEN {"upgrade"} ELSE {"system"}
    /\ ebTodo' = ebTodo \ {"entry"}
    /\ UNCHANGED <<ebSystem, ebAt, ebNvram, ebDirs, ebInfo, ebSeen, ebReports,
                   ebPrepared, ebErrors>>

UpgradeEntryFails ==
    /\ ebAt = "interim" /\ "entry" \in ebTodo /\ "workaround" \notin ebTodo
    /\ EfiFault
    /\ \E added \in {{}, {"system"}}, left \in SUBSET (ebBls \cap {"upgrade"}) :
         ebBls' = added \cup left
    /\ ebAt' = "source" /\ ebTodo' = {}
    /\ UNCHANGED <<ebSystem, ebNvram, ebDirs, ebInfo, ebSeen, ebReports,
                   ebPrepared>>

FinishPreparation ==
    /\ ebAt = "interim" /\ ebTodo = {}
    /\ ebAt' = "reboot"
    /\ UNCHANGED <<ebSystem, ebTodo, ebNvram, ebDirs, ebBls, ebInfo, ebSeen,
                   ebReports, ebPrepared, ebErrors>>

(* The reboot into the upgrade, or one of a system left half prepared.        *)
RebootSource ==
    /\ ebAt = "reboot" \/ (ebAt = "source" /\ ebPrepared > 0)
    /\ FirmwareBoots
    /\ ebAt' = IF ebEntries[Chosen] = "other" THEN "elsewhere"
               ELSE IF ebAt = "reboot" /\ StartsUpgrade(ebEntries[Chosen])
               THEN "initram" ELSE "source"
    /\ UNCHANGED <<ebSystem, ebTodo, ebDirs, ebBls, ebInfo, ebSeen, ebReports,
                   ebPrepared, ebErrors>>

-----------------------------------------------------------------------------
(* The upgrade                                                                *)

(* remove_upgrade_efi_entry and remove_upgrade_boot_entry: what fails before  *)
(* set_bootnext is logged; an EFIError of set_bootnext is not caught.         *)
Original == ebInfo.original
UpgradeNumberNext == ebNext   \* mutant
UpgradeNumber == ebInfo.upgrade
RemoveUpgradeEntry ==
    /\ ebAt = "initram"
    /\ IF ~ebSystem.arm
       THEN /\ ebBls' = {} /\ ebAt' = "transaction"
            /\ UNCHANGED <<ebNvram, ebDirs, ebReports, ebErrors>>
       ELSE \/ /\ RemoveEntry(UpgradeNumber)
               /\ ebDirs' = ebDirs \ {"upgrade"} /\ ebBls' = ebBls \ {"upgrade"}
               /\ UNCHANGED <<ebReports, ebCurrent>>
               /\ \/ /\ ebNext' = Original
                     /\ ebAt' = "transaction" /\ UNCHANGED ebErrors
                  \/ /\ \/ Original \notin DOMAIN ebEntries' /\ UNCHANGED ebErrors
                        \/ EfiFault
                     /\ ebAt' = "stopped" /\ UNCHANGED ebNext
            \/ /\ EfiFault                      \* something could not be removed
               /\ \/ /\ RemoveEntry(UpgradeNumber)
                     /\ UNCHANGED <<ebDirs, ebBls>>
                  \/ /\ UNCHANGED <<ebEntries, ebOrder>>
                     /\ ebDirs' = ebDirs \ {"upgrade"}
                     /\ ebBls' = ebBls \ {"upgrade"}
               /\ ebNext' = Original /\ ebAt' = "transaction"
               /\ EfiReport("upgrade entry left") /\ UNCHANGED ebCurrent
    /\ UNCHANGED <<ebSystem, ebTodo, ebInfo, ebSeen, ebPrepared>>

(* A conversion replaces the package of the loader with the target's.         *)
Transaction ==
    /\ ebAt = "transaction"
    /\ IF ebSystem.conversion
       THEN /\ ebDirs' = (ebDirs \ {"source"}) \cup {"target"}
            /\ ebAt' = "applications" /\ ebTodo' = {"add"}
            /\ ebSeen' = ebEntries
       ELSE ebAt' = "finalization" /\ UNCHANGED <<ebDirs, ebTodo, ebSeen>>
    /\ UNCHANGED <<ebSystem, ebNvram, ebBls, ebInfo, ebReports, ebPrepared,
                   ebErrors>>

(* update_efi: add the target's entry, set BootNext, remove the directory and *)
(* then the entry of the source.                                              *)
AddTargetEntry ==
    /\ ebAt = "applications" /\ ebTodo = {"add"}
    /\ \/ /\ AddEntry("target")
          /\ ebTodo' = {"next"} /\ UNCHANGED <<ebAt, ebErrors>>
       \/ EfiFault /\ ebAt' = "stopped" /\ UNCHANGED <<ebTodo, ebEntries, ebOrder>>
    /\ UNCHANGED <<ebSystem, ebNext, ebCurrent, ebDirs, ebBls, ebInfo, ebSeen,
                   ebReports, ebPrepared>>

NextIsTarget == Number("target")
SetTargetNext ==
    /\ ebAt = "applications" /\ ebTodo = {"next"}
    /\ \/ /\ ebNext' = NextIsTarget
          /\ ebTodo' = {"directory"} /\ UNCHANGED <<ebAt, ebErrors>>
       \/ EfiFault /\ ebAt' = "stopped" /\ UNCHANGED <<ebTodo, ebNext>>
    /\ UNCHANGED <<ebSystem, ebEntries, ebOrder, ebCurrent, ebDirs, ebBls,
                   ebInfo, ebSeen, ebReports, ebPrepared>>

RemoveSourceDirectory ==
    /\ ebAt = "applications" /\ ebTodo = {"directory"}
    /\ UNCHANGED ebReports \/ EfiReport("directory left")
    /\ ebTodo' = {"entry"}
    /\ UNCHANGED <<ebSystem, ebAt, ebNvram, ebDirs, ebBls, ebInfo, ebSeen,
                   ebPrepared, ebErrors>>

(* _remove_boot_entry_for_source looks at the number of BootCurrent: it must  *)
(* still have the entry it had before the target's was added.  A number that  *)
(* had none then, as that of the removed upgrade's entry, is a KeyError.      *)
SameEntry == /\ ebCurrent \in DOMAIN ebEntries \cap DOMAIN ebSeen
             /\ ebEntries[ebCurrent] = ebSeen[ebCurrent]
UnknownNumber == ebCurrent \in DOMAIN ebEntries \ DOMAIN ebSeen

RemoveSourceEntry ==
    /\ ebAt = "applications" /\ ebTodo = {"entry"}
    /\ ebTodo' = {}
    /\ \/ /\ SameEntry
          /\ \/ /\ RemoveEntry(ebCurrent)
                /\ ebAt' = "finalization" /\ UNCHANGED <<ebReports, ebErrors>>
             \/ /\ EfiFault /\ EfiReport("source entry left")
                /\ ebAt' = "finalization" /\ UNCHANGED <<ebEntries, ebOrder>>
       \/ /\ ~SameEntry /\ UnknownNumber
          /\ EfiReport("KeyError")
          /\ ebAt' = "stopped" /\ UNCHANGED <<ebEntries, ebOrder, ebErrors>>
       \/ /\ ~SameEntry /\ ~UnknownNumber
          /\ ebAt' = "finalization"
          /\ UNCHANGED <<ebEntries, ebOrder, ebReports, ebErrors>>
    /\ UNCHANGED <<ebSystem, ebNext, ebCurrent, ebDirs, ebBls, ebInfo, ebSeen,
                   ebPrepared>>

FinalFix == BootFix
EfiFinalizationFix ==
    /\ ebAt = "finalization"
    /\ FinalFix
    /\ ebAt' = "reboot target"
    /\ UNCHANGED <<ebSystem, ebTodo, ebDirs, ebBls, ebInfo, ebSeen, ebReports,
                   ebPrepared>>

RebootTarget ==
    /\ ebAt = "reboot target"
    /\ FirmwareBoots
    /\ ebAt' = IF ebEntries[Chosen] = "other" THEN "elsewhere" ELSE "target"
    /\ UNCHANGED <<ebSystem, ebTodo, ebDirs, ebBls, ebInfo, ebSeen, ebReports,
                   ebPrepared, ebErrors>>

BootOrderInit ==
    /\ ebSystem \in BootSystems
    /\ ebAt = "source" /\ ebTodo = {}
    /\ ebEntries = ebSystem.entries /\ ebOrder = ebSystem.order
    /\ ebNext = ebSystem.next /\ ebCurrent = ebSystem.current
    /\ ebDirs = {"source", "other"} /\ ebBls = {}
    /\ ebInfo = [original |-> NoNumber, upgrade |-> NoNumber] /\ ebSeen = ebEntries
    /\ ebReports = {} /\ ebPrepared = 0 /\ ebErrors = 0

BootOrderNext ==
    \/ StartPreparation \/ EfiInterimFix \/ AddWorkaround \/ WorkaroundFails
    \/ AddUpgradeEntry \/ UpgradeEntryFails \/ FinishPreparation \/ RebootSource
    \/ RemoveUpgradeEntry \/ Transaction
    \/ AddTargetEntry \/ SetTargetNext \/ RemoveSourceDirectory
    \/ RemoveSourceEntry \/ EfiFinalizationFix \/ RebootTarget

BootOrderSpec == BootOrderInit /\ [][BootOrderNext]_ebVars

-----------------------------------------------------------------------------
(* Properties.                                                                *)

BootOrderTypeOK ==
    /\ IsBootSystem(ebSystem)
    /\ DOMAIN ebEntries \subseteq Numbers
    /\ \A n \in DOMAIN ebEntries : ebEntries[n] \in Loaders
    /\ ToSet(ebOrder) \subseteq DOMAIN ebEntries
    /\ ebNext \in Numbers \cup {NoNumber} /\ ebCurrent \in Numbers
    /\ ebDirs \subseteq Loaders /\ ebBls \subseteq {"system", "upgrade"}
    /\ ebErrors \in 0 .. MaxEfiErrors /\ ebPrepared \in 0 .. MaxPreparations

(* A prepared machine boots the upgrade, in whatever order the actors of the  *)
(* phase ran and whatever earlier preparations left - unless, without the     *)
(* workaround, the user had chosen a BootNext, or efibootmgr had failed.      *)
PreparedBootsUpgrade ==
    (/\ ebAt = "reboot"
     /\ ebSystem.arm \/ (ebSystem.next = NoNumber /\ ebErrors = 0)) =>
        BootChoices # {} /\ StartsUpgrade(ebEntries[Chosen])

(* At the last reboot the firmware finds the loader of the installed system:  *)
(* the target's after a conversion, else the one that was there; what the     *)
(* user has before it in BootOrder is not booted instead.                     *)
TargetIsBooted ==
    (ebAt = "reboot target" /\ (ebSystem.conversion \/ ebErrors = 0)) =>
        /\ BootChoices # {}
        /\ ebEntries[Chosen] =
             (IF ebSystem.conversion THEN "target" ELSE "source")

(* Nothing but the upgrade's and the source's entry is ever removed, although *)
(* numbers are given out again.                                               *)
OthersKeepTheirEntries ==
    /\ \A n \in DOMAIN ebSystem.entries : ebSystem.entries[n] = "other" =>
         n \in DOMAIN ebEntries /\ ebEntries[n] = "other"
    /\ ebAt \in {"reboot target", "target"} /\ ebSystem.conversion =>
         HasEntry("target")

(* The target has neither the entry nor the files of the upgrade, or a        *)
(* warning says so.                                                           *)
NoUpgradeEntryLeft ==
    ebAt = "target" =>
        \/ "upgrade entry left" \in ebReports
        \/ ~HasEntry("upgrade") /\ "upgrade" \notin ebDirs /\ ebBls = {}

(* Why an upgrade under way stops: efibootmgr failed, or the upgrade's entry  *)
(* was taken for the original one (a preparation had failed, and the machine  *)
(* was rebooted by the entry it left), or the number of that entry was given  *)
(* out again before update_efi looked at it.                                  *)
StopsForAReason ==
    ebAt = "stopped" =>
        \/ ebErrors > 0 /\ "KeyError" \notin ebReports
        \/ ebSystem.arm /\ "KeyError" \in ebReports /\ ebSystem.conversion

(* What the docstring of update_efi says: a conversion removes the EFI boot   *)
(* entry of the source.                                                       *)
ConversionRemovesSourceEntry ==
    (ebAt \in {"finalization", "stopped"} /\ ebSystem.conversion
       /\ ebTodo = {} /\ ebErrors = 0) => ~HasEntry("source")

(* At each of the two reboots the firmware chooses what the upgrade needs     *)
(* next: the upgrade environment, then the installed system.                  *)
FirmwareBootsWhatIsDue ==
    /\ PreparedBootsUpgrade
    /\ TargetIsBooted

(* What the upgrade leaves in NVRAM and on the EFI partition: all entries of  *)
(* others, nothing of its own, and an upgrade that stops on the way has a     *)
(* reason to.                                                                 *)
FirmwareIsLeftClean ==
    /\ OthersKeepTheirEntries
    /\ NoUpgradeEntryLeft
    /\ StopsForAReason
=============================================================================
