--------------------------- MODULE InPlaceUpgrade ---------------------------
(***************************************************************************)
(* What an in-place upgrade promises, with no processes, phases or files:  *)
(* which system is running, whether the boot loader would start the        *)
(* upgrade, what is installed, and whether the upgrade is finished.        *)
(* IPULifecycle implements this specification.                             *)
(***************************************************************************)
VARIABLES
  world,     \* what runs: the installed system, the interim system or nothing
  armed,     \* the boot loader has an entry that starts the upgrade
  system,    \* the installed packages
  finished   \* the upgrade has passed its last phase

promise == <<world, armed, system, finished>>

Init ==
  /\ world = "os" /\ system = "source"
  /\ ~armed /\ ~finished

(* The interim system is entered through the upgrade entry, or not at all. *)
Reboot ==
  /\ \/ world' \in {"os", "down"}
     \/ world = "down" /\ armed /\ world' = "interim"
  /\ UNCHANGED <<armed, system, finished>>

Arm ==
  /\ world # "down" /\ system # "target"
  /\ armed' = TRUE
  /\ UNCHANGED <<world, system, finished>>

Disarm ==
  /\ world # "down" /\ system # "target"
  /\ armed' = FALSE
  /\ UNCHANGED <<world, system, finished>>

Install ==
  /\ world = "interim" /\ ~armed /\ system # "target"
  /\ system' \in {"mixed", "target"}
  /\ UNCHANGED <<world, armed, finished>>

Finish ==
  /\ world = "os" /\ ~armed /\ system = "target"
  /\ finished' = TRUE
  /\ UNCHANGED <<world, armed, system>>

Next == Reboot \/ Arm \/ Disarm \/ Install \/ Finish

Spec == Init /\ [][Next]_promise
=============================================================================
