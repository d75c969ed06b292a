-------------------------- MODULE MCTargetUserspace --------------------------
(* The target userspace and the stages of the RPM transaction on a system  *)
(* with up to three file systems, the scratch directory being on /var.     *)
EXTENDS TransactionStages

CONSTANTS FstabChoices, SetupChoice, WithIso

MCOrder  == <<"/", "/var", "/var/log">>
MCWithin == [p \in {"/", "/var", "/var/log", "scratch", "cache", "userspace"} |->
               CASE p = "/" -> {}
                 [] p = "/var/log" -> {"/", "/var"}
                 [] p = "/var" -> {"/"}
                 [] OTHER -> {"/", "/var"}]

(* How large the file systems are: no room, too little for the reserve,    *)
(* ordinary, beyond the largest image that is made.                        *)
Free(scratchFree, rootFree) ==
  [p \in {"/", "/var", "/var/log", "scratch"} |->
     IF p = "scratch" THEN scratchFree ELSE IF p = "/" THEN rootFree ELSE 300]

MCFreeSpace == {0, 300, 2500, 4000, 2000000}

Fstabs ==
  CASE FstabChoices = "few" -> {{"/", "/var", "/var/log"}}
    [] FstabChoices = "all" -> {{"/"}, {"/", "/var"}, {"/", "/var", "/var/log"}, {"/var"}}

(* create_source_overlay of userspacegen reserves for the container, too.  *)
Sizes == {<<4000, 2000000>>, <<2500, 4000>>}

MCCreatorTasks ==
  {[fstab |-> F, target |-> FALSE, iso |-> FALSE, reserve |-> Reserve(3200, 0, -1),
    free |-> Free(s[1], s[2])] : F \in Fstabs, s \in Sizes}

MCStageTasks ==
  {[fstab |-> {"/", "/var", "/var/log"}, target |-> TRUE, iso |-> FALSE,
    reserve |-> Reserve(2200, 1500, -1), free |-> Free(4000, 300)]}

-----------------------------------------------------------------------------
(* Systems: repoids b (BaseOS), a (AppStream), c (custom).                 *)

D(f, r) == [x \in {f} |-> r]
None == << >>

Rhel == [distro |-> "rhel", customOnly |-> FALSE, rhsm |-> TRUE, certificate |-> TRUE,
         iso |-> WithIso, source |-> D("redhat", {"old"}), owned |-> {}, subscribed |-> {"b", "a"},
         rhui |-> NoRhui, customFiles |-> D("custom", {"c"}), packaged |-> None,
         wanted |-> {"b", "a"}, custom |-> {"c"}]

Client(bootstrap) ==
  [present |-> TRUE, bootstrap |-> bootstrap, remove |-> {"source"},
   copied |-> D("leapp", {"b", "a"}), support |-> {}, client |-> D("client", {"b", "a"})]

OnRhui(bootstrap) ==
  [Rhel EXCEPT !.rhsm = FALSE, !.source = D("source", {"old"}), !.owned = {"source"},
     !.rhui = Client(bootstrap), !.packaged = D("client", {"b", "a"}), !.subscribed = {}]

(* The file that leapp ships has the name of one of the target client.     *)
Collides ==
  [OnRhui(FALSE) EXCEPT !.rhui.copied = D("client", {"b", "a"})]

MCSetups ==
  CASE SetupChoice = "all" ->
    { Rhel,
      [Rhel EXCEPT !.certificate = FALSE],
      [Rhel EXCEPT !.subscribed = {"b"}],
      [Rhel EXCEPT !.customFiles = None],
      [Rhel EXCEPT !.customFiles = D("custom", {"c", "a"})],
      [Rhel EXCEPT !.rhsm = FALSE],
      [Rhel EXCEPT !.rhsm = FALSE, !.custom = {}],
      [Rhel EXCEPT !.rhsm = FALSE, !.customFiles = Put(D("custom", {"c"}), D("leapp", {"c"}))],
      [Rhel EXCEPT !.distro = "centos", !.rhsm = FALSE, !.source = D("redhat", {"old"})],
      [Rhel EXCEPT !.distro = "centos", !.rhsm = FALSE,
                   !.source = Put(D("centos", {"b", "a"}), D("redhat", {"old"}))],
      [Rhel EXCEPT !.distro = "centos", !.rhsm = FALSE, !.customOnly = TRUE],
      OnRhui(TRUE), OnRhui(FALSE) }
    [] SetupChoice = "rhui" -> { OnRhui(TRUE), OnRhui(FALSE) }
    [] SetupChoice = "collides" -> { Collides }

(* The systems but the last one are such that the theorem Defined of        *)
(* TransactionStagesProofs is about them.                                  *)
ASSUME SystemsFit == SetupChoice # "collides" => \A s \in Setups : RepofilesFit(s)
=============================================================================
