---------------------------- MODULE TargetContent ----------------------------
(***************************************************************************)
(* What the upgrade installs, removes and upgrades, and from which target  *)
(* repositories: the actor target_content_resolver (PES events scanner,    *)
(* blocklist, target repositories) and the actor that filters its tasks,   *)
(* check_rpm_transaction_events.                                           *)
(*                                                                         *)
(* A Python set of Packages is a function from (name, modulestream), which *)
(* is what Package.__eq__ compares, to the repository.  A release is a     *)
(* number; those from Crossing on belong to the target major version.      *)
(***************************************************************************)
EXTENDS Naturals, FiniteSets, Sequences

CONSTANTS
  Names,      \* names of packages
  Streams,    \* module streams, and NoStream
  NoStream,   \* a package that is in no module
  Repos,      \* repoids and PES ids
  NoRepo,     \* the repository of what the user asks to install
  Crossing,   \* the first release of the target major version
  LeappPkgs,  \* the packages of leapp, which PES events leave alone
  Inputs      \* the inputs to start from

Package   == [name : Names, stream : Streams]
Mutations == {"REMOVED", "REPLACED", "SPLIT", "MERGED", "MOVED", "RENAMED"}
Actions   == Mutations \cup {"PRESENT", "DEPRECATED"}

IsPkgSet(A) ==
  /\ A = [p \in DOMAIN A |-> A[p]]
  /\ DOMAIN A \subseteq Package
  /\ \A p \in DOMAIN A : A[p] \in Repos
IsEvent(e) ==
  /\ e.action \in Actions /\ e.from \in Nat /\ e.to \in Nat
  /\ IsPkgSet(e.in) /\ IsPkgSet(e.out)

(* The messages the actors consume: the installed packages and the events  *)
(* of pes-events.json; the instructions of RpmTransactionTasks (install,   *)
(* remove, keep, module streams to enable); the RHUI clients that are      *)
(* installed; the repositories other actors ask for or block and the       *)
(* user's own ones; whether CRB is enabled, and the target CRB repoids;    *)
(* where the repository mapping takes a PES id, and the repoids it expects *)
(* for the source repositories.  scope: the releases after the source      *)
(* version, up to the target version.                                      *)
IsInput(i) ==
  /\ IsPkgSet(i.installed)
  /\ \A p, q \in DOMAIN i.installed : p.name = q.name => p = q
  /\ i.events = [k \in 1 .. Len(i.events) |-> i.events[k]]
  /\ \A k \in 1 .. Len(i.events) : IsEvent(i.events[k])
  /\ {i.install, i.remove, i.keep, i.clients} \subseteq SUBSET Names
  /\ i.modules \subseteq Streams
  /\ {i.enable, i.block, i.custom, i.crb, i.expected} \subseteq SUBSET Repos
  /\ i.crbEnabled \in BOOLEAN
  /\ DOMAIN i.map \subseteq Repos /\ \A r \in DOMAIN i.map : i.map[r] \in Repos
  /\ i.scope \subseteq Nat \ {0}

ASSUME ContentAssumption ==
  /\ NoStream \in Streams /\ NoRepo \in Repos
  /\ Crossing \in Nat \ {0}
  /\ \A i \in Inputs : IsInput(i)

VARIABLES
  input,     \* the messages; never changes
  pc,        \* what comes next
  source,    \* pkgs_to_begin_computation_with
  release,   \* the release whose events are applied, or the last one
  base,      \* the packages at the beginning of that release
  applied,   \* the events of that release that have been looked at
  target,    \* target_pkgs
  seen,      \* seen_pkgs
  demod,     \* pkgs_to_demodularize
  result,    \* what scan_pes_events makes of target_pkgs
  pes,       \* PESRpmTransactionTasks, or {} when there is no message
  requested, \* pes_requested_repoids
  tasks,     \* FilteredRpmTransactionTasks
  repos      \* TargetRepositories

calc == <<release, base, applied, target, seen, demod>>
vars == <<input, pc, source, calc, result, pes, requested, tasks, repos>>

-----------------------------------------------------------------------------
(* Sets of packages.                                                       *)

(* set.union: what is in both keeps the repository it has in A.            *)
Plus(A, B) ==
  [p \in DOMAIN A \cup DOMAIN B |-> IF p \in DOMAIN A THEN A[p] ELSE B[p]]
Only(A, S)  == [p \in DOMAIN A \cap S |-> A[p]]
Minus(A, S) == [p \in DOMAIN A \ S |-> A[p]]

NamesOf(S)  == {p.name : p \in S}
ReposOf(A)  == {A[p] : p \in DOMAIN A}
NonModular(n) == [name |-> n, stream |-> NoStream]

events == input.events

-----------------------------------------------------------------------------
(* Which events are applied, and in which order.                           *)

Releases == {events[k].to : k \in DOMAIN events} \cap input.scope

(* _remove_leapp_related_events comes after the releases are collected.    *)
RelevantEvents ==
  {k \in DOMAIN events : events[k].to \in Releases
                         /\ NamesOf(DOMAIN events[k].in) \cap LeappPkgs = {}}

(* Events with the same in_pkgs (whatever the repository) and the same     *)
(* from_release.                                                           *)
Group(k) ==
  {m \in RelevantEvents :
     /\ events[m].from = events[k].from
     /\ DOMAIN events[m].in = DOMAIN events[k].in}

Latest(G) == {m \in G : \A x \in G : events[x].to <= events[m].to}

(* _remove_undesired_events: a single latest event replaces its group.     *)
Kept(k) ==
  /\ k \in RelevantEvents
  /\ Cardinality(Latest(Group(k))) = 1 => k \in Latest(Group(k))

First(k) == CHOOSE m \in Group(k) : \A x \in Group(k) : m <= x

(* The cleaned events are listed group by group.                           *)
Before(j, k) == First(j) < First(k) \/ (First(j) = First(k) /\ j < k)

ToApply == {k \in DOMAIN events : Kept(k) /\ events[k].to = release} \ applied

-----------------------------------------------------------------------------
(* One event.                                                              *)

(* Mutant: PRESENT looks at the current packages only.                     *)
PresentNow(e, T, S) == Plus(Only(e.in, DOMAIN T), T)

(* PRESENT: packages seen before come (back) with their new repository.    *)
Present(e, T, S) == Plus(Only(e.in, S), T)

(* A mutation needs all its input packages at the beginning of the         *)
(* release, if it has any; for MERGED one of them is enough.               *)
Relevant(e) ==
  \/ DOMAIN e.in \subseteq DOMAIN base
  \/ e.action = "MERGED" /\ DOMAIN e.in \cap DOMAIN base # {}

Apply(e) ==
  IF e.action = "PRESENT" THEN Present(e, target, seen)
  ELSE IF e.action = "DEPRECATED"
       THEN IF DOMAIN e.in \cap DOMAIN base # {} THEN Plus(e.in, target) ELSE target
  ELSE IF Relevant(e) THEN Plus(e.out, Minus(target, DOMAIN e.in)) ELSE target

-----------------------------------------------------------------------------
(* After the last event.                                                   *)

(* Mutant: what leaves its module is lost.                                 *)
DemodularizedNone == << >>

(* What is to leave its module keeps the repository it had when the major  *)
(* version was crossed.                                                    *)
Demodularized ==
  [p \in {NonModular(n) : n \in NamesOf(DOMAIN demod)} |->
     demod[CHOOSE q \in DOMAIN demod : q.name = p.name]]
WithoutModules == Plus(Minus(target, DOMAIN demod), Demodularized)

(* Mutant: the PES ids stay.                                               *)
Unmapped(T) == T

(* _replace_pesids_with_repoids_in_packages: a package whose PES id has no *)
(* target repository is dropped.                                           *)
Mapped(T) ==
  LET pesids  == ReposOf(T) \ ReposOf(source)
      unknown == {p \in DOMAIN T : T[p] \in pesids \ DOMAIN input.map}
  IN  [p \in DOMAIN T \ unknown |-> IF T[p] \in pesids THEN input.map[T[p]] ELSE T[p]]

(* compute_blocklist                                                       *)
Blocked ==
  input.block \cup
    (IF input.crbEnabled \/ input.custom \cap input.crb # {} THEN {} ELSE input.crb)

(* _remove_new_packages_from_blocklisted_repos                             *)
Unblocked(T) ==
  Minus(T, {p \in DOMAIN T \ DOMAIN source : T[p] \in Blocked})

(* Mutant: the blocklist is applied to PES ids.                            *)
ResolvedEarly(T) == Mapped(Unblocked(T))

Resolved(T) == Unblocked(Mapped(T))

(* _compute_rpm_tasks_from_pkg_set_diff; {} is no message.                 *)
Difference(T) ==
  LET new == NamesOf(DOMAIN T) \ NamesOf(DOMAIN source)
      old == NamesOf(DOMAIN source) \ NamesOf(DOMAIN T)
  IN  IF new \cup old = {} THEN {}
      ELSE {[install |-> new, remove |-> old, keep |-> {},
             modules |-> {p.stream : p \in DOMAIN T \ DOMAIN demod} \ {NoStream}]}

(* _include_instructions_from_transaction_configuration: the packages to   *)
(* remove are compared with the installed ones as non-modular packages.    *)
Instructed(D) ==
  LET all(f) == UNION {t[f] : t \in D}
      asked  == {n \in input.remove : NonModular(n) \in DOMAIN input.installed}
      extended == [install |-> all("install") \cup input.install,
                   remove  |-> (all("remove") \cup asked) \ input.keep,
                   keep    |-> all("keep") \cup input.keep,
                   modules |-> all("modules")]
  IN  IF extended.install \cup extended.remove \cup extended.keep = {}
      THEN D ELSE {extended}

ToRemove(removal, keeping) == removal \ keeping

(* check_rpm_transaction_events: RpmTransactionTasks and the PES tasks;    *)
(* the RHUI clients count as packages of the distribution here.            *)
Filtered ==
  LET installed == NamesOf(DOMAIN input.installed) \cup input.clients
      install == input.install \cup UNION {t.install : t \in pes}
      keep    == installed \cap (input.keep \cup UNION {t.keep : t \in pes})
      remove  == ToRemove(installed \cap (input.remove \cup UNION {t.remove : t \in pes}),
                          keep)
  IN  [install |-> install, remove |-> remove, keep |-> keep,
       upgrade |-> installed \ (install \cup remove),
       modules |-> input.modules \cup UNION {t.modules : t \in pes}]

NoTasks == [install |-> {}, remove |-> {}, keep |-> {}, upgrade |-> {}, modules |-> {}]

-----------------------------------------------------------------------------
Init ==
  /\ input \in Inputs
  /\ pc = "start"
  /\ source = << >> /\ base = << >> /\ target = << >> /\ demod = << >>
  /\ result = << >>
  /\ release = 0 /\ applied = {} /\ seen = {}
  /\ pes = {} /\ requested = {} /\ tasks = NoTasks
  /\ repos = [distro |-> {}, custom |-> {}]

(* _apply_transaction_configuration                                        *)
Configured ==
  Minus(Plus(input.installed, [p \in {NonModular(n) : n \in input.install} |-> NoRepo]),
        {p \in DOMAIN input.installed : p.name \in input.remove \ input.keep})

(* scan_pes_events up to the loop; without events it returns at once.      *)
Prepare ==
  /\ pc = "start"
  /\ IF Len(events) = 0
     THEN pc' = "tasks" /\ UNCHANGED <<source, calc>>
     ELSE /\ pc' = "releases"
          /\ source' = Configured
          /\ target' = Configured
          /\ seen' = DOMAIN Configured
          /\ UNCHANGED <<release, base, applied, demod>>
  /\ UNCHANGED <<input, result, pes, requested, tasks, repos>>

(* Mutant: packages stay in their modules.                                 *)
LeavingNone(r) == demod

(* At the first release of the target major version every modular package  *)
(* is to leave its module.                                                 *)
Leaving(r) ==
  IF r >= Crossing /\ release < Crossing
  THEN Only(target, {p \in Package : p.stream # NoStream}) ELSE demod

(* The releases are taken in order.                                        *)
NextRelease ==
  /\ pc = "releases" /\ ToApply = {}
  /\ \E r \in Releases :
       /\ r > release
       /\ \A x \in Releases : x > release => r <= x
       /\ release' = r
       /\ demod' = Leaving(r)
  /\ base' = target
  /\ applied' = {}
  /\ seen' = seen \cup DOMAIN target
  /\ UNCHANGED <<input, pc, source, target, result, pes, requested, tasks, repos>>

ApplyEvent ==
  /\ pc = "releases"
  /\ \E k \in ToApply :
       /\ \A j \in ToApply \ {k} : Before(k, j)
       /\ target' = Apply(events[k])
       /\ demod' = Minus(demod, DOMAIN events[k].in)
       /\ applied' = applied \cup {k}
  /\ UNCHANGED <<input, pc, source, release, base, seen, result, pes, requested, tasks, repos>>

(* The rest of scan_pes_events.                                            *)
ProduceTasks ==
  /\ pc = "releases" /\ ToApply = {}
  /\ \A r \in Releases : r <= release
  /\ LET T == Resolved(WithoutModules)
     IN  /\ pes' = Instructed(Difference(T))
         /\ requested' = (ReposOf(T) \ Blocked) \ ReposOf(source)
         /\ result' = T
  /\ pc' = "tasks"
  /\ UNCHANGED <<input, source, calc, tasks, repos>>

(* setup_target_repos                                                      *)
SetupTargetRepos ==
  /\ pc = "tasks"
  /\ repos' = [distro |-> (input.expected \cup requested \cup input.enable) \ Blocked,
               custom |-> input.custom \ Blocked]
  /\ pc' = "filter"
  /\ UNCHANGED <<input, source, calc, result, pes, requested, tasks>>

FilterRpmTransactionTasks ==
  /\ pc = "filter"
  /\ tasks' = Filtered
  /\ pc' = "done"
  /\ UNCHANGED <<input, source, calc, result, pes, requested, repos>>

Next ==
  \/ Prepare \/ NextRelease \/ ApplyEvent \/ ProduceTasks
  \/ SetupTargetRepos \/ FilterRpmTransactionTasks

Spec == Init /\ [][Next]_vars

-----------------------------------------------------------------------------
(* Properties.                                                             *)

IsTasks(x) ==
  /\ x.install \subseteq Names /\ x.remove \subseteq Names
  /\ x.keep \subseteq Names /\ x.modules \subseteq Streams

(* The state is well-formed; among others, what is requested are target    *)
(* repoids, never a PES id.                                                *)
TypeOK ==
  /\ IsInput(input)
  /\ pc \in {"start", "releases", "tasks", "filter", "done"}
  /\ \A A \in {source, base, target, demod, result} : IsPkgSet(A)
  /\ release \in Nat /\ applied \subseteq DOMAIN events /\ seen \subseteq Package
  /\ pes = {} \/ \E x \in pes : pes = {x} /\ IsTasks(x)
  /\ requested \subseteq {input.map[r] : r \in DOMAIN input.map}
  /\ repos.distro \subseteq Repos /\ repos.custom \subseteq Repos
  /\ IsTasks(tasks) /\ tasks.upgrade \subseteq Names

Installed == NamesOf(DOMAIN input.installed)

(* What the user asks to keep is not removed, whatever the events and the  *)
(* other instructions say.                                                 *)
KeepIsKept == pc = "done" => tasks.remove \cap input.keep = {}

(* A package that neither an event nor an instruction names is upgraded    *)
(* when it is installed (RHUI clients whoever has signed them), and        *)
(* otherwise left alone.  (In a module, it must not come from a repository *)
(* that is blocked in the target system.)                                  *)
Mentioned(n) ==
  \/ n \in input.install \cup input.remove
  \/ \E k \in DOMAIN events :
       n \in NamesOf(DOMAIN events[k].in) \cup NamesOf(DOMAIN events[k].out)
BlockedModular(n) ==
  \E p \in DOMAIN input.installed :
    p.name = n /\ p.stream # NoStream /\ input.installed[p] \in Blocked
Untouched ==
  pc = "done" =>
    \A n \in Names :
      ~Mentioned(n) /\ ~BlockedModular(n)
        => /\ n \notin tasks.install \cup tasks.remove
           /\ n \in tasks.upgrade <=> n \in Installed \cup input.clients

(* The events of one release, taken one after the other on a changing set, *)
(* amount to what they mean together, unless one takes what another adds.  *)
Fires(k) ==
  LET e == events[k] IN
  CASE e.action = "PRESENT"    -> DOMAIN e.in \cap seen # {}
    [] e.action = "DEPRECATED" -> DOMAIN e.in \cap DOMAIN base # {}
    [] e.action = "MERGED"     -> DOMAIN e.in # {} => DOMAIN e.in \cap DOMAIN base # {}
    [] OTHER                   -> DOMAIN e.in \subseteq DOMAIN base
Taken(k) == IF events[k].action \in Mutations THEN DOMAIN events[k].in ELSE {}
Added(k) ==
  LET e == events[k] IN
  CASE e.action = "PRESENT"    -> DOMAIN e.in \cap seen
    [] e.action = "DEPRECATED" -> DOMAIN e.in
    [] OTHER                   -> DOMAIN e.out
Fired        == {k \in applied : Fires(k)}
ReleaseEnded == pc = "releases" /\ release # 0 /\ ToApply = {}
ReleaseIsTheSumOfItsEvents ==
  ReleaseEnded /\ (\A j, k \in Fired : j # k => Taken(j) \cap Added(k) = {})
    => DOMAIN target = (DOMAIN base \ UNION {Taken(k) : k \in Fired})
                       \cup UNION {Added(k) : k \in Fired}

(* A module stream is enabled in the target system only if an actor asks   *)
(* for it or an event of the target major version speaks of it: a stream   *)
(* of the source system need not exist any more.                           *)
StreamsComeFromEvents ==
  pc = "done" /\ (\E r \in Releases : r >= Crossing)
    => \A s \in tasks.modules \ input.modules : \E k \in DOMAIN events :
         /\ events[k].to >= Crossing
         /\ \E p \in DOMAIN events[k].in \cup DOMAIN events[k].out : p.stream = s

(* Every package the events ask to install comes from a repository that is *)
(* enabled for the target system, or that the source system has too.       *)
InstalledFromEnabledRepos ==
  pc = "done" =>
    \A n \in tasks.install \ input.install :
      \E p \in DOMAIN result :
        p.name = n /\ result[p] \in repos.distro \cup ReposOf(source)

(* What a test of the scanner says of a package whose target repository is *)
(* excluded: "does not remove the package as it was already installed".    *)
BlocklistRemovesNothing ==
  pc = "done" =>
    \A p \in DOMAIN Mapped(WithoutModules) :
      p.name \in Installed \ input.remove => p.name \notin tasks.remove
=============================================================================
