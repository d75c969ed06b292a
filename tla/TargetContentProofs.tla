------------------------- MODULE TargetContentProofs -------------------------
(***************************************************************************)
(* The properties of TargetContent for every input: any number of events,  *)
(* packages, releases and instructions.                                    *)
(***************************************************************************)
EXTENDS TargetContent, TLAPS

-----------------------------------------------------------------------------
(* Sets of packages.                                                       *)

LEMMA EmptyPkgSet == IsPkgSet(<< >>) /\ DOMAIN << >> = {}
BY DEF IsPkgSet

LEMMA PlusPkgSet ==
  ASSUME NEW A, NEW B, IsPkgSet(A), IsPkgSet(B)
  PROVE  /\ IsPkgSet(Plus(A, B))
         /\ DOMAIN Plus(A, B) = DOMAIN A \cup DOMAIN B
BY DEF IsPkgSet, Plus

LEMMA MinusPkgSet ==
  ASSUME NEW A, NEW S, IsPkgSet(A)
  PROVE  /\ IsPkgSet(Minus(A, S))
         /\ DOMAIN Minus(A, S) = DOMAIN A \ S
BY DEF IsPkgSet, Minus

LEMMA OnlyPkgSet ==
  ASSUME NEW A, NEW S, IsPkgSet(A)
  PROVE  /\ IsPkgSet(Only(A, S))
         /\ DOMAIN Only(A, S) = DOMAIN A \cap S
BY DEF IsPkgSet, Only

(* The events and the instructions of a well-formed input.                 *)
LEMMA EventPkgSets ==
  ASSUME IsInput(input), NEW k \in DOMAIN events
  PROVE  /\ IsPkgSet(events[k].in) /\ IsPkgSet(events[k].out)
         /\ events[k].to \in Nat
<1>1. DOMAIN events = 1 .. Len(events)
  BY DEF IsInput, events
<1> QED
  BY <1>1 DEF IsInput, IsEvent, events

LEMMA ConfiguredPkgSet ==
  ASSUME IsInput(input)
  PROVE  IsPkgSet(Configured)
<1> DEFINE asked == [p \in {NonModular(n) : n \in input.install} |-> NoRepo]
<1>1. IsPkgSet(asked)
  BY ContentAssumption DEF IsPkgSet, IsInput, NonModular, Package
<1>2. IsPkgSet(input.installed)
  BY DEF IsInput
<1> QED
  BY <1>1, <1>2, PlusPkgSet, MinusPkgSet DEF Configured

LEMMA ApplyPkgSet ==
  ASSUME IsInput(input), IsPkgSet(target), NEW k \in DOMAIN events
  PROVE  IsPkgSet(Apply(events[k]))
<1>1. IsPkgSet(events[k].in) /\ IsPkgSet(events[k].out)
  BY EventPkgSets
<1> QED
  BY <1>1, PlusPkgSet, MinusPkgSet, OnlyPkgSet DEF Apply, Present

(* Packages that leave their module keep a repository.                     *)
LEMMA DemodularizedPkgSet ==
  ASSUME IsPkgSet(demod)
  PROVE  /\ IsPkgSet(Demodularized)
         /\ \A p \in DOMAIN Demodularized :
              /\ p.stream = NoStream
              /\ \E q \in DOMAIN demod : q.name = p.name /\ Demodularized[p] = demod[q]
<1>1. DOMAIN Demodularized = {NonModular(n) : n \in NamesOf(DOMAIN demod)}
  BY DEF Demodularized
<1>2. ASSUME NEW p \in DOMAIN Demodularized
      PROVE  /\ p \in Package /\ p.stream = NoStream
             /\ \E q \in DOMAIN demod : q.name = p.name /\ Demodularized[p] = demod[q]
  <2>1. PICK q \in DOMAIN demod : p = NonModular(q.name)
    BY <1>1, <1>2 DEF NamesOf
  <2>2. p.name = q.name /\ p.stream = NoStream
    BY <2>1 DEF NonModular
  <2>3. p \in Package
    BY <2>1, ContentAssumption DEF NonModular, Package, IsPkgSet
  <2> DEFINE c == CHOOSE x \in DOMAIN demod : x.name = p.name
  <2>4. c \in DOMAIN demod /\ c.name = p.name
    BY <2>2
  <2>5. Demodularized[p] = demod[c]
    BY <1>1, <1>2 DEF Demodularized
  <2> QED
    BY <2>2, <2>3, <2>4, <2>5
<1>3. IsPkgSet(Demodularized)
  <2>1. Demodularized = [p \in DOMAIN Demodularized |-> Demodularized[p]]
    BY DEF Demodularized
  <2> QED
    BY <1>2, <2>1 DEF IsPkgSet
<1> QED
  BY <1>2, <1>3

LEMMA WithoutModulesPkgSet ==
  ASSUME IsPkgSet(target), IsPkgSet(demod)
  PROVE  /\ IsPkgSet(WithoutModules)
         /\ DOMAIN WithoutModules = (DOMAIN target \ DOMAIN demod) \cup DOMAIN Demodularized
<1>1. IsPkgSet(Demodularized)
  BY DemodularizedPkgSet
<1> DEFINE rest == Minus(target, DOMAIN demod)
<1>2. IsPkgSet(rest) /\ DOMAIN rest = DOMAIN target \ DOMAIN demod
  BY MinusPkgSet
<1>3. WithoutModules = Plus(rest, Demodularized)
  BY DEF WithoutModules
<1> HIDE DEF rest
<1> QED
  BY <1>1, <1>2, <1>3, PlusPkgSet

(* A package that stays in the result has the repository it had, when that *)
(* is one of the source system, or one its PES id is mapped to.            *)
LEMMA MappedPkgSet ==
  ASSUME IsInput(input), NEW T, IsPkgSet(T)
  PROVE  /\ IsPkgSet(Mapped(T))
         /\ DOMAIN Mapped(T) \subseteq DOMAIN T
         /\ \A p \in DOMAIN T : T[p] \in ReposOf(source)
              => p \in DOMAIN Mapped(T) /\ Mapped(T)[p] = T[p]
         /\ \A p \in DOMAIN Mapped(T) :
              \/ Mapped(T)[p] \in ReposOf(source)
              \/ \E r \in DOMAIN input.map : Mapped(T)[p] = input.map[r]
<1> DEFINE pesids  == ReposOf(T) \ ReposOf(source)
           unknown == {p \in DOMAIN T : T[p] \in pesids \ DOMAIN input.map}
           M == [p \in DOMAIN T \ unknown |-> IF T[p] \in pesids THEN input.map[T[p]] ELSE T[p]]
<1>1. Mapped(T) = M
  BY DEF Mapped
<1>2. \A p \in DOMAIN T : T[p] \in ReposOf(T)
  BY DEF ReposOf
<1>3. \A p \in DOMAIN M : T[p] \in pesids => T[p] \in DOMAIN input.map
  OBVIOUS
<1>4. \A p \in DOMAIN M : M[p] \in Repos
  BY <1>3 DEF IsPkgSet, IsInput
<1>5. IsPkgSet(M)
  BY <1>4 DEF IsPkgSet
<1> QED
  BY <1>1, <1>2, <1>3, <1>5

LEMMA ResolvedPkgSet ==
  ASSUME IsInput(input), NEW T, IsPkgSet(T)
  PROVE  /\ IsPkgSet(Resolved(T))
         /\ Resolved(T) = Unblocked(Mapped(T))
         /\ DOMAIN Resolved(T) \subseteq DOMAIN T
         /\ \A p \in DOMAIN Mapped(T) :
              p \in DOMAIN Resolved(T) <=> p \in DOMAIN source \/ Mapped(T)[p] \notin Blocked
         /\ \A p \in DOMAIN Resolved(T) :
              p \in DOMAIN Mapped(T) /\ Resolved(T)[p] = Mapped(T)[p]
<1>1. IsPkgSet(Mapped(T)) /\ DOMAIN Mapped(T) \subseteq DOMAIN T
  BY MappedPkgSet
<1>2. Resolved(T) = Unblocked(Mapped(T))
  BY DEF Resolved
<1> DEFINE M == Mapped(T)
           blocked == {p \in DOMAIN M \ DOMAIN source : M[p] \in Blocked}
<1>3. Unblocked(M) = Minus(M, blocked)
  BY DEF Unblocked
<1> HIDE DEF M, blocked
<1>4. IsPkgSet(Minus(M, blocked)) /\ DOMAIN Minus(M, blocked) = DOMAIN M \ blocked
  BY <1>1, MinusPkgSet DEF M
<1>5. \A p \in DOMAIN Minus(M, blocked) : Minus(M, blocked)[p] = M[p]
  BY DEF Minus
<1>6. \A p \in DOMAIN M : p \in blocked <=> p \notin DOMAIN source /\ M[p] \in Blocked
  BY DEF blocked
<1> QED
  BY <1>1, <1>2, <1>3, <1>4, <1>5, <1>6 DEF M

-----------------------------------------------------------------------------
(* Type correctness.                                                       *)

LEMMA TypeInit == Init => TypeOK
<1> SUFFICES ASSUME Init PROVE TypeOK
  OBVIOUS
<1>1. IsInput(input)
  BY ContentAssumption DEF Init
<1>2. \A A \in {source, base, target, demod, result} : IsPkgSet(A)
  BY EmptyPkgSet DEF Init
<1> QED
  BY <1>1, <1>2 DEF Init, TypeOK, NoTasks, IsTasks

(* What scan_pes_events tells the other actors.                            *)
LEMMA DifferenceType ==
  ASSUME NEW T, IsPkgSet(T), IsPkgSet(source)
  PROVE  Difference(T) = {} \/ \E x \in Difference(T) : Difference(T) = {x} /\ IsTasks(x)
<1>1. NamesOf(DOMAIN T) \subseteq Names /\ NamesOf(DOMAIN source) \subseteq Names
  BY DEF IsPkgSet, NamesOf, Package
<1>2. {p.stream : p \in DOMAIN T \ DOMAIN demod} \subseteq Streams
  BY DEF IsPkgSet, Package
<1> QED
  BY <1>1, <1>2 DEF Difference, IsTasks

LEMMA InstructedType ==
  ASSUME IsInput(input),
         NEW D, D = {} \/ \E x \in D : D = {x} /\ IsTasks(x)
  PROVE  Instructed(D) = {} \/ \E x \in Instructed(D) : Instructed(D) = {x} /\ IsTasks(x)
<1> DEFINE all(f) == UNION {t[f] : t \in D}
           asked == {n \in input.remove : NonModular(n) \in DOMAIN input.installed}
           extended == [install |-> all("install") \cup input.install,
                        remove  |-> (all("remove") \cup asked) \ input.keep,
                        keep    |-> all("keep") \cup input.keep,
                        modules |-> all("modules")]
<1>1. IsTasks(extended)
  <2>1. /\ all("install") \subseteq Names /\ all("remove") \subseteq Names
        /\ all("keep") \subseteq Names /\ all("modules") \subseteq Streams
    BY DEF IsTasks
  <2>2. {input.install, input.remove, input.keep} \subseteq SUBSET Names
    BY DEF IsInput
  <2> HIDE DEF all
  <2> QED
    BY <2>1, <2>2 DEF IsTasks
<1>2. Instructed(D) = D \/ Instructed(D) = {extended}
  BY DEF Instructed
<1> QED
  BY <1>1, <1>2

LEMMA FilteredType ==
  ASSUME TypeOK
  PROVE  IsTasks(Filtered) /\ Filtered.upgrade \subseteq Names
<1>1. NamesOf(DOMAIN input.installed) \subseteq Names
  BY DEF TypeOK, IsInput, IsPkgSet, NamesOf, Package
<1>2. \A x \in pes : IsTasks(x)
  BY DEF TypeOK
<1> QED
  BY <1>1, <1>2 DEF Filtered, IsTasks, TypeOK, IsInput, ToRemove

LEMMA TypeStep ==
  ASSUME TypeOK, [Next]_vars
  PROVE  TypeOK'
<1>0. IsInput(input) /\ IsPkgSet(source) /\ IsPkgSet(target) /\ IsPkgSet(demod)
  BY DEF TypeOK
<1>1. CASE Prepare
  <2>1. IsPkgSet(source') /\ IsPkgSet(target') /\ seen' \subseteq Package
    <3>1. CASE Len(events) = 0
      BY <1>0, <1>1, <3>1 DEF Prepare, calc, TypeOK
    <3>2. CASE Len(events) # 0
      BY <1>0, <1>1, <3>2, ConfiguredPkgSet DEF Prepare, IsPkgSet
    <3> QED
      BY <3>1, <3>2
  <2> QED
    BY <1>1, <2>1 DEF Prepare, calc, TypeOK, events
<1>2. CASE NextRelease
  <2>1. PICK r \in Releases : release' = r /\ demod' = Leaving(r)
    BY <1>2 DEF NextRelease
  <2>2. IsPkgSet(demod')
    BY <1>0, <2>1, OnlyPkgSet DEF Leaving
  <2>3. r \in Nat
    BY <1>0 DEF Releases, IsInput
  <2>4. seen' \subseteq Package
    BY <1>0, <1>2 DEF NextRelease, IsPkgSet, TypeOK
  <2> QED
    BY <1>2, <2>1, <2>2, <2>3, <2>4 DEF NextRelease, TypeOK, events
<1>3. CASE ApplyEvent
  <2>1. PICK k \in ToApply : /\ target' = Apply(events[k])
                             /\ demod' = Minus(demod, DOMAIN events[k].in)
                             /\ applied' = applied \cup {k}
    BY <1>3 DEF ApplyEvent
  <2>2. k \in DOMAIN events
    BY DEF ToApply
  <2>3. IsPkgSet(target') /\ IsPkgSet(demod')
    BY <1>0, <2>1, <2>2, ApplyPkgSet, MinusPkgSet
  <2> QED
    BY <1>3, <2>1, <2>2, <2>3 DEF ApplyEvent, TypeOK, events
<1>4. CASE ProduceTasks
  <2> DEFINE T == Resolved(WithoutModules)
  <2>1. IsPkgSet(WithoutModules)
    BY <1>0, WithoutModulesPkgSet
  <2>2. /\ IsPkgSet(T)
        /\ \A p \in DOMAIN T : T[p] \in ReposOf(source)
                               \/ \E r \in DOMAIN input.map : T[p] = input.map[r]
    BY <1>0, <2>1, ResolvedPkgSet, MappedPkgSet
  <2>3. pes' = Instructed(Difference(T)) /\ result' = T
        /\ requested' = (ReposOf(T) \ Blocked) \ ReposOf(source)
    BY <1>4 DEF ProduceTasks
  <2> HIDE DEF T
  <2>4. requested' \subseteq {input.map[r] : r \in DOMAIN input.map}
    BY <2>2, <2>3 DEF ReposOf
  <2>5. pes' = {} \/ \E x \in pes' : pes' = {x} /\ IsTasks(x)
    BY <1>0, <2>2, <2>3, DifferenceType, InstructedType
  <2>6. IsPkgSet(result')
    BY <2>2, <2>3
  <2> QED
    BY <1>4, <2>4, <2>5, <2>6 DEF ProduceTasks, calc, TypeOK, events
<1>5. CASE SetupTargetRepos
  <2>1. requested \subseteq Repos
    BY DEF TypeOK, IsInput
  <2> QED
    BY <1>0, <1>5, <2>1 DEF SetupTargetRepos, calc, TypeOK, events, IsInput
<1>6. CASE FilterRpmTransactionTasks
  BY <1>6, FilteredType DEF FilterRpmTransactionTasks, calc, TypeOK, events
<1>7. CASE UNCHANGED vars
  BY <1>7 DEF vars, calc, TypeOK, events
<1> QED
  BY <1>1, <1>2, <1>3, <1>4, <1>5, <1>6, <1>7 DEF Next

(* The sets of packages, tasks and repositories are well-formed throughout *)
(* the computation, whatever the input; what is requested are repoids.     *)
THEOREM TypeCorrect == Spec => []TypeOK
<1>1. Init => TypeOK
  BY TypeInit
<1>2. TypeOK /\ [Next]_vars => TypeOK'
  BY TypeStep
<1> QED
  BY <1>1, <1>2, PTL DEF Spec

-----------------------------------------------------------------------------
(* The inductive invariant.                                                *)

(* What is known from the point the computation has reached.               *)
Progress ==
  /\ pc = "start" => DOMAIN demod = {} /\ release = 0
  /\ pc \in {"start", "releases"} => pes = {}
  /\ pc \in {"filter", "done"} => requested \ Blocked \subseteq repos.distro
  /\ pc = "done" => tasks = Filtered

(* A has the installed packages called n, and only those.                  *)
AsInstalled(A, n) ==
  \A p \in Package :
    p.name = n => /\ p \in DOMAIN A <=> p \in DOMAIN input.installed
                  /\ p \in DOMAIN A => A[p] = input.installed[p]

(* What leaves its module is still there, as it was.                       *)
DemodAsTarget(n) ==
  \A p \in DOMAIN demod :
    p.name = n => p \in DOMAIN target /\ p.stream # NoStream /\ demod[p] = target[p]

(* No event and no instruction changes a package it does not mention.      *)
SparedInvariant ==
  /\ pc = "releases" =>
       \A n \in Names : ~Mentioned(n) =>
         AsInstalled(source, n) /\ AsInstalled(target, n) /\ DemodAsTarget(n)
  /\ \A n \in Names : ~Mentioned(n) /\ ~BlockedModular(n) =>
       \A x \in pes : n \notin x.install \cup x.remove

(* ReleaseIsTheSumOfItsEvents, at any point of the release.                *)
SumInvariant ==
  pc = "releases" /\ release # 0 /\ (\A j, k \in Fired : j # k => Taken(j) \cap Added(k) = {})
    => DOMAIN target = (DOMAIN base \ UNION {Taken(k) : k \in Fired})
                       \cup UNION {Added(k) : k \in Fired}

(* Once the major version is crossed, a package is in a module only when   *)
(* an event says so, or when it is about to leave it.                      *)
FromEvent(m) ==
  \E k \in DOMAIN events :
    /\ events[k].to >= Crossing
    /\ \E p \in DOMAIN events[k].in \cup DOMAIN events[k].out : p.stream = m
StreamInvariant ==
  /\ pc = "releases" /\ release >= Crossing =>
       \A p \in DOMAIN target :
         p.stream # NoStream => p \in DOMAIN demod \/ FromEvent(p.stream)
  /\ (\E r \in Releases : r >= Crossing) =>
       \A x \in pes : \A m \in x.modules : FromEvent(m)

(* What the events install comes from a repository that is requested.      *)
InstallInvariant ==
  \A n \in (UNION {x.install : x \in pes}) \ input.install :
    \E p \in DOMAIN result :
      p.name = n /\ result[p] \in (requested \ Blocked) \cup ReposOf(source)

ContentInvariant ==
  TypeOK /\ Progress /\ SparedInvariant /\ SumInvariant /\ StreamInvariant /\ InstallInvariant

LEMMA ContentInit == Init => ContentInvariant
<1> SUFFICES ASSUME Init PROVE ContentInvariant
  OBVIOUS
<1>1. TypeOK
  BY TypeInit
<1>2. Progress /\ SparedInvariant /\ SumInvariant /\ StreamInvariant /\ InstallInvariant
  BY EmptyPkgSet DEF Init, Progress, SparedInvariant, SumInvariant, StreamInvariant, InstallInvariant
<1> QED
  BY <1>1, <1>2 DEF ContentInvariant

(* The messages are never changed, nor is what is computed from them only. *)
LEMMA InputUnchanged ==
  ASSUME [Next]_vars
  PROVE  /\ input' = input
         /\ events' = events /\ Blocked' = Blocked /\ Releases' = Releases
         /\ \A n : Mentioned(n)' <=> Mentioned(n)
         /\ \A n : BlockedModular(n)' <=> BlockedModular(n)
         /\ \A m : FromEvent(m)' <=> FromEvent(m)
<1>1. input' = input
  BY DEF Next, Prepare, NextRelease, ApplyEvent, ProduceTasks, SetupTargetRepos,
         FilterRpmTransactionTasks, vars
<1>2. events' = events /\ Blocked' = Blocked
  BY <1>1 DEF events, Blocked
<1>3. Releases' = Releases
  BY <1>1, <1>2 DEF Releases
<1>4. \A n : Mentioned(n)' <=> Mentioned(n)
  BY <1>1, <1>2 DEF Mentioned
<1>5. \A n : BlockedModular(n)' <=> BlockedModular(n)
  BY <1>1, <1>2 DEF BlockedModular
<1>6. \A m : FromEvent(m)' <=> FromEvent(m)
  BY <1>2 DEF FromEvent
<1> QED
  BY <1>1, <1>2, <1>3, <1>4, <1>5, <1>6

LEMMA ProgressStep ==
  ASSUME TypeOK, Progress, [Next]_vars
  PROVE  Progress'
<1>0. input' = input /\ Blocked' = Blocked
  BY InputUnchanged
<1>1. CASE Prepare
  BY <1>1, <1>0 DEF Prepare, Progress, calc
<1>2. CASE NextRelease
  BY <1>2, <1>0 DEF NextRelease, Progress
<1>3. CASE ApplyEvent
  BY <1>3, <1>0 DEF ApplyEvent, Progress
<1>4. CASE ProduceTasks
  BY <1>4, <1>0 DEF ProduceTasks, Progress
<1>5. CASE SetupTargetRepos
  BY <1>5, <1>0 DEF SetupTargetRepos, Progress
<1>6. CASE FilterRpmTransactionTasks
  <2>1. Filtered' = Filtered
    BY <1>6, <1>0 DEF FilterRpmTransactionTasks, Filtered
  <2> QED
    BY <1>6, <1>0, <2>1 DEF FilterRpmTransactionTasks, Progress
<1>7. CASE UNCHANGED vars
  <2>1. Filtered' = Filtered
    BY <1>7, <1>0 DEF vars, Filtered
  <2> QED
    BY <1>7, <1>0, <2>1 DEF vars, calc, Progress
<1> QED
  BY <1>1, <1>2, <1>3, <1>4, <1>5, <1>6, <1>7 DEF Next

-----------------------------------------------------------------------------
(* Packages nobody mentions.                                               *)

LEMMA SparedPrepare ==
  ASSUME TypeOK, Progress, Prepare, pc' = "releases",
         NEW n \in Names, ~Mentioned(n)
  PROVE  AsInstalled(source, n)' /\ AsInstalled(target, n)' /\ DemodAsTarget(n)'
<1>1. /\ input' = input /\ demod' = demod /\ DOMAIN demod = {}
      /\ source' = Configured /\ target' = Configured
  BY DEF Prepare, Progress
<1>2. n \notin input.install /\ n \notin input.remove
  BY DEF Mentioned
<1> DEFINE asked == [p \in {NonModular(m) : m \in input.install} |-> NoRepo]
           gone  == {p \in DOMAIN input.installed : p.name \in input.remove \ input.keep}
<1>3. \A p \in DOMAIN asked : p.name # n
  BY <1>2 DEF NonModular
<1>4. \A p \in gone : p.name # n
  BY <1>2
<1>5. Configured = Minus(Plus(input.installed, asked), gone)
  BY DEF Configured
<1> HIDE DEF asked, gone
<1>6. AsInstalled(Configured, n)
  BY <1>3, <1>4, <1>5 DEF AsInstalled, Plus, Minus
<1> HIDE DEF Configured
<1> QED
  BY <1>1, <1>6 DEF AsInstalled, DemodAsTarget

LEMMA SparedEvent ==
  ASSUME TypeOK, ApplyEvent,
         NEW n \in Names, ~Mentioned(n), AsInstalled(target, n), DemodAsTarget(n)
  PROVE  AsInstalled(target, n)' /\ DemodAsTarget(n)'
<1>1. PICK k \in ToApply : /\ target' = Apply(events[k])
                           /\ demod' = Minus(demod, DOMAIN events[k].in)
  BY DEF ApplyEvent
<1>2. k \in DOMAIN events
  BY DEF ToApply
<1> DEFINE e == events[k]
<1>3. \A p \in DOMAIN e.in \cup DOMAIN e.out : p.name # n
  BY <1>2 DEF Mentioned, NamesOf
<1>4. \A p \in Package : p.name = n =>
        /\ p \in DOMAIN Apply(e) <=> p \in DOMAIN target
        /\ p \in DOMAIN target => Apply(e)[p] = target[p]
  BY <1>3 DEF Apply, Present, Plus, Only, Minus
<1>5. \A p \in DOMAIN demod' : p \in DOMAIN demod /\ demod'[p] = demod[p]
  BY <1>1 DEF Minus
<1>6. DOMAIN demod \subseteq Package
  BY DEF TypeOK, IsPkgSet
<1>7. input' = input
  BY DEF ApplyEvent
<1> HIDE DEF e
<1>8. AsInstalled(target, n)'
  BY <1>1, <1>4, <1>7 DEF AsInstalled, e
<1>9. DemodAsTarget(n)'
  BY <1>1, <1>4, <1>5, <1>6 DEF DemodAsTarget, e
<1> QED
  BY <1>8, <1>9

(* What leaves its module takes its name and its repository along, so that *)
(* the package survives the mapping and the blocklist.                     *)
LEMMA SparedResult ==
  ASSUME TypeOK,
         NEW n \in Names, ~Mentioned(n), ~BlockedModular(n),
         AsInstalled(source, n), AsInstalled(target, n), DemodAsTarget(n)
  PROVE  n \in NamesOf(DOMAIN Resolved(WithoutModules)) <=> n \in NamesOf(DOMAIN source)
<1> DEFINE W == WithoutModules
           M == Mapped(W)
           R == Resolved(W)
<1>1. /\ IsInput(input) /\ IsPkgSet(source) /\ IsPkgSet(target) /\ IsPkgSet(demod)
      /\ IsPkgSet(W)
      /\ DOMAIN W = (DOMAIN target \ DOMAIN demod) \cup DOMAIN Demodularized
  BY WithoutModulesPkgSet DEF TypeOK
<1>2. DOMAIN source \subseteq Package /\ DOMAIN target \subseteq Package
      /\ DOMAIN demod \subseteq Package /\ DOMAIN W \subseteq Package
  BY <1>1 DEF IsPkgSet
<1>3. ASSUME NEW q \in DOMAIN demod, q.name = n
      PROVE  q \in DOMAIN source /\ q.stream # NoStream /\ demod[q] = source[q]
             /\ source[q] = input.installed[q] /\ q \in DOMAIN input.installed
  BY <1>2, <1>3 DEF AsInstalled, DemodAsTarget
<1>4. ASSUME NEW p \in DOMAIN W, p.name = n
      PROVE  \/ p \in DOMAIN source /\ W[p] = source[p]
             \/ \E q \in DOMAIN demod : q.name = n /\ W[p] = demod[q]
  <2>1. CASE p \in DOMAIN target \ DOMAIN demod
    <3>1. W[p] = target[p]
      BY <2>1, <1>1 DEF WithoutModules, Plus, Minus
    <3> QED
      BY <3>1, <2>1, <1>2, <1>4 DEF AsInstalled
  <2>2. CASE p \notin DOMAIN target \ DOMAIN demod
    <3>1. p \in DOMAIN Demodularized /\ W[p] = Demodularized[p]
      BY <2>2, <1>1 DEF WithoutModules, Plus, Minus
    <3> QED
      BY <3>1, <1>1, <1>4, DemodularizedPkgSet
  <2> QED
    BY <2>1, <2>2
<1>5. ASSUME NEW p \in DOMAIN W, p.name = n
      PROVE  W[p] \in ReposOf(source)
  BY <1>3, <1>4, <1>5 DEF ReposOf
<1>6. ASSUME NEW p \in DOMAIN W, p.name = n
      PROVE  p \in DOMAIN R
  <2>1. p \in DOMAIN M /\ M[p] = W[p]
    BY <1>1, <1>5, <1>6, MappedPkgSet
  <2>2. p \in DOMAIN source \/ W[p] \notin Blocked
    BY <1>3, <1>4, <1>6 DEF BlockedModular
  <2> QED
    BY <1>1, <2>1, <2>2, ResolvedPkgSet
<1>7. ASSUME n \in NamesOf(DOMAIN source)
      PROVE  n \in NamesOf(DOMAIN R)
  <2>1. PICK p \in DOMAIN source : p.name = n
    BY <1>7 DEF NamesOf
  <2>2. p \in DOMAIN target
    BY <1>2, <2>1 DEF AsInstalled
  <2>3. CASE p \notin DOMAIN demod
    <3>1. p \in DOMAIN R
      BY <1>1, <1>6, <2>1, <2>2, <2>3
    <3> QED
      BY <2>1, <3>1 DEF NamesOf
  <2>4. CASE p \in DOMAIN demod
    <3>1. NonModular(n) \in DOMAIN Demodularized /\ NonModular(n).name = n
      BY <2>1, <2>4 DEF Demodularized, NamesOf, NonModular
    <3>2. NonModular(n) \in DOMAIN R
      BY <1>1, <1>6, <3>1
    <3> QED
      BY <3>1, <3>2 DEF NamesOf
  <2> QED
    BY <2>3, <2>4
<1>8. ASSUME n \in NamesOf(DOMAIN R)
      PROVE  n \in NamesOf(DOMAIN source)
  <2>1. PICK p \in DOMAIN R : p.name = n
    BY <1>8 DEF NamesOf
  <2>2. p \in DOMAIN W
    BY <1>1, ResolvedPkgSet
  <2>3. \E q \in DOMAIN source : q.name = n
    BY <1>3, <1>4, <2>1, <2>2
  <2> QED
    BY <2>3 DEF NamesOf
<1> QED
  BY <1>7, <1>8

(* So nothing is said of it to the other actors.                           *)
LEMMA SparedTasks ==
  ASSUME TypeOK, NEW n \in Names, ~Mentioned(n),
         NEW T, n \in NamesOf(DOMAIN T) <=> n \in NamesOf(DOMAIN source),
         NEW x \in Instructed(Difference(T))
  PROVE  n \notin x.install \cup x.remove
<1> DEFINE D == Difference(T)
           all(f) == UNION {t[f] : t \in D}
           asked == {m \in input.remove : NonModular(m) \in DOMAIN input.installed}
           extended == [install |-> all("install") \cup input.install,
                        remove  |-> (all("remove") \cup asked) \ input.keep,
                        keep    |-> all("keep") \cup input.keep,
                        modules |-> all("modules")]
<1>1. n \notin input.install /\ n \notin input.remove
  BY DEF Mentioned
<1>2. \A t \in D : n \notin t.install /\ n \notin t.remove
  BY DEF Difference
<1>3. x \in D \/ x = extended
  BY DEF Instructed
<1> HIDE DEF D
<1>4. n \notin all("install") /\ n \notin all("remove") /\ n \notin asked
  BY <1>1, <1>2
<1> HIDE DEF all, asked
<1> QED
  BY <1>1, <1>2, <1>3, <1>4

LEMMA SparedStep ==
  ASSUME TypeOK, Progress, SparedInvariant, [Next]_vars
  PROVE  SparedInvariant'
<1> USE InputUnchanged
<1>1. CASE Prepare
  <2>1. pc = "start" /\ pes' = {}
    BY <1>1 DEF Prepare, Progress
  <2>2. ASSUME pc' = "releases", NEW n \in Names, ~Mentioned(n)
        PROVE  AsInstalled(source, n)' /\ AsInstalled(target, n)' /\ DemodAsTarget(n)'
    BY <1>1, <2>2, SparedPrepare
  <2> QED
    BY <2>1, <2>2 DEF SparedInvariant
<1>2. CASE NextRelease
  <2>1. pc = "releases" /\ pes' = pes /\ source' = source /\ target' = target
    BY <1>2 DEF NextRelease
  <2>2. \A p \in DOMAIN demod' : \/ p \in DOMAIN demod /\ demod'[p] = demod[p]
                                 \/ p \in DOMAIN target /\ p.stream # NoStream /\ demod'[p] = target[p]
    BY <1>2 DEF NextRelease, Leaving, Only
  <2>3. ASSUME NEW n \in Names, ~Mentioned(n)
        PROVE  AsInstalled(source, n)' /\ AsInstalled(target, n)' /\ DemodAsTarget(n)'
    <3>1. AsInstalled(source, n) /\ AsInstalled(target, n) /\ DemodAsTarget(n)
      BY <2>1, <2>3 DEF SparedInvariant
    <3>2. AsInstalled(source, n)' /\ AsInstalled(target, n)'
      BY <2>1, <3>1 DEF AsInstalled
    <3>3. DemodAsTarget(n)'
      BY <2>1, <2>2, <3>1 DEF DemodAsTarget
    <3> QED
      BY <3>2, <3>3
  <2> QED
    BY <2>1, <2>3 DEF SparedInvariant
<1>3. CASE ApplyEvent
  <2>1. pc = "releases" /\ pes' = pes /\ source' = source
    BY <1>3 DEF ApplyEvent
  <2>2. ASSUME NEW n \in Names, ~Mentioned(n)
        PROVE  AsInstalled(source, n)' /\ AsInstalled(target, n)' /\ DemodAsTarget(n)'
    <3>1. AsInstalled(source, n) /\ AsInstalled(target, n) /\ DemodAsTarget(n)
      BY <2>1, <2>2 DEF SparedInvariant
    <3>2. AsInstalled(source, n)'
      BY <2>1, <3>1 DEF AsInstalled
    <3> QED
      BY <1>3, <2>2, <3>1, <3>2, SparedEvent
  <2> QED
    BY <2>1, <2>2 DEF SparedInvariant
<1>4. CASE ProduceTasks
  <2>1. /\ pc = "releases" /\ pc' = "tasks"
        /\ pes' = Instructed(Difference(Resolved(WithoutModules)))
    BY <1>4 DEF ProduceTasks
  <2>2. ASSUME NEW n \in Names, ~Mentioned(n), ~BlockedModular(n), NEW x \in pes'
        PROVE  n \notin x.install \cup x.remove
    <3>1. AsInstalled(source, n) /\ AsInstalled(target, n) /\ DemodAsTarget(n)
      BY <2>1, <2>2 DEF SparedInvariant
    <3>2. n \in NamesOf(DOMAIN Resolved(WithoutModules)) <=> n \in NamesOf(DOMAIN source)
      BY <2>2, <3>1, SparedResult
    <3> QED
      BY <2>1, <2>2, <3>2, SparedTasks
  <2> QED
    BY <2>1, <2>2 DEF SparedInvariant
<1>5. CASE SetupTargetRepos \/ FilterRpmTransactionTasks
  <2>1. pc' # "releases" /\ pes' = pes
    BY <1>5 DEF SetupTargetRepos, FilterRpmTransactionTasks
  <2> QED
    BY <2>1 DEF SparedInvariant
<1>6. CASE UNCHANGED vars
  BY <1>6 DEF vars, calc, SparedInvariant, AsInstalled, DemodAsTarget
<1> QED
  BY <1>1, <1>2, <1>3, <1>4, <1>5, <1>6 DEF Next

-----------------------------------------------------------------------------
(* The events of a release.                                                *)

(* What one event does to the names and streams in the current set.        *)
LEMMA ApplyDomain ==
  ASSUME TypeOK, NEW k \in DOMAIN events
  PROVE  DOMAIN Apply(events[k]) =
           IF Fires(k) THEN (DOMAIN target \ Taken(k)) \cup Added(k) ELSE DOMAIN target
<1> DEFINE e == events[k]
<1>1. IsPkgSet(e.in) /\ IsPkgSet(e.out) /\ IsPkgSet(target) /\ e.action \in Actions
  <2>1. DOMAIN events = 1 .. Len(events)
    BY DEF TypeOK, IsInput, events
  <2> QED
    BY <2>1 DEF TypeOK, IsInput, IsEvent, events
<1>2. /\ IsPkgSet(Only(e.in, seen)) /\ DOMAIN Only(e.in, seen) = DOMAIN e.in \cap seen
      /\ IsPkgSet(Minus(target, DOMAIN e.in))
      /\ DOMAIN Minus(target, DOMAIN e.in) = DOMAIN target \ DOMAIN e.in
  BY <1>1, OnlyPkgSet, MinusPkgSet
<1>3. /\ DOMAIN Present(e, target, seen) = (DOMAIN e.in \cap seen) \cup DOMAIN target
      /\ DOMAIN Plus(e.in, target) = DOMAIN e.in \cup DOMAIN target
      /\ DOMAIN Plus(e.out, Minus(target, DOMAIN e.in)) =
           DOMAIN e.out \cup (DOMAIN target \ DOMAIN e.in)
  BY ZenonT(60), <1>1, <1>2, PlusPkgSet DEF Present
<1>4. CASE e.action = "PRESENT"
  BY <1>3, <1>4 DEF Apply, Fires, Taken, Added, Mutations
<1>5. CASE e.action = "DEPRECATED"
  BY <1>3, <1>5 DEF Apply, Fires, Taken, Added, Mutations
<1>6. CASE e.action \in Mutations
  <2>1. e.action # "PRESENT" /\ e.action # "DEPRECATED"
    BY <1>6 DEF Mutations
  <2>2. Fires(k) <=> Relevant(e)
    BY <2>1 DEF Fires, Relevant
  <2>3. Taken(k) = DOMAIN e.in /\ Added(k) = DOMAIN e.out
    BY <1>6, <2>1 DEF Taken, Added
  <2> QED
    BY <1>3, <2>1, <2>2, <2>3 DEF Apply
<1> QED
  BY <1>1, <1>4, <1>5, <1>6 DEF Actions

LEMMA SumEvent ==
  ASSUME TypeOK, SumInvariant, ApplyEvent
  PROVE  SumInvariant'
<1>1. PICK k \in ToApply : target' = Apply(events[k]) /\ applied' = applied \cup {k}
  BY DEF ApplyEvent
<1>2. k \in DOMAIN events /\ release # 0 /\ pc = "releases"
  BY DEF ToApply, Kept, RelevantEvents, Releases, TypeOK, IsInput, ApplyEvent
<1>3. /\ base' = base /\ release' = release /\ pc' = pc
      /\ \A j : (Fires(j)' <=> Fires(j)) /\ Taken(j)' = Taken(j) /\ Added(j)' = Added(j)
  BY DEF ApplyEvent, Fires, Taken, Added, events
<1> SUFFICES ASSUME (\A i, j \in Fired : i # j => Taken(i) \cap Added(j) = {})'
             PROVE  DOMAIN target' = (DOMAIN base \ UNION {Taken(j) : j \in Fired'})
                                     \cup UNION {Added(j) : j \in Fired'}
  BY ZenonT(60), <1>3 DEF SumInvariant
<1>4. Fired' = IF Fires(k) THEN Fired \cup {k} ELSE Fired
  BY <1>1, <1>3 DEF Fired
<1>5. \A i, j \in Fired' : i # j => Taken(i) \cap Added(j) = {}
  BY <1>3
<1>6. DOMAIN target = (DOMAIN base \ UNION {Taken(j) : j \in Fired})
                      \cup UNION {Added(j) : j \in Fired}
  BY <1>2, <1>4, <1>5 DEF SumInvariant
<1>7. DOMAIN target' =
        IF Fires(k) THEN (DOMAIN target \ Taken(k)) \cup Added(k) ELSE DOMAIN target
  BY <1>1, <1>2, ApplyDomain
<1>8. CASE ~Fires(k)
  BY <1>4, <1>6, <1>7, <1>8
<1>9. CASE Fires(k)
  <2>1. Fired' = Fired \cup {k}
    BY <1>4, <1>9
  <2>2. k \notin Fired
    BY DEF ToApply, Fired
  <2>3. \A j \in Fired : Taken(k) \cap Added(j) = {}
    BY <1>5, <2>1, <2>2
  <2>4. /\ UNION {Taken(j) : j \in Fired'} = (UNION {Taken(j) : j \in Fired}) \cup Taken(k)
        /\ UNION {Added(j) : j \in Fired'} = (UNION {Added(j) : j \in Fired}) \cup Added(k)
    BY <2>1
  <2>5. (UNION {Added(j) : j \in Fired}) \cap Taken(k) = {}
    BY <2>3
  <2> QED
    BY <1>6, <1>7, <1>9, <2>4, <2>5
<1> QED
  BY <1>8, <1>9

LEMMA SumStep ==
  ASSUME TypeOK, Progress, SumInvariant, [Next]_vars
  PROVE  SumInvariant'
<1>1. CASE Prepare
  BY <1>1 DEF Prepare, Progress, SumInvariant, calc
<1>2. CASE NextRelease
  <2>1. target' = target /\ base' = target /\ Fired' = {}
    BY <1>2 DEF NextRelease, Fired
  <2> QED
    BY <2>1 DEF SumInvariant
<1>3. CASE ApplyEvent
  BY <1>3, SumEvent
<1>4. CASE ProduceTasks \/ SetupTargetRepos \/ FilterRpmTransactionTasks
  <2>1. pc' # "releases"
    BY <1>4 DEF ProduceTasks, SetupTargetRepos, FilterRpmTransactionTasks
  <2> QED
    BY <2>1 DEF SumInvariant
<1>5. CASE UNCHANGED vars
  BY <1>5 DEF vars, calc, SumInvariant, Fired, Fires, Taken, Added, events
<1> QED
  BY <1>1, <1>2, <1>3, <1>4, <1>5 DEF Next

-----------------------------------------------------------------------------
(* Module streams.                                                         *)

(* The streams to enable are those of packages that are not about to leave *)
(* their module.                                                           *)
LEMMA TaskStreams ==
  ASSUME TypeOK, NEW x \in Instructed(Difference(Resolved(WithoutModules))), NEW m \in x.modules
  PROVE  \E p \in DOMAIN target \ DOMAIN demod : p.stream = m /\ m # NoStream
<1> DEFINE R == Resolved(WithoutModules)
           D == Difference(R)
<1>1. /\ DOMAIN R \subseteq (DOMAIN target \ DOMAIN demod) \cup DOMAIN Demodularized
      /\ \A p \in DOMAIN Demodularized : p.stream = NoStream
  <2>1. IsInput(input) /\ IsPkgSet(target) /\ IsPkgSet(demod)
    BY DEF TypeOK
  <2> QED
    BY <2>1, WithoutModulesPkgSet, ResolvedPkgSet, DemodularizedPkgSet
<1>2. \E y \in D : m \in y.modules
  BY DEF Instructed
<1> HIDE DEF R
<1>3. \A y \in D : y.modules \subseteq {p.stream : p \in DOMAIN R \ DOMAIN demod} \ {NoStream}
  BY DEF Difference
<1> HIDE DEF D
<1> QED
  BY <1>1, <1>2, <1>3

LEMMA StreamStep ==
  ASSUME TypeOK, Progress, StreamInvariant, [Next]_vars
  PROVE  StreamInvariant'
<1>0. /\ Releases' = Releases /\ Releases \subseteq Nat /\ release \in Nat
      /\ Crossing \in Nat \ {0}
      /\ \A m : FromEvent(m)' <=> FromEvent(m)
  BY InputUnchanged, ContentAssumption DEF Releases, TypeOK, IsInput
<1>1. CASE Prepare
  BY <1>1, <1>0 DEF Prepare, Progress, StreamInvariant, calc
<1>2. CASE NextRelease
  <2>1. /\ pc = "releases" /\ target' = target /\ pes' = pes
        /\ demod' = Leaving(release') /\ release' > release
    BY <1>2 DEF NextRelease
  <2>2. ASSUME release' >= Crossing, NEW p \in DOMAIN target', p.stream # NoStream
        PROVE  p \in DOMAIN demod' \/ FromEvent(p.stream)
    <3>1. CASE release < Crossing
      <4>1. p \in DOMAIN Only(target, {q \in Package : q.stream # NoStream})
        BY <2>1, <2>2 DEF Only, TypeOK, IsPkgSet
      <4> QED
        BY <2>1, <2>2, <3>1, <4>1 DEF Leaving
    <3>2. CASE release >= Crossing
      <4>1. demod' = demod
        BY <1>0, <2>1, <3>2 DEF Leaving
      <4> QED
        BY <2>1, <2>2, <3>2, <4>1 DEF StreamInvariant
    <3> QED
      BY <1>0, <3>1, <3>2
  <2> QED
    BY <1>0, <2>1, <2>2 DEF StreamInvariant
<1>3. CASE ApplyEvent
  <2>1. PICK k \in ToApply : /\ target' = Apply(events[k])
                             /\ demod' = Minus(demod, DOMAIN events[k].in)
    BY <1>3 DEF ApplyEvent
  <2>2. /\ pc = "releases" /\ pes' = pes /\ release' = release
        /\ k \in DOMAIN events /\ events[k].to = release
    BY <1>3 DEF ApplyEvent, ToApply
  <2>3. ASSUME release >= Crossing, NEW p \in DOMAIN target', p.stream # NoStream
        PROVE  p \in DOMAIN demod' \/ FromEvent(p.stream)
    <3>1. CASE p \in DOMAIN events[k].in \cup DOMAIN events[k].out
      BY <2>2, <2>3, <3>1 DEF FromEvent
    <3>2. CASE p \notin DOMAIN events[k].in \cup DOMAIN events[k].out
      <4>1. p \in DOMAIN target
        BY <2>1, <2>3, <3>2 DEF Apply, Present, Plus, Only, Minus
      <4>2. p \in DOMAIN demod => p \in DOMAIN demod'
        BY <2>1, <3>2 DEF Minus
      <4> QED
        BY <2>2, <2>3, <4>1, <4>2 DEF StreamInvariant
    <3> QED
      BY <3>1, <3>2
  <2> QED
    BY <1>0, <2>2, <2>3 DEF StreamInvariant
<1>4. CASE ProduceTasks
  <2>1. /\ pc = "releases" /\ pc' = "tasks"
        /\ \A r \in Releases : r <= release
        /\ pes' = Instructed(Difference(Resolved(WithoutModules)))
    BY <1>4 DEF ProduceTasks
  <2>2. ASSUME NEW r \in Releases, r >= Crossing, NEW x \in pes', NEW m \in x.modules
        PROVE  FromEvent(m)
    <3>1. release >= Crossing
      BY <1>0, <2>1, <2>2
    <3>2. PICK p \in DOMAIN target \ DOMAIN demod : p.stream = m /\ m # NoStream
      BY <2>1, <2>2, TaskStreams
    <3> QED
      BY <2>1, <3>1, <3>2 DEF StreamInvariant
  <2> QED
    BY <1>0, <2>1, <2>2 DEF StreamInvariant
<1>5. CASE SetupTargetRepos \/ FilterRpmTransactionTasks
  <2>1. pc' # "releases" /\ pes' = pes
    BY <1>5 DEF SetupTargetRepos, FilterRpmTransactionTasks
  <2> QED
    BY <1>0, <2>1 DEF StreamInvariant
<1>6. CASE UNCHANGED vars
  BY <1>6, <1>0 DEF vars, calc, StreamInvariant
<1> QED
  BY <1>1, <1>2, <1>3, <1>4, <1>5, <1>6 DEF Next

-----------------------------------------------------------------------------
(* Repositories.                                                           *)

LEMMA InstallStep ==
  ASSUME TypeOK, Progress, InstallInvariant, [Next]_vars
  PROVE  InstallInvariant'
<1>0. input' = input /\ Blocked' = Blocked
  BY InputUnchanged
<1>1. CASE Prepare
  <2>1. pes' = {}
    BY <1>1 DEF Prepare, Progress
  <2> QED
    BY <2>1 DEF InstallInvariant
<1>2. CASE ProduceTasks
  <2> DEFINE T == Resolved(WithoutModules)
             D == Difference(T)
  <2>1. /\ pes' = Instructed(D) /\ result' = T /\ source' = source
        /\ requested' = (ReposOf(T) \ Blocked) \ ReposOf(source)
    BY <1>2 DEF ProduceTasks
  <2>2. \A p \in DOMAIN T : p \notin DOMAIN source => T[p] \notin Blocked
    <3>1. IsInput(input) /\ IsPkgSet(WithoutModules)
      BY WithoutModulesPkgSet DEF TypeOK
    <3> QED
      BY <3>1, ResolvedPkgSet
  <2> SUFFICES ASSUME NEW x \in pes', NEW n \in x.install, n \notin input.install
               PROVE  \E p \in DOMAIN T :
                        /\ p.name = n
                        /\ T[p] \in (requested' \ Blocked) \cup ReposOf(source)
    BY <1>0, <2>1 DEF InstallInvariant, ReposOf
  <2>3. \E y \in D : n \in y.install
    BY <2>1 DEF Instructed
  <2> HIDE DEF T
  <2>4. n \in NamesOf(DOMAIN T) \ NamesOf(DOMAIN source)
    BY <2>3 DEF Difference
  <2>5. PICK p \in DOMAIN T : p.name = n /\ p \notin DOMAIN source
    BY <2>4 DEF NamesOf
  <2>6. T[p] \in ReposOf(T) /\ T[p] \notin Blocked
    BY <2>2, <2>5 DEF ReposOf
  <2> QED
    BY <2>1, <2>5, <2>6
<1>3. CASE NextRelease \/ ApplyEvent \/ SetupTargetRepos \/ FilterRpmTransactionTasks \/ UNCHANGED vars
  <2>1. pes' = pes /\ result' = result /\ requested' = requested /\ source' = source
    BY <1>3 DEF NextRelease, ApplyEvent, SetupTargetRepos, FilterRpmTransactionTasks, vars
  <2> QED
    BY <1>0, <2>1 DEF InstallInvariant, ReposOf
<1> QED
  BY <1>1, <1>2, <1>3 DEF Next

-----------------------------------------------------------------------------
(* The invariant and what follows from it.                                 *)

LEMMA ContentStep ==
  ASSUME ContentInvariant, [Next]_vars
  PROVE  ContentInvariant'
<1>1. TypeOK /\ Progress /\ SparedInvariant /\ SumInvariant /\ StreamInvariant /\ InstallInvariant
  BY DEF ContentInvariant
<1>2. TypeOK' /\ Progress' /\ SparedInvariant'
  BY <1>1, TypeStep, ProgressStep, SparedStep
<1>3. SumInvariant' /\ StreamInvariant' /\ InstallInvariant'
  BY <1>1, SumStep, StreamStep, InstallStep
<1> QED
  BY <1>2, <1>3 DEF ContentInvariant

(* The inductive invariant of the computation holds, whatever the input.   *)
THEOREM ContentInductive == Spec => []ContentInvariant
<1>1. Init => ContentInvariant
  BY ContentInit
<1>2. ContentInvariant /\ [Next]_vars => ContentInvariant'
  BY ContentStep
<1> QED
  BY <1>1, <1>2, PTL DEF Spec

(* The events of a release, applied one after the other, amount to what    *)
(* they mean together, however many there are and in whatever order they   *)
(* come, unless one takes what another adds.                               *)
THEOREM ReleaseIsSum == Spec => []ReleaseIsTheSumOfItsEvents
<1>1. ContentInvariant => ReleaseIsTheSumOfItsEvents
  BY DEF ContentInvariant, SumInvariant, ReleaseIsTheSumOfItsEvents, ReleaseEnded
<1> QED
  BY <1>1, ContentInductive, PTL

(* A package that neither an event nor an instruction names is upgraded    *)
(* when it is installed, and otherwise left alone, also when it leaves its *)
(* module on the way.                                                      *)
THEOREM UnmentionedUntouched == Spec => []Untouched
<1>1. ContentInvariant => Untouched
  <2> SUFFICES ASSUME ContentInvariant, pc = "done",
                      NEW n \in Names, ~Mentioned(n), ~BlockedModular(n)
               PROVE  /\ n \notin tasks.install \cup tasks.remove
                      /\ n \in tasks.upgrade <=> n \in Installed \cup input.clients
    BY DEF Untouched
  <2>1. tasks = Filtered
    BY DEF ContentInvariant, Progress
  <2>2. n \notin input.install /\ n \notin input.remove
    BY DEF Mentioned
  <2>3. \A x \in pes : n \notin x.install /\ n \notin x.remove
    BY DEF ContentInvariant, SparedInvariant
  <2> QED
    BY <2>1, <2>2, <2>3 DEF Filtered, ToRemove, Installed
<1> QED
  BY <1>1, ContentInductive, PTL

(* A module stream is enabled in the target system only if an event of the *)
(* target major version speaks of it.                                      *)
THEOREM StreamsFromEvents == Spec => []StreamsComeFromEvents
<1>1. ContentInvariant => StreamsComeFromEvents
  <2> SUFFICES ASSUME ContentInvariant, pc = "done", \E r \in Releases : r >= Crossing,
                      NEW m \in tasks.modules \ input.modules
               PROVE  FromEvent(m)
    BY DEF StreamsComeFromEvents, FromEvent
  <2>1. tasks = Filtered
    BY DEF ContentInvariant, Progress
  <2>2. \E x \in pes : m \in x.modules
    BY <2>1 DEF Filtered
  <2> QED
    BY <2>2 DEF ContentInvariant, StreamInvariant
<1> QED
  BY <1>1, ContentInductive, PTL

(* What the events ask to install comes from a repository that is enabled  *)
(* for the target system, or that the source system has too.               *)
THEOREM InstalledFromEnabled == Spec => []InstalledFromEnabledRepos
<1>1. ContentInvariant => InstalledFromEnabledRepos
  <2> SUFFICES ASSUME ContentInvariant, pc = "done", NEW n \in tasks.install \ input.install
               PROVE  \E p \in DOMAIN result :
                        p.name = n /\ result[p] \in repos.distro \cup ReposOf(source)
    BY DEF InstalledFromEnabledRepos
  <2>1. tasks = Filtered /\ requested \ Blocked \subseteq repos.distro
    BY DEF ContentInvariant, Progress
  <2>2. n \in (UNION {x.install : x \in pes}) \ input.install
    BY <2>1 DEF Filtered
  <2> QED
    BY <2>1, <2>2 DEF ContentInvariant, InstallInvariant
<1> QED
  BY <1>1, ContentInductive, PTL

(* What the user asks to keep is not removed.                              *)
THEOREM KeptIsKept == Spec => []KeepIsKept
<1>1. ContentInvariant => KeepIsKept
  BY DEF ContentInvariant, Progress, KeepIsKept, Filtered, ToRemove
<1> QED
  BY <1>1, ContentInductive, PTL
=============================================================================
