--------------------------- MODULE MCTargetContent ---------------------------
(***************************************************************************)
(* TargetContent for TLC.  The configurations differ in the inputs:        *)
(*   content.cfg        two events on packages in no module; one event     *)
(*                      with the user's instructions; two events on        *)
(*                      packages in modules                                *)
(*   excluded_repo.cfg  a claim the code does not keep                     *)
(***************************************************************************)
EXTENDS TargetContent

CONSTANTS a, b, c, s, t

(* The source repository, PES ids and the target repositories they map to. *)
src == "src"
AllRepos == {"src", "none", "pes-base", "pes-crb", "pes-lost", "base", "crb"}
PesMap   == [r \in {"pes-base", "pes-crb"} |-> IF r = "pes-base" THEN "base" ELSE "crb"]

Set(S, repo) == [p \in {NonModular(n) : n \in S} |-> repo]
Ev(act, in, out, from, to) ==
  [action |-> act, in |-> in, out |-> out, from |-> from, to |-> to]

Default ==
  [installed |-> << >>, events |-> << >>, install |-> {}, remove |-> {}, keep |-> {},
   clients |-> {}, modules |-> {},
   enable |-> {}, block |-> {}, custom |-> {}, crb |-> {"crb"}, crbEnabled |-> FALSE,
   expected |-> {"base"}, map |-> PesMap, scope |-> {1, 2}]

(* Events without modules on packages N, into the repositories R.          *)
PlainEvents(N, R, from, to) ==
  LET one == {{n} : n \in N}
      two == {S \in SUBSET N : Cardinality(S) = 2}
  IN  {Ev(x, Set(S, r), << >>, from, to) : x \in {"PRESENT", "DEPRECATED"}, S \in one, r \in R}
      \cup {Ev("REMOVED", Set(S, src), << >>, from, to) : S \in one}
      \cup {Ev("SPLIT", Set(S, src), Set(T, r), from, to) : S \in one, T \in one \cup two, r \in R}
      \cup {Ev("SPLIT", Set(S, src), Set(T, r), from, to) : S \in two, T \in one, r \in R}
      \cup {Ev("MERGED", Set(S, src), Set(T, r), from, to) : S \in two \cup {{}}, T \in one, r \in R}

(* Two events of the same release in either order, or of two releases.     *)
PlainInputs ==
  LET E(from, to) == PlainEvents({a, b, c}, {"pes-base"}, from, to)
  IN  {[Default EXCEPT !.installed = Set(I, src), !.events = <<e, f>>] :
         I \in {{a}, {a, b}}, e \in E(0, 1), f \in E(0, 1) \cup E(1, 2)}

UserInputs ==
  {[Default EXCEPT !.installed = Set(I, src), !.events = ev,
                   !.install = x, !.remove = y, !.keep = z, !.enable = w, !.custom = w,
                   !.clients = IF w = {} THEN {} ELSE {c}, !.modules = IF z = {} THEN {} ELSE {t}] :
     I \in {{a}, {a, b}}, x \in {{}, {c}}, y \in {{}, {a}, {a, b}}, z \in {{}, {a}},
     w \in {{}, {"crb"}},
     ev \in {<< >>} \cup {<<e>> : e \in PlainEvents({a, b, c}, {"pes-base", "pes-crb"}, 0, 1)}}

(* Packages in modules: release 1 is of the source major version; no event  *)
(* speaks of c, which is in a module too.                                  *)
In(n, m) == [name |-> n, stream |-> m]
One(p, repo) == [q \in {p} |-> repo]
ModularEvents(N, from, to) ==
  LET P == {In(n, m) : n \in N, m \in {NoStream, s, t}}
      Q == {In(n, m) : n \in {a, b}, m \in {NoStream, s, t}}
  IN  {Ev(x, One(p, "pes-base"), << >>, from, to) : x \in {"PRESENT", "DEPRECATED", "REMOVED"}, p \in P}
      \cup {Ev("MOVED", One(p, src), One(q, "pes-base"), from, to) : p \in P, q \in Q}
ModularInputs ==
  {[Default EXCEPT !.installed = [q \in {In(a, m), In(c, s)} |-> src], !.events = <<e, f>>] :
     m \in {NoStream, s}, e \in ModularEvents({a}, 0, 1), f \in ModularEvents({a, b}, 1, 2)}

(* A package leaves its module for a repository that is excluded.          *)
ExcludedInputs ==
  {[Default EXCEPT !.installed = One(In(a, m), src), !.crbEnabled = x, !.events =
      <<Ev("MOVED", One(In(a, m), src), One(In(a, NoStream), r), 1, 2)>>] :
     m \in {NoStream, s}, r \in {"pes-base", "pes-crb"}, x \in BOOLEAN}

AllInputs == UNION {PlainInputs, UserInputs, ModularInputs}
=============================================================================
