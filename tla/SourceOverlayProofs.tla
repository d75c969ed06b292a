------------------------ MODULE SourceOverlayProofs ------------------------
(***************************************************************************)
(* Proofs about SourceOverlay, for every set of mount points: each way of  *)
(* going on from one mount to the next keeps the mounts nested, and nothing *)
(* of the host is deleted through one of them.                             *)
(***************************************************************************)
EXTENDS SourceOverlay, SequenceTheorems, WellFoundedInduction, TLAPS

-----------------------------------------------------------------------------
(* The inductive invariant, in parts.                                      *)

Entered == {stack[k] : k \in DOMAIN stack}
IsFileSystem(m) == m.kind \in {"image", "overlay", "bind"}

(* What a mount may lie in, whatever the call is asked to do.              *)
Below(m) ==
  CASE m.kind = "overlay" -> {Image(m.of)}
    [] m.kind = "bind" -> InSystem(m.of)
    [] m.kind = "cache" -> InSystem(CacheDir)
    [] m.kind \in {"userspace", "iso"} -> System
    [] m.kind \in {"image", "target"} -> {}

(* A mount comes after those it lies in, and no mount point after one that *)
(* lies in it.                                                             *)
StackInv ==
  /\ \A k \in DOMAIN stack :
       /\ k = 1 => stack[k] = Image(Root)
       /\ k = 2 => stack[k] = Overlay(Root)
       /\ stack[k].kind = "overlay" => k > 1 /\ stack[k - 1] = Image(stack[k].of)
       /\ stack[k].kind = "bind" => k > 1 /\ stack[k - 1] = Overlay(stack[k].of)
  /\ \A j, k \in DOMAIN stack :
       j < k => stack[j] # stack[k] /\ stack[k] \notin Below(stack[j])
  /\ \A j, k \in DOMAIN stack :
       j <= k /\ IsFileSystem(stack[j]) /\ IsFileSystem(stack[k])
         => stack[k].of \notin Within[stack[j].of]

(* What is not mounted yet does not contain what is.                       *)
LeftInv ==
  mode = "in" =>
    \A k \in DOMAIN stack :
      IsFileSystem(stack[k]) => /\ stack[k].of \notin left
                                /\ left \cap Within[stack[k].of] = {}

ModeInv ==
  /\ mode \notin {"in", "out of"} => stack = << >>
  /\ mode # "out" => calls > 0

(* Until something goes wrong, the stack is what is mounted.               *)
AttachedInv ==
  mishaps = 0 => /\ lost = {}
                 /\ attached = {<<stack[k], calls>> : k \in DOMAIN stack}

OverlayInv == OverlayTypeOK /\ StackInv /\ LeftInv /\ ModeInv /\ AttachedInv

-----------------------------------------------------------------------------
(* The properties follow.                                                  *)

LEMMA MountKinds ==
  /\ \A p \in Paths : Image(p) \in Mounts /\ Overlay(p) \in Mounts /\ Bind(p) \in Mounts
  /\ {Target, Cache, Iso, Userspace} \subseteq Mounts
  /\ \A m \in Mounts : \/ IsFileSystem(m) /\ m.of \in Paths
                       \/ m \in {Target, Cache, Iso, Userspace} /\ ~IsFileSystem(m)
  BY DEF Mounts, Image, Overlay, Bind, Target, Cache, Iso, Userspace, IsFileSystem

LEMMA StackEntries ==
  ASSUME OverlayTypeOK
  PROVE  /\ Len(stack) \in Nat /\ DOMAIN stack = 1 .. Len(stack)
         /\ \A k \in DOMAIN stack : stack[k] \in Mounts
         /\ calls \in Nat /\ mishaps \in Nat /\ left \subseteq Paths
         /\ attached \subseteq Mounts \X (1 .. calls)
<1>1. stack \in Seq(Mounts)
  BY DEF OverlayTypeOK
<1>2. calls \in Nat /\ mishaps \in Nat
  <2>1. calls \in 0 .. MaxCalls /\ mishaps \in 0 .. MaxFaults
    BY DEF OverlayTypeOK
  <2>2. MaxCalls \in Nat /\ MaxFaults \in Nat
    BY OverlayAssumption
  <2> QED BY <2>1, <2>2
<1>3. left \subseteq Paths /\ attached \subseteq Mounts \X (1 .. calls)
  BY DEF OverlayTypeOK
<1> QED BY <1>1, <1>2, <1>3

LEMMA FieldsOf ==
  /\ \A p : /\ Image(p).kind = "image" /\ Overlay(p).kind = "overlay" /\ Bind(p).kind = "bind"
           /\ Image(p).of = p /\ Overlay(p).of = p /\ Bind(p).of = p
  /\ Target.kind = "target" /\ Cache.kind = "cache" /\ Iso.kind = "iso"
  /\ Userspace.kind = "userspace"
  BY DEF Image, Overlay, Bind, Target, Cache, Iso, Userspace

(* What a mount lies in, by its kind.                                      *)
LEMMA BelowByKind ==
  ASSUME NEW m
  PROVE  /\ m.kind \in {"image", "target"} => Below(m) = {}
         /\ m.kind = "overlay" => Below(m) = {Image(m.of)}
         /\ m.kind = "bind" => Below(m) = InSystem(m.of)
         /\ m.kind = "cache" => Below(m) = InSystem(CacheDir)
         /\ m.kind \in {"userspace", "iso"} => Below(m) = System
<1>1. m.kind \in {"image", "target"} => Below(m) = {}
  BY DEF Below
<1>2. m.kind = "overlay" => Below(m) = {Image(m.of)}
  BY DEF Below
<1>3. m.kind = "bind" => Below(m) = InSystem(m.of)
  BY DEF Below
<1>4. m.kind = "cache" => Below(m) = InSystem(CacheDir)
  BY DEF Below
<1>5. m.kind \in {"userspace", "iso"} => Below(m) = System
  BY DEF Below
<1> QED BY <1>1, <1>2, <1>3, <1>4, <1>5

LEMMA OnIsBelow ==
  ASSUME NEW m \in Mounts
  PROVE  On(m) \subseteq Below(m)
<1>1. CASE m.kind = "image"
  BY <1>1 DEF On
<1>2. CASE m.kind = "overlay"
  BY <1>2, BelowByKind DEF On
<1>3. CASE m.kind = "bind"
  BY <1>3, BelowByKind DEF On
<1>4. CASE m.kind = "cache"
  BY <1>4, BelowByKind DEF On
<1>5. CASE m.kind = "userspace"
  BY <1>5, BelowByKind DEF On
<1>6. CASE m.kind = "iso"
  <2>1. On(m) \in {{}, System}
    BY <1>6 DEF On
  <2> QED BY <1>6, <2>1, BelowByKind
<1>7. CASE m.kind = "target"
  BY <1>7 DEF On
<1> QED BY <1>1, <1>2, <1>3, <1>4, <1>5, <1>6, <1>7, MountKinds, FieldsOf DEF IsFileSystem

(* The images and the system among the mounts a mount lies in.             *)
LEMMA WhatItIsOn ==
  ASSUME NEW m \in Mounts
  PROVE  /\ m.kind = "overlay" => On(m) \subseteq {Image(m.of)}
         /\ m.kind \in {"bind", "cache", "userspace", "iso"}
              => \A x \in On(m) : x \in System \/ x.kind = "bind"
         /\ m.kind \in {"image", "target"} => On(m) = {}
<1>1. \A p : \A x \in InSystem(p) : x \in System \/ x.kind = "bind"
  BY FieldsOf DEF InSystem
<1> QED BY <1>1, BelowByKind, OnIsBelow

LEMMA NestedFollows ==
  ASSUME OverlayInv
  PROVE  MountsAreUndone /\ LostOnlyByMishap
<1>1. NothingLeftMounted
  <2>1. mode \in {"out", "cleanup"} => stack = << >>
    BY DEF OverlayInv, ModeInv
  <2>2. stack = << >> => {<<stack[k], calls>> : k \in DOMAIN stack} = {}
    OBVIOUS
  <2> QED BY <2>1, <2>2 DEF OverlayInv, AttachedInv, NothingLeftMounted
<1>2. LostOnlyByMishap
  <2>1. mishaps \in Nat
    BY StackEntries DEF OverlayInv
  <2> QED BY <2>1 DEF OverlayInv, AttachedInv, LostOnlyByMishap
<1>3. ASSUME NEW k \in DOMAIN stack
      PROVE  On(stack[k]) \cap {Image(Root), Overlay(Root), Image(stack[k].of)}
               \subseteq {stack[j] : j \in 1 .. k - 1}
  <2>1. /\ Len(stack) \in Nat /\ DOMAIN stack = 1 .. Len(stack) /\ stack[k] \in Mounts
        /\ StackInv
    BY StackEntries DEF OverlayInv
  <2>2. CASE stack[k].kind = "overlay"
    <3>1. k > 1 /\ stack[k - 1] = Image(stack[k].of) /\ k - 1 \in 1 .. k - 1
      BY <2>1, <2>2 DEF StackInv
    <3> QED BY <2>1, <2>2, <3>1, WhatItIsOn
  <2>3. CASE stack[k].kind \in {"bind", "cache", "userspace", "iso"}
    <3>1. k # 1 /\ k # 2
      BY <2>1, <2>3, FieldsOf DEF StackInv
    <3>2. 1 \in 1 .. k - 1 /\ 2 \in 1 .. k - 1 /\ 1 \in DOMAIN stack /\ 2 \in DOMAIN stack
      BY <2>1, <3>1
    <3>3. stack[1] = Image(Root) /\ stack[2] = Overlay(Root)
      BY <2>1, <3>2 DEF StackInv
    <3>4. System \subseteq {stack[j] : j \in 1 .. k - 1}
      BY <3>2, <3>3 DEF System
    <3>5. \A x \in {Image(Root), Overlay(Root), Image(stack[k].of)} : x.kind # "bind"
      BY FieldsOf
    <3> QED BY <2>1, <2>3, <3>4, <3>5, WhatItIsOn
  <2>4. CASE stack[k].kind \in {"image", "target"}
    BY <2>1, <2>4, WhatItIsOn
  <2>5. stack[k].kind \in {"image", "overlay", "bind", "target", "cache", "userspace", "iso"}
    BY <2>1, MountKinds, FieldsOf DEF IsFileSystem
  <2> QED BY <2>2, <2>3, <2>4, <2>5
<1>4. Nested
  BY <1>3 DEF Nested, OverlayInv, AttachedInv
<1> QED BY <1>1, <1>2, <1>4 DEF MountsAreUndone

-----------------------------------------------------------------------------
(* Mounting.                                                               *)

(* A mount that may come next.                                             *)
Fits(m) ==
  /\ m \in Mounts /\ m \notin Entered
  /\ \A k \in DOMAIN stack : m \notin Below(stack[k])
  /\ stack = << >> => m = Image(Root)
  /\ Len(stack) = 1 => m = Overlay(Root)
  /\ m.kind = "overlay" => stack # << >> /\ Last(stack) = Image(m.of)
  /\ m.kind = "bind" => stack # << >> /\ Last(stack) = Overlay(m.of)
  /\ IsFileSystem(m) =>
       /\ m.of \notin Within[m.of]
       /\ \A k \in DOMAIN stack : IsFileSystem(stack[k]) => m.of \notin Within[stack[k].of]
       /\ (left \ (IF m.kind = "image" THEN {m.of} ELSE {})) \cap Within[m.of] = {}
       /\ m.kind # "image" => m.of \notin left

(* The entries of a stack with one more mount.                             *)
LEMMA Pushed ==
  ASSUME NEW s \in Seq(Mounts), NEW m \in Mounts
  PROVE  /\ Append(s, m) \in Seq(Mounts) /\ Len(Append(s, m)) = Len(s) + 1 /\ Len(s) \in Nat
         /\ DOMAIN s = 1 .. Len(s) /\ DOMAIN Append(s, m) = 1 .. Len(s) + 1
         /\ \A k \in DOMAIN s : Append(s, m)[k] = s[k]
         /\ Append(s, m)[Len(s) + 1] = m
  OBVIOUS

LEMMA PushKeepsStack ==
  ASSUME OverlayInv, NEW m, Fits(m), stack' = Append(stack, m)
  PROVE  StackInv'
<1> DEFINE n == Len(stack) + 1
<1>1. stack \in Seq(Mounts) /\ m \in Mounts
  BY DEF OverlayInv, OverlayTypeOK, Fits
<1>2. /\ DOMAIN stack = 1 .. Len(stack) /\ DOMAIN stack' = 1 .. n /\ Len(stack) \in Nat
      /\ \A k \in DOMAIN stack : stack'[k] = stack[k]
      /\ stack'[n] = m
  BY <1>1, Pushed
<1>3. stack = << >> <=> Len(stack) = 0
  BY <1>1
<1>4. ASSUME NEW k \in DOMAIN stack'
      PROVE  /\ k = 1 => stack'[k] = Image(Root)
             /\ k = 2 => stack'[k] = Overlay(Root)
             /\ stack'[k].kind = "overlay" => k > 1 /\ stack'[k - 1] = Image(stack'[k].of)
             /\ stack'[k].kind = "bind" => k > 1 /\ stack'[k - 1] = Overlay(stack'[k].of)
  <2>1. CASE k \in DOMAIN stack
    <3>1. k > 1 => k - 1 \in DOMAIN stack
      BY <1>2, <2>1
    <3> QED BY <1>2, <2>1, <3>1 DEF OverlayInv, StackInv
  <2>2. CASE k = n
    <3>1. stack # << >> => n > 1 /\ n - 1 \in DOMAIN stack /\ stack'[n - 1] = Last(stack)
      <4>1. ASSUME stack # << >> PROVE Len(stack) \in DOMAIN stack /\ n - 1 = Len(stack)
        BY <1>2, <1>3, <4>1
      <4> QED BY <1>2, <4>1 DEF Last
    <3>2. n = 1 => stack = << >>
      BY <1>2, <1>3
    <3>3. n = 2 => Len(stack) = 1
      BY <1>2
    <3> QED BY <1>2, <2>2, <3>1, <3>2, <3>3 DEF Fits
  <2> QED BY <1>2, <2>1, <2>2
<1>5. ASSUME NEW j \in DOMAIN stack', NEW k \in DOMAIN stack', j < k
      PROVE  stack'[j] # stack'[k] /\ stack'[k] \notin Below(stack'[j])
  <2>1. j \in DOMAIN stack /\ (k \in DOMAIN stack \/ k = n)
    BY <1>2, <1>5
  <2>2. CASE k \in DOMAIN stack
    BY <1>2, <1>5, <2>1, <2>2 DEF OverlayInv, StackInv
  <2>3. CASE k = n
    BY <1>2, <2>1, <2>3 DEF Fits, Entered
  <2> QED BY <2>1, <2>2, <2>3
<1>6. ASSUME NEW j \in DOMAIN stack', NEW k \in DOMAIN stack', j <= k,
             IsFileSystem(stack'[j]), IsFileSystem(stack'[k])
      PROVE  stack'[k].of \notin Within[stack'[j].of]
  <2>1. CASE k \in DOMAIN stack
    <3>1. j \in DOMAIN stack
      BY <1>2, <1>6, <2>1
    <3> QED BY <1>2, <1>6, <2>1, <3>1 DEF OverlayInv, StackInv
  <2>2. CASE k = n /\ j = n
    BY <1>2, <1>6, <2>2 DEF Fits
  <2>3. CASE k = n /\ j \in DOMAIN stack
    BY <1>2, <1>6, <2>3 DEF Fits
  <2> QED BY <1>2, <1>6, <2>1, <2>2, <2>3
<1> QED BY <1>4, <1>5, <1>6 DEF StackInv

LEMMA PushKeepsLeft ==
  ASSUME OverlayInv, NEW m, Fits(m), stack' = Append(stack, m), mode = "in",
         left' = left \ (IF m.kind = "image" THEN {m.of} ELSE {})
  PROVE  LeftInv'
<1> DEFINE n == Len(stack) + 1
<1>1. stack \in Seq(Mounts) /\ m \in Mounts
  BY DEF OverlayInv, OverlayTypeOK, Fits
<1>2. /\ DOMAIN stack = 1 .. Len(stack) /\ DOMAIN stack' = 1 .. n /\ Len(stack) \in Nat
      /\ \A k \in DOMAIN stack : stack'[k] = stack[k]
      /\ stack'[n] = m
  BY <1>1, Pushed
<1>3. ASSUME NEW k \in DOMAIN stack', IsFileSystem(stack'[k])
      PROVE  stack'[k].of \notin left' /\ left' \cap Within[stack'[k].of] = {}
  <2>1. CASE k \in DOMAIN stack
    BY <1>2, <1>3, <2>1 DEF OverlayInv, LeftInv
  <2>2. CASE k = n
    <3>1. IsFileSystem(m) /\ stack'[k] = m
      BY <1>2, <1>3, <2>2
    <3> QED BY <3>1 DEF Fits
  <2> QED BY <1>2, <2>1, <2>2
<1> QED BY <1>3 DEF LeftInv, IsFileSystem

LEMMA PushKeepsAttached ==
  ASSUME OverlayInv, NEW m, Fits(m), EnterMount(m)
  PROVE  AttachedInv'
<1> DEFINE n == Len(stack) + 1
<1>1. stack \in Seq(Mounts) /\ m \in Mounts /\ mishaps \in Nat /\ calls \in Nat
  BY StackEntries DEF OverlayInv, OverlayTypeOK, Fits
<1>2. /\ DOMAIN stack = 1 .. Len(stack) /\ DOMAIN stack' = 1 .. n /\ Len(stack) \in Nat
      /\ \A k \in DOMAIN stack : stack'[k] = stack[k]
      /\ stack'[n] = m
  BY <1>1, Pushed DEF EnterMount
<1>3. SUFFICES ASSUME mishaps' = 0
               PROVE  lost' = {} /\ attached' = {<<stack'[k], calls'>> : k \in DOMAIN stack'}
  BY DEF AttachedInv
<1>4. mishaps = 0 /\ calls' = calls
  BY <1>1, <1>3 DEF EnterMount
<1>5. lost = {} /\ attached = {<<stack[k], calls>> : k \in DOMAIN stack}
  BY <1>4 DEF OverlayInv, AttachedInv
<1>6. ~IsMounted(m)
  BY <1>5 DEF IsMounted, AttachedBy, Fits, Entered
<1>7. attached' = attached \cup {<<m, calls>>} /\ lost' = lost
  BY <1>6 DEF EnterMount
<1>8. {<<stack'[k], calls'>> : k \in DOMAIN stack'}
        = {<<stack[k], calls>> : k \in DOMAIN stack} \cup {<<m, calls>>}
  BY <1>2, <1>4
<1> QED BY <1>5, <1>7, <1>8

-----------------------------------------------------------------------------
(* What create_source_overlay mounts next always fits.                     *)

LEMMA LeastOne ==
  ASSUME NEW T, T \subseteq Nat, T # {}
  PROVE  \E x \in T : \A y \in T : x <= y
<1> DEFINE R == OpToRel(<, Nat)
<1>1. IsWellFoundedOn(R, Nat)
  BY NatLessThanWellFounded
<1>2. ASSUME NEW x \in Nat, NEW y \in Nat, ~(<<y, x>> \in R)
      PROVE  x <= y
  <2>1. ~(y < x)
    BY <1>2 DEF OpToRel
  <2> QED BY <2>1
<1> HIDE DEF R
<1>3. \E x \in T : \A y \in T : ~(<<y, x>> \in R)
  BY <1>1, WFMin
<1> QED BY <1>2, <1>3

LEMMA OrderFacts ==
  /\ DOMAIN Order = 1 .. Len(Order) /\ Len(Order) \in Nat
  /\ \A i, j \in DOMAIN Order : Order[i] \in Within[Order[j]] => i < j
  /\ \A p \in Paths : p \notin Within[p]
<1>1. DOMAIN Order = 1 .. Len(Order) /\ Len(Order) \in Nat
  BY OverlayAssumption
<1>2. \A i, j \in DOMAIN Order : Order[i] \in Within[Order[j]] => i < j
  BY OverlayAssumption
<1>3. ASSUME NEW p \in Paths, p \in Within[p] PROVE FALSE
  <2>1. PICK i \in DOMAIN Order : Order[i] = p
    BY DEF Paths
  <2>2. i < i /\ i \in Nat
    BY <1>1, <1>2, <1>3, <2>1
  <2> QED BY <2>2
<1> QED BY <1>1, <1>2, <1>3

(* The image made next is the one of a directory with none of the others   *)
(* above it.                                                               *)
LEMMA NextImageFits ==
  ASSUME left \subseteq Paths, left # {}
  PROVE  \E p \in left : NextImage = Image(p) /\ left \cap Within[p] = {}
<1> DEFINE Waiting == {k \in DOMAIN Order : Order[k] \in left}
<1> DEFINE IsLeast(k) == /\ Order[k] \in left
                         /\ \A j \in DOMAIN Order : Order[j] \in left => k <= j
<1>1. Waiting \subseteq Nat /\ Waiting # {}
  BY OrderFacts DEF Paths
<1>2. PICK x \in Waiting : \A y \in Waiting : x <= y
  <2> HIDE DEF Waiting
  <2> QED BY <1>1, LeastOne
<1>3. \E k \in DOMAIN Order : IsLeast(k)
  BY <1>2
<1> DEFINE k0 == CHOOSE k \in DOMAIN Order : IsLeast(k)
<1>4. k0 \in DOMAIN Order /\ IsLeast(k0)
  <2> HIDE DEF IsLeast
  <2> QED BY <1>3
<1>5. NextImage = Image(Order[k0])
  BY DEF NextImage
<1> HIDE DEF k0
<1>6. ASSUME NEW q \in left, q \in Within[Order[k0]] PROVE FALSE
  <2>1. PICK i \in DOMAIN Order : Order[i] = q
    BY DEF Paths
  <2>2. i < k0 /\ k0 <= i /\ i \in Nat /\ k0 \in Nat
    BY <1>4, <1>6, <2>1, OrderFacts
  <2> QED BY <2>2
<1> QED BY <1>4, <1>5, <1>6
(* Nothing lies in a mount of the user of the overlay, nor in an image but *)
(* its own overlay and, in the one of /, everything.                       *)
LEMMA WhoIsBelow ==
  ASSUME NEW m \in Mounts, NEW x
  PROVE  /\ x \in Below(m) => x.kind \in {"image", "overlay", "bind"}
         /\ \A p : Image(p) \in Below(m) =>
              \/ m.kind = "overlay" /\ m.of = p
              \/ p = Root /\ m.kind \in {"bind", "cache", "userspace", "iso"}
         /\ \A p : Overlay(p) \in Below(m) => p = Root
         /\ \A p : Bind(p) \in Below(m) =>
              \/ m.kind = "bind" /\ p \in Within[m.of]
              \/ m.kind = "cache"
<1>1. \A p, q : Image(p) # Overlay(q) /\ Image(p) # Bind(q) /\ Overlay(p) # Bind(q)
  BY FieldsOf
<1>2. \A p, q : /\ Image(p) = Image(q) => p = q
                /\ Overlay(p) = Overlay(q) => p = q
                /\ Bind(p) = Bind(q) => p = q
  BY FieldsOf
<1>3. \A y \in System : y = Image(Root) \/ y = Overlay(Root)
  BY DEF System
<1>4. \A q : \A y \in InSystem(q) : y \in System \/ \E r \in Within[q] : y = Bind(r)
  BY DEF InSystem
<1>5. CASE m.kind = "overlay"
  <2>1. Below(m) = {Image(m.of)}
    BY <1>5, BelowByKind
  <2> QED BY <1>1, <1>2, <1>5, <2>1, FieldsOf
<1>6. CASE m.kind = "bind"
  <2>1. Below(m) = InSystem(m.of)
    BY <1>6, BelowByKind
  <2> QED BY <1>1, <1>2, <1>3, <1>4, <1>6, <2>1, FieldsOf
<1>7. CASE m.kind = "cache"
  <2>1. Below(m) = InSystem(CacheDir)
    BY <1>7, BelowByKind
  <2> QED BY <1>1, <1>2, <1>3, <1>4, <1>7, <2>1, FieldsOf
<1>8. CASE m.kind \in {"userspace", "iso"}
  <2>1. Below(m) = System
    BY <1>8, BelowByKind
  <2> QED BY <1>1, <1>2, <1>3, <1>8, <2>1, FieldsOf
<1>9. CASE m.kind \in {"image", "target"}
  BY <1>9, BelowByKind
<1>10. m.kind \in {"image", "overlay", "bind", "target", "cache", "userspace", "iso"}
  BY MountKinds, FieldsOf DEF IsFileSystem
<1> QED BY <1>5, <1>6, <1>7, <1>8, <1>9, <1>10

(* What the stack looks like below its top.                                *)
LEMMA TopOfStack ==
  ASSUME OverlayInv, stack # << >>
  PROVE  /\ Len(stack) \in DOMAIN stack /\ Last(stack) = stack[Len(stack)]
         /\ \A k \in DOMAIN stack : k <= Len(stack) /\ k \in Nat /\ stack[k] \in Mounts
         /\ 1 \in DOMAIN stack /\ stack[1] = Image(Root)
         /\ Last(stack) \in Mounts
         /\ Last(stack) = Image(Root) => Len(stack) = 1
         /\ Last(stack) = Overlay(Root) =>
              Len(stack) = 2 /\ Entered = {Image(Root), Overlay(Root)}
         /\ Len(stack) = 1 => Last(stack) = Image(Root)
         /\ IsFileSystem(Last(stack)) =>
              \A k \in DOMAIN stack : IsFileSystem(stack[k])
                => Last(stack).of \notin Within[stack[k].of]
<1>1. /\ Len(stack) \in Nat /\ DOMAIN stack = 1 .. Len(stack)
      /\ \A k \in DOMAIN stack : stack[k] \in Mounts
      /\ StackInv /\ stack \in Seq(Mounts)
  BY StackEntries DEF OverlayInv, OverlayTypeOK
<1>2. Len(stack) \in DOMAIN stack /\ 1 \in DOMAIN stack /\ Last(stack) = stack[Len(stack)]
  BY <1>1 DEF Last
<1>3. stack[1] = Image(Root) /\ (Len(stack) > 1 => 2 \in DOMAIN stack /\ stack[2] = Overlay(Root))
  BY <1>1, <1>2 DEF StackInv
<1>4. \A j, k \in DOMAIN stack : stack[j] = stack[k] => j = k
  BY <1>1 DEF StackInv
<1>5. Last(stack) = Image(Root) => Len(stack) = 1
  BY <1>2, <1>3, <1>4
<1>6. ASSUME Last(stack) = Overlay(Root)
      PROVE  Len(stack) = 2 /\ Entered = {Image(Root), Overlay(Root)}
  <2>1. Len(stack) # 1
    <3>1. Image(Root) # Overlay(Root)
      BY FieldsOf
    <3> QED BY <1>2, <1>3, <1>6, <3>1
  <2>2. Len(stack) = 2
    <3>1. Len(stack) > 1
      BY <1>1, <1>2, <2>1
    <3>2. 2 \in DOMAIN stack /\ stack[2] = stack[Len(stack)]
      BY <1>2, <1>3, <1>6, <3>1
    <3> QED BY <1>2, <1>4, <3>2
  <2> QED BY <1>1, <1>3, <2>2 DEF Entered
<1>7. IsFileSystem(Last(stack)) =>
        \A k \in DOMAIN stack : IsFileSystem(stack[k])
          => Last(stack).of \notin Within[stack[k].of]
  BY <1>1, <1>2 DEF StackInv
<1> QED BY <1>1, <1>2, <1>3, <1>5, <1>6, <1>7

LEMMA UpcomingFits ==
  ASSUME OverlayInv, Entering
  PROVE  Fits(Upcoming)
<1>1. mode = "in" /\ Cache \notin Entered
  BY DEF Entering, Complete, Entered
<1>2. left \subseteq Paths /\ (stack = << >> <=> Len(stack) = 0) /\ Len(stack) \in Nat
      /\ DOMAIN stack = 1 .. Len(stack)
  <2>1. stack \in Seq(Mounts)
    BY DEF OverlayInv, OverlayTypeOK
  <2> QED BY <2>1, StackEntries DEF OverlayInv
<1>3. Root \in Paths /\ Within[Root] = {}
  BY OverlayAssumption
<1>4. CASE stack = << >>
  <2>1. Upcoming = Image(Root) /\ Entered = {} /\ DOMAIN stack = {}
    BY <1>4 DEF Upcoming, Entered
  <2> QED BY <1>3, <1>4, <2>1, <1>2, MountKinds, FieldsOf DEF Fits, IsFileSystem
<1>5. CASE stack # << >>
  <2> DEFINE top == Last(stack)
             p == top.of
  <2>1. PICK n \in DOMAIN stack : n = Len(stack) /\ top = stack[n]
    BY <1>5, TopOfStack
  <2>2. top \in Mounts /\ \A k \in DOMAIN stack : k <= n /\ k \in Nat /\ stack[k] \in Mounts
    BY <1>5, <2>1, TopOfStack
  <2>3. \A j, k \in DOMAIN stack : stack[j] = stack[k] => j = k
    BY <1>2 DEF OverlayInv, StackInv
  <2>4. IsFileSystem(top) =>
          /\ p \in Paths /\ p \notin Within[p] /\ p \notin left /\ left \cap Within[p] = {}
          /\ \A k \in DOMAIN stack : IsFileSystem(stack[k]) => p \notin Within[stack[k].of]
    <3>1. IsFileSystem(top) => p \in Paths
      BY <2>2, MountKinds, FieldsOf DEF IsFileSystem
    <3>2. IsFileSystem(top) => p \notin left /\ left \cap Within[p] = {}
      BY <1>1, <2>1 DEF OverlayInv, LeftInv
    <3> QED BY <1>5, <2>2, <3>1, <3>2, TopOfStack, OrderFacts
  <2>5. Entered = {stack[k] : k \in DOMAIN stack}
    BY DEF Entered
  <2>6. \A k \in DOMAIN stack : stack[k].kind # "cache"
    BY <1>1, <2>2, <2>5, MountKinds, FieldsOf DEF IsFileSystem
  <2>7. /\ Len(stack) = 1 => top = Image(Root)
        /\ top = Overlay(Root) => Entered = {Image(Root), Overlay(Root)}
    BY <1>5, TopOfStack
  <2>8. \A k \in DOMAIN stack : stack[k].kind \in {"overlay", "bind"} =>
          k - 1 \in DOMAIN stack /\ stack[k - 1] =
            IF stack[k].kind = "overlay" THEN Image(stack[k].of) ELSE Overlay(stack[k].of)
    BY <1>2 DEF OverlayInv, StackInv
  <2>9. CASE top.kind = "image"
    <3>1. Upcoming = Overlay(p) /\ top = Image(p)
      BY <1>5, <2>2, <2>9, MountKinds, FieldsOf DEF Upcoming, Mounts, Image
    <3>2. Overlay(p) \notin Entered
      <4>1. ASSUME NEW k \in DOMAIN stack, stack[k] = Overlay(p) PROVE FALSE
        <5>1. k - 1 \in DOMAIN stack /\ stack[k - 1] = stack[n]
          BY <2>1, <2>8, <3>1, <4>1, FieldsOf
        <5> QED BY <2>2, <2>3, <5>1
      <4> QED BY <2>5, <4>1
    <3>3. \A k \in DOMAIN stack : Overlay(p) \notin Below(stack[k])
      <4>1. ASSUME NEW k \in DOMAIN stack, Overlay(p) \in Below(stack[k]) PROVE FALSE
        <5>1. p = Root
          BY <2>2, <4>1, WhoIsBelow
        <5>2. n = 1 /\ k = 1
          BY <1>2, <1>5, <2>1, <2>2, <3>1, <5>1, TopOfStack
        <5>3. stack[k].kind = "image"
          BY <2>1, <2>9, <5>2
        <5> QED BY <4>1, <5>3, BelowByKind
      <4> QED BY <4>1
    <3>4. p \in Paths /\ IsFileSystem(top)
      BY <2>4, <2>9 DEF IsFileSystem
    <3> QED BY <1>5, <2>4, <2>7, <3>1, <3>2, <3>3, <3>4, MountKinds, FieldsOf DEF Fits
  <2>10. CASE top.kind = "overlay" /\ p # Root
    <3>1. Upcoming = Bind(p) /\ top = Overlay(p)
      BY <1>5, <2>2, <2>10, MountKinds, FieldsOf DEF Upcoming, Mounts, Overlay
    <3>2. Bind(p) \notin Entered
      <4>1. ASSUME NEW k \in DOMAIN stack, stack[k] = Bind(p) PROVE FALSE
        <5>1. k - 1 \in DOMAIN stack /\ stack[k - 1] = stack[n]
          BY <2>1, <2>8, <3>1, <4>1, FieldsOf
        <5> QED BY <2>2, <2>3, <5>1
      <4> QED BY <2>5, <4>1
    <3>3. \A k \in DOMAIN stack : Bind(p) \notin Below(stack[k])
      <4>1. ASSUME NEW k \in DOMAIN stack, Bind(p) \in Below(stack[k]) PROVE FALSE
        <5>1. stack[k].kind = "bind" /\ p \in Within[stack[k].of]
          BY <2>2, <2>6, <4>1, WhoIsBelow
        <5> QED BY <2>4, <2>10, <5>1 DEF IsFileSystem
      <4> QED BY <4>1
    <3>4. p \in Paths /\ IsFileSystem(top) /\ Len(stack) # 1
      BY <2>4, <2>7, <2>10, FieldsOf DEF IsFileSystem
    <3> QED BY <1>5, <2>4, <3>1, <3>2, <3>3, <3>4, MountKinds, FieldsOf DEF Fits
  <2>11. CASE top = Overlay(Root) /\ task.target
    <3>1. Upcoming = Target
      BY <1>5, <2>11, FieldsOf DEF Upcoming
    <3>2. \A k \in DOMAIN stack : Target \notin Below(stack[k])
      BY <2>2, WhoIsBelow, FieldsOf
    <3> QED BY <1>5, <2>7, <2>11, <3>1, <3>2, MountKinds, FieldsOf DEF Fits, IsFileSystem
  <2>12. CASE /\ top.kind # "image" /\ ~(top.kind = "overlay" /\ p # Root)
              /\ ~(top = Overlay(Root) /\ task.target)
    <3>1. Upcoming = AfterOverlay
      BY <1>5, <2>12 DEF Upcoming
    <3>2. Len(stack) # 1
      BY <2>7, <2>12, FieldsOf
    <3>3. CASE left = {}
      <4>1. Upcoming = Cache
        BY <3>1, <3>3 DEF AfterOverlay
      <4>2. \A k \in DOMAIN stack : Cache \notin Below(stack[k])
        BY <2>2, WhoIsBelow, FieldsOf
      <4> QED BY <1>1, <1>5, <3>2, <4>1, <4>2, MountKinds, FieldsOf DEF Fits, IsFileSystem
    <3>4. CASE left # {}
      <4>1. PICK q \in left : NextImage = Image(q) /\ left \cap Within[q] = {}
        BY <1>2, <3>4, NextImageFits
      <4>2. Upcoming = Image(q) /\ q \in Paths
        BY <1>2, <3>1, <3>4, <4>1 DEF AfterOverlay
      <4>3. \A k \in DOMAIN stack : IsFileSystem(stack[k]) =>
              stack[k].of # q /\ q \notin Within[stack[k].of]
        BY <1>1, <4>1 DEF OverlayInv, LeftInv
      <4>4. Image(q) \notin Entered
        BY <2>5, <4>3, FieldsOf DEF IsFileSystem
      <4>5. q # Root
        BY <1>5, <4>3, TopOfStack, FieldsOf DEF IsFileSystem
      <4>6. \A k \in DOMAIN stack : Image(q) \notin Below(stack[k])
        BY <2>2, <4>3, <4>5, WhoIsBelow DEF IsFileSystem
      <4>7. q \notin Within[q]
        BY <4>2, OrderFacts
      <4> QED BY <1>5, <3>2, <4>1, <4>2, <4>3, <4>4, <4>6, <4>7, MountKinds, FieldsOf DEF Fits
    <3> QED BY <3>3, <3>4
  <2> QED BY <2>9, <2>10, <2>11, <2>12
<1> QED BY <1>4, <1>5

(* The user of a complete overlay may mount what is not mounted yet.       *)
LEMMA UserMountFits ==
  ASSUME OverlayInv, Inside, NEW m \in {Iso, Userspace}, m \notin Entered
  PROVE  Fits(m)
<1>1. PICK k \in DOMAIN stack : stack[k] = Cache
  BY DEF Inside, Complete
<1>2. stack # << >> /\ DOMAIN stack = 1 .. Len(stack) /\ Len(stack) \in Nat
  <2>1. stack \in Seq(Mounts) /\ OverlayTypeOK
    BY DEF OverlayInv, OverlayTypeOK
  <2>2. DOMAIN stack = 1 .. Len(stack) /\ Len(stack) \in Nat
    BY <2>1, StackEntries
  <2> QED BY <1>1, <2>1, <2>2
<1>3. Len(stack) # 1
  BY <1>1, <1>2, TopOfStack, FieldsOf
<1>4. \A j \in DOMAIN stack : m \notin Below(stack[j])
  BY <1>2, TopOfStack, WhoIsBelow, FieldsOf
<1> QED BY <1>2, <1>3, <1>4, MountKinds, FieldsOf DEF Fits, IsFileSystem
-----------------------------------------------------------------------------
(* Each operation keeps the invariant.                                     *)

(* Unmounting keeps the state well-typed.                                  *)
LEMMA CleanTypes ==
  ASSUME OverlayTypeOK, NEW m, CleanMount(m)
  PROVE  /\ attached' \subseteq attached
         /\ lost' \subseteq Paths \cup {CacheDir, UserspaceDir}
         /\ mishaps' \in 0 .. MaxFaults
         /\ mishaps' = 0 => mishaps = 0 /\ lost' = lost
<1>1. \A x : Backing(x) \subseteq {CacheDir, UserspaceDir}
  BY DEF Backing
<1>2. UNION {Backing(x[1]) : x \in Tree(m)} \subseteq {CacheDir, UserspaceDir}
  BY <1>1
<1>3. mishaps \in 0 .. MaxFaults /\ MaxFaults \in Nat
  BY OverlayAssumption DEF OverlayTypeOK
<1>4. attached' \subseteq attached
  BY DEF CleanMount
<1>5. lost' \subseteq lost \cup UNION {Backing(x[1]) : x \in Tree(m)}
  BY DEF CleanMount
<1>6. lost \subseteq Paths \cup {CacheDir, UserspaceDir}
  BY DEF OverlayTypeOK
<1>7. mishaps' \in 0 .. MaxFaults /\ (mishaps' = 0 => mishaps = 0 /\ lost' = lost)
  BY <1>3 DEF CleanMount
<1> QED BY <1>2, <1>4, <1>5, <1>6, <1>7

(* While a call is under way, it has its number.                           *)
LEMMA CallNumber ==
  ASSUME OverlayInv, mode # "out"
  PROVE  calls \in 1 .. calls /\ calls \in 1 .. MaxCalls
<1>1. calls \in 0 .. MaxCalls /\ calls > 0
  BY DEF OverlayInv, ModeInv, OverlayTypeOK
<1>2. MaxCalls \in Nat
  BY OverlayAssumption
<1> QED BY <1>1, <1>2

LEMMA EnterKeeps ==
  ASSUME OverlayInv, NEW m, Fits(m), EnterMount(m)
  PROVE  OverlayInv'
<1>1. stack' = Append(stack, m) /\ mode = "in" /\ mode' = "in"
      /\ left' = left \ (IF m.kind = "image" THEN {m.of} ELSE {})
  BY DEF EnterMount
<1>2. StackInv' /\ LeftInv' /\ AttachedInv'
  BY <1>1, PushKeepsStack, PushKeepsLeft, PushKeepsAttached
<1>3. calls \in 1 .. calls /\ calls' = calls
  BY <1>1, CallNumber DEF EnterMount
<1>4. ModeInv'
  BY <1>1, <1>3 DEF ModeInv, OverlayInv
<1>5. OverlayTypeOK'
  <2>1. m \in Mounts
    BY DEF Fits
  <2>2. \A x : Backing(x) \subseteq {CacheDir, UserspaceDir}
    BY DEF Backing
  <2>3. UNION {Backing(x[1]) : x \in Tree(m)} \subseteq {CacheDir, UserspaceDir}
    BY <2>2
  <2>4. lost' \subseteq Paths \cup {CacheDir, UserspaceDir}
    BY <2>3 DEF EnterMount, OverlayInv, OverlayTypeOK
  <2>5. attached' \subseteq Mounts \X (1 .. calls')
    <3>1. <<m, calls>> \in Mounts \X (1 .. calls)
      BY <1>3, <2>1
    <3>3. attached \subseteq Mounts \X (1 .. calls)
      BY DEF OverlayInv, OverlayTypeOK
    <3>2. attached' \subseteq attached \cup {<<m, calls>>}
      BY DEF EnterMount
    <3> QED BY <1>3, <3>1, <3>2, <3>3
  <2>6. mishaps' \in 0 .. MaxFaults
    BY OverlayAssumption DEF EnterMount, OverlayInv, OverlayTypeOK
  <2>7. stack' \in Seq(Mounts) /\ left' \subseteq Paths
    BY <1>1, <2>1 DEF OverlayInv, OverlayTypeOK
  <2> QED BY <1>1, <1>3, <2>4, <2>5, <2>6, <2>7 DEF OverlayInv, OverlayTypeOK, EnterMount
<1> QED BY <1>2, <1>4, <1>5 DEF OverlayInv

(* What is not on the stack is only mounted when something went wrong.     *)
LEMMA NotMounted ==
  ASSUME OverlayInv, mishaps = 0, NEW m, m \notin Entered
  PROVE  ~IsMounted(m)
  BY DEF OverlayInv, AttachedInv, IsMounted, AttachedBy, Entered

LEMMA FailKeeps ==
  ASSUME OverlayInv, NEW m, Fits(m), MountFails(m)
  PROVE  OverlayInv'
<1>1. CleanMount(m) /\ mode = "in" /\ mode' = "out of" /\ UNCHANGED <<task, left, sizes, stack, calls>>
      /\ broken' = TRUE
  BY DEF MountFails
<1>2. AttachedInv'
  <2>1. SUFFICES ASSUME mishaps' = 0 PROVE lost' = {} /\ attached' = attached /\ mishaps = 0
    BY <1>1 DEF AttachedInv, OverlayInv
  <2>2. mishaps = 0 /\ lost' = lost
    BY <1>1, <2>1, CleanTypes DEF OverlayInv
  <2>3. ~IsMounted(m)
    BY <2>2, NotMounted DEF Fits
  <2> QED BY <1>1, <2>2, <2>3 DEF CleanMount, OverlayInv, AttachedInv
<1>3. OverlayTypeOK'
  BY <1>1, CleanTypes DEF OverlayInv, OverlayTypeOK
<1>4. StackInv'
  BY <1>1 DEF OverlayInv, StackInv
<1>5. LeftInv' /\ ModeInv'
  BY <1>1 DEF OverlayInv, LeftInv, ModeInv
<1> QED BY <1>2, <1>3, <1>4, <1>5 DEF OverlayInv

(* The innermost mount has nothing mounted in it.                          *)
LEMMA TreeOfTop ==
  ASSUME OverlayInv, mishaps = 0, stack # << >>
  PROVE  /\ IsMounted(Last(stack))
         /\ Tree(Last(stack)) = {<<Last(stack), calls>>}
<1> DEFINE m == Last(stack)
<1>1. attached = {<<stack[k], calls>> : k \in DOMAIN stack}
  BY DEF OverlayInv, AttachedInv
<1>2. /\ Len(stack) \in DOMAIN stack /\ m = stack[Len(stack)]
      /\ \A k \in DOMAIN stack : k <= Len(stack) /\ k \in Nat /\ stack[k] \in Mounts
  BY TopOfStack
<1>3. calls \in 1 .. calls
  <2>1. mode # "out"
    BY DEF OverlayInv, ModeInv
  <2> QED BY <2>1, CallNumber
<1>4. <<m, calls>> \in attached
  BY <1>1, <1>2
<1>5. AttachedBy(m) = {calls}
  <2>1. calls \in AttachedBy(m)
    BY <1>3, <1>4 DEF AttachedBy
  <2>2. \A c \in AttachedBy(m) : c = calls
    BY <1>1 DEF AttachedBy
  <2> QED BY <2>1, <2>2
<1>6. Topmost(m) = calls
  <2>1. \A d \in {calls} : d <= calls
    BY <1>3
  <2> QED BY <1>5, <2>1 DEF Topmost
<1>7. \A k \in DOMAIN stack : m \in On(stack[k]) => stack[k] = m
  <2>1. ASSUME NEW k \in DOMAIN stack, m \in On(stack[k]), k < Len(stack) PROVE FALSE
    <3>1. m \notin Below(stack[k])
      BY <1>2, <2>1 DEF OverlayInv, StackInv
    <3> QED BY <1>2, <2>1, <3>1, OnIsBelow
  <2> QED BY <1>2, <2>1
<1>8. \A x \in Tree(m) : x = <<m, calls>>
  BY <1>1, <1>6, <1>7 DEF Tree
<1>9. <<m, calls>> \in Tree(m)
  BY <1>4, <1>6 DEF Tree
<1> QED BY <1>5, <1>8, <1>9 DEF IsMounted

(* The stack without its top.                                              *)
LEMMA Popped ==
  ASSUME OverlayInv, ExitMount
  PROVE  LET n == Len(stack) - 1 IN
         /\ n \in Nat /\ stack' \in Seq(Mounts) /\ Len(stack') = n /\ DOMAIN stack' = 1 .. n
         /\ \A k \in 1 .. n : stack'[k] = stack[k] /\ k \in DOMAIN stack
<1> DEFINE n == Len(stack) - 1
<1>1. stack # << >> /\ stack' = SubSeq(stack, 1, n)
  BY DEF ExitMount
<1>2. stack \in Seq(Mounts) /\ Len(stack) \in Nat /\ DOMAIN stack = 1 .. Len(stack)
  BY StackEntries DEF OverlayInv, OverlayTypeOK
<1>3. n \in Nat
  BY <1>1, <1>2, TopOfStack
<1>4. \A k \in 1 .. n : k \in DOMAIN stack /\ stack[k] \in Mounts
  BY <1>2, <1>3, ElementOfSeq
<1>5. stack' = SubSeq(stack, 1, n) /\ 1 \in Int /\ n \in Int
  BY <1>1, <1>3
<1> HIDE DEF n
<1>6. /\ SubSeq(stack, 1, n) \in Seq(Mounts)
      /\ Len(SubSeq(stack, 1, n)) = IF 1 <= n THEN n - 1 + 1 ELSE 0
      /\ \A k \in 1 .. n - 1 + 1 : SubSeq(stack, 1, n)[k] = stack[1 + k - 1]
  BY <1>4, <1>5, SubSeqProperties
<1>7. \A k \in 1 .. n : k \in 1 .. n - 1 + 1 /\ 1 + k - 1 = k
  BY <1>3
<1>8. /\ n \in Nat /\ stack' \in Seq(Mounts) /\ Len(stack') = n /\ DOMAIN stack' = 1 .. n
      /\ \A k \in 1 .. n : stack'[k] = stack[k] /\ k \in DOMAIN stack
  BY <1>3, <1>4, <1>5, <1>6, <1>7
<1> QED BY <1>8 DEF n

(* Unmounting adds nothing to the stack.                                   *)
LEMMA ExitEntered ==
  ASSUME OverlayInv, ExitMount
  PROVE  /\ Entered' \subseteq Entered
         /\ \A x \in Entered : x # Last(stack) => x \in Entered'
<1> DEFINE n == Len(stack) - 1
<1>1. n \in Nat /\ DOMAIN stack' = 1 .. n
      /\ \A k \in 1 .. n : stack'[k] = stack[k] /\ k \in DOMAIN stack
  BY Popped
<1>2. DOMAIN stack = 1 .. Len(stack) /\ Len(stack) \in Nat
  BY StackEntries DEF OverlayInv
<1>3. \A k \in DOMAIN stack : k \in 1 .. n \/ stack[k] = Last(stack)
  BY <1>1, <1>2 DEF Last
<1> QED BY <1>1, <1>3 DEF Entered

LEMMA ExitKeeps ==
  ASSUME OverlayInv, ExitMount, UNCHANGED <<mode, task, left, sizes, broken, calls>>
  PROVE  OverlayInv'
<1> DEFINE n == Len(stack) - 1
<1>1. stack # << >> /\ CleanMount(Last(stack)) /\ stack' = SubSeq(stack, 1, n)
  BY DEF ExitMount
<1>2. stack \in Seq(Mounts) /\ Len(stack) \in Nat /\ DOMAIN stack = 1 .. Len(stack)
  BY StackEntries DEF OverlayInv, OverlayTypeOK
<1>3. n \in Nat
  BY <1>1, <1>2, TopOfStack
<1>4. /\ stack' \in Seq(Mounts) /\ Len(stack') = n /\ DOMAIN stack' = 1 .. n
      /\ \A k \in 1 .. n : stack'[k] = stack[k] /\ k \in DOMAIN stack
  BY Popped
<1>5. StackInv'
  <2>1. \A k \in DOMAIN stack' : k > 1 => stack'[k - 1] = stack[k - 1]
    BY <1>3, <1>4
  <2> QED BY <1>4, <2>1 DEF OverlayInv, StackInv
<1>6. LeftInv'
  BY <1>4 DEF OverlayInv, LeftInv
<1>7. ModeInv'
  <2>1. mode \in {"in", "out of"}
    BY <1>1 DEF OverlayInv, ModeInv
  <2> QED BY <2>1 DEF OverlayInv, ModeInv
<1>8. OverlayTypeOK'
  <2>1. attached' \subseteq attached
    BY <1>1, CleanTypes DEF OverlayInv
  <2>2. attached \subseteq Mounts \X (1 .. calls)
    BY DEF OverlayInv, OverlayTypeOK
  <2> QED BY <1>1, <1>4, <2>1, <2>2, CleanTypes DEF OverlayInv, OverlayTypeOK
<1>9. AttachedInv'
  <2>1. SUFFICES ASSUME mishaps' = 0
                 PROVE  lost' = {} /\ attached' = {<<stack'[k], calls'>> : k \in DOMAIN stack'}
    BY DEF AttachedInv
  <2>2. mishaps = 0 /\ lost' = lost
    BY <1>1, <2>1, CleanTypes DEF OverlayInv
  <2>3. lost = {} /\ attached = {<<stack[k], calls>> : k \in DOMAIN stack}
    BY <2>2 DEF OverlayInv, AttachedInv
  <2>4. IsMounted(Last(stack)) /\ Tree(Last(stack)) = {<<Last(stack), calls>>}
    BY <1>1, <2>2, TreeOfTop
  <2>5. attached' = attached \ {<<Last(stack), calls>>}
    BY <1>1, <2>1, <2>2, <2>4 DEF CleanMount
  <2>6. Last(stack) = stack[Len(stack)] /\ \A k \in DOMAIN stack : k = Len(stack) \/ k \in 1 .. n
    BY <1>2, <1>3 DEF Last
  <2>7. \A k \in 1 .. n : stack[k] # Last(stack)
    <3>1. \A k \in 1 .. n : k < Len(stack) /\ k \in DOMAIN stack /\ Len(stack) \in DOMAIN stack
      BY <1>2, <1>3
    <3> QED BY <2>6, <3>1 DEF OverlayInv, StackInv
  <2>8. attached' = {<<stack[k], calls>> : k \in 1 .. n}
    <3>1. \A x \in attached' : x \in {<<stack[k], calls>> : k \in 1 .. n}
      BY <2>3, <2>5, <2>6
    <3>2. \A k \in 1 .. n : <<stack[k], calls>> \in attached'
      BY <1>4, <2>3, <2>5, <2>7
    <3> QED BY <3>1, <3>2
  <2>9. {<<stack'[k], calls'>> : k \in DOMAIN stack'} = {<<stack[k], calls>> : k \in 1 .. n}
    BY <1>4
  <2> QED BY <2>2, <2>3, <2>8, <2>9
<1> QED BY <1>5, <1>6, <1>7, <1>8, <1>9 DEF OverlayInv
(* A disk image has a size, whatever space there is.                       *)
LEMMA SizesAreNatural ==
  ASSUME NEW t \in Tasks, NEW p \in t.fstab
  PROVE  SizeOf(t, p) \in Nat
<1>1. t.reserve \in Nat /\ t.fstab \subseteq Paths
      /\ t.free \in [Paths \cup {ScratchDir} -> FreeSpace \cup {0}]
  BY DEF Tasks
<1>2. t.free[ScratchDir] \in Nat /\ t.free[p] \in Nat
  <2>1. FreeSpace \cup {0} \subseteq Nat
    BY OverlayAssumption
  <2>2. ScratchDir \in Paths \cup {ScratchDir} /\ p \in Paths \cup {ScratchDir}
    BY <1>1
  <2>3. t.free[ScratchDir] \in FreeSpace \cup {0} /\ t.free[p] \in FreeSpace \cup {0}
    BY <1>1, <2>2
  <2> QED BY <2>1, <2>3
<1> DEFINE space == IF p = ScratchMount(t.fstab)
                    THEN t.free[ScratchDir] - t.reserve
                    ELSE (t.free[p] * 95) \div 100
<1>3. space \in Int
  BY <1>1, <1>2
<1>4. SizeOf(t, p) = Max2(SmallestImage, Min2(LargestImage, space))
  BY DEF SizeOf
<1> HIDE DEF space
<1> QED BY <1>3, <1>4 DEF Max2, Min2, SmallestImage, LargestImage

LEMMA StepKeeps ==
  ASSUME OverlayInv, OverlayStep
  PROVE  OverlayInv'
<1>1. CASE PrepareImages
  <2>1. mode = "prepare" /\ mode' \in {"in", "cleanup"} /\ stack = << >>
        /\ UNCHANGED <<task, stack, attached, lost, calls, mishaps>>
    BY <1>1 DEF PrepareImages, OverlayInv, ModeInv
  <2>2. left' \subseteq Paths /\ broken' \in BOOLEAN
    BY <1>1 DEF PrepareImages, OverlayInv, OverlayTypeOK, Tasks
  <2>3. DOMAIN sizes' \subseteq Paths /\ \A p \in DOMAIN sizes' : sizes'[p] \in Nat
    <3>1. CASE sizes' = sizes
      BY <3>1 DEF OverlayInv, OverlayTypeOK
    <3>2. CASE sizes' = [p \in task.fstab |-> SizeOf(task, p)]
      <4>1. task \in Tasks /\ task.fstab \subseteq Paths
        BY DEF OverlayInv, OverlayTypeOK, Tasks
      <4> QED BY <3>2, <4>1, SizesAreNatural
    <3> QED BY <1>1, <3>1, <3>2 DEF PrepareImages
  <2>4. OverlayTypeOK'
    BY <2>1, <2>2, <2>3 DEF OverlayInv, OverlayTypeOK
  <2>5. StackInv'
    BY <2>1 DEF OverlayInv, StackInv
  <2>6. AttachedInv'
    BY <2>1 DEF OverlayInv, AttachedInv
  <2>7. LeftInv' /\ ModeInv'
    BY <2>1 DEF OverlayInv, LeftInv, ModeInv
  <2> QED BY <2>4, <2>5, <2>6, <2>7 DEF OverlayInv
<1>2. CASE BuildOverlay
  BY <1>2, UpcomingFits, EnterKeeps DEF BuildOverlay
<1>3. CASE BuildFails
  BY <1>3, UpcomingFits, FailKeeps DEF BuildFails
<1>4. CASE Unwind
  <2>1. CASE ExitMount /\ UNCHANGED mode
    BY <1>4, <2>1, ExitKeeps DEF Unwind
  <2>2. CASE stack = << >> /\ mode' = "cleanup" /\ UNCHANGED <<stack, attached, lost, mishaps>>
    <3>1. UNCHANGED <<task, left, sizes, broken, calls>> /\ mode # "out"
      BY <1>4 DEF Unwind
    <3>2. OverlayTypeOK'
      BY <2>2, <3>1 DEF OverlayInv, OverlayTypeOK
    <3>3. StackInv'
      BY <2>2, <3>1 DEF OverlayInv, StackInv
    <3>4. AttachedInv'
      BY <2>2, <3>1 DEF OverlayInv, AttachedInv
    <3>5. LeftInv' /\ ModeInv'
      BY <2>2, <3>1 DEF OverlayInv, LeftInv, ModeInv
    <3> QED BY <3>2, <3>3, <3>4, <3>5 DEF OverlayInv
  <2> QED BY <1>4, <2>1, <2>2 DEF Unwind
<1>5. CASE CleanupScratch
  <2>1. /\ mode = "cleanup" /\ mode' = "out" /\ left' = {} /\ stack = << >>
        /\ UNCHANGED <<task, stack, attached, broken, calls, mishaps>>
    BY <1>5 DEF CleanupScratch, OverlayInv, ModeInv
  <2>2. lost' \subseteq lost \cup UNION {Backing(x[1]) : x \in attached}
    BY <1>5 DEF CleanupScratch
  <2>3. lost' \subseteq Paths \cup {CacheDir, UserspaceDir}
    <3>1. \A x : Backing(x) \subseteq {CacheDir, UserspaceDir}
      BY DEF Backing
    <3>2. UNION {Backing(x[1]) : x \in attached} \subseteq {CacheDir, UserspaceDir}
      BY <3>1
    <3> QED BY <2>2, <3>2 DEF OverlayInv, OverlayTypeOK
  <2>4. DOMAIN sizes' \subseteq Paths /\ \A p \in DOMAIN sizes' : sizes'[p] \in Nat
    <3>1. CASE sizes' = << >>
      BY <3>1
    <3>2. CASE sizes' = sizes
      BY <3>2 DEF OverlayInv, OverlayTypeOK
    <3> QED BY <1>5, <3>1, <3>2 DEF CleanupScratch
  <2>5. OverlayTypeOK'
    BY <2>1, <2>3, <2>4 DEF OverlayInv, OverlayTypeOK
  <2>6. AttachedInv'
    <3>1. SUFFICES ASSUME mishaps' = 0
                   PROVE  lost' = {} /\ attached' = {<<stack'[k], calls'>> : k \in DOMAIN stack'}
      BY DEF AttachedInv
    <3>2. lost = {} /\ attached = {<<stack[k], calls>> : k \in DOMAIN stack}
      BY <2>1, <3>1 DEF OverlayInv, AttachedInv
    <3>3. attached = {}
      BY <2>1, <3>2
    <3>4. UNION {Backing(x[1]) : x \in attached} = {}
      BY <3>3
    <3>5. lost' = {}
      BY <2>2, <3>2, <3>4
    <3> QED BY <2>1, <3>2, <3>5
  <2>7. StackInv'
    BY <2>1 DEF OverlayInv, StackInv
  <2>8. LeftInv' /\ ModeInv'
    BY <2>1 DEF OverlayInv, LeftInv, ModeInv
  <2> QED BY <2>5, <2>6, <2>7, <2>8 DEF OverlayInv
<1> QED BY <1>1, <1>2, <1>3, <1>4, <1>5 DEF OverlayStep

LEMMA OpenKeeps ==
  ASSUME OverlayInv, NEW t \in Tasks, OpenOverlay(t)
  PROVE  OverlayInv'
<1>1. /\ mode = "out" /\ mode' = "prepare" /\ task' = t /\ calls' = calls + 1
      /\ calls < MaxCalls /\ broken' = FALSE /\ stack = << >>
      /\ UNCHANGED <<left, sizes, stack, attached, lost, mishaps>>
  BY DEF OpenOverlay, OverlayInv, ModeInv
<1>2. calls \in Nat /\ calls' \in 0 .. MaxCalls /\ 1 .. calls \subseteq 1 .. calls' /\ calls' > 0
  BY <1>1, OverlayAssumption DEF OverlayInv, OverlayTypeOK
<1>3. attached' \subseteq Mounts \X (1 .. calls')
  BY <1>1, <1>2 DEF OverlayInv, OverlayTypeOK
<1>4. OverlayTypeOK'
  BY <1>1, <1>2, <1>3 DEF OverlayInv, OverlayTypeOK
<1>5. AttachedInv'
  <2>1. DOMAIN stack = {} /\ {<<stack[k], calls>> : k \in DOMAIN stack} = {}
        /\ {<<stack'[k], calls'>> : k \in DOMAIN stack'} = {}
    BY <1>1
  <2> QED BY <1>1, <2>1 DEF OverlayInv, AttachedInv
<1>6. StackInv'
  BY <1>1 DEF OverlayInv, StackInv
<1>7. LeftInv' /\ ModeInv'
  BY <1>1, <1>2 DEF OverlayInv, LeftInv, ModeInv
<1> QED BY <1>4, <1>5, <1>6, <1>7 DEF OverlayInv

LEMMA LeaveKeeps ==
  ASSUME OverlayInv, NEW ok \in BOOLEAN, LeaveOverlay(ok)
  PROVE  OverlayInv'
<1>1. /\ mode = "in" /\ mode' = "out of" /\ broken' \in BOOLEAN
      /\ UNCHANGED <<task, left, sizes, stack, attached, lost, calls, mishaps>>
  BY DEF LeaveOverlay, Inside
<1>2. OverlayTypeOK'
  BY <1>1 DEF OverlayInv, OverlayTypeOK
<1>3. StackInv'
  BY <1>1 DEF OverlayInv, StackInv
<1>4. AttachedInv'
  BY <1>1 DEF OverlayInv, AttachedInv
<1>5. LeftInv' /\ ModeInv'
  BY <1>1 DEF OverlayInv, LeftInv, ModeInv
<1> QED BY <1>2, <1>3, <1>4, <1>5 DEF OverlayInv

LEMMA KilledKeeps ==
  ASSUME OverlayInv, Killed
  PROVE  OverlayInv'
<1>1. /\ mode' = "out" /\ stack' = << >> /\ left' = {} /\ broken' = TRUE
      /\ mishaps < MaxFaults /\ mishaps' = mishaps + 1 /\ attached' \subseteq attached
      /\ UNCHANGED <<task, sizes, lost, calls>>
  BY DEF Killed
<1>2. mishaps' \in 0 .. MaxFaults /\ mishaps' # 0
  <2>1. mishaps \in 0 .. MaxFaults /\ MaxFaults \in Nat
    BY OverlayAssumption DEF OverlayInv, OverlayTypeOK
  <2> QED BY <1>1, <2>1
<1>3. OverlayTypeOK'
  <2>1. stack' \in Seq(Mounts) /\ left' \subseteq Paths
    BY <1>1
  <2>2. attached' \subseteq Mounts \X (1 .. calls')
    BY <1>1 DEF OverlayInv, OverlayTypeOK
  <2>3. DOMAIN sizes' \subseteq Paths /\ \A p \in DOMAIN sizes' : sizes'[p] \in Nat
    BY <1>1 DEF OverlayInv, OverlayTypeOK
  <2>4. OverlayTypeOK
    BY DEF OverlayInv
  <2> QED BY <1>1, <1>2, <2>1, <2>2, <2>3, <2>4 DEF OverlayTypeOK
<1>4. StackInv' /\ LeftInv'
  BY <1>1 DEF StackInv, LeftInv
<1>5. AttachedInv' /\ ModeInv'
  BY <1>1, <1>2 DEF AttachedInv, ModeInv
<1> QED BY <1>3, <1>4, <1>5 DEF OverlayInv

LEMMA OverlayStutter ==
  ASSUME OverlayInv, UNCHANGED overlayVars
  PROVE  OverlayInv'
<1>1. OverlayTypeOK'
  BY DEF OverlayInv, OverlayTypeOK, overlayVars
<1>2. StackInv'
  BY DEF OverlayInv, StackInv, overlayVars
<1>3. LeftInv' /\ ModeInv' /\ AttachedInv'
  BY DEF OverlayInv, LeftInv, ModeInv, AttachedInv, overlayVars
<1> QED BY <1>1, <1>2, <1>3 DEF OverlayInv

LEMMA OverlayStart ==
  ASSUME OverlayInit
  PROVE  OverlayInv
<1>1. NoTask \in Tasks
  BY OverlayAssumption DEF NoTask, Tasks
<1>2. OverlayTypeOK
  <2>1. MaxCalls \in Nat /\ MaxFaults \in Nat
    BY OverlayAssumption
  <2>2. 0 \in 0 .. MaxCalls /\ 0 \in 0 .. MaxFaults
    BY <2>1
  <2>3. stack \in Seq(Mounts) /\ attached \subseteq Mounts \X (1 .. calls)
    BY DEF OverlayInit
  <2>4. DOMAIN sizes = {}
    BY DEF OverlayInit
  <2> QED BY <1>1, <2>2, <2>3, <2>4 DEF OverlayInit, OverlayTypeOK
<1>3. StackInv
  BY DEF OverlayInit, StackInv
<1>4. AttachedInv /\ LeftInv /\ ModeInv
  BY DEF OverlayInit, AttachedInv, LeftInv, ModeInv
<1> QED BY <1>2, <1>3, <1>4 DEF OverlayInv
-----------------------------------------------------------------------------
(* What the overlay shows.                                                 *)

(* A mount point of fstab is bound into the overlay, or on its way there:  *)
(* its image not made yet, or it is what the next mount is about.          *)
OnItsWay(p) ==
  /\ ~Complete
  /\ p \in left \/ (stack # << >> /\ Last(stack) \in {Image(p), Overlay(p)})

ShownInv ==
  mode = "in" =>
    /\ sizes = [p \in task.fstab |-> SizeOf(task, p)] /\ Root \in task.fstab
    /\ \A p \in task.fstab \ {Root} : Bind(p) \in Entered \/ OnItsWay(p)

LEMMA GreatestOne ==
  ASSUME NEW n \in Nat, NEW T, T \subseteq 0 .. n, T # {}
  PROVE  \E x \in T : \A y \in T : y <= x
<1> DEFINE U == {n - x : x \in T}
<1>1. U \subseteq Nat /\ U # {}
  OBVIOUS
<1>2. PICK u \in U : \A w \in U : u <= w
  <2> HIDE DEF U
  <2> QED BY <1>1, LeastOne
<1>3. PICK x \in T : u = n - x
  BY <1>2
<1>4. ASSUME NEW y \in T PROVE y <= x
  <2>1. n - x <= n - y
    BY <1>2, <1>3
  <2> QED BY <2>1
<1> QED BY <1>4

(* The mount point of the scratch directory is one of them.                *)
LEMMA ScratchIsMounted ==
  ASSUME NEW S \in SUBSET Paths, Root \in S
  PROVE  ScratchMount(S) \in S
<1>1. Root \in Within[ScratchDir]
  BY OverlayAssumption
<1>2. PICK i \in DOMAIN Order : Order[i] = Root
  BY DEF Paths
<1>3. OnTheWay(S) # {} /\ OnTheWay(S) \subseteq 0 .. Len(Order) /\ Len(Order) \in Nat
  BY <1>1, <1>2, OrderFacts DEF OnTheWay
<1>4. \E k \in OnTheWay(S) : \A j \in OnTheWay(S) : j <= k
  BY <1>3, GreatestOne
<1>5. PICK k \in OnTheWay(S) : ScratchMount(S) = Order[k]
  BY <1>4 DEF ScratchMount
<1>6. Order[k] \in S
  BY <1>5 DEF OnTheWay
<1> QED BY <1>5, <1>6

LEMMA Clamped ==
  ASSUME NEW low \in Int, NEW high \in Int, low <= high, NEW x \in Int
  PROVE  LET y == Max2(low, Min2(high, x)) IN y \in low .. high /\ (y = low \/ y <= x)
  BY DEF Max2, Min2

LEMMA SizesHonourReserve ==
  ASSUME NEW t \in Tasks, NEW p \in t.fstab
  PROVE  /\ SizeOf(t, p) \in SmallestImage .. LargestImage
         /\ p = ScratchMount(t.fstab) =>
              SizeOf(t, p) = SmallestImage \/ SizeOf(t, p) + t.reserve <= t.free[ScratchDir]
<1>1. t.reserve \in Nat /\ t.fstab \subseteq Paths
      /\ t.free \in [Paths \cup {ScratchDir} -> FreeSpace \cup {0}]
  BY DEF Tasks
<1>2. t.free[ScratchDir] \in Nat /\ t.free[p] \in Nat
  <2>1. FreeSpace \cup {0} \subseteq Nat
    BY OverlayAssumption
  <2>2. ScratchDir \in Paths \cup {ScratchDir} /\ p \in Paths \cup {ScratchDir}
    BY <1>1
  <2>3. t.free[ScratchDir] \in FreeSpace \cup {0} /\ t.free[p] \in FreeSpace \cup {0}
    BY <1>1, <2>2
  <2> QED BY <2>1, <2>3
<1> DEFINE space == IF p = ScratchMount(t.fstab)
                    THEN t.free[ScratchDir] - t.reserve
                    ELSE (t.free[p] * 95) \div 100
<1>3. space \in Int
  BY <1>1, <1>2
<1>4. SizeOf(t, p) = Max2(SmallestImage, Min2(LargestImage, space))
  BY DEF SizeOf
<1>5. p = ScratchMount(t.fstab) => space = t.free[ScratchDir] - t.reserve
  OBVIOUS
<1> HIDE DEF space
<1>6. SmallestImage \in Int /\ LargestImage \in Int /\ SmallestImage <= LargestImage
  BY SMT DEF SmallestImage, LargestImage
<1>7. SizeOf(t, p) \in SmallestImage .. LargestImage
      /\ (SizeOf(t, p) = SmallestImage \/ SizeOf(t, p) <= space)
  BY <1>3, <1>4, <1>6, Clamped
<1>8. ASSUME p = ScratchMount(t.fstab), SizeOf(t, p) # SmallestImage
      PROVE  SizeOf(t, p) + t.reserve <= t.free[ScratchDir]
  <2>1. SizeOf(t, p) \in Int /\ SizeOf(t, p) <= t.free[ScratchDir] - t.reserve
    BY <1>5, <1>6, <1>7, <1>8
  <2> QED BY <1>1, <1>2, <2>1
<1> QED BY <1>7, <1>8

(* The property follows.                                                   *)
LEMMA CompleteFollows ==
  ASSUME OverlayInv, ShownInv
  PROVE  OverlayIsComplete
<1>1. ASSUME Inside PROVE \A p \in task.fstab \ {Root} :
        \E k \in DOMAIN stack :
          /\ stack[k] = Bind(p)
          /\ \A j \in k + 1 .. Len(stack) :
               stack[j].kind = "bind" => stack[j].of \notin Within[p]
  <2>1. \A p \in task.fstab \ {Root} : Bind(p) \in Entered
    BY <1>1 DEF Inside, ShownInv, OnItsWay
  <2>2. ASSUME NEW k \in DOMAIN stack, NEW p, stack[k] = Bind(p),
               NEW j \in k + 1 .. Len(stack), stack[j].kind = "bind"
        PROVE  stack[j].of \notin Within[p]
    <3>1. DOMAIN stack = 1 .. Len(stack) /\ Len(stack) \in Nat
      BY StackEntries DEF OverlayInv
    <3>2. j \in DOMAIN stack /\ k <= j
      BY <3>1
    <3>3. stack[k].of = p /\ stack[k].kind = "bind"
      BY <2>2, FieldsOf
    <3> QED BY <2>2, <3>2, <3>3 DEF OverlayInv, StackInv, IsFileSystem
  <2> QED BY <2>1, <2>2 DEF Entered
<1>2. ReserveHonoured
  <2>1. SUFFICES ASSUME Inside
                 PROVE  LET s == ScratchMount(task.fstab) IN
                        /\ s \in DOMAIN sizes
                        /\ \/ sizes[s] = SmallestImage
                           \/ sizes[s] + task.reserve <= task.free[ScratchDir]
                        /\ \A p \in DOMAIN sizes : sizes[p] \in SmallestImage .. LargestImage
    BY DEF ReserveHonoured
  <2>2. sizes = [p \in task.fstab |-> SizeOf(task, p)] /\ Root \in task.fstab
    BY <2>1 DEF ShownInv, Inside
  <2>3. task \in Tasks /\ task.fstab \in SUBSET Paths
    BY DEF OverlayInv, OverlayTypeOK, Tasks
  <2>4. ScratchMount(task.fstab) \in task.fstab
    BY <2>2, <2>3, ScratchIsMounted
  <2> QED BY <2>2, <2>3, <2>4, SizesHonourReserve
<1> QED BY <1>1, <1>2 DEF OverlayIsComplete, ShowsEveryFileSystem

(* Mounting what comes next brings each file system on.                    *)
LEMMA BuildKeepsShown ==
  ASSUME OverlayInv, ShownInv, BuildOverlay
  PROVE  ShownInv'
<1> DEFINE m == Upcoming
<1>1. /\ mode = "in" /\ ~Complete /\ EnterMount(m) /\ Fits(m)
      /\ stack' = Append(stack, m)
      /\ left' = left \ (IF m.kind = "image" THEN {m.of} ELSE {})
      /\ UNCHANGED <<mode, task, sizes>>
  BY UpcomingFits DEF BuildOverlay, Entering, EnterMount
<1>2. stack \in Seq(Mounts) /\ m \in Mounts
  BY <1>1 DEF Fits, OverlayInv, OverlayTypeOK
<1>3. /\ DOMAIN stack = 1 .. Len(stack) /\ DOMAIN stack' = 1 .. Len(stack) + 1
      /\ Len(stack') = Len(stack) + 1 /\ Len(stack) \in Nat
      /\ \A k \in DOMAIN stack : stack'[k] = stack[k]
      /\ stack'[Len(stack) + 1] = m
  BY <1>1, <1>2, Pushed
<1>4. Entered' = Entered \cup {m}
  <2>1. DOMAIN stack' = DOMAIN stack \cup {Len(stack) + 1}
    BY <1>3
  <2> QED BY <1>3, <2>1 DEF Entered
<1>5. stack' # << >> /\ Last(stack)' = m
  BY <1>2, <1>1, <1>3 DEF Last
<1>6. Complete' <=> m = Cache
  BY <1>1, <1>4 DEF Complete, Entered
<1>7. ASSUME NEW p \in task.fstab \ {Root} PROVE (Bind(p) \in Entered \/ OnItsWay(p))'
  <2>1. CASE Bind(p) \in Entered
    BY <1>4, <2>1
  <2>2. CASE p \in left
    <3>1. m # Cache
      <4>1. left # {} /\ left \subseteq Paths
        BY <2>2, StackEntries DEF OverlayInv
      <4>2. PICK q \in left : NextImage = Image(q)
        BY <4>1, NextImageFits
      <4>3. AfterOverlay.kind = "image"
        BY <4>1, <4>2, FieldsOf DEF AfterOverlay
      <4>4. m.kind \in {"image", "overlay", "bind", "target"}
        BY <4>3, FieldsOf DEF Upcoming
      <4> QED BY <4>4, FieldsOf
    <3>2. CASE p \in left'
      BY <1>6, <3>1, <3>2 DEF OnItsWay
    <3>3. CASE p \notin left'
      <4>1. m.kind = "image" /\ m.of = p
        BY <1>1, <2>2, <3>3
      <4>2. m = Image(p)
        BY <1>2, <4>1, MountKinds, FieldsOf DEF Mounts, Image, IsFileSystem
      <4> QED BY <1>5, <1>6, <3>1, <4>2 DEF OnItsWay
    <3> QED BY <3>2, <3>3
  <2>3. CASE stack # << >> /\ Last(stack) = Image(p)
    <3>1. m = Overlay(p)
      BY <2>3, FieldsOf DEF Upcoming
    <3> QED BY <1>5, <1>6, <3>1, FieldsOf DEF OnItsWay
  <2>4. CASE stack # << >> /\ Last(stack) = Overlay(p)
    <3>1. m = Bind(p)
      BY <1>7, <2>4, FieldsOf DEF Upcoming
    <3> QED BY <1>4, <3>1
  <2> QED BY <1>1, <1>7, <2>1, <2>2, <2>3, <2>4 DEF ShownInv, OnItsWay
<1>8. \A p \in task'.fstab \ {Root} : (Bind(p) \in Entered \/ OnItsWay(p))'
  BY <1>1, <1>7
<1>9. sizes' = [p \in task'.fstab |-> SizeOf(task', p)] /\ Root \in task'.fstab
  BY <1>1 DEF ShownInv
<1> QED BY <1>8, <1>9 DEF ShownInv

LEMMA StepKeepsShown ==
  ASSUME OverlayInv, ShownInv, OverlayStep
  PROVE  ShownInv'
<1>1. CASE PrepareImages
  <2>1. SUFFICES ASSUME mode' = "in" PROVE ShownInv'
    BY DEF ShownInv
  <2>2. /\ Root \in task.fstab /\ sizes' = [p \in task.fstab |-> SizeOf(task, p)]
        /\ left' = task.fstab /\ task' = task /\ stack' = stack /\ stack = << >>
    BY <1>1, <2>1 DEF PrepareImages, OverlayInv, ModeInv
  <2>3. ~Complete'
    BY <2>2 DEF Complete
  <2> QED BY <2>2, <2>3 DEF ShownInv, OnItsWay
<1>2. CASE BuildOverlay
  BY <1>2, BuildKeepsShown
<1>3. CASE BuildFails \/ Unwind \/ CleanupScratch
  <2>1. mode' # "in"
    BY <1>3 DEF BuildFails, MountFails, Unwind, CleanupScratch
  <2> QED BY <2>1 DEF ShownInv
<1> QED BY <1>1, <1>2, <1>3 DEF OverlayStep

(* So does what the user of a complete overlay mounts and unmounts.        *)
LEMMA EnterKeepsShown ==
  ASSUME OverlayInv, ShownInv, Inside, NEW m \in Mounts, EnterMount(m)
  PROVE  ShownInv' /\ (mode' = "in" => stack' # << >> /\ Last(stack)' = m /\ Complete')
<1>1. /\ mode = "in" /\ Complete
      /\ stack' = Append(stack, m) /\ UNCHANGED <<mode, task, sizes>>
  BY DEF Inside, EnterMount
<1>2. stack \in Seq(Mounts)
  BY DEF OverlayInv, OverlayTypeOK
<1>3. /\ DOMAIN stack = 1 .. Len(stack) /\ DOMAIN stack' = 1 .. Len(stack) + 1
      /\ Len(stack') = Len(stack) + 1 /\ Len(stack) \in Nat
      /\ \A k \in DOMAIN stack : stack'[k] = stack[k]
      /\ stack'[Len(stack) + 1] = m
  BY <1>1, <1>2, Pushed
<1>4. Entered' = Entered \cup {m}
  <2>1. DOMAIN stack' = DOMAIN stack \cup {Len(stack) + 1}
    BY <1>3
  <2> QED BY <1>3, <2>1 DEF Entered
<1>5. \A p \in task.fstab \ {Root} : Bind(p) \in Entered
  BY <1>1 DEF ShownInv, OnItsWay
<1>6. ShownInv'
  BY <1>1, <1>4, <1>5 DEF ShownInv
<1>7. stack' # << >> /\ Last(stack)' = m
  BY <1>1, <1>2, <1>3 DEF Last
<1>8. Complete'
  BY <1>1, <1>4 DEF Complete, Entered
<1> QED BY <1>6, <1>7, <1>8

LEMMA ExitKeepsShown ==
  ASSUME OverlayInv, ShownInv, Inside, ExitMount, Last(stack) = Userspace,
         UNCHANGED <<mode, task, left, sizes, broken, calls>>
  PROVE  ShownInv'
<1>1. mode = "in" /\ Complete
  BY DEF Inside
<1>2. \A p \in task.fstab \ {Root} : Bind(p) \in Entered
  BY <1>1 DEF ShownInv, OnItsWay
<1>3. \A p : Bind(p) # Userspace
  BY FieldsOf
<1> QED BY <1>1, <1>2, <1>3, ExitEntered DEF ShownInv
=============================================================================
