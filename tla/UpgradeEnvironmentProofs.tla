---------------------- MODULE UpgradeEnvironmentProofs ----------------------
(***************************************************************************)
(* Proofs about how the machine gets into the upgrade environment: live    *)
(* mode boots the image it has prepared, the firmware boots the entry that *)
(* is due, the kernels get the arguments they should have, both initramfs  *)
(* are built from what was asked for, and multipath finds the disks there  *)
(* and on the upgraded system as it did before.                            *)
(***************************************************************************)
EXTENDS LiveMode, UpgradeBootOrder, KernelArguments, UpgradeInitramfs, MultipathConfig,
        WellFoundedInduction, FiniteSetTheorems, SequenceTheorems, TLAPS

-----------------------------------------------------------------------------
(* Sequences.                                                              *)

LEMMA ElementIn ==
  ASSUME NEW S, NEW s \in Seq(S), NEW i \in 1 .. Len(s)
  PROVE  s[i] \in ToSet(s)
BY DEF ToSet

LEMMA ElementsOf ==
  ASSUME NEW S, NEW s \in Seq(S), NEW t \in Seq(S)
  PROVE  /\ ToSet(s \o t) = ToSet(s) \cup ToSet(t)
         /\ s \o t \in Seq(S) /\ Len(s \o t) = Len(s) + Len(t)
<1>1. s \o t \in Seq(S) /\ Len(s \o t) = Len(s) + Len(t)
  OBVIOUS
<1>2. ASSUME NEW x \in ToSet(s \o t) PROVE x \in ToSet(s) \cup ToSet(t)
  <2>1. PICK k \in 1 .. Len(s) + Len(t) : x = (s \o t)[k]
    BY <1>2 DEF ToSet
  <2>2. CASE k <= Len(s)
    BY <2>1, <2>2 DEF ToSet
  <2>3. CASE k > Len(s)
    <3>1. k - Len(s) \in 1 .. Len(t) /\ x = t[k - Len(s)]
      BY <2>1, <2>3
    <3> QED BY <3>1 DEF ToSet
  <2> QED BY <2>1, <2>2, <2>3
<1>3. ASSUME NEW x \in ToSet(s) PROVE x \in ToSet(s \o t)
  <2>1. PICK k \in 1 .. Len(s) : x = s[k]
    BY <1>3 DEF ToSet
  <2>2. k \in 1 .. Len(s \o t) /\ x = (s \o t)[k]
    BY <1>1, <2>1
  <2> QED BY <1>1, <2>2 DEF ToSet
<1>4. ASSUME NEW x \in ToSet(t) PROVE x \in ToSet(s \o t)
  <2>1. PICK k \in 1 .. Len(t) : x = t[k]
    BY <1>4 DEF ToSet
  <2>2. Len(s) + k \in 1 .. Len(s \o t) /\ x = (s \o t)[Len(s) + k]
    BY <1>1, <2>1
  <2> QED BY <1>1, <2>2 DEF ToSet
<1> QED BY <1>1, <1>2, <1>3, <1>4

LEMMA HeadAndTail ==
  ASSUME NEW S, NEW s \in Seq(S), s # <<>>
  PROVE  /\ Head(s) \in S /\ Tail(s) \in Seq(S)
         /\ ToSet(s) = {Head(s)} \cup ToSet(Tail(s))
<1>1. /\ Head(s) \in S /\ Tail(s) \in Seq(S) /\ Len(s) >= 1 /\ Len(Tail(s)) = Len(s) - 1
      /\ Head(s) = s[1]
  OBVIOUS
<1>2. ASSUME NEW x \in ToSet(s) PROVE x \in {Head(s)} \cup ToSet(Tail(s))
  <2>1. PICK k \in 1 .. Len(s) : x = s[k]
    BY <1>2 DEF ToSet
  <2>2. CASE k = 1
    <3>1. x = Head(s)
      BY <1>1, <2>1, <2>2
    <3> QED BY <3>1
  <2>3. CASE k # 1
    <3>1. k - 1 \in 1 .. Len(Tail(s)) /\ x = Tail(s)[k - 1]
      BY <1>1, <2>1, <2>3
    <3>2. x \in ToSet(Tail(s))
      BY <1>1, <3>1, ElementIn
    <3> QED BY <3>2
  <2> QED BY <2>2, <2>3
<1>3. ASSUME NEW x \in ToSet(Tail(s)) PROVE x \in ToSet(s)
  <2>1. PICK k \in 1 .. Len(Tail(s)) : x = Tail(s)[k]
    BY <1>1, <1>3 DEF ToSet
  <2>2. k + 1 \in 1 .. Len(s) /\ x = s[k + 1]
    BY <1>1, <2>1
  <2> QED BY <2>2 DEF ToSet
<1>4. Head(s) \in ToSet(s)
  BY <1>1 DEF ToSet
<1> QED BY <1>1, <1>2, <1>3, <1>4

-----------------------------------------------------------------------------
(* Live mode.                                                              *)

LiveStepNames == {"services", "console", "fstab", "sysroot", "issue", "dbus", "sshd", "root",
                  "network", "fakeroot"}

LEMMA IfIs ==
  ASSUME NEW c, NEW x \in LiveStepNames
  PROVE  If(c, x) \in Seq(LiveStepNames) /\ (c => x \in ToSet(If(c, x)))
<1>1. <<x>> \in Seq(LiveStepNames) /\ <<>> \in Seq(LiveStepNames)
  OBVIOUS
<1>0. x \in ToSet(<<x>>)
  BY DEF ToSet
<1>2. CASE c
  BY <1>0, <1>1, <1>2 DEF If
<1>3. CASE ~c
  BY <1>1, <1>3 DEF If
<1> QED BY <1>2, <1>3

LEMMA StepsAre ==
  ASSUME NEW s
  PROVE  /\ LiveSteps(s) \in Seq(LiveStepNames) /\ LiveSteps(s) # <<>>
         /\ {"services", "console", "fstab", "sysroot", "dbus", "fakeroot"}
              \subseteq ToSet(LiveSteps(s))
         /\ s.ssh => "sshd" \in ToSet(LiveSteps(s))
         /\ s.rootLogin => "root" \in ToSet(LiveSteps(s))
         /\ s.network => "network" \in ToSet(LiveSteps(s))
<1> DEFINE a == <<"services", "console", "fstab", "sysroot", "issue", "dbus">>
           b == a \o If(s.ssh, "sshd")
           c == b \o If(s.rootLogin, "root")
           d == c \o If(s.network, "network")
<1>1. a \in Seq(LiveStepNames) /\ ToSet(a) = {"services", "console", "fstab", "sysroot", "issue", "dbus"}
  BY DEF LiveStepNames, ToSet
<1>f. <<"fakeroot">> \in Seq(LiveStepNames) /\ ToSet(<<"fakeroot">>) = {"fakeroot"}
  <2>1. <<"fakeroot">> \in Seq(LiveStepNames)
    BY DEF LiveStepNames
  <2>2. DOMAIN <<"fakeroot">> = {1} /\ <<"fakeroot">>[1] = "fakeroot"
    OBVIOUS
  <2> QED BY <2>1, <2>2 DEF ToSet
<1> HIDE DEF a
<1>i. /\ If(s.ssh, "sshd") \in Seq(LiveStepNames) /\ If(s.rootLogin, "root") \in Seq(LiveStepNames)
      /\ If(s.network, "network") \in Seq(LiveStepNames)
      /\ s.ssh => "sshd" \in ToSet(If(s.ssh, "sshd"))
      /\ s.rootLogin => "root" \in ToSet(If(s.rootLogin, "root"))
      /\ s.network => "network" \in ToSet(If(s.network, "network"))
  <2>1. "sshd" \in LiveStepNames /\ "root" \in LiveStepNames /\ "network" \in LiveStepNames
    BY DEF LiveStepNames
  <2> QED BY <2>1, IfIs
<1>3. b \in Seq(LiveStepNames) /\ ToSet(b) = ToSet(a) \cup ToSet(If(s.ssh, "sshd"))
  BY <1>1, <1>i, ElementsOf
<1> HIDE DEF b
<1>4. c \in Seq(LiveStepNames) /\ ToSet(c) = ToSet(b) \cup ToSet(If(s.rootLogin, "root"))
  BY <1>i, <1>3, ElementsOf
<1> HIDE DEF c
<1>5. d \in Seq(LiveStepNames) /\ ToSet(d) = ToSet(c) \cup ToSet(If(s.network, "network"))
  BY <1>i, <1>4, ElementsOf
<1> HIDE DEF d
<1> DEFINE f == <<"fakeroot">>
<1>p. f \in Seq(LiveStepNames) /\ ToSet(f) = {"fakeroot"}
  BY <1>f DEF f
<1>7. LiveSteps(s) = d \o f
  BY DEF LiveSteps, a, b, c, d, f
<1> HIDE DEF f
<1>6. d \o f \in Seq(LiveStepNames) /\ ToSet(d \o f) = ToSet(d) \cup {"fakeroot"}
  BY <1>p, <1>5, ElementsOf
<1>8. ToSet(LiveSteps(s)) = ToSet(a) \cup ToSet(If(s.ssh, "sshd"))
          \cup ToSet(If(s.rootLogin, "root")) \cup ToSet(If(s.network, "network"))
          \cup {"fakeroot"}
  BY <1>3, <1>4, <1>5, <1>6, <1>7
<1>9. {"services", "console", "fstab", "sysroot", "dbus", "fakeroot"}
        \subseteq ToSet(LiveSteps(s))
  BY <1>1, <1>8
<1>10. LiveSteps(s) # <<>>
  BY <1>9 DEF ToSet
<1> QED BY <1>i, <1>6, <1>7, <1>8, <1>9, <1>10

(* What a step has left in a set of parts: all it makes, but for an sshd that *)
(* could not be enabled, and no getty next to the one of the console.         *)
Made(step, parts) ==
  /\ ToSet(StepMakes(step)) \subseteq parts \cup (lmLogged \cap {"sshd"})
  /\ step = "console" /\ "tty1" \in parts => ~lmSystem.hostTty1
Done(step) ==
  /\ Made(step, lmUserspace)
  /\ step = "fakeroot" => lmFakeRoot
LiveConfigured == ToSet(LiveSteps(lmSystem))

LiveImages == [run : Nat \ {0}, parts : SUBSET LiveParts, whole : BOOLEAN]

LiveTypes ==
  /\ lmSystem \in LiveSystems
  /\ lmRun \in Nat \ {0} /\ lmFaults \in Nat
  /\ lmUserspace \subseteq LiveParts /\ lmSquash \in Seq(LiveImages)

(* A step that was configured is still to do or has been done; the list is    *)
(* not empty before it ends.                                                  *)
StepsInv ==
  /\ lmAt = "prepare" =>
       /\ lmTodo \in Seq(LiveStepNames) /\ lmTodo # <<>>
       /\ \A step \in LiveConfigured : step \in ToSet(lmTodo) \/ Done(step)
  /\ lmAt = "generate" => \A step \in LiveConfigured : Done(step)

(* An image that can be booted is complete, whoever has made it; from the     *)
(* image to the end of the attempt it is there and from this execution.       *)
ImageInv ==
  /\ ImageCanBoot => \A step \in LiveConfigured : Made(step, lmSquash[1].parts)
  /\ lmAt \in {"boot entry", "reboot", "live", "failed", "waits"} =>
       ImageCanBoot /\ (lmSquash[1].run = lmRun \/ "old image" \in lmLogged)
  /\ lmAt = "live" => lmStarted = UpgradeServices(lmSquash[1].parts, lmSystem)

(* The file with the arguments of the source is there until an attempt fails. *)
RootInv ==
  /\ lmAt \in {"boot entry", "reboot"} => lmFakeRoot
  /\ lmAt = "live" => lmFakeRoot \/ "failed" \in lmLogged
  /\ lmAt = "failed" => "failed" \in lmLogged
  /\ KernelGetsItsRoot

(* The first execution has no entry before its end.                           *)
EntryInv ==
  /\ lmRun = 1 /\ lmAt \in {"facts", "prepare", "generate", "boot entry", "stopped"} => ~lmEntry
  /\ lmAt = "reboot" => lmEntry
  /\ lmAt = "broken" => lmRun > 1

LiveInv ==
  LiveTypes /\ StepsInv /\ ImageInv /\ RootInv /\ EntryInv /\ LiveEndsWell

LEMMA MakesAre ==
  ASSUME NEW step \in LiveStepNames
  PROVE  /\ StepMakes(step) \in Seq(LiveParts \ {"tty1"})
         /\ ToSet(StepMakes(step)) \subseteq LiveParts \ {"tty1"}
<1>1. StepMakes(step) \in Seq(LiveParts \ {"tty1"})
  <2> DEFINE P == LiveParts \ {"tty1"}
  <2>1. /\ "upgrade.service" \in P /\ "upgrade-strace.service" \in P /\ "tty2" \in P
        /\ "console.service" \in P /\ "keys" \in P /\ "sshd" \in P
        /\ step \in {"fstab", "sysroot", "dbus", "root", "network"} => step \in P
    BY DEF LiveParts, UpgradeLinks, ConsoleLinks
  <2> HIDE DEF P
  <2>2. \A x, y \in P : <<>> \in Seq(P) /\ <<x>> \in Seq(P) /\ <<x, y>> \in Seq(P)
    OBVIOUS
  <2>3. CASE step = "services"
    BY <2>1, <2>2, <2>3 DEF StepMakes, P
  <2>4. CASE step = "console"
    BY <2>1, <2>2, <2>4 DEF StepMakes, P
  <2>5. CASE step = "sshd"
    BY <2>1, <2>2, <2>5 DEF StepMakes, P
  <2>6. CASE step \in {"issue", "fakeroot"}
    BY <2>1, <2>2, <2>6 DEF StepMakes, P
  <2>7. CASE step \in {"fstab", "sysroot", "dbus", "root", "network"}
    <3>1. StepMakes(step) = <<>> \/ StepMakes(step) = <<step>>
      BY <2>7 DEF StepMakes
    <3> QED BY <2>1, <2>2, <2>7, <3>1 DEF P
  <2> QED BY <2>3, <2>4, <2>5, <2>6, <2>7 DEF LiveStepNames
<1> QED BY <1>1 DEF ToSet

LEMMA FirstStays ==
  ASSUME NEW S, NEW s \in Seq(S), s # <<>>, NEW x \in S
  PROVE  Append(s, x) # <<>> /\ Append(s, x)[1] = s[1]
<1>1. Len(s) >= 1 /\ Append(s, x) \in Seq(S) /\ Len(Append(s, x)) = Len(s) + 1
  OBVIOUS
<1> QED BY <1>1

LEMMA UpToIs ==
  ASSUME NEW S, NEW s \in Seq(S), NEW n \in 0 .. Len(s)
  PROVE  /\ ToSet(SubSeq(s, 1, n)) \subseteq ToSet(s)
         /\ n = Len(s) => ToSet(SubSeq(s, 1, n)) = ToSet(s)
<1>1. /\ SubSeq(s, 1, n) \in Seq(S) /\ Len(SubSeq(s, 1, n)) = n
      /\ \A i \in 1 .. n : SubSeq(s, 1, n)[i] = s[i]
  OBVIOUS
<1> DEFINE first == SubSeq(s, 1, n)
<1>2. first \in Seq(S) /\ Len(first) = n /\ \A i \in 1 .. n : first[i] = s[i]
  BY <1>1
<1> HIDE DEF first
<1>3. ToSet(first) \subseteq ToSet(s)
  BY <1>2 DEF ToSet
<1>4. ASSUME n = Len(s) PROVE ToSet(s) \subseteq ToSet(first)
  BY <1>2, <1>4 DEF ToSet
<1> QED BY <1>3, <1>4 DEF first

LEMMA AfterIs ==
  ASSUME LiveTypes, NEW step \in LiveStepNames, NEW n \in 0 .. Len(StepMakes(step))
  PROVE  /\ AfterStep(step, n) \subseteq LiveParts
         /\ lmUserspace \ {"tty1"} \subseteq AfterStep(step, n)
         /\ "tty1" \in AfterStep(step, n) =>
              "tty1" \in lmUserspace /\ ~(step = "console" /\ lmSystem.hostTty1)
         /\ n = Len(StepMakes(step)) => ToSet(StepMakes(step)) \subseteq AfterStep(step, n)
<1> DEFINE made == StepMakes(step)
           T == ToSet(SubSeq(made, 1, n))
<1>1. made \in Seq(LiveParts \ {"tty1"}) /\ ToSet(made) \subseteq LiveParts \ {"tty1"}
  BY MakesAre
<1>2. T \subseteq ToSet(made) /\ (n = Len(made) => T = ToSet(made))
  BY <1>1, UpToIs
<1>3. AfterStep(step, n) = (lmUserspace \ StepRemoves(step)) \cup T
  BY DEF AfterStep
<1>4. lmUserspace \subseteq LiveParts
  BY DEF LiveTypes
<1> HIDE DEF made, T
<1>5. StepRemoves(step) \subseteq {"tty1"}
      /\ (step = "console" /\ lmSystem.hostTty1 => "tty1" \in StepRemoves(step))
  BY DEF StepRemoves
<1>6. n = Len(made) => ToSet(made) \subseteq AfterStep(step, n)
  BY <1>2, <1>3
<1> QED BY <1>1, <1>2, <1>3, <1>4, <1>5, <1>6 DEF made

(* What one step has made, another one leaves there.                          *)
LEMMA StaysMade ==
  ASSUME NEW step \in LiveStepNames, NEW before, NEW after, Made(step, before),
         before \ {"tty1"} \subseteq after, "tty1" \in after => "tty1" \in before
  PROVE  Made(step, after)
<1>1. ToSet(StepMakes(step)) \subseteq LiveParts \ {"tty1"}
  BY MakesAre
<1> QED BY <1>1 DEF Made

LEMMA ConfiguredAre ==
  LiveConfigured \subseteq LiveStepNames
<1>1. LiveSteps(lmSystem) \in Seq(LiveStepNames)
  BY StepsAre
<1> QED BY <1>1 DEF LiveConfigured, ToSet

LEMMA TypesStay ==
  ASSUME LiveTypes, StepsInv, LiveNext
  PROVE  LiveTypes'
<1>t. /\ lmSystem \in LiveSystems /\ lmRun \in Nat \ {0} /\ lmFaults \in Nat
      /\ lmUserspace \subseteq LiveParts /\ lmSquash \in Seq(LiveImages)
  BY DEF LiveTypes
<1>h. lmAt = "prepare" => Head(lmTodo) \in LiveStepNames
  BY HeadAndTail DEF StepsInv
<1>p. \A whole \in BOOLEAN : Packed(whole) \in LiveImages
  BY <1>t DEF Packed, LiveImages
<1>1. CASE PrepareStep
  <2>1. StepMakes(Head(lmTodo)) \in Seq(LiveParts \ {"tty1"})
    BY <1>1, <1>h, MakesAre DEF PrepareStep
  <2>2. Len(StepMakes(Head(lmTodo))) \in 0 .. Len(StepMakes(Head(lmTodo)))
    BY <2>1
  <2>3. AfterStep(Head(lmTodo), Len(StepMakes(Head(lmTodo)))) \subseteq LiveParts
    BY <1>1, <1>h, <2>2, AfterIs DEF PrepareStep
  <2> QED BY <1>1, <1>t, <2>3 DEF PrepareStep, LiveTypes
<1>2. CASE StepFails
  <2>1. StepMakes(Head(lmTodo)) \in Seq(LiveParts \ {"tty1"})
    BY <1>2, <1>h, MakesAre DEF StepFails
  <2>2. \A n \in 0 .. Len(StepMakes(Head(lmTodo))) : AfterStep(Head(lmTodo), n) \subseteq LiveParts
    BY <1>2, <1>h, AfterIs DEF StepFails
  <2>3. /\ 0 \in 0 .. Len(StepMakes(Head(lmTodo)))
        /\ 0 .. Len(StepMakes(Head(lmTodo))) - 1 \subseteq 0 .. Len(StepMakes(Head(lmTodo)))
    BY <2>1
  <2>4. lmUserspace' \subseteq LiveParts
    BY <1>2, <1>t, <2>2, <2>3, Zenon DEF StepFails
  <2>5. lmFaults' = lmFaults \/ lmFaults' = lmFaults + 1
    BY <1>2 DEF StepFails
  <2> QED BY <1>2, <1>t, <2>4, <2>5 DEF StepFails, LiveTypes
<1>3. CASE StepIsLogged
  <2> DEFINE n == IF Head(lmTodo) = "sshd" THEN 1 ELSE 0
  <2>1. StepMakes(Head(lmTodo)) \in Seq(LiveParts \ {"tty1"})
    BY <1>3, <1>h, MakesAre DEF StepIsLogged
  <2>2. n \in 0 .. Len(StepMakes(Head(lmTodo)))
    BY <2>1 DEF StepMakes
  <2>3. AfterStep(Head(lmTodo), n) \subseteq LiveParts
    BY <1>3, <1>h, <2>2, AfterIs DEF StepIsLogged
  <2> QED BY <1>3, <1>t, <2>3 DEF StepIsLogged, LiveTypes
<1>4. CASE GenerateImage \/ GenerateFails
  <2>1. lmSquash' \in Seq(LiveImages)
    <3>1. /\ <<>> \in Seq(LiveImages)
          /\ \A whole \in BOOLEAN : /\ <<Packed(whole)>> \in Seq(LiveImages)
                                    /\ Append(lmSquash, Packed(whole)) \in Seq(LiveImages)
      BY <1>t, <1>p
    <3> QED BY <1>4, <3>1, Zenon DEF GenerateImage, GenerateFails
  <2>2. /\ lmFaults' = lmFaults \/ lmFaults' = lmFaults + 1
        /\ UNCHANGED <<lmSystem, lmRun, lmUserspace>>
    BY <1>4 DEF GenerateImage, GenerateFails
  <2> QED BY <1>t, <2>1, <2>2 DEF LiveTypes
<1>5. CASE UpgradeAnew
  <2>1. FreshUserspace(lmSystem) \subseteq LiveParts
    BY DEF FreshUserspace, LiveParts
  <2>2. lmRun' \in Nat \ {0}
    BY <1>5, <1>t DEF UpgradeAnew
  <2> QED BY <1>5, <1>t, <2>1, <2>2 DEF UpgradeAnew, LiveTypes
<1>6. CASE RemoveLiveImage
  <2>1. /\ lmSquash' = <<>> \/ lmSquash' = lmSquash
        /\ lmFaults' = lmFaults \/ lmFaults' = lmFaults + 1
        /\ UNCHANGED <<lmSystem, lmRun, lmUserspace>>
    BY <1>6 DEF RemoveLiveImage
  <2>2. lmSquash' \in Seq(LiveImages)
    <3>1. <<>> \in Seq(LiveImages)
      OBVIOUS
    <3> QED BY <1>t, <2>1, <3>1
  <2> QED BY <1>t, <2>1, <2>2 DEF LiveTypes
<1>7. CASE \/ ScanLiveConfig \/ AddLiveEntry \/ AddLiveEntryFails \/ ResumePreparation
           \/ BootLive \/ BootAfterStop \/ DoUpgrade \/ DoUpgradeFails \/ RebootByHand
  <2>1. UNCHANGED <<lmSystem, lmRun, lmUserspace, lmSquash>>
    BY <1>7 DEF ScanLiveConfig, AddLiveEntry, AddLiveEntryFails, ResumePreparation, BootLive,
       BootAfterStop, DoUpgrade, DoUpgradeFails, StartsDoUpgrade, RebootByHand, lmDisk
  <2>2. lmFaults' = lmFaults \/ lmFaults' = lmFaults + 1
    BY <1>7, Zenon DEF ScanLiveConfig, AddLiveEntry, AddLiveEntryFails, ResumePreparation, BootLive,
       BootAfterStop, DoUpgrade, DoUpgradeFails, RebootByHand
  <2> QED BY <1>t, <2>1, <2>2 DEF LiveTypes
<1> QED BY <1>1, <1>2, <1>3, <1>4, <1>5, <1>6, <1>7 DEF LiveNext

(* A step that was configured is done before the image is made.               *)
LEMMA StepsStay ==
  ASSUME LiveTypes, StepsInv, LiveNext
  PROVE  StepsInv'
<1>m. ASSUME UNCHANGED lmSystem
      PROVE  /\ LiveConfigured' = LiveConfigured /\ \A step : StepMakes(step)' = StepMakes(step)
             /\ LiveSteps(lmSystem)' = LiveSteps(lmSystem)
  BY <1>m DEF LiveConfigured, LiveSteps, StepMakes
<1>h. ASSUME lmAt = "prepare"
      PROVE  /\ Head(lmTodo) \in LiveStepNames /\ Tail(lmTodo) \in Seq(LiveStepNames)
             /\ ToSet(lmTodo) = {Head(lmTodo)} \cup ToSet(Tail(lmTodo))
  BY <1>h, HeadAndTail DEF StepsInv
<1>d. ASSUME NEW step, step = Head(lmTodo), lmAt = "prepare", ToNextStep,
             UNCHANGED lmSystem, Done(step)',
             \A other \in LiveConfigured : Done(other) => Done(other)'
      PROVE  StepsInv'
  <2>1. \A other \in LiveConfigured : other \in ToSet(Tail(lmTodo)) \/ Done(other)'
    BY <1>d, <1>h DEF StepsInv
  <2>2. Tail(lmTodo) = <<>> => ToSet(Tail(lmTodo)) = {}
    BY DEF ToSet
  <2>3. LiveConfigured' = LiveConfigured
    BY <1>d, <1>m
  <2>4. lmTodo' = Tail(lmTodo) /\ lmAt' = IF Tail(lmTodo) = <<>> THEN "generate" ELSE "prepare"
    BY <1>d DEF ToNextStep
  <2>5. CASE Tail(lmTodo) = <<>>
    BY <2>1, <2>2, <2>3, <2>4, <2>5 DEF StepsInv
  <2>6. CASE Tail(lmTodo) # <<>>
    <3>1. lmAt' = "prepare" /\ lmTodo' \in Seq(LiveStepNames) /\ lmTodo' # <<>>
      BY <1>d, <1>h, <2>4, <2>6
    <3>2. ToSet(Tail(lmTodo)) = ToSet(lmTodo)'
      BY <2>4
    <3> QED BY <2>1, <2>3, <3>1, <3>2 DEF StepsInv
  <2> QED BY <2>5, <2>6
<1>1. CASE PrepareStep
  <2>0. PICK step : step = Head(lmTodo)
    OBVIOUS
  <2> DEFINE n == Len(StepMakes(step))
  <2>1. step \in LiveStepNames /\ n \in 0 .. Len(StepMakes(step))
    <3>1. step \in LiveStepNames
      BY <1>1, <1>h, <2>0 DEF PrepareStep
    <3> QED BY <3>1, MakesAre
  <2>2. /\ lmUserspace' = AfterStep(step, n) /\ lmFakeRoot' = (lmFakeRoot \/ step = "fakeroot")
        /\ UNCHANGED <<lmSystem, lmLogged>> /\ ToNextStep /\ lmAt = "prepare"
    BY <1>1, <2>0 DEF PrepareStep
  <2>3. /\ lmUserspace \ {"tty1"} \subseteq lmUserspace'
        /\ "tty1" \in lmUserspace' => "tty1" \in lmUserspace
                                      /\ ~(step = "console" /\ lmSystem.hostTty1)
        /\ ToSet(StepMakes(step)) \subseteq lmUserspace'
    BY <2>1, <2>2, AfterIs
  <2>4. Done(step)'
    BY <1>m, <2>2, <2>3 DEF Done, Made
  <2>5. ASSUME NEW other \in LiveConfigured, Done(other) PROVE Done(other)'
    <3>1. Made(other, lmUserspace')
      BY <2>3, <2>5, ConfiguredAre, StaysMade DEF Done
    <3> QED BY <1>m, <2>2, <2>5, <3>1 DEF Done, Made
  <2> HIDE DEF n
  <2> QED BY <1>d, <2>0, <2>2, <2>4, <2>5
<1>2. CASE StepIsLogged
  <2>0. PICK step : step = Head(lmTodo)
    OBVIOUS
  <2> DEFINE n == IF step = "sshd" THEN 1 ELSE 0
  <2>1. step \in LiveStepNames /\ step \in {"issue", "sshd"}
    BY <1>2, <1>h, <2>0 DEF StepIsLogged
  <2>2. n \in 0 .. Len(StepMakes(step))
    BY <2>1, MakesAre DEF StepMakes
  <2>3. /\ lmUserspace' = AfterStep(step, n) /\ lmLogged' = lmLogged \cup {step}
        /\ UNCHANGED <<lmSystem, lmFakeRoot>> /\ ToNextStep /\ lmAt = "prepare"
    BY <1>2, <2>0 DEF StepIsLogged
  <2>4. /\ lmUserspace \ {"tty1"} \subseteq lmUserspace'
        /\ "tty1" \in lmUserspace' => "tty1" \in lmUserspace
    BY <2>1, <2>2, <2>3, AfterIs
  <2>5. ToSet(StepMakes(step)) \subseteq lmUserspace' \cup (lmLogged' \cap {"sshd"})
    <3>1. CASE step = "issue"
      BY <3>1 DEF StepMakes, ToSet
    <3>2. CASE step = "sshd"
      <4>1. StepMakes(step) = <<"keys", "sshd">>
        BY <3>2 DEF StepMakes
      <4>2. ToSet(StepMakes(step)) = {"keys", "sshd"}
        BY <4>1 DEF ToSet
      <4>3. /\ SubSeq(StepMakes(step), 1, 1) \in Seq(LiveParts)
            /\ Len(SubSeq(StepMakes(step), 1, 1)) = 1
            /\ SubSeq(StepMakes(step), 1, 1)[1] = "keys"
        BY <4>1 DEF LiveParts
      <4>4. "keys" \in ToSet(SubSeq(StepMakes(step), 1, n))
        <5> DEFINE q == SubSeq(StepMakes(step), 1, 1)
        <5>1. q \in Seq(LiveParts) /\ Len(q) = 1 /\ q[1] = "keys"
          BY <4>3
        <5> HIDE DEF q
        <5>2. 1 \in 1 .. Len(q)
          BY <5>1
        <5>3. q[1] \in ToSet(q)
          BY <5>1, <5>2, ElementIn
        <5>4. n = 1
          BY <3>2
        <5> QED BY <5>1, <5>3, <5>4 DEF q
      <4>5. "keys" \in lmUserspace'
        BY <2>3, <4>4 DEF AfterStep
      <4> QED BY <2>3, <3>2, <4>2, <4>5
    <3> QED BY <2>1, <3>1, <3>2
  <2>6. Done(step)'
    BY <1>m, <2>1, <2>3, <2>5 DEF Done, Made
  <2>7. ASSUME NEW other \in LiveConfigured, Done(other) PROVE Done(other)'
    <3>1. Made(other, lmUserspace')
      BY <2>4, <2>7, ConfiguredAre, StaysMade DEF Done
    <3> QED BY <1>m, <2>3, <2>7, <3>1 DEF Done, Made
  <2> HIDE DEF n
  <2> QED BY <1>d, <2>0, <2>3, <2>6, <2>7
<1>3. CASE ScanLiveConfig \/ ResumePreparation
  <2>1. lmTodo' = LiveSteps(lmSystem) /\ UNCHANGED lmSystem /\ lmAt' # "generate"
    BY <1>3 DEF ScanLiveConfig, ResumePreparation
  <2>2. LiveConfigured' = ToSet(lmTodo')
    BY <1>m, <2>1 DEF LiveConfigured
  <2>3. lmTodo' \in Seq(LiveStepNames) /\ lmTodo' # <<>>
    BY <2>1, StepsAre
  <2> QED BY <2>1, <2>2, <2>3 DEF StepsInv
<1>4. CASE \/ StepFails \/ GenerateImage \/ GenerateFails \/ AddLiveEntry \/ AddLiveEntryFails
           \/ UpgradeAnew \/ BootLive \/ BootAfterStop \/ DoUpgrade \/ DoUpgradeFails
           \/ RebootByHand \/ RemoveLiveImage
  <2>1. lmAt' \notin {"prepare", "generate"}
    BY <1>4 DEF StepFails, GenerateImage, GenerateFails, AddLiveEntry, AddLiveEntryFails, UpgradeAnew,
       BootLive, BootAfterStop, DoUpgrade, DoUpgradeFails, RebootByHand, RemoveLiveImage
  <2> QED BY <2>1 DEF StepsInv
<1> QED BY <1>1, <1>2, <1>3, <1>4 DEF LiveNext

LEMMA ImageStays ==
  ASSUME LiveTypes, StepsInv, ImageInv, LiveNext
  PROVE  ImageInv'
<1>t. lmRun \in Nat \ {0} /\ lmUserspace \subseteq LiveParts /\ lmSquash \in Seq(LiveImages)
  BY DEF LiveTypes
<1>m. ASSUME UNCHANGED lmSystem
      PROVE  LiveConfigured' = LiveConfigured /\ \A step : StepMakes(step)' = StepMakes(step)
  BY <1>m DEF LiveConfigured, LiveSteps, StepMakes
<1>l. /\ UNCHANGED lmSystem /\ lmLogged \subseteq lmLogged'
  BY Zenon DEF LiveNext, ScanLiveConfig, PrepareStep, StepFails, StepIsLogged, GenerateImage,
     GenerateFails, AddLiveEntry, AddLiveEntryFails, ResumePreparation, UpgradeAnew, BootLive,
     BootAfterStop, DoUpgrade, DoUpgradeFails, StartsDoUpgrade, RebootByHand, RemoveLiveImage
<1>c. ASSUME NEW parts, parts = lmSquash'[1].parts,
             \A step \in LiveConfigured : Made(step, parts)
      PROVE  (\A step \in LiveConfigured : Made(step, lmSquash[1].parts))'
  BY <1>c, <1>l, <1>m DEF Made
<1>u. ASSUME UNCHANGED lmSquash, ImageCanBoot
      PROVE  (\A step \in LiveConfigured : Made(step, lmSquash[1].parts))'
  <2>1. PICK parts : parts = lmSquash[1].parts
    OBVIOUS
  <2>2. \A step \in LiveConfigured : Made(step, parts)
    BY <1>u, <2>1 DEF ImageInv
  <2> QED BY <1>c, <1>u, <2>1, <2>2
<1>1. CASE GenerateImage
  <2>1. CASE lmSquash' = <<Packed(TRUE)>>
    <3>1. lmSquash' # <<>> /\ lmSquash'[1] = Packed(TRUE)
      BY <2>1
    <3>2. PICK parts : parts = lmUserspace
      OBVIOUS
    <3>3. lmSquash'[1].whole /\ lmSquash'[1].parts = parts /\ lmSquash'[1].run = lmRun
      BY <3>1, <3>2 DEF Packed
    <3>4. \A step \in LiveConfigured : Made(step, parts)
      BY <1>1, <3>2 DEF GenerateImage, StepsInv, Done
    <3>5. (\A step \in LiveConfigured : Made(step, lmSquash[1].parts))'
      BY <1>c, <3>3, <3>4
    <3>6. lmAt' = "boot entry" /\ UNCHANGED lmRun
      BY <1>1 DEF GenerateImage
    <3> QED BY <3>1, <3>3, <3>5, <3>6 DEF ImageInv, ImageCanBoot
  <2>2. CASE /\ lmSquash # <<>> /\ lmSquash[1].whole /\ lmSquash' = Append(lmSquash, Packed(TRUE))
             /\ lmLogged' = lmLogged \cup {"old image"}
    <3>1. Packed(TRUE) \in LiveImages
      BY <1>t DEF Packed, LiveImages
    <3>2. lmSquash' # <<>> /\ lmSquash'[1] = lmSquash[1]
      BY <1>t, <2>2, <3>1, FirstStays
    <3>3. PICK parts : parts = lmSquash[1].parts
      OBVIOUS
    <3>4. \A step \in LiveConfigured : Made(step, parts)
      BY <2>2, <3>3 DEF ImageInv, ImageCanBoot
    <3>5. (\A step \in LiveConfigured : Made(step, lmSquash[1].parts))'
      BY <1>c, <3>2, <3>3, <3>4
    <3>6. lmAt' = "boot entry" /\ "old image" \in lmLogged'
      BY <1>1, <2>2 DEF GenerateImage
    <3> QED BY <2>2, <3>2, <3>5, <3>6 DEF ImageInv, ImageCanBoot
  <2> QED BY <1>1, <2>1, <2>2 DEF GenerateImage
<1>2. CASE GenerateFails
  <2>1. lmSquash' = <<>> \/ lmSquash' = <<Packed(FALSE)>>
    BY <1>2 DEF GenerateFails
  <2>2. ~ImageCanBoot'
    BY <2>1 DEF ImageCanBoot, Packed
  <2> QED BY <1>2, <2>2 DEF GenerateFails, ImageInv
<1>3. CASE RemoveLiveImage
  <2>1. lmAt' = "done" /\ (lmSquash' = <<>> \/ lmSquash' = lmSquash)
    BY <1>3 DEF RemoveLiveImage
  <2>2. CASE lmSquash' = <<>>
    BY <2>1, <2>2 DEF ImageInv, ImageCanBoot
  <2>3. CASE lmSquash' = lmSquash
    BY <1>u, <2>1, <2>3 DEF ImageInv, ImageCanBoot
  <2> QED BY <2>1, <2>2, <2>3
<1>4. CASE \/ ScanLiveConfig \/ PrepareStep \/ StepFails \/ StepIsLogged \/ AddLiveEntryFails
           \/ ResumePreparation \/ UpgradeAnew \/ BootAfterStop
  <2>1. /\ UNCHANGED lmSquash
        /\ lmAt' \notin {"boot entry", "reboot", "live", "failed", "waits"}
    BY <1>4 DEF ScanLiveConfig, PrepareStep, StepFails, StepIsLogged, AddLiveEntryFails,
       ResumePreparation, UpgradeAnew, BootAfterStop, ToNextStep, lmDisk
  <2>2. ImageCanBoot' => ImageCanBoot
    BY <2>1 DEF ImageCanBoot
  <2> QED BY <1>u, <2>1, <2>2 DEF ImageInv
<1>5. CASE \/ AddLiveEntry \/ BootLive \/ DoUpgrade \/ DoUpgradeFails \/ RebootByHand
  <2>1. /\ UNCHANGED <<lmSystem, lmSquash, lmRun>>
        /\ lmAt' = "target" \/ lmAt \in {"boot entry", "reboot", "live", "failed", "waits"}
    BY <1>5 DEF AddLiveEntry, BootLive, DoUpgrade, DoUpgradeFails, StartsDoUpgrade, RebootByHand,
       lmDisk
  <2>2. ImageCanBoot' = ImageCanBoot
    BY <2>1 DEF ImageCanBoot
  <2>3. lmAt' = "live" => lmStarted' = UpgradeServices(lmSquash[1].parts, lmSystem)
    BY <1>5 DEF AddLiveEntry, BootLive, DoUpgrade, DoUpgradeFails, RebootByHand
  <2>4. UpgradeServices(lmSquash[1].parts, lmSystem)' = UpgradeServices(lmSquash[1].parts, lmSystem)
    BY <2>1 DEF UpgradeServices, LivePackages
  <2>5. ImageCanBoot' => (\A step \in LiveConfigured : Made(step, lmSquash[1].parts))'
    BY <1>u, <2>1, <2>2
  <2>6. lmAt' # "target" => ImageCanBoot' /\ (lmSquash'[1].run = lmRun' \/ "old image" \in lmLogged')
    BY <1>l, <2>1, <2>2 DEF ImageInv
  <2> QED BY <2>3, <2>4, <2>5, <2>6 DEF ImageInv
<1> QED BY <1>1, <1>2, <1>3, <1>4, <1>5 DEF LiveNext

LEMMA RootStays ==
  ASSUME StepsInv, RootInv, LiveNext
  PROVE  RootInv'
<1>1. lmAt = "generate" => lmFakeRoot
  <2>1. "fakeroot" \in LiveConfigured
    BY StepsAre DEF LiveConfigured
  <2> QED BY <2>1 DEF StepsInv, Done
<1>2. CASE DoUpgrade \/ DoUpgradeFails
  <2>1. lmAt \in {"live", "failed"} /\ (lmFakeRoot \/ "failed" \in lmLogged)
    BY <1>2 DEF DoUpgrade, DoUpgradeFails, StartsDoUpgrade, RootInv
  <2>2. lmKernelRoot' = "missing" => lmKernelRoot = "missing" \/ ~lmFakeRoot
    BY <1>2 DEF DoUpgrade, DoUpgradeFails, Transacts
  <2>3. /\ lmAt' \notin {"boot entry", "reboot", "live"}
        /\ lmLogged \subseteq lmLogged'
        /\ lmAt' = "failed" => "failed" \in lmLogged'
    BY <1>2 DEF DoUpgrade, DoUpgradeFails
  <2> QED BY <2>1, <2>2, <2>3 DEF RootInv, KernelGetsItsRoot
<1>3. CASE GenerateImage \/ AddLiveEntry
  BY <1>1, <1>3 DEF GenerateImage, AddLiveEntry, RootInv, KernelGetsItsRoot
<1>4. CASE \/ ScanLiveConfig \/ PrepareStep \/ StepFails \/ StepIsLogged \/ GenerateFails
           \/ AddLiveEntryFails \/ ResumePreparation \/ UpgradeAnew \/ BootAfterStop
           \/ RebootByHand \/ RemoveLiveImage
  <2>1. /\ UNCHANGED lmKernelRoot /\ lmLogged \subseteq lmLogged'
        /\ lmAt' \notin {"boot entry", "reboot", "live", "failed"}
    BY <1>4 DEF ScanLiveConfig, PrepareStep, StepFails, StepIsLogged, GenerateFails, RebootByHand,
       AddLiveEntryFails, ResumePreparation, UpgradeAnew, BootAfterStop, RemoveLiveImage,
       ToNextStep, lmDisk
  <2> QED BY <2>1 DEF RootInv, KernelGetsItsRoot
<1>5. CASE BootLive
  BY <1>5 DEF BootLive, RootInv, KernelGetsItsRoot, lmDisk
<1> QED BY <1>2, <1>3, <1>4, <1>5 DEF LiveNext

LEMMA EntryStays ==
  ASSUME LiveTypes, ImageInv, EntryInv, LiveNext
  PROVE  EntryInv'
<1>1. lmRun \in Nat \ {0}
  BY DEF LiveTypes
<1>2. CASE \/ ScanLiveConfig \/ PrepareStep \/ StepFails \/ StepIsLogged \/ GenerateImage
           \/ GenerateFails \/ AddLiveEntryFails \/ ResumePreparation
  <2>1. /\ lmRun' = lmRun /\ lmEntry' \in {lmEntry, FALSE}
        /\ lmAt \in {"facts", "prepare", "generate", "boot entry", "stopped"}
        /\ lmAt' \notin {"reboot", "broken"}
    BY <1>2 DEF ScanLiveConfig, PrepareStep, StepFails, StepIsLogged, GenerateImage, GenerateFails,
       AddLiveEntryFails, ResumePreparation, ToNextStep, lmDisk
  <2>2. ASSUME ~lmEntry PROVE ~lmEntry'
    <3>1. CASE lmEntry' = lmEntry
      BY <2>2, <3>1, Zenon
    <3>2. CASE lmEntry' = FALSE
      BY <3>2
    <3> QED BY <2>1, <3>1, <3>2
  <2> QED BY <2>1, <2>2 DEF EntryInv
<1>3. CASE AddLiveEntry
  BY <1>3 DEF AddLiveEntry, EntryInv
<1>4. CASE UpgradeAnew
  <2>1. lmRun' # 1
    BY <1>1, <1>4 DEF UpgradeAnew
  <2>2. lmAt' = "facts"
    BY <1>4 DEF UpgradeAnew
  <2> QED BY <2>1, <2>2 DEF EntryInv
<1>5. CASE BootAfterStop
  <2>1. lmRun # 1
    BY <1>5 DEF BootAfterStop, EntryInv
  <2>2. lmRun > 1
    BY <1>1, <2>1
  <2>3. lmAt' \in {"live, unprepared", "broken"} /\ lmRun' = lmRun
    BY <1>5 DEF BootAfterStop
  <2> QED BY <2>2, <2>3 DEF EntryInv
<1>6. CASE BootLive \/ DoUpgrade \/ DoUpgradeFails \/ RebootByHand \/ RemoveLiveImage
  <2>1. lmAt' \in {"live", "failed", "waits", "target", "done"}
    BY <1>6 DEF BootLive, DoUpgrade, DoUpgradeFails, RebootByHand, RemoveLiveImage
  <2> QED BY <2>1 DEF EntryInv
<1> QED BY <1>2, <1>3, <1>4, <1>5, <1>6 DEF LiveNext

LEMMA EndStays ==
  ASSUME LiveTypes, LiveEndsWell, LiveNext
  PROVE  LiveEndsWell'
<1>1. lmFaults \in Nat /\ lmFaults + 1 # 0
  BY DEF LiveTypes
<1>2. CASE DoUpgradeFails
  <2>1. RootIsMounted(lmSystem)' = RootIsMounted(lmSystem)
    BY <1>2 DEF DoUpgradeFails, StartsDoUpgrade, RootIsMounted
  <2> QED BY <1>1, <1>2, <2>1 DEF DoUpgradeFails, LiveEndsWell
<1>3. CASE RemoveLiveImage
  BY <1>3 DEF RemoveLiveImage, LiveEndsWell
<1>4. CASE ~DoUpgradeFails /\ ~RemoveLiveImage
  <2>1. lmAt' \notin {"failed", "done"}
    BY <1>4 DEF LiveNext, ScanLiveConfig, PrepareStep, StepFails, StepIsLogged, GenerateImage,
       GenerateFails, AddLiveEntry, AddLiveEntryFails, ResumePreparation, UpgradeAnew, BootLive,
       BootAfterStop, DoUpgrade, RebootByHand, ToNextStep
  <2> QED BY <2>1 DEF LiveEndsWell
<1> QED BY <1>2, <1>3, <1>4

LEMMA LiveInductive ==
  LiveSpec => []LiveInv
<1>1. LiveInit => LiveInv
  <2> SUFFICES ASSUME LiveInit PROVE LiveInv
    OBVIOUS
  <2>1. LiveTypes
    <3>1. FreshUserspace(lmSystem) \subseteq LiveParts
      BY DEF FreshUserspace, LiveParts
    <3>2. <<>> \in Seq(LiveImages)
      OBVIOUS
    <3> QED BY <3>1, <3>2 DEF LiveInit, LiveTypes
  <2>2. StepsInv /\ RootInv /\ EntryInv /\ LiveEndsWell
    BY DEF LiveInit, StepsInv, RootInv, KernelGetsItsRoot, EntryInv, LiveEndsWell
  <2>3. ImageInv
    BY DEF LiveInit, ImageInv, ImageCanBoot
  <2> QED BY <2>1, <2>2, <2>3 DEF LiveInv
<1>2. LiveInv /\ [LiveNext]_lmVars => LiveInv'
  <2>1. ASSUME LiveInv, LiveNext PROVE LiveInv'
    BY <2>1, TypesStay, StepsStay, ImageStays, RootStays, EntryStays, EndStays DEF LiveInv
  <2>2. ASSUME LiveInv, UNCHANGED lmVars PROVE LiveInv'
    <3>1. /\ UNCHANGED <<lmSystem, lmAt, lmTodo, lmRun, lmUserspace, lmSquash, lmFakeRoot, lmEntry>>
          /\ UNCHANGED <<lmStarted, lmKernelRoot, lmFaults, lmLogged>>
      BY <2>2 DEF lmVars
    <3>2. LiveConfigured' = LiveConfigured /\ \A step : StepMakes(step)' = StepMakes(step)
      BY <3>1 DEF LiveConfigured, LiveSteps, StepMakes
    <3>3. LiveTypes'
      BY <2>2, <3>1 DEF LiveInv, LiveTypes
    <3>4. StepsInv'
      BY <2>2, <3>1, <3>2 DEF LiveInv, StepsInv, Done, Made
    <3>5. ImageInv'
      <4>1. ImageCanBoot' = ImageCanBoot
        BY <3>1 DEF ImageCanBoot
      <4>2. UpgradeServices(lmSquash[1].parts, lmSystem)' = UpgradeServices(lmSquash[1].parts, lmSystem)
        BY <3>1 DEF UpgradeServices, LivePackages
      <4> QED BY <2>2, <3>1, <3>2, <4>1, <4>2 DEF LiveInv, ImageInv, Made
    <3>6. RootInv' /\ EntryInv'
      BY <2>2, <3>1 DEF LiveInv, RootInv, KernelGetsItsRoot, EntryInv
    <3>7. LiveEndsWell'
      BY <2>2, <3>1 DEF LiveInv, LiveEndsWell, RootIsMounted
    <3> QED BY <3>3, <3>4, <3>5, <3>6, <3>7 DEF LiveInv
  <2> QED BY <2>1, <2>2
<1> QED BY <1>1, <1>2, PTL DEF LiveSpec

(* What the steps have made together is what the configuration asks for.      *)
LEMMA PartsAreConfigured ==
  ASSUME lmSystem \in LiveSystems, NEW parts,
         \A step \in LiveConfigured : Made(step, parts)
  PROVE  ConfiguredParts(lmSystem) \subseteq
           parts \cup (lmLogged \cap {"sshd"})
             \cup IfAsked(lmSystem.passwd = "missing", {"root"})
             \cup IfAsked(lmSystem.target = 10, {"network"})
<1> DEFINE held == parts \cup (lmLogged \cap {"sshd"})
<1>1. ASSUME NEW step \in LiveConfigured PROVE ToSet(StepMakes(step)) \subseteq held
  BY <1>1 DEF Made
<1>2. /\ {"services", "console", "fstab", "sysroot", "dbus"} \subseteq LiveConfigured
      /\ lmSystem.ssh => "sshd" \in LiveConfigured
      /\ lmSystem.rootLogin => "root" \in LiveConfigured
      /\ lmSystem.network => "network" \in LiveConfigured
  BY StepsAre DEF LiveConfigured
<1>3. \A x, y : ToSet(<<x, y>>) = {x, y} /\ ToSet(<<x>>) = {x}
  BY DEF ToSet
<1>4. /\ ToSet(StepMakes("services")) = UpgradeLinks
      /\ ToSet(StepMakes("console")) = ConsoleLinks
      /\ ToSet(StepMakes("sshd")) = {"keys", "sshd"}
  BY <1>3 DEF StepMakes, UpgradeLinks, ConsoleLinks
<1>5. ASSUME NEW step \in {"fstab", "sysroot", "dbus"}
      PROVE  ToSet(StepMakes(step)) = {step}
  BY <1>3 DEF StepMakes
<1>6. lmSystem.passwd # "missing" => ToSet(StepMakes("root")) = {"root"}
  BY <1>3 DEF StepMakes
<1>7. lmSystem.target # 10 => ToSet(StepMakes("network")) = {"network"}
  BY <1>3 DEF StepMakes
<1> HIDE DEF held
<1>8. UpgradeLinks \cup ConsoleLinks \cup {"fstab", "sysroot", "dbus"} \subseteq held
  BY <1>1, <1>2, <1>4, <1>5
<1>9. /\ lmSystem.ssh => {"sshd", "keys"} \subseteq held
      /\ lmSystem.rootLogin /\ lmSystem.passwd # "missing" => "root" \in held
      /\ lmSystem.network /\ lmSystem.target # 10 => "network" \in held
  BY <1>1, <1>2, <1>4, <1>6, <1>7
<1>10. LiveParts \ {"tty1", "sshd", "keys", "root", "network"}
         \subseteq UpgradeLinks \cup ConsoleLinks \cup {"fstab", "sysroot", "dbus"}
  BY DEF LiveParts
<1> QED BY <1>8, <1>9, <1>10 DEF ConfiguredParts, IfAsked, held

(* LiveUpgradesThePrepared, for all configurations, sources and numbers of    *)
(* executions, attempts and faults.                                           *)
THEOREM LiveModeUpgrades ==
  LiveSpec => []LiveUpgradesThePrepared
<1>1. LiveInv => LiveUpgradesThePrepared
  <2> SUFFICES ASSUME LiveInv PROVE LiveUpgradesThePrepared
    OBVIOUS
  <2>1. ASSUME ImageCanBoot, NEW parts, parts = lmSquash[1].parts
        PROVE  ConfiguredParts(lmSystem) \subseteq
                 parts \cup (lmLogged \cap {"sshd"})
                   \cup IfAsked(lmSystem.passwd = "missing", {"root"})
                   \cup IfAsked(lmSystem.target = 10, {"network"})
    <3>1. lmSystem \in LiveSystems /\ \A step \in LiveConfigured : Made(step, parts)
      BY <2>1 DEF LiveInv, ImageInv, LiveTypes
    <3> QED BY <3>1, PartsAreConfigured
  <2>2. {"services", "console"} \subseteq LiveConfigured
    BY StepsAre DEF LiveConfigured
  <2>3. ImageIsOfThisRun
    <3> SUFFICES ASSUME lmAt \in {"live", "waits"} PROVE ImageIsOfThisRun
      BY DEF ImageIsOfThisRun
    <3>1. ImageCanBoot /\ (lmSquash[1].run = lmRun \/ "old image" \in lmLogged)
      BY DEF LiveInv, ImageInv
    <3>2. "tty1" \in lmSquash[1].parts => ~lmSystem.hostTty1
      BY <2>2, <3>1 DEF LiveInv, ImageInv, Made
    <3> QED BY <2>1, <3>1, <3>2 DEF ImageIsOfThisRun
  <2>4. OneServiceUpgrades
    <3> SUFFICES ASSUME lmAt = "live" PROVE OneServiceUpgrades
      BY DEF OneServiceUpgrades
    <3>1. ImageCanBoot /\ lmStarted = UpgradeServices(lmSquash[1].parts, lmSystem)
      BY DEF LiveInv, ImageInv
    <3>2. ToSet(StepMakes("services")) \subseteq lmSquash[1].parts \cup {"sshd"}
      BY <2>2, <3>1 DEF LiveInv, ImageInv, Made
    <3>3. ToSet(StepMakes("services")) = UpgradeLinks
      BY DEF StepMakes, ToSet, UpgradeLinks
    <3>4. UpgradeLinks \subseteq lmSquash[1].parts
      BY <3>2, <3>3 DEF UpgradeLinks
    <3>5. lmSystem.strace \in BOOLEAN /\ lmSystem.autostart \in BOOLEAN
      BY LiveAssumption DEF LiveInv, LiveTypes, IsLiveSystem
    <3>6. lmStarted = {u \in UpgradeLinks :
                         lmSystem.autostart /\ (lmSystem.strace <=> u = "upgrade-strace.service")}
      BY <3>1, <3>4, <3>5 DEF UpgradeServices, UpgradeLinks, LivePackages, ProgramOf
    <3> QED BY <3>5, <3>6 DEF OneServiceUpgrades, UpgradeLinks
  <2>5. KernelGetsItsRoot /\ LiveBootWorks /\ LiveEndsWell
    BY DEF LiveInv, RootInv, EntryInv, ImageInv, LiveBootWorks
  <2> QED BY <2>3, <2>4, <2>5 DEF LiveUpgradesThePrepared
<1> QED BY <1>1, LiveInductive, PTL

-----------------------------------------------------------------------------
(* The boot order.                                                         *)

Has(number, loader) == number \in DOMAIN ebEntries /\ ebEntries[number] = loader
OwnLoaders == {"source", "upgrade"}

BootTypes ==
  /\ ebSystem \in BootSystems /\ ebErrors \in Nat /\ ebPrepared \in Nat
  /\ DOMAIN ebEntries \subseteq Numbers /\ ebEntries \in [DOMAIN ebEntries -> Loaders]
  /\ ebOrder \in Seq(Numbers) /\ ebNext \in Numbers \cup {NoNumber} /\ ebCurrent \in Numbers

(* Only ARM has the upgrade's entry, and one; what is not from the machine is *)
(* the upgrade's or the target's, one of each, so that a number is free for   *)
(* the one that is not there; nothing of others is removed.                   *)
EntriesInv ==
  /\ \A m, n \in Numbers : Has(m, "upgrade") /\ Has(n, "upgrade") => ebSystem.arm /\ m = n
  /\ \A m, n \in DOMAIN ebEntries \ DOMAIN ebSystem.entries :
       /\ ebEntries[n] \in {"upgrade", "target"}
       /\ ebEntries[m] = ebEntries[n] => m = n
  /\ \A n \in DOMAIN ebSystem.entries :
       ebSystem.entries[n] = "other" => Has(n, "other")

(* The message of the workaround: the upgrade's entry, and the one it takes   *)
(* for the original, the source's as long as nothing has failed.              *)
Recorded ==
  /\ Has(ebInfo.upgrade, "upgrade")
  /\ \E loader \in OwnLoaders : Has(ebInfo.original, loader)
  /\ ebErrors = 0 => Has(ebInfo.original, "source")

(* Before the transaction the source has booted, by its own entry if nothing  *)
(* has failed.                                                                *)
SourceInv ==
  ebAt \in {"source", "interim", "reboot", "initram"} =>
    /\ \E loader \in OwnLoaders : Has(ebCurrent, loader)
    /\ "source" \in ebDirs /\ "target" \notin ebDirs /\ ("upgrade" \in ebDirs => ebSystem.arm)
    /\ ebErrors = 0 /\ ebAt # "initram" => Has(ebCurrent, "source")
    /\ ebErrors = 0 /\ ebAt = "source" => ebPrepared = 0 /\ ebNext = ebSystem.next

(* What the actors of InterimPreparation that have run leave, in any order.   *)
InterimInv ==
  /\ ebAt = "reboot" => ebTodo = {}
  /\ ebAt = "interim" /\ "workaround" \in ebTodo => ebSystem.arm /\ "entry" \in ebTodo
  /\ ebAt \in {"interim", "reboot"} =>
       /\ ebSystem.arm /\ "workaround" \notin ebTodo =>
            Recorded /\ ebNext = ebInfo.upgrade /\ "upgrade" \in ebDirs
       /\ "entry" \notin ebTodo => ebBls = IF ebSystem.arm THEN {"upgrade"} ELSE {"system"}
       /\ ~ebSystem.arm /\ ebErrors = 0 /\ ebSystem.next = NoNumber =>
            ebNext = IF "fix" \in ebTodo THEN NoNumber ELSE ebCurrent
  /\ ebAt = "initram" =>
       ebNext = NoNumber /\ (ebSystem.arm => Recorded /\ ebBls = {"upgrade"})

(* The installed system is due: by BootNext, or by the entry that is booted   *)
(* now, which the last actor makes the next one.                              *)
SourceIsDue ==
  /\ "source" \in ebDirs
  /\ Has(ebNext, "source") \/ (ebNext = NoNumber /\ Has(ebCurrent, "source"))
TargetIsDue == "target" \in ebDirs /\ Has(ebNext, "target")
SeenIsOwn ==
  /\ ebCurrent \in DOMAIN ebSeen => ebSeen[ebCurrent] \in OwnLoaders
  /\ ~ebSystem.arm => ebCurrent \in DOMAIN ebSeen

TransactionInv ==
  /\ ebAt = "transaction" =>
       /\ ebCurrent \in DOMAIN ebEntries => ebEntries[ebCurrent] \in OwnLoaders
       /\ ~ebSystem.arm => ebCurrent \in DOMAIN ebEntries
       /\ ebErrors = 0 => SourceIsDue
  /\ ebAt = "applications" =>
       /\ ebSystem.conversion /\ SeenIsOwn /\ "target" \in ebDirs
       /\ ebTodo \in {{"add"}, {"next"}, {"directory"}, {"entry"}}
       /\ ebTodo = {"next"} => HasEntry("target")
       /\ ebTodo \in {{"directory"}, {"entry"}} => TargetIsDue
  /\ ebAt = "finalization" =>
       IF ebSystem.conversion THEN TargetIsDue ELSE ebErrors = 0 => SourceIsDue
  /\ ebAt = "reboot target" =>
       IF ebSystem.conversion THEN TargetIsDue
       ELSE ebErrors = 0 => "source" \in ebDirs /\ Has(ebNext, "source")
  /\ ebAt = "target" /\ ebSystem.conversion => HasEntry("target")

(* What the upgrade made for itself is gone when the transaction begins.      *)
CleanInv ==
  /\ ebAt \in {"transaction", "applications", "finalization", "reboot target", "target"} =>
       \/ "upgrade entry left" \in ebReports
       \/ ~HasEntry("upgrade") /\ "upgrade" \notin ebDirs /\ ebBls = {}
  /\ ebAt # "stopped" => "KeyError" \notin ebReports
  /\ StopsForAReason

BootInv ==
  BootTypes /\ EntriesInv /\ SourceInv /\ InterimInv /\ TransactionInv /\ CleanInv

LEMMA LeastOne ==
  ASSUME NEW T, T \subseteq Nat, T # {}
  PROVE  \E x \in T : \A y \in T : x <= y
<1> DEFINE R == OpToRel(<, Nat)
<1>1. IsWellFoundedOn(R, Nat)
  BY NatLessThanWellFounded
<1>2. ASSUME NEW x \in Nat, NEW y \in Nat, ~(<<y, x>> \in R)
      PROVE  x <= y
  <2>1. ~(y < x)
    BY <1>2 DEF OpToRel
  <2> QED BY <2>1
<1> HIDE DEF R
<1>3. \E x \in T : \A y \in T : ~(<<y, x>> \in R)
  BY <1>1, WFMin
<1> QED BY <1>2, <1>3

LEMMA MachineIs ==
  ASSUME ebSystem \in BootSystems
  PROVE  IsBootSystem(ebSystem) /\ Numbers \subseteq Nat /\ NoNumber \notin Numbers
<1>1. LastNumber \in Nat /\ IsBootSystem(ebSystem)
  BY BootSystemsAssumption
<1> QED BY <1>1 DEF Numbers, NoNumber

(* efibootmgr --create finds a free number and takes no other away.           *)
LEMMA FreeIs ==
  ASSUME BootTypes, EntriesInv, NEW loader \in {"upgrade", "target"}, ~HasEntry(loader)
  PROVE  FreeNumber \in Numbers \ DOMAIN ebEntries
<1>1. PICK a, b \in Numbers \ DOMAIN ebSystem.entries : a # b
  BY MachineIs DEF BootTypes, IsBootSystem
<1> DEFINE Free == Numbers \ DOMAIN ebEntries
<1>2. Free # {}
  <2> SUFFICES ASSUME Free = {} PROVE FALSE
    OBVIOUS
  <2>1. a \in DOMAIN ebEntries /\ b \in DOMAIN ebEntries
    OBVIOUS
  <2>2. /\ ebEntries[a] \in {"upgrade", "target"} /\ ebEntries[b] \in {"upgrade", "target"}
        /\ ebEntries[a] = ebEntries[b] => a = b
    BY <1>1, <2>1 DEF EntriesInv
  <2>3. ebEntries[a] # loader /\ ebEntries[b] # loader
    BY <2>1 DEF HasEntry
  <2> QED BY <1>1, <2>2, <2>3
<1>3. Free \subseteq Nat
  BY MachineIs DEF BootTypes
<1>4. FreeNumber = CHOOSE n \in Free : \A m \in Free : n <= m
  BY DEF FreeNumber
<1> HIDE DEF Free
<1>5. FreeNumber \in Free
  BY <1>2, <1>3, <1>4, LeastOne
<1> QED BY <1>5 DEF Free

LEMMA AddIs ==
  ASSUME BootTypes, EntriesInv, NEW loader \in {"upgrade", "target"}, AddEntry(loader),
         UNCHANGED ebSystem, loader = "upgrade" => ebSystem.arm
  PROVE  /\ DOMAIN ebEntries' \subseteq Numbers /\ ebEntries' \in [DOMAIN ebEntries' -> Loaders]
         /\ ebOrder' \in Seq(Numbers) /\ EntriesInv'
         /\ \A n \in DOMAIN ebEntries : n \in DOMAIN ebEntries' /\ ebEntries'[n] = ebEntries[n]
         /\ \A n \in DOMAIN ebEntries' \ DOMAIN ebEntries : ebEntries'[n] = loader
         /\ HasEntry(loader)'
<1>t. /\ DOMAIN ebEntries \subseteq Numbers /\ ebEntries \in [DOMAIN ebEntries -> Loaders]
      /\ ebOrder \in Seq(Numbers)
  BY DEF BootTypes
<1>1. CASE HasEntry(loader)
  <2>1. UNCHANGED <<ebEntries, ebOrder>>
    BY <1>1 DEF AddEntry
  <2> QED BY <1>t, <1>1, <2>1 DEF EntriesInv, Has, HasEntry
<1>2. CASE ~HasEntry(loader)
  <2> DEFINE free == FreeNumber
  <2>1. free \in Numbers /\ free \notin DOMAIN ebEntries
    BY <1>2, FreeIs
  <2>2. /\ ebEntries' = [n \in DOMAIN ebEntries \cup {free} |->
                            IF n = free THEN loader ELSE ebEntries[n]]
        /\ ebOrder' = <<free>> \o ebOrder
    BY <1>2 DEF AddEntry
  <2> HIDE DEF free
  <2>3. /\ DOMAIN ebEntries' = DOMAIN ebEntries \cup {free} /\ ebEntries'[free] = loader
        /\ \A n \in DOMAIN ebEntries : ebEntries'[n] = ebEntries[n]
    BY <2>1, <2>2
  <2>4. ebOrder' \in Seq(Numbers)
    BY <1>t, <2>1, <2>2
  <2>5. ebEntries' \in [DOMAIN ebEntries' -> Loaders]
    BY <1>t, <2>1, <2>2, <2>3 DEF Loaders
  <2>6. HasEntry(loader)'
    BY <2>3 DEF HasEntry
  <2>7. EntriesInv'
    <3>1. \A n \in Numbers, l \in Loaders :
            Has(n, l)' => Has(n, l) \/ (n = free /\ l = loader)
      BY <2>1, <2>3 DEF Has
    <3>2. \A n \in Numbers : ~Has(n, loader)
      BY <1>2 DEF Has, HasEntry
    <3>3. \A m, n \in Numbers : Has(m, "upgrade")' /\ Has(n, "upgrade")' => ebSystem'.arm /\ m = n
      <4>1. CASE loader = "upgrade"
        BY <3>1, <3>2, <4>1 DEF Loaders
      <4>2. CASE loader # "upgrade"
        BY <3>1, <4>2 DEF Loaders, EntriesInv
      <4> QED BY <4>1, <4>2
    <3>4. ASSUME NEW m \in DOMAIN ebEntries' \ DOMAIN ebSystem'.entries,
                 NEW n \in DOMAIN ebEntries' \ DOMAIN ebSystem'.entries
          PROVE  /\ ebEntries'[n] \in {"upgrade", "target"}
                 /\ ebEntries'[m] = ebEntries'[n] => m = n
      <4>1. \A k \in DOMAIN ebEntries : ebEntries[k] # loader
        BY <1>2 DEF HasEntry
      <4> QED BY <2>1, <2>3, <4>1 DEF EntriesInv
    <3>5. ASSUME NEW n \in DOMAIN ebSystem'.entries, ebSystem'.entries[n] = "other"
          PROVE  Has(n, "other")'
      <4>1. Has(n, "other")
        BY <3>5 DEF EntriesInv
      <4> QED BY <2>3, <4>1 DEF Has
    <3> QED BY <3>3, <3>4, <3>5 DEF EntriesInv
  <2> QED BY <2>1, <2>3, <2>4, <2>5, <2>6, <2>7, <1>t
<1> QED BY <1>1, <1>2

LEMMA RemoveIs ==
  ASSUME BootTypes, EntriesInv, NEW number, RemoveEntry(number), UNCHANGED ebSystem,
         ~Has(number, "other")
  PROVE  /\ DOMAIN ebEntries' \subseteq Numbers /\ ebEntries' \in [DOMAIN ebEntries' -> Loaders]
         /\ ebOrder' \in Seq(Numbers) /\ EntriesInv'
         /\ DOMAIN ebEntries' = DOMAIN ebEntries \ {number}
         /\ \A n \in DOMAIN ebEntries' : ebEntries'[n] = ebEntries[n]
<1>t. /\ DOMAIN ebEntries \subseteq Numbers /\ ebEntries \in [DOMAIN ebEntries -> Loaders]
      /\ ebOrder \in Seq(Numbers)
  BY DEF BootTypes
<1>1. ebEntries' = [n \in DOMAIN ebEntries \ {number} |-> ebEntries[n]]
  BY DEF RemoveEntry
<1>2. /\ DOMAIN ebEntries' = DOMAIN ebEntries \ {number}
      /\ \A n \in DOMAIN ebEntries' : ebEntries'[n] = ebEntries[n]
  BY <1>1
<1>3. ebEntries' \in [DOMAIN ebEntries' -> Loaders]
  BY <1>t, <1>1, <1>2
<1>4. ebOrder' \in Seq(Numbers)
  <2>1. ASSUME NEW i \in DOMAIN ebOrder PROVE RemoveAt(ebOrder, i) \in Seq(Numbers)
    <3>1. i \in 1 .. Len(ebOrder) /\ Len(ebOrder) \in Nat
      BY <1>t
    <3>2. SubSeq(ebOrder, 1, i - 1) \in Seq(Numbers) /\ SubSeq(ebOrder, i + 1, Len(ebOrder)) \in Seq(Numbers)
      BY <1>t, <3>1
    <3> QED BY <3>2 DEF RemoveAt
  <2> QED BY <1>t, <2>1 DEF RemoveEntry
<1>5. EntriesInv'
  <2>1. \A n, l : Has(n, l)' => Has(n, l)
    BY <1>2 DEF Has
  <2>2. \A m, n \in Numbers : Has(m, "upgrade")' /\ Has(n, "upgrade")' => ebSystem'.arm /\ m = n
    BY <2>1 DEF EntriesInv
  <2>3. ASSUME NEW m \in DOMAIN ebEntries' \ DOMAIN ebSystem'.entries,
               NEW n \in DOMAIN ebEntries' \ DOMAIN ebSystem'.entries
        PROVE  /\ ebEntries'[n] \in {"upgrade", "target"}
               /\ ebEntries'[m] = ebEntries'[n] => m = n
    BY <1>2 DEF EntriesInv
  <2>4. ASSUME NEW n \in DOMAIN ebSystem'.entries, ebSystem'.entries[n] = "other"
        PROVE  Has(n, "other")'
    <3>1. Has(n, "other") /\ n # number
      BY <2>4 DEF EntriesInv
    <3> QED BY <1>2, <3>1 DEF Has
  <2> QED BY <2>2, <2>3, <2>4 DEF EntriesInv
<1> QED BY <1>2, <1>3, <1>4, <1>5, <1>t

LEMMA EntriesKept ==
  ASSUME EntriesInv, UNCHANGED <<ebEntries, ebSystem>>
  PROVE  EntriesInv'
BY DEF EntriesInv, Has

(* The firmware: BootNext is chosen if it can be loaded, and what is chosen   *)
(* can be.                                                                    *)
LEMMA LoaderChosen ==
  ASSUME BootTypes, BootChoices # {}
  PROVE  Chosen \in DOMAIN ebEntries /\ ebEntries[Chosen] \in ebDirs
<1>1. BootList \in Seq(Numbers)
  <2>1. ebOrder \in Seq(Numbers)
    BY DEF BootTypes
  <2>2. CASE ebNext = NoNumber
    BY <2>1, <2>2 DEF BootList
  <2>3. CASE ebNext # NoNumber
    <3>1. ebNext \in Numbers
      BY <2>3 DEF BootTypes
    <3>2. <<ebNext>> \o ebOrder \in Seq(Numbers)
      BY <2>1, <3>1
    <3> QED BY <2>3, <3>2 DEF BootList
  <2> QED BY <2>2, <2>3
<1>2. BootChoices \subseteq Nat
  BY <1>1 DEF BootChoices
<1>3. PICK i \in BootChoices : i = CHOOSE k \in BootChoices : \A j \in BootChoices : k <= j
  BY <1>2, LeastOne
<1> QED BY <1>3 DEF BootChoices, Chosen, Loadable

LEMMA NextIsChosen ==
  ASSUME BootTypes, Loadable(ebNext)
  PROVE  BootChoices # {} /\ Chosen = ebNext
<1>1. ebNext # NoNumber /\ ebNext \in Numbers
  BY MachineIs DEF BootTypes, Loadable
<1>2. BootList = <<ebNext>> \o ebOrder
  BY <1>1 DEF BootList
<1>3. ebOrder \in Seq(Numbers)
  BY DEF BootTypes
<1>4. BootList \in Seq(Numbers) /\ 1 \in DOMAIN BootList /\ BootList[1] = ebNext
  BY <1>1, <1>2, <1>3
<1>5. 1 \in BootChoices /\ BootChoices \subseteq Nat \ {0}
  BY <1>4 DEF BootChoices
<1>6. \A k \in BootChoices : (\A j \in BootChoices : k <= j) => k = 1
  BY <1>5
<1>7. \A j \in BootChoices : 1 <= j
  BY <1>5
<1>8. (CHOOSE k \in BootChoices : \A j \in BootChoices : k <= j) = 1
  BY <1>5, <1>6, <1>7
<1> QED BY <1>4, <1>5, <1>8 DEF Chosen

-----------------------------------------------------------------------------
(* What the actions of InterimPreparation preserve.                        *)

LEMMA PreparationSteps ==
  ASSUME BootInv, StartPreparation \/ EfiInterimFix \/ AddUpgradeEntry \/ FinishPreparation
  PROVE  BootInv'
<1>t. /\ ebErrors \in Nat /\ ebPrepared \in Nat /\ NoNumber \notin Numbers
      /\ DOMAIN ebEntries \subseteq Numbers
  BY MachineIs DEF BootInv, BootTypes
<1>1. CASE StartPreparation
  <2>1. /\ ebAt = "source" /\ ebAt' = "interim" /\ ebTodo' = InterimActors
        /\ ebPrepared' \in Nat
        /\ UNCHANGED <<ebSystem, ebEntries, ebOrder, ebNext, ebCurrent, ebDirs, ebBls>>
        /\ UNCHANGED <<ebInfo, ebSeen, ebReports, ebErrors>>
    BY <1>1, <1>t DEF StartPreparation, ebNvram
  <2>2. BootTypes' /\ EntriesInv'
    BY <2>1, EntriesKept DEF BootInv, BootTypes
  <2>3. SourceInv'
    BY <2>1 DEF BootInv, SourceInv, Has
  <2>4. InterimInv'
    <3>1. /\ "entry" \in ebTodo' /\ "fix" \in ebTodo'
          /\ "workaround" \in ebTodo' <=> ebSystem.arm
      BY <2>1 DEF InterimActors
    <3>2. ebErrors = 0 => ebNext = ebSystem.next
      BY <2>1 DEF BootInv, SourceInv
    <3> QED BY <2>1, <3>1, <3>2 DEF InterimInv
  <2>5. TransactionInv' /\ CleanInv'
    BY <2>1 DEF BootInv, TransactionInv, CleanInv, StopsForAReason
  <2> QED BY <2>2, <2>3, <2>4, <2>5 DEF BootInv
<1>2. CASE EfiInterimFix
  <2>1. /\ ebAt = "interim" /\ ebAt' = "interim" /\ ebTodo' = ebTodo \ {"fix"}
        /\ UNCHANGED <<ebSystem, ebEntries, ebOrder, ebCurrent, ebDirs, ebBls>>
        /\ UNCHANGED <<ebInfo, ebSeen, ebReports, ebPrepared>>
    BY <1>2 DEF EfiInterimFix, BootFix
  <2>2. ebCurrent \in DOMAIN ebEntries /\ ebCurrent \in Numbers
    BY <1>t, <2>1 DEF BootInv, SourceInv, Has
  <2>3. \/ ebNext # NoNumber /\ UNCHANGED <<ebNext, ebErrors>>
        \/ ebNext = NoNumber /\ ebNext' = ebCurrent /\ UNCHANGED ebErrors
        \/ ebNext = NoNumber /\ UNCHANGED ebNext /\ ebErrors' = ebErrors + 1
    BY <1>2, <2>2 DEF EfiInterimFix, BootFix, KeepsBoot, Refused
  <2>4. ebErrors' \in Nat /\ (ebErrors' = 0 => ebErrors' = ebErrors)
    BY <1>t, <2>3
  <2>5. BootTypes' /\ EntriesInv'
    BY <2>1, <2>2, <2>3, <2>4, EntriesKept DEF BootInv, BootTypes
  <2>6. SourceInv'
    BY <2>1, <2>4 DEF BootInv, SourceInv, Has
  <2>7. InterimInv'
    <3>1. ASSUME Recorded PROVE Recorded'
      BY <2>1, <2>4, <3>1 DEF Recorded, Has
    <3>2. ASSUME ebSystem.arm, "workaround" \notin ebTodo
          PROVE  Recorded' /\ ebNext' = ebInfo.upgrade /\ "upgrade" \in ebDirs
      <4>1. Recorded /\ ebNext = ebInfo.upgrade /\ "upgrade" \in ebDirs
        BY <2>1, <3>2 DEF BootInv, InterimInv
      <4>2. ebNext # NoNumber
        BY <1>t, <4>1 DEF Recorded, Has
      <4> QED BY <2>3, <3>1, <4>1, <4>2
    <3>3. ASSUME ~ebSystem.arm, ebErrors' = 0, ebSystem.next = NoNumber
          PROVE  ebNext' = ebCurrent
      <4>1. ebNext = IF "fix" \in ebTodo THEN NoNumber ELSE ebCurrent
        BY <2>1, <2>4, <3>3 DEF BootInv, InterimInv
      <4>2. "fix" \in ebTodo
        BY <1>2 DEF EfiInterimFix
      <4>3. ebErrors' # ebErrors + 1
        BY <1>t, <3>3
      <4> QED BY <2>3, <4>1, <4>2, <4>3
    <3> QED BY <2>1, <3>2, <3>3 DEF BootInv, InterimInv
  <2>8. TransactionInv' /\ CleanInv'
    BY <2>1 DEF BootInv, TransactionInv, CleanInv, StopsForAReason
  <2> QED BY <2>5, <2>6, <2>7, <2>8 DEF BootInv
<1>3. CASE AddUpgradeEntry
  <2>1. /\ ebAt = "interim" /\ ebAt' = "interim" /\ ebTodo' = ebTodo \ {"entry"}
        /\ "workaround" \notin ebTodo
        /\ ebBls' = IF ebSystem.arm THEN {"upgrade"} ELSE {"system"}
        /\ UNCHANGED <<ebSystem, ebEntries, ebOrder, ebNext, ebCurrent, ebDirs>>
        /\ UNCHANGED <<ebInfo, ebSeen, ebReports, ebPrepared, ebErrors>>
    BY <1>3 DEF AddUpgradeEntry, ebNvram
  <2>2. BootTypes' /\ EntriesInv' /\ SourceInv'
    BY <2>1, EntriesKept DEF BootInv, BootTypes, SourceInv, Has
  <2>3. InterimInv'
    BY <2>1 DEF BootInv, InterimInv, Recorded, Has
  <2>4. TransactionInv' /\ CleanInv'
    BY <2>1 DEF BootInv, TransactionInv, CleanInv, StopsForAReason
  <2> QED BY <2>2, <2>3, <2>4 DEF BootInv
<1>4. CASE FinishPreparation
  <2>1. /\ ebAt = "interim" /\ ebAt' = "reboot" /\ ebTodo = {}
        /\ UNCHANGED <<ebSystem, ebTodo, ebEntries, ebOrder, ebNext, ebCurrent, ebDirs, ebBls>>
        /\ UNCHANGED <<ebInfo, ebSeen, ebReports, ebPrepared, ebErrors>>
    BY <1>4 DEF FinishPreparation, ebNvram
  <2>2. BootTypes' /\ EntriesInv' /\ SourceInv'
    BY <2>1, EntriesKept DEF BootInv, BootTypes, SourceInv, Has
  <2>3. InterimInv'
    BY <2>1 DEF BootInv, InterimInv, Recorded, Has
  <2>4. TransactionInv' /\ CleanInv'
    BY <2>1 DEF BootInv, TransactionInv, CleanInv, StopsForAReason
  <2> QED BY <2>2, <2>3, <2>4 DEF BootInv
<1> QED BY <1>1, <1>2, <1>3, <1>4

(* The workaround adds its entry, or it or the actor after it fails.          *)
LEMMA WorkaroundSteps ==
  ASSUME BootInv, AddWorkaround \/ WorkaroundFails \/ UpgradeEntryFails
  PROVE  BootInv'
<1>t. /\ BootTypes /\ EntriesInv /\ ebErrors \in Nat /\ DOMAIN ebEntries \subseteq Numbers
      /\ ebErrors + 1 \in Nat /\ ebErrors + 1 # 0
  BY DEF BootInv, BootTypes
<1>s. /\ ebAt = "interim" /\ UNCHANGED <<ebSystem, ebCurrent, ebSeen, ebReports, ebPrepared>>
      /\ ebAt' \in {"interim", "source"}
  BY DEF AddWorkaround, WorkaroundFails, UpgradeEntryFails, ebNvram
<1>c. /\ \E loader \in OwnLoaders : Has(ebCurrent, loader)
      /\ "source" \in ebDirs /\ "target" \notin ebDirs /\ ("upgrade" \in ebDirs => ebSystem.arm)
      /\ ebErrors = 0 => Has(ebCurrent, "source")
  BY <1>s DEF BootInv, SourceInv
<1>r. TransactionInv' /\ CleanInv'
  BY <1>s DEF BootInv, TransactionInv, CleanInv, StopsForAReason
<1>1. CASE AddWorkaround
  <2>1. /\ "workaround" \in ebTodo /\ ebTodo' = ebTodo \ {"workaround"} /\ ebAt' = "interim"
        /\ ebDirs' = ebDirs \cup {"upgrade"} /\ AddEntry("upgrade")
        /\ UNCHANGED <<ebBls, ebErrors>>
    BY <1>1 DEF AddWorkaround
  <2>2. ebSystem.arm /\ "entry" \in ebTodo
    BY <1>s, <2>1 DEF BootInv, InterimInv
  <2>3. /\ DOMAIN ebEntries' \subseteq Numbers /\ ebEntries' \in [DOMAIN ebEntries' -> Loaders]
        /\ ebOrder' \in Seq(Numbers) /\ EntriesInv' /\ HasEntry("upgrade")'
        /\ \A n \in DOMAIN ebEntries : n \in DOMAIN ebEntries' /\ ebEntries'[n] = ebEntries[n]
    BY <1>s, <1>t, <2>1, <2>2, AddIs
  <2>4. PICK upgrade : upgrade = CHOOSE n \in DOMAIN ebEntries' : ebEntries'[n] = "upgrade"
    OBVIOUS
  <2>5. upgrade \in DOMAIN ebEntries' /\ ebEntries'[upgrade] = "upgrade"
    BY <2>3, <2>4 DEF HasEntry
  <2>6. /\ ebNext' = upgrade /\ ebInfo' = [original |-> ebCurrent, upgrade |-> upgrade]
    BY <1>1, <2>4 DEF AddWorkaround
  <2>7. BootTypes'
    BY <1>s, <1>t, <2>1, <2>3, <2>5, <2>6 DEF BootTypes
  <2>8. /\ \E loader \in OwnLoaders : Has(ebCurrent, loader)'
        /\ ebErrors' = 0 => Has(ebCurrent, "source")'
    BY <1>c, <1>s, <2>1, <2>3 DEF Has
  <2>9. SourceInv'
    BY <1>c, <1>s, <2>1, <2>2, <2>8 DEF SourceInv
  <2>10. Recorded'
    BY <1>s, <2>5, <2>6, <2>8 DEF Recorded, Has
  <2>11. InterimInv'
    BY <1>s, <2>1, <2>2, <2>6, <2>10 DEF InterimInv
  <2> QED BY <1>r, <2>3, <2>7, <2>9, <2>11 DEF BootInv
<1>2. CASE WorkaroundFails
  <2>1. /\ "workaround" \in ebTodo /\ ebAt' = "source" /\ ebErrors' = ebErrors + 1
        /\ ebDirs' \in {ebDirs \ {"upgrade"}, ebDirs \cup {"upgrade"}} /\ UNCHANGED ebNext
        /\ AddEntry("upgrade") \/ UNCHANGED <<ebEntries, ebOrder>>
    BY <1>2 DEF WorkaroundFails, EfiFault, ebNvram
  <2>2. ebSystem.arm
    BY <1>s, <2>1 DEF BootInv, InterimInv
  <2>3. /\ DOMAIN ebEntries' \subseteq Numbers /\ ebEntries' \in [DOMAIN ebEntries' -> Loaders]
        /\ ebOrder' \in Seq(Numbers) /\ EntriesInv'
        /\ \A n \in DOMAIN ebEntries : n \in DOMAIN ebEntries' /\ ebEntries'[n] = ebEntries[n]
    <3>1. CASE AddEntry("upgrade")
      BY <1>s, <1>t, <2>2, <3>1, AddIs
    <3>2. CASE UNCHANGED <<ebEntries, ebOrder>>
      <4>1. EntriesInv'
        BY <1>s, <1>t, <3>2, EntriesKept
      <4> QED BY <1>t, <3>2, <4>1 DEF BootTypes
    <3> QED BY <2>1, <3>1, <3>2
  <2>4. BootTypes'
    BY <1>s, <1>t, <2>1, <2>3 DEF BootTypes
  <2>5. \E loader \in OwnLoaders : Has(ebCurrent, loader)'
    BY <1>c, <1>s, <2>3 DEF Has
  <2>6. SourceInv'
    BY <1>c, <1>s, <1>t, <2>1, <2>2, <2>5 DEF SourceInv
  <2>7. InterimInv'
    BY <2>1 DEF InterimInv
  <2> QED BY <1>r, <2>3, <2>4, <2>6, <2>7 DEF BootInv
<1>3. CASE UpgradeEntryFails
  <2>1. /\ ebAt' = "source" /\ ebErrors' = ebErrors + 1
        /\ UNCHANGED <<ebDirs, ebNext, ebEntries, ebOrder>>
    BY <1>3 DEF UpgradeEntryFails, EfiFault, ebNvram
  <2>2. BootTypes' /\ EntriesInv'
    BY <1>s, <1>t, <2>1, EntriesKept DEF BootTypes
  <2>3. SourceInv'
    BY <1>c, <1>s, <1>t, <2>1 DEF SourceInv, Has
  <2>4. InterimInv'
    BY <2>1 DEF InterimInv
  <2> QED BY <1>r, <2>2, <2>3, <2>4 DEF BootInv
<1> QED BY <1>1, <1>2, <1>3

(* A prepared machine boots the upgrade.                                      *)
LEMMA UpgradeIsDue ==
  ASSUME BootInv, ebAt = "reboot",
         ebSystem.arm \/ (ebSystem.next = NoNumber /\ ebErrors = 0)
  PROVE  BootChoices # {} /\ StartsUpgrade(ebEntries[Chosen])
<1>1. ebTodo = {} /\ BootTypes /\ "source" \in ebDirs
  BY DEF BootInv, InterimInv, SourceInv
<1>2. CASE ebSystem.arm
  <2>1. Has(ebNext, "upgrade") /\ "upgrade" \in ebDirs /\ ebBls = {"upgrade"}
    BY <1>1, <1>2 DEF BootInv, InterimInv, Recorded
  <2>2. Loadable(ebNext)
    BY <2>1 DEF Has, Loadable
  <2>3. BootChoices # {} /\ Chosen = ebNext
    BY <1>1, <2>2, NextIsChosen
  <2> QED BY <2>1, <2>3 DEF StartsUpgrade, Has
<1>3. CASE ~ebSystem.arm
  <2>1. ebNext = ebCurrent /\ ebBls = {"system"} /\ Has(ebCurrent, "source")
    BY <1>1, <1>3 DEF BootInv, InterimInv, SourceInv
  <2>2. Loadable(ebNext)
    BY <1>1, <2>1 DEF Has, Loadable
  <2>3. BootChoices # {}
    BY <1>1, <2>2, NextIsChosen
  <2> QED BY <2>1, <2>3 DEF StartsUpgrade
<1> QED BY <1>2, <1>3

LEMMA BootSteps ==
  ASSUME BootInv, RebootSource
  PROVE  BootInv'
<1>t. BootTypes /\ DOMAIN ebEntries \subseteq Numbers /\ ebEntries \in [DOMAIN ebEntries -> Loaders]
  BY DEF BootInv, BootTypes
<1>1. /\ ebAt = "reboot" \/ (ebAt = "source" /\ ebPrepared > 0)
      /\ BootChoices # {} /\ ebCurrent' = Chosen /\ ebNext' = NoNumber
      /\ ebAt' = IF ebEntries[Chosen] = "other" THEN "elsewhere"
                 ELSE IF ebAt = "reboot" /\ StartsUpgrade(ebEntries[Chosen])
                 THEN "initram" ELSE "source"
      /\ UNCHANGED <<ebSystem, ebTodo, ebEntries, ebOrder, ebDirs, ebBls>>
      /\ UNCHANGED <<ebInfo, ebSeen, ebReports, ebPrepared, ebErrors>>
  BY DEF RebootSource, FirmwareBoots
<1>2. Chosen \in DOMAIN ebEntries /\ ebEntries[Chosen] \in ebDirs
  BY <1>1, <1>t, LoaderChosen
<1>3. BootTypes' /\ EntriesInv'
  BY <1>1, <1>2, EntriesKept DEF BootInv, BootTypes
<1>4. "source" \in ebDirs /\ "target" \notin ebDirs /\ ("upgrade" \in ebDirs => ebSystem.arm)
  BY <1>1 DEF BootInv, SourceInv
<1>5. ebAt' \in {"elsewhere", "initram", "source"}
      /\ (ebAt' # "elsewhere" => ebEntries[Chosen] # "other")
  BY <1>1
<1>6. ebAt' # "elsewhere" => ebEntries[Chosen] \in OwnLoaders
  BY <1>2, <1>4, <1>5, <1>t DEF OwnLoaders, Loaders
<1>7. ASSUME ebAt' = "source" PROVE ebErrors # 0
  <2>1. CASE ebAt = "source"
    <3>1. ebPrepared # 0
      BY <1>1, <2>1, <1>t DEF BootTypes
    <3> QED BY <2>1, <3>1 DEF BootInv, SourceInv
  <2>2. CASE ebAt = "reboot"
    <3>1. ~StartsUpgrade(ebEntries[Chosen])
      BY <1>1, <1>7, <2>2
    <3>2. ~ebSystem.arm
      BY <2>2, <3>1, UpgradeIsDue
    <3>3. ebBls = {"system"}
      BY <2>2, <3>2 DEF BootInv, InterimInv
    <3> QED BY <3>1, <3>3 DEF StartsUpgrade
  <2> QED BY <1>1, <2>1, <2>2
<1>8. SourceInv'
  BY <1>1, <1>2, <1>4, <1>5, <1>6, <1>7 DEF SourceInv, Has
<1>9. ASSUME ebAt' = "initram", ebSystem.arm PROVE Recorded' /\ ebBls' = {"upgrade"}
  <2>1. ebAt = "reboot"
    BY <1>1, <1>9
  <2>2. Recorded /\ ebBls = {"upgrade"}
    BY <1>9, <2>1 DEF BootInv, InterimInv
  <2> QED BY <1>1, <2>2 DEF Recorded, Has
<1>10. InterimInv'
  BY <1>1, <1>5, <1>9 DEF InterimInv
<1>11. TransactionInv' /\ CleanInv'
  BY <1>1, <1>5 DEF BootInv, TransactionInv, CleanInv, StopsForAReason
<1> QED BY <1>3, <1>8, <1>10, <1>11 DEF BootInv

(* remove_upgrade_efi_entry takes away what the workaround has made.          *)
LEMMA RemovalSteps ==
  ASSUME BootInv, RemoveUpgradeEntry
  PROVE  BootInv'
<1>t. /\ BootTypes /\ EntriesInv /\ ebErrors \in Nat /\ NoNumber \notin Numbers
      /\ DOMAIN ebEntries \subseteq Numbers /\ ebErrors + 1 \in Nat /\ ebErrors + 1 # 0
  BY MachineIs DEF BootInv, BootTypes
<1>1. /\ ebAt = "initram" /\ ebAt' \in {"transaction", "stopped"}
      /\ UNCHANGED <<ebSystem, ebTodo, ebCurrent, ebInfo, ebSeen, ebPrepared>>
  BY DEF RemoveUpgradeEntry, ebNvram
<1>2. /\ \E loader \in OwnLoaders : Has(ebCurrent, loader)
      /\ "source" \in ebDirs /\ ("upgrade" \in ebDirs => ebSystem.arm) /\ ebNext = NoNumber
      /\ "KeyError" \notin ebReports
  BY <1>1 DEF BootInv, SourceInv, InterimInv, CleanInv
<1>3. SourceInv' /\ InterimInv'
  BY <1>1 DEF SourceInv, InterimInv
<1>4. CASE ~ebSystem.arm
  <2>1. /\ ebBls' = {} /\ ebAt' = "transaction"
        /\ UNCHANGED <<ebEntries, ebOrder, ebNext, ebDirs, ebReports, ebErrors>>
    BY <1>4 DEF RemoveUpgradeEntry, ebNvram
  <2>2. ~HasEntry("upgrade")
    BY <1>4, <1>t DEF EntriesInv, Has, HasEntry
  <2>3. Has(ebCurrent, "source")
    BY <1>2, <2>2 DEF OwnLoaders, Has, HasEntry
  <2>4. BootTypes' /\ EntriesInv'
    BY <1>1, <1>t, <2>1, EntriesKept DEF BootTypes
  <2>5. TransactionInv'
    BY <1>1, <1>2, <2>1, <2>3 DEF TransactionInv, SourceIsDue, Has, OwnLoaders
  <2>6. CleanInv'
    BY <1>2, <1>4, <1>1, <2>1, <2>2 DEF CleanInv, StopsForAReason, HasEntry
  <2> QED BY <1>3, <2>4, <2>5, <2>6 DEF BootInv
<1>5. CASE ebSystem.arm
  <2>1. PICK upgrade : upgrade = UpgradeNumber
    OBVIOUS
  <2>2. PICK original : original = Original
    OBVIOUS
  <2>3. /\ Has(upgrade, "upgrade") /\ ebBls = {"upgrade"}
        /\ \E loader \in OwnLoaders : Has(original, loader)
        /\ ebErrors = 0 => Has(original, "source")
    BY <1>1, <1>5, <2>1, <2>2 DEF BootInv, InterimInv, Recorded, UpgradeNumber, Original
  <2>4. original \in Numbers /\ ebCurrent \in DOMAIN ebEntries /\ ebEntries[ebCurrent] \in OwnLoaders
    BY <1>2, <1>t, <2>3 DEF Has
  <2>5. ASSUME RemoveEntry(upgrade)
        PROVE  /\ DOMAIN ebEntries' \subseteq Numbers /\ ebEntries' \in [DOMAIN ebEntries' -> Loaders]
               /\ ebOrder' \in Seq(Numbers) /\ EntriesInv' /\ ~HasEntry("upgrade")'
               /\ DOMAIN ebEntries' = DOMAIN ebEntries \ {upgrade}
               /\ \A n \in DOMAIN ebEntries' : ebEntries'[n] = ebEntries[n]
    <3>1. ~Has(upgrade, "other")
      BY <2>3 DEF Has
    <3>2. /\ DOMAIN ebEntries' \subseteq Numbers /\ ebEntries' \in [DOMAIN ebEntries' -> Loaders]
          /\ ebOrder' \in Seq(Numbers) /\ EntriesInv'
          /\ DOMAIN ebEntries' = DOMAIN ebEntries \ {upgrade}
          /\ \A n \in DOMAIN ebEntries' : ebEntries'[n] = ebEntries[n]
      BY <1>1, <1>t, <2>5, <3>1, RemoveIs
    <3>3. \A n \in DOMAIN ebEntries : ebEntries[n] = "upgrade" => n = upgrade
      BY <1>t, <2>3 DEF EntriesInv, Has
    <3>4. ~HasEntry("upgrade")'
      BY <3>2, <3>3 DEF HasEntry
    <3> QED BY <3>2, <3>4
  <2>6. CASE /\ RemoveEntry(upgrade)
             /\ ebDirs' = ebDirs \ {"upgrade"} /\ ebBls' = ebBls \ {"upgrade"}
             /\ UNCHANGED ebReports
             /\ \/ /\ ebNext' = original
                   /\ ebAt' = "transaction" /\ UNCHANGED ebErrors
                \/ /\ \/ original \notin DOMAIN ebEntries' /\ UNCHANGED ebErrors
                      \/ EfiFault
                   /\ ebAt' = "stopped" /\ UNCHANGED ebNext
    <3>1. /\ DOMAIN ebEntries' \subseteq Numbers /\ ebEntries' \in [DOMAIN ebEntries' -> Loaders]
          /\ ebOrder' \in Seq(Numbers) /\ EntriesInv' /\ ~HasEntry("upgrade")'
          /\ DOMAIN ebEntries' = DOMAIN ebEntries \ {upgrade}
          /\ \A n \in DOMAIN ebEntries' : ebEntries'[n] = ebEntries[n]
      BY <2>5, <2>6
    <3>2. ebErrors' \in Nat /\ (ebErrors' = ebErrors \/ ebErrors' = ebErrors + 1)
      BY <1>t, <2>6 DEF EfiFault
    <3>3. ebNext' \in Numbers \cup {NoNumber}
      BY <1>2, <2>4, <2>6
    <3>4. BootTypes'
      BY <1>1, <1>t, <3>1, <3>2, <3>3 DEF BootTypes
    <3>5. ebErrors = 0 => original \in DOMAIN ebEntries' /\ ebEntries'[original] = "source"
      BY <2>3, <3>1 DEF Has
    <3>6. TransactionInv'
      <4>1. CASE ebAt' = "transaction"
        <5>1. ebNext' = original /\ ebErrors' = ebErrors /\ "source" \in ebDirs'
          BY <1>2, <2>6, <4>1
        <5>2. ebErrors' = 0 => SourceIsDue'
          BY <3>5, <5>1 DEF SourceIsDue, Has
        <5>3. ebCurrent' \in DOMAIN ebEntries' => ebEntries'[ebCurrent'] \in OwnLoaders
          BY <1>1, <2>4, <3>1
        <5> QED BY <1>1, <1>5, <4>1, <5>2, <5>3 DEF TransactionInv
      <4>2. CASE ebAt' = "stopped"
        BY <4>2 DEF TransactionInv
      <4> QED BY <1>1, <4>1, <4>2
    <3>7. CleanInv'
      <4>1. ASSUME ebAt' = "stopped" PROVE ebErrors' # 0
        <5>1. CASE original \notin DOMAIN ebEntries' /\ UNCHANGED ebErrors
          BY <3>5, <5>1
        <5>2. CASE EfiFault
          BY <1>t, <5>2 DEF EfiFault
        <5> QED BY <2>6, <4>1, <5>1, <5>2
      <4>2. ebErrors' # 0 => ebErrors' > 0
        BY <3>2
      <4>3. ebBls' = {} /\ "upgrade" \notin ebDirs' /\ "KeyError" \notin ebReports'
        BY <1>2, <2>3, <2>6
      <4> QED BY <1>1, <3>1, <4>1, <4>2, <4>3 DEF CleanInv, StopsForAReason
    <3> QED BY <1>3, <3>1, <3>4, <3>6, <3>7 DEF BootInv
  <2>7. CASE /\ EfiFault
             /\ \/ /\ RemoveEntry(upgrade)
                   /\ UNCHANGED <<ebDirs, ebBls>>
                \/ /\ UNCHANGED <<ebEntries, ebOrder>>
                   /\ ebDirs' = ebDirs \ {"upgrade"}
                   /\ ebBls' = ebBls \ {"upgrade"}
             /\ ebNext' = original /\ ebAt' = "transaction"
             /\ EfiReport("upgrade entry left")
    <3>1. /\ DOMAIN ebEntries' \subseteq Numbers /\ ebEntries' \in [DOMAIN ebEntries' -> Loaders]
          /\ ebOrder' \in Seq(Numbers) /\ EntriesInv'
          /\ \A n \in DOMAIN ebEntries' : n \in DOMAIN ebEntries /\ ebEntries'[n] = ebEntries[n]
      <4>1. CASE RemoveEntry(upgrade)
        BY <2>5, <4>1
      <4>2. CASE UNCHANGED <<ebEntries, ebOrder>>
        <5>1. EntriesInv'
          BY <1>1, <1>t, <4>2, EntriesKept
        <5> QED BY <1>t, <4>2, <5>1 DEF BootTypes
      <4> QED BY <2>7, <4>1, <4>2
    <3>2. ebErrors' = ebErrors + 1 /\ ebReports' = ebReports \cup {"upgrade entry left"}
      BY <2>7 DEF EfiFault, EfiReport
    <3>3. BootTypes'
      BY <1>1, <1>t, <2>4, <2>7, <3>1, <3>2 DEF BootTypes
    <3>4. TransactionInv'
      BY <1>1, <1>5, <1>t, <2>4, <2>7, <3>1, <3>2 DEF TransactionInv
    <3>5. CleanInv'
      BY <1>2, <2>7, <3>2 DEF CleanInv, StopsForAReason
    <3> QED BY <1>3, <3>1, <3>3, <3>4, <3>5 DEF BootInv
  <2> QED BY <1>5, <2>1, <2>2, <2>6, <2>7 DEF RemoveUpgradeEntry
<1> QED BY <1>4, <1>5

LEMMA TransactionSteps ==
  ASSUME BootInv, Transaction
  PROVE  BootInv'
<1>1. /\ ebAt = "transaction"
      /\ \/ /\ ebSystem.conversion /\ ebDirs' = (ebDirs \ {"source"}) \cup {"target"}
            /\ ebAt' = "applications" /\ ebTodo' = {"add"} /\ ebSeen' = ebEntries
         \/ ~ebSystem.conversion /\ ebAt' = "finalization" /\ UNCHANGED <<ebDirs, ebTodo, ebSeen>>
      /\ UNCHANGED <<ebSystem, ebEntries, ebOrder, ebNext, ebCurrent, ebBls>>
      /\ UNCHANGED <<ebInfo, ebReports, ebPrepared, ebErrors>>
  BY DEF Transaction, ebNvram
<1>2. BootTypes' /\ EntriesInv'
  BY <1>1, EntriesKept DEF BootInv, BootTypes
<1>3. SourceInv' /\ InterimInv'
  BY <1>1 DEF SourceInv, InterimInv
<1>4. TransactionInv'
  <2>1. CASE ebSystem.conversion
    <3>1. SeenIsOwn'
      BY <1>1, <2>1 DEF BootInv, TransactionInv, SeenIsOwn
    <3> QED BY <1>1, <2>1, <3>1 DEF TransactionInv
  <2>2. CASE ~ebSystem.conversion
    BY <1>1, <2>2 DEF BootInv, TransactionInv, SourceIsDue, Has
  <2> QED BY <2>1, <2>2
<1>5. CleanInv'
  BY <1>1 DEF BootInv, CleanInv, StopsForAReason, HasEntry
<1> QED BY <1>2, <1>3, <1>4, <1>5 DEF BootInv

(* update_efi, one step after the other.                                      *)
LEMMA UpdateSteps ==
  ASSUME BootInv, AddTargetEntry \/ SetTargetNext \/ RemoveSourceDirectory
  PROVE  BootInv'
<1>t. /\ BootTypes /\ EntriesInv /\ ebErrors \in Nat /\ DOMAIN ebEntries \subseteq Numbers
      /\ ebErrors + 1 \in Nat /\ ebErrors + 1 > 0
  BY DEF BootInv, BootTypes
<1>s. /\ ebAt = "applications" /\ ebAt' \in {"applications", "stopped"}
      /\ UNCHANGED <<ebSystem, ebCurrent, ebDirs, ebBls, ebInfo, ebSeen, ebPrepared>>
  BY DEF AddTargetEntry, SetTargetNext, RemoveSourceDirectory, ebNvram
<1>c. /\ ebSystem.conversion /\ SeenIsOwn /\ "target" \in ebDirs /\ "KeyError" \notin ebReports
      /\ \/ "upgrade entry left" \in ebReports
         \/ ~HasEntry("upgrade") /\ "upgrade" \notin ebDirs /\ ebBls = {}
  BY <1>s DEF BootInv, TransactionInv, CleanInv
<1>1. SourceInv' /\ InterimInv'
  BY <1>s DEF SourceInv, InterimInv
<1>2. SeenIsOwn'
  BY <1>c, <1>s DEF SeenIsOwn
<1>3. CASE AddTargetEntry
  <2>1. CASE AddEntry("target") /\ ebTodo' = {"next"} /\ UNCHANGED <<ebAt, ebErrors>>
    <3>1. /\ DOMAIN ebEntries' \subseteq Numbers /\ ebEntries' \in [DOMAIN ebEntries' -> Loaders]
          /\ ebOrder' \in Seq(Numbers) /\ EntriesInv' /\ HasEntry("target")'
          /\ \A n \in DOMAIN ebEntries : n \in DOMAIN ebEntries' /\ ebEntries'[n] = ebEntries[n]
          /\ \A n \in DOMAIN ebEntries' \ DOMAIN ebEntries : ebEntries'[n] = "target"
      BY <1>s, <1>t, <2>1, AddIs
    <3>2. UNCHANGED <<ebNext, ebReports>>
      BY <1>3 DEF AddTargetEntry
    <3>3. BootTypes'
      BY <1>s, <1>t, <2>1, <3>1, <3>2 DEF BootTypes
    <3>4. TransactionInv'
      BY <1>2, <1>c, <1>s, <2>1, <3>1 DEF TransactionInv
    <3>5. HasEntry("upgrade")' => HasEntry("upgrade")
      BY <3>1 DEF HasEntry
    <3>6. CleanInv'
      BY <1>c, <1>s, <2>1, <3>2, <3>5 DEF CleanInv, StopsForAReason
    <3> QED BY <1>1, <3>1, <3>3, <3>4, <3>6 DEF BootInv
  <2>2. CASE EfiFault /\ ebAt' = "stopped" /\ UNCHANGED <<ebTodo, ebEntries, ebOrder>>
    <3>1. UNCHANGED <<ebNext, ebReports>> /\ ebErrors' = ebErrors + 1
      BY <1>3, <2>2 DEF AddTargetEntry, EfiFault
    <3>2. BootTypes' /\ EntriesInv'
      BY <1>s, <1>t, <2>2, <3>1, EntriesKept DEF BootTypes
    <3>3. TransactionInv' /\ CleanInv'
      BY <1>c, <1>t, <2>2, <3>1 DEF TransactionInv, CleanInv, StopsForAReason
    <3> QED BY <1>1, <3>2, <3>3 DEF BootInv
  <2> QED BY <1>3, <2>1, <2>2 DEF AddTargetEntry
<1>4. CASE SetTargetNext
  <2>0. ebTodo = {"next"} /\ UNCHANGED <<ebEntries, ebOrder, ebReports>>
    BY <1>4 DEF SetTargetNext
  <2>1. CASE ebNext' = NextIsTarget /\ ebTodo' = {"directory"} /\ UNCHANGED <<ebAt, ebErrors>>
    <3>1. HasEntry("target")
      BY <1>s, <2>0 DEF BootInv, TransactionInv
    <3>2. ebNext' \in DOMAIN ebEntries /\ ebEntries[ebNext'] = "target"
      BY <2>1, <3>1 DEF NextIsTarget, Number, HasEntry
    <3>3. BootTypes' /\ EntriesInv'
      BY <1>s, <1>t, <2>0, <2>1, <3>2, EntriesKept DEF BootTypes
    <3>4. TargetIsDue'
      BY <1>c, <1>s, <2>0, <3>2 DEF TargetIsDue, Has
    <3>5. TransactionInv'
      BY <1>2, <1>c, <1>s, <2>1, <3>4 DEF TransactionInv
    <3>6. CleanInv'
      BY <1>c, <1>s, <2>0, <2>1 DEF CleanInv, StopsForAReason, HasEntry
    <3> QED BY <1>1, <3>3, <3>5, <3>6 DEF BootInv
  <2>2. CASE EfiFault /\ ebAt' = "stopped" /\ UNCHANGED <<ebTodo, ebNext>>
    <3>1. ebErrors' = ebErrors + 1
      BY <2>2 DEF EfiFault
    <3>2. BootTypes' /\ EntriesInv'
      BY <1>s, <1>t, <2>0, <2>2, <3>1, EntriesKept DEF BootTypes
    <3>3. TransactionInv' /\ CleanInv'
      BY <1>c, <1>t, <2>0, <2>2, <3>1 DEF TransactionInv, CleanInv, StopsForAReason
    <3> QED BY <1>1, <3>2, <3>3 DEF BootInv
  <2> QED BY <1>4, <2>1, <2>2 DEF SetTargetNext
<1>5. CASE RemoveSourceDirectory
  <2>1. /\ ebTodo = {"directory"} /\ ebTodo' = {"entry"} /\ ebAt' = ebAt
        /\ UNCHANGED <<ebEntries, ebOrder, ebNext, ebErrors>>
        /\ ebReports' = ebReports \/ ebReports' = ebReports \cup {"directory left"}
    BY <1>5 DEF RemoveSourceDirectory, EfiReport, ebNvram
  <2>2. BootTypes' /\ EntriesInv'
    BY <1>s, <1>t, <2>1, EntriesKept DEF BootTypes
  <2>3. TargetIsDue'
    <3>1. TargetIsDue
      BY <1>s, <2>1 DEF BootInv, TransactionInv
    <3> QED BY <1>s, <2>1, <3>1 DEF TargetIsDue, Has
  <2>4. TransactionInv'
    BY <1>2, <1>c, <1>s, <2>1, <2>3 DEF TransactionInv
  <2>5. CleanInv'
    BY <1>c, <1>s, <2>1 DEF CleanInv, StopsForAReason, HasEntry
  <2> QED BY <1>1, <2>2, <2>4, <2>5 DEF BootInv
<1> QED BY <1>3, <1>4, <1>5

LEMMA SourceEntrySteps ==
  ASSUME BootInv, RemoveSourceEntry
  PROVE  BootInv'
<1>t. /\ BootTypes /\ EntriesInv /\ ebErrors \in Nat /\ ebErrors + 1 \in Nat
  BY DEF BootInv, BootTypes
<1>1. /\ ebAt = "applications" /\ ebTodo = {"entry"} /\ ebAt' \in {"finalization", "stopped"}
      /\ UNCHANGED <<ebSystem, ebNext, ebCurrent, ebDirs, ebBls, ebInfo, ebSeen, ebPrepared>>
  BY DEF RemoveSourceEntry
<1>2. /\ ebSystem.conversion /\ SeenIsOwn /\ TargetIsDue /\ "KeyError" \notin ebReports
      /\ \/ "upgrade entry left" \in ebReports
         \/ ~HasEntry("upgrade") /\ "upgrade" \notin ebDirs /\ ebBls = {}
  BY <1>1 DEF BootInv, TransactionInv, CleanInv
<1>3. SourceInv' /\ InterimInv'
  BY <1>1 DEF SourceInv, InterimInv
<1>4. CASE SameEntry /\ RemoveEntry(ebCurrent) /\ ebAt' = "finalization"
           /\ UNCHANGED <<ebReports, ebErrors>>
  <2>1. PICK number : number = ebCurrent
    OBVIOUS
  <2>2. number \in DOMAIN ebEntries /\ ebEntries[number] \in OwnLoaders
    BY <1>2, <1>4, <2>1 DEF SameEntry, SeenIsOwn
  <2>3. RemoveEntry(number) /\ ~Has(number, "other")
    BY <1>4, <2>1, <2>2 DEF Has, OwnLoaders
  <2>4. /\ DOMAIN ebEntries' \subseteq Numbers /\ ebEntries' \in [DOMAIN ebEntries' -> Loaders]
        /\ ebOrder' \in Seq(Numbers) /\ EntriesInv'
        /\ DOMAIN ebEntries' = DOMAIN ebEntries \ {number}
        /\ \A n \in DOMAIN ebEntries' : ebEntries'[n] = ebEntries[n]
    BY <1>1, <1>t, <2>3, RemoveIs
  <2>5. BootTypes'
    BY <1>1, <1>4, <1>t, <2>4 DEF BootTypes
  <2>6. ebNext \in DOMAIN ebEntries' /\ ebEntries'[ebNext] = "target"
    BY <1>2, <2>2, <2>4 DEF TargetIsDue, Has, OwnLoaders
  <2>7. TransactionInv'
    BY <1>1, <1>2, <1>4, <2>6 DEF TransactionInv, TargetIsDue, Has
  <2>8. HasEntry("upgrade")' => HasEntry("upgrade")
    BY <2>4 DEF HasEntry
  <2>9. CleanInv'
    BY <1>1, <1>2, <1>4, <2>8 DEF CleanInv, StopsForAReason
  <2> QED BY <1>3, <2>4, <2>5, <2>7, <2>9 DEF BootInv
<1>5. CASE /\ ebAt' = "finalization" /\ UNCHANGED <<ebEntries, ebOrder>>
           /\ \/ EfiFault /\ EfiReport("source entry left")
              \/ UNCHANGED <<ebReports, ebErrors>>
  <2>1. /\ ebErrors' \in Nat /\ ebReports \subseteq ebReports' /\ "KeyError" \notin ebReports'
    BY <1>2, <1>5, <1>t DEF EfiFault, EfiReport
  <2>2. BootTypes' /\ EntriesInv'
    BY <1>1, <1>5, <1>t, <2>1, EntriesKept DEF BootTypes
  <2>3. TransactionInv'
    BY <1>1, <1>2, <1>5 DEF TransactionInv, TargetIsDue, Has
  <2>4. CleanInv'
    BY <1>1, <1>2, <1>5, <2>1 DEF CleanInv, StopsForAReason, HasEntry
  <2> QED BY <1>3, <2>2, <2>3, <2>4 DEF BootInv
<1>6. CASE /\ ~SameEntry /\ UnknownNumber /\ EfiReport("KeyError") /\ ebAt' = "stopped"
           /\ UNCHANGED <<ebEntries, ebOrder, ebErrors>>
  <2>1. ebSystem.arm /\ "KeyError" \in ebReports'
    BY <1>2, <1>6 DEF UnknownNumber, SeenIsOwn, EfiReport
  <2>2. BootTypes' /\ EntriesInv'
    BY <1>1, <1>6, <1>t, EntriesKept DEF BootTypes
  <2>3. TransactionInv' /\ CleanInv'
    BY <1>1, <1>2, <1>6, <2>1 DEF TransactionInv, CleanInv, StopsForAReason
  <2> QED BY <1>3, <2>2, <2>3 DEF BootInv
<1> QED BY <1>4, <1>5, <1>6 DEF RemoveSourceEntry

LEMMA FinalSteps ==
  ASSUME BootInv, EfiFinalizationFix \/ RebootTarget
  PROVE  BootInv'
<1>t. /\ BootTypes /\ EntriesInv /\ ebErrors \in Nat /\ NoNumber \notin Numbers
      /\ DOMAIN ebEntries \subseteq Numbers
  BY MachineIs DEF BootInv, BootTypes
<1>1. CASE EfiFinalizationFix
  <2>1. /\ ebAt = "finalization" /\ ebAt' = "reboot target"
        /\ UNCHANGED <<ebSystem, ebTodo, ebEntries, ebOrder, ebCurrent, ebDirs, ebBls>>
        /\ UNCHANGED <<ebInfo, ebSeen, ebReports, ebPrepared>>
    BY <1>1 DEF EfiFinalizationFix, FinalFix, BootFix
  <2>2. \/ ebNext # NoNumber /\ UNCHANGED <<ebNext, ebErrors>>
        \/ ebNext = NoNumber /\ ebNext' = ebCurrent /\ UNCHANGED ebErrors
        \/ /\ ebNext = NoNumber /\ UNCHANGED ebNext
           /\ ebErrors' = IF ebCurrent \in DOMAIN ebEntries THEN ebErrors + 1 ELSE ebErrors
    BY <1>1 DEF EfiFinalizationFix, FinalFix, BootFix, KeepsBoot, Refused
  <2>3. ebErrors' \in Nat /\ (ebErrors' = 0 => ebErrors = 0) /\ (ebErrors' = ebErrors + 1 => ebErrors' # 0)
    BY <1>t, <2>2
  <2>4. BootTypes' /\ EntriesInv'
    BY <1>t, <2>1, <2>2, <2>3, EntriesKept DEF BootTypes
  <2>5. SourceInv' /\ InterimInv'
    BY <2>1 DEF SourceInv, InterimInv
  <2>6. TransactionInv'
    <3>1. CASE ebSystem.conversion
      <4>1. TargetIsDue
        BY <2>1, <3>1 DEF BootInv, TransactionInv
      <4>2. ebNext # NoNumber
        BY <1>t, <4>1 DEF TargetIsDue, Has
      <4>3. TargetIsDue'
        BY <2>1, <2>2, <4>1, <4>2 DEF TargetIsDue, Has
      <4> QED BY <2>1, <3>1, <4>3 DEF TransactionInv
    <3>2. CASE ~ebSystem.conversion
      <4>1. ASSUME ebErrors' = 0
            PROVE  "source" \in ebDirs /\ ebNext' \in DOMAIN ebEntries /\ ebEntries[ebNext'] = "source"
        <5>1. SourceIsDue
          BY <2>1, <2>3, <3>2, <4>1 DEF BootInv, TransactionInv
        <5>2. CASE Has(ebNext, "source")
          BY <1>t, <2>2, <5>1, <5>2 DEF SourceIsDue, Has
        <5>3. CASE ebNext = NoNumber /\ Has(ebCurrent, "source")
          BY <1>t, <2>2, <2>3, <4>1, <5>1, <5>3 DEF SourceIsDue, Has
        <5> QED BY <5>1, <5>2, <5>3 DEF SourceIsDue
      <4> QED BY <2>1, <3>2, <4>1 DEF TransactionInv, Has
    <3> QED BY <3>1, <3>2
  <2>7. CleanInv'
    BY <2>1 DEF BootInv, CleanInv, StopsForAReason, HasEntry
  <2> QED BY <2>4, <2>5, <2>6, <2>7 DEF BootInv
<1>2. CASE RebootTarget
  <2>1. /\ ebAt = "reboot target" /\ ebAt' \in {"elsewhere", "target"}
        /\ BootChoices # {} /\ ebCurrent' = Chosen /\ ebNext' = NoNumber
        /\ UNCHANGED <<ebSystem, ebTodo, ebEntries, ebOrder, ebDirs, ebBls>>
        /\ UNCHANGED <<ebInfo, ebSeen, ebReports, ebPrepared, ebErrors>>
    BY <1>2 DEF RebootTarget, FirmwareBoots
  <2>2. ebCurrent' \in Numbers
    BY <1>t, <2>1, LoaderChosen
  <2>3. BootTypes' /\ EntriesInv'
    BY <1>t, <2>1, <2>2, EntriesKept DEF BootTypes
  <2>4. SourceInv' /\ InterimInv'
    BY <2>1 DEF SourceInv, InterimInv
  <2>5. ebSystem.conversion => HasEntry("target")
    BY <2>1 DEF BootInv, TransactionInv, TargetIsDue, Has, HasEntry
  <2>6. TransactionInv' /\ CleanInv'
    BY <2>1, <2>5 DEF BootInv, TransactionInv, CleanInv, StopsForAReason, HasEntry
  <2> QED BY <2>3, <2>4, <2>6 DEF BootInv
<1> QED BY <1>1, <1>2

LEMMA BootInductive ==
  BootOrderSpec => []BootInv
<1>1. BootOrderInit => BootInv
  <2> SUFFICES ASSUME BootOrderInit PROVE BootInv
    OBVIOUS
  <2>1. IsBootSystem(ebSystem) /\ ebSystem \in BootSystems /\ NoNumber \notin Numbers
    BY MachineIs DEF BootOrderInit
  <2>2. /\ ebAt = "source" /\ ebEntries = ebSystem.entries /\ ebOrder = ebSystem.order
        /\ ebNext = ebSystem.next /\ ebCurrent = ebSystem.current /\ ebDirs = {"source", "other"}
        /\ ebReports = {} /\ ebPrepared = 0 /\ ebErrors = 0
    BY DEF BootOrderInit
  <2>3. BootTypes
    <3>1. ebOrder \in Seq(Numbers)
      BY <2>1, <2>2 DEF IsBootSystem
    <3> QED BY <2>1, <2>2, <3>1 DEF BootTypes, IsBootSystem
  <2>4. EntriesInv
    BY <2>1, <2>2 DEF EntriesInv, Has, IsBootSystem
  <2>5. SourceInv
    BY <2>1, <2>2 DEF SourceInv, Has, IsBootSystem, OwnLoaders
  <2>6. InterimInv /\ TransactionInv /\ CleanInv
    BY <2>2 DEF InterimInv, TransactionInv, CleanInv, StopsForAReason
  <2> QED BY <2>3, <2>4, <2>5, <2>6 DEF BootInv
<1>2. BootInv /\ [BootOrderNext]_ebVars => BootInv'
  <2>1. ASSUME BootInv, BootOrderNext PROVE BootInv'
    BY <2>1, PreparationSteps, WorkaroundSteps, BootSteps, RemovalSteps, TransactionSteps,
       UpdateSteps, SourceEntrySteps, FinalSteps DEF BootOrderNext
  <2>2. ASSUME BootInv, UNCHANGED ebVars PROVE BootInv'
    <3>1. /\ UNCHANGED <<ebSystem, ebAt, ebTodo, ebEntries, ebOrder, ebNext, ebCurrent, ebDirs, ebBls>>
          /\ UNCHANGED <<ebInfo, ebSeen, ebReports, ebPrepared, ebErrors>>
      BY <2>2 DEF ebVars, ebNvram
    <3>2. BootTypes'
      BY <2>2, <3>1 DEF BootInv, BootTypes
    <3>3. EntriesInv'
      BY <3>1, <2>2, EntriesKept DEF BootInv
    <3>4. SourceInv'
      BY <2>2, <3>1 DEF BootInv, SourceInv, Has
    <3>5. InterimInv'
      BY <2>2, <3>1 DEF BootInv, InterimInv, Recorded, Has
    <3>6. TransactionInv'
      BY <2>2, <3>1 DEF BootInv, TransactionInv, SourceIsDue, TargetIsDue, SeenIsOwn,
         Has, HasEntry
    <3>7. CleanInv'
      BY <2>2, <3>1 DEF BootInv, CleanInv, StopsForAReason, Has, HasEntry
    <3> QED BY <3>2, <3>3, <3>4, <3>5, <3>6, <3>7 DEF BootInv
  <2> QED BY <2>1, <2>2
<1> QED BY <1>1, <1>2, PTL DEF BootOrderSpec

(* FirmwareBootsWhatIsDue, for every machine, with any entries in any order,  *)
(* and any number of preparations and failures.                               *)
THEOREM FirmwareBoot ==
  BootOrderSpec => []FirmwareBootsWhatIsDue
<1>1. BootInv => FirmwareBootsWhatIsDue
  <2> SUFFICES ASSUME BootInv PROVE FirmwareBootsWhatIsDue
    OBVIOUS
  <2>1. PreparedBootsUpgrade
    BY UpgradeIsDue DEF PreparedBootsUpgrade
  <2>2. ASSUME ebAt = "reboot target", ebSystem.conversion \/ ebErrors = 0
        PROVE  /\ BootChoices # {}
               /\ ebEntries[Chosen] = (IF ebSystem.conversion THEN "target" ELSE "source")
    <3>1. /\ ebNext \in DOMAIN ebEntries /\ ebEntries[ebNext] \in ebDirs
          /\ ebEntries[ebNext] = (IF ebSystem.conversion THEN "target" ELSE "source")
      BY <2>2 DEF BootInv, TransactionInv, TargetIsDue, Has
    <3>2. BootChoices # {} /\ Chosen = ebNext
      BY <3>1, NextIsChosen DEF BootInv, Loadable
    <3> QED BY <3>1, <3>2
  <2> QED BY <2>1, <2>2 DEF FirmwareBootsWhatIsDue, TargetIsBooted
<1> QED BY <1>1, BootInductive, PTL

(* FirmwareIsLeftClean, for the same machines.                                *)
THEOREM FirmwareLeft ==
  BootOrderSpec => []FirmwareIsLeftClean
<1>1. BootInv => FirmwareIsLeftClean
  <2> SUFFICES ASSUME BootInv PROVE FirmwareIsLeftClean
    OBVIOUS
  <2>1. OthersKeepTheirEntries
    BY DEF BootInv, EntriesInv, TransactionInv, TargetIsDue, Has, HasEntry, OthersKeepTheirEntries
  <2>2. NoUpgradeEntryLeft /\ StopsForAReason
    BY DEF BootInv, CleanInv, NoUpgradeEntryLeft
  <2> QED BY <2>1, <2>2 DEF FirmwareIsLeftClean
<1> QED BY <1>1, BootInductive, PTL

-----------------------------------------------------------------------------
(* KernelArguments.                                                        *)

(* What the checks ask for, and the entry they make of the default one: as *)
(* it is created, and as it is left.                                       *)
ModulesAskedFor ==
    Joined({SELinuxTasks(kaSystem), LuksTasks(kaSystem), NvmeTasks(kaSystem),
            NameTasks(kaSystem), SchemeTasks(kaSystem)})
Undesired == UndesiredArgs(kaSystem, kaTasks)
EntryCreated == Grubby(kaSystem.entry, UpgradeArgs(kaSystem, kaTasks), {})
EntryLeft == Grubby(EntryCreated, {}, Undesired)
TargetLeft == Grubby(EntryLeft, ToAdd, ToRemove)

AfterTheEntry == {"boot", "configure", "done"}

TasksJoined == kaAt \notin {"checks", "inhibited"} => kaTasks = ModulesAskedFor

(* While grubby writes, a configuration is done or still to be written;    *)
(* the first of those may have the entry that was created.                 *)
EntryWritten ==
    kaAt = "entry" =>
      /\ kaTodo \in Seq(BootConfigs) /\ kaCopied \in BOOLEAN
      /\ DOMAIN kaEntry = BootConfigs
      /\ kaCopied => kaTodo # <<>> /\ kaEntry[Head(kaTodo)] = EntryCreated
      /\ \A c \in BootConfigs :
           kaEntry[c] = EntryLeft \/ \E i \in DOMAIN kaTodo : kaTodo[i] = c

EntryIsLeft ==
    kaAt \in AfterTheEntry =>
      /\ DOMAIN kaEntry = BootConfigs
      /\ \A c \in BootConfigs : kaEntry[c] = EntryLeft
      /\ kaLate = OnlyForUpgrade(kaSystem, kaTasks)

TargetIsLeft ==
    /\ kaAt = "configure" => kaTarget = kaEntry
    /\ kaAt = "done" =>
         /\ \A c \in BootConfigs : kaTarget[c] = TargetLeft
         /\ LaterKernelsAlike

KernelInv ==
    /\ kaSystem \in KernelSystems
    /\ TasksJoined /\ EntryWritten /\ EntryIsLeft /\ TargetIsLeft

-----------------------------------------------------------------------------
(* grubby without anything to do leaves the arguments as they are.         *)
LEMMA GrubbyOfNothing == \A args : Grubby(args, {}, {}) = args
BY DEF Grubby, Taken, Keys

LEMMA KernelSystemDecides ==
  ASSUME kaSystem' = kaSystem
  PROVE  BootConfigs' = BootConfigs /\ ModulesAskedFor' = ModulesAskedFor /\ MainConfig' = MainConfig
BY DEF BootConfigs, ModulesAskedFor, MainConfig

LEMMA EntryDecides ==
  ASSUME kaSystem' = kaSystem, kaTasks' = kaTasks
  PROVE  /\ Undesired' = Undesired /\ EntryCreated' = EntryCreated
         /\ EntryLeft' = EntryLeft
         /\ OnlyForUpgrade(kaSystem, kaTasks)' = OnlyForUpgrade(kaSystem, kaTasks)
BY DEF Undesired, EntryCreated, EntryLeft

LEMMA KernelStart == KernelInit => KernelInv
BY DEF KernelInit, KernelInv, TasksJoined, EntryWritten, EntryIsLeft, AfterTheEntry, TargetIsLeft

LEMMA KernelChecked ==
  ASSUME KernelInv, KernelChecks
  PROVE  KernelInv'
<1>1. /\ kaAt = "checks" /\ kaSystem' = kaSystem
      /\ \/ kaAt' = "inhibited" /\ kaTasks' = kaTasks
         \/ kaAt' = "prepare" /\ kaTasks' = ModulesAskedFor
  BY DEF KernelChecks, ModulesAskedFor
<1>2. TasksJoined'
  BY <1>1, KernelSystemDecides DEF TasksJoined
<1> QED BY <1>1, <1>2 DEF KernelInv, EntryWritten, EntryIsLeft, AfterTheEntry, TargetIsLeft

(* The entry.                                                              *)
LEMMA ConfigsAre ==
  ASSUME kaSystem \in KernelSystems
  PROVE  /\ kaSystem.configs \in Seq(BootConfigs) /\ kaSystem.configs # <<>>
         /\ MainConfig \in BootConfigs
         /\ \A c \in BootConfigs : \E i \in DOMAIN kaSystem.configs : kaSystem.configs[i] = c
<1>1. kaSystem.configs \in Seq(STRING) /\ kaSystem.configs # <<>>
  BY KernelSystemsAssumption DEF IsKernelSystem
<1>2. BootConfigs = {kaSystem.configs[i] : i \in DOMAIN kaSystem.configs}
  BY DEF BootConfigs, Range
<1>3. MainConfig \in BootConfigs
  <2>1. 1 \in DOMAIN kaSystem.configs /\ MainConfig = kaSystem.configs[1]
    BY <1>1 DEF MainConfig
  <2> QED BY <1>2, <2>1
<1>4. kaSystem.configs \in Seq(BootConfigs)
  BY <1>1, <1>2
<1> QED BY <1>1, <1>2, <1>3, <1>4

LEMMA LaterInTail ==
  ASSUME NEW S, NEW s \in Seq(S), s # <<>>, NEW i \in DOMAIN s, s[i] # Head(s)
  PROVE  \E j \in DOMAIN Tail(s) : Tail(s)[j] = s[i]
<1>1. i \in 1 .. Len(s) /\ i # 1
  OBVIOUS
<1>2. i - 1 \in 1 .. Len(Tail(s)) /\ (i - 1) + 1 = i
  BY <1>1
<1>3. Tail(s)[i - 1] = s[i]
  BY <1>1, <1>2
<1> QED BY <1>2, <1>3

LEMMA EntryPrepared ==
  ASSUME KernelInv, PrepareEntry
  PROVE  KernelInv'
<1>1. /\ kaAt = "prepare" /\ kaAt' = "entry" /\ kaSystem' = kaSystem /\ kaTasks' = kaTasks
      /\ DOMAIN kaEntry' = BootConfigs
      /\ kaTodo' = kaSystem.configs /\ kaCopied' = FALSE
  BY DEF PrepareEntry
<1>2. TasksJoined'
  BY <1>1, KernelSystemDecides DEF KernelInv, TasksJoined
<1>3. EntryWritten'
  BY <1>1, ConfigsAre, KernelSystemDecides DEF KernelInv, EntryWritten
<1> QED BY <1>1, <1>2, <1>3 DEF KernelInv, EntryIsLeft, AfterTheEntry, TargetIsLeft

LEMMA EntryIsCreated ==
  ASSUME KernelInv, CreateEntry
  PROVE  KernelInv'
<1>1. /\ kaAt = "entry" /\ kaAt' = "entry" /\ kaSystem' = kaSystem /\ kaTasks' = kaTasks
      /\ kaTodo # <<>> /\ ~kaCopied
      /\ \/ Undesired = {} /\ kaTodo' = Tail(kaTodo) /\ kaCopied' = kaCopied
         \/ Undesired # {} /\ kaTodo' = kaTodo /\ kaCopied' = TRUE
  BY DEF CreateEntry, Undesired
<1>2. PICK first : first = Head(kaTodo) /\ kaEntry' = [kaEntry EXCEPT ![first] = EntryCreated]
  BY DEF CreateEntry, EntryCreated
<1>3. /\ kaTodo \in Seq(BootConfigs) /\ DOMAIN kaEntry = BootConfigs
      /\ \A c \in BootConfigs :
           kaEntry[c] = EntryLeft \/ \E i \in DOMAIN kaTodo : kaTodo[i] = c
  BY <1>1 DEF KernelInv, EntryWritten
<1>4. first \in BootConfigs
  BY <1>1, <1>2, <1>3
<1>5. /\ DOMAIN kaEntry' = BootConfigs /\ kaEntry'[first] = EntryCreated
      /\ \A c \in BootConfigs \ {first} : kaEntry'[c] = kaEntry[c]
  BY <1>2, <1>3, <1>4
<1>6. CASE Undesired = {}
  <2>1. EntryLeft = EntryCreated
    BY <1>6, GrubbyOfNothing DEF EntryLeft
  <2>2. kaTodo' = Tail(kaTodo) /\ kaCopied' = FALSE
    BY <1>1, <1>3, <1>6 DEF KernelInv, EntryWritten
  <2>3. ASSUME NEW c \in BootConfigs, kaEntry'[c] # EntryLeft
        PROVE  \E i \in DOMAIN kaTodo' : kaTodo'[i] = c
    <3>1. c # first /\ kaEntry[c] # EntryLeft
      BY <1>5, <2>1, <2>3
    <3>2. PICK i \in DOMAIN kaTodo : kaTodo[i] = c
      BY <1>3, <3>1
    <3> QED BY <1>1, <1>2, <1>3, <2>2, <3>1, <3>2, LaterInTail
  <2>4. kaTodo' \in Seq(BootConfigs)
    BY <1>1, <1>3, <2>2
  <2>5. EntryWritten'
    BY <1>1, <1>5, <2>2, <2>3, <2>4, KernelSystemDecides, EntryDecides DEF EntryWritten
  <2> QED BY <1>1, <2>5, KernelSystemDecides
          DEF KernelInv, TasksJoined, EntryIsLeft, AfterTheEntry, TargetIsLeft
<1>7. CASE Undesired # {}
  <2>1. kaTodo' = kaTodo /\ kaCopied' = TRUE
    BY <1>1, <1>7
  <2>2. ASSUME NEW c \in BootConfigs, kaEntry'[c] # EntryLeft
        PROVE  \E i \in DOMAIN kaTodo : kaTodo[i] = c
    <3>1. CASE c = first
      <4>1. 1 \in DOMAIN kaTodo /\ kaTodo[1] = first
        BY <1>1, <1>2, <1>3
      <4> QED BY <3>1, <4>1
    <3>2. CASE c # first
      BY <1>3, <1>5, <2>2, <3>2
    <3> QED BY <3>1, <3>2
  <2>3. EntryWritten'
    BY <1>1, <1>2, <1>3, <1>5, <2>1, <2>2, KernelSystemDecides, EntryDecides DEF EntryWritten
  <2> QED BY <1>1, <2>3, KernelSystemDecides
          DEF KernelInv, TasksJoined, EntryIsLeft, AfterTheEntry, TargetIsLeft
<1> QED BY <1>6, <1>7

LEMMA EntryIsWritten ==
  ASSUME KernelInv, RemoveUndesired
  PROVE  KernelInv'
<1>1. /\ kaAt = "entry" /\ kaAt' = "entry" /\ kaSystem' = kaSystem /\ kaTasks' = kaTasks
      /\ kaCopied /\ kaTodo' = Tail(kaTodo) /\ kaCopied' = FALSE
  BY DEF RemoveUndesired
<1>2. PICK first : first = Head(kaTodo)
                     /\ kaEntry' = [kaEntry EXCEPT ![first] = Grubby(@, {}, Undesired)]
  BY DEF RemoveUndesired, Undesired
<1>3. /\ kaTodo \in Seq(BootConfigs) /\ DOMAIN kaEntry = BootConfigs
      /\ kaTodo # <<>> /\ kaEntry[first] = EntryCreated
      /\ \A c \in BootConfigs :
           kaEntry[c] = EntryLeft \/ \E i \in DOMAIN kaTodo : kaTodo[i] = c
  BY <1>1, <1>2 DEF KernelInv, EntryWritten
<1>4. first \in BootConfigs
  BY <1>2, <1>3
<1>5. /\ DOMAIN kaEntry' = BootConfigs /\ kaEntry'[first] = EntryLeft
      /\ \A c \in BootConfigs \ {first} : kaEntry'[c] = kaEntry[c]
  BY <1>2, <1>3, <1>4 DEF EntryLeft
<1>6. ASSUME NEW c \in BootConfigs, kaEntry'[c] # EntryLeft
      PROVE  \E i \in DOMAIN kaTodo' : kaTodo'[i] = c
  <2>1. c # first /\ kaEntry[c] # EntryLeft
    BY <1>5, <1>6
  <2>2. PICK i \in DOMAIN kaTodo : kaTodo[i] = c
    BY <1>3, <2>1
  <2> QED BY <1>1, <1>2, <1>3, <2>1, <2>2, LaterInTail
<1>7. kaTodo' \in Seq(BootConfigs)
  BY <1>1, <1>3
<1>8. EntryWritten'
  BY <1>1, <1>5, <1>6, <1>7, KernelSystemDecides, EntryDecides DEF EntryWritten
<1> QED BY <1>1, <1>8, KernelSystemDecides
        DEF KernelInv, TasksJoined, EntryIsLeft, AfterTheEntry, TargetIsLeft

LEMMA EntryFinished ==
  ASSUME KernelInv, FinishEntry \/ EntryCommandFails
  PROVE  KernelInv'
<1>1. CASE FinishEntry
  <2>1. /\ kaAt = "entry" /\ kaAt' = "boot" /\ kaTodo = <<>>
        /\ kaSystem' = kaSystem /\ kaTasks' = kaTasks /\ kaEntry' = kaEntry
        /\ kaLate' = OnlyForUpgrade(kaSystem, kaTasks)
    BY <1>1 DEF FinishEntry
  <2>2. DOMAIN kaTodo = {}
    BY <2>1
  <2>3. /\ DOMAIN kaEntry = BootConfigs
        /\ \A c \in BootConfigs : kaEntry[c] = EntryLeft
    BY <2>1, <2>2 DEF KernelInv, EntryWritten
  <2>4. TasksJoined'
    BY <2>1, KernelSystemDecides DEF KernelInv, TasksJoined
  <2>5. EntryIsLeft'
    BY <2>1, <2>3, KernelSystemDecides, EntryDecides DEF EntryIsLeft
  <2> QED BY <2>1, <2>4, <2>5 DEF KernelInv, EntryWritten, TargetIsLeft
<1>2. CASE EntryCommandFails
  <2>1. /\ kaAt = "entry" /\ kaAt' = "prepare" /\ kaSystem' = kaSystem /\ kaTasks' = kaTasks
    BY <1>2 DEF EntryCommandFails
  <2>2. TasksJoined'
    BY <2>1, KernelSystemDecides DEF KernelInv, TasksJoined
  <2> QED BY <2>1, <2>2 DEF KernelInv, EntryWritten, EntryIsLeft, AfterTheEntry, TargetIsLeft
<1> QED BY <1>1, <1>2

(* The target kernel.                                                      *)
LEMMA KernelInstalled ==
  ASSUME KernelInv, InstallTargetKernel
  PROVE  KernelInv'
<1>1. /\ kaAt = "boot" /\ kaAt' \in {"configure", "unknown kernel"} /\ kaTarget' = kaEntry
      /\ UNCHANGED <<kaSystem, kaTasks, kaLate, kaEntry>>
  BY DEF InstallTargetKernel
<1>2. TasksJoined'
  BY <1>1, KernelSystemDecides DEF KernelInv, TasksJoined
<1>3. EntryIsLeft'
  BY <1>1, KernelSystemDecides, EntryDecides DEF KernelInv, EntryIsLeft, AfterTheEntry
<1> QED BY <1>1, <1>2, <1>3 DEF KernelInv, EntryWritten, TargetIsLeft

LEMMA KernelConfigured ==
  ASSUME KernelInv, ConfigureKernel
  PROVE  KernelInv'
<1>1. /\ kaAt = "configure" /\ kaAt' = "done"
      /\ UNCHANGED <<kaSystem, kaTasks, kaLate, kaEntry>>
      /\ \/ /\ ToAdd \cup ToRemove = {} /\ kaTarget' = kaTarget
         \/ /\ kaTarget' = Configured(kaTarget)
            /\ \/ kaDefault' = DefaultArgs(kaTarget')
               \/ "not the default" \in kaReports'
  BY DEF ConfigureKernel
<1>2. /\ kaTarget = kaEntry /\ DOMAIN kaEntry = BootConfigs
      /\ \A c \in BootConfigs : kaEntry[c] = EntryLeft
  BY <1>1 DEF KernelInv, EntryIsLeft, AfterTheEntry, TargetIsLeft
<1>3. ToAdd' = ToAdd /\ ToRemove' = ToRemove
  BY <1>1 DEF ToAdd, ToRemove
<1>4. /\ DOMAIN kaTarget' = BootConfigs
      /\ \A c \in BootConfigs : kaTarget'[c] = TargetLeft
  <2>1. CASE ToAdd \cup ToRemove = {} /\ kaTarget' = kaTarget
    <3>1. ToAdd = {} /\ ToRemove = {}
      BY <2>1
    <3>2. TargetLeft = EntryLeft
      BY <3>1, GrubbyOfNothing DEF TargetLeft
    <3> QED BY <1>2, <2>1, <3>2
  <2>2. CASE kaTarget' = Configured(kaTarget)
    BY <1>2, <2>2 DEF Configured, TargetLeft
  <2> QED BY <1>1, <2>1, <2>2
<1>5. LaterKernelsAlike'
  BY <1>1, <1>3, KernelSystemDecides DEF LaterKernelsAlike, DefaultArgs
<1>6. TargetLeft' = TargetLeft /\ BootConfigs' = BootConfigs
  BY <1>1, <1>3, EntryDecides, KernelSystemDecides DEF TargetLeft
<1>7. TargetIsLeft'
  BY <1>1, <1>4, <1>5, <1>6 DEF TargetIsLeft
<1>8. TasksJoined'
  BY <1>1, KernelSystemDecides DEF KernelInv, TasksJoined
<1>9. EntryIsLeft'
  BY <1>1, KernelSystemDecides, EntryDecides DEF KernelInv, EntryIsLeft, AfterTheEntry
<1> QED BY <1>1, <1>7, <1>8, <1>9 DEF KernelInv, EntryWritten

LEMMA KernelFailed ==
  ASSUME KernelInv, ConfigureFails
  PROVE  KernelInv'
<1>1. kaAt = "configure" /\ kaAt' = "failed" /\ kaSystem' = kaSystem /\ kaTasks' = kaTasks
  BY DEF ConfigureFails
<1>2. TasksJoined'
  BY <1>1, KernelSystemDecides DEF KernelInv, TasksJoined
<1> QED BY <1>1, <1>2 DEF KernelInv, EntryWritten, EntryIsLeft, AfterTheEntry, TargetIsLeft

LEMMA KernelUnchanged ==
  ASSUME KernelInv, UNCHANGED kaVars
  PROVE  KernelInv'
<1>1. UNCHANGED <<kaSystem, kaAt, kaTasks, kaLate, kaTodo, kaCopied, kaEntry, kaTarget,
                  kaDefault, kaReports>>
  BY DEF kaVars
<1>2. ToAdd' = ToAdd /\ ToRemove' = ToRemove
  BY <1>1 DEF ToAdd, ToRemove
<1>3. TargetLeft' = TargetLeft
  BY <1>1, <1>2, EntryDecides DEF TargetLeft
<1>4. LaterKernelsAlike' = LaterKernelsAlike
  BY <1>1, <1>2, KernelSystemDecides DEF LaterKernelsAlike
<1>5. TasksJoined' /\ EntryWritten'
  BY <1>1, KernelSystemDecides, EntryDecides DEF KernelInv, TasksJoined, EntryWritten
<1>6. EntryIsLeft' /\ TargetIsLeft'
  BY <1>1, <1>3, <1>4, KernelSystemDecides, EntryDecides DEF KernelInv, EntryIsLeft, TargetIsLeft
<1> QED BY <1>1, <1>5, <1>6 DEF KernelInv

LEMMA KernelInductive == KernelSpec => []KernelInv
<1>1. KernelInv /\ [KernelNext]_kaVars => KernelInv'
  BY KernelChecked, EntryPrepared, EntryIsCreated, EntryIsWritten, EntryFinished,
     KernelInstalled, KernelConfigured, KernelFailed, KernelUnchanged DEF KernelNext
<1> QED BY KernelStart, <1>1, PTL DEF KernelSpec

-----------------------------------------------------------------------------
(* What is taken from the upgrade entry is given back to the target, or is *)
(* taken from it too.                                                      *)
LEMMA TakenIsGivenBack ==
  ASSUME kaTasks = ModulesAskedFor, NEW b \in kaTasks.upRemove
  PROVE  b \in kaTasks.remove \/ b \in kaTasks.add
<1> DEFINE asked == {SELinuxTasks(kaSystem), LuksTasks(kaSystem), NvmeTasks(kaSystem),
                     NameTasks(kaSystem), SchemeTasks(kaSystem)}
<1>1. /\ kaTasks.upRemove = UNION {t.upRemove : t \in asked}
      /\ kaTasks.remove = UNION {t.remove : t \in asked}
      /\ kaTasks.add = UNION {t.add : t \in asked}
  BY DEF ModulesAskedFor, Joined, NoTasks
<1>2. PICK t \in asked : b \in t.upRemove
  BY <1>1
<1>3. b \in t.remove \/ b \in t.add
  <2>1. CASE t = SELinuxTasks(kaSystem)
    BY <1>2, <2>1 DEF SELinuxTasks, NoTasks
  <2>2. CASE t = LuksTasks(kaSystem)
    BY <1>2, <2>2 DEF LuksTasks, NoTasks
  <2>3. CASE t = NvmeTasks(kaSystem)
    BY <1>2, <2>3 DEF NvmeTasks, NoTasks
  <2>4. CASE t = NameTasks(kaSystem)
    BY <1>2, <2>4 DEF NameTasks, ForBoth, NoTasks
  <2>5. CASE t = SchemeTasks(kaSystem)
    BY <1>2, <2>5 DEF SchemeTasks, ForBoth, NoTasks
  <2> QED BY <2>1, <2>2, <2>3, <2>4, <2>5
<1> QED BY <1>1, <1>2, <1>3

(* An argument that stays takes its key along.                             *)
LEMMA KeyOf ==
  ASSUME NEW a, NEW args, a \in args \/ Bare(a[1]) \in args
  PROVE  a[1] \in Keys(args)
<1>1. ASSUME Bare(a[1]) \in args PROVE a[1] \in Keys(args)
  <2>1. Bare(a[1])[1] = a[1]
    BY DEF Bare
  <2> QED BY <1>1, <2>1 DEF Keys
<1> QED BY <1>1 DEF Keys

LEMMA KernelBoots == KernelInv => TargetBootsAsTheSource
<1> SUFFICES ASSUME KernelInv PROVE TargetBootsAsTheSource
  OBVIOUS
<1>1. RemovalWins
  <2> SUFFICES ASSUME kaAt \in AfterTheEntry, NEW c \in BootConfigs, NEW a \in kaEntry[c]
               PROVE  ~Taken(a, UndesiredArgs(kaSystem, kaTasks))
    BY DEF RemovalWins, AfterTheEntry
  <2>1. a \in EntryLeft
    BY DEF KernelInv, EntryIsLeft
  <2> QED BY <2>1 DEF EntryLeft, Grubby, Undesired
<1>2. NothingLeftOfTheUpgrade
  <2> SUFFICES ASSUME kaAt = "done", NEW c \in BootConfigs, NEW a \in kaTarget[c]
               PROVE  a \in kaSystem.cmdline \cup kaSystem.entry \cup kaTasks.add
    BY DEF NothingLeftOfTheUpgrade
  <2>1. a \in TargetLeft /\ kaLate = OnlyForUpgrade(kaSystem, kaTasks)
    BY DEF KernelInv, TargetIsLeft, EntryIsLeft, AfterTheEntry
  <2>2. CASE a \in ToAdd
    BY <2>2 DEF ToAdd
  <2>3. CASE a \in EntryLeft /\ ~Taken(a, ToRemove)
    <3>1. a \in EntryCreated /\ a \notin Undesired
      BY <2>3 DEF EntryLeft, Grubby, Taken
    <3>2. a \in kaSystem.entry \/ a \in UpgradeArgs(kaSystem, kaTasks)
      BY <3>1 DEF EntryCreated, Grubby
    <3>3. a \notin kaLate
      BY <2>3 DEF Taken, ToRemove
    <3> QED BY <2>1, <3>1, <3>2, <3>3 DEF OnlyForUpgrade, Undesired
  <2> QED BY <2>1, <2>2, <2>3 DEF TargetLeft, Grubby
<1>3. ArgumentsSurvive
  <2> SUFFICES ASSUME kaAt = "done", NEW c \in BootConfigs, NEW a \in kaSystem.entry,
                      ~Taken(a, kaTasks.remove), ~Taken(a, LiveUndesired(kaSystem)),
                      a[1] \notin Keys(UpgradeArgs(kaSystem, kaTasks) \cup kaTasks.add)
               PROVE  a \in kaTarget[c]
    BY DEF ArgumentsSurvive
  <2>1. /\ kaTarget[c] = TargetLeft /\ kaLate = OnlyForUpgrade(kaSystem, kaTasks)
        /\ kaTasks = ModulesAskedFor
    BY DEF KernelInv, TargetIsLeft, EntryIsLeft, AfterTheEntry, TasksJoined
  <2>2. a[1] \notin Keys(UpgradeArgs(kaSystem, kaTasks)) /\ a[1] \notin Keys(kaTasks.add)
    BY DEF Keys
  <2>3. a \in EntryCreated
    <3>1. ~Taken(a, {})
      BY DEF Taken
    <3> QED BY <2>2, <3>1 DEF EntryCreated, Grubby
  <2>4. ~Taken(a, Undesired)
    <3> SUFFICES ASSUME NEW b, b = a \/ b = Bare(a[1]), b \in kaTasks.upRemove PROVE FALSE
      BY DEF Taken, Undesired, UndesiredArgs
    <3>1. b \notin kaTasks.remove
      BY DEF Taken
    <3>2. b \in kaTasks.add
      BY <2>1, <3>1, TakenIsGivenBack
    <3> QED BY <2>2, <3>2, KeyOf
  <2>5. a \in EntryLeft
    BY <2>3, <2>4 DEF EntryLeft, Grubby, Keys
  <2>6. ~Taken(a, ToRemove)
    <3> SUFFICES ASSUME NEW b, b = a \/ b = Bare(a[1]), b \in kaLate PROVE FALSE
      BY DEF Taken, ToRemove
    <3>1. b \in UpgradeArgs(kaSystem, kaTasks)
      BY <2>1 DEF OnlyForUpgrade
    <3> QED BY <2>2, <3>1, KeyOf
  <2> QED BY <2>1, <2>2, <2>5, <2>6 DEF TargetLeft, Grubby, ToAdd
<1>4. FilesAgree
  BY DEF KernelInv, TargetIsLeft, FilesAgree
<1>5. LaterKernelsAlike
  BY DEF KernelInv, TargetIsLeft, LaterKernelsAlike
<1> QED BY <1>1, <1>2, <1>3, <1>4, <1>5 DEF TargetBootsAsTheSource

(* Whatever the arguments of the source, its hardware and its settings are *)
(* and however often grubby fails: the upgrade boots without what it must  *)
(* not have, and the target with the arguments of the source and those     *)
(* actors asked for, no more and no less, from every configuration file    *)
(* (addupgradebootentry, kernelcmdlineconfig).                             *)
THEOREM TargetKernelBoots == KernelSpec => []TargetBootsAsTheSource
BY KernelInductive, KernelBoots, PTL

-----------------------------------------------------------------------------
(* The parts of the invariant of the initramfs: what has been copied of the *)
(* files of the host is the host's;                                         *)
HostFilesCopied ==
  /\ inAt \in {"checks", "userspace"} => inCopied = 0
  /\ inAt \in {"copying", "boot files", "prepared"} =>
       /\ inCopied \in 0 .. Len(inSystem.copies)
       /\ inAt # "copying" => inCopied = Len(inSystem.copies)
       /\ \A i \in 1 .. inCopied :
            /\ Len(inSystem.copies[i]) = 2 =>
                 \/ /\ inSystem.copies[i] \in DOMAIN inFiles
                    /\ inFiles[inSystem.copies[i]] = "host"
                 \/ <<inSystem.copies[i][1]>> \in ToSet(inSystem.copies)
            /\ Len(inSystem.copies[i]) = 1 => \A f \in DOMAIN inFiles :
                 f[1] = inSystem.copies[i][1] => inFiles[f] = "host"

(* what is not left to be done of the boot files is of this run;            *)
BootFilesMade ==
  /\ inBoot \in [BootParts -> Nat] /\ inRun \in Nat
  /\ inAt \in {"boot files", "prepared"} =>
       /\ inTodo \in Seq(BootParts \cup {"generate"})
       /\ inAt = "prepared" => inTodo = <<>>
       /\ \/ "generate" \in ToSet(inTodo)
          \/ inImage = UpgradeImage
       /\ \A p \in BootParts : p \in ToSet(inTodo) \/ inBoot[p] = inRun

(* the checks have looked for conflicts;                                    *)
NoneInConflict ==
  inAt \in {"userspace", "copying", "boot files", "prepared"} => ~InConflict

(* the kernel and the initramfs of the target are those of the scans.       *)
KernelScanned ==
  inKernel \in {NoKernel, IF TargetKernel(SourceType) # NoKernel
                          THEN TargetKernel(SourceType)
                          ELSE TargetKernel("ordinary")}
TargetGenerated == inAt = "done" => inTarget = TargetImage

InitramfsInv ==
  /\ inSystem \in InitramfsSystems
  /\ HostFilesCopied /\ BootFilesMade /\ NoneInConflict
  /\ KernelScanned /\ TargetGenerated

LEMMA ElementAt ==
  ASSUME NEW S, NEW s \in Seq(S), NEW x \in ToSet(s)
  PROVE  x \in S /\ \E i \in 1 .. Len(s) : x = s[i]
<1>1. PICK i \in DOMAIN s : x = s[i]
  BY DEF ToSet
<1>2. i \in 1 .. Len(s)
  OBVIOUS
<1> QED BY <1>1, <1>2

LEMMA InitramfsSystemDecides ==
  ASSUME inSystem \in InitramfsSystems
  PROVE  IsInitramfsSystem(inSystem)
BY InitramfsAssumption

LEMMA InitramfsStarts == InitramfsInit => InitramfsInv
BY DEF InitramfsInit, InitramfsInv, HostFilesCopied, BootFilesMade, NoneInConflict, KernelScanned,
       TargetGenerated, BootParts

(* What is decided by the system alone.                                     *)
LEMMA SystemDecides ==
  ASSUME inSystem' = inSystem
  PROVE  /\ InConflict' = InConflict
         /\ \A type : TargetKernel(type)' = TargetKernel(type)
         /\ SourceType' = SourceType /\ TargetImage' = TargetImage
         /\ BootFileSteps' = BootFileSteps
<1>1. InConflict' = InConflict
  BY DEF InConflict, Conflicts, Requested, PathsOf, Requests, AllRequests, OwnRequests
<1>2. SourceType' = SourceType /\ BootFileSteps' = BootFileSteps
  BY DEF SourceType, BootFileSteps
<1>3. \A type : TargetKernel(type)' = TargetKernel(type)
  BY DEF TargetKernel, OfType
<1>4. TargetImage' = TargetImage
  BY DEF TargetImage, TargetDrivers, NeedsDepmod, Staged, FirstOf, Sources, Requested, Requests,
         AllRequests, OwnRequests
<1> QED BY <1>1, <1>2, <1>3, <1>4

LEMMA ImageDecided ==
  ASSUME inSystem' = inSystem, inFiles' = inFiles
  PROVE  UpgradeImage' = UpgradeImage
<1>1. AllRequests' = AllRequests
  BY DEF AllRequests, OwnRequests
<1>2. \A messages, kind : /\ Requests(messages, kind)' = Requests(messages, kind)
                          /\ Requested(messages, kind)' = Requested(messages, kind)
  BY <1>1 DEF Requested, Requests
<1>3. \A messages, kind : Staged(messages, kind)' = Staged(messages, kind)
  <2>1. \A places : FirstOf(places)' = FirstOf(places)
    BY <1>1 DEF FirstOf
  <2>2. \A messages, kind, n : Sources(messages, kind, n)' = Sources(messages, kind, n)
    BY <1>1, <1>2 DEF Sources
  <2> QED BY <1>2, <2>1, <2>2 DEF Staged
<1>4. ForUpgrade' = ForUpgrade
  BY DEF ForUpgrade
<1>5. /\ Staged(ForUpgrade, "dracut")' = Staged(ForUpgrade, "dracut")
      /\ Staged(ForUpgrade, "kernel")' = Staged(ForUpgrade, "kernel")
      /\ Requested(ForUpgrade, "dracut")' = Requested(ForUpgrade, "dracut")
      /\ Requested(ForUpgrade, "kernel")' = Requested(ForUpgrade, "kernel")
  BY <1>2, <1>3, <1>4
<1>6. DracutFound' = DracutFound
  BY <1>5 DEF DracutFound
<1>7. DriversFound' = DriversFound
  BY <1>5 DEF DriversFound
<1> QED BY <1>5, <1>6, <1>7 DEF UpgradeImage

LEMMA InitramfsChecked ==
  ASSUME InitramfsInv, CheckInitramfsTasks
  PROVE  InitramfsInv'
<1>1. /\ inAt = "checks" /\ inAt' = (IF InConflict \/ KernelsUnsafe THEN "inhibited" ELSE "userspace")
      /\ UNCHANGED <<inSystem, inRun, inCopied, inBoot, inKernel>>
  BY DEF CheckInitramfsTasks
<1>2. HostFilesCopied'
  BY <1>1 DEF InitramfsInv, HostFilesCopied
<1>3. BootFilesMade'
  BY <1>1 DEF InitramfsInv, BootFilesMade
<1>4. NoneInConflict'
  BY <1>1, SystemDecides DEF NoneInConflict
<1>5. KernelScanned'
  BY <1>1, SystemDecides DEF InitramfsInv, KernelScanned
<1>6. TargetGenerated'
  BY <1>1 DEF TargetGenerated
<1> QED BY <1>1, <1>2, <1>3, <1>4, <1>5, <1>6 DEF InitramfsInv

LEMMA PackagesInstalled ==
  ASSUME InitramfsInv, InstallInitramDeps
  PROVE  InitramfsInv'
<1>1. /\ inAt = "userspace" /\ inAt' \in {"copying", "stopped"}
      /\ UNCHANGED <<inSystem, inRun, inCopied, inBoot, inKernel>>
  BY DEF InstallInitramDeps
<1>2. inCopied = 0
  BY <1>1 DEF InitramfsInv, HostFilesCopied
<1>3. HostFilesCopied'
  <2>1. inSystem.copies \in Seq(Seq(STRING))
    BY InitramfsSystemDecides DEF InitramfsInv, IsInitramfsSystem
  <2>2. 0 \in 0 .. Len(inSystem.copies) /\ 1 .. 0 = {}
    BY <2>1
  <2>3. inSystem' = inSystem /\ inCopied' = 0 /\ inAt' \notin {"boot files", "prepared"}
    BY <1>1, <1>2
  <2> QED BY <2>2, <2>3 DEF HostFilesCopied
<1>4. BootFilesMade'
  BY <1>1 DEF InitramfsInv, BootFilesMade
<1>5. NoneInConflict'
  BY <1>1, SystemDecides DEF InitramfsInv, NoneInConflict
<1>6. KernelScanned'
  BY <1>1, SystemDecides DEF InitramfsInv, KernelScanned
<1>7. TargetGenerated'
  BY <1>1 DEF TargetGenerated
<1> QED BY <1>1, <1>3, <1>4, <1>5, <1>6, <1>7 DEF InitramfsInv

(* What a copy leaves of the files there are.                               *)
LEMMA CopyOneIs ==
  ASSUME NEW files, NEW dst, Len(dst) \in {1, 2}
  PROVE  /\ \A f \in DOMAIN files :
              (Len(dst) = 2 \/ f[1] # dst[1]) => f \in DOMAIN CopyOne(files, dst)
         /\ \A f \in DOMAIN CopyOne(files, dst) :
              \/ CopyOne(files, dst)[f] = "host"
              \/ f \in DOMAIN files /\ CopyOne(files, dst)[f] = files[f]
         /\ Len(dst) = 2 => /\ dst \in DOMAIN CopyOne(files, dst)
                            /\ CopyOne(files, dst)[dst] = "host"
         /\ Len(dst) = 1 => \A f \in DOMAIN CopyOne(files, dst) :
              f[1] = dst[1] => CopyOne(files, dst)[f] = "host"
<1> DEFINE kept == IF Len(dst) = 1 THEN {f \in DOMAIN files : f[1] # dst[1]}
                                   ELSE DOMAIN files
           new == IF Len(dst) = 1 THEN {<<dst[1], "own">>} ELSE {dst}
<1>1. CopyOne(files, dst) = [f \in kept \cup new |-> IF f \in new THEN "host" ELSE files[f]]
  BY DEF CopyOne
<1>2. /\ Len(dst) = 1 => kept = {f \in DOMAIN files : f[1] # dst[1]}
      /\ Len(dst) = 2 => kept = DOMAIN files /\ new = {dst}
      /\ kept \subseteq DOMAIN files
  OBVIOUS
<1> HIDE DEF kept, new
<1> QED BY <1>1, <1>2

LEMMA HostFileCopied ==
  ASSUME InitramfsInv, CopyHostFile
  PROVE  InitramfsInv'
<1>1. /\ inAt = "copying" /\ inCopied < Len(inSystem.copies)
      /\ \/ /\ inFiles' = CopyOne(inFiles, inSystem.copies[inCopied + 1])
            /\ inCopied' = inCopied + 1 /\ inAt' = "copying"
         \/ inAt' = "stopped"
      /\ UNCHANGED <<inSystem, inRun, inBoot, inKernel>>
  BY DEF CopyHostFile
<1>2. HostFilesCopied'
  <2>1. SUFFICES ASSUME inAt' = "copying"
                 PROVE  HostFilesCopied'
    BY <1>1 DEF HostFilesCopied
  <2>2. /\ inCopied \in 0 .. Len(inSystem.copies) /\ inSystem.copies \in Seq(Seq(STRING))
        /\ Len(inSystem.copies) \in Nat
        /\ \A i \in 1 .. Len(inSystem.copies) : Len(inSystem.copies[i]) \in {1, 2}
    <3>1. inCopied \in 0 .. Len(inSystem.copies)
      BY <1>1 DEF InitramfsInv, HostFilesCopied
    <3>2. /\ inSystem.copies \in Seq(Seq(STRING))
          /\ \A i \in DOMAIN inSystem.copies : Len(inSystem.copies[i]) \in {1, 2}
      BY InitramfsSystemDecides DEF InitramfsInv, IsInitramfsSystem
    <3> QED BY <3>1, <3>2
  <2>3. PICK dst : dst = inSystem.copies[inCopied + 1]
    OBVIOUS
  <2>4. /\ inCopied + 1 \in 1 .. Len(inSystem.copies) /\ inCopied' = inCopied + 1
        /\ \A i \in 1 .. inCopied + 1 : i # inCopied + 1 => i \in 1 .. inCopied
    BY <1>1, <2>1, <2>2
  <2>5. inFiles' = CopyOne(inFiles, dst) /\ Len(dst) \in {1, 2}
    BY <1>1, <2>1, <2>2, <2>3, <2>4
  <2>6. ASSUME NEW i \in 1 .. inCopied + 1, Len(inSystem.copies[i]) = 2
        PROVE  \/ inSystem.copies[i] \in DOMAIN inFiles' /\ inFiles'[inSystem.copies[i]] = "host"
               \/ <<inSystem.copies[i][1]>> \in ToSet(inSystem.copies)
    <3>1. CASE i = inCopied + 1
      BY <2>3, <2>5, <2>6, <3>1, CopyOneIs
    <3>2. CASE i # inCopied + 1
      <4>1. \/ /\ inSystem.copies[i] \in DOMAIN inFiles
               /\ inFiles[inSystem.copies[i]] = "host"
            \/ <<inSystem.copies[i][1]>> \in ToSet(inSystem.copies)
        BY <1>1, <2>4, <2>6, <3>2 DEF InitramfsInv, HostFilesCopied
      <4>2. CASE Len(dst) = 1 /\ inSystem.copies[i][1] = dst[1]
        <5>1. dst \in Seq(STRING)
          BY <2>2, <2>3, <2>4
        <5>2. dst = <<dst[1]>>
          BY <4>2, <5>1
        <5>3. dst \in ToSet(inSystem.copies)
          BY <2>2, <2>3, <2>4 DEF ToSet
        <5> QED BY <4>2, <5>2, <5>3
      <4>3. CASE Len(dst) = 2 \/ inSystem.copies[i][1] # dst[1]
        BY <2>5, <4>1, <4>3, CopyOneIs
      <4> QED BY <2>5, <4>2, <4>3
    <3> QED BY <3>1, <3>2
  <2>7. ASSUME NEW i \in 1 .. inCopied + 1, Len(inSystem.copies[i]) = 1,
               NEW f \in DOMAIN inFiles', f[1] = inSystem.copies[i][1]
        PROVE  inFiles'[f] = "host"
    <3>1. CASE i = inCopied + 1
      BY <2>3, <2>5, <2>7, <3>1, CopyOneIs
    <3>2. CASE i # inCopied + 1
      <4>1. f \in DOMAIN inFiles => inFiles[f] = "host"
        BY <1>1, <2>4, <2>7, <3>2 DEF InitramfsInv, HostFilesCopied
      <4> QED BY <2>5, <2>7, <4>1, CopyOneIs
    <3> QED BY <3>1, <3>2
  <2> QED BY <1>1, <2>1, <2>2, <2>4, <2>6, <2>7 DEF HostFilesCopied
<1>3. BootFilesMade'
  BY <1>1 DEF InitramfsInv, BootFilesMade
<1>4. NoneInConflict'
  BY <1>1, SystemDecides DEF InitramfsInv, NoneInConflict
<1>5. KernelScanned'
  BY <1>1, SystemDecides DEF InitramfsInv, KernelScanned
<1>6. TargetGenerated'
  BY <1>1 DEF TargetGenerated
<1> QED BY <1>1, <1>2, <1>3, <1>4, <1>5, <1>6 DEF InitramfsInv
LEMMA BootFileStepsAre ==
  /\ BootFileSteps \in Seq(BootParts \cup {"generate"})
  /\ ToSet(BootFileSteps) = BootParts \cup {"generate"}
<1> DEFINE S == BootParts \cup {"generate"}
<1>1. ASSUME NEW a \in S, NEW b \in S, NEW c \in S, NEW d \in S, S = {a, b, c, d}
      PROVE  <<a, b, c, d>> \in Seq(S) /\ ToSet(<<a, b, c, d>>) = S
  <2>1. DOMAIN <<a, b, c, d>> = {1, 2, 3, 4}
    OBVIOUS
  <2>2. /\ <<a, b, c, d>>[1] = a /\ <<a, b, c, d>>[2] = b /\ <<a, b, c, d>>[3] = c
        /\ <<a, b, c, d>>[4] = d
    OBVIOUS
  <2>3. ToSet(<<a, b, c, d>>) = {a, b, c, d}
    BY <2>1, <2>2, Zenon DEF ToSet
  <2>4. <<a, b, c, d>> \in Seq(S)
    OBVIOUS
  <2> QED BY <1>1, <2>3, <2>4
<1>2. S = {"generate", "kernel", "image", "hmac"} /\ S = {"kernel", "hmac", "generate", "image"}
  BY DEF BootParts
<1>3. BootFileSteps \in {<<"kernel", "hmac", "generate", "image">>,
                         <<"generate", "kernel", "image", "hmac">>}
  BY DEF BootFileSteps
<1> HIDE DEF S
<1>4. "generate" \in S /\ "kernel" \in S /\ "image" \in S /\ "hmac" \in S
  BY <1>2
<1>5. BootFileSteps \in Seq(S) /\ ToSet(BootFileSteps) = S
  <2>1. CASE BootFileSteps = <<"kernel", "hmac", "generate", "image">>
    <3>1. /\ <<"kernel", "hmac", "generate", "image">> \in Seq(S)
          /\ ToSet(<<"kernel", "hmac", "generate", "image">>) = S
      BY <1>1, <1>2, <1>4
    <3> QED BY <2>1, <3>1
  <2>2. CASE BootFileSteps = <<"generate", "kernel", "image", "hmac">>
    <3>1. /\ <<"generate", "kernel", "image", "hmac">> \in Seq(S)
          /\ ToSet(<<"generate", "kernel", "image", "hmac">>) = S
      BY <1>1, <1>2, <1>4
    <3> QED BY <2>2, <3>1
  <2> QED BY <1>3, <2>1, <2>2
<1> QED BY <1>5 DEF S

LEMMA BootFilesStarted ==
  ASSUME InitramfsInv, StartBootFiles
  PROVE  InitramfsInv'
<1>1. /\ inAt = "copying" /\ inAt' \in {"boot files", "stopped"}
      /\ inCopied = Len(inSystem.copies) /\ inTodo' = BootFileSteps
      /\ UNCHANGED <<inSystem, inRun, inFiles, inCopied, inBoot, inKernel>>
  BY DEF StartBootFiles
<1>2. HostFilesCopied'
  BY <1>1 DEF InitramfsInv, HostFilesCopied
<1>3. BootFilesMade'
  BY <1>1, BootFileStepsAre DEF InitramfsInv, BootFilesMade
<1>4. NoneInConflict'
  BY <1>1, SystemDecides DEF InitramfsInv, NoneInConflict
<1>5. KernelScanned'
  BY <1>1, SystemDecides DEF InitramfsInv, KernelScanned
<1>6. TargetGenerated'
  BY <1>1 DEF TargetGenerated
<1> QED BY <1>1, <1>2, <1>3, <1>4, <1>5, <1>6 DEF InitramfsInv

LEMMA InitramfsGenerated ==
  ASSUME InitramfsInv, Generate
  PROVE  InitramfsInv'
<1>1. /\ inAt = "boot files" /\ inTodo # <<>> /\ Head(inTodo) = "generate"
      /\ \/ inImage' = UpgradeImage /\ inTodo' = Tail(inTodo) /\ inAt' = "boot files"
         \/ inAt' = "stopped"
      /\ UNCHANGED <<inSystem, inRun, inFiles, inCopied, inBoot, inKernel>>
  BY DEF Generate
<1>2. HostFilesCopied'
  BY <1>1 DEF InitramfsInv, HostFilesCopied
<1>3. BootFilesMade'
  <2>1. SUFFICES ASSUME inAt' = "boot files"
                 PROVE  BootFilesMade'
    BY <1>1 DEF InitramfsInv, BootFilesMade
  <2>2. inTodo \in Seq(BootParts \cup {"generate"})
    BY <1>1 DEF InitramfsInv, BootFilesMade
  <2>3. /\ Tail(inTodo) \in Seq(BootParts \cup {"generate"})
        /\ ToSet(inTodo) = {"generate"} \cup ToSet(Tail(inTodo))
    BY <1>1, <2>2, HeadAndTail
  <2>4. "generate" \notin BootParts
    BY DEF BootParts
  <2>5. UpgradeImage' = UpgradeImage
    BY <1>1, ImageDecided
  <2> QED BY <1>1, <2>1, <2>3, <2>4, <2>5 DEF InitramfsInv, BootFilesMade
<1>4. NoneInConflict'
  BY <1>1, SystemDecides DEF InitramfsInv, NoneInConflict
<1>5. KernelScanned'
  BY <1>1, SystemDecides DEF InitramfsInv, KernelScanned
<1>6. TargetGenerated'
  BY <1>1 DEF TargetGenerated
<1> QED BY <1>1, <1>2, <1>3, <1>4, <1>5, <1>6 DEF InitramfsInv

LEMMA BootFileCopied ==
  ASSUME InitramfsInv, CopyBootFile
  PROVE  InitramfsInv'
<1>1. /\ inAt = "boot files" /\ inTodo # <<>> /\ Head(inTodo) \in BootParts
      /\ \/ /\ inBoot' = [inBoot EXCEPT ![Head(inTodo)] = inRun]
            /\ inTodo' = Tail(inTodo) /\ inAt' = "boot files"
         \/ inAt' = "stopped" /\ inBoot' = inBoot
      /\ UNCHANGED <<inSystem, inRun, inFiles, inCopied, inImage, inKernel>>
  BY DEF CopyBootFile
<1>2. HostFilesCopied'
  BY <1>1 DEF InitramfsInv, HostFilesCopied
<1>3. BootFilesMade'
  <2>1. SUFFICES ASSUME inAt' = "boot files"
                 PROVE  BootFilesMade'
    BY <1>1 DEF InitramfsInv, BootFilesMade
  <2>2. inTodo \in Seq(BootParts \cup {"generate"})
    BY <1>1 DEF InitramfsInv, BootFilesMade
  <2>3. PICK part : part = Head(inTodo)
    OBVIOUS
  <2>4. /\ Tail(inTodo) \in Seq(BootParts \cup {"generate"})
        /\ ToSet(inTodo) = {part} \cup ToSet(Tail(inTodo))
    BY <1>1, <2>2, <2>3, HeadAndTail
  <2>5. part # "generate" /\ part \in BootParts
    BY <1>1, <2>3 DEF BootParts
  <2>6. UpgradeImage' = UpgradeImage
    BY <1>1, ImageDecided
  <2>7. inBoot' = [inBoot EXCEPT ![part] = inRun] /\ inTodo' = Tail(inTodo)
    BY <1>1, <2>1, <2>3
  <2> QED BY <1>1, <2>1, <2>4, <2>5, <2>6, <2>7 DEF InitramfsInv, BootFilesMade
<1>4. NoneInConflict'
  BY <1>1, SystemDecides DEF InitramfsInv, NoneInConflict
<1>5. KernelScanned'
  BY <1>1, SystemDecides DEF InitramfsInv, KernelScanned
<1>6. TargetGenerated'
  BY <1>1 DEF TargetGenerated
<1> QED BY <1>1, <1>2, <1>3, <1>4, <1>5, <1>6 DEF InitramfsInv
LEMMA BootFilesFinished ==
  ASSUME InitramfsInv, FinishBootFiles
  PROVE  InitramfsInv'
<1>1. /\ inAt = "boot files" /\ inTodo = <<>> /\ inAt' = "prepared"
      /\ UNCHANGED <<inSystem, inRun, inFiles, inCopied, inTodo, inImage, inBoot, inKernel>>
  BY DEF FinishBootFiles
<1>2. HostFilesCopied'
  BY <1>1 DEF InitramfsInv, HostFilesCopied
<1>3. BootFilesMade'
  <2>1. UpgradeImage' = UpgradeImage
    BY <1>1, ImageDecided
  <2> QED BY <1>1, <2>1 DEF InitramfsInv, BootFilesMade
<1>4. NoneInConflict'
  BY <1>1, SystemDecides DEF InitramfsInv, NoneInConflict
<1>5. KernelScanned'
  BY <1>1, SystemDecides DEF InitramfsInv, KernelScanned
<1>6. TargetGenerated'
  BY <1>1 DEF TargetGenerated
<1> QED BY <1>1, <1>2, <1>3, <1>4, <1>5, <1>6 DEF InitramfsInv

LEMMA InitramfsAgain ==
  ASSUME InitramfsInv, RunAgain
  PROVE  InitramfsInv'
<1>1. /\ inAt' = "checks" /\ inRun' = inRun + 1 /\ inCopied' = 0
      /\ UNCHANGED <<inSystem, inBoot, inKernel>>
  BY DEF RunAgain
<1>2. HostFilesCopied'
  BY <1>1 DEF HostFilesCopied
<1>3. BootFilesMade'
  <2>1. inBoot \in [BootParts -> Nat] /\ inRun \in Nat
    BY DEF InitramfsInv, BootFilesMade
  <2>2. inRun' \in Nat
    BY <1>1, <2>1
  <2> QED BY <1>1, <2>1, <2>2 DEF BootFilesMade
<1>4. NoneInConflict' /\ TargetGenerated'
  BY <1>1 DEF NoneInConflict, TargetGenerated
<1>5. KernelScanned'
  BY <1>1, SystemDecides DEF InitramfsInv, KernelScanned
<1> QED BY <1>1, <1>2, <1>3, <1>4, <1>5 DEF InitramfsInv

LEMMA TargetKernelScanned ==
  ASSUME InitramfsInv, ScanTargetKernel
  PROVE  InitramfsInv'
<1>1. /\ inAt' \in {"upgraded", "failed"}
      /\ \/ inKernel' = NoKernel
         \/ inKernel' = (IF TargetKernel(SourceType) # NoKernel
                         THEN TargetKernel(SourceType)
                         ELSE TargetKernel("ordinary"))
      /\ UNCHANGED <<inSystem, inRun, inBoot>>
  BY DEF ScanTargetKernel
<1>2. HostFilesCopied' /\ NoneInConflict' /\ TargetGenerated'
  BY <1>1 DEF HostFilesCopied, NoneInConflict, TargetGenerated
<1>3. BootFilesMade'
  BY <1>1 DEF InitramfsInv, BootFilesMade
<1>4. KernelScanned'
  BY <1>1, SystemDecides DEF KernelScanned
<1> QED BY <1>1, <1>2, <1>3, <1>4 DEF InitramfsInv

LEMMA TargetIsGenerated ==
  ASSUME InitramfsInv, GenerateTargetInitramfs
  PROVE  InitramfsInv'
<1>1. /\ \/ inTarget' = TargetImage /\ inAt' = "done"
         \/ inAt' = "failed"
      /\ UNCHANGED <<inSystem, inRun, inBoot, inKernel>>
  BY DEF GenerateTargetInitramfs
<1>2. HostFilesCopied' /\ NoneInConflict'
  BY <1>1 DEF HostFilesCopied, NoneInConflict
<1>3. BootFilesMade'
  BY <1>1 DEF InitramfsInv, BootFilesMade
<1>4. KernelScanned' /\ TargetGenerated'
  BY <1>1, SystemDecides DEF InitramfsInv, KernelScanned, TargetGenerated
<1> QED BY <1>1, <1>2, <1>3, <1>4 DEF InitramfsInv

LEMMA InitramfsUnchanged ==
  ASSUME InitramfsInv, UNCHANGED inVars
  PROVE  InitramfsInv'
<1>1. /\ UNCHANGED <<inSystem, inAt, inRun, inFiles, inCopied, inTodo>>
      /\ UNCHANGED <<inImage, inBoot, inKernel, inTarget>>
  BY DEF inVars
<1>2. HostFilesCopied'
  BY <1>1 DEF InitramfsInv, HostFilesCopied
<1>3. BootFilesMade'
  <2>1. UpgradeImage' = UpgradeImage
    BY <1>1, ImageDecided
  <2> QED BY <1>1, <2>1 DEF InitramfsInv, BootFilesMade
<1>4. NoneInConflict'
  BY <1>1, SystemDecides DEF InitramfsInv, NoneInConflict
<1>5. KernelScanned' /\ TargetGenerated'
  BY <1>1, SystemDecides DEF InitramfsInv, KernelScanned, TargetGenerated
<1> QED BY <1>1, <1>2, <1>3, <1>4, <1>5 DEF InitramfsInv

LEMMA InitramfsInductive == InitramfsSpec => []InitramfsInv
<1>1. InitramfsInv /\ [InitramfsNext]_inVars => InitramfsInv'
  BY InitramfsChecked, PackagesInstalled, HostFileCopied, BootFilesStarted, InitramfsGenerated,
     BootFileCopied, BootFilesFinished, InitramfsAgain, TargetKernelScanned, TargetIsGenerated,
     InitramfsUnchanged DEF InitramfsNext
<1> QED BY <1>1, InitramfsStarts, PTL DEF InitramfsSpec

-----------------------------------------------------------------------------
(* What is included.                                                        *)

LEMMA AllRequestsAre ==
  ASSUME InitramfsInv
  PROVE  /\ DOMAIN AllRequests \subseteq Nat
         /\ \A r \in ToSet(AllRequests) :
              r.kind \in {"dracut", "kernel"} /\ (r.msg = "old" => r.kind = "dracut")
              /\ r.path \in OtherPaths \cup {InSystem}
<1> DEFINE own(m) == [msg |-> m, kind |-> "dracut", name |-> "leapp", path |-> "a"]
           S == ModuleRequests \cup {own("old"), own("upgrade")}
<1>1. inSystem.requests \in Seq(ModuleRequests)
  BY InitramfsSystemDecides DEF InitramfsInv, IsInitramfsSystem
<1>2. inSystem.requests \in Seq(S)
  <2> HIDE DEF own
  <2> QED BY <1>1
<1>3. OwnRequests \in Seq(S)
  <2>1. OwnRequests \in {<<>>, <<own("old"), own("upgrade")>>}
    BY DEF OwnRequests
  <2> HIDE DEF own
  <2>2. own("old") \in S /\ own("upgrade") \in S
    OBVIOUS
  <2> HIDE DEF S
  <2>3. <<>> \in Seq(S) /\ <<own("old"), own("upgrade")>> \in Seq(S)
    BY <2>2
  <2> QED BY <2>1, <2>3
<1>4. ASSUME NEW r \in S
      PROVE  r.kind \in {"dracut", "kernel"} /\ (r.msg = "old" => r.kind = "dracut")
             /\ r.path \in OtherPaths \cup {InSystem}
  BY DEF ModuleRequests, OtherPaths
<1> HIDE DEF own, S
<1>5. AllRequests \in Seq(S)
  BY <1>2, <1>3 DEF AllRequests
<1>6. \A r \in ToSet(AllRequests) : r \in S
  BY <1>5 DEF ToSet
<1>7. DOMAIN AllRequests \subseteq Nat
  BY <1>5
<1> QED BY <1>4, <1>6, <1>7

(* The request that is staged is one of them, a deprecated one if there is. *)
LEMMA FirstOfIs ==
  ASSUME NEW places, places \subseteq DOMAIN AllRequests, places # {},
         DOMAIN AllRequests \subseteq Nat
  PROVE  \E i \in places :
           /\ FirstOf(places) = AllRequests[i]
           /\ (\E j \in places : AllRequests[j].msg = "old") => AllRequests[i].msg = "old"
<1> DEFINE old == {i \in places : AllRequests[i].msg = "old"}
           chosen == IF old # {} THEN old ELSE places
<1>1. chosen \subseteq Nat /\ chosen # {}
  OBVIOUS
<1>2. Min(chosen) \in chosen
  BY <1>1, LeastOne DEF Min
<1>3. FirstOf(places) = AllRequests[Min(chosen)]
  BY DEF FirstOf
<1>4. /\ chosen \subseteq places
      /\ (\E j \in places : AllRequests[j].msg = "old") =>
           \A i \in chosen : AllRequests[i].msg = "old"
  OBVIOUS
<1> HIDE DEF chosen
<1> QED BY <1>2, <1>3, <1>4

(* A module with a path is staged, from the path of such a request.         *)
LEMMA StagedIs ==
  ASSUME InitramfsInv, NEW messages, NEW kind, NEW r \in Requests(messages, kind),
         r.path # InSystem
  PROVE  /\ r.name \in DOMAIN Staged(messages, kind) /\ r.name \in Requested(messages, kind)
         /\ \E q \in Requests(messages, kind) :
              /\ q.name = r.name /\ q.path # InSystem
              /\ Staged(messages, kind)[r.name] = q.path
              /\ (r.msg = "old" => q.msg = "old")
<1> DEFINE places == Sources(messages, kind, r.name)
<1>1. PICK k \in DOMAIN AllRequests : r = AllRequests[k]
  BY DEF Requests, ToSet
<1>2. k \in places
  BY <1>1 DEF Sources
<1>3. places \subseteq DOMAIN AllRequests
  BY DEF Sources
<1>4. PICK i \in places : /\ FirstOf(places) = AllRequests[i]
                          /\ (\E j \in places : AllRequests[j].msg = "old") =>
                               AllRequests[i].msg = "old"
  BY <1>2, <1>3, AllRequestsAre, FirstOfIs
<1>5. /\ AllRequests[i] \in Requests(messages, kind) /\ AllRequests[i].name = r.name
      /\ AllRequests[i].path # InSystem
  BY <1>4 DEF Sources
<1>6. r.name \in DOMAIN Staged(messages, kind)
  BY DEF Staged
<1>7. Staged(messages, kind)[r.name] = FirstOf(places).path
  BY <1>6 DEF Staged
<1>8. r.name \in Requested(messages, kind)
  BY DEF Requested
<1> QED BY <1>1, <1>2, <1>4, <1>5, <1>6, <1>7, <1>8
LEMMA OverIs ==
  ASSUME NEW f, NEW g, NEW n
  PROVE  /\ n \in DOMAIN f => n \in DOMAIN Over(f, g) /\ Over(f, g)[n] = f[n]
         /\ n \in DOMAIN g => n \in DOMAIN Over(f, g)
         /\ n \in DOMAIN g /\ n \notin DOMAIN f => Over(f, g)[n] = g[n]
BY DEF Over

(* Without a conflict, the requests of one module agree on its path.        *)
LEMMA PathsAgree ==
  ASSUME InitramfsInv, NEW messages, NEW kind, Conflicts(messages, kind) = {},
         NEW r \in Requests(messages, kind), NEW q \in Requests(messages, kind),
         r.name = q.name
  PROVE  r.path = q.path
<1> SUFFICES ASSUME r.path # q.path PROVE FALSE
  OBVIOUS
<1> DEFINE paths == PathsOf(r.name, messages, kind)
           known == {"a", "b", "system"}
<1>1. paths \subseteq known
  BY AllRequestsAre DEF PathsOf, Requests, OtherPaths, InSystem
<1>2. {r.path, q.path} \subseteq paths
  BY DEF PathsOf
<1>3. IsFiniteSet(known)
  <2>1. IsFiniteSet({"a"}) /\ IsFiniteSet({"b"}) /\ IsFiniteSet({"system"})
    BY FS_Singleton
  <2>2. known = {"a"} \cup ({"b"} \cup {"system"})
    OBVIOUS
  <2> HIDE DEF known
  <2> QED BY <2>1, <2>2, FS_Union
<1> HIDE DEF paths, known
<1>4. IsFiniteSet(paths)
  BY <1>1, <1>3, FS_Subset
<1>5. Cardinality({r.path, q.path}) = 2
  <2>1. /\ IsFiniteSet({r.path}) /\ Cardinality({r.path}) = 1
    BY FS_Singleton
  <2>2. {r.path, q.path} = {r.path} \cup {q.path} /\ q.path \notin {r.path}
    OBVIOUS
  <2>3. Cardinality({r.path} \cup {q.path}) = Cardinality({r.path}) + 1
    BY <2>1, <2>2, FS_AddElement
  <2> QED BY <2>1, <2>2, <2>3
<1>6. Cardinality(paths) >= 2
  <2>1. Cardinality({r.path, q.path}) <= Cardinality(paths)
    BY <1>2, <1>4, FS_Subset
  <2>2. Cardinality(paths) \in Nat
    BY <1>4, FS_CardinalityType
  <2> QED BY <1>5, <2>1, <2>2
<1>7. r.name \in Conflicts(messages, kind)
  <2>1. Cardinality(paths) \in Nat
    BY <1>4, FS_CardinalityType
  <2>2. Cardinality(PathsOf(r.name, messages, kind)) > 1
    BY <1>6, <2>1 DEF paths
  <2> QED BY <2>2 DEF Conflicts, Requested
<1> QED BY <1>7

LEMMA UpgradeIncludes == InitramfsInv => RequestedAreIncluded
<1> SUFFICES ASSUME InitramfsInv, inAt = "prepared", ~inSystem.live,
                    NEW r \in ToSet(AllRequests), r.msg \in ForUpgrade, r.path # InSystem
             PROVE  \/ <<r.name, r.path>> \in inImage[r.kind]
                    \/ \E q \in ToSet(AllRequests) :
                         q.msg = "old" /\ q.name = r.name /\ q.path # r.path
  BY DEF RequestedAreIncluded
<1>1. inImage = UpgradeImage
  <2>1. inTodo = <<>>
    BY DEF InitramfsInv, BootFilesMade
  <2>2. ToSet(<<>>) = {}
    BY DEF ToSet
  <2> QED BY <2>1, <2>2 DEF InitramfsInv, BootFilesMade
<1>2. r \in Requests(ForUpgrade, r.kind) /\ r.kind \in {"dracut", "kernel"}
  BY AllRequestsAre DEF Requests
<1>3. PICK q \in Requests(ForUpgrade, r.kind) :
        /\ q.name = r.name /\ q.path # InSystem
        /\ Staged(ForUpgrade, r.kind)[r.name] = q.path
        /\ (r.msg = "old" => q.msg = "old")
  BY <1>2, StagedIs
<1>4. r.name \in DOMAIN Staged(ForUpgrade, r.kind) /\ r.name \in Requested(ForUpgrade, r.kind)
  BY <1>2, StagedIs
<1>5. <<r.name, q.path>> \in inImage[r.kind]
  <2>1. CASE r.kind = "dracut"
    <3>1. r.name \in DOMAIN DracutFound /\ DracutFound[r.name] = q.path
      BY <1>3, <1>4, <2>1, OverIs DEF DracutFound
    <3>2. <<r.name, q.path>> \in Included(DracutFound, Requested(ForUpgrade, "dracut"))
      BY <1>4, <2>1, <3>1 DEF Included
    <3> QED BY <1>1, <2>1, <3>2 DEF UpgradeImage
  <2>2. CASE r.kind = "kernel"
    <3>1. r.name \in DOMAIN DriversFound /\ DriversFound[r.name] = q.path
      BY <1>3, <1>4, <2>2, OverIs DEF DriversFound
    <3>2. <<r.name, q.path>> \in Included(DriversFound, Requested(ForUpgrade, "kernel"))
      BY <1>4, <2>2, <3>1 DEF Included
    <3> QED BY <1>1, <2>2, <3>2 DEF UpgradeImage
  <2> QED BY <1>2, <2>1, <2>2
<1>6. CASE q.path = r.path
  BY <1>5, <1>6
<1>7. CASE q.msg = "old" /\ q.path # r.path
  BY <1>3, <1>7 DEF Requests
<1>8. CASE q.msg # "old"
  <2>1. q \in Requests({"upgrade"}, r.kind) /\ r \in Requests({"upgrade"}, r.kind)
    BY <1>2, <1>3, <1>8 DEF Requests, ForUpgrade
  <2>2. Conflicts({"upgrade"}, r.kind) = {}
    BY <1>2 DEF InitramfsInv, NoneInConflict, InConflict
  <2> QED BY <1>3, <1>5, <2>1, <2>2, PathsAgree
<1> QED BY <1>6, <1>7, <1>8

LEMMA TargetIncludes == InitramfsInv => TargetIncludesRequested
<1> SUFFICES ASSUME InitramfsInv, inAt = "done", NEW r \in ToSet(AllRequests),
                    r.msg = "target", r.path # InSystem
             PROVE  \E p \in OtherPaths \cup {InSystem} : <<r.name, p>> \in inTarget[r.kind]
  BY DEF TargetIncludesRequested
<1>1. inTarget = TargetImage
  BY DEF InitramfsInv, TargetGenerated
<1>2. r \in Requests(ForTarget, r.kind) /\ r.kind \in {"dracut", "kernel"}
  BY AllRequestsAre DEF Requests, ForTarget
<1>3. PICK q \in Requests(ForTarget, r.kind) :
        q.path # InSystem /\ Staged(ForTarget, r.kind)[r.name] = q.path
  BY <1>2, StagedIs
<1>4. r.name \in DOMAIN Staged(ForTarget, r.kind) /\ r.name \in Requested(ForTarget, r.kind)
  BY <1>2, StagedIs
<1>5. q.path \in OtherPaths \cup {InSystem} /\ InSystem \in OtherPaths \cup {InSystem}
  BY <1>3, AllRequestsAre DEF Requests
<1>6. \A names, n : n \in names => n \in DOMAIN Origins(names) /\ Origins(names)[n] = InSystem
  BY DEF Origins
<1>7. CASE r.kind = "dracut"
  <2> DEFINE found == Over(Origins(inSystem.packaged), Staged(ForTarget, "dracut"))
  <2>1. r.name \in DOMAIN found /\ found[r.name] \in {q.path, InSystem}
    BY <1>3, <1>4, <1>6, <1>7, OverIs DEF Origins
  <2>2. <<r.name, found[r.name]>> \in Included(found, Requested(ForTarget, "dracut"))
    BY <1>4, <1>7, <2>1 DEF Included
  <2>3. inTarget[r.kind] = Included(found, Requested(ForTarget, "dracut"))
    BY <1>1, <1>7 DEF TargetImage
  <2> QED BY <1>5, <2>1, <2>2, <2>3
<1>8. CASE r.kind = "kernel"
  <2>1. NeedsDepmod
    BY <1>2, <1>8 DEF NeedsDepmod
  <2>2. TargetDrivers = Over(Staged(ForTarget, "kernel"), Origins(inSystem.drivers))
    BY <2>1 DEF TargetDrivers
  <2>3. r.name \in DOMAIN TargetDrivers /\ TargetDrivers[r.name] = q.path
    BY <1>3, <1>4, <1>8, <2>2, OverIs
  <2>4. <<r.name, TargetDrivers[r.name]>> \in Included(TargetDrivers, Requested(ForTarget, "kernel"))
    BY <1>4, <1>8, <2>3 DEF Included
  <2>5. inTarget[r.kind] = Included(TargetDrivers, Requested(ForTarget, "kernel"))
    BY <1>1, <1>8 DEF TargetImage
  <2> QED BY <1>5, <2>3, <2>4, <2>5
<1> QED BY <1>2, <1>7, <1>8

(* The kernel of a type that is found.                                      *)
LEMMA TargetKernelIs ==
  ASSUME InitramfsInv, NEW type
  PROVE  \/ /\ TargetKernel(type) # NoKernel
            /\ TargetKernel(type).type = type /\ TargetKernel(type).wide = inSystem.wide
            /\ TargetKernel(type).major = "target"
         \/ /\ TargetKernel(type) = NoKernel
            /\ \A k \in ToSet(inSystem.installed) :
                 ~(k.type = type /\ k.wide = inSystem.wide /\ k.major = "target")
<1> DEFINE found == {i \in OfType(type) : inSystem.installed[i].major = "target"}
<1>1. TargetKernel(type) = IF found = {} THEN NoKernel ELSE inSystem.installed[Min(found)]
  BY DEF TargetKernel
<1>2. inSystem.installed \in Seq(KernelPackages)
  BY InitramfsSystemDecides DEF InitramfsInv, IsInitramfsSystem
<1>3. found \subseteq Nat
  BY <1>2 DEF OfType
<1>4. CASE found = {}
  BY <1>1, <1>4 DEF OfType, ToSet
<1>5. CASE found # {}
  <2>1. Min(found) \in found
    <3> HIDE DEF found
    <3> QED BY <1>3, <1>5, LeastOne DEF Min
  <2>2. PICK k : k = inSystem.installed[Min(found)]
    OBVIOUS
  <2>3. k.type = type /\ k.wide = inSystem.wide /\ k.major = "target"
    BY <2>1, <2>2 DEF OfType
  <2>4. k # NoKernel
    BY <2>3 DEF NoKernel
  <2> QED BY <1>1, <1>5, <2>2, <2>3, <2>4
<1> QED BY <1>4, <1>5

LEMMA KernelIsTheTargets == InitramfsInv => KernelOfTheTarget
<1> SUFFICES ASSUME InitramfsInv, inKernel # NoKernel PROVE
      /\ inKernel.major = "target" /\ inKernel.wide = inSystem.wide
      /\ \A k \in ToSet(inSystem.installed) :
           (k.major = "target" /\ k.wide = inSystem.wide) =>
             \/ inKernel.type = k.type
             \/ inKernel.type = "realtime" <=> inSystem.uname \in {".rt", "+rt", "+rt-64k"}
  BY DEF KernelOfTheTarget
<1>1. inKernel = (IF TargetKernel(SourceType) # NoKernel THEN TargetKernel(SourceType)
                  ELSE TargetKernel("ordinary"))
  BY DEF InitramfsInv, KernelScanned
<1>2. inKernel.major = "target" /\ inKernel.wide = inSystem.wide
  BY <1>1, TargetKernelIs
<1>3. /\ SourceType \in {"realtime", "ordinary"}
      /\ SourceType = "realtime" <=> inSystem.uname \in {".rt", "+rt", "+rt-64k"}
  <2>1. inSystem.oldNames \in BOOLEAN /\ inSystem.uname \in Unames(inSystem.oldNames)
    BY InitramfsSystemDecides DEF InitramfsInv, IsInitramfsSystem
  <2> QED BY <2>1 DEF SourceType, Unames
<1>4. \A k \in ToSet(inSystem.installed) : k.type \in {"ordinary", "realtime"}
  <2>1. inSystem.installed \in Seq(KernelPackages)
    BY InitramfsSystemDecides DEF InitramfsInv, IsInitramfsSystem
  <2>2. \A k \in ToSet(inSystem.installed) : k \in KernelPackages
    BY <2>1, ElementAt
  <2> QED BY <2>2 DEF KernelPackages
<1>5. CASE TargetKernel(SourceType) # NoKernel
  <2>1. inKernel.type = SourceType
    BY <1>1, <1>5, TargetKernelIs
  <2> QED BY <1>2, <1>3, <2>1
<1>6. CASE TargetKernel(SourceType) = NoKernel
  <2>1. inKernel.type = "ordinary"
    BY <1>1, <1>6, TargetKernelIs
  <2>2. SourceType = "realtime"
    BY <1>1, <1>3, <1>6
  <2>3. \A k \in ToSet(inSystem.installed) :
          ~(k.type = "realtime" /\ k.wide = inSystem.wide /\ k.major = "target")
    BY <1>6, <2>2, TargetKernelIs
  <2> QED BY <1>2, <1>4, <2>1, <2>3
<1> QED BY <1>5, <1>6

LEMMA HostFilesAreKept == InitramfsInv => HostFilesWin
<1> SUFFICES ASSUME InitramfsInv, inAt \in {"boot files", "prepared"},
                    NEW dst \in ToSet(inSystem.copies)
             PROVE  /\ Len(dst) = 2 =>
                         \/ dst \in DOMAIN inFiles /\ inFiles[dst] = "host"
                         \/ <<dst[1]>> \in ToSet(inSystem.copies)
                    /\ Len(dst) = 1 => \A f \in DOMAIN inFiles :
                         f[1] = dst[1] => inFiles[f] = "host"
  BY DEF HostFilesWin
<1>1. inSystem.copies \in Seq(Seq(STRING))
  BY InitramfsSystemDecides DEF InitramfsInv, IsInitramfsSystem
<1>2. PICK i \in 1 .. Len(inSystem.copies) : dst = inSystem.copies[i]
  <2>1. PICK S, copies : S = Seq(STRING) /\ copies = inSystem.copies
    OBVIOUS
  <2>2. copies \in Seq(S) /\ dst \in ToSet(copies)
    BY <1>1, <2>1
  <2>3. \E i \in 1 .. Len(copies) : dst = copies[i]
    BY <2>2, ElementAt
  <2> QED BY <2>1, <2>3
<1>3. inCopied = Len(inSystem.copies)
  BY DEF InitramfsInv, HostFilesCopied
<1> QED BY <1>2, <1>3 DEF InitramfsInv, HostFilesCopied

LEMMA OneBuildIsBooted == InitramfsInv => UpgradeBootsOneBuild
<1>1. ToSet(<<>>) = {}
  BY DEF ToSet
<1> QED BY <1>1 DEF InitramfsInv, BootFilesMade, UpgradeBootsOneBuild

(* InitramfsIsComplete, for every system, with any requests and files to    *)
(* copy in any order, after any runs: both initramfs are built from what    *)
(* was asked for.                                                           *)
THEOREM InitramfsComplete == InitramfsSpec => []InitramfsIsComplete
<1>1. InitramfsInv => InitramfsIsComplete
  BY HostFilesAreKept, OneBuildIsBooted, UpgradeIncludes, TargetIncludes, KernelIsTheTargets
     DEF InitramfsIsComplete
<1> QED BY <1>1, InitramfsInductive, PTL

-----------------------------------------------------------------------------
(* MultipathConfig.                                                        *)

(* What the lists are made of.                                              *)
MpName == DataFiles \cup Range(ConfNames) \cup {"multipath.conf"}
MpPath == [root : {"system", "store"}, dir : MpDirs, name : MpName]
MpFact == [path : MpPaths, conf : Confs]
MpUpdate == [from : MpPath, to : MpPath]
PathOf(i) == mpFacts[i].path
ConfPath(m) == System(ConfigDir(Main), ConfNames[m])
SystemConf(i) == mpSystem.files[PathOf(i)]
NewConf(i) == UpdatedConf(mpFacts[i].conf, i = 1)

(* The steps, and how far the list of each is worked off.                   *)
FactsAreRead == mpAt \notin {"facts", "not used"}
ChecksArePassed == FactsAreRead /\ mpAt \notin {"reading", "inhibited"}
Patching == mpAt \in {"applications", "done"}
Untouched == mpAt \notin {"applications", "done"} \/ CanReboot
NamesDone == IF mpAt = "reading" THEN mpNext ELSE Len(ConfNames)
FactsDone == IF mpAt = "patch" THEN mpNext ELSE Len(mpFacts)
DataDone == IF mpAt = "patch" THEN 0 ELSE IF mpAt = "move" THEN mpNext ELSE 3
UpdatesDone == IF mpAt = "copy" THEN mpNext ELSE Len(mpUpdates)

(* The inductive invariant, in parts. Types, and the bounds of mpNext.      *)
MpTypes ==
    /\ mpSystem \in MpSystems
    /\ mpAt \in {"facts", "not used", "reading", "inhibited", "patch", "move", "request",
                 "copy", "stopped", "applications", "done"}
    /\ mpNext \in Nat
    /\ mpFacts \in Seq(MpFact) /\ mpLocations \in [DataFiles -> DirOrUnset]
    /\ mpUpdates \in Seq(MpUpdate)

MpNumbers ==
    /\ mpAt = "facts" => mpNext = 0
    /\ mpAt = "reading" => mpNext <= Len(ConfNames)
    /\ mpAt = "patch" => mpNext < Len(mpFacts)
    /\ mpAt = "move" => mpNext < 3
    /\ mpAt = "request" => mpNext = 0
    /\ mpAt \in {"copy", "applications"} => mpNext <= Len(mpUpdates)
    /\ mpAt = "done" => mpNext = Len(mpUpdates)

(* The facts are the primary file and files of its config_dir, each once, as *)
(* the system had them; a location is the one of the last fact that sets it. *)
MpFacts ==
    /\ mpFacts # <<>> /\ PathOf(1) = Primary
    /\ \A i \in DOMAIN mpFacts : PathOf(i) \in DOMAIN mpSystem.files
                                 /\ mpFacts[i].conf = mpSystem.files[PathOf(i)]
    /\ \A i \in DOMAIN mpFacts : i # 1 => \E m \in 1..NamesDone : PathOf(i) = ConfPath(m)
    /\ \A i, j \in DOMAIN mpFacts : PathOf(i) = PathOf(j) => i = j

MpLocated ==
    \A f \in DataFiles :
      \/ /\ mpLocations[f] = "unset"
         /\ \A i \in DOMAIN mpFacts : mpFacts[i].conf.files[f] = "unset"
      \/ /\ mpLocations[f] # "unset"
         /\ \E i \in DOMAIN mpFacts :
              /\ mpLocations[f] = mpFacts[i].conf.files[f]
              /\ \A j \in DOMAIN mpFacts : j > i => mpFacts[j].conf.files[f] = "unset"

(* The files of the system are those it had or fewer, and the files of the  *)
(* config_dir that are still there are facts.                               *)
MpFilesLeft == \A p \in DOMAIN mpFiles :
    p.root = "system" => p \in DOMAIN mpSystem.files /\ mpFiles[p] = mpSystem.files[p]

MpAllRead == \A m \in 1..NamesDone :
    ConfPath(m) \in DOMAIN mpFiles => \E i \in DOMAIN mpFacts : PathOf(i) = ConfPath(m)

(* What the checks have found out.                                          *)
MpNoConflict == mpSystem.source = 9 /\ OwnConfigDir => ConfsIn(DefaultDir) = {}
MpNoGetuid == mpSystem.source = 9 => \A i \in DOMAIN mpFacts : ~mpFacts[i].conf.getuid

(* An update is that of a fact or that of a data file.                      *)
OfFact(u, i) ==
    /\ u.to = TargetPath(i)
    /\ u.from = Stored(PathOf(i)) \/ (Moves(i) /\ u.from = PathOf(i))
OfData(u, f) == /\ mpSystem.source = 9 /\ Location(f) # DefaultFile(f)
                /\ u.from = Location(f) /\ u.to = DefaultFile(f)
(* Every update is one of these, of one source and one target there is one  *)
(* update, the store has the new contents, and nothing is left out.         *)
MpShapes == \A j \in DOMAIN mpUpdates :
    \/ \E i \in 1..FactsDone : OfFact(mpUpdates[j], i)
    \/ \E m \in 1..DataDone : OfData(mpUpdates[j], FilesToMove[m])
MpOnce == \A j, l \in DOMAIN mpUpdates :
    mpUpdates[j].to = mpUpdates[l].to \/ mpUpdates[j].from = mpUpdates[l].from => j = l
MpStore == \A i \in 1..FactsDone : \A j \in DOMAIN mpUpdates :
    mpUpdates[j].from = Stored(PathOf(i)) =>
      Stored(PathOf(i)) \in DOMAIN mpFiles /\ mpFiles[Stored(PathOf(i))] = NewConf(i)
MpAllPatched == \A i \in 1..FactsDone :
    \/ \E j \in DOMAIN mpUpdates :
         mpUpdates[j].from = Stored(PathOf(i)) /\ mpUpdates[j].to = TargetPath(i)
    \/ /\ PathOf(i) \in DOMAIN mpFiles => NewConf(i) = mpFacts[i].conf
       /\ Moves(i) => \E j \in DOMAIN mpUpdates :
                        mpUpdates[j].from = PathOf(i) /\ mpUpdates[j].to = TargetPath(i)
MpAllMoved == \A m \in 1..DataDone :
    LET f == FilesToMove[m]
    IN mpSystem.source = 9 /\ Location(f) # DefaultFile(f) =>
         \E j \in DOMAIN mpUpdates : OfData(mpUpdates[j], f)

(* What can be copied as it is, with nothing removed.                       *)
AsIs == {Primary}
    \cup {Location(f) : f \in {g \in DataFiles :
                                mpSystem.source = 9 => Location(g) = DefaultFile(g)}}
    \cup (IF mpSystem.source = 9 /\ OwnConfigDir THEN {}
          ELSE {System(ConfigDir(Main), name) : name \in Range(ConfNames)})
CopyOf(u) == [src |-> u.from, dst |-> u.to]
(* A copy is that of an update worked off or of a file as it is that no such *)
(* update writes; nothing is left out.                                      *)
MpCopied ==
    /\ \A c \in mpCopies :
         \/ \E j \in 1..UpdatesDone : c = CopyOf(mpUpdates[j])
         \/ /\ c.src \in AsIs /\ c = CopiedFrom(c.src)
            /\ \A j \in 1..UpdatesDone : c.src # mpUpdates[j].to
    /\ \A j \in 1..UpdatesDone : CopyOf(mpUpdates[j]) \in mpCopies
MpAllCopied == \A p \in CopiedAsIs :
    CopiedFrom(p) \in mpCopies \/ \E j \in 1..UpdatesDone : p = mpUpdates[j].to

(* The target userspace has what was copied, the configuration directory is *)
(* the one the target reads.                                                *)
MpUserspace ==
    /\ DOMAIN mpUserspace = {c.dst : c \in mpCopies}
    /\ Primary \in DOMAIN mpUserspace
    /\ mpSystem.source = 8 => ConfigDir(mpUserspace[Primary]) = ConfigDir(Main)
    /\ \A p \in DOMAIN mpUserspace : p.root = "system"
MpCopiesMade == \A c \in mpCopies :
    c.src \in DOMAIN mpFiles /\ mpUserspace[c.dst] = mpFiles[c.src]

(* An update applied has left what the target userspace has; the sources of *)
(* the others are still there, and nothing else comes into use.             *)
MpPatched ==
    /\ \A j \in 1..mpNext : mpUpdates[j].to \in DOMAIN mpFiles
                            /\ mpFiles[mpUpdates[j].to] = mpUserspace[mpUpdates[j].to]
    /\ \A j \in DOMAIN mpUpdates : j > mpNext =>
         mpUpdates[j].from \in DOMAIN mpFiles
         /\ mpFiles[mpUpdates[j].from] = mpUserspace[mpUpdates[j].to]
    /\ \A p \in DOMAIN mpUserspace :
         \/ \E j \in DOMAIN mpUpdates : p = mpUpdates[j].to
         \/ p \in DOMAIN mpFiles /\ mpFiles[p] = mpUserspace[p]
    /\ \A p \in DOMAIN mpFiles :
         p.root = "system" /\ p.name \in Range(ConfNames)
           /\ p.dir = DirReadBy(TargetMajor, mpUserspace) => p \in DOMAIN mpUserspace

(* The parts that hold from which step to which.                            *)
MpInvariant ==
    /\ MpTypes /\ MpNumbers /\ MpLocated
    /\ Untouched => MpFilesLeft
    /\ ~FactsAreRead => mpFacts = <<>>
    /\ FactsAreRead => MpFacts /\ (Untouched => MpAllRead)
    /\ ~ChecksArePassed => mpUpdates = <<>> /\ DOMAIN mpFiles \subseteq MpPaths
    /\ ChecksArePassed => /\ MpNoGetuid /\ MpShapes /\ MpOnce /\ MpAllMoved
                          /\ Untouched => MpNoConflict /\ MpStore /\ MpAllPatched
    /\ mpAt \in {"copy", "stopped", "applications", "done"} => MpCopied
    /\ mpAt \in {"copy", "applications"} /\ Untouched => MpAllCopied
    /\ ~Patching => mpUserspace = <<>>
    /\ mpAt \in {"facts", "not used", "reading", "inhibited", "patch", "move", "request"} =>
         mpCopies = {}
    /\ Patching => MpUserspace /\ MpPatched
    /\ CanReboot => MpCopiesMade

-----------------------------------------------------------------------------
(* Paths, of the system and of the store.                                   *)
LEMMA MpPathParts ==
  ASSUME NEW d, NEW n
  PROVE  /\ System(d, n).root = "system" /\ System(d, n).dir = d /\ System(d, n).name = n
         /\ Stored(System(d, n)).root = "store" /\ Stored(System(d, n)).dir = d
         /\ Stored(System(d, n)).name = n
         /\ \A e : [System(d, n) EXCEPT !.dir = e] = System(e, n)
  BY DEF System, Stored

LEMMA MpPathIs ==
  ASSUME NEW p \in MpPaths
  PROVE  p = System(p.dir, p.name) /\ p.root = "system" /\ p.dir \in MpDirs
         /\ p.name \in MpName
  BY DEF MpPaths, System, MpName

LEMMA MpPathsAre ==
  ASSUME MpAssumption
  PROVE  /\ \A d \in MpDirs, n \in MpName : System(d, n) \in MpPaths
         /\ \A p \in MpPaths : p \in MpPath /\ Stored(p) \in MpPath /\ Stored(p).root = "store"
                               /\ Stored(p) # p
         /\ \A p, q \in MpPaths : Stored(p) = Stored(q) => p = q
         /\ Primary \in MpPaths
         /\ \A f \in DataFiles : DefaultFile(f) \in MpPaths
         /\ DefaultDir \in MpDirs
  <1>1. \A d \in MpDirs, n \in MpName : System(d, n) \in MpPaths
    BY DEF MpPaths, System, MpName
  <1>2. ASSUME NEW p \in MpPaths
        PROVE  p \in MpPath /\ Stored(p) \in MpPath /\ Stored(p).root = "store" /\ Stored(p) # p
    BY DEF MpPaths, MpPath, MpName, Stored
  <1>3. ASSUME NEW p \in MpPaths, NEW q \in MpPaths, Stored(p) = Stored(q)
        PROVE  p = q
    <2>1. Stored(p).dir = p.dir /\ Stored(p).name = p.name /\ Stored(q).dir = q.dir
          /\ Stored(q).name = q.name
      BY MpPathIs, MpPathParts
    <2> QED BY <1>3, <2>1, MpPathIs
  <1>4. "etc" \in MpDirs /\ "multipath" \in MpDirs /\ DefaultDir \in MpDirs
    BY DEF MpAssumption
  <1>5. Primary \in MpPaths /\ \A f \in DataFiles : DefaultFile(f) \in MpPaths
    BY <1>1, <1>4 DEF Primary, DefaultFile, MpName
  <1> QED BY <1>1, <1>2, <1>3, <1>4, <1>5

LEMMA MpNames ==
  ASSUME MpAssumption
  PROVE  /\ \A i \in 1..Len(ConfNames) : ConfNames[i] \in Range(ConfNames)
         /\ \A n \in Range(ConfNames) : \E i \in 1..Len(ConfNames) : n = ConfNames[i]
         /\ Len(ConfNames) \in Nat
         /\ \A i, j \in 1..Len(ConfNames) : ConfNames[i] = ConfNames[j] => i = j
         /\ Range(ConfNames) \subseteq MpName /\ DataFiles \subseteq MpName
         /\ "multipath.conf" \in MpName /\ "multipath.conf" \notin DataFiles
         /\ Range(ConfNames) \cap DataFiles = {}
  <1>1. ConfNames \in Seq(Range(ConfNames)) BY DEF MpAssumption
  <1>2. Len(ConfNames) \in Nat /\ DOMAIN ConfNames = 1..Len(ConfNames)
    BY <1>1, LenProperties
  <1>3. Range(ConfNames) = {ConfNames[i] : i \in 1..Len(ConfNames)}
    BY <1>2 DEF Range
  <1> QED BY <1>2, <1>3 DEF MpAssumption, MpName, DataFiles

(* The new contents of a file.                                              *)
LEMMA MpUpdatedConf ==
  ASSUME MpAssumption, NEW c \in Confs, NEW first \in BOOLEAN, MpTypes
  PROVE  /\ UpdatedConf(c, first) \in Confs
         /\ mpSystem.source = 8 =>
              /\ ConfigDir(UpdatedConf(c, first)) = ConfigDir(c)
              /\ UpdatedConf(c, first).star = FALSE
              /\ c.foreign \/ (first /\ NeedForeign) => UpdatedConf(c, first).foreign
              /\ c.usb \/ (first /\ NeedUsb) => UpdatedConf(c, first).usb
         /\ mpSystem.source = 9 =>
              /\ UpdatedConf(c, first).getuid = c.getuid
              /\ UpdatedConf(c, first) = UpdatedFor10(UpdatedConf(c, first))
  <1>1. NeedForeign \in BOOLEAN /\ NeedUsb \in BOOLEAN
    BY DEF NeedForeign, NeedUsb
  <1>2. mpSystem.source = 8 \/ mpSystem.source = 9
    BY DEF MpTypes, MpAssumption, IsMpSystem
  <1>3. UpdatedFor9(c, first) \in Confs /\ ConfigDir(UpdatedFor9(c, first)) = ConfigDir(c)
        /\ UpdatedFor9(c, first).star = FALSE
        /\ (c.foreign \/ (first /\ NeedForeign) => UpdatedFor9(c, first).foreign)
        /\ (c.usb \/ (first /\ NeedUsb) => UpdatedFor9(c, first).usb)
    BY <1>1 DEF UpdatedFor9, ConfigDir, Confs
  <1>4. [f \in DataFiles |-> "unset"] \in [DataFiles -> DirOrUnset] /\ "unset" \in DirOrUnset
    BY DEF DirOrUnset
  <1>5. UpdatedFor10(c) \in Confs /\ UpdatedFor10(c).getuid = c.getuid
    BY <1>4 DEF UpdatedFor10, Confs
  <1>6. UpdatedFor10(UpdatedFor10(c)) = UpdatedFor10(c)
    BY <1>4 DEF UpdatedFor10, Confs
  <1> QED BY <1>2, <1>3, <1>5, <1>6 DEF UpdatedConf

(* The facts, where their contents go, and where the data files are.        *)
LEMMA MpFactTypes ==
  ASSUME MpAssumption, MpTypes
  PROVE  /\ Len(mpFacts) \in Nat /\ DOMAIN mpFacts = 1..Len(mpFacts)
         /\ \A i \in 1..Len(mpFacts) : PathOf(i) \in MpPaths /\ mpFacts[i].conf \in Confs
         /\ mpSystem.source \in {8, 9}
         /\ DOMAIN mpSystem.files \subseteq MpPaths
         /\ IsMpSystem(mpSystem)
  <1>1. Len(mpFacts) \in Nat /\ DOMAIN mpFacts = 1..Len(mpFacts)
    BY LenProperties DEF MpTypes
  <1>2. \A i \in 1..Len(mpFacts) : mpFacts[i] \in MpFact
    BY ElementOfSeq DEF MpTypes
  <1>3. IsMpSystem(mpSystem) BY DEF MpTypes, MpAssumption
  <1> QED BY <1>1, <1>2, <1>3 DEF MpFact, PathOf, IsMpSystem

LEMMA MpFactsAre ==
  ASSUME MpAssumption, MpTypes, MpFacts, NamesDone \in 0..Len(ConfNames)
  PROVE  /\ Len(mpFacts) >= 1
         /\ Main \in Confs /\ ConfigDir(Main) \in MpDirs
         /\ Primary \in DOMAIN mpSystem.files /\ Main = mpSystem.files[Primary]
         /\ \A n \in Range(ConfNames) :
              System(ConfigDir(Main), n) \in MpPaths /\ System(ConfigDir(Main), n) # Primary
         /\ \A i \in 1..Len(mpFacts) : i # 1 =>
              /\ PathOf(i).name \in Range(ConfNames)
              /\ PathOf(i) = System(ConfigDir(Main), PathOf(i).name)
              /\ PathOf(i) # Primary
  <1>1. mpFacts # <<>> /\ PathOf(1) = Primary BY DEF MpFacts
  <1>2. Len(mpFacts) >= 1
    <2>1. mpFacts \in Seq(MpFact) BY DEF MpTypes
    <2> QED BY <2>1, <1>1, EmptySeq
  <1>3. Main \in Confs BY <1>2, MpFactTypes DEF Main
  <1>4. ConfigDir(Main) \in MpDirs
    <2>1. Main.configDir \in DirOrUnset BY <1>3 DEF Confs
    <2> QED BY <2>1, MpPathsAre DEF ConfigDir, DirOrUnset
  <1>5. Primary \in DOMAIN mpSystem.files /\ Main = mpSystem.files[Primary]
    BY <1>1, <1>2, MpFactTypes DEF MpFacts, Main
  <1>6. ASSUME NEW n \in Range(ConfNames)
        PROVE  System(ConfigDir(Main), n) \in MpPaths /\ System(ConfigDir(Main), n) # Primary
    <2>1. n \in MpName BY MpNames
    <2>2. System(ConfigDir(Main), n) \in MpPaths BY <1>4, <2>1, MpPathsAre
    <2>3. System(ConfigDir(Main), n) # Primary BY <1>5, MpFactTypes DEF IsMpSystem
    <2> QED BY <2>2, <2>3
  <1>7. ASSUME NEW i \in 1..Len(mpFacts), i # 1
        PROVE  /\ PathOf(i).name \in Range(ConfNames)
               /\ PathOf(i) = System(ConfigDir(Main), PathOf(i).name)
               /\ PathOf(i) # Primary
    <2>1. i \in DOMAIN mpFacts BY MpFactTypes
    <2>2. PICK m \in 1..NamesDone : PathOf(i) = ConfPath(m) BY <1>7, <2>1 DEF MpFacts
    <2>3. ConfNames[m] \in Range(ConfNames) BY <2>2, MpNames
    <2>4. PathOf(i) = System(ConfigDir(Main), ConfNames[m]) BY <2>2 DEF ConfPath
    <2>5. PathOf(i).name = ConfNames[m] BY <2>4, MpPathParts
    <2> QED BY <2>3, <2>4, <2>5, <1>6
  <1> QED BY <1>2, <1>3, <1>4, <1>5, <1>6, <1>7

LEMMA MpTargets ==
  ASSUME MpAssumption, MpTypes, MpFacts, NamesDone \in 0..Len(ConfNames)
  PROVE  /\ TargetPath(1) = Primary
         /\ \A i \in 1..Len(mpFacts) :
              /\ TargetPath(i) \in MpPaths /\ TargetPath(i).name \notin DataFiles
              /\ TargetPath(i).name = PathOf(i).name
              /\ mpSystem.source = 8 => TargetPath(i) = PathOf(i)
              /\ mpSystem.source = 9 /\ i # 1 =>
                   TargetPath(i) = System(DefaultDir, PathOf(i).name)
              /\ ~Moves(i) => TargetPath(i) = PathOf(i)
              /\ i # 1 => TargetPath(i) # Primary
         /\ \A i, j \in 1..Len(mpFacts) : TargetPath(i) = TargetPath(j) => i = j
  <1>1. PathOf(1) = Primary /\ Primary.name = "multipath.conf" /\ Primary.dir = "etc"
    BY MpPathParts DEF MpFacts, Primary
  <1>2. TargetPath(1) = Primary BY <1>1 DEF TargetPath, PathOf
  <1>3. ASSUME NEW i \in 1..Len(mpFacts), i # 1
        PROVE  /\ TargetPath(i) \in MpPaths /\ TargetPath(i).name \notin DataFiles
               /\ TargetPath(i).name = PathOf(i).name
               /\ mpSystem.source = 8 => TargetPath(i) = PathOf(i)
               /\ mpSystem.source = 9 => TargetPath(i) = System(DefaultDir, PathOf(i).name)
               /\ ~Moves(i) => TargetPath(i) = PathOf(i)
               /\ TargetPath(i) # Primary
    <2>1. PathOf(i).name \in Range(ConfNames) /\ PathOf(i) # Primary
          /\ PathOf(i) = System(ConfigDir(Main), PathOf(i).name) /\ PathOf(i) \in MpPaths
      BY <1>3, MpFactsAre, MpFactTypes
    <2> DEFINE n == PathOf(i).name
    <2>2. [PathOf(i) EXCEPT !.dir = DefaultDir] = System(DefaultDir, n)
      BY <2>1, MpPathParts
    <2>3. mpSystem.source = 8 => TargetPath(i) = PathOf(i) BY DEF TargetPath, PathOf
    <2>4. mpSystem.source = 9 => TargetPath(i) = System(DefaultDir, n)
      BY <2>2, <1>3 DEF TargetPath, PathOf
    <2>5. n \in MpName /\ n \notin DataFiles BY <2>1, MpNames
    <2>6. System(DefaultDir, n) \in MpPaths /\ System(DefaultDir, n).name = n
          /\ System(DefaultDir, n) # Primary
      <3>1. System(DefaultDir, n).dir = DefaultDir /\ System(DefaultDir, n).name = n
        BY MpPathParts
      <3>2. DefaultDir # "etc" BY DEF DefaultDir
      <3> QED BY <3>1, <3>2, <1>1, <2>5, MpPathsAre
    <2>7. mpSystem.source = 8 \/ mpSystem.source = 9 BY MpFactTypes
    <2>8. ~Moves(i) /\ mpSystem.source = 9 => ConfigDir(Main) = DefaultDir
      <3>1. i > 1 BY <1>3, MpFactTypes
      <3> QED BY <3>1 DEF Moves, OwnConfigDir
    <2> QED BY <2>1, <2>3, <2>4, <2>5, <2>6, <2>7, <2>8
  <1>4. ASSUME NEW i \in 1..Len(mpFacts), NEW j \in 1..Len(mpFacts),
               TargetPath(i) = TargetPath(j), i # 1, j # 1
        PROVE  i = j
    <2>1. PathOf(i).name = PathOf(j).name BY <1>3, <1>4
    <2>2. PathOf(i) = PathOf(j) BY <2>1, <1>4, MpFactsAre
    <2> QED BY <2>2, MpFactTypes DEF MpFacts
  <1>5. "multipath.conf" \notin DataFiles BY MpNames
  <1> QED BY <1>1, <1>2, <1>3, <1>4, <1>5, MpPathsAre

LEMMA MpLocations ==
  ASSUME MpAssumption, MpTypes, NEW f \in DataFiles
  PROVE  /\ Location(f) \in MpPaths /\ Location(f).name = f /\ DefaultFile(f) \in MpPaths
         /\ DefaultFile(f).name = f
  <1>1. DefaultFile(f) \in MpPaths /\ DefaultFile(f).name = f
    BY MpPathsAre, MpPathParts DEF DefaultFile
  <1>2. mpLocations[f] \in DirOrUnset BY DEF MpTypes
  <1>3. CASE mpLocations[f] = "unset" BY <1>1, <1>3 DEF Location
  <1>4. CASE mpLocations[f] # "unset"
    <2>1. mpLocations[f] \in MpDirs BY <1>2, <1>4 DEF DirOrUnset
    <2>2. Location(f) = System(mpLocations[f], f) BY <1>4 DEF Location
    <2>3. f \in MpName BY MpNames
    <2> QED BY <1>1, <2>1, <2>2, <2>3, MpPathsAre, MpPathParts
  <1> QED BY <1>3, <1>4

(* The location of a data file is that of the file in use.                  *)
LEMMA MpInUse ==
  ASSUME MpAssumption, MpTypes, MpLocated, NEW f \in DataFiles
  PROVE  InUse(f) = Location(f)
  <1> DEFINE used == {i \in DOMAIN mpFacts : mpFacts[i].conf.files[f] # "unset"}
  <1>1. CASE /\ mpLocations[f] = "unset"
             /\ \A i \in DOMAIN mpFacts : mpFacts[i].conf.files[f] = "unset"
    <2>1. used = {} BY <1>1
    <2> QED BY <2>1, <1>1 DEF InUse, Location
  <1>2. ASSUME mpLocations[f] # "unset", NEW i \in DOMAIN mpFacts,
               mpLocations[f] = mpFacts[i].conf.files[f],
               \A j \in DOMAIN mpFacts : j > i => mpFacts[j].conf.files[f] = "unset"
        PROVE  InUse(f) = Location(f)
    <2>1. i \in used BY <1>2
    <2>2. \A j \in used : j \in Nat /\ i \in Nat /\ j <= i BY <1>2, MpFactTypes
    <2>3. Max(used) = i
      <3> HIDE DEF used
      <3>1. \A x \in used : (\A y \in used : x >= y) => x = i BY <2>1, <2>2
      <3>2. \A y \in used : i >= y BY <2>2
      <3> QED BY <2>1, <3>1, <3>2 DEF Max
    <2>4. used # {} BY <2>1
    <2> QED BY <2>3, <2>4, <1>2 DEF InUse, Location
  <1> QED BY <1>1, <1>2 DEF MpLocated

(* The updates.                                                             *)
LEMMA MpUpdateTypes ==
  ASSUME MpAssumption, MpTypes
  PROVE  /\ Len(mpUpdates) \in Nat /\ DOMAIN mpUpdates = 1..Len(mpUpdates)
         /\ \A j \in 1..Len(mpUpdates) : mpUpdates[j] \in MpUpdate
         /\ mpUpdates \in Seq(MpUpdate)
  BY LenProperties, ElementOfSeq DEF MpTypes

LEMMA MpFilesToMove ==
  /\ \A m \in 1..3 : FilesToMove[m] \in DataFiles
  /\ \A f \in DataFiles : \E m \in 1..3 : f = FilesToMove[m]
  /\ \A m, k \in 1..3 : FilesToMove[m] = FilesToMove[k] => m = k
  /\ Len(FilesToMove) = 3
  BY DEF FilesToMove, DataFiles

LEMMA MpAtReboot ==
  ASSUME MpAssumption, MpInvariant, CanReboot
  PROVE  /\ NamesDone = Len(ConfNames) /\ NamesDone \in 0..Len(ConfNames)
         /\ FactsDone = Len(mpFacts) /\ DataDone = 3 /\ UpdatesDone = Len(mpUpdates)
         /\ MpTypes /\ MpLocated /\ MpFilesLeft /\ MpFacts /\ MpAllRead /\ MpNoGetuid
         /\ MpShapes /\ MpOnce /\ MpAllMoved /\ MpNoConflict /\ MpStore /\ MpAllPatched
         /\ MpCopied /\ MpAllCopied /\ MpUserspace /\ MpPatched /\ MpCopiesMade
  <1>1. FactsAreRead /\ ChecksArePassed /\ Patching /\ Untouched
    BY DEF CanReboot, FactsAreRead, ChecksArePassed, Patching, Untouched
  <1>2. mpAt = "applications" BY DEF CanReboot
  <1>3. NamesDone = Len(ConfNames) /\ FactsDone = Len(mpFacts) /\ DataDone = 3
        /\ UpdatesDone = Len(mpUpdates)
    BY <1>2 DEF NamesDone, FactsDone, DataDone, UpdatesDone
  <1> QED BY <1>1, <1>2, <1>3, MpNames DEF MpInvariant

(* A path of the facts is not where data files are, and updates of the two  *)
(* kinds have nothing in common.                                            *)
LEMMA MpShapeIs ==
  ASSUME MpAssumption, MpTypes, MpFacts, NamesDone \in 0..Len(ConfNames),
         MpShapes, FactsDone \in 0..Len(mpFacts), DataDone \in 0..3,
         NEW j \in 1..Len(mpUpdates)
  PROVE  /\ \/ \E i \in 1..FactsDone : OfFact(mpUpdates[j], i)
            \/ \E m \in 1..DataDone : OfData(mpUpdates[j], FilesToMove[m])
         /\ mpUpdates[j].to \in MpPaths
         /\ mpUpdates[j].to.name \notin DataFiles =>
              \E i \in 1..FactsDone : OfFact(mpUpdates[j], i)
         /\ mpUpdates[j].to.name \in DataFiles =>
              \E m \in 1..DataDone : OfData(mpUpdates[j], FilesToMove[m])
  <1>1. \/ \E i \in 1..FactsDone : OfFact(mpUpdates[j], i)
        \/ \E m \in 1..DataDone : OfData(mpUpdates[j], FilesToMove[m])
    BY MpUpdateTypes DEF MpShapes
  <1>2. ASSUME NEW i \in 1..FactsDone, OfFact(mpUpdates[j], i)
        PROVE  mpUpdates[j].to \in MpPaths /\ mpUpdates[j].to.name \notin DataFiles
    <2>1. i \in 1..Len(mpFacts) BY MpFactTypes
    <2> QED BY <2>1, <1>2, MpTargets DEF OfFact
  <1>3. ASSUME NEW m \in 1..DataDone, OfData(mpUpdates[j], FilesToMove[m])
        PROVE  mpUpdates[j].to \in MpPaths /\ mpUpdates[j].to.name \in DataFiles
    <2>1. FilesToMove[m] \in DataFiles BY MpFilesToMove
    <2> QED BY <2>1, <1>3, MpLocations DEF OfData
  <1> QED BY <1>1, <1>2, <1>3

(* With no file removed, the target userspace has the new contents of each  *)
(* fact at the path the fact goes to ...                                    *)
LEMMA MpPrepared ==
  ASSUME MpAssumption, MpInvariant, CanReboot, Unchanged, NEW i \in 1..Len(mpFacts)
  PROVE  TargetPath(i) \in DOMAIN mpUserspace /\ mpUserspace[TargetPath(i)] = NewConf(i)
  <1>1. MpTypes /\ MpFacts /\ NamesDone \in 0..Len(ConfNames) /\ FactsDone = Len(mpFacts)
        /\ DataDone = 3 /\ UpdatesDone = Len(mpUpdates) /\ i \in 1..FactsDone
        /\ DOMAIN mpUserspace = {c.dst : c \in mpCopies}
    BY MpAtReboot DEF MpUserspace
  <1>2. i \in DOMAIN mpFacts /\ Len(mpFacts) \in Nat BY <1>1, MpFactTypes
  <1>3. PathOf(i) \in DOMAIN mpFiles /\ mpFiles[PathOf(i)] = mpFacts[i].conf
    <2>1. PathOf(i) \in DOMAIN mpSystem.files /\ mpFacts[i].conf = mpSystem.files[PathOf(i)]
      BY <1>1, <1>2 DEF MpFacts
    <2>2. PathOf(i) \in DOMAIN mpFiles /\ PathOf(i).root = "system"
      BY <2>1 DEF Unchanged, SystemFiles
    <2> QED BY <2>1, <2>2, MpAtReboot DEF MpFilesLeft
  <1>4. ASSUME NEW j \in 1..Len(mpUpdates), mpUpdates[j].to = TargetPath(i)
        PROVE  TargetPath(i) \in DOMAIN mpUserspace /\ mpUserspace[TargetPath(i)] = NewConf(i)
    <2>1. CopyOf(mpUpdates[j]) \in mpCopies BY <1>1, MpAtReboot DEF MpCopied
    <2>2. TargetPath(i) \in DOMAIN mpUserspace
          /\ mpUserspace[TargetPath(i)] = mpFiles[mpUpdates[j].from]
      BY <2>1, <1>1, <1>4, MpAtReboot DEF MpCopiesMade, CopyOf
    <2>3. TargetPath(i).name \notin DataFiles BY <1>1, MpTargets
    <2>4. PICK k \in 1..FactsDone : OfFact(mpUpdates[j], k)
      BY <1>1, <1>2, <1>4, <2>3, MpAtReboot, MpShapeIs
    <2>5. TargetPath(k) = TargetPath(i) /\ k \in 1..Len(mpFacts)
      BY <2>4, <1>1, <1>4 DEF OfFact
    <2>6. k = i BY <2>5, <1>1, MpTargets
    <2>7. CASE mpUpdates[j].from = Stored(PathOf(i))
      <3>1. mpFiles[Stored(PathOf(i))] = NewConf(i)
        BY <2>7, <1>1, MpUpdateTypes, MpAtReboot DEF MpStore
      <3> QED BY <3>1, <2>2, <2>7
    <2>8. CASE mpUpdates[j].from # Stored(PathOf(i))
      <3>1. mpUpdates[j].from = PathOf(i) BY <2>4, <2>6, <2>8 DEF OfFact
      <3>2. ~\E l \in DOMAIN mpUpdates : mpUpdates[l].from = Stored(PathOf(i))
                                         /\ mpUpdates[l].to = TargetPath(i)
        BY <2>8, <1>1, <1>4, MpUpdateTypes, MpAtReboot DEF MpOnce
      <3>3. NewConf(i) = mpFacts[i].conf
        BY <3>2, <1>1, <1>3, MpAtReboot DEF MpAllPatched
      <3> QED BY <3>1, <3>3, <2>2, <1>3
    <2> QED BY <2>7, <2>8
  <1>5. ASSUME ~\E j \in 1..Len(mpUpdates) : mpUpdates[j].to = TargetPath(i)
        PROVE  TargetPath(i) \in DOMAIN mpUserspace /\ mpUserspace[TargetPath(i)] = NewConf(i)
    <2>1. ~Moves(i) /\ NewConf(i) = mpFacts[i].conf
      BY <1>5, <1>1, <1>3, MpUpdateTypes, MpAtReboot DEF MpAllPatched
    <2>2. TargetPath(i) = PathOf(i) BY <2>1, <1>1, MpTargets
    <2>3. PathOf(i) \in CopiedAsIs
      <3>1. CASE i = 1
        <4>1. PathOf(1) = Primary BY <1>1 DEF MpFacts
        <4> QED BY <4>1, <3>1 DEF CopiedAsIs
      <3>2. CASE i # 1
        <4>1. ~(mpSystem.source = 9 /\ OwnConfigDir)
          BY <2>1, <1>2, <3>2, MpFactTypes DEF Moves
        <4>2. PathOf(i).name \in Range(ConfNames)
              /\ PathOf(i) = System(ConfigDir(Main), PathOf(i).name)
          BY <1>1, <3>2, MpFactsAre
        <4>3. PathOf(i) \in ConfsIn(ConfigDir(Main)) BY <4>2, <1>3 DEF ConfsIn
        <4> QED BY <4>1, <4>3 DEF CopiedAsIs
      <3> QED BY <3>1, <3>2
    <2>4. CopiedFrom(PathOf(i)) \in mpCopies
      BY <2>2, <2>3, <1>1, <1>5, MpAtReboot DEF MpAllCopied
    <2>5. PathOf(i) \in DOMAIN mpUserspace /\ mpUserspace[PathOf(i)] = mpFiles[PathOf(i)]
      BY <2>4, <1>1, MpAtReboot DEF MpCopiesMade, CopiedFrom
    <2> QED BY <2>1, <2>2, <2>5, <1>3
  <1> QED BY <1>4, <1>5

(* A configuration file in the target userspace is one of the facts, or has *)
(* been copied as it is.                                                    *)
LEMMA MpCopiedFile ==
  ASSUME MpAssumption, MpInvariant, CanReboot, NEW p \in DOMAIN mpUserspace,
         p.name \in Range(ConfNames)
  PROVE  \/ \E i \in 1..Len(mpFacts) : p = TargetPath(i)
         \/ /\ ~(mpSystem.source = 9 /\ OwnConfigDir) /\ p \in DOMAIN mpFiles
            /\ p = System(ConfigDir(Main), p.name)
  <1>1. MpTypes /\ MpFacts /\ NamesDone \in 0..Len(ConfNames) /\ FactsDone = Len(mpFacts)
        /\ DataDone = 3 /\ UpdatesDone = Len(mpUpdates) /\ MpShapes
        /\ DOMAIN mpUserspace = {c.dst : c \in mpCopies}
    BY MpAtReboot DEF MpUserspace
  <1>2. PICK c \in mpCopies : c.dst = p BY <1>1
  <1>3. p.name \notin DataFiles BY MpNames
  <1>4. Len(mpFacts) \in Nat /\ Len(mpFacts) >= 1 BY <1>1, MpFactTypes, MpFactsAre
  <1>5. CASE \E j \in 1..UpdatesDone : c = CopyOf(mpUpdates[j])
    <2>1. PICK j \in 1..Len(mpUpdates) : c = CopyOf(mpUpdates[j]) BY <1>1, <1>5
    <2>2. mpUpdates[j].to = p BY <1>2, <2>1 DEF CopyOf
    <2>3. PICK i \in 1..FactsDone : OfFact(mpUpdates[j], i)
      BY <1>1, <1>3, <1>4, <2>2, MpShapeIs
    <2> QED BY <2>2, <2>3, <1>1 DEF OfFact
  <1>6. CASE c.src \in AsIs /\ c = CopiedFrom(c.src)
    <2>1. c.src = p BY <1>2, <1>6 DEF CopiedFrom
    <2>2. p \in DOMAIN mpFiles BY <1>2, <2>1, MpAtReboot DEF MpCopiesMade
    <2>3. CASE p = Primary BY <2>3, <1>1, <1>4, MpTargets
    <2>4. ASSUME NEW f \in DataFiles, p = Location(f) PROVE FALSE
      BY <2>4, <1>1, <1>3, MpLocations
    <2>5. ASSUME NEW n \in Range(ConfNames), p = System(ConfigDir(Main), n),
                 ~(mpSystem.source = 9 /\ OwnConfigDir)
          PROVE  p = System(ConfigDir(Main), p.name)
      BY <2>5, MpPathParts
    <2> QED BY <1>6, <2>1, <2>2, <2>3, <2>4, <2>5 DEF AsIs
  <1> QED BY <1>2, <1>5, <1>6, MpAtReboot DEF MpCopied

LEMMA MpDirRead ==
  ASSUME MpAssumption, MpInvariant, CanReboot
  PROVE  /\ mpSystem.source = 8 => DirReadBy(TargetMajor, mpUserspace) = ConfigDir(Main)
         /\ mpSystem.source = 9 => DirReadBy(TargetMajor, mpUserspace) = DefaultDir
  BY MpAtReboot DEF MpUserspace, DirReadBy, TargetMajor

(* ... and these are the files multipath reads there.                       *)
LEMMA MpReadAfter ==
  ASSUME MpAssumption, MpInvariant, CanReboot, Unchanged
  PROVE  DOMAIN ReadBy(TargetMajor, mpUserspace) = {TargetPath(i) : i \in 1..Len(mpFacts)}
  <1> DEFINE dir == DirReadBy(TargetMajor, mpUserspace)
             confs == {p \in DOMAIN mpUserspace : /\ p.root = "system" /\ p.dir = dir
                                                  /\ p.name \in Range(ConfNames)}
  <1>1. MpTypes /\ MpFacts /\ NamesDone \in 0..Len(ConfNames) /\ MpAllRead
        /\ NamesDone = Len(ConfNames)
    BY MpAtReboot
  <1>2. Len(mpFacts) \in Nat /\ Len(mpFacts) >= 1 /\ DOMAIN mpFacts = 1..Len(mpFacts)
        /\ mpSystem.source \in {8, 9}
    BY <1>1, MpFactTypes, MpFactsAre
  <1>3. ASSUME NEW i \in 1..Len(mpFacts), i # 1
        PROVE  TargetPath(i) \in confs
    <2>1. TargetPath(i) \in DOMAIN mpUserspace BY MpPrepared
    <2>2. PathOf(i).name \in Range(ConfNames)
          /\ PathOf(i) = System(ConfigDir(Main), PathOf(i).name)
      BY <1>1, <1>3, MpFactsAre
    <2>3. TargetPath(i).root = "system" /\ TargetPath(i).name \in Range(ConfNames)
      BY <1>1, <2>2, MpTargets, MpPathIs
    <2>4. TargetPath(i).dir = dir
      <3>1. CASE mpSystem.source = 8
        <4>1. TargetPath(i) = PathOf(i) BY <3>1, <1>1, MpTargets
        <4>2. PathOf(i).dir = ConfigDir(Main) BY <2>2, MpPathParts
        <4> QED BY <4>1, <4>2, <3>1, MpDirRead
      <3>2. CASE mpSystem.source = 9
        <4>1. TargetPath(i) = System(DefaultDir, PathOf(i).name)
          BY <3>2, <1>1, <1>3, MpTargets
        <4> QED BY <4>1, <3>2, MpDirRead, MpPathParts
      <3> QED BY <3>1, <3>2, <1>2
    <2> QED BY <2>1, <2>3, <2>4
  <1>4. ASSUME NEW p \in confs
        PROVE  \E i \in 1..Len(mpFacts) : p = TargetPath(i)
    <2>1. CASE \E i \in 1..Len(mpFacts) : p = TargetPath(i) BY <2>1
    <2>2. CASE /\ ~(mpSystem.source = 9 /\ OwnConfigDir) /\ p \in DOMAIN mpFiles
               /\ p = System(ConfigDir(Main), p.name)
      <3>1. PICK m \in 1..Len(ConfNames) : p.name = ConfNames[m] BY MpNames
      <3>2. p = ConfPath(m) BY <3>1, <2>2 DEF ConfPath
      <3>3. PICK i \in 1..Len(mpFacts) : PathOf(i) = p
        BY <1>1, <1>2, <2>2, <3>2 DEF MpAllRead
      <3>4. ~Moves(i) BY <2>2 DEF Moves
      <3> QED BY <3>3, <3>4, <1>1, MpTargets
    <2> QED BY <2>1, <2>2, MpCopiedFile
  <1>5. TargetPath(1) = Primary BY <1>1, MpTargets
  <1>6. DOMAIN ReadBy(TargetMajor, mpUserspace) = {Primary} \cup confs BY DEF ReadBy
  <1> HIDE DEF confs, dir
  <1> QED BY <1>2, <1>3, <1>4, <1>5, <1>6

(* Before, it reads those the facts are made from.                          *)
LEMMA MpReadBefore ==
  ASSUME MpAssumption, MpInvariant, CanReboot, Unchanged
  PROVE  DOMAIN ReadBy(mpSystem.source, mpFiles) = {PathOf(i) : i \in 1..Len(mpFacts)}
  <1> DEFINE confs == {p \in DOMAIN mpFiles :
                         /\ p.root = "system" /\ p.dir = DirReadBy(mpSystem.source, mpFiles)
                         /\ p.name \in Range(ConfNames)}
  <1>1. MpTypes /\ MpFacts /\ NamesDone \in 0..Len(ConfNames) /\ MpAllRead /\ MpFilesLeft
        /\ NamesDone = Len(ConfNames)
    BY MpAtReboot
  <1>2. Len(mpFacts) \in Nat /\ Len(mpFacts) >= 1 /\ DOMAIN mpFacts = 1..Len(mpFacts)
        /\ mpSystem.source \in {8, 9} /\ DOMAIN mpSystem.files \subseteq MpPaths
    BY <1>1, MpFactTypes, MpFactsAre
  <1>3. \A p \in DOMAIN mpSystem.files :
          p \in DOMAIN mpFiles /\ p.root = "system" /\ mpFiles[p] = mpSystem.files[p]
    BY <1>1 DEF Unchanged, SystemFiles, MpFilesLeft
  <1>4. DirReadBy(mpSystem.source, mpFiles) = ConfigDir(Main)
    BY <1>1, <1>2, <1>3, MpFactsAre DEF DirReadBy
  <1>5. ASSUME NEW i \in 1..Len(mpFacts), i # 1
        PROVE  PathOf(i) \in confs
    <2>1. PathOf(i) \in DOMAIN mpSystem.files BY <1>1, <1>2 DEF MpFacts
    <2>2. PathOf(i).name \in Range(ConfNames)
          /\ PathOf(i) = System(ConfigDir(Main), PathOf(i).name)
      BY <1>1, <1>5, MpFactsAre
    <2>3. PathOf(i).dir = ConfigDir(Main) BY <2>2, MpPathParts
    <2> QED BY <2>1, <2>2, <2>3, <1>3, <1>4
  <1>6. ASSUME NEW p \in confs
        PROVE  \E i \in 1..Len(mpFacts) : p = PathOf(i)
    <2>1. p \in MpPaths BY <1>1, <1>2 DEF MpFilesLeft
    <2>2. p = System(ConfigDir(Main), p.name) BY <2>1, <1>4, MpPathIs
    <2>3. PICK m \in 1..Len(ConfNames) : p.name = ConfNames[m] BY MpNames
    <2>4. p = ConfPath(m) BY <2>2, <2>3 DEF ConfPath
    <2> QED BY <2>4, <1>1, <1>2 DEF MpAllRead
  <1>7. PathOf(1) = Primary BY <1>1 DEF MpFacts
  <1>8. DOMAIN ReadBy(mpSystem.source, mpFiles) = {Primary} \cup confs BY DEF ReadBy
  <1> HIDE DEF confs
  <1> QED BY <1>2, <1>5, <1>6, <1>7, <1>8

(* The parts of MultipathIsMigrated follow.                                 *)
LEMMA MpSameFiles ==
  ASSUME MpAssumption, MpInvariant
  PROVE  SameFilesAreRead
  <1> SUFFICES ASSUME CanReboot, Unchanged
               PROVE  NamesRead(TargetMajor, mpUserspace) = NamesRead(mpSystem.source, mpFiles)
    BY DEF SameFilesAreRead
  <1>1. \A i \in 1..Len(mpFacts) : TargetPath(i).name = PathOf(i).name
    BY MpAtReboot, MpTargets
  <1> QED BY <1>1, MpReadAfter, MpReadBefore DEF NamesRead

LEMMA MpDevices ==
  ASSUME MpAssumption, MpInvariant
  PROVE  DevicesKeepTheirNames
  <1> SUFFICES ASSUME CanReboot, Unchanged, NEW f \in DataFiles, InUse(f) \in DOMAIN mpFiles
               PROVE  LET there == IF mpSystem.source = 8 THEN InUse(f) ELSE DefaultFile(f)
                      IN there \in DOMAIN mpUserspace /\ mpUserspace[there] = mpFiles[InUse(f)]
    BY DEF DevicesKeepTheirNames
  <1>1. MpTypes /\ MpFacts /\ NamesDone \in 0..Len(ConfNames) /\ MpShapes
        /\ FactsDone = Len(mpFacts) /\ DataDone = 3 /\ UpdatesDone = Len(mpUpdates)
        /\ DOMAIN mpUserspace = {c.dst : c \in mpCopies}
    BY MpAtReboot DEF MpUserspace
  <1>2. InUse(f) = Location(f) BY <1>1, MpInUse, MpAtReboot
  <1>3. Location(f).name = f BY <1>1, MpLocations
  <1>4. Len(mpFacts) \in Nat /\ mpSystem.source \in {8, 9} BY <1>1, MpFactTypes
  <1>5. CASE mpSystem.source = 9 => Location(f) = DefaultFile(f)
    <2>1. Location(f) \in CopiedAsIs BY <1>2, <1>5 DEF CopiedAsIs
    <2>2. ASSUME NEW j \in 1..Len(mpUpdates), Location(f) = mpUpdates[j].to
          PROVE  FALSE
      <3>1. PICK m \in 1..DataDone : OfData(mpUpdates[j], FilesToMove[m])
        BY <1>1, <1>3, <1>4, <2>2, MpShapeIs
      <3>2. FilesToMove[m] \in DataFiles BY <1>1, MpFilesToMove
      <3>3. DefaultFile(FilesToMove[m]).name = FilesToMove[m] BY <1>1, <3>2, MpLocations
      <3>4. FilesToMove[m] = f BY <3>1, <3>3, <2>2, <1>3 DEF OfData
      <3> QED BY <3>1, <3>4, <1>5 DEF OfData
    <2>3. CopiedFrom(Location(f)) \in mpCopies
      BY <1>1, <2>1, <2>2, MpAtReboot DEF MpAllCopied
    <2>4. Location(f) \in DOMAIN mpUserspace /\ mpUserspace[Location(f)] = mpFiles[Location(f)]
      BY <2>3, <1>1, MpAtReboot DEF MpCopiesMade, CopiedFrom
    <2> QED BY <2>4, <1>2, <1>4, <1>5
  <1>6. CASE mpSystem.source = 9 /\ Location(f) # DefaultFile(f)
    <2>1. PICK m \in 1..3 : f = FilesToMove[m] BY MpFilesToMove
    <2>2. PICK j \in 1..Len(mpUpdates) : OfData(mpUpdates[j], f)
      BY <1>1, <1>6, <2>1, MpUpdateTypes, MpAtReboot DEF MpAllMoved
    <2>3. CopyOf(mpUpdates[j]) \in mpCopies BY <1>1, MpAtReboot DEF MpCopied
    <2>4. DefaultFile(f) \in DOMAIN mpUserspace
          /\ mpUserspace[DefaultFile(f)] = mpFiles[Location(f)]
      BY <2>2, <2>3, <1>1, MpAtReboot DEF MpCopiesMade, CopyOf, OfData
    <2> QED BY <2>4, <1>2, <1>6
  <1> QED BY <1>5, <1>6

LEMMA MpObsolete ==
  ASSUME MpAssumption, MpInvariant
  PROVE  NothingObsoleteIsRead
  <1> DEFINE read == ReadBy(TargetMajor, mpUserspace)
  <1> SUFFICES ASSUME CanReboot, Unchanged
               PROVE  IF mpSystem.source = 8
                      THEN /\ \A p \in DOMAIN read : ~read[p].star
                           /\ \E p \in DOMAIN read : read[p].foreign
                           /\ \E p \in DOMAIN read : read[p].usb
                      ELSE \A p \in DOMAIN read :
                             ~read[p].getuid /\ read[p] = UpdatedFor10(read[p])
    BY DEF NothingObsoleteIsRead
  <1>1. MpTypes /\ MpFacts /\ NamesDone \in 0..Len(ConfNames) /\ MpNoGetuid BY MpAtReboot
  <1>2. Len(mpFacts) \in Nat /\ Len(mpFacts) >= 1 /\ mpSystem.source \in {8, 9}
        /\ DOMAIN mpFacts = 1..Len(mpFacts)
        /\ \A i \in 1..Len(mpFacts) : mpFacts[i].conf \in Confs
    BY <1>1, MpFactTypes, MpFactsAre
  <1>3. DOMAIN read = {TargetPath(i) : i \in 1..Len(mpFacts)} BY MpReadAfter
  <1>4. \A p \in DOMAIN read : read[p] = mpUserspace[p] BY DEF ReadBy
  <1> HIDE DEF read
  <1>5. \A i \in 1..Len(mpFacts) : TargetPath(i) \in DOMAIN read
                                   /\ read[TargetPath(i)] = UpdatedConf(mpFacts[i].conf, i = 1)
    BY <1>3, <1>4, MpPrepared DEF NewConf
  <1>6. CASE mpSystem.source = 8
    <2>1. ASSUME NEW p \in DOMAIN read PROVE ~read[p].star
      <3>1. PICK i \in 1..Len(mpFacts) : p = TargetPath(i) BY <1>3
      <3>2. UpdatedConf(mpFacts[i].conf, i = 1).star = FALSE
        BY <1>1, <1>2, <1>6, MpUpdatedConf
      <3> QED BY <3>1, <3>2, <1>5
    <2>2. \E i \in 1..Len(mpFacts) : UpdatedConf(mpFacts[i].conf, i = 1).foreign
      <3>1. CASE NeedForeign
        <4>0. mpFacts[1].conf \in Confs BY <1>2
        <4>1. UpdatedConf(mpFacts[1].conf, TRUE).foreign
          BY <3>1, <4>0, <1>1, <1>6, MpUpdatedConf, TRUE \in BOOLEAN
        <4>2. (1 = 1) = TRUE OBVIOUS
        <4>3. UpdatedConf(mpFacts[1].conf, 1 = 1).foreign BY <4>1, <4>2
        <4>4. 1 \in 1..Len(mpFacts) BY <1>2
        <4> QED BY <4>3, <4>4
      <3>2. CASE ~NeedForeign
        <4>1. PICK i \in 1..Len(mpFacts) : mpFacts[i].conf.foreign
          BY <3>2, <1>2 DEF NeedForeign
        <4>2. UpdatedConf(mpFacts[i].conf, i = 1).foreign
          BY <4>1, <1>1, <1>2, <1>6, MpUpdatedConf
        <4> QED BY <4>2
      <3> QED BY <3>1, <3>2
    <2>3. \E i \in 1..Len(mpFacts) : UpdatedConf(mpFacts[i].conf, i = 1).usb
      <3>1. CASE NeedUsb
        <4>0. mpFacts[1].conf \in Confs BY <1>2
        <4>1. UpdatedConf(mpFacts[1].conf, TRUE).usb
          BY <3>1, <4>0, <1>1, <1>6, MpUpdatedConf, TRUE \in BOOLEAN
        <4>2. (1 = 1) = TRUE OBVIOUS
        <4>3. UpdatedConf(mpFacts[1].conf, 1 = 1).usb BY <4>1, <4>2
        <4>4. 1 \in 1..Len(mpFacts) BY <1>2
        <4> QED BY <4>3, <4>4
      <3>2. CASE ~NeedUsb
        <4>1. PICK i \in 1..Len(mpFacts) : mpFacts[i].conf.usb
          BY <3>2, <1>2 DEF NeedUsb
        <4>2. UpdatedConf(mpFacts[i].conf, i = 1).usb
          BY <4>1, <1>1, <1>2, <1>6, MpUpdatedConf
        <4> QED BY <4>2
      <3> QED BY <3>1, <3>2
    <2> QED BY <2>1, <2>2, <2>3, <1>5, <1>6
  <1>7. CASE mpSystem.source = 9
    <2>1. ASSUME NEW p \in DOMAIN read
          PROVE  ~read[p].getuid /\ read[p] = UpdatedFor10(read[p])
      <3>1. PICK i \in 1..Len(mpFacts) : p = TargetPath(i) BY <1>3
      <3>2. ~mpFacts[i].conf.getuid BY <1>1, <1>2, <1>7 DEF MpNoGetuid
      <3>3. UpdatedConf(mpFacts[i].conf, i = 1).getuid = mpFacts[i].conf.getuid
            /\ UpdatedConf(mpFacts[i].conf, i = 1)
                 = UpdatedFor10(UpdatedConf(mpFacts[i].conf, i = 1))
        BY <1>1, <1>2, <1>7, MpUpdatedConf
      <3> QED BY <3>1, <3>2, <3>3, <1>5
    <2> QED BY <2>1, <1>7
  <1> QED BY <1>2, <1>6, <1>7

LEMMA MpLeftAlone ==
  ASSUME MpAssumption, MpInvariant
  PROVE  SourceIsLeftAlone /\ PatchesCanBeApplied
  BY DEF MpInvariant, MpTypes, SourceIsLeftAlone, PatchesCanBeApplied, Untouched, MpFilesLeft,
         SystemFiles

LEMMA MpLikeUserspace ==
  ASSUME MpAssumption, MpInvariant
  PROVE  SystemLikeUserspace
  <1> SUFFICES ASSUME mpAt = "done" PROVE SystemLikeUserspace BY DEF SystemLikeUserspace
  <1>1. MpTypes /\ MpPatched /\ MpUserspace /\ MpFacts /\ mpNext = Len(mpUpdates)
    BY DEF MpInvariant, Patching, FactsAreRead, MpNumbers
  <1>2. \A p \in DOMAIN mpUserspace : p \in DOMAIN mpFiles /\ mpFiles[p] = mpUserspace[p]
    BY <1>1, MpUpdateTypes DEF MpPatched
  <1> DEFINE dir == DirReadBy(TargetMajor, mpUserspace)
             confs(files) == {p \in DOMAIN files : /\ p.root = "system" /\ p.dir = dir
                                                   /\ p.name \in Range(ConfNames)}
  <1>3. dir = DirReadBy(TargetMajor, mpFiles)
    BY <1>1, <1>2 DEF MpUserspace, DirReadBy
  <1>4. \A p : p \in confs(mpFiles) <=> p \in confs(mpUserspace)
    BY <1>1, <1>2 DEF MpPatched
  <1>5. confs(mpFiles) = confs(mpUserspace) BY <1>4
  <1>6. Primary \in DOMAIN mpUserspace BY <1>1 DEF MpUserspace
  <1>7. ReadBy(TargetMajor, mpFiles) = [p \in {Primary} \cup confs(mpFiles) |-> mpFiles[p]]
    BY <1>3 DEF ReadBy
  <1>8. ReadBy(TargetMajor, mpUserspace)
          = [p \in {Primary} \cup confs(mpUserspace) |-> mpUserspace[p]]
    BY DEF ReadBy
  <1>9. \A p \in {Primary} \cup confs(mpUserspace) : mpFiles[p] = mpUserspace[p]
    BY <1>2, <1>6
  <1> HIDE DEF confs
  <1>10. ReadBy(TargetMajor, mpFiles) = ReadBy(TargetMajor, mpUserspace)
    BY <1>5, <1>7, <1>8, <1>9
  <1> QED BY <1>2, <1>10 DEF SystemLikeUserspace

(* No two files are copied to one place.                                    *)
LEMMA MpOneCopy ==
  ASSUME MpAssumption, MpTypes, MpOnce, MpCopied, UpdatesDone \in 0..Len(mpUpdates)
  PROVE  \A c, d \in mpCopies : c.dst = d.dst => c = d
  <1> SUFFICES ASSUME NEW c \in mpCopies, NEW d \in mpCopies, c.dst = d.dst PROVE c = d
    OBVIOUS
  <1>1. \A j \in 1..UpdatesDone : j \in DOMAIN mpUpdates BY MpUpdateTypes
  <1>2. \A e \in mpCopies :
          \/ \E j \in 1..UpdatesDone : e = CopyOf(mpUpdates[j])
          \/ e = CopiedFrom(e.src) /\ \A j \in 1..UpdatesDone : e.src # mpUpdates[j].to
    BY DEF MpCopied
  <1>3. \A u : CopyOf(u).dst = u.to /\ CopiedFrom(u).dst = u BY DEF CopyOf, CopiedFrom
  <1>4. CASE \E j \in 1..UpdatesDone : c = CopyOf(mpUpdates[j])
    <2>1. PICK j \in 1..UpdatesDone : c = CopyOf(mpUpdates[j]) BY <1>4
    <2>2. PICK l \in 1..UpdatesDone : d = CopyOf(mpUpdates[l]) BY <1>2, <1>3, <2>1
    <2>3. mpUpdates[j].to = mpUpdates[l].to BY <1>3, <2>1, <2>2
    <2> QED BY <1>1, <2>1, <2>2, <2>3 DEF MpOnce
  <1>5. CASE c = CopiedFrom(c.src) /\ \A j \in 1..UpdatesDone : c.src # mpUpdates[j].to
    <2>1. ~\E l \in 1..UpdatesDone : d = CopyOf(mpUpdates[l]) BY <1>3, <1>5
    <2>2. d = CopiedFrom(d.src) BY <1>2, <2>1
    <2> QED BY <1>3, <1>5, <2>2
  <1> QED BY <1>2, <1>4, <1>5

LEMMA MpUpdatesDoneIs ==
  ASSUME MpAssumption, MpTypes, MpNumbers
  PROVE  /\ UpdatesDone \in 0..Len(mpUpdates) /\ FactsDone \in 0..Len(mpFacts)
         /\ DataDone \in 0..3 /\ NamesDone \in 0..Len(ConfNames)
  <1>1. mpNext \in Nat /\ Len(mpUpdates) \in Nat /\ Len(mpFacts) \in Nat
        /\ Len(ConfNames) \in Nat
    BY MpFactTypes, MpUpdateTypes, MpNames DEF MpTypes
  <1>2. UpdatesDone \in 0..Len(mpUpdates) BY <1>1 DEF MpNumbers, UpdatesDone
  <1>3. FactsDone \in 0..Len(mpFacts) BY <1>1 DEF MpNumbers, FactsDone
  <1>4. DataDone \in 0..3 BY <1>1 DEF MpNumbers, DataDone
  <1>5. NamesDone \in 0..Len(ConfNames) BY <1>1 DEF MpNumbers, NamesDone
  <1> QED BY <1>2, <1>3, <1>4, <1>5

LEMMA MpImplies ==
  ASSUME MpAssumption, MpInvariant
  PROVE  MultipathIsMigrated /\ MultipathTypeOK
  <1>1. MultipathIsMigrated
    BY MpSameFiles, MpDevices, MpObsolete, MpLeftAlone, MpLikeUserspace DEF MultipathIsMigrated
  <1>2. MpTypes /\ MpNumbers BY DEF MpInvariant
  <1>3. \A i \in DOMAIN mpFacts : mpFacts[i].conf \in Confs BY <1>2, MpFactTypes
  <1>4. \A c, d \in mpCopies : c.dst = d.dst => c = d
    <2>1. mpCopies = {} \/ (MpCopied /\ MpOnce)
      BY DEF MpInvariant, MpTypes, ChecksArePassed, FactsAreRead
    <2> QED BY <1>2, <2>1, MpOneCopy, MpUpdatesDoneIs
  <1>5. \A p \in DOMAIN mpUserspace : p.root = "system"
    <2>1. CASE Patching BY <2>1 DEF MpInvariant, MpUserspace
    <2>2. CASE ~Patching
      <3>1. mpUserspace = <<>> BY <2>2 DEF MpInvariant
      <3>2. DOMAIN mpUserspace = {} BY <3>1
      <3> QED BY <3>2
    <2> QED BY <2>1, <2>2
  <1> QED BY <1>1, <1>2, <1>3, <1>4, <1>5 DEF MpTypes, MultipathTypeOK

-----------------------------------------------------------------------------
(* What a step leaves alone.                                                *)
LEMMA MpFactsStay ==
  ASSUME mpSystem' = mpSystem, mpFacts' = mpFacts
  PROVE  /\ Main' = Main /\ OwnConfigDir' = OwnConfigDir
         /\ \A i : PathOf(i)' = PathOf(i) /\ TargetPath(i)' = TargetPath(i)
                   /\ Moves(i)' = Moves(i) /\ NewConf(i)' = NewConf(i)
         /\ \A m : ConfPath(m)' = ConfPath(m)
         /\ \A c, first : UpdatedConf(c, first)' = UpdatedConf(c, first)
         /\ \A u, i : OfFact(u, i)' = OfFact(u, i)
  <1>1. Main' = Main BY DEF Main
  <1>2. OwnConfigDir' = OwnConfigDir BY <1>1 DEF OwnConfigDir
  <1>3. \A i : PathOf(i)' = PathOf(i) BY DEF PathOf
  <1>4. \A i : TargetPath(i)' = TargetPath(i) BY DEF TargetPath
  <1>5. \A i : Moves(i)' = Moves(i) BY <1>2 DEF Moves
  <1>6. NeedForeign' = NeedForeign /\ NeedUsb' = NeedUsb BY DEF NeedForeign, NeedUsb
  <1>7. \A c, first : UpdatedConf(c, first)' = UpdatedConf(c, first)
    BY <1>6 DEF UpdatedConf, UpdatedFor9
  <1>8. \A i : NewConf(i)' = NewConf(i) BY <1>7 DEF NewConf
  <1>9. \A m : ConfPath(m)' = ConfPath(m) BY <1>1 DEF ConfPath
  <1>10. \A u, i : OfFact(u, i)' = OfFact(u, i) BY <1>3, <1>4, <1>5 DEF OfFact
  <1> QED BY <1>1, <1>2, <1>3, <1>4, <1>5, <1>7, <1>8, <1>9, <1>10

LEMMA MpLocationsStay ==
  ASSUME mpSystem' = mpSystem, mpLocations' = mpLocations
  PROVE  /\ \A f : Location(f)' = Location(f)
         /\ \A u, f : OfData(u, f)' = OfData(u, f)
  BY DEF Location, OfData

LEMMA MpStaticStays ==
  ASSUME mpSystem' = mpSystem, mpFacts' = mpFacts, mpLocations' = mpLocations
  PROVE  /\ MpLocated => MpLocated'
         /\ MpNoGetuid => MpNoGetuid'
         /\ NamesDone' = NamesDone /\ MpFacts => MpFacts'
  <1>1. MpLocated => MpLocated' BY DEF MpLocated
  <1>2. MpNoGetuid => MpNoGetuid' BY DEF MpNoGetuid
  <1>3. NamesDone' = NamesDone /\ MpFacts => MpFacts' BY MpFactsStay DEF MpFacts
  <1> QED BY <1>1, <1>2, <1>3

LEMMA MpUpdatesStay ==
  ASSUME mpSystem' = mpSystem, mpFacts' = mpFacts, mpLocations' = mpLocations,
         mpUpdates' = mpUpdates
  PROVE  /\ MpOnce => MpOnce'
         /\ FactsDone' = FactsDone /\ DataDone' = DataDone /\ MpShapes => MpShapes'
         /\ DataDone' = DataDone /\ MpAllMoved => MpAllMoved'
         /\ UpdatesDone' = UpdatesDone /\ mpCopies' = mpCopies /\ MpCopied => MpCopied'
  <1>1. MpOnce => MpOnce' BY DEF MpOnce
  <1>2. FactsDone' = FactsDone /\ DataDone' = DataDone /\ MpShapes => MpShapes'
    BY MpFactsStay, MpLocationsStay DEF MpShapes
  <1>3. DataDone' = DataDone /\ MpAllMoved => MpAllMoved'
    BY MpLocationsStay DEF MpAllMoved
  <1>4. AsIs' = AsIs
    BY MpFactsStay, MpLocationsStay DEF AsIs
  <1>5. UpdatesDone' = UpdatesDone /\ mpCopies' = mpCopies /\ MpCopied => MpCopied'
    BY <1>4 DEF MpCopied
  <1> QED BY <1>1, <1>2, <1>3, <1>5

(* Files of the system may be removed, those of the store stay.             *)
FilesShrink ==
    /\ DOMAIN mpFiles' \subseteq DOMAIN mpFiles
    /\ \A p \in DOMAIN mpFiles' : mpFiles'[p] = mpFiles[p]
    /\ \A p \in DOMAIN mpFiles : p.root = "store" => p \in DOMAIN mpFiles'

LEMMA MpFilesShrink ==
  ASSUME MpAssumption, MpTypes, FactsDone \in 0..Len(mpFacts),
         mpSystem' = mpSystem, mpFacts' = mpFacts, mpLocations' = mpLocations, FilesShrink
  PROVE  /\ MpFilesLeft => MpFilesLeft'
         /\ NamesDone' = NamesDone /\ MpAllRead => MpAllRead'
         /\ MpNoConflict => MpNoConflict'
         /\ mpUpdates' = mpUpdates /\ FactsDone' = FactsDone /\ MpStore => MpStore'
         /\ mpUpdates' = mpUpdates /\ FactsDone' = FactsDone /\ MpAllPatched => MpAllPatched'
         /\ mpUpdates' = mpUpdates /\ mpCopies' = mpCopies /\ UpdatesDone' = UpdatesDone
              /\ MpAllCopied => MpAllCopied'
  <1>1. MpFilesLeft => MpFilesLeft' BY DEF MpFilesLeft, FilesShrink
  <1>2. NamesDone' = NamesDone /\ MpAllRead => MpAllRead'
    BY MpFactsStay DEF MpAllRead, FilesShrink
  <1>3. ConfsIn(DefaultDir)' \subseteq ConfsIn(DefaultDir)
        /\ ConfsIn(ConfigDir(Main))' \subseteq ConfsIn(ConfigDir(Main))
    BY MpFactsStay DEF ConfsIn, FilesShrink
  <1>4. MpNoConflict => MpNoConflict' BY <1>3, MpFactsStay DEF MpNoConflict
  <1>5. ASSUME mpUpdates' = mpUpdates, FactsDone' = FactsDone, MpStore PROVE MpStore'
    <2>1. \A i \in 1..FactsDone : Stored(PathOf(i)).root = "store"
      BY MpFactTypes, MpPathsAre
    <2> QED BY <1>5, <2>1, MpFactsStay DEF MpStore, FilesShrink
  <1>6. mpUpdates' = mpUpdates /\ FactsDone' = FactsDone /\ MpAllPatched => MpAllPatched'
    BY MpFactsStay DEF MpAllPatched, FilesShrink
  <1>7. CopiedAsIs' \subseteq CopiedAsIs
    <2>1. \A f : Location(f)' = Location(f) BY MpLocationsStay
    <2>2. ASSUME NEW p \in CopiedAsIs' PROVE p \in CopiedAsIs
      <3>1. CASE p = Primary BY <3>1 DEF CopiedAsIs
      <3>2. ASSUME NEW f \in DataFiles, mpSystem.source = 9 => Location(f) = DefaultFile(f),
                   p = Location(f), p \in DOMAIN mpFiles'
            PROVE  p \in CopiedAsIs
        BY <3>2 DEF CopiedAsIs, FilesShrink
      <3>3. CASE ~(mpSystem.source = 9 /\ OwnConfigDir) /\ p \in ConfsIn(ConfigDir(Main))'
        BY <3>3, <1>3 DEF CopiedAsIs
      <3> QED BY <2>1, <2>2, <3>1, <3>2, <3>3, MpFactsStay DEF CopiedAsIs
    <2> QED BY <2>2
  <1>8. mpUpdates' = mpUpdates /\ mpCopies' = mpCopies /\ UpdatesDone' = UpdatesDone
          /\ MpAllCopied => MpAllCopied'
    BY <1>7 DEF MpAllCopied
  <1> QED BY <1>1, <1>2, <1>4, <1>5, <1>6, <1>8

(* The steps preserve the invariant.                                        *)
LEMMA MpInitially ==
  ASSUME MpAssumption, MultipathInit
  PROVE  MpInvariant
  <1>1. MpTypes
    <2>1. mpFacts \in Seq(MpFact) /\ mpUpdates \in Seq(MpUpdate)
      BY EmptySeq DEF MultipathInit
    <2>2. mpLocations \in [DataFiles -> DirOrUnset] BY DEF MultipathInit, DirOrUnset
    <2> QED BY <2>1, <2>2 DEF MpTypes, MultipathInit
  <1>2. MpNumbers BY DEF MpNumbers, MultipathInit
  <1>3. DOMAIN mpFacts = {} BY DEF MultipathInit
  <1>4. MpLocated BY <1>3 DEF MpLocated, MultipathInit
  <1>5. MpFilesLeft BY DEF MpFilesLeft, MultipathInit
  <1>6. DOMAIN mpFiles \subseteq MpPaths BY <1>1, MpFactTypes DEF MultipathInit
  <1>7. ~FactsAreRead /\ ~ChecksArePassed /\ ~Patching /\ ~CanReboot
    BY DEF FactsAreRead, ChecksArePassed, Patching, CanReboot, MultipathInit
  <1> QED BY <1>1, <1>2, <1>4, <1>5, <1>6, <1>7 DEF MpInvariant, MultipathInit

(* The phases, for each step.                                               *)
LEMMA MpPhases ==
  /\ FactsAreRead <=> mpAt \notin {"facts", "not used"}
  /\ ChecksArePassed <=> mpAt \notin {"facts", "not used", "reading", "inhibited"}
  /\ Patching <=> mpAt \in {"applications", "done"}
  /\ FactsAreRead' <=> mpAt' \notin {"facts", "not used"}
  /\ ChecksArePassed' <=> mpAt' \notin {"facts", "not used", "reading", "inhibited"}
  /\ Patching' <=> mpAt' \in {"applications", "done"}
  /\ Untouched <=> mpAt \notin {"applications", "done"} \/ CanReboot
  /\ Untouched' <=> mpAt' \notin {"applications", "done"} \/ CanReboot'
  /\ CanReboot <=> mpAt = "applications" /\ mpNext = 0
  /\ CanReboot' <=> mpAt' = "applications" /\ mpNext' = 0
  BY DEF FactsAreRead, ChecksArePassed, Patching, Untouched, CanReboot

LEMMA MpNothingStep ==
  ASSUME MpAssumption, MpInvariant, UNCHANGED mpVars
  PROVE  MpInvariant'
  <1>1. /\ mpSystem' = mpSystem /\ mpAt' = mpAt /\ mpNext' = mpNext /\ mpFiles' = mpFiles
        /\ mpFacts' = mpFacts /\ mpLocations' = mpLocations /\ mpUpdates' = mpUpdates
        /\ mpCopies' = mpCopies /\ mpUserspace' = mpUserspace
    BY DEF mpVars
  <1>2. /\ NamesDone' = NamesDone /\ FactsDone' = FactsDone /\ DataDone' = DataDone
        /\ UpdatesDone' = UpdatesDone
    BY <1>1 DEF NamesDone, FactsDone, DataDone, UpdatesDone
  <1>3. MpTypes' /\ MpNumbers' BY <1>1 DEF MpInvariant, MpTypes, MpNumbers
  <1>4. FilesShrink BY <1>1 DEF FilesShrink
  <1>5. MpTypes /\ MpNumbers BY DEF MpInvariant
  <1>6. FactsDone \in 0..Len(mpFacts) BY <1>5, MpUpdatesDoneIs
  <1>7. (MpUserspace => MpUserspace') /\ (MpPatched => MpPatched')
        /\ (MpCopiesMade => MpCopiesMade')
    BY <1>1 DEF MpUserspace, MpPatched, MpCopiesMade, DirReadBy, TargetMajor, Main
  <1> QED BY <1>1, <1>2, <1>3, <1>4, <1>5, <1>6, <1>7, MpPhases, MpStaticStays, MpUpdatesStay,
             MpFilesShrink DEF MpInvariant

LEMMA MpAdministratorStep ==
  ASSUME MpAssumption, MpInvariant, AdministratorRemoves
  PROVE  MpInvariant'
  <1>1. /\ mpSystem' = mpSystem /\ mpAt' = mpAt /\ mpNext' = mpNext
        /\ mpFacts' = mpFacts /\ mpLocations' = mpLocations /\ mpUpdates' = mpUpdates
        /\ mpCopies' = mpCopies /\ mpUserspace' = mpUserspace
        /\ mpAt \in {"reading", "patch", "move", "request", "copy"}
    BY DEF AdministratorRemoves
  <1>2. /\ NamesDone' = NamesDone /\ FactsDone' = FactsDone /\ DataDone' = DataDone
        /\ UpdatesDone' = UpdatesDone
    BY <1>1 DEF NamesDone, FactsDone, DataDone, UpdatesDone
  <1>3. MpTypes' /\ MpNumbers' BY <1>1 DEF MpInvariant, MpTypes, MpNumbers
  <1>4. FilesShrink
    <2>1. PICK path \in SystemFiles : mpFiles' = [p \in DOMAIN mpFiles \ {path} |-> mpFiles[p]]
      BY DEF AdministratorRemoves
    <2>2. path.root # "store" BY <2>1 DEF SystemFiles
    <2> QED BY <2>1, <2>2 DEF FilesShrink
  <1>5. MpTypes /\ MpNumbers BY DEF MpInvariant
  <1>6. FactsDone \in 0..Len(mpFacts) BY <1>5, MpUpdatesDoneIs
  <1>7. DOMAIN mpFiles \subseteq MpPaths => DOMAIN mpFiles' \subseteq MpPaths
    BY <1>4 DEF FilesShrink
  <1> QED BY <1>1, <1>2, <1>3, <1>4, <1>5, <1>6, <1>7, MpPhases, MpStaticStays, MpUpdatesStay,
             MpFilesShrink DEF MpInvariant

LEMMA MpPatchedStep ==
  ASSUME MpAssumption, MpInvariant, SystemPatched
  PROVE  MpInvariant'
  <1>1. /\ mpSystem' = mpSystem /\ mpNext' = mpNext /\ mpFiles' = mpFiles
        /\ mpFacts' = mpFacts /\ mpLocations' = mpLocations /\ mpUpdates' = mpUpdates
        /\ mpCopies' = mpCopies /\ mpUserspace' = mpUserspace
        /\ mpAt = "applications" /\ mpAt' = "done" /\ mpNext = Len(mpUpdates)
    BY DEF SystemPatched
  <1>2. /\ NamesDone' = NamesDone /\ FactsDone' = FactsDone /\ DataDone' = DataDone
        /\ UpdatesDone' = UpdatesDone
    BY <1>1 DEF NamesDone, FactsDone, DataDone, UpdatesDone
  <1>3. MpTypes' /\ MpNumbers' BY <1>1 DEF MpInvariant, MpTypes, MpNumbers
  <1>7. (MpUserspace => MpUserspace') /\ (MpPatched => MpPatched')
    BY <1>1 DEF MpUserspace, MpPatched, DirReadBy, TargetMajor, Main
  <1> QED BY <1>1, <1>2, <1>3, <1>7, MpPhases, MpStaticStays, MpUpdatesStay DEF MpInvariant

LEMMA MpRequestStep ==
  ASSUME MpAssumption, MpInvariant, RequestFiles
  PROVE  MpInvariant'
  <1>1. /\ mpSystem' = mpSystem /\ mpNext' = mpNext /\ mpFiles' = mpFiles
        /\ mpFacts' = mpFacts /\ mpLocations' = mpLocations /\ mpUpdates' = mpUpdates
        /\ mpUserspace' = mpUserspace /\ mpAt = "request" /\ mpAt' = "copy"
        /\ mpCopies' = {CopiedFrom(path) : path \in CopiedAsIs}
    BY DEF RequestFiles
  <1>2. MpTypes /\ MpNumbers /\ mpNext = 0 BY <1>1 DEF MpInvariant, MpNumbers
  <1>3. /\ NamesDone' = NamesDone /\ FactsDone' = FactsDone /\ DataDone' = DataDone
        /\ UpdatesDone' = 0
    BY <1>1, <1>2 DEF NamesDone, FactsDone, DataDone, UpdatesDone
  <1>4. MpTypes' BY <1>1, <1>2 DEF MpTypes
  <1>5. MpNumbers' BY <1>1, <1>2, MpUpdateTypes DEF MpNumbers
  <1>6. FilesShrink BY <1>1 DEF FilesShrink
  <1>7. FactsDone \in 0..Len(mpFacts) BY <1>2, MpUpdatesDoneIs
  <1>8. \A p : CopiedFrom(p).src = p BY DEF CopiedFrom
  <1>9. AsIs' = AsIs /\ CopiedAsIs' = CopiedAsIs
    BY <1>1, MpFactsStay, MpLocationsStay DEF AsIs, CopiedAsIs, ConfsIn
  <1>10. CopiedAsIs \subseteq AsIs BY DEF CopiedAsIs, AsIs, ConfsIn
  <1>11. MpCopied' BY <1>1, <1>3, <1>8, <1>9, <1>10 DEF MpCopied
  <1>12. MpAllCopied' BY <1>1, <1>9 DEF MpAllCopied
  <1> QED BY <1>1, <1>2, <1>3, <1>4, <1>5, <1>6, <1>7, <1>11, <1>12, MpPhases, MpStaticStays,
             MpUpdatesStay, MpFilesShrink DEF MpInvariant

LEMMA MpCheckStep ==
  ASSUME MpAssumption, MpInvariant, CheckConfigs
  PROVE  MpInvariant'
  <1>1. /\ mpSystem' = mpSystem /\ mpNext' = 0 /\ mpFiles' = mpFiles
        /\ mpFacts' = mpFacts /\ mpLocations' = mpLocations /\ mpUpdates' = mpUpdates
        /\ mpCopies' = mpCopies /\ mpUserspace' = mpUserspace
        /\ mpAt = "reading" /\ mpNext = Len(ConfNames)
        /\ mpAt' \in {"inhibited", "patch"}
        /\ mpAt' = "patch" => ~DirConflicts /\ ~HasGetuid
    BY DEF CheckConfigs
  <1>2. MpTypes /\ MpNumbers /\ MpFacts /\ mpUpdates = <<>> /\ MpAllRead
        /\ NamesDone \in 0..Len(ConfNames)
    BY <1>1, MpPhases, MpUpdatesDoneIs DEF MpInvariant
  <1>3. NamesDone' = NamesDone /\ DataDone' = (IF mpAt' = "patch" THEN 0 ELSE 3)
        /\ (mpAt' = "patch" => FactsDone' = 0 /\ DataDone' = 0)
    BY <1>1 DEF NamesDone, FactsDone, DataDone
  <1>4. MpTypes' BY <1>1, <1>2 DEF MpTypes
  <1>5. Len(mpFacts) \in Nat /\ Len(mpFacts) >= 1 BY <1>2, MpFactTypes, MpFactsAre
  <1>6. MpNumbers' BY <1>1, <1>5 DEF MpNumbers
  <1>7. FilesShrink BY <1>1 DEF FilesShrink
  <1>8. DOMAIN mpUpdates' = {} BY <1>1, <1>2
  <1>9. mpAt' = "patch" => MpShapes' /\ MpOnce' /\ MpAllMoved' /\ MpStore' /\ MpAllPatched'
    BY <1>3, <1>8 DEF MpShapes, MpOnce, MpAllMoved, MpStore, MpAllPatched
  <1>10. mpAt' = "patch" => MpNoConflict' /\ MpNoGetuid'
    <2>1. ~HasGetuid => MpNoGetuid BY DEF MpNoGetuid, HasGetuid
    <2>2. ~DirConflicts => MpNoConflict BY DEF MpNoConflict, DirConflicts
    <2>3. ConfsIn(DefaultDir)' = ConfsIn(DefaultDir) BY <1>1 DEF ConfsIn
    <2>4. MpNoConflict => MpNoConflict' BY <1>1, <2>3, MpFactsStay DEF MpNoConflict
    <2> QED BY <1>1, <2>1, <2>2, <2>4, MpStaticStays
  <1>11. MpFacts' /\ MpAllRead' /\ MpLocated' /\ MpFilesLeft'
    <2>1. MpFacts' BY <1>1, <1>2, <1>3, MpStaticStays
    <2>2. MpLocated' BY <1>1, MpStaticStays DEF MpInvariant
    <2>3. MpAllRead' BY <1>1, <1>2, <1>3, MpFactsStay DEF MpAllRead
    <2>4. MpFilesLeft' BY <1>1, MpPhases DEF MpInvariant, MpFilesLeft
    <2> QED BY <2>1, <2>2, <2>3, <2>4
  <1>12. mpUserspace' = <<>> /\ mpCopies' = {} /\ mpUpdates' = <<>>
         /\ DOMAIN mpFiles' \subseteq MpPaths
    BY <1>1, <1>2, MpPhases DEF MpInvariant
  <1> QED BY <1>1, <1>4, <1>6, <1>9, <1>10, <1>11, <1>12, MpPhases DEF MpInvariant

(* A file read is the last fact, and its settings count.                    *)
LEMMA MpParsed ==
  ASSUME MpAssumption, MpTypes, MpLocated, NEW path \in MpPaths, mpFiles[path] \in Confs,
         ParseConfig(path)
  PROVE  /\ mpFacts' \in Seq(MpFact) /\ mpLocations' \in [DataFiles -> DirOrUnset]
         /\ Len(mpFacts') = Len(mpFacts) + 1 /\ Len(mpFacts) \in Nat /\ mpFacts' # <<>>
         /\ DOMAIN mpFacts' = 1..(Len(mpFacts) + 1)
         /\ \A i \in 1..Len(mpFacts) : mpFacts'[i] = mpFacts[i]
         /\ mpFacts'[Len(mpFacts) + 1] = [path |-> path, conf |-> mpFiles[path]]
         /\ MpLocated'
  <1> DEFINE new == [path |-> path, conf |-> mpFiles[path]]
             n == Len(mpFacts)
             c == mpFiles[path]
  <1>1. new \in MpFact /\ mpFacts \in Seq(MpFact) /\ mpFacts' = Append(mpFacts, new)
        /\ new.conf = c
    BY DEF MpFact, MpTypes, ParseConfig
  <1> HIDE DEF new
  <1>2. /\ mpFacts' \in Seq(MpFact) /\ Len(mpFacts') = n + 1 /\ n \in Nat
        /\ mpFacts' # <<>>
        /\ \A i \in 1..n : mpFacts'[i] = mpFacts[i]
        /\ mpFacts'[n + 1] = new /\ DOMAIN mpFacts = 1..n
    BY ONLY <1>1, AppendProperties, LenProperties
  <1>3. DOMAIN mpFacts' = 1..(n + 1) BY ONLY <1>2, LenProperties
  <1>4. c.files \in [DataFiles -> DirOrUnset] BY DEF Confs
  <1>5. mpLocations' = [f \in DataFiles |-> IF c.files[f] # "unset" THEN c.files[f]
                                            ELSE mpLocations[f]]
    BY DEF ParseConfig, Locations
  <1>6. mpLocations' \in [DataFiles -> DirOrUnset] BY <1>4, <1>5 DEF MpTypes
  <1>7. ASSUME NEW f \in DataFiles
        PROVE  \/ /\ mpLocations'[f] = "unset"
                  /\ \A i \in 1..(n + 1) : mpFacts'[i].conf.files[f] = "unset"
               \/ /\ mpLocations'[f] # "unset"
                  /\ \E i \in 1..(n + 1) :
                       /\ mpLocations'[f] = mpFacts'[i].conf.files[f]
                       /\ \A j \in 1..(n + 1) : j > i => mpFacts'[j].conf.files[f] = "unset"
    <2>1. mpFacts'[n + 1].conf = c /\ n + 1 \in 1..(n + 1)
          /\ \A i \in 1..(n + 1) : i \in 1..n \/ i = n + 1
      BY ONLY <1>1, <1>2
    <2>2. CASE c.files[f] # "unset"
      <3>1. mpLocations'[f] = c.files[f] BY <1>5, <2>2
      <3>2. \A j \in 1..(n + 1) : ~(j > n + 1) BY <1>2
      <3> QED BY <2>1, <2>2, <3>1, <3>2
    <2>3. CASE c.files[f] = "unset"
      <3>1. mpLocations'[f] = mpLocations[f] BY <1>5, <2>3
      <3>2. CASE mpLocations[f] = "unset"
                 /\ \A i \in 1..n : mpFacts[i].conf.files[f] = "unset"
        BY <3>1, <3>2, <2>1, <2>3, <1>2
      <3>3. ASSUME mpLocations[f] # "unset", NEW i \in 1..n,
                   mpLocations[f] = mpFacts[i].conf.files[f],
                   \A j \in 1..n : j > i => mpFacts[j].conf.files[f] = "unset"
            PROVE  /\ mpLocations'[f] # "unset"
                   /\ \E k \in 1..(n + 1) :
                        /\ mpLocations'[f] = mpFacts'[k].conf.files[f]
                        /\ \A j \in 1..(n + 1) : j > k => mpFacts'[j].conf.files[f] = "unset"
        <4>1. i \in 1..(n + 1) BY <1>2
        <4>2. mpLocations'[f] = mpFacts'[i].conf.files[f] BY <3>1, <3>3, <1>2
        <4>3. \A j \in 1..(n + 1) : j > i => mpFacts'[j].conf.files[f] = "unset"
          BY <2>1, <2>3, <3>3, <1>2
        <4> QED BY <3>1, <3>3, <4>1, <4>2, <4>3
      <3> QED BY <3>2, <3>3, <1>2 DEF MpLocated
    <2> QED BY <2>2, <2>3
  <1>8. MpLocated' BY <1>3, <1>7 DEF MpLocated
  <1> QED BY <1>2, <1>3, <1>6, <1>8 DEF new

LEMMA MpPrimaryStep ==
  ASSUME MpAssumption, MpInvariant, ReadPrimary
  PROVE  MpInvariant'
  <1>1. /\ mpSystem' = mpSystem /\ mpNext' = mpNext /\ mpFiles' = mpFiles
        /\ mpUpdates' = mpUpdates /\ mpCopies' = mpCopies /\ mpUserspace' = mpUserspace
        /\ mpAt = "facts"
    BY DEF ReadPrimary
  <1>2. MpTypes /\ MpLocated /\ MpFilesLeft /\ mpFacts = <<>> /\ mpNext = 0
        /\ mpUpdates = <<>> /\ mpCopies = {} /\ mpUserspace = <<>>
        /\ DOMAIN mpFiles \subseteq MpPaths
    BY <1>1, MpPhases DEF MpInvariant, MpNumbers
  <1>3. MpFilesLeft' BY <1>1, <1>2 DEF MpFilesLeft
  <1>4. CASE mpAt' = "not used" /\ mpFacts' = mpFacts /\ mpLocations' = mpLocations
    <2>1. MpTypes' /\ MpNumbers' BY <1>1, <1>2, <1>4 DEF MpTypes, MpNumbers
    <2>2. MpLocated' BY <1>1, <1>2, <1>4, MpStaticStays
    <2> QED BY <1>1, <1>2, <1>3, <1>4, <2>1, <2>2, MpPhases DEF MpInvariant
  <1>5. CASE mpAt' = "reading" /\ Primary \in DOMAIN mpFiles /\ ParseConfig(Primary)
    <2>1. Primary \in MpPaths /\ Primary.root = "system" /\ Primary \in DOMAIN mpSystem.files
          /\ mpFiles[Primary] = mpSystem.files[Primary]
      BY <1>2, <1>5, MpPathsAre, MpPathIs DEF MpFilesLeft
    <2>2. mpFiles[Primary] \in Confs BY <1>2, <2>1, MpFactTypes DEF IsMpSystem
    <2>3. Len(mpFacts) = 0 BY <1>2
    <2>4. /\ mpFacts' \in Seq(MpFact) /\ mpLocations' \in [DataFiles -> DirOrUnset]
          /\ DOMAIN mpFacts' = 1..1 /\ MpLocated' /\ mpFacts' # <<>> /\ Len(mpFacts') = 1
          /\ mpFacts'[1] = [path |-> Primary, conf |-> mpFiles[Primary]]
      BY <1>2, <1>5, <2>1, <2>2, <2>3, MpParsed
    <2>5. MpTypes' BY <1>1, <1>2, <1>5, <2>4 DEF MpTypes
    <2>6. MpNumbers' BY <1>1, <1>2, <1>5, MpNames DEF MpNumbers
    <2>7. PathOf(1)' = Primary /\ mpFacts'[1].conf = mpFiles[Primary]
      BY <2>4 DEF PathOf
    <2>8. \A i \in DOMAIN mpFacts' : i = 1 BY <2>4
    <2>10. MpFacts' BY <1>1, <2>1, <2>4, <2>7, <2>8 DEF MpFacts
    <2>11. NamesDone' = 0 BY <1>1, <1>2, <1>5 DEF NamesDone
    <2>12. MpAllRead' BY <2>11 DEF MpAllRead
    <2> QED BY <1>1, <1>2, <1>3, <1>5, <2>4, <2>5, <2>6, <2>10, <2>12, MpPhases
            DEF MpInvariant
  <1> QED BY <1>4, <1>5 DEF ReadPrimary

LEMMA MpConfigStep ==
  ASSUME MpAssumption, MpInvariant, ReadConfig
  PROVE  MpInvariant'
  <1> DEFINE k == mpNext + 1
             path == System(ConfigDir(Main), ConfNames[k])
  <1>1. /\ mpSystem' = mpSystem /\ mpNext' = k /\ mpFiles' = mpFiles
        /\ mpUpdates' = mpUpdates /\ mpCopies' = mpCopies /\ mpUserspace' = mpUserspace
        /\ mpAt = "reading" /\ mpAt' = "reading" /\ mpNext < Len(ConfNames)
        /\ IF path \in DOMAIN mpFiles THEN ParseConfig(path)
           ELSE mpFacts' = mpFacts /\ mpLocations' = mpLocations
    BY DEF ReadConfig
  <1>2. MpTypes /\ MpLocated /\ MpFilesLeft /\ MpFacts /\ MpAllRead
        /\ mpUpdates = <<>> /\ mpCopies = {} /\ mpUserspace = <<>> /\ mpNext \in Nat
        /\ DOMAIN mpFiles \subseteq MpPaths /\ Len(ConfNames) \in Nat
    BY <1>1, MpPhases, MpNames DEF MpInvariant, MpTypes
  <1>3. NamesDone = mpNext /\ NamesDone' = k /\ k \in 1..Len(ConfNames)
        /\ NamesDone \in 0..Len(ConfNames)
    BY <1>1, <1>2 DEF NamesDone
  <1>4. MpNumbers' BY <1>1, <1>3 DEF MpNumbers
  <1>5. MpFilesLeft' BY <1>1, <1>2 DEF MpFilesLeft
  <1>6. \A m \in 1..k : m = k \/ m \in 1..NamesDone BY <1>2, <1>3
  <1>7. path = ConfPath(k) BY DEF ConfPath
  <1>8. CASE path \notin DOMAIN mpFiles
    <2>1. mpFacts' = mpFacts /\ mpLocations' = mpLocations BY <1>1, <1>8
    <2>2. MpTypes' BY <1>1, <1>2, <2>1 DEF MpTypes
    <2>3. MpLocated' BY <1>1, <1>2, <2>1, MpStaticStays
    <2>4. MpFacts'
      <3>1. \A m \in 1..NamesDone : m \in 1..NamesDone' BY <1>2, <1>3
      <3> QED BY <1>1, <1>2, <2>1, <3>1, MpFactsStay DEF MpFacts
    <2>5. MpAllRead'
      BY <1>1, <1>2, <1>3, <1>6, <1>7, <1>8, <2>1, MpFactsStay DEF MpAllRead
    <2> QED BY <1>1, <1>2, <1>4, <1>5, <2>2, <2>3, <2>4, <2>5, MpPhases DEF MpInvariant
  <1>9. CASE path \in DOMAIN mpFiles
    <2>0. PICK n \in Nat : n = Len(mpFacts) BY <1>2, MpFactTypes
    <2>1. ConfNames[k] \in Range(ConfNames) BY <1>3, MpNames
    <2>2. path \in MpPaths /\ path # Primary /\ path.root = "system" /\ path.name = ConfNames[k]
      BY <1>2, <1>3, <2>1, MpFactsAre, MpPathParts
    <2>3. path \in DOMAIN mpSystem.files /\ mpFiles[path] = mpSystem.files[path]
      BY <1>2, <1>9, <2>2 DEF MpFilesLeft
    <2>4. mpFiles[path] \in Confs BY <1>2, <2>1, <2>2, <2>3, MpFactTypes DEF IsMpSystem
    <2>5. ParseConfig(path) BY <1>1, <1>9
    <2>6. /\ mpFacts' \in Seq(MpFact) /\ mpLocations' \in [DataFiles -> DirOrUnset]
          /\ Len(mpFacts') = n + 1 /\ n \in Nat /\ DOMAIN mpFacts' = 1..(n + 1)
          /\ \A i \in 1..n : mpFacts'[i] = mpFacts[i]
          /\ mpFacts'[n + 1] = [path |-> path, conf |-> mpFiles[path]]
          /\ MpLocated' /\ mpFacts' # <<>>
      <3> HIDE DEF path, k
      <3> QED BY <1>2, <2>0, <2>2, <2>4, <2>5, MpParsed
    <2>7. n >= 1 /\ DOMAIN mpFacts = 1..n BY <2>0, <1>2, <1>3, MpFactsAre, MpFactTypes
    <2>8. Main' = Main BY <2>6, <2>7 DEF Main
    <2>9. \A m : ConfPath(m)' = ConfPath(m) BY <2>8 DEF ConfPath
    <2>10. PathOf(n + 1)' = path /\ mpFacts'[n + 1].conf = mpFiles[path]
           /\ \A i \in 1..n : PathOf(i)' = PathOf(i)
      BY <2>6 DEF PathOf
    <2>11. \A i \in 1..(n + 1) : i \in 1..n \/ i = n + 1 BY <2>6
    <2>12. \A i \in 1..n : PathOf(i) # path
      <3>1. PathOf(1) = Primary BY <1>2 DEF MpFacts
      <3>2. ASSUME NEW i \in 1..n, i # 1, PathOf(i) = path PROVE FALSE
        <4>1. PICK m \in 1..NamesDone : PathOf(i) = ConfPath(m) BY <1>2, <2>7, <3>2 DEF MpFacts
        <4>2. ConfPath(m).name = ConfNames[m] BY MpPathParts DEF ConfPath
        <4>3. ConfNames[m] = ConfNames[k] BY <4>1, <4>2, <3>2, <2>2
        <4>4. m = k BY <4>1, <4>3, <1>2, <1>3, MpNames
        <4> QED BY <4>1, <4>4, <1>2, <1>3
      <3> QED BY <2>2, <3>1, <3>2
    <2>13. MpTypes' BY <1>1, <1>2, <2>6 DEF MpTypes
    <2>14. MpFacts'
      <3>1. mpFacts' # <<>> BY <2>6
      <3>2. PathOf(1)' = Primary BY <1>2, <2>7, <2>10 DEF MpFacts
      <3>3. \A i \in 1..(n + 1) : PathOf(i)' \in DOMAIN mpSystem.files
                                  /\ mpFacts'[i].conf = mpSystem.files[PathOf(i)']
        <4>1. \A i \in 1..n : PathOf(i) \in DOMAIN mpSystem.files
                              /\ mpFacts[i].conf = mpSystem.files[PathOf(i)]
          BY <1>2, <2>7 DEF MpFacts
        <4> HIDE DEF path, k
        <4> QED BY <4>1, <2>3, <2>6, <2>10, <2>11
      <3>4. \A i \in 1..(n + 1) : i # 1 => \E m \in 1..k : PathOf(i)' = ConfPath(m)'
        <4>1. \A m \in 1..NamesDone : m \in 1..k BY <1>2, <1>3
        <4>2. k \in 1..k BY <1>3
        <4> HIDE DEF path, k
        <4>3. \A i \in 1..n : i # 1 => \E m \in 1..k : PathOf(i) = ConfPath(m)
          BY <1>2, <2>7, <4>1 DEF MpFacts
        <4> QED BY <1>7, <2>9, <2>10, <2>11, <4>2, <4>3
      <3>5. \A i, j \in 1..(n + 1) : PathOf(i)' = PathOf(j)' => i = j
        <4>1. \A i, j \in 1..n : PathOf(i) = PathOf(j) => i = j BY <1>2, <2>7 DEF MpFacts
        <4> HIDE DEF path, k
        <4> QED BY <4>1, <2>10, <2>11, <2>12
      <3> QED BY <1>1, <1>3, <2>6, <3>1, <3>2, <3>3, <3>4, <3>5 DEF MpFacts
    <2>15. MpAllRead'
      <3>1. ASSUME NEW m \in 1..k, ConfPath(m) \in DOMAIN mpFiles
            PROVE  \E i \in 1..(n + 1) : PathOf(i)' = ConfPath(m)
        <4>1. CASE m = k BY <4>1, <1>7, <2>6, <2>10
        <4>2. CASE m \in 1..NamesDone
          <5>1. PICK i \in 1..n : PathOf(i) = ConfPath(m)
            BY <4>2, <3>1, <1>2, <2>7 DEF MpAllRead
          <5> QED BY <5>1, <2>6, <2>10
        <4> QED BY <4>1, <4>2, <1>6
      <3> QED BY <3>1, <1>1, <1>3, <2>6, <2>9 DEF MpAllRead
    <2> QED BY <1>1, <1>2, <1>4, <1>5, <2>6, <2>13, <2>14, <2>15, MpPhases DEF MpInvariant
  <1> QED BY <1>8, <1>9

(* An update that is not like another one is added.                         *)
LEMMA MpAppended ==
  ASSUME MpAssumption, MpTypes, MpOnce, NEW u \in MpUpdate,
         mpUpdates' = Append(mpUpdates, u),
         \A j \in 1..Len(mpUpdates) : mpUpdates[j].to # u.to /\ mpUpdates[j].from # u.from
  PROVE  /\ mpUpdates' \in Seq(MpUpdate) /\ Len(mpUpdates) \in Nat
         /\ DOMAIN mpUpdates = 1..Len(mpUpdates)
         /\ DOMAIN mpUpdates' = 1..(Len(mpUpdates) + 1)
         /\ \A j \in 1..Len(mpUpdates) : j \in DOMAIN mpUpdates' /\ mpUpdates'[j] = mpUpdates[j]
         /\ Len(mpUpdates) + 1 \in DOMAIN mpUpdates' /\ mpUpdates'[Len(mpUpdates) + 1] = u
         /\ \A j \in DOMAIN mpUpdates' : j \in 1..Len(mpUpdates) \/ j = Len(mpUpdates) + 1
         /\ MpOnce'
  <1> DEFINE n == Len(mpUpdates)
  <1>1. mpUpdates \in Seq(MpUpdate) BY DEF MpTypes
  <1>2. /\ mpUpdates' \in Seq(MpUpdate) /\ Len(mpUpdates') = n + 1 /\ n \in Nat
        /\ \A i \in 1..n : mpUpdates'[i] = mpUpdates[i]
        /\ mpUpdates'[n + 1] = u /\ DOMAIN mpUpdates = 1..n
    BY ONLY <1>1, u \in MpUpdate, mpUpdates' = Append(mpUpdates, u), AppendProperties,
            LenProperties
  <1>3. DOMAIN mpUpdates' = 1..(n + 1) BY ONLY <1>2, LenProperties
  <1>4. \A j \in 1..(n + 1) : j \in 1..n \/ j = n + 1 BY <1>2
  <1>5. \A j, l \in 1..(n + 1) :
          mpUpdates'[j].to = mpUpdates'[l].to \/ mpUpdates'[j].from = mpUpdates'[l].from => j = l
    <2>1. \A j, l \in 1..n :
            mpUpdates[j].to = mpUpdates[l].to \/ mpUpdates[j].from = mpUpdates[l].from => j = l
      BY <1>2 DEF MpOnce
    <2> QED BY <2>1, <1>2, <1>4
  <1>6. MpOnce' BY <1>3, <1>5 DEF MpOnce
  <1> QED BY <1>2, <1>3, <1>4, <1>6

LEMMA MpPatchStep ==
  ASSUME MpAssumption, MpInvariant, PatchConfig
  PROVE  MpInvariant'
  <1>0. PICK i : i = mpNext + 1 OBVIOUS
  <1> DEFINE path == PathOf(i)
             u == [from |-> NewContents(i), to |-> TargetPath(i)]
  <1>1. /\ mpSystem' = mpSystem /\ mpFacts' = mpFacts /\ mpLocations' = mpLocations
        /\ mpCopies' = mpCopies /\ mpUserspace' = mpUserspace /\ mpAt = "patch"
        /\ mpFiles' = IF Changed(i)
                      THEN Placed(mpFiles, Stored(path), UpdatedConf(mpFiles[path], i = 1))
                      ELSE mpFiles
        /\ mpUpdates' = IF Changed(i) \/ Moves(i) THEN Append(mpUpdates, u) ELSE mpUpdates
        /\ \/ i = Len(mpFacts) /\ mpAt' = "move" /\ mpNext' = 0
           \/ i # Len(mpFacts) /\ mpAt' = "patch" /\ mpNext' = i
    BY <1>0 DEF PatchConfig, PathOf
  <1>2. /\ MpTypes /\ MpNumbers /\ MpLocated /\ MpFilesLeft /\ MpFacts /\ MpAllRead
        /\ MpNoGetuid /\ MpShapes /\ MpOnce /\ MpNoConflict /\ MpStore /\ MpAllPatched
        /\ mpCopies = {} /\ mpUserspace = <<>>
    BY <1>1, MpPhases DEF MpInvariant
  <1>3. /\ mpNext \in Nat /\ Len(mpFacts) \in Nat /\ i \in 1..Len(mpFacts)
        /\ FactsDone = mpNext /\ DataDone = 0 /\ FactsDone' = i /\ DataDone' = 0
        /\ NamesDone = Len(ConfNames) /\ NamesDone' = NamesDone
        /\ NamesDone \in 0..Len(ConfNames) /\ DOMAIN mpFacts = 1..Len(mpFacts)
    <2>1. mpNext \in Nat /\ Len(mpFacts) \in Nat /\ i \in 1..Len(mpFacts)
          /\ DOMAIN mpFacts = 1..Len(mpFacts)
      BY <1>0, <1>1, <1>2, MpFactTypes DEF MpTypes, MpNumbers
    <2>2. FactsDone' = i /\ DataDone' = 0 /\ NamesDone' = Len(ConfNames)
      BY <1>1 DEF FactsDone, DataDone, NamesDone
    <2>3. FactsDone = mpNext /\ DataDone = 0 /\ NamesDone = Len(ConfNames)
      BY <1>1 DEF FactsDone, DataDone, NamesDone
    <2> QED BY <2>1, <2>2, <2>3, MpNames
  <1>4. /\ path \in MpPaths /\ path.root = "system" /\ TargetPath(i) \in MpPaths
        /\ Stored(path) \in MpPath /\ Stored(path).root = "store"
        /\ mpFacts[i].conf \in Confs
        /\ TargetPath(i) \in MpPath /\ path \in MpPath
    BY <1>2, <1>3, MpFactTypes, MpTargets, MpPathsAre, MpPathIs
  <1>5. path \in DOMAIN mpFiles => mpFiles[path] = mpFacts[i].conf
    BY <1>2, <1>3, <1>4 DEF MpFilesLeft, MpFacts
  <1>6. /\ Changed(i) => path \in DOMAIN mpFiles /\ NewConf(i) # mpFacts[i].conf
        /\ ~Changed(i) /\ path \in DOMAIN mpFiles => NewConf(i) = mpFacts[i].conf
        /\ u.to = TargetPath(i)
        /\ Changed(i) => u.from = Stored(path)
        /\ ~Changed(i) => u.from = path
        /\ u \in MpUpdate
    BY <1>4, <1>5 DEF Changed, NewConf, NewContents, PathOf, MpUpdate
  <1>7. Changed(i) => mpFiles' = Placed(mpFiles, Stored(path), NewConf(i))
    BY <1>1, <1>5, <1>6 DEF NewConf
  <1>8. /\ \A p : p.root = "system" =>
              /\ p \in DOMAIN mpFiles' <=> p \in DOMAIN mpFiles
              /\ p \in DOMAIN mpFiles => mpFiles'[p] = mpFiles[p]
        /\ \A p \in DOMAIN mpFiles : p # Stored(path) => p \in DOMAIN mpFiles'
                                                         /\ mpFiles'[p] = mpFiles[p]
        /\ Changed(i) => Stored(path) \in DOMAIN mpFiles' /\ mpFiles'[Stored(path)] = NewConf(i)
    <2>1. CASE Changed(i)
      <3>1. DOMAIN mpFiles' = DOMAIN mpFiles \cup {Stored(path)}
            /\ \A p \in DOMAIN mpFiles' :
                 mpFiles'[p] = IF p = Stored(path) THEN NewConf(i) ELSE mpFiles[p]
        BY <1>7, <2>1 DEF Placed
      <3> QED BY <3>1, <1>4
    <2>2. CASE ~Changed(i) BY <1>1, <2>2
    <2> QED BY <2>1, <2>2
  <1> HIDE DEF path, u
  <1>9. \A k \in 1..FactsDone : k \in 1..i /\ k # i /\ k \in 1..Len(mpFacts)
    BY <1>0, <1>3
  <1>10. \A k \in 1..i : k \in 1..FactsDone \/ k = i BY <1>0, <1>3
  (* The paths of the facts, which are not those worked off.                  *)
  <1>11. \A k \in 1..FactsDone :
           /\ TargetPath(k) # TargetPath(i)
           /\ PathOf(k) # path /\ PathOf(k) \in MpPaths /\ PathOf(k).root = "system"
           /\ Stored(PathOf(k)) # Stored(path) /\ Stored(PathOf(k)).root = "store"
    <2>1. ASSUME NEW k \in 1..FactsDone
          PROVE  /\ TargetPath(k) # TargetPath(i)
                 /\ PathOf(k) # path /\ PathOf(k) \in MpPaths /\ PathOf(k).root = "system"
                 /\ Stored(PathOf(k)) # Stored(path) /\ Stored(PathOf(k)).root = "store"
      <3>1. k # i /\ k \in 1..Len(mpFacts) BY <1>9
      <3>2. PathOf(k) # path BY <3>1, <1>2, <1>3 DEF MpFacts, path
      <3>3. TargetPath(k) # TargetPath(i) BY <3>1, <1>2, <1>3, MpTargets
      <3>4. PathOf(k) \in MpPaths BY <3>1, <1>2, MpFactTypes
      <3> QED BY <3>2, <3>3, <3>4, <1>4, MpPathsAre, MpPathIs
    <2> QED BY <2>1
  <1>12. \A j \in 1..Len(mpUpdates) :
           \E k \in 1..FactsDone : OfFact(mpUpdates[j], k)
    <2>1. \A m : m \notin 1..DataDone BY <1>3
    <2> QED BY <2>1, <1>2, MpUpdateTypes DEF MpShapes
  <1>13. \A j \in 1..Len(mpUpdates) :
           /\ mpUpdates[j].to # u.to
           /\ mpUpdates[j].from # Stored(path) /\ mpUpdates[j].from # path
    <2>1. ASSUME NEW j \in 1..Len(mpUpdates)
          PROVE  /\ mpUpdates[j].to # u.to
                 /\ mpUpdates[j].from # Stored(path) /\ mpUpdates[j].from # path
      <3>1. PICK k \in 1..FactsDone : OfFact(mpUpdates[j], k) BY <1>12
      <3>2. mpUpdates[j].to = TargetPath(k)
            /\ (mpUpdates[j].from = Stored(PathOf(k)) \/ mpUpdates[j].from = PathOf(k))
        BY <3>1 DEF OfFact
      <3> QED BY <3>2, <1>4, <1>6, <1>11
    <2> QED BY <2>1
  (* What does not depend on the list of the updates.                         *)
  <1>14. /\ MpLocated' /\ MpNoGetuid' /\ MpFacts' /\ MpFilesLeft' /\ MpAllRead'
         /\ MpNoConflict' /\ MpAllMoved'
    <2>1. MpLocated' /\ MpNoGetuid' /\ MpFacts' BY <1>1, <1>2, <1>3, MpStaticStays
    <2>2. MpFilesLeft' BY <1>1, <1>2, <1>8 DEF MpFilesLeft
    <2>3. \A m : ConfPath(m).root = "system" BY MpPathParts DEF ConfPath
    <2>4. MpAllRead'
      <3>1. NamesDone' = NamesDone /\ mpFacts' = mpFacts /\ MpAllRead BY <1>1, <1>2, <1>3
      <3>2. \A m : ConfPath(m)' = ConfPath(m) BY <1>1, MpFactsStay
      <3>3. \A k : PathOf(k)' = PathOf(k) BY <1>1, MpFactsStay
      <3>4. \A m : ConfPath(m) \in DOMAIN mpFiles' => ConfPath(m) \in DOMAIN mpFiles
        BY ONLY <1>8, <2>3
      <3> QED BY ONLY SMTT(60), <3>1, <3>2, <3>3, <3>4 DEF MpAllRead
    <2>5. ConfsIn(DefaultDir)' = ConfsIn(DefaultDir)
      <3>1. \A d, n : System(d, n).root = "system" BY MpPathParts
      <3> QED BY <1>8, <3>1 DEF ConfsIn
    <2>6. MpNoConflict' BY <1>1, <1>2, <2>5, MpFactsStay DEF MpNoConflict
    <2>7. MpAllMoved'
      <3>1. \A m : m \notin 1..DataDone' BY <1>3
      <3> QED BY <3>1 DEF MpAllMoved
    <2> QED BY SMTT(60), <2>1, <2>2, <2>4, <2>6, <2>7
  <1>15. MpNumbers' /\ mpNext' \in Nat /\ mpAt' \in {"move", "patch"}
    <2>1. CASE i = Len(mpFacts) /\ mpAt' = "move" /\ mpNext' = 0
      BY <2>1 DEF MpNumbers
    <2>2. CASE i # Len(mpFacts) /\ mpAt' = "patch" /\ mpNext' = i
      <3>1. i \in 1..Len(mpFacts) /\ Len(mpFacts) \in Nat BY <1>3
      <3>2. i \in Nat /\ i < Len(mpFacts) BY ONLY <2>2, <3>1
      <3>3. mpFacts' = mpFacts BY <1>1
      <3> QED BY ONLY <2>2, <3>2, <3>3 DEF MpNumbers
    <2> QED BY <1>1, <2>1, <2>2
  <1>16. \A k : /\ PathOf(k)' = PathOf(k) /\ TargetPath(k)' = TargetPath(k)
                /\ Moves(k)' = Moves(k) /\ NewConf(k)' = NewConf(k)
                /\ \A v : OfFact(v, k)' = OfFact(v, k)
    BY <1>1, MpFactsStay
  <1>17. CASE Changed(i) \/ Moves(i)
    <2>1. mpUpdates' = Append(mpUpdates, u) BY <1>1, <1>17
    <2>2. PICK n \in Nat : n = Len(mpUpdates) BY <1>2, MpUpdateTypes
    <2>3. \A j \in 1..n : mpUpdates[j].to # u.to /\ mpUpdates[j].from # u.from
      BY <1>6, <1>13, <2>2
    <2>4. /\ mpUpdates' \in Seq(MpUpdate) /\ DOMAIN mpUpdates = 1..n
          /\ \A j \in 1..n : j \in DOMAIN mpUpdates' /\ mpUpdates'[j] = mpUpdates[j]
          /\ n + 1 \in DOMAIN mpUpdates' /\ mpUpdates'[n + 1] = u
          /\ \A j \in DOMAIN mpUpdates' : j \in 1..n \/ j = n + 1
          /\ MpOnce'
      BY <1>2, <1>6, <2>1, <2>2, <2>3, MpAppended
    <2>5. OfFact(u, i) BY <1>6, <1>17 DEF OfFact, path
    <2>6. MpShapes'
      <3>1. ASSUME NEW j \in DOMAIN mpUpdates'
            PROVE  \E k \in 1..i : OfFact(mpUpdates'[j], k)
        <4>1. CASE j = n + 1 BY <4>1, <2>4, <2>5, <1>3
        <4>2. CASE j \in 1..n
          <5>1. PICK k \in 1..FactsDone : OfFact(mpUpdates[j], k) BY <4>2, <1>12, <2>2
          <5> QED BY <4>2, <5>1, <1>9, <2>4
        <4> QED BY <4>1, <4>2, <2>4
      <3>2. \A j \in DOMAIN mpUpdates' : \E k \in 1..i : OfFact(mpUpdates[j], k)'
        <4>1. ASSUME NEW j \in DOMAIN mpUpdates'
              PROVE  \E k \in 1..i : OfFact(mpUpdates[j], k)'
          <5>1. PICK k \in 1..i : OfFact(mpUpdates'[j], k) BY <3>1, <4>1
          <5>2. OfFact(mpUpdates[j], k)'
            BY <5>1, <1>16 DEF OfFact
          <5> QED BY <5>2
        <4> QED BY <4>1
      <3> QED BY <3>2, <1>3 DEF MpShapes
    <2>7. MpStore'
      <3>1. ASSUME NEW k \in 1..i, NEW j \in DOMAIN mpUpdates',
                   mpUpdates'[j].from = Stored(PathOf(k))
            PROVE  Stored(PathOf(k)) \in DOMAIN mpFiles'
                   /\ mpFiles'[Stored(PathOf(k))] = NewConf(k)
        <4>1. CASE j = n + 1
          <5>1. u.from = Stored(PathOf(k)) BY <3>1, <4>1, <2>4
          <5>2. Stored(PathOf(k)).root = "store" BY <1>4, <1>10, <1>11 DEF path
          <5>3. Changed(i) BY <5>1, <5>2, <1>4, <1>6
          <5>4. k = i BY <5>1, <5>3, <1>6, <1>10, <1>11
          <5> QED BY <5>3, <5>4, <1>8 DEF path
        <4>2. CASE j \in 1..n
          <5>1. mpUpdates[j].from = Stored(PathOf(k)) BY <3>1, <4>2, <2>4
          <5>2. k \in 1..FactsDone BY <5>1, <4>2, <2>2, <1>10, <1>13 DEF path
          <5>3. Stored(PathOf(k)) \in DOMAIN mpFiles /\ mpFiles[Stored(PathOf(k))] = NewConf(k)
            BY SMTT(60), <5>1, <5>2, <4>2, <2>4, <1>2 DEF MpStore
          <5> QED BY <5>2, <5>3, <1>8, <1>11
        <4> QED BY <4>1, <4>2, <2>4
      <3> QED BY <3>1, <1>3, <1>16 DEF MpStore
    <2>8. MpAllPatched'
      <3>1. ASSUME NEW k \in 1..i
            PROVE  \/ \E j \in DOMAIN mpUpdates' :
                        mpUpdates'[j].from = Stored(PathOf(k))
                        /\ mpUpdates'[j].to = TargetPath(k)
                   \/ /\ PathOf(k) \in DOMAIN mpFiles' => NewConf(k) = mpFacts[k].conf
                      /\ Moves(k) => \E j \in DOMAIN mpUpdates' :
                           mpUpdates'[j].from = PathOf(k) /\ mpUpdates'[j].to = TargetPath(k)
        <4>1. CASE k = i
          <5>1. CASE Changed(i) BY <4>1, <5>1, <2>4, <1>6 DEF path
          <5>2. CASE ~Changed(i)
            <6>1. PathOf(k) \in DOMAIN mpFiles' => NewConf(k) = mpFacts[k].conf
              BY <4>1, <5>2, <1>4, <1>6, <1>8 DEF path
            <6>2. mpUpdates'[n + 1].from = PathOf(k) /\ mpUpdates'[n + 1].to = TargetPath(k)
              BY <4>1, <5>2, <2>4, <1>6 DEF path
            <6> QED BY <6>1, <6>2, <2>4
          <5> QED BY <5>1, <5>2
        <4>2. CASE k \in 1..FactsDone
          <5>1. PathOf(k) \in DOMAIN mpFiles' => PathOf(k) \in DOMAIN mpFiles
            BY <4>2, <1>8, <1>11
          <5> QED BY <4>2, <5>1, <1>2, <2>4 DEF MpAllPatched
        <4> QED BY <4>1, <4>2, <1>10
      <3> QED BY <3>1, <1>1, <1>3, <1>16 DEF MpAllPatched
    <2>9. MpTypes' BY <1>1, <1>2, <1>15, <2>4 DEF MpTypes
    <2> QED BY <1>1, <1>2, <1>14, <1>15, <2>4, <2>6, <2>7, <2>8, <2>9, MpPhases DEF MpInvariant
  <1>18. CASE ~Changed(i) /\ ~Moves(i)
    <2>1. mpUpdates' = mpUpdates /\ mpFiles' = mpFiles BY <1>1, <1>18
    <2>2. MpTypes' BY <1>1, <1>2, <1>15, <2>1 DEF MpTypes
    <2>3. MpOnce' BY <1>2, <2>1 DEF MpOnce
    <2>4. MpShapes'
      <3>1. ASSUME NEW j \in DOMAIN mpUpdates'
            PROVE  \E k \in 1..i : OfFact(mpUpdates[j], k)'
        <4>1. PICK k \in 1..FactsDone : OfFact(mpUpdates[j], k)
          BY <1>2, <1>12, <2>1, MpUpdateTypes
        <4>2. OfFact(mpUpdates[j], k)' BY <4>1, <2>1, <1>16 DEF OfFact
        <4> QED BY <4>2, <1>9
      <3> QED BY <3>1, <1>3 DEF MpShapes
    <2>5. MpStore'
      <3>1. ASSUME NEW k \in 1..i, NEW j \in DOMAIN mpUpdates,
                   mpUpdates[j].from = Stored(PathOf(k))
            PROVE  Stored(PathOf(k)) \in DOMAIN mpFiles
                   /\ mpFiles[Stored(PathOf(k))] = NewConf(k)
        <4>1. k \in 1..FactsDone BY SMTT(60), <3>1, <1>2, <1>10, <1>13, MpUpdateTypes DEF path
        <4> QED BY <3>1, <4>1, <1>2 DEF MpStore
      <3> QED BY <3>1, <1>3, <1>16, <2>1 DEF MpStore
    <2>6. MpAllPatched'
      <3>1. PathOf(i) \in DOMAIN mpFiles => NewConf(i) = mpFacts[i].conf
        BY <1>6, <1>18 DEF path
      <3>2. ASSUME NEW k \in 1..i
            PROVE  \/ \E j \in DOMAIN mpUpdates :
                        mpUpdates[j].from = Stored(PathOf(k)) /\ mpUpdates[j].to = TargetPath(k)
                   \/ /\ PathOf(k) \in DOMAIN mpFiles => NewConf(k) = mpFacts[k].conf
                      /\ Moves(k) => \E j \in DOMAIN mpUpdates :
                           mpUpdates[j].from = PathOf(k) /\ mpUpdates[j].to = TargetPath(k)
        <4>1. CASE k = i BY <4>1, <3>1, <1>18
        <4>2. CASE k \in 1..FactsDone BY <4>2, <1>2 DEF MpAllPatched
        <4> QED BY <4>1, <4>2, <1>10
      <3> QED BY <3>2, <1>1, <1>3, <1>16, <2>1 DEF MpAllPatched
    <2> QED BY <1>1, <1>2, <1>14, <1>15, <2>2, <2>3, <2>4, <2>5, <2>6, MpPhases DEF MpInvariant
  <1> QED BY <1>17, <1>18

LEMMA MpMoveStep ==
  ASSUME MpAssumption, MpInvariant, MoveFile
  PROVE  MpInvariant'
  <1>0. PICK m : m = mpNext + 1 OBVIOUS
  <1> DEFINE f == FilesToMove[m]
             u == [from |-> Location(f), to |-> DefaultFile(f)]
             own == mpSystem.source = 9 /\ Location(f) # DefaultFile(f)
  <1>1. /\ mpSystem' = mpSystem /\ mpFacts' = mpFacts /\ mpLocations' = mpLocations
        /\ mpFiles' = mpFiles
        /\ mpCopies' = mpCopies /\ mpUserspace' = mpUserspace /\ mpAt = "move"
        /\ mpUpdates' = IF own THEN Append(mpUpdates, u) ELSE mpUpdates
        /\ \/ m = 3 /\ mpAt' = "request" /\ mpNext' = 0
           \/ m # 3 /\ mpAt' = "move" /\ mpNext' = m
    BY <1>0, MpFilesToMove DEF MoveFile
  <1>2. /\ MpTypes /\ MpNumbers /\ MpLocated /\ MpFilesLeft /\ MpFacts /\ MpAllRead
        /\ MpNoGetuid /\ MpShapes /\ MpOnce /\ MpNoConflict /\ MpStore /\ MpAllPatched
        /\ MpAllMoved /\ mpCopies = {} /\ mpUserspace = <<>>
    BY <1>1, MpPhases DEF MpInvariant
  <1>3. /\ mpNext \in Nat /\ m \in 1..3 /\ mpNext \in 0..3
        /\ FactsDone = Len(mpFacts) /\ DataDone = mpNext /\ FactsDone' = FactsDone
        /\ DataDone' = m /\ NamesDone = Len(ConfNames) /\ NamesDone' = NamesDone
        /\ NamesDone \in 0..Len(ConfNames) /\ Len(mpFacts) \in Nat
    <2>1. mpNext \in Nat /\ mpNext < 3 BY <1>1, <1>2 DEF MpTypes, MpNumbers
    <2>2. m \in 1..3 /\ mpNext \in 0..3 BY ONLY <2>1, <1>0
    <2>3. DataDone' = m /\ FactsDone' = Len(mpFacts) /\ NamesDone' = Len(ConfNames)
      BY <1>1 DEF FactsDone, DataDone, NamesDone
    <2>4. DataDone = mpNext /\ FactsDone = Len(mpFacts) /\ NamesDone = Len(ConfNames)
      BY <1>1 DEF FactsDone, DataDone, NamesDone
    <2> QED BY <2>1, <2>2, <2>3, <2>4, <1>2, MpNames, MpFactTypes
  <1>4. /\ f \in DataFiles /\ u.from = Location(f) /\ u.to = DefaultFile(f) /\ u \in MpUpdate
        /\ Location(f).root = "system" /\ Location(f).name = f /\ DefaultFile(f).name = f
    <2>1. f \in DataFiles BY <1>3, MpFilesToMove
    <2>2. Location(f) \in MpPaths /\ DefaultFile(f) \in MpPaths
          /\ Location(f).name = f /\ DefaultFile(f).name = f
      BY <1>2, <2>1, MpLocations
    <2>3. Location(f) \in MpPath /\ DefaultFile(f) \in MpPath BY <2>2, MpPathsAre
    <2>4. Location(f).root = "system" BY <2>2, MpPathIs
    <2> HIDE DEF f
    <2> QED BY <2>1, <2>2, <2>3, <2>4 DEF MpUpdate
  <1> HIDE DEF f, u
  <1>5. \A k \in 1..m : k \in 1..DataDone \/ k = m BY ONLY <1>0, <1>3
  <1>6. \A k \in 1..DataDone : k \in 1..m /\ k # m /\ k \in 1..3 BY ONLY <1>0, <1>3
  <1>7. \A j \in 1..Len(mpUpdates) :
           mpUpdates[j].to # u.to /\ mpUpdates[j].from # u.from
    <2>1. ASSUME NEW j \in 1..Len(mpUpdates), NEW k \in 1..FactsDone, OfFact(mpUpdates[j], k)
          PROVE  mpUpdates[j].to # u.to /\ mpUpdates[j].from # u.from
      <3>1. k \in 1..Len(mpFacts) BY <1>3
      <3>2. mpUpdates[j].to = TargetPath(k) BY <2>1 DEF OfFact
      <3>3. TargetPath(k).name \notin DataFiles BY <1>2, <1>3, <3>1, MpTargets
      <3>4. mpUpdates[j].from # u.from
        <4>1. CASE mpUpdates[j].from = Stored(PathOf(k))
          <5>1. Stored(PathOf(k)).root = "store" BY <1>2, <3>1, MpFactTypes, MpPathsAre
          <5> QED BY <4>1, <5>1, <1>4
        <4>2. CASE Moves(k) /\ mpUpdates[j].from = PathOf(k)
          <5>1. PathOf(k).name \notin DataFiles BY <1>2, <1>3, <3>1, <3>3, MpTargets
          <5> QED BY <4>2, <5>1, <1>4
        <4> QED BY <2>1, <4>1, <4>2 DEF OfFact
      <3> QED BY <3>2, <3>3, <3>4, <1>4
    <2>2. ASSUME NEW j \in 1..Len(mpUpdates), NEW k \in 1..DataDone,
                 OfData(mpUpdates[j], FilesToMove[k])
          PROVE  mpUpdates[j].to # u.to /\ mpUpdates[j].from # u.from
      <3>1. k \in 1..3 /\ k # m BY <1>6
      <3>2. FilesToMove[k] \in DataFiles /\ FilesToMove[k] # f
        BY <3>1, <1>3, MpFilesToMove DEF f
      <3>3. Location(FilesToMove[k]).name = FilesToMove[k]
            /\ DefaultFile(FilesToMove[k]).name = FilesToMove[k]
        BY <1>2, <3>2, MpLocations
      <3> QED BY <2>2, <3>2, <3>3, <1>4 DEF OfData
    <2> QED BY <2>1, <2>2, <1>2, MpUpdateTypes DEF MpShapes
  <1>8. FilesShrink BY <1>1 DEF FilesShrink
  <1>9. MpLocated' /\ MpNoGetuid' /\ MpFacts' /\ MpFilesLeft' /\ MpAllRead' /\ MpNoConflict'
    <2>1. MpLocated' /\ MpNoGetuid' /\ MpFacts' BY <1>1, <1>2, <1>3, MpStaticStays
    <2>2. FactsDone \in 0..Len(mpFacts) BY <1>3
    <2>3. MpFilesLeft' /\ MpAllRead' /\ MpNoConflict'
      BY <1>1, <1>2, <1>3, <1>8, <2>2, MpFilesShrink
    <2> QED BY <2>1, <2>3
  <1>10. MpNumbers' /\ mpNext' \in Nat /\ mpAt' \in {"move", "request"}
    <2>1. CASE m = 3 /\ mpAt' = "request" /\ mpNext' = 0 BY ONLY <2>1 DEF MpNumbers
    <2>2. CASE m # 3 /\ mpAt' = "move" /\ mpNext' = m
      <3>1. m \in Nat /\ m < 3 BY ONLY <2>2, <1>3
      <3> QED BY ONLY <2>2, <3>1 DEF MpNumbers
    <2> QED BY <1>1, <2>1, <2>2
  <1>11. /\ \A k : PathOf(k)' = PathOf(k) /\ TargetPath(k)' = TargetPath(k)
                  /\ Moves(k)' = Moves(k) /\ NewConf(k)' = NewConf(k)
         /\ \A v, k : OfFact(v, k)' = OfFact(v, k)
         /\ \A g : Location(g)' = Location(g)
         /\ \A v, g : OfData(v, g)' = OfData(v, g)
    BY <1>1, MpFactsStay, MpLocationsStay
  <1>12. CASE own
    <2>1. mpUpdates' = Append(mpUpdates, u) BY <1>1, <1>12
    <2>2. PICK n \in Nat : n = Len(mpUpdates) BY <1>2, MpUpdateTypes
    <2>3. /\ mpUpdates' \in Seq(MpUpdate) /\ DOMAIN mpUpdates = 1..n
          /\ \A j \in 1..n : j \in DOMAIN mpUpdates' /\ mpUpdates'[j] = mpUpdates[j]
          /\ n + 1 \in DOMAIN mpUpdates' /\ mpUpdates'[n + 1] = u
          /\ \A j \in DOMAIN mpUpdates' : j \in 1..n \/ j = n + 1
          /\ MpOnce'
      BY <1>2, <1>4, <1>7, <2>1, <2>2, MpAppended
    <2>4. OfData(u, f) BY <1>4, <1>12 DEF OfData
    <2>5. MpShapes'
      <3>1. ASSUME NEW j \in DOMAIN mpUpdates'
            PROVE  \/ \E k \in 1..FactsDone : OfFact(mpUpdates'[j], k)
                   \/ \E k \in 1..m : OfData(mpUpdates'[j], FilesToMove[k])
        <4>1. CASE j = n + 1 BY <4>1, <2>3, <2>4, <1>3 DEF f
        <4>2. CASE j \in 1..n
          <5>1. \/ \E k \in 1..FactsDone : OfFact(mpUpdates[j], k)
                \/ \E k \in 1..DataDone : OfData(mpUpdates[j], FilesToMove[k])
            BY <1>2, <2>3, <4>2 DEF MpShapes
          <5> QED BY <5>1, <4>2, <2>3, <1>6
        <4> QED BY <4>1, <4>2, <2>3
      <3>2. \A j : (\A k : OfFact(mpUpdates[j], k)' = OfFact(mpUpdates'[j], k))
                   /\ (\A g : OfData(mpUpdates[j], g)' = OfData(mpUpdates'[j], g))
        BY <1>1, <1>11 DEF OfFact, OfData
      <3> QED BY <3>1, <3>2, <1>3 DEF MpShapes
    <2>6. MpStore'
      <3>1. ASSUME NEW k \in 1..FactsDone, NEW j \in DOMAIN mpUpdates',
                   mpUpdates'[j].from = Stored(PathOf(k))
            PROVE  Stored(PathOf(k)) \in DOMAIN mpFiles
                   /\ mpFiles[Stored(PathOf(k))] = NewConf(k)
        <4>1. k \in 1..Len(mpFacts) BY <1>3
        <4>2. Stored(PathOf(k)).root = "store" BY <1>2, <4>1, MpFactTypes, MpPathsAre
        <4>3. j \in 1..n BY <3>1, <4>2, <1>4, <2>3
        <4> QED BY <3>1, <4>3, <2>3, <1>2 DEF MpStore
      <3> QED BY <3>1, <1>1, <1>3, <1>11 DEF MpStore
    <2>7. MpAllPatched'
      <3>1. ASSUME NEW k \in 1..FactsDone
            PROVE  \/ \E j \in DOMAIN mpUpdates' :
                        mpUpdates'[j].from = Stored(PathOf(k))
                        /\ mpUpdates'[j].to = TargetPath(k)
                   \/ /\ PathOf(k) \in DOMAIN mpFiles => NewConf(k) = mpFacts[k].conf
                      /\ Moves(k) => \E j \in DOMAIN mpUpdates' :
                           mpUpdates'[j].from = PathOf(k) /\ mpUpdates'[j].to = TargetPath(k)
        BY <1>2, <2>3 DEF MpAllPatched
      <3> QED BY <3>1, <1>1, <1>3, <1>11 DEF MpAllPatched
    <2>8. MpAllMoved'
      <3>1. ASSUME NEW k \in 1..m, mpSystem.source = 9,
                   Location(FilesToMove[k]) # DefaultFile(FilesToMove[k])
            PROVE  \E j \in DOMAIN mpUpdates' : OfData(mpUpdates'[j], FilesToMove[k])
        <4>1. CASE k = m BY <4>1, <2>3, <2>4 DEF f
        <4>2. CASE k \in 1..DataDone
          <5>1. PICK j \in 1..n : OfData(mpUpdates[j], FilesToMove[k])
            BY <3>1, <4>2, <2>3, <1>2 DEF MpAllMoved
          <5> QED BY <5>1, <2>3
        <4> QED BY <4>1, <4>2, <1>5
      <3>2. \A j, g : OfData(mpUpdates[j], g)' = OfData(mpUpdates'[j], g)
        BY <1>1, <1>11 DEF OfData
      <3> QED BY <3>1, <3>2, <1>1, <1>3, <1>11 DEF MpAllMoved
    <2>9. MpTypes' BY <1>1, <1>2, <1>10, <2>3 DEF MpTypes
    <2> QED BY <1>1, <1>2, <1>9, <1>10, <2>3, <2>5, <2>6, <2>7, <2>8, <2>9, MpPhases
            DEF MpInvariant
  <1>13. CASE ~own
    <2>1. mpUpdates' = mpUpdates BY <1>1, <1>13
    <2>2. MpTypes' BY <1>1, <1>2, <1>10, <2>1 DEF MpTypes
    <2>3. MpOnce' /\ MpStore' /\ MpAllPatched'
      <3>1. FactsDone \in 0..Len(mpFacts) BY <1>3
      <3> QED BY <1>1, <1>2, <1>3, <1>8, <2>1, <3>1, MpUpdatesStay, MpFilesShrink
    <2>4. \A j : (\A k : OfFact(mpUpdates[j], k)' = OfFact(mpUpdates[j], k))
                 /\ (\A g : OfData(mpUpdates[j], g)' = OfData(mpUpdates[j], g))
      BY <1>1, <1>11, <2>1 DEF OfFact, OfData
    <2>5. MpShapes'
      <3>1. ASSUME NEW j \in DOMAIN mpUpdates
            PROVE  \/ \E k \in 1..FactsDone : OfFact(mpUpdates[j], k)
                   \/ \E k \in 1..m : OfData(mpUpdates[j], FilesToMove[k])
        BY <1>2, <1>6 DEF MpShapes
      <3> QED BY ZenonT(60), <3>1, <1>3, <2>1, <2>4 DEF MpShapes
    <2>6. MpAllMoved'
      <3>1. ASSUME NEW k \in 1..m, mpSystem.source = 9,
                   Location(FilesToMove[k]) # DefaultFile(FilesToMove[k])
            PROVE  \E j \in DOMAIN mpUpdates : OfData(mpUpdates[j], FilesToMove[k])
        <4>1. k # m BY <3>1, <1>13 DEF f
        <4> QED BY <4>1, <3>1, <1>2, <1>5 DEF MpAllMoved
      <3> QED BY <3>1, <1>1, <1>3, <1>11, <2>1, <2>4 DEF MpAllMoved
    <2> QED BY <1>1, <1>2, <1>9, <1>10, <2>2, <2>3, <2>5, <2>6, MpPhases DEF MpInvariant
  <1> QED BY <1>12, <1>13

(* What is copied as it is and what an update is made to is no file that an *)
(* update is made from.                                                     *)
LEMMA MpFromTo ==
  ASSUME MpAssumption, MpTypes, MpFacts, NamesDone \in 0..Len(ConfNames),
         MpShapes, FactsDone \in 0..Len(mpFacts), DataDone \in 0..3,
         NEW l \in 1..Len(mpUpdates)
  PROVE  /\ \A j \in 1..Len(mpUpdates) : mpUpdates[j].to # mpUpdates[l].from
         /\ \A p \in AsIs : p # mpUpdates[l].from
  <1>1. Len(mpFacts) \in Nat /\ Len(mpFacts) >= 1 BY MpFactTypes, MpFactsAre
  <1>2. \A j \in 1..Len(mpUpdates) : mpUpdates[j].to \in MpPaths BY MpShapeIs
  <1>3. \A f \in DataFiles : Location(f) \in MpPaths /\ Location(f).name = f BY MpLocations
  <1>4. \A n \in Range(ConfNames) :
          /\ System(ConfigDir(Main), n) \in MpPaths /\ System(ConfigDir(Main), n).name = n
          /\ n \notin DataFiles
    BY MpFactsAre, MpPathParts, MpNames
  <1>5. Primary \in MpPaths /\ Primary.name \notin DataFiles
    BY MpPathsAre, MpPathParts, MpNames DEF Primary
  <1>6. \A p \in AsIs : p \in MpPaths BY <1>3, <1>4, <1>5 DEF AsIs
  <1>7. ASSUME NEW i \in 1..FactsDone, OfFact(mpUpdates[l], i)
        PROVE  /\ \A j \in 1..Len(mpUpdates) : mpUpdates[j].to # mpUpdates[l].from
               /\ \A p \in AsIs : p # mpUpdates[l].from
    <2>1. i \in 1..Len(mpFacts) BY <1>1
    <2>2. CASE mpUpdates[l].from = Stored(PathOf(i))
      <3>1. Stored(PathOf(i)).root = "store" BY <2>1, MpFactTypes, MpPathsAre
      <3>2. \A p \in MpPaths : p.root = "system" BY MpPathIs
      <3> QED BY <1>2, <1>6, <2>2, <3>1, <3>2
    <2>3. CASE Moves(i) /\ mpUpdates[l].from = PathOf(i)
      <3>1. i # 1 /\ mpSystem.source = 9 /\ OwnConfigDir BY <1>1, <2>1, <2>3 DEF Moves
      <3>2. PathOf(i).name \in Range(ConfNames) /\ PathOf(i) # Primary
            /\ PathOf(i) = System(ConfigDir(Main), PathOf(i).name)
        BY <2>1, <3>1, MpFactsAre
      <3>3. PathOf(i).dir = ConfigDir(Main) BY <3>2, MpPathParts
      <3>4. PathOf(i).name \notin DataFiles BY <1>4, <3>2
      <3>5. ASSUME NEW j \in 1..Len(mpUpdates), mpUpdates[j].to = PathOf(i) PROVE FALSE
        <4>1. PICK k \in 1..FactsDone : OfFact(mpUpdates[j], k) BY <3>4, <3>5, MpShapeIs
        <4>2. TargetPath(k) = PathOf(i) /\ k \in 1..Len(mpFacts) BY <4>1, <3>5, <1>1 DEF OfFact
        <4>3. k # 1 BY <4>2, <3>2, MpTargets
        <4>4. TargetPath(k) = System(DefaultDir, PathOf(k).name)
          BY <3>1, <4>2, <4>3, MpTargets
        <4>5. TargetPath(k).dir = DefaultDir BY <4>4, MpPathParts
        <4> QED BY <4>2, <4>5, <3>1, <3>3 DEF OwnConfigDir
      <3>6. \A p \in AsIs : p # PathOf(i)
        BY <3>1, <3>2, <3>4, <1>3 DEF AsIs
      <3> QED BY <2>3, <3>5, <3>6
    <2> QED BY <1>7, <2>2, <2>3 DEF OfFact
  <1>8. ASSUME NEW m \in 1..DataDone, OfData(mpUpdates[l], FilesToMove[m])
        PROVE  /\ \A j \in 1..Len(mpUpdates) : mpUpdates[j].to # mpUpdates[l].from
               /\ \A p \in AsIs : p # mpUpdates[l].from
    <2>1. PICK f \in DataFiles : f = FilesToMove[m]
      BY MpFilesToMove
    <2>2. mpUpdates[l].from = Location(f) /\ mpSystem.source = 9
          /\ Location(f) # DefaultFile(f)
      BY <1>8, <2>1 DEF OfData
    <2>3. ASSUME NEW j \in 1..Len(mpUpdates), mpUpdates[j].to = Location(f) PROVE FALSE
      <3>1. PICK k \in 1..DataDone : OfData(mpUpdates[j], FilesToMove[k])
        BY <1>3, <2>3, MpShapeIs
      <3>2. PICK g \in DataFiles : g = FilesToMove[k] BY MpFilesToMove
      <3>3. DefaultFile(g) = Location(f) /\ DefaultFile(g).name = g
        BY <2>3, <3>1, <3>2, MpLocations DEF OfData
      <3> QED BY <3>3, <1>3, <2>2
    <2>4. \A p \in AsIs : p # Location(f)
      <3>1. ASSUME NEW p \in AsIs, p = Location(f) PROVE FALSE
        <4>1. p # Primary BY <3>1, <1>3, <1>5
        <4>2. \A n \in Range(ConfNames) : p # System(ConfigDir(Main), n)
          BY <3>1, <1>3, <1>4
        <4>3. PICK g \in DataFiles : p = Location(g) /\ Location(g) = DefaultFile(g)
          BY <3>1, <4>1, <4>2, <2>2 DEF AsIs
        <4>4. f = g BY <3>1, <4>3, <1>3
        <4> QED BY <4>3, <4>4, <2>2
      <3> QED BY <3>1
    <2> QED BY <2>2, <2>3, <2>4
  <1> QED BY <1>7, <1>8, MpShapeIs

LEMMA MpUpdateStep ==
  ASSUME MpAssumption, MpInvariant, RequestUpdate
  PROVE  MpInvariant'
  <1>0. PICK k : k = mpNext + 1 OBVIOUS
  <1> DEFINE u == mpUpdates[k]
  <1>1. /\ mpSystem' = mpSystem /\ mpFacts' = mpFacts /\ mpLocations' = mpLocations
        /\ mpFiles' = mpFiles /\ mpUpdates' = mpUpdates /\ mpUserspace' = mpUserspace
        /\ mpAt = "copy" /\ mpAt' = "copy" /\ mpNext < Len(mpUpdates) /\ mpNext' = k
        /\ mpCopies' = WithUpdate(mpCopies, u)
    BY <1>0 DEF RequestUpdate
  <1>2. /\ MpTypes /\ MpNumbers /\ MpLocated /\ MpFilesLeft /\ MpFacts /\ MpAllRead
        /\ MpNoGetuid /\ MpShapes /\ MpOnce /\ MpNoConflict /\ MpStore /\ MpAllPatched
        /\ MpAllMoved /\ MpCopied /\ MpAllCopied /\ mpUserspace = <<>>
    BY <1>1, MpPhases DEF MpInvariant
  <1>3. /\ mpNext \in Nat /\ Len(mpUpdates) \in Nat /\ k \in 1..Len(mpUpdates)
        /\ UpdatesDone = mpNext /\ UpdatesDone' = k
        /\ FactsDone' = FactsDone /\ DataDone' = DataDone /\ NamesDone' = NamesDone
        /\ DOMAIN mpUpdates = 1..Len(mpUpdates)
    <2>1. mpNext \in Nat /\ Len(mpUpdates) \in Nat /\ DOMAIN mpUpdates = 1..Len(mpUpdates)
      BY <1>2, MpUpdateTypes DEF MpTypes
    <2>2. k \in 1..Len(mpUpdates) BY <2>1, <1>0, <1>1
    <2> QED BY <2>1, <2>2, <1>1 DEF UpdatesDone, FactsDone, DataDone, NamesDone
  <1>4. FactsDone \in 0..Len(mpFacts) /\ DataDone \in 0..3 /\ NamesDone \in 0..Len(ConfNames)
    BY <1>2, MpUpdatesDoneIs
  <1>5. /\ \A j \in 1..k : j \in 1..UpdatesDone \/ j = k
        /\ \A j \in 1..UpdatesDone : j \in 1..k /\ j # k /\ j \in 1..Len(mpUpdates)
        /\ k \in 1..k
    BY ONLY <1>0, <1>3
  <1>6. /\ \A j \in 1..Len(mpUpdates) : mpUpdates[j].to # u.from
        /\ \A j \in 1..Len(mpUpdates) : mpUpdates[j].from # u.to
        /\ \A p \in AsIs : p # u.from
        /\ \A j \in 1..UpdatesDone : mpUpdates[j].from # u.from
    BY <1>2, <1>3, <1>4, <1>5, MpFromTo DEF MpOnce
  <1>7. mpCopies' = {c \in mpCopies : c.src \notin {u.to, u.from}} \cup {CopyOf(u)}
    BY <1>1 DEF WithUpdate, CopyOf
  <1>8. \A v : CopyOf(v).src = v.from /\ CopiedFrom(v).src = v BY DEF CopyOf, CopiedFrom
  <1>9. AsIs' = AsIs /\ CopiedAsIs' = CopiedAsIs
    BY <1>1, MpFactsStay, MpLocationsStay DEF AsIs, CopiedAsIs, ConfsIn
  <1> HIDE DEF u
  <1>10. MpCopied'
    <2>1. ASSUME NEW c \in mpCopies'
          PROVE  \/ \E j \in 1..k : c = CopyOf(mpUpdates[j])
                 \/ /\ c.src \in AsIs /\ c = CopiedFrom(c.src)
                    /\ \A j \in 1..k : c.src # mpUpdates[j].to
      <3>1. CASE c = CopyOf(u) BY <3>1, <1>5 DEF u
      <3>2. CASE c \in mpCopies /\ c.src # u.to
        <4>1. CASE \E j \in 1..UpdatesDone : c = CopyOf(mpUpdates[j]) BY <4>1, <1>5
        <4>2. CASE /\ c.src \in AsIs /\ c = CopiedFrom(c.src)
                   /\ \A j \in 1..UpdatesDone : c.src # mpUpdates[j].to
          BY <4>2, <3>2, <1>5 DEF u
        <4> QED BY <3>2, <4>1, <4>2, <1>2 DEF MpCopied
      <3> QED BY <3>1, <3>2, <1>7
    <2>2. ASSUME NEW j \in 1..k PROVE CopyOf(mpUpdates[j]) \in mpCopies'
      <3>1. CASE j = k BY <3>1, <1>7 DEF u
      <3>2. CASE j \in 1..UpdatesDone
        <4>1. CopyOf(mpUpdates[j]) \in mpCopies BY <3>2, <1>2 DEF MpCopied
        <4> QED BY <4>1, <3>2, <1>5, <1>6, <1>7, <1>8
      <3> QED BY <3>1, <3>2, <1>5
    <2> QED BY <2>1, <2>2, <1>1, <1>3, <1>9 DEF MpCopied
  <1>11. MpAllCopied'
    <2>1. ASSUME NEW p \in CopiedAsIs
          PROVE  CopiedFrom(p) \in mpCopies' \/ \E j \in 1..k : p = mpUpdates[j].to
      <3>1. CASE \E j \in 1..UpdatesDone : p = mpUpdates[j].to BY <3>1, <1>5
      <3>2. CASE CopiedFrom(p) \in mpCopies
        <4>1. p \in AsIs BY DEF CopiedAsIs, AsIs, ConfsIn
        <4>2. CASE p = u.to BY <4>2, <1>5 DEF u
        <4>3. CASE p # u.to BY <4>1, <4>3, <3>2, <1>6, <1>7, <1>8
        <4> QED BY <4>2, <4>3
      <3> QED BY <3>1, <3>2, <1>2 DEF MpAllCopied
    <2> QED BY <2>1, <1>1, <1>3, <1>9 DEF MpAllCopied
  <1>12. MpTypes' BY <1>1, <1>2, <1>3 DEF MpTypes
  <1>13. MpNumbers'
    <2>1. k <= Len(mpUpdates) BY <1>3
    <2> QED BY <2>1, <1>1 DEF MpNumbers
  <1>14. FilesShrink BY <1>1 DEF FilesShrink
  <1> QED BY <1>1, <1>2, <1>3, <1>4, <1>10, <1>11, <1>12, <1>13, <1>14, MpPhases,
             MpStaticStays, MpUpdatesStay, MpFilesShrink DEF MpInvariant

(* What the copies leave in the target userspace.                           *)
LEMMA MpCopying ==
  ASSUME MpAssumption, MpInvariant, mpAt = "copy", mpNext = Len(mpUpdates),
         \A c \in mpCopies : c.src \in DOMAIN mpFiles,
         NEW us, DOMAIN us = {c.dst : c \in mpCopies},
         \A path \in DOMAIN us :
           us[path] = mpFiles[(CHOOSE c \in mpCopies : c.dst = path).src]
  PROVE  /\ \A c \in mpCopies : c.dst \in DOMAIN us /\ us[c.dst] = mpFiles[c.src]
         /\ DOMAIN us = {c.dst : c \in mpCopies}
         /\ Primary \in DOMAIN us
         /\ mpSystem.source = 8 => ConfigDir(us[Primary]) = ConfigDir(Main)
         /\ \A p \in DOMAIN us : p.root = "system"
         /\ \A j \in 1..Len(mpUpdates) :
              /\ mpUpdates[j].to \in DOMAIN us /\ mpUpdates[j].from \in DOMAIN mpFiles
              /\ mpFiles[mpUpdates[j].from] = us[mpUpdates[j].to]
         /\ \A p \in DOMAIN us :
              \/ \E j \in DOMAIN mpUpdates : p = mpUpdates[j].to
              \/ p \in DOMAIN mpFiles /\ mpFiles[p] = us[p]
         /\ \A p \in DOMAIN mpFiles :
              p.root = "system" /\ p.name \in Range(ConfNames)
                /\ p.dir = DirReadBy(TargetMajor, us) => p \in DOMAIN us
  <1>1. /\ MpTypes /\ MpNumbers /\ MpLocated /\ MpFilesLeft /\ MpFacts /\ MpAllRead
        /\ MpNoGetuid /\ MpShapes /\ MpOnce /\ MpNoConflict /\ MpStore /\ MpAllPatched
        /\ MpAllMoved /\ MpCopied /\ MpAllCopied
    BY MpPhases DEF MpInvariant
  <1>2. FactsDone \in 0..Len(mpFacts) /\ DataDone \in 0..3 /\ NamesDone \in 0..Len(ConfNames)
        /\ UpdatesDone = Len(mpUpdates) /\ UpdatesDone \in 0..Len(mpUpdates)
        /\ DOMAIN mpUpdates = 1..Len(mpUpdates) /\ FactsDone = Len(mpFacts)
    BY <1>1, MpUpdatesDoneIs, MpUpdateTypes DEF UpdatesDone, FactsDone
  <1>3. Len(mpFacts) \in Nat /\ Len(mpFacts) >= 1 /\ mpSystem.source \in {8, 9}
    BY <1>1, <1>2, MpFactTypes, MpFactsAre
  <1>4. \A c, d \in mpCopies : c.dst = d.dst => c = d BY <1>1, <1>2, MpOneCopy
  <1>5. \A c \in mpCopies : c.dst \in DOMAIN us /\ us[c.dst] = mpFiles[c.src]
    <2>1. ASSUME NEW c \in mpCopies PROVE c.dst \in DOMAIN us /\ us[c.dst] = mpFiles[c.src]
      <3>1. (CHOOSE d \in mpCopies : d.dst = c.dst) = c BY <1>4
      <3>2. us[c.dst] = mpFiles[(CHOOSE d \in mpCopies : d.dst = c.dst).src] OBVIOUS
      <3> QED BY <3>1, <3>2
    <2> QED BY <2>1
  <1>6. DOMAIN us = {c.dst : c \in mpCopies} OBVIOUS
  <1>7. \A v : /\ CopyOf(v).src = v.from /\ CopyOf(v).dst = v.to
               /\ CopiedFrom(v).src = v /\ CopiedFrom(v).dst = v
    BY DEF CopyOf, CopiedFrom
  <1>8. ASSUME NEW j \in 1..Len(mpUpdates)
        PROVE  /\ mpUpdates[j].to \in DOMAIN us /\ mpUpdates[j].from \in DOMAIN mpFiles
               /\ mpFiles[mpUpdates[j].from] = us[mpUpdates[j].to]
               /\ mpUpdates[j].to \in MpPaths
    <2>1. CopyOf(mpUpdates[j]) \in mpCopies BY <1>1, <1>2 DEF MpCopied
    <2>2. mpUpdates[j].to \in MpPaths BY <1>1, <1>2, MpShapeIs
    <2>3. us[CopyOf(mpUpdates[j]).dst] = mpFiles[CopyOf(mpUpdates[j]).src]
          /\ CopyOf(mpUpdates[j]).dst \in DOMAIN us
          /\ CopyOf(mpUpdates[j]).src \in DOMAIN mpFiles
      BY <1>5, <2>1
    <2> QED BY <2>2, <2>3, <1>7
  <1>9. \A p \in AsIs : p.root = "system"
    <2>1. \A f \in DataFiles : Location(f).root = "system" BY <1>1, MpLocations, MpPathIs
    <2> QED BY <2>1, MpPathParts DEF AsIs, Primary
  <1>10. ASSUME NEW c \in mpCopies
         PROVE  \/ \E j \in 1..Len(mpUpdates) : c.dst = mpUpdates[j].to
                \/ c.dst = c.src /\ c.dst \in AsIs
    <2>1. CASE \E j \in 1..UpdatesDone : c = CopyOf(mpUpdates[j])
      BY <2>1, <1>2, <1>7
    <2>2. CASE c.src \in AsIs /\ c = CopiedFrom(c.src)
      <3>1. c.dst = c.src BY <2>2 DEF CopiedFrom
      <3> QED BY <2>2, <3>1
    <2> QED BY <1>1, <2>1, <2>2 DEF MpCopied
  <1>11. \A p \in CopiedAsIs : p \in DOMAIN us
    <2>1. ASSUME NEW p \in CopiedAsIs PROVE p \in DOMAIN us
      <3>1. CASE CopiedFrom(p) \in mpCopies
        <4>1. CopiedFrom(p).dst \in DOMAIN us BY <3>1, <1>5
        <4>2. CopiedFrom(p).dst = p BY <1>7
        <4> QED BY <4>1, <4>2
      <3>2. CASE \E j \in 1..UpdatesDone : p = mpUpdates[j].to BY <3>2, <1>2, <1>8
      <3> QED BY <3>1, <3>2, <1>1 DEF MpAllCopied
    <2> QED BY <2>1
  <1>12. Primary \in DOMAIN us
    <2>1. Primary \in CopiedAsIs BY DEF CopiedAsIs
    <2> QED BY <2>1, <1>11
  <1>13. mpSystem.source = 8 => ConfigDir(us[Primary]) = ConfigDir(Main)
    <2> SUFFICES ASSUME mpSystem.source = 8 PROVE ConfigDir(us[Primary]) = ConfigDir(Main)
      OBVIOUS
    <2>1. Primary \in DOMAIN mpSystem.files /\ Main = mpSystem.files[Primary] /\ Main \in Confs
          /\ Primary.root = "system" /\ Primary.name \notin DataFiles
      BY <1>1, <1>2, MpFactsAre, MpPathParts, MpNames DEF Primary
    <2>2. PICK c \in mpCopies : c.dst = Primary BY <1>6, <1>12
    <2>3. us[Primary] = mpFiles[c.src] /\ c.src \in DOMAIN mpFiles BY <1>5, <2>2
    <2>4. CASE c.dst = c.src
      <3>1. us[Primary] = Main BY <1>1, <2>1, <2>2, <2>3, <2>4 DEF MpFilesLeft
      <3> QED BY <3>1
    <2>5. CASE c.dst # c.src
      <3>1. PICK j \in 1..Len(mpUpdates) : c = CopyOf(mpUpdates[j])
        BY <1>1, <1>2, <1>7, <2>5 DEF MpCopied
      <3>2. mpUpdates[j].to = Primary /\ mpUpdates[j].from = c.src BY <2>2, <3>1, <1>7
      <3>3. PICK i \in 1..Len(mpFacts) : OfFact(mpUpdates[j], i)
        BY <1>1, <1>2, <2>1, <3>2, MpShapeIs
      <3>4. TargetPath(i) = Primary BY <3>2, <3>3 DEF OfFact
      <3>5. i = 1 BY <1>1, <1>2, <3>4, MpTargets
      <3>6. mpUpdates[j].from = Stored(PathOf(1))
        BY <3>3, <3>5 DEF OfFact, Moves
      <3>7. 1 \in 1..FactsDone BY <1>2, <1>3
      <3>8. us[Primary] = NewConf(1)
        <4>1. mpFiles[Stored(PathOf(1))] = NewConf(1)
          BY ONLY <3>6, <3>7, <1>1, <1>2 DEF MpStore
        <4> QED BY ONLY <4>1, <3>2, <3>6, <2>3
      <3>9. NewConf(1) = UpdatedConf(Main, TRUE) BY DEF NewConf, Main
      <3>10. ConfigDir(UpdatedConf(Main, TRUE)) = ConfigDir(Main)
        BY <1>1, <2>1, MpUpdatedConf, TRUE \in BOOLEAN
      <3> QED BY <3>8, <3>9, <3>10
    <2> QED BY <2>4, <2>5
  <1>14. \A p \in DOMAIN us : p.root = "system"
    <2>1. \A p \in MpPaths : p.root = "system" BY MpPathIs
    <2> QED BY ONLY <2>1, <1>6, <1>8, <1>9, <1>10
  <1>15. \A p \in DOMAIN us :
           \/ \E j \in DOMAIN mpUpdates : p = mpUpdates[j].to
           \/ p \in DOMAIN mpFiles /\ mpFiles[p] = us[p]
    <2>1. ASSUME NEW c \in mpCopies
          PROVE  \/ \E j \in DOMAIN mpUpdates : c.dst = mpUpdates[j].to
                 \/ c.dst \in DOMAIN mpFiles /\ mpFiles[c.dst] = us[c.dst]
      <3>1. CASE \E j \in 1..Len(mpUpdates) : c.dst = mpUpdates[j].to BY <3>1, <1>2
      <3>2. CASE c.dst = c.src
        <4>1. us[c.dst] = mpFiles[c.src] BY <1>5
        <4> QED BY <3>2, <4>1
      <3> QED BY <3>1, <3>2, <1>10
    <2> QED BY ONLY <2>1, <1>6
  <1>16. ASSUME NEW p \in DOMAIN mpFiles, p.root = "system", p.name \in Range(ConfNames),
                p.dir = DirReadBy(TargetMajor, us)
         PROVE  p \in DOMAIN us
    <2>1. p \in MpPaths BY <1>1, <1>16, MpFactTypes DEF MpFilesLeft
    <2>2. p = System(p.dir, p.name) BY <2>1, MpPathIs
    <2>3. CASE mpSystem.source = 9 /\ OwnConfigDir
      <3>1. p.dir = DefaultDir BY <1>16, <2>3 DEF DirReadBy, TargetMajor
      <3>2. p \in ConfsIn(DefaultDir) BY <1>16, <2>2, <3>1 DEF ConfsIn
      <3> QED BY <2>3, <3>2, <1>1 DEF MpNoConflict
    <2>4. CASE ~(mpSystem.source = 9 /\ OwnConfigDir)
      <3>1. p.dir = ConfigDir(Main)
        <4>1. CASE mpSystem.source = 8 BY <4>1, <1>13, <1>16 DEF DirReadBy, TargetMajor
        <4>2. CASE mpSystem.source = 9
          BY <4>2, <2>4, <1>16 DEF DirReadBy, TargetMajor, OwnConfigDir
        <4> QED BY <4>1, <4>2, <1>3
      <3>2. p \in ConfsIn(ConfigDir(Main)) BY <1>16, <2>2, <3>1 DEF ConfsIn
      <3>3. p \in CopiedAsIs BY <2>4, <3>2 DEF CopiedAsIs
      <3> QED BY <3>3, <1>11
    <2> QED BY <2>3, <2>4
  <1> QED BY ONLY <1>5, <1>6, <1>8, <1>12, <1>13, <1>14, <1>15, <1>16

LEMMA MpCopyStep ==
  ASSUME MpAssumption, MpInvariant, CopyToUserspace
  PROVE  MpInvariant'
  <1>1. /\ mpSystem' = mpSystem /\ mpFacts' = mpFacts /\ mpLocations' = mpLocations
        /\ mpFiles' = mpFiles /\ mpUpdates' = mpUpdates /\ mpCopies' = mpCopies
        /\ mpAt = "copy" /\ mpNext = Len(mpUpdates) /\ mpNext' = 0
    BY DEF CopyToUserspace
  <1>2. /\ MpTypes /\ MpNumbers /\ MpLocated /\ MpFilesLeft /\ MpFacts /\ MpAllRead
        /\ MpNoGetuid /\ MpShapes /\ MpOnce /\ MpNoConflict /\ MpStore /\ MpAllPatched
        /\ MpAllMoved /\ MpCopied /\ MpAllCopied /\ mpUserspace = <<>>
    BY <1>1, MpPhases DEF MpInvariant
  <1>3. mpAt' \in {"stopped", "applications"} BY DEF CopyToUserspace
  <1>4. /\ UpdatesDone' = UpdatesDone /\ FactsDone' = FactsDone /\ DataDone' = DataDone
        /\ NamesDone' = NamesDone
    BY <1>1, <1>3 DEF UpdatesDone, FactsDone, DataDone, NamesDone
  <1>5. FactsDone \in 0..Len(mpFacts) BY <1>2, MpUpdatesDoneIs
  <1>6. FilesShrink BY <1>1 DEF FilesShrink
  <1>7. MpTypes' BY <1>1, <1>2, <1>3 DEF MpTypes
  <1>8. MpNumbers' BY <1>1, <1>2, <1>3, MpUpdateTypes DEF MpNumbers
  <1>9. /\ MpLocated' /\ MpNoGetuid' /\ MpFacts' /\ MpShapes' /\ MpOnce' /\ MpAllMoved'
        /\ MpCopied' /\ MpFilesLeft' /\ MpAllRead' /\ MpNoConflict' /\ MpStore'
        /\ MpAllPatched' /\ MpAllCopied'
    BY <1>1, <1>2, <1>4, <1>5, <1>6, MpStaticStays, MpUpdatesStay, MpFilesShrink
  <1>10. CASE mpAt' = "stopped"
    <2>1. mpUserspace' = mpUserspace BY <1>10 DEF CopyToUserspace
    <2> QED BY <1>1, <1>2, <1>7, <1>8, <1>9, <1>10, <2>1, MpPhases DEF MpInvariant
  <1>11. CASE mpAt' = "applications"
    <2>1. /\ \A c \in mpCopies : c.src \in DOMAIN mpFiles
          /\ mpUserspace' = [path \in {c.dst : c \in mpCopies} |->
                               mpFiles[(CHOOSE c \in mpCopies : c.dst = path).src]]
      BY <1>11 DEF CopyToUserspace
    <2>0. PICK us : us = mpUserspace' OBVIOUS
    <2>9. /\ DOMAIN us = {c.dst : c \in mpCopies}
          /\ \A path \in DOMAIN us :
               us[path] = mpFiles[(CHOOSE c \in mpCopies : c.dst = path).src]
      BY ONLY <2>0, <2>1
    <2>2. /\ \A c \in mpCopies : c.dst \in DOMAIN us /\ us[c.dst] = mpFiles[c.src]
          /\ DOMAIN us = {c.dst : c \in mpCopies}
          /\ Primary \in DOMAIN us
          /\ mpSystem.source = 8 => ConfigDir(us[Primary]) = ConfigDir(Main)
          /\ \A p \in DOMAIN us : p.root = "system"
          /\ \A j \in 1..Len(mpUpdates) :
               /\ mpUpdates[j].to \in DOMAIN us /\ mpUpdates[j].from \in DOMAIN mpFiles
               /\ mpFiles[mpUpdates[j].from] = us[mpUpdates[j].to]
          /\ \A p \in DOMAIN us :
               \/ \E j \in DOMAIN mpUpdates : p = mpUpdates[j].to
               \/ p \in DOMAIN mpFiles /\ mpFiles[p] = us[p]
          /\ \A p \in DOMAIN mpFiles :
               p.root = "system" /\ p.name \in Range(ConfNames)
                 /\ p.dir = DirReadBy(TargetMajor, us) => p \in DOMAIN us
      BY <1>1, <2>1, <2>9, MpCopying
    <2>3. Main' = Main /\ TargetMajor' = TargetMajor
          /\ DirReadBy(TargetMajor, mpUserspace)' = DirReadBy(TargetMajor, us)
      BY <1>1, <2>0 DEF Main, TargetMajor, DirReadBy
    <2>4. MpUserspace' BY <1>1, <2>0, <2>2, <2>3 DEF MpUserspace
    <2>5. DOMAIN mpUpdates = 1..Len(mpUpdates) BY <1>2, MpUpdateTypes
    <2>6. \A j : j \notin 1..mpNext' BY <1>1
    <2>7. MpPatched' BY <1>1, <2>0, <2>2, <2>3, <2>5, <2>6 DEF MpPatched
    <2>8. MpCopiesMade'
      <3>1. \A c \in mpCopies' : c.src \in DOMAIN mpFiles' /\ us[c.dst] = mpFiles'[c.src]
        BY ONLY <1>1, <2>1, <2>2
      <3> QED BY ONLY <3>1, <2>0 DEF MpCopiesMade
    <2> QED BY <1>1, <1>2, <1>7, <1>8, <1>9, <1>11, <2>4, <2>7, <2>8, MpPhases DEF MpInvariant
  <1> QED BY <1>3, <1>10, <1>11

LEMMA MpPatchSystemStep ==
  ASSUME MpAssumption, MpInvariant, PatchSystem
  PROVE  MpInvariant'
  <1>0. PICK k : k = mpNext + 1 OBVIOUS
  <1> DEFINE u == mpUpdates[k]
  <1>1. /\ mpSystem' = mpSystem /\ mpFacts' = mpFacts /\ mpLocations' = mpLocations
        /\ mpUpdates' = mpUpdates /\ mpCopies' = mpCopies /\ mpUserspace' = mpUserspace
        /\ mpAt = "applications" /\ mpNext < Len(mpUpdates)
        /\ IF u.from \notin DOMAIN mpFiles THEN mpAt' = "broken"
           ELSE /\ mpFiles' = Placed(mpFiles, u.to, mpFiles[u.from])
                /\ mpNext' = k /\ mpAt' = mpAt
    BY <1>0 DEF PatchSystem
  <1>2. /\ MpTypes /\ MpNumbers /\ MpLocated /\ MpFacts /\ MpNoGetuid /\ MpShapes /\ MpOnce
        /\ MpAllMoved /\ MpCopied /\ MpUserspace /\ MpPatched
    BY <1>1, MpPhases DEF MpInvariant
  <1>3. /\ mpNext \in Nat /\ Len(mpUpdates) \in Nat /\ k \in 1..Len(mpUpdates) /\ k > mpNext
        /\ DOMAIN mpUpdates = 1..Len(mpUpdates) /\ k # 0
    <2>1. mpNext \in Nat /\ Len(mpUpdates) \in Nat /\ DOMAIN mpUpdates = 1..Len(mpUpdates)
      BY <1>2, MpUpdateTypes DEF MpTypes
    <2> QED BY <2>1, <1>0, <1>1
  <1>4. u.from \in DOMAIN mpFiles /\ mpFiles[u.from] = mpUserspace[u.to]
    BY <1>2, <1>3 DEF MpPatched
  <1>5. mpFiles' = Placed(mpFiles, u.to, mpFiles[u.from]) /\ mpNext' = k
        /\ mpAt' = "applications"
    BY <1>1, <1>4
  <1>6. /\ DOMAIN mpFiles' = DOMAIN mpFiles \cup {u.to}
        /\ mpFiles'[u.to] = mpUserspace[u.to]
        /\ \A p \in DOMAIN mpFiles : p # u.to => mpFiles'[p] = mpFiles[p]
    BY <1>4, <1>5 DEF Placed
  <1>7. FactsDone \in 0..Len(mpFacts) /\ DataDone \in 0..3 /\ NamesDone \in 0..Len(ConfNames)
    BY <1>2, MpUpdatesDoneIs
  <1>8. \A j \in 1..Len(mpUpdates) : mpUpdates[j].from # u.to
    BY <1>2, <1>3, <1>7, MpFromTo
  <1>9. u.to \in DOMAIN mpUserspace
    <2>1. CopyOf(u) \in mpCopies /\ CopyOf(u).dst = u.to
      BY <1>1, <1>2, <1>3 DEF MpCopied, UpdatesDone, CopyOf
    <2> QED BY <2>1, <1>2 DEF MpUserspace
  <1>10. \A j \in 1..k : j \in 1..mpNext \/ j = k BY ONLY <1>0, <1>3
  <1>11. \A j \in DOMAIN mpUpdates : j > k => j > mpNext BY ONLY <1>0, <1>3
  <1>12. DirReadBy(TargetMajor, mpUserspace)' = DirReadBy(TargetMajor, mpUserspace)
         /\ Main' = Main
    BY <1>1 DEF DirReadBy, TargetMajor, Main
  <1>13. MpUserspace' BY <1>1, <1>2, <1>12 DEF MpUserspace
  <1>14. ASSUME NEW j \in 1..k
         PROVE  mpUpdates[j].to \in DOMAIN mpFiles'
                /\ mpFiles'[mpUpdates[j].to] = mpUserspace[mpUpdates[j].to]
    <2>1. CASE mpUpdates[j].to = u.to BY <2>1, <1>6
    <2>2. CASE mpUpdates[j].to # u.to
      <3>1. j \in 1..mpNext BY <2>2, <1>10
      <3> QED BY <2>2, <3>1, <1>2, <1>6 DEF MpPatched
    <2> QED BY <2>1, <2>2
  <1>15. ASSUME NEW j \in DOMAIN mpUpdates, j > k
         PROVE  mpUpdates[j].from \in DOMAIN mpFiles'
                /\ mpFiles'[mpUpdates[j].from] = mpUserspace[mpUpdates[j].to]
    <2>1. mpUpdates[j].from # u.to BY <1>3, <1>8
    <2>2. mpUpdates[j].from \in DOMAIN mpFiles
          /\ mpFiles[mpUpdates[j].from] = mpUserspace[mpUpdates[j].to]
      BY <1>2, <1>11, <1>15 DEF MpPatched
    <2> QED BY <2>1, <2>2, <1>6
  <1>16. ASSUME NEW p \in DOMAIN mpUserspace
         PROVE  \/ \E j \in DOMAIN mpUpdates : p = mpUpdates[j].to
                \/ p \in DOMAIN mpFiles' /\ mpFiles'[p] = mpUserspace[p]
    BY <1>2, <1>6 DEF MpPatched
  <1>17. ASSUME NEW p \in DOMAIN mpFiles', p.root = "system", p.name \in Range(ConfNames),
                p.dir = DirReadBy(TargetMajor, mpUserspace)
         PROVE  p \in DOMAIN mpUserspace
    BY <1>2, <1>6, <1>9, <1>17 DEF MpPatched
  <1> HIDE DEF u
  <1>18. MpPatched' BY <1>1, <1>5, <1>12, <1>14, <1>15, <1>16, <1>17 DEF MpPatched
  <1>19. /\ UpdatesDone' = UpdatesDone /\ FactsDone' = FactsDone /\ DataDone' = DataDone
         /\ NamesDone' = NamesDone
    BY <1>1, <1>5 DEF UpdatesDone, FactsDone, DataDone, NamesDone
  <1>20. MpTypes' BY <1>1, <1>2, <1>3, <1>5 DEF MpTypes
  <1>21. MpNumbers'
    <2>1. k <= Len(mpUpdates) BY <1>3
    <2> QED BY <2>1, <1>1, <1>5 DEF MpNumbers
  <1>22. /\ MpLocated' /\ MpNoGetuid' /\ MpFacts' /\ MpShapes' /\ MpOnce' /\ MpAllMoved'
         /\ MpCopied'
    BY <1>1, <1>2, <1>19, MpStaticStays, MpUpdatesStay
  <1> QED BY <1>1, <1>3, <1>5, <1>13, <1>18, <1>20, <1>21, <1>22, MpPhases DEF MpInvariant

LEMMA MpStep ==
  ASSUME MpAssumption, MpInvariant, [MultipathNext]_mpVars
  PROVE  MpInvariant'
  BY MpNothingStep, MpPrimaryStep, MpConfigStep, MpCheckStep, MpPatchStep, MpMoveStep,
     MpRequestStep, MpUpdateStep, MpCopyStep, MpPatchSystemStep, MpPatchedStep,
     MpAdministratorStep DEF MultipathNext

(* MultipathIsMigrated, for every system with any configuration files and   *)
(* any files removed while leapp is at work: multipath reads the same files, *)
(* updated, in the target userspace and on the upgraded system, and devices *)
(* keep their names.                                                        *)
THEOREM MultipathCorrect == MultipathSpec => []MultipathIsMigrated
  <1>1. MultipathInit => MpInvariant BY MpAssumption, MpInitially
  <1>2. MpInvariant /\ [MultipathNext]_mpVars => MpInvariant' BY MpAssumption, MpStep
  <1>3. MpInvariant => MultipathIsMigrated BY MpAssumption, MpImplies
  <1> QED BY <1>1, <1>2, <1>3, PTL DEF MultipathSpec

(* Types, and that no two files are copied to one place.                    *)
THEOREM MultipathTypes == MultipathSpec => []MultipathTypeOK
  <1>1. MultipathInit => MpInvariant BY MpAssumption, MpInitially
  <1>2. MpInvariant /\ [MultipathNext]_mpVars => MpInvariant' BY MpAssumption, MpStep
  <1>3. MpInvariant => MultipathTypeOK BY MpAssumption, MpImplies
  <1> QED BY <1>1, <1>2, <1>3, PTL DEF MultipathSpec

-----------------------------------------------------------------------------
(* Types of live mode.                                                      *)

(* Every step of live mode keeps the types.                                 *)
LEMMA LiveTypeStays ==
  ASSUME LiveInv, LiveTypeOK, LiveNext
  PROVE  LiveTypeOK'
<1>t. /\ lmRun \in Nat \ {0} /\ lmSquash \in Seq(LiveImages) /\ lmStarted \subseteq UpgradeLinks
      /\ lmFaults \in 0 .. MaxLiveFaults /\ lmAttempts \in 0 .. MaxLiveAttempts
      /\ MaxLiveFaults \in Nat /\ MaxLiveAttempts \in Nat
      /\ \A i \in DOMAIN lmSquash : lmSquash[i].run \in 1 .. lmRun
  BY LiveAssumption DEF LiveInv, LiveTypes, LiveTypeOK
<1>1. lmUserspace' \subseteq LiveParts
  BY TypesStay DEF LiveInv, LiveTypes
<1>2. lmAt' \in {"facts", "not live", "prepare", "generate", "boot entry", "stopped",
                 "reboot", "live", "live, unprepared", "broken", "failed", "waits",
                 "target", "done"}
  BY DEF LiveNext, LiveTypeOK, ScanLiveConfig, PrepareStep, ToNextStep, StepFails, StepIsLogged,
    GenerateImage, GenerateFails, AddLiveEntry, AddLiveEntryFails, ResumePreparation,
    UpgradeAnew, BootLive, BootAfterStop, DoUpgrade, DoUpgradeFails, RebootByHand,
    RemoveLiveImage
<1>3. lmStarted' \subseteq UpgradeLinks
  <2>1. lmStarted' = lmStarted \/ lmStarted' = UpgradeServices(lmSquash[1].parts, lmSystem)
    BY DEF LiveNext, ScanLiveConfig, PrepareStep, StepFails, StepIsLogged, GenerateImage,
      GenerateFails, AddLiveEntry, AddLiveEntryFails, ResumePreparation, UpgradeAnew, BootLive,
      BootAfterStop, DoUpgrade, DoUpgradeFails, StartsDoUpgrade, RebootByHand, RemoveLiveImage
  <2>2. UpgradeServices(lmSquash[1].parts, lmSystem) \subseteq UpgradeLinks
    BY DEF UpgradeServices
  <2> QED BY <1>t, <2>1, <2>2
<1>4. lmFaults' \in 0 .. MaxLiveFaults
  <2>1. lmFaults' = lmFaults \/ (lmFaults < MaxLiveFaults /\ lmFaults' = lmFaults + 1)
    BY DEF LiveNext, ScanLiveConfig, PrepareStep, StepFails, StepIsLogged, GenerateImage,
      GenerateFails, AddLiveEntry, AddLiveEntryFails, ResumePreparation, UpgradeAnew, BootLive,
      BootAfterStop, DoUpgrade, DoUpgradeFails, RebootByHand, RemoveLiveImage
  <2> QED BY <1>t, <2>1
<1>5. lmAttempts' \in 0 .. MaxLiveAttempts
  <2>1. lmAttempts' = lmAttempts
        \/ (lmAttempts < MaxLiveAttempts /\ lmAttempts' = lmAttempts + 1)
    BY DEF LiveNext, ScanLiveConfig, PrepareStep, StepFails, StepIsLogged, GenerateImage,
      GenerateFails, AddLiveEntry, AddLiveEntryFails, ResumePreparation, UpgradeAnew, BootLive,
      BootAfterStop, DoUpgrade, DoUpgradeFails, StartsDoUpgrade, RebootByHand, RemoveLiveImage
  <2> QED BY <1>t, <2>1
<1>6. lmKernelRoot' \in {"none", "source", "missing"}
  <2>1. lmKernelRoot' = lmKernelRoot \/ lmKernelRoot' \in {"source", "missing"}
    BY DEF LiveNext, ScanLiveConfig, PrepareStep, StepFails, StepIsLogged, GenerateImage,
      GenerateFails, AddLiveEntry, AddLiveEntryFails, ResumePreparation, UpgradeAnew, BootLive,
      BootAfterStop, DoUpgrade, DoUpgradeFails, Transacts, RebootByHand, RemoveLiveImage, lmDisk
  <2> QED BY <2>1 DEF LiveTypeOK
<1>7. \A i \in DOMAIN lmSquash' : lmSquash'[i].run \in 1 .. lmRun'
  <2>1. (lmRun' = lmRun \/ lmRun' = lmRun + 1)
        /\ (lmSquash' \in {lmSquash, <<>>, <<Packed(TRUE)>>, <<Packed(FALSE)>>,
                          Append(lmSquash, Packed(TRUE))})
    BY DEF LiveNext, ScanLiveConfig, PrepareStep, StepFails, StepIsLogged, GenerateImage,
      GenerateFails, AddLiveEntry, AddLiveEntryFails, ResumePreparation, UpgradeAnew, BootLive,
      BootAfterStop, DoUpgrade, DoUpgradeFails, StartsDoUpgrade, RebootByHand, RemoveLiveImage, lmDisk
  <2>2. 1 .. lmRun \subseteq 1 .. lmRun' /\ lmRun \in 1 .. lmRun
    BY <1>t, <2>1
  <2>3. \A whole : Packed(whole).run = lmRun
    BY DEF Packed
  <2>4. \A x : /\ DOMAIN <<x>> = {1} /\ <<x>>[1] = x
               /\ x \in LiveImages =>
                    /\ DOMAIN Append(lmSquash, x) = DOMAIN lmSquash \cup {Len(lmSquash) + 1}
                    /\ \A i \in DOMAIN lmSquash : Append(lmSquash, x)[i] = lmSquash[i]
                    /\ Append(lmSquash, x)[Len(lmSquash) + 1] = x
    BY <1>t
  <2>5. Packed(TRUE) \in LiveImages
    BY DEF Packed, LiveImages, LiveInv, LiveTypes
  <2>6. DOMAIN <<>> = {}
    OBVIOUS
  <2> HIDE DEF Packed
  <2>7. CASE lmSquash' = lmSquash
    BY <1>t, <2>2, <2>7
  <2>8. CASE lmSquash' = <<>>
    BY <2>6, <2>8
  <2>9. ASSUME NEW whole \in BOOLEAN, lmSquash' = <<Packed(whole)>>
        PROVE  \A i \in DOMAIN lmSquash' : lmSquash'[i].run \in 1 .. lmRun'
    BY <2>2, <2>3, <2>4, <2>9
  <2>10. CASE lmSquash' = Append(lmSquash, Packed(TRUE))
    <3>1. /\ DOMAIN lmSquash' = DOMAIN lmSquash \cup {Len(lmSquash) + 1}
          /\ \A i \in DOMAIN lmSquash : lmSquash'[i] = lmSquash[i]
          /\ lmSquash'[Len(lmSquash) + 1] = Packed(TRUE)
      BY ONLY <2>4, <2>5, <2>10
    <3> QED BY <1>t, <2>2, <2>3, <3>1
  <2> QED BY <2>1, <2>7, <2>8, <2>9, <2>10
<1> QED BY <1>1, <1>2, <1>3, <1>4, <1>5, <1>6, <1>7 DEF LiveTypeOK

(* LiveTypeOK: whatever the actors of live mode scanned, prepared or        *)
(* cleaned up, the records of the image and of the boot entry are of their  *)
(* types.                                                                   *)
THEOREM LiveTyped == LiveSpec => []LiveTypeOK
<1>1. LiveInit => LiveTypeOK
  BY LiveAssumption DEF LiveInit, LiveTypeOK, FreshUserspace, LiveParts
<1>2. LiveInv /\ LiveTypeOK /\ [LiveNext]_lmVars => LiveTypeOK'
  <2>1. ASSUME LiveTypeOK, UNCHANGED lmVars PROVE LiveTypeOK'
    BY <2>1 DEF lmVars, LiveTypeOK
  <2> QED BY <2>1, LiveTypeStays
<1> QED BY <1>1, <1>2, LiveInductive, PTL DEF LiveSpec

-----------------------------------------------------------------------------
(* Types of the boot order, and the order itself.                           *)

(* The order has the entries there are, each once. *)
OrderInv == IsInjective(ebOrder) /\ ToSet(ebOrder) \subseteq DOMAIN ebEntries

(* A number put in front of an order that does not have it.                 *)
LEMMA OrderAdds ==
  ASSUME BootTypes, OrderInv, NEW n \in Numbers, n \notin DOMAIN ebEntries,
         ebOrder' = <<n>> \o ebOrder, DOMAIN ebEntries' = DOMAIN ebEntries \cup {n}
  PROVE  OrderInv'
<1> DEFINE s == ebOrder
           t == <<n>> \o s
<1>1. s \in Seq(Numbers) /\ \A i \in DOMAIN s : s[i] \in DOMAIN ebEntries
  BY DEF BootTypes, OrderInv, ToSet
<1>2. \A i, j \in DOMAIN s : s[i] = s[j] => i = j
  BY DEF OrderInv, IsInjective
<1>3. ebOrder' = t
  OBVIOUS
<1> HIDE DEF s
<1>4. /\ DOMAIN t = 1 .. Len(s) + 1 /\ t[1] = n /\ Len(s) \in Nat /\ DOMAIN s = 1 .. Len(s)
      /\ \A i \in DOMAIN t : i # 1 => i - 1 \in DOMAIN s /\ t[i] = s[i - 1]
  BY <1>1
<1> HIDE DEF t
<1>5. \A i \in DOMAIN t : t[i] \in DOMAIN ebEntries \cup {n}
  BY <1>1, <1>4
<1>6. \A i, j \in DOMAIN t : t[i] = t[j] => i = j
  <2> SUFFICES ASSUME NEW i \in DOMAIN t, NEW j \in DOMAIN t, t[i] = t[j] PROVE i = j
    OBVIOUS
  <2>1. CASE i = 1 \/ j = 1
    BY <1>1, <1>4, <2>1
  <2>2. CASE i # 1 /\ j # 1
    <3>1. s[i - 1] = s[j - 1] /\ i - 1 \in DOMAIN s /\ j - 1 \in DOMAIN s
      BY <1>4, <2>2
    <3>2. i - 1 = j - 1
      BY <1>2, <3>1
    <3> QED BY <1>4, <3>2
  <2> QED BY <2>1, <2>2
<1>7. IsInjective(t)
  BY <1>6 DEF IsInjective
<1>8. ToSet(t) \subseteq DOMAIN ebEntries \cup {n}
  BY <1>5 DEF ToSet
<1> QED BY <1>3, <1>7, <1>8 DEF OrderInv

(* An element removed, and what is left.                                    *)
LEMMA RemoveAtIs ==
  ASSUME NEW S, NEW s \in Seq(S), NEW i \in 1 .. Len(s)
  PROVE  /\ DOMAIN RemoveAt(s, i) = 1 .. Len(s) - 1
         /\ \A k \in 1 .. Len(s) - 1 : RemoveAt(s, i)[k] = IF k < i THEN s[k] ELSE s[k + 1]
<1> DEFINE a == SubSeq(s, 1, i - 1)
           b == SubSeq(s, i + 1, Len(s))
<1>0. Len(s) \in Nat
  OBVIOUS
<1>1. a \in Seq(S) /\ Len(a) = i - 1 /\ \A k \in 1 .. i - 1 : a[k] = s[k]
  BY <1>0
<1>2. b \in Seq(S) /\ Len(b) = Len(s) - i /\ \A k \in 1 .. Len(s) - i : b[k] = s[k + i]
  BY <1>0
<1>3. RemoveAt(s, i) = a \o b
  BY DEF RemoveAt
<1> HIDE DEF a, b
<1>4. /\ Len(a \o b) = Len(s) - 1 /\ a \o b \in Seq(S)
      /\ \A k \in 1 .. Len(s) - 1 : (a \o b)[k] = IF k <= Len(a) THEN a[k] ELSE b[k - Len(a)]
  <2>1. Len(a) + Len(b) = Len(s) - 1
    BY <1>0, <1>1, <1>2
  <2>2. a \in Seq(S) /\ b \in Seq(S)
    BY <1>1, <1>2
  <2>3. /\ a \o b \in Seq(S) /\ Len(a \o b) = Len(a) + Len(b)
        /\ \A k \in 1 .. Len(a) + Len(b) :
             (a \o b)[k] = IF k <= Len(a) THEN a[k] ELSE b[k - Len(a)]
    BY ONLY <2>2, ConcatProperties
  <2> QED BY ONLY <2>1, <2>3
<1>5. DOMAIN (a \o b) = 1 .. Len(s) - 1
  BY <1>4
<1>6. ASSUME NEW k \in 1 .. Len(s) - 1, ~(k < i) PROVE (a \o b)[k] = s[k + 1]
  <2>1. k - Len(a) \in 1 .. Len(s) - i /\ (k - Len(a)) + i = k + 1 /\ ~(k <= Len(a))
    BY <1>0, <1>1, <1>6
  <2>2. (a \o b)[k] = b[k - Len(a)]
    BY <1>4, <2>1
  <2>3. b[k - Len(a)] = s[(k - Len(a)) + i]
    BY <1>2, <2>1
  <2> QED BY <2>1, <2>2, <2>3
<1>7. ASSUME NEW k \in 1 .. Len(s) - 1, k < i PROVE (a \o b)[k] = s[k]
  <2>1. k <= Len(a) /\ k \in 1 .. i - 1
    BY <1>0, <1>1, <1>7
  <2> QED BY <1>1, <1>4, <2>1
<1> QED BY <1>3, <1>5, <1>6, <1>7

(* An entry is removed from the order with the entry itself.                *)
LEMMA OrderRemoves ==
  ASSUME BootTypes, OrderInv, NEW number, RemoveEntry(number)
  PROVE  OrderInv'
<1>0. /\ ebOrder \in Seq(Numbers) /\ DOMAIN ebEntries' = DOMAIN ebEntries \ {number}
      /\ \A i, j \in DOMAIN ebOrder : ebOrder[i] = ebOrder[j] => i = j
      /\ \A i \in DOMAIN ebOrder : ebOrder[i] \in DOMAIN ebEntries
  BY DEF BootTypes, RemoveEntry, OrderInv, IsInjective, ToSet
<1>1. CASE number \notin ToSet(ebOrder) /\ UNCHANGED ebOrder
  BY <1>0, <1>1 DEF OrderInv
<1>2. ASSUME NEW i \in DOMAIN ebOrder, ebOrder[i] = number, ebOrder' = RemoveAt(ebOrder, i)
      PROVE  OrderInv'
  <2> DEFINE s == ebOrder
             t == RemoveAt(s, i)
  <2>1. ebOrder' = t
    BY <1>2
  <2>2. s \in Seq(Numbers) /\ i \in 1 .. Len(s) /\ Len(s) \in Nat /\ DOMAIN s = 1 .. Len(s)
    BY <1>0
  <2>0. /\ \A k, j \in DOMAIN s : s[k] = s[j] => k = j
        /\ \A j \in DOMAIN s : s[j] \in DOMAIN ebEntries
        /\ s[i] = number
    BY <1>0, <1>2
  <2> HIDE DEF s
  <2>4. /\ DOMAIN t = 1 .. Len(s) - 1
        /\ \A k \in DOMAIN t : t[k] = IF k < i THEN s[k] ELSE s[k + 1]
    BY <2>2, RemoveAtIs
  <2> HIDE DEF t
  <2>5. \A k \in DOMAIN t : t[k] \in DOMAIN ebEntries \ {number}
    <3> SUFFICES ASSUME NEW k \in DOMAIN t PROVE t[k] \in DOMAIN ebEntries \ {number}
      OBVIOUS
    <3>1. PICK j \in DOMAIN s : j # i /\ t[k] = s[j]
      BY <2>2, <2>4
    <3> QED BY <2>0, <2>2, <3>1
  <2>6. \A k, l \in DOMAIN t : t[k] = t[l] => k = l
    <3> SUFFICES ASSUME NEW k \in DOMAIN t, NEW l \in DOMAIN t, t[k] = t[l] PROVE k = l
      OBVIOUS
    <3>1. PICK m \in DOMAIN s : m = (IF k < i THEN k ELSE k + 1) /\ t[k] = s[m]
      BY <2>2, <2>4
    <3>2. PICK n \in DOMAIN s : n = (IF l < i THEN l ELSE l + 1) /\ t[l] = s[n]
      BY <2>2, <2>4
    <3>3. m = n
      BY <2>0, <3>1, <3>2
    <3> QED BY <2>2, <2>4, <3>1, <3>2, <3>3
  <2>7. IsInjective(t)
    BY <2>6 DEF IsInjective
  <2>8. ToSet(t) \subseteq DOMAIN ebEntries \ {number}
    BY <2>5 DEF ToSet
  <2> QED BY <1>0, <2>1, <2>7, <2>8 DEF OrderInv
<1> QED BY <1>1, <1>2 DEF RemoveEntry

(* Every step keeps the order one of the entries there are, each once.      *)
LEMMA OrderStays ==
  ASSUME BootTypes, EntriesInv, OrderInv, BootOrderNext
  PROVE  OrderInv'
<1>1. \/ UNCHANGED <<ebEntries, ebOrder>>
      \/ AddEntry("upgrade") \/ AddEntry("target") \/ \E number : RemoveEntry(number)
  BY DEF BootOrderNext, StartPreparation, EfiInterimFix, AddWorkaround, WorkaroundFails,
    AddUpgradeEntry, UpgradeEntryFails, FinishPreparation, RebootSource, RemoveUpgradeEntry,
    Transaction, AddTargetEntry, SetTargetNext, RemoveSourceDirectory, RemoveSourceEntry,
    EfiFinalizationFix, RebootTarget, FirmwareBoots, BootFix, ebNvram, FinalFix
<1>2. CASE UNCHANGED <<ebEntries, ebOrder>>
  BY <1>2 DEF OrderInv
<1>3. ASSUME NEW loader \in {"upgrade", "target"}, AddEntry(loader) PROVE OrderInv'
  <2>1. CASE HasEntry(loader)
    BY <1>3, <2>1 DEF AddEntry, OrderInv
  <2>2. CASE ~HasEntry(loader)
    <3> DEFINE n == FreeNumber
    <3>1. n \in Numbers \ DOMAIN ebEntries
      BY <2>2, FreeIs
    <3>2. ebOrder' = <<n>> \o ebOrder /\ DOMAIN ebEntries' = DOMAIN ebEntries \cup {n}
      BY <1>3, <2>2 DEF AddEntry
    <3> HIDE DEF n
    <3> QED BY <3>1, <3>2, OrderAdds
  <2> QED BY <2>1, <2>2
<1> QED BY <1>1, <1>2, <1>3, OrderRemoves

(* The types rest on the order, and on the bounds of preparations and       *)
(* errors.                                                                  *)
LEMMA BootTypeStays ==
  ASSUME BootInv, BootInv', OrderInv, OrderInv', BootOrderTypeOK, BootOrderNext
  PROVE  BootOrderTypeOK'
<1>t. /\ MaxEfiErrors \in Nat /\ MaxPreparations \in Nat
      /\ ebErrors \in 0 .. MaxEfiErrors /\ ebPrepared \in 0 .. MaxPreparations
      /\ ebDirs \subseteq Loaders /\ ebBls \subseteq {"system", "upgrade"}
  BY BootSystemsAssumption DEF BootOrderTypeOK
<1>1. /\ IsBootSystem(ebSystem') /\ DOMAIN ebEntries' \subseteq Numbers
      /\ \A n \in DOMAIN ebEntries' : ebEntries'[n] \in Loaders
      /\ ToSet(ebOrder') \subseteq DOMAIN ebEntries'
      /\ ebNext' \in Numbers \cup {NoNumber} /\ ebCurrent' \in Numbers
  <2>1. BootTypes' /\ ToSet(ebOrder') \subseteq DOMAIN ebEntries'
    BY DEF BootInv, OrderInv
  <2>2. ebSystem' \in BootSystems /\ ebEntries' \in [DOMAIN ebEntries' -> Loaders]
    BY <2>1 DEF BootTypes
  <2> QED BY <2>1, <2>2, BootSystemsAssumption DEF BootTypes
<1>2. ebDirs' \subseteq Loaders /\ ebBls' \subseteq {"system", "upgrade"}
  <2>1. \/ ebDirs' = ebDirs \/ ebDirs' = ebDirs \cup {"upgrade"} \/ ebDirs' = ebDirs \ {"upgrade"}
        \/ ebDirs' = (ebDirs \ {"source"}) \cup {"target"}
    BY DEF BootOrderNext, StartPreparation, EfiInterimFix, AddWorkaround, WorkaroundFails,
      AddUpgradeEntry, UpgradeEntryFails, FinishPreparation, RebootSource, RemoveUpgradeEntry,
      Transaction, AddTargetEntry, SetTargetNext, RemoveSourceDirectory, RemoveSourceEntry,
      EfiFinalizationFix, RebootTarget
  <2>2. ebBls' \subseteq ebBls \cup {"system", "upgrade"}
    BY DEF BootOrderNext, StartPreparation, EfiInterimFix, AddWorkaround, WorkaroundFails,
      AddUpgradeEntry, UpgradeEntryFails, FinishPreparation, RebootSource, RemoveUpgradeEntry,
      Transaction, AddTargetEntry, SetTargetNext, RemoveSourceDirectory, RemoveSourceEntry,
      EfiFinalizationFix, RebootTarget
  <2> QED BY <1>t, <2>1, <2>2 DEF Loaders
<1>3. ebErrors' \in 0 .. MaxEfiErrors
  <2>1. \/ ebErrors' = ebErrors \/ (ebErrors < MaxEfiErrors /\ ebErrors' = ebErrors + 1)
    BY DEF BootOrderNext, StartPreparation, EfiInterimFix, AddWorkaround, WorkaroundFails,
      AddUpgradeEntry, UpgradeEntryFails, FinishPreparation, RebootSource, RemoveUpgradeEntry,
      Transaction, AddTargetEntry, SetTargetNext, RemoveSourceDirectory, RemoveSourceEntry,
      EfiFinalizationFix, RebootTarget, BootFix, FinalFix, EfiFault, MayRefuse, Refused
  <2> QED BY <1>t, <2>1
<1>4. ebPrepared' \in 0 .. MaxPreparations
  <2>1. \/ ebPrepared' = ebPrepared
        \/ ebPrepared < MaxPreparations /\ ebPrepared' = ebPrepared + 1
    BY DEF BootOrderNext, StartPreparation, EfiInterimFix, AddWorkaround, WorkaroundFails,
      AddUpgradeEntry, UpgradeEntryFails, FinishPreparation, RebootSource, RemoveUpgradeEntry,
      Transaction, AddTargetEntry, SetTargetNext, RemoveSourceDirectory, RemoveSourceEntry,
      EfiFinalizationFix, RebootTarget
  <2> QED BY <1>t, <2>1
<1> QED BY <1>1, <1>2, <1>3, <1>4 DEF BootOrderTypeOK

(* BootOrderTypeOK: whatever efibootmgr is asked to add, remove or boot     *)
(* next, the entries and the order stay well-typed, and the order names an  *)
(* entry at most once.                                                      *)
THEOREM BootOrderTyped == BootOrderSpec => []BootOrderTypeOK
<1>1. BootOrderInit => OrderInv /\ BootOrderTypeOK
  <2> SUFFICES ASSUME BootOrderInit PROVE OrderInv /\ BootOrderTypeOK
    OBVIOUS
  <2>1. /\ IsBootSystem(ebSystem) /\ ebEntries = ebSystem.entries /\ ebOrder = ebSystem.order
        /\ ebNext = ebSystem.next /\ ebCurrent = ebSystem.current
        /\ ebDirs = {"source", "other"} /\ ebBls = {} /\ ebPrepared = 0 /\ ebErrors = 0
        /\ MaxEfiErrors \in Nat /\ MaxPreparations \in Nat
    BY BootSystemsAssumption DEF BootOrderInit
  <2>2. /\ DOMAIN ebEntries \subseteq Numbers /\ ebEntries \in [DOMAIN ebEntries -> Loaders]
        /\ ebOrder \in Seq(DOMAIN ebEntries) /\ IsInjective(ebOrder)
        /\ ebCurrent \in DOMAIN ebEntries /\ ebNext \in DOMAIN ebEntries \cup {NoNumber}
    BY <2>1 DEF IsBootSystem
  <2>3. ToSet(ebOrder) \subseteq DOMAIN ebEntries
    BY <2>2 DEF ToSet
  <2>4. \A n \in DOMAIN ebEntries : ebEntries[n] \in Loaders
    BY <2>2
  <2> QED BY <2>1, <2>2, <2>3, <2>4 DEF OrderInv, BootOrderTypeOK, Loaders
<1>2. BootInv /\ BootInv' /\ OrderInv /\ BootOrderTypeOK /\ [BootOrderNext]_ebVars
        => OrderInv' /\ BootOrderTypeOK'
  <2>1. ASSUME BootOrderTypeOK, OrderInv, UNCHANGED ebVars PROVE OrderInv' /\ BootOrderTypeOK'
    BY <2>1 DEF ebVars, ebNvram, BootOrderTypeOK, OrderInv
  <2>2. ASSUME BootInv, BootInv', OrderInv, BootOrderTypeOK, BootOrderNext
        PROVE  OrderInv' /\ BootOrderTypeOK'
    BY <2>2, OrderStays, BootTypeStays DEF BootInv
  <2> QED BY <2>1, <2>2
<1> QED BY <1>1, <1>2, BootInductive, PTL DEF BootOrderSpec

-----------------------------------------------------------------------------
(* Types of the kernel arguments, and what a key may have.                  *)

(* Arguments of which no two have the same key.                             *)
Dictionary(args) == \A a, b \in args : a[1] = b[1] => a = b

(* A pair with a value there is.                                            *)
LEMMA PairsAre ==
  ASSUME NEW k, NEW v, NEW a, a = <<k, v>>
  PROVE  a[1] = k
OBVIOUS

(* An update leaves a dictionary one.                                       *)
LEMMA UpdatedDictionary ==
  ASSUME NEW args, NEW more, Dictionary(args), Dictionary(more)
  PROVE  Dictionary(Updated(args, more))
<1>1. \A a \in Updated(args, more) : a \in more \/ (a \in args /\ a[1] \notin Keys(more))
  BY DEF Updated
<1>2. \A a \in more : a[1] \in Keys(more)
  BY DEF Keys
<1> QED BY <1>1, <1>2 DEF Dictionary

(* What the actors ask for names each key once.                             *)
LEMMA RequestsAreDictionary ==
  ASSUME KernelInv, kaAt # "checks", kaAt # "inhibited"
  PROVE  Dictionary(kaTasks.upAdd)
<1>1. kaTasks = ModulesAskedFor
  BY DEF KernelInv, TasksJoined
<1> DEFINE all == {SELinuxTasks(kaSystem), LuksTasks(kaSystem), NvmeTasks(kaSystem),
                   NameTasks(kaSystem), SchemeTasks(kaSystem)}
<1>2. kaTasks.upAdd = UNION {t.upAdd : t \in all}
  BY <1>1 DEF ModulesAskedFor, Joined, NoTasks
<1>3. \A t \in all : \A a \in t.upAdd :
        a \in {<<"rd.nvmf.discover", "fc,auto">>, <<"nvme_core.multipath", "N">>,
               <<"net.ifnames", "0">>, <<"net.naming-scheme", "rhel-" \o kaSystem.major \o ".0">>}
  <2>1. SELinuxTasks(kaSystem).upAdd = {} /\ LuksTasks(kaSystem).upAdd = {}
    BY DEF SELinuxTasks, LuksTasks, NoTasks
  <2>2. NvmeTasks(kaSystem).upAdd
          \subseteq {<<"rd.nvmf.discover", "fc,auto">>, <<"nvme_core.multipath", "N">>}
    BY DEF NvmeTasks, NoTasks
  <2>3. NameTasks(kaSystem).upAdd \subseteq {<<"net.ifnames", "0">>}
    BY DEF NameTasks, ForBoth, NoTasks
  <2>4. SchemeTasks(kaSystem).upAdd
          \subseteq {<<"net.naming-scheme", "rhel-" \o kaSystem.major \o ".0">>}
    BY DEF SchemeTasks, ForBoth, NoTasks
  <2> QED BY <2>1, <2>2, <2>3, <2>4
<1> HIDE DEF all
<1>4. \A a \in kaTasks.upAdd :
        a \in {<<"rd.nvmf.discover", "fc,auto">>, <<"nvme_core.multipath", "N">>,
               <<"net.ifnames", "0">>, <<"net.naming-scheme", "rhel-" \o kaSystem.major \o ".0">>}
  BY <1>2, <1>3
<1>5. PICK scheme : scheme = "rhel-" \o kaSystem.major \o ".0"
  OBVIOUS
<1>6. ASSUME NEW a \in kaTasks.upAdd
      PROVE  \/ a = <<"rd.nvmf.discover", "fc,auto">> /\ a[1] = "rd.nvmf.discover"
             \/ a = <<"nvme_core.multipath", "N">> /\ a[1] = "nvme_core.multipath"
             \/ a = <<"net.ifnames", "0">> /\ a[1] = "net.ifnames"
             \/ a = <<"net.naming-scheme", scheme>> /\ a[1] = "net.naming-scheme"
  <2>1. \/ a = <<"rd.nvmf.discover", "fc,auto">> \/ a = <<"nvme_core.multipath", "N">>
        \/ a = <<"net.ifnames", "0">> \/ a = <<"net.naming-scheme", scheme>>
    BY <1>4, <1>5
  <2> QED BY ONLY <2>1, PairsAre
<1> QED BY ONLY <1>6 DEF Dictionary

(* So the arguments of the upgrade entry, the tasks' last.                  *)
LEMMA UpgradeArgsAreDictionary ==
  ASSUME KernelInv, kaAt # "checks", kaAt # "inhibited"
  PROVE  Dictionary(UpgradeArgs(kaSystem, kaTasks))
<1> DEFINE s == kaSystem
           base == {<<"enforcing", "0">>, <<"rd.plymouth", "0">>,
                    <<"plymouth.enable", "0">>}
                  \cup (IF "debug" \in s.env THEN {Bare("debug")} ELSE {})
                  \cup (IF "network" \in s.env
                        THEN {<<"ip", "dhcp">>, <<"rd.neednet", "1">>} ELSE {})
           live == IF s.live = "no" THEN {} ELSE LiveArgs(s)
<1>1. Dictionary(base)
  <2>1. base \subseteq {<<"enforcing", "0">>, <<"rd.plymouth", "0">>,
                        <<"plymouth.enable", "0">>, <<"debug", "">>,
                        <<"ip", "dhcp">>, <<"rd.neednet", "1">>}
    BY DEF Bare
  <2> HIDE DEF base
  <2>2. ASSUME NEW a \in base
        PROVE  \/ a = <<"enforcing", "0">> /\ a[1] = "enforcing"
               \/ a = <<"rd.plymouth", "0">> /\ a[1] = "rd.plymouth"
               \/ a = <<"plymouth.enable", "0">> /\ a[1] = "plymouth.enable"
               \/ a = <<"debug", "">> /\ a[1] = "debug"
               \/ a = <<"ip", "dhcp">> /\ a[1] = "ip"
               \/ a = <<"rd.neednet", "1">> /\ a[1] = "rd.neednet"
    <3>1. \/ a = <<"enforcing", "0">> \/ a = <<"rd.plymouth", "0">>
          \/ a = <<"plymouth.enable", "0">> \/ a = <<"debug", "">> \/ a = <<"ip", "dhcp">> \/ a = <<"rd.neednet", "1">>
      BY <2>1
    <3> QED BY ONLY <3>1, PairsAre
  <2> QED BY ONLY <2>2 DEF Dictionary
<1>2. Dictionary(live)
  <2>1. live \subseteq
          {<<"rw", "">>, <<"ip", "ens3:dhcp">>, <<"rd.needsnet", "1">>,
           <<"rd.live.dir", "/">>, <<"rd.live.squashimg", "image">>,
           <<"upgrade.strace", "file">>,
           <<"upgrade.autostart", IF "no autostart" \in s.liveOptions THEN "0" ELSE "1">>}
    BY DEF LiveArgs, Bare
  <2>2. PICK start : start = IF "no autostart" \in s.liveOptions THEN "0" ELSE "1"
    OBVIOUS
  <2> HIDE DEF live
  <2>3. ASSUME NEW a \in live
        PROVE  \/ a = <<"rw", "">> /\ a[1] = "rw"
               \/ a = <<"ip", "ens3:dhcp">> /\ a[1] = "ip"
               \/ a = <<"rd.needsnet", "1">> /\ a[1] = "rd.needsnet"
               \/ a = <<"rd.live.dir", "/">> /\ a[1] = "rd.live.dir"
               \/ a = <<"rd.live.squashimg", "image">> /\ a[1] = "rd.live.squashimg"
               \/ a = <<"upgrade.strace", "file">> /\ a[1] = "upgrade.strace"
               \/ a = <<"upgrade.autostart", start>> /\ a[1] = "upgrade.autostart"
    <3>1. \/ a = <<"rw", "">> \/ a = <<"ip", "ens3:dhcp">> \/ a = <<"rd.needsnet", "1">>
          \/ a = <<"rd.live.dir", "/">> \/ a = <<"rd.live.squashimg", "image">>
          \/ a = <<"upgrade.strace", "file">> \/ a = <<"upgrade.autostart", start>>
      BY <2>1, <2>2
    <3> QED BY ONLY <3>1, PairsAre
  <2> QED BY ONLY <2>3 DEF Dictionary
<1>3. UpgradeArgs(kaSystem, kaTasks) = Updated(Updated(base, live), kaTasks.upAdd)
  BY DEF UpgradeArgs
<1> HIDE DEF base, live
<1> QED BY <1>1, <1>2, <1>3, RequestsAreDictionary, UpdatedDictionary

(* The entry that is created, and what is left of it.                       *)
EntryKeys(args) ==
    \A a, b \in args : a[1] = b[1] => a = b \/ {a, b} \subseteq kaSystem.entry

(* Of two arguments with one key both were on the default entry.            *)
LEMMA CreatedKeys ==
  ASSUME KernelInv, kaAt # "checks", kaAt # "inhibited"
  PROVE  EntryKeys(EntryCreated)
<1> DEFINE add == UpgradeArgs(kaSystem, kaTasks)
<1>1. Dictionary(add)
  BY UpgradeArgsAreDictionary
<1>2. EntryCreated = Grubby(kaSystem.entry, add, {})
  BY DEF EntryCreated
<1> HIDE DEF add
<1>3. \A a \in EntryCreated : a \in add \/ (a \in kaSystem.entry /\ a[1] \notin Keys(add))
  BY <1>2 DEF Grubby
<1>4. \A a \in add : a[1] \in Keys(add)
  BY DEF Keys
<1> QED BY <1>1, <1>3, <1>4 DEF EntryKeys, Dictionary

(* The lists of grubby's calls name configuration files.                    *)
KernelLists == kaTodo \in Seq(BootConfigs)

(* Every step of the actors that call grubby keeps the types.               *)
LEMMA KernelTypeStays ==
  ASSUME KernelInv, KernelLists, KernelArgsTypeOK, KernelNext
  PROVE  KernelLists' /\ KernelArgsTypeOK'
<1>0. /\ kaSystem' = kaSystem /\ BootConfigs' = BootConfigs /\ kaSystem \in KernelSystems
      /\ IsKernelSystem(kaSystem) /\ kaSystem.configs \in Seq(BootConfigs)
  <2>1. kaSystem' = kaSystem
    BY DEF KernelNext, KernelChecks, PrepareEntry, CreateEntry, RemoveUndesired,
      EntryCommandFails, FinishEntry, InstallTargetKernel, ConfigureKernel, ConfigureFails
  <2> QED BY <2>1, KernelSystemDecides, ConfigsAre, KernelSystemsAssumption DEF KernelInv
<1>1. kaAt' \in {"checks", "inhibited", "prepare", "entry", "boot", "configure",
                 "unknown kernel", "failed", "done"}
  BY DEF KernelArgsTypeOK, KernelNext, KernelChecks, PrepareEntry, CreateEntry,
    RemoveUndesired, EntryCommandFails, FinishEntry, InstallTargetKernel, ConfigureKernel,
    ConfigureFails
<1>2. DOMAIN kaTasks' = DOMAIN NoTasks
  <2>1. kaTasks' = kaTasks \/ \E tasks : kaTasks' = Joined(tasks)
    BY DEF KernelNext, KernelChecks, PrepareEntry, CreateEntry, RemoveUndesired,
      EntryCommandFails, FinishEntry, InstallTargetKernel, ConfigureKernel, ConfigureFails
  <2>2. \A tasks : DOMAIN Joined(tasks) = DOMAIN NoTasks
    BY DEF Joined
  <2> QED BY <2>1, <2>2 DEF KernelArgsTypeOK
<1>3. KernelLists' /\ Range(kaTodo') \subseteq BootConfigs
  <2>1. \/ kaTodo' = kaTodo \/ kaTodo' = kaSystem.configs
        \/ kaTodo # <<>> /\ kaTodo' = Tail(kaTodo)
    BY DEF KernelInv, EntryWritten, KernelNext, KernelChecks, PrepareEntry, CreateEntry,
      RemoveUndesired, EntryCommandFails, FinishEntry, InstallTargetKernel, ConfigureKernel,
      ConfigureFails
  <2>2. kaTodo # <<>> => Tail(kaTodo) \in Seq(BootConfigs)
    BY DEF KernelLists
  <2>3. kaTodo' \in Seq(BootConfigs)
    BY <1>0, <2>1, <2>2 DEF KernelLists
  <2> QED BY <1>0, <2>3 DEF KernelLists, Range
<1>4. kaCopied' \in BOOLEAN
  BY DEF KernelArgsTypeOK, KernelNext, KernelChecks, PrepareEntry, CreateEntry,
    RemoveUndesired, EntryCommandFails, FinishEntry, InstallTargetKernel, ConfigureKernel,
    ConfigureFails
<1>5. DOMAIN kaEntry' = BootConfigs /\ \A c \in BootConfigs : EntryKeys(kaEntry'[c])
  <2>1. DOMAIN kaEntry = BootConfigs /\ \A c \in BootConfigs : EntryKeys(kaEntry[c])
    BY DEF KernelArgsTypeOK, EntryKeys
  <2>2. CASE kaEntry' = kaEntry
    BY <2>1, <2>2
  <2>3. CASE PrepareEntry
    <3>1. DOMAIN kaEntry' = BootConfigs
          /\ \A c \in BootConfigs : kaEntry'[c] = {} \/ kaEntry'[c] = kaEntry[c]
      BY <2>3 DEF PrepareEntry
    <3> QED BY <2>1, <3>1 DEF EntryKeys
  <2>4. CASE CreateEntry
    <3>1. kaEntry' = [kaEntry EXCEPT ![Head(kaTodo)] = EntryCreated] /\ kaAt = "entry"
      BY <2>4 DEF CreateEntry, EntryCreated
    <3> QED BY <2>1, <3>1, CreatedKeys
  <2>5. CASE RemoveUndesired
    <3>1. kaEntry' = [kaEntry EXCEPT ![Head(kaTodo)] =
                        Grubby(kaEntry[Head(kaTodo)], {}, UndesiredArgs(kaSystem, kaTasks))]
      BY <2>5 DEF RemoveUndesired
    <3>2. \A args, remove : Grubby(args, {}, remove) \subseteq args
      BY DEF Grubby
    <3>3. \A c \in BootConfigs : kaEntry'[c] \subseteq kaEntry[c]
      BY <2>1, <3>1, <3>2
    <3> QED BY <2>1, <3>1, <3>3 DEF EntryKeys
  <2> QED BY <2>2, <2>3, <2>4, <2>5 DEF KernelNext, KernelChecks, EntryCommandFails,
        FinishEntry, InstallTargetKernel, ConfigureKernel, ConfigureFails
<1>6. DOMAIN kaTarget' = BootConfigs
  <2>1. DOMAIN kaTarget = BootConfigs /\ DOMAIN kaEntry = BootConfigs
    BY DEF KernelArgsTypeOK
  <2>2. \A target : DOMAIN Configured(target) = DOMAIN target
    BY DEF Configured
  <2>3. \/ kaTarget' = kaTarget \/ kaTarget' = kaEntry \/ kaTarget' = Configured(kaTarget)
        \/ DOMAIN kaTarget' = BootConfigs
    BY DEF KernelNext, KernelChecks, PrepareEntry, CreateEntry, RemoveUndesired,
      EntryCommandFails, FinishEntry, InstallTargetKernel, ConfigureKernel, ConfigureFails
  <2> QED BY <2>1, <2>2, <2>3
<1>7. kaReports' \subseteq {"not the default"}
  BY DEF KernelArgsTypeOK, KernelNext, KernelChecks, PrepareEntry, CreateEntry,
    RemoveUndesired, EntryCommandFails, FinishEntry, InstallTargetKernel, ConfigureKernel,
    ConfigureFails
<1> QED BY <1>0, <1>1, <1>2, <1>3, <1>4, <1>5, <1>6, <1>7 DEF KernelArgsTypeOK, EntryKeys

(* KernelArgsTypeOK: what the actors ask for and what grubby writes stay    *)
(* arguments; only arguments that shared their key on the entry of the user *)
(* still do.                                                                *)
THEOREM KernelArgsTyped == KernelSpec => []KernelArgsTypeOK
<1>1. KernelInit => KernelLists /\ KernelArgsTypeOK
  <2>1. ASSUME KernelInit PROVE KernelLists /\ KernelArgsTypeOK
    <3>1. IsKernelSystem(kaSystem) /\ kaTodo = <<>> /\ Range(kaTodo) = {}
      <4>1. kaTodo = <<>> /\ kaSystem \in KernelSystems
        BY <2>1 DEF KernelInit
      <4>2. DOMAIN kaTodo = {}
        BY <4>1
      <4> QED BY <4>1, <4>2, KernelSystemsAssumption DEF Range
    <3>2. kaEntry = [c \in BootConfigs |-> {}] /\ kaTarget = [c \in BootConfigs |-> {}]
          /\ kaAt = "checks" /\ kaTasks = NoTasks /\ kaCopied = FALSE /\ kaReports = {}
      BY <2>1 DEF KernelInit
    <3>3. kaTodo \in Seq(BootConfigs)
      BY <3>1
    <3> QED BY <3>1, <3>2, <3>3 DEF KernelLists, KernelArgsTypeOK
  <2> QED BY <2>1
<1>2. KernelInv /\ KernelLists /\ KernelArgsTypeOK /\ [KernelNext]_kaVars
        => KernelLists' /\ KernelArgsTypeOK'
  <2>1. ASSUME KernelLists, KernelArgsTypeOK, UNCHANGED kaVars
        PROVE  KernelLists' /\ KernelArgsTypeOK'
    <3>1. /\ kaSystem' = kaSystem /\ kaAt' = kaAt /\ kaTasks' = kaTasks /\ kaTodo' = kaTodo
          /\ kaCopied' = kaCopied /\ kaEntry' = kaEntry /\ kaTarget' = kaTarget
          /\ kaReports' = kaReports
      BY <2>1 DEF kaVars
    <3>2. BootConfigs' = BootConfigs
      BY <3>1, KernelSystemDecides
    <3>3. KernelLists'
      BY <2>1, <3>1, <3>2 DEF KernelLists
    <3>4. Range(kaTodo)' = Range(kaTodo) /\ IsKernelSystem(kaSystem)' = IsKernelSystem(kaSystem)
      BY <3>1
    <3>5. KernelArgsTypeOK
      BY <2>1
    <3>6. \A c \in BootConfigs' : \A a, b \in kaEntry'[c] :
            a[1] = b[1] => a = b \/ {a, b} \subseteq kaSystem'.entry
      <4>1. \A c \in BootConfigs : \A a, b \in kaEntry[c] :
              a[1] = b[1] => a = b \/ {a, b} \subseteq kaSystem.entry
        BY ONLY <3>5 DEF KernelArgsTypeOK
      <4>2. BootConfigs' = BootConfigs /\ kaEntry' = kaEntry /\ kaSystem' = kaSystem
        BY ONLY <3>1, <3>2
      <4> QED BY ONLY <4>1, <4>2
    <3>7. kaCopied' \in BOOLEAN /\ DOMAIN kaTasks' = DOMAIN NoTasks
      <4>1. kaCopied \in BOOLEAN /\ DOMAIN kaTasks = DOMAIN NoTasks
        BY ONLY <3>5, Zenon DEF KernelArgsTypeOK
      <4> QED BY ONLY <3>1, <4>1, Zenon
    <3>8. IsKernelSystem(kaSystem') /\ Range(kaTodo') \subseteq BootConfigs'
          /\ DOMAIN kaEntry' = BootConfigs' /\ DOMAIN kaTarget' = BootConfigs'
      BY ONLY <3>1, <3>2, <3>4, <3>5 DEF KernelArgsTypeOK
    <3> QED BY <3>1, <3>3, <3>5, <3>6, <3>7, <3>8 DEF KernelArgsTypeOK
  <2> QED BY <2>1, KernelTypeStays
<1> QED BY <1>1, <1>2, KernelInductive, PTL DEF KernelSpec

-----------------------------------------------------------------------------
(* Types of both initramfs, and the steps of the boot files.                *)

(* Suffixes, element by element.                                            *)
LEMMA ReverseIs ==
  ASSUME NEW S, NEW s \in Seq(S)
  PROVE  /\ Reverse(s) \in Seq(S) /\ Len(Reverse(s)) = Len(s)
         /\ \A i \in 1 .. Len(s) : Reverse(s)[i] = s[Len(s) - i + 1]
<1>1. Reverse(s) = [i \in 1 .. Len(s) |-> s[Len(s) - i + 1]]
  BY DEF Reverse
<1>2. \A i \in 1 .. Len(s) : Len(s) - i + 1 \in 1 .. Len(s)
  OBVIOUS
<1>3. [i \in 1 .. Len(s) |-> s[Len(s) - i + 1]] \in [1 .. Len(s) -> S]
  BY <1>2, ElementOfSeq
<1>4. Reverse(s) \in Seq(S)
  BY <1>1, <1>3, IsASeq
<1> QED BY <1>1, <1>4

(* A prefix, ...                                                            *)
LEMMA PrefixIs ==
  ASSUME NEW S, NEW s \in Seq(S), NEW t \in Seq(S)
  PROVE  IsPrefix(s, t) <=> Len(s) <= Len(t) /\ \A i \in 1 .. Len(s) : s[i] = t[i]
<1>0. Len(s) \in Nat /\ Len(t) \in Nat
  OBVIOUS
<1>1. ASSUME Len(s) <= Len(t)
      PROVE  (SubSeq(s, 1, Len(s)) = SubSeq(t, 1, Len(s))) <=>
               \A i \in 1 .. Len(s) : s[i] = t[i]
  <2> DEFINE a == SubSeq(s, 1, Len(s))
             b == SubSeq(t, 1, Len(s))
  <2>1. a \in Seq(S) /\ Len(a) = Len(s) /\ \A i \in 1 .. Len(s) : a[i] = s[i]
    BY <1>0
  <2>2. b \in Seq(S) /\ Len(b) = Len(s) /\ \A i \in 1 .. Len(s) : b[i] = t[i]
    BY <1>0, <1>1
  <2> HIDE DEF a, b
  <2>3. (\A i \in 1 .. Len(s) : a[i] = b[i]) => a = b
    BY <2>1, <2>2, SeqEqual
  <2> QED BY <2>1, <2>2, <2>3 DEF a, b
<1> QED BY <1>1 DEF IsPrefix

(* ... a suffix, ...                                                        *)
LEMMA SuffixIs ==
  ASSUME NEW S, NEW s \in Seq(S), NEW t \in Seq(S)
  PROVE  IsSuffix(s, t) <=>
           /\ Len(s) <= Len(t)
           /\ \A i \in 1 .. Len(s) : s[i] = t[Len(t) - Len(s) + i]
<1>0. Len(s) \in Nat /\ Len(t) \in Nat
  OBVIOUS
<1>1. IsSuffix(s, t) <=>
        /\ Len(s) <= Len(t)
        /\ \A i \in 1 .. Len(s) : Reverse(s)[i] = Reverse(t)[i]
  BY ReverseIs, PrefixIs DEF IsSuffix
<1>2. ASSUME Len(s) <= Len(t)
      PROVE  (\A i \in 1 .. Len(s) : Reverse(s)[i] = Reverse(t)[i]) <=>
               \A i \in 1 .. Len(s) : s[i] = t[Len(t) - Len(s) + i]
  <2>1. ASSUME NEW i \in 1 .. Len(s)
        PROVE  /\ Reverse(s)[i] = s[Len(s) - i + 1]
               /\ Reverse(t)[i] = t[Len(t) - Len(s) + (Len(s) - i + 1)]
               /\ Len(s) - i + 1 \in 1 .. Len(s)
    <3>1. i \in 1 .. Len(t) /\ Len(s) - i + 1 \in 1 .. Len(s)
          /\ Len(t) - Len(s) + (Len(s) - i + 1) = Len(t) - i + 1
      BY <1>0, <1>2
    <3> QED BY <3>1, ReverseIs
  <2>2. ASSUME \A i \in 1 .. Len(s) : s[i] = t[Len(t) - Len(s) + i], NEW i \in 1 .. Len(s)
        PROVE  Reverse(s)[i] = Reverse(t)[i]
    BY <2>1, <2>2
  <2>3. ASSUME \A i \in 1 .. Len(s) : Reverse(s)[i] = Reverse(t)[i], NEW i \in 1 .. Len(s)
        PROVE  s[i] = t[Len(t) - Len(s) + i]
    <3> DEFINE j == Len(s) - i + 1
    <3>1. j \in 1 .. Len(s) /\ Len(s) - j + 1 = i
      BY <1>0
    <3> HIDE DEF j
    <3>2. Reverse(s)[j] = s[i] /\ Reverse(t)[j] = t[Len(t) - Len(s) + i]
      BY <2>1, <3>1
    <3> QED BY <2>3, <3>1, <3>2
  <2> QED BY <2>2, <2>3
<1> QED BY <1>1, <1>2

(* ... every sequence is one of itself, ...                                 *)
LEMMA SuffixSelf ==
  ASSUME NEW S, NEW s \in Seq(S)
  PROVE  IsSuffix(s, s) /\ IsSuffix(<<>>, s)
<1>1. <<>> \in Seq(S) /\ Len(<<>>) = 0 /\ Len(s) \in Nat
  OBVIOUS
<1>2. \A i \in 1 .. Len(s) : Len(s) - Len(s) + i = i
  BY <1>1
<1>3. IsSuffix(s, s)
  BY <1>1, <1>2, SuffixIs
<1>4. 0 <= Len(s) /\ 1 .. 0 = {}
  BY <1>1
<1> QED BY <1>1, <1>3, <1>4, SuffixIs

(* ... and so is the tail of one.                                           *)
LEMMA SuffixTail ==
  ASSUME NEW S, NEW s \in Seq(S), NEW t \in Seq(S), s # <<>>, IsSuffix(s, t)
  PROVE  Tail(s) \in Seq(S) /\ IsSuffix(Tail(s), t)
<1>0. Len(s) \in Nat \ {0} /\ Len(t) \in Nat
  OBVIOUS
<1>1. Tail(s) \in Seq(S) /\ Len(Tail(s)) = Len(s) - 1
      /\ \A i \in 1 .. Len(s) - 1 : Tail(s)[i] = s[i + 1]
  OBVIOUS
<1>2. Len(s) <= Len(t) /\ \A i \in 1 .. Len(s) : s[i] = t[Len(t) - Len(s) + i]
  BY SuffixIs
<1>3. ASSUME NEW i \in 1 .. Len(Tail(s)) PROVE Tail(s)[i] = t[Len(t) - Len(Tail(s)) + i]
  <2>1. i + 1 \in 1 .. Len(s) /\ Len(t) - Len(s) + (i + 1) = Len(t) - Len(Tail(s)) + i
        /\ i \in 1 .. Len(s) - 1
    BY <1>0, <1>1
  <2>2. Tail(s)[i] = s[i + 1]
    BY <1>1, <2>1
  <2>3. s[i + 1] = t[Len(t) - Len(s) + (i + 1)]
    BY <1>2, <2>1
  <2> QED BY <2>1, <2>2, <2>3
<1>4. Len(Tail(s)) <= Len(t)
  BY <1>0, <1>1, <1>2
<1> QED BY <1>1, <1>3, <1>4, SuffixIs

(* What is to be done is what the steps of the boot files end with.         *)
InitramfsTodo == inTodo \in Seq(BootParts \cup {"generate"})

(* The steps of the boot files.                                             *)
LEMMA BootStepsAre == BootFileSteps \in Seq(BootParts \cup {"generate"})
<1> DEFINE P == BootParts \cup {"generate"}
<1>1. "kernel" \in P /\ "hmac" \in P /\ "generate" \in P /\ "image" \in P
  BY DEF BootParts
<1> HIDE DEF P
<1>2. \A a, b, c, d \in P : <<a, b, c, d>> \in Seq(P)
  OBVIOUS
<1> QED BY <1>1, <1>2 DEF BootFileSteps, P

(* Every step keeps the types, a step of the boot files by what it leaves.  *)
LEMMA InitramfsTypeStays ==
  ASSUME InitramfsInv, InitramfsTodo, InitramfsTypeOK, InitramfsNext
  PROVE  InitramfsTodo' /\ InitramfsTypeOK'
<1> DEFINE P == BootParts \cup {"generate"}
<1>0. /\ inSystem' = inSystem /\ IsInitramfsSystem(inSystem) /\ BootFileSteps' = BootFileSteps
      /\ inSystem.copies \in Seq(Seq(STRING)) /\ Len(inSystem.copies) \in Nat
      /\ \A i \in DOMAIN inSystem.copies : Len(inSystem.copies[i]) \in {1, 2}
      /\ \A f \in inSystem.provided : Len(f) = 2
      /\ inRun \in 1 .. MaxInitramfsRuns /\ MaxInitramfsRuns \in Nat
  <2>1. inSystem' = inSystem
    BY DEF InitramfsNext, CheckInitramfsTasks, InstallInitramDeps, CopyHostFile,
      StartBootFiles, Generate, CopyBootFile, FinishBootFiles, RunAgain, ScanTargetKernel,
      GenerateTargetInitramfs
  <2>2. IsInitramfsSystem(inSystem) /\ inRun \in 1 .. MaxInitramfsRuns
    BY DEF InitramfsTypeOK
  <2> QED BY <2>1, <2>2, SystemDecides, InitramfsAssumption DEF IsInitramfsSystem
<1>i. inCopied \in 0 .. Len(inSystem.copies)
  BY DEF InitramfsTypeOK
<1>1. inAt' \in {"checks", "inhibited", "userspace", "copying", "stopped",
                 "boot files", "prepared", "upgraded", "failed", "done"}
  BY DEF InitramfsTypeOK, InitramfsNext, CheckInitramfsTasks, InstallInitramDeps,
    CopyHostFile, StartBootFiles, Generate, CopyBootFile, FinishBootFiles, RunAgain,
    ScanTargetKernel, GenerateTargetInitramfs
<1>2. \/ inRun' = inRun
      \/ inRun < MaxInitramfsRuns /\ inRun' = inRun + 1
  BY DEF InitramfsNext, CheckInitramfsTasks, InstallInitramDeps, CopyHostFile,
    StartBootFiles, Generate, CopyBootFile, FinishBootFiles, RunAgain, ScanTargetKernel,
    GenerateTargetInitramfs
<1>3. inRun' \in 1 .. MaxInitramfsRuns /\ 0 .. inRun \subseteq 0 .. inRun' /\ inRun \in 0 .. inRun'
  BY <1>0, <1>2
<1>4. \A f \in DOMAIN inFiles' : Len(f) = 2 /\ inFiles'[f] \in {"rpm", "host"}
  <2>1. \A f \in DOMAIN inFiles : Len(f) = 2 /\ inFiles[f] \in {"rpm", "host"}
    BY DEF InitramfsTypeOK
  <2>2. CASE inFiles' = inFiles
    BY <2>1, <2>2
  <2>3. CASE inFiles' = RpmFiles({}) \/ inFiles' = RpmFiles(inSystem.provided)
    BY <1>0, <2>3 DEF RpmFiles
  <2>4. ASSUME inCopied < Len(inSystem.copies),
               inFiles' = CopyOne(inFiles, inSystem.copies[inCopied + 1])
        PROVE  \A f \in DOMAIN inFiles' : Len(f) = 2 /\ inFiles'[f] \in {"rpm", "host"}
    <3>1. PICK dst : dst = inSystem.copies[inCopied + 1]
      OBVIOUS
    <3>2. Len(dst) \in {1, 2}
      <4>1. inCopied + 1 \in DOMAIN inSystem.copies
        <5>1. inCopied + 1 \in 1 .. Len(inSystem.copies)
          BY <1>0, <1>i, <2>4
        <5> QED BY <1>0, <5>1
      <4> QED BY <1>0, <3>1, <4>1
    <3>3. PICK new : new = IF Len(dst) = 1 THEN {<<dst[1], "own">>} ELSE {dst}
      OBVIOUS
    <3>4. \A f \in new : Len(f) = 2
      BY <3>2, <3>3
    <3>5. PICK kept : kept = IF Len(dst) = 1 THEN {f \in DOMAIN inFiles : f[1] # dst[1]}
                             ELSE DOMAIN inFiles
      OBVIOUS
    <3>6. inFiles' = [f \in kept \cup new |-> IF f \in new THEN "host" ELSE inFiles[f]]
      BY <2>4, <3>1, <3>3, <3>5 DEF CopyOne
    <3>7. kept \subseteq DOMAIN inFiles
      BY <3>5
    <3>8. \A f \in DOMAIN inFiles' :
            f \in kept \cup new /\ inFiles'[f] = IF f \in new THEN "host" ELSE inFiles[f]
      BY ONLY <3>6
    <3> QED BY ONLY <2>1, <3>4, <3>7, <3>8
  <2>5. \/ inFiles' = inFiles \/ inFiles' = RpmFiles({}) \/ inFiles' = RpmFiles(inSystem.provided)
        \/ /\ inCopied < Len(inSystem.copies)
           /\ inFiles' = CopyOne(inFiles, inSystem.copies[inCopied + 1])
    BY DEF InitramfsNext, CheckInitramfsTasks, InstallInitramDeps, CopyHostFile,
      StartBootFiles, Generate, CopyBootFile, FinishBootFiles, RunAgain, ScanTargetKernel,
      GenerateTargetInitramfs
  <2> QED BY <2>2, <2>3, <2>4, <2>5
<1>5. inCopied' \in 0 .. Len(inSystem.copies)
  <2>1. \/ inCopied' = inCopied \/ inCopied' = 0
        \/ inCopied < Len(inSystem.copies) /\ inCopied' = inCopied + 1
    BY DEF InitramfsNext, CheckInitramfsTasks, InstallInitramDeps, CopyHostFile,
      StartBootFiles, Generate, CopyBootFile, FinishBootFiles, RunAgain, ScanTargetKernel,
      GenerateTargetInitramfs
  <2> QED BY <1>0, <1>i, <2>1
<1>6. InitramfsTodo' /\ IsSuffix(inTodo', BootFileSteps)
  <2>1. \/ inTodo' = inTodo \/ inTodo' = <<>> \/ inTodo' = BootFileSteps
        \/ inTodo # <<>> /\ inTodo' = Tail(inTodo)
    BY DEF InitramfsNext, CheckInitramfsTasks, InstallInitramDeps, CopyHostFile,
      StartBootFiles, Generate, CopyBootFile, FinishBootFiles, RunAgain, ScanTargetKernel,
      GenerateTargetInitramfs
  <2>2. inTodo \in Seq(P) /\ IsSuffix(inTodo, BootFileSteps) /\ BootFileSteps \in Seq(P)
    BY BootStepsAre DEF InitramfsTodo, InitramfsTypeOK
  <2> HIDE DEF P
  <2>3. inTodo' \in Seq(P) /\ IsSuffix(inTodo', BootFileSteps)
    <3>1. <<>> \in Seq(P) OBVIOUS
    <3> QED BY ONLY <2>1, <2>2, <3>1, SuffixSelf, SuffixTail
  <2> QED BY <2>3 DEF P, InitramfsTodo
<1>7. inArtifacts' \subseteq BootParts
  <2>1. \/ inArtifacts' = inArtifacts \/ inArtifacts' = {} \/ inArtifacts' \subseteq BootParts
    BY DEF InitramfsNext, CheckInitramfsTasks, InstallInitramDeps, CopyHostFile,
      StartBootFiles, Generate, CopyBootFile, FinishBootFiles, RunAgain, ScanTargetKernel,
      GenerateTargetInitramfs
  <2> QED BY <2>1 DEF InitramfsTypeOK
<1>8. \A p \in BootParts : inBoot'[p] \in 0 .. inRun'
  <2>1. \/ inBoot' = inBoot
        \/ \E part \in BootParts : inBoot' = [inBoot EXCEPT ![part] = inRun]
    BY DEF InitramfsNext, CheckInitramfsTasks, InstallInitramDeps, CopyHostFile,
      StartBootFiles, Generate, CopyBootFile, FinishBootFiles, RunAgain, ScanTargetKernel,
      GenerateTargetInitramfs
  <2>2. DOMAIN inBoot = BootParts /\ \A p \in BootParts : inBoot[p] \in 0 .. inRun
    BY DEF InitramfsInv, BootFilesMade, InitramfsTypeOK
  <2>3. \A p \in BootParts : inBoot'[p] = inBoot[p] \/ inBoot'[p] = inRun
    BY <2>1, <2>2
  <2> QED BY <1>3, <2>2, <2>3
<1> QED BY <1>0, <1>1, <1>3, <1>4, <1>5, <1>6, <1>7, <1>8 DEF InitramfsTypeOK

(* InitramfsTypeOK: whatever is asked for and copied, the modules and files *)
(* of both initramfs are of their types, and what is left of the boot files *)
(* is an end of the steps the actors run in order.                          *)
THEOREM InitramfsTyped == InitramfsSpec => []InitramfsTypeOK
<1>1. InitramfsInit => InitramfsTodo /\ InitramfsTypeOK
  <2> SUFFICES ASSUME InitramfsInit PROVE InitramfsTodo /\ InitramfsTypeOK
    OBVIOUS
  <2>1. IsInitramfsSystem(inSystem) /\ MaxInitramfsRuns \in Nat \ {0}
    BY InitramfsAssumption DEF InitramfsInit
  <2>2. IsSuffix(inTodo, BootFileSteps) /\ InitramfsTodo
    <3>1. inTodo = <<>>
      BY DEF InitramfsInit
    <3> QED BY <3>1, BootStepsAre, SuffixSelf DEF InitramfsTodo
  <2>3. DOMAIN inFiles = {}
    BY DEF InitramfsInit, RpmFiles
  <2>4. Len(inSystem.copies) \in Nat
    BY <2>1 DEF IsInitramfsSystem
  <2> QED BY <2>1, <2>2, <2>3, <2>4 DEF InitramfsInit, InitramfsTypeOK
<1>2. InitramfsInv /\ InitramfsTodo /\ InitramfsTypeOK /\ [InitramfsNext]_inVars
        => InitramfsTodo' /\ InitramfsTypeOK'
  <2>1. ASSUME InitramfsTodo, InitramfsTypeOK, UNCHANGED inVars
        PROVE  InitramfsTodo' /\ InitramfsTypeOK'
    <3>1. /\ inSystem' = inSystem /\ inAt' = inAt /\ inRun' = inRun /\ inFiles' = inFiles
          /\ inCopied' = inCopied /\ inTodo' = inTodo /\ inArtifacts' = inArtifacts
          /\ inBoot' = inBoot
      BY <2>1 DEF inVars
    <3>2. BootFileSteps' = BootFileSteps
      BY <3>1, SystemDecides
    <3> QED BY <2>1, <3>1, <3>2 DEF InitramfsTodo, InitramfsTypeOK
  <2> QED BY <2>1, InitramfsTypeStays
<1> QED BY <1>1, <1>2, InitramfsInductive, PTL DEF InitramfsSpec
=============================================================================
