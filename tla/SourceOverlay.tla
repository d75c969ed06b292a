---------------------------- MODULE SourceOverlay ----------------------------
(***************************************************************************)
(* The overlay of the source system, in which the target userspace is made *)
(* and the RPM transaction is rehearsed: overlaygen.create_source_overlay  *)
(* and the context managers of mounting.py it nests.  For each mount point *)
(* of /etc/fstab it loop mounts a disk image, mounts an overlay of the     *)
(* host's directory above the image, and binds that overlay into the one   *)
(* of /; then it binds the host's /var/cache/dnf there, and lets the user  *)
(* of the overlay mount more.  A call may be killed, and the next ones     *)
(* find what it has left.                                                  *)
(***************************************************************************)
EXTENDS Naturals, Integers, Sequences, FiniteSets

CONSTANTS
  Order,      \* the directories fstab may name, in the order of their names
  Root,       \* /
  Within,     \* the proper ancestors, in Order, of a directory
  ScratchDir, \* the directory of the disk images, /var/lib/leapp/scratch
  CacheDir,   \* /var/cache/dnf
  UserspaceDir, \* /var/lib/leapp/el<N>userspace
  FreeSpace,  \* the free spaces a file system may have, in MiB
  MaxCalls,   \* how many overlays are made
  MaxFaults   \* how many unmounts fail, and how many calls are killed

Paths == {Order[k] : k \in DOMAIN Order}

ASSUME OverlayAssumption ==
  /\ Order \in Seq(Paths) /\ Root \in Paths
  /\ Root \notin {ScratchDir, CacheDir, UserspaceDir}
  /\ Within \in [Paths \cup {ScratchDir, CacheDir, UserspaceDir} -> SUBSET Paths]
  /\ Within[Root] = {}
  /\ \A p \in DOMAIN Within \ {Root} : Root \in Within[p]
  /\ \A i, j \in DOMAIN Order : Order[i] \in Within[Order[j]] => i < j
  /\ FreeSpace \subseteq Nat
  /\ MaxCalls \in Nat /\ MaxFaults \in Nat

(* The mounts: [LoopMount] of an image, OverlayMount above it, BindMount   *)
(* of that overlay in the one of /; BindMount of the overlay of / on       *)
(* mount_target; /var/cache/dnf; what the user of the overlay adds.        *)
Image(p)   == [kind |-> "image",   of |-> p]
Overlay(p) == [kind |-> "overlay", of |-> p]
Bind(p)    == [kind |-> "bind",    of |-> p]
Target     == [kind |-> "target",  of |-> Root]
Cache      == [kind |-> "cache",   of |-> CacheDir]
Iso        == [kind |-> "iso",     of |-> Root]
Userspace  == [kind |-> "userspace", of |-> UserspaceDir]

Mounts == [kind : {"image", "overlay", "bind"}, of : Paths]
            \cup {Target, Cache, Iso, Userspace}

VARIABLES
  mode,     \* where create_source_overlay is; "out" when there is none
  task,     \* [fstab, target, iso, free, reserve] of the call
  left,     \* mounts: the mount points whose disk image is not used yet
  sizes,    \* apparent sizes of the disk images
  stack,    \* the context managers that have been entered
  attached, \* what is mounted, and by which call
  lost,     \* what has been deleted from the host
  broken,   \* the call has failed
  calls,    \* how many calls there have been
  mishaps   \* unmounts that failed and calls that were killed

overlayVars == <<mode, task, left, sizes, stack, attached, lost, broken, calls, mishaps>>

-----------------------------------------------------------------------------
(* Disk images.                                                            *)

Min2(a, b) == IF a < b THEN a ELSE b
Max2(a, b) == IF a > b THEN a ELSE b

ImageSpace == 128       \* _MAGICAL_CONSTANT_OVL_SIZE
LargestImage == 1048576 \* _MAX_DISK_IMAGE_SIZE_MB
SmallestImage == 130

(* get_recommended_leapp_free_space: what du says of the container, or     *)
(* none when there is no container or du fails.                            *)
Reserve(default, container, none) ==
  IF container = none \/ container < 0
  THEN default
  ELSE Max2(default - container, 200)

(* _get_scratch_mountpoint: the last one, in the order of names, under     *)
(* which the scratch directory is.                                         *)
OnTheWay(S) == {k \in DOMAIN Order : Order[k] \in S /\ Order[k] \in Within[ScratchDir]}
ScratchMount(S) ==
  Order[CHOOSE k \in OnTheWay(S) : \A j \in OnTheWay(S) : j <= k]

(* _ensure_enough_diskimage_space *)
SpaceNeeded(t) == t.reserve + ImageSpace * Cardinality(t.fstab)
EnoughSpace(t) == t.free[ScratchDir] >= SpaceNeeded(t)

(* _prepare_required_mounts, _create_mount_disk_image *)
SizeOf(t, p) ==
  LET space == IF p = ScratchMount(t.fstab)
               THEN t.free[ScratchDir] - t.reserve
               ELSE (t.free[p] * 95) \div 100
  IN  Max2(SmallestImage, Min2(LargestImage, space))

-----------------------------------------------------------------------------
(* What is mounted.                                                        *)

(* The mounts a mount point lies in.                                       *)
System == {Image(Root), Overlay(Root)}
InSystem(p) == System \cup {Bind(q) : q \in Within[p] \ {Root}}
On(m) ==
  CASE m.kind = "image"   -> {}
    [] m.kind = "overlay" -> {Image(m.of)}
    [] m.kind = "bind"    -> InSystem(m.of)
    [] m.kind = "cache"   -> InSystem(CacheDir)
    [] m.kind = "userspace" -> System
    [] m.kind = "iso"     -> IF task.target THEN {} ELSE System
    [] m.kind = "target"  -> {}

(* What is deleted by deleting the contents of a mount: an overlay has its *)
(* own layer for that, an ISO is read only.                                *)
Backing(m) ==
  CASE m.kind = "cache" -> {CacheDir}
    [] m.kind = "userspace" -> {UserspaceDir}
    [] OTHER -> {}

AttachedBy(m) == {c \in 1 .. calls : <<m, c>> \in attached}
IsMounted(m)  == AttachedBy(m) # {}
Topmost(m)    == CHOOSE c \in AttachedBy(m) : \A d \in AttachedBy(m) : d <= c
Tree(m) == {x \in attached : x[2] = Topmost(m) /\ (x[1] = m \/ m \in On(x[1]))}

(* MountingBase._cleanup: umount -fl, which takes along what is mounted    *)
(* below; when it fails, rm -rf meets what is mounted there.               *)
CleanMount(m) ==
  \/ /\ IsMounted(m)
     /\ attached' = attached \ Tree(m)
     /\ UNCHANGED <<lost, mishaps>>
  \/ /\ IsMounted(m) /\ mishaps < MaxFaults
     /\ mishaps' = mishaps + 1
     /\ lost' = lost \cup UNION {Backing(x[1]) : x \in Tree(m)}
     /\ UNCHANGED attached
  \/ /\ ~IsMounted(m)
     /\ UNCHANGED <<attached, lost, mishaps>>

-----------------------------------------------------------------------------
(* create_source_overlay.                                                  *)

NoTask == [fstab |-> {}, target |-> FALSE, iso |-> FALSE, reserve |-> 0,
           free |-> [p \in Paths \cup {ScratchDir} |-> 0]]

Tasks == [fstab : SUBSET Paths, target : BOOLEAN, iso : BOOLEAN, reserve : Nat,
          free : [Paths \cup {ScratchDir} -> FreeSpace \cup {0}]]

OverlayInit ==
  /\ mode = "out" /\ task = NoTask /\ left = {} /\ sizes = << >> /\ stack = << >>
  /\ attached = {} /\ lost = {} /\ broken = FALSE /\ calls = 0 /\ mishaps = 0

OpenOverlay(t) ==
  /\ mode = "out" /\ calls < MaxCalls
  /\ mode' = "prepare" /\ task' = t /\ calls' = calls + 1 /\ broken' = FALSE
  /\ UNCHANGED <<left, sizes, stack, attached, lost, mishaps>>

(* _create_mounts_dir, _prepare_required_mounts and mounts.pop('/').  A    *)
(* command may fail at any image.                                          *)
PrepareImages ==
  /\ mode = "prepare"
  /\ \/ /\ EnoughSpace(task) /\ Root \in task.fstab
        /\ sizes' = [p \in task.fstab |-> SizeOf(task, p)]
        /\ left' = task.fstab
        /\ mode' = "in" /\ UNCHANGED broken
     \/ mode' = "cleanup" /\ broken' = TRUE /\ UNCHANGED <<left, sizes>>
  /\ UNCHANGED <<task, stack, attached, lost, calls, mishaps>>

(* Mutant: the last one first.                                             *)
NextImageFromBelow ==
  Image(Order[CHOOSE k \in DOMAIN Order :
                /\ Order[k] \in left
                /\ \A j \in DOMAIN Order : Order[j] \in left => j <= k])

(* mounts.pop('/') comes first, then list(mounts.keys())[0].               *)
NextImage ==
  Image(Order[CHOOSE k \in DOMAIN Order :
                /\ Order[k] \in left
                /\ \A j \in DOMAIN Order : Order[j] \in left => k <= j])

Last(s) == s[Len(s)]

(* What the next with statement mounts.                                    *)
AfterOverlay == IF left = {} THEN Cache ELSE NextImage
Upcoming ==
  IF stack = << >> THEN Image(Root)
  ELSE LET top == Last(stack) IN
       CASE top.kind = "image" -> Overlay(top.of)
         [] top.kind = "overlay" /\ top.of # Root -> Bind(top.of)
         [] top = Overlay(Root) /\ task.target -> Target
         [] OTHER -> AfterOverlay

Complete  == Cache \in {stack[k] : k \in DOMAIN stack}
Inside    == mode = "in" /\ Complete
Entering  == mode = "in" /\ ~Complete

(* MountingBase.__enter__ of m: when it fails its __exit__ is not called,  *)
(* those of the ones on the stack are.                                     *)
EnterMount(m) ==
  /\ mode = "in"
  /\ \/ /\ IsMounted(m) /\ mishaps < MaxFaults
        /\ mishaps' = mishaps + 1
        /\ lost' = lost \cup UNION {Backing(x[1]) : x \in Tree(m)}
        /\ attached' = attached \cup {<<m, calls>>}
     \/ /\ attached' = (IF IsMounted(m) THEN attached \ Tree(m) ELSE attached)
                         \cup {<<m, calls>>}
        /\ UNCHANGED <<lost, mishaps>>
  /\ stack' = Append(stack, m)
  /\ left' = left \ (IF m.kind = "image" THEN {m.of} ELSE {})
  /\ UNCHANGED <<mode, broken, task, sizes, calls>>

(* Mutant: the context managers that were entered are forgotten.           *)
MountFailsAtOnce(m) ==
  /\ mode = "in" /\ CleanMount(m)
  /\ mode' = "cleanup" /\ broken' = TRUE
  /\ UNCHANGED <<task, left, sizes, stack, calls>>

MountFails(m) ==
  /\ mode = "in"
  /\ CleanMount(m)
  /\ mode' = "out of" /\ broken' = TRUE
  /\ UNCHANGED <<task, left, sizes, stack, calls>>

BuildOverlay == Entering /\ EnterMount(Upcoming)
BuildFails   == Entering /\ MountFails(Upcoming)

(* Mutant: the scratch directory is removed before the unmounts.           *)
LeaveToCleanup(ok) ==
  /\ Inside
  /\ mode' = "cleanup" /\ broken' = ~ok
  /\ UNCHANGED <<task, left, sizes, stack, attached, lost, calls, mishaps>>

(* The body of the with statement returns or raises.                       *)
LeaveOverlay(ok) ==
  /\ Inside
  /\ mode' = "out of" /\ broken' = ~ok
  /\ UNCHANGED <<task, left, sizes, stack, attached, lost, calls, mishaps>>

(* MountingBase.__exit__ of the innermost one.                             *)
ExitMount ==
  /\ stack # << >> /\ CleanMount(Last(stack))
  /\ stack' = SubSeq(stack, 1, Len(stack) - 1)

Unwind ==
  /\ mode = "out of"
  /\ \/ ExitMount /\ UNCHANGED mode
     \/ stack = << >> /\ mode' = "cleanup" /\ UNCHANGED <<stack, attached, lost, mishaps>>
  /\ UNCHANGED <<task, left, sizes, broken, calls>>

(* cleanup_scratch: rmtree goes into whatever is mounted in the scratch    *)
(* directory.  LEAPP_DEVEL_KEEP_DISK_IMGS=1 keeps the directory.           *)
CleanupScratch ==
  /\ mode = "cleanup"
  /\ \/ /\ lost' = lost \cup UNION {Backing(x[1]) : x \in attached}
        /\ sizes' = << >>
     \/ UNCHANGED <<lost, sizes>>
  /\ mode' = "out" /\ left' = {}
  /\ UNCHANGED <<task, stack, attached, broken, calls, mishaps>>

(* The process is killed: nothing is unmounted.  When the machine goes     *)
(* down, the mounts are gone.                                              *)
Killed ==
  /\ mode # "out" /\ mishaps < MaxFaults
  /\ mishaps' = mishaps + 1
  /\ mode' = "out" /\ broken' = TRUE /\ stack' = << >> /\ left' = {}
  /\ attached' \in {attached, {}}
  /\ UNCHANGED <<task, sizes, lost, calls>>

OverlayStep == PrepareImages \/ BuildOverlay \/ BuildFails \/ Unwind \/ CleanupScratch

-----------------------------------------------------------------------------
(* Properties.                                                             *)

OverlayTypeOK ==
  /\ mode \in {"out", "prepare", "in", "out of", "cleanup"}
  /\ task \in Tasks
  /\ left \subseteq Paths
  /\ DOMAIN sizes \subseteq Paths /\ \A p \in DOMAIN sizes : sizes[p] \in Nat
  /\ stack \in Seq(Mounts)
  /\ attached \subseteq Mounts \X (1 .. calls)
  /\ lost \subseteq Paths \cup {CacheDir, UserspaceDir}
  /\ broken \in BOOLEAN
  /\ calls \in 0 .. MaxCalls /\ mishaps \in 0 .. MaxFaults

(* "We do not want to (and must not) change the original system": of the   *)
(* host's directories that are bound into the overlay none is ever emptied *)
(* through a mount, unless an unmount has failed or a call has been killed: *)
(* the order of the context managers, unlike the rm -rf that follows each  *)
(* unmount, never lets rm -rf or rmtree into a bind mount.                 *)
LostOnlyByMishap == lost # {} => mishaps > 0

(* A call that is over has left nothing mounted, unless something went     *)
(* wrong that it does not handle.                                          *)
NothingLeftMounted == mode \in {"out", "cleanup"} /\ mishaps = 0 => attached = {}

(* The context managers entered are exactly the mounts of this call, and   *)
(* each lies in mounts that are still there.                               *)
Nested ==
  mode # "out" /\ mishaps = 0 =>
    /\ attached = {<<stack[k], calls>> : k \in DOMAIN stack}
    /\ \A k \in DOMAIN stack :
         On(stack[k]) \cap {Image(Root), Overlay(Root), Image(stack[k].of)}
           \subseteq {stack[j] : j \in 1 .. k - 1}

(* The overlay shows every mount point of fstab with its own file system:  *)
(* what is bound later never hides it.                                     *)
ShowsEveryFileSystem ==
  Inside => \A p \in task.fstab \ {Root} :
    \E k \in DOMAIN stack :
      /\ stack[k] = Bind(p)
      /\ \A j \in k + 1 .. Len(stack) :
           stack[j].kind = "bind" => stack[j].of \notin Within[p]

(* The disk image that stands for the file system of the scratch directory *)
(* never promises the space that is reserved for the userspace; every size *)
(* can be formatted.                                                       *)
ReserveHonoured ==
  Inside =>
    LET s == ScratchMount(task.fstab) IN
    /\ s \in DOMAIN sizes
    /\ \/ sizes[s] = SmallestImage
       \/ sizes[s] + task.reserve <= task.free[ScratchDir]
    /\ \A p \in DOMAIN sizes : sizes[p] \in SmallestImage .. LargestImage

(* Mounts are made and undone as a stack: each on what is mounted already, *)
(* and none is left when the work is over and nothing went wrong on the    *)
(* way.                                                                    *)
MountsAreUndone ==
    /\ NothingLeftMounted
    /\ Nested

(* The overlay shows each file system of the host, none hidden by another  *)
(* one, on disk images that leave the space free that leapp needs.         *)
OverlayIsComplete ==
    /\ ShowsEveryFileSystem
    /\ ReserveHonoured
=============================================================================
