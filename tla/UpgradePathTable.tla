--------------------------- MODULE UpgradePathTable ---------------------------
(* The upgrade paths leapp is delivered with (upgrade_paths.json). A release   *)
(* is <<major, minor>>, or <<major>>.                                          *)
EXTENDS Integers, TLC

UpTo(major, minor) == [i \in 1..(minor + 1) |-> <<major, i - 1>>]
RhelPaths ==
    <<7, 9>> :> <<<<8, 10>>>> @@ <<7>> :> <<<<8, 10>>>>
    @@ <<8, 10>> :> <<<<9, 6>>, <<9, 8>>, <<9, 9>>>>
    @@ <<8>> :> <<<<9, 6>>, <<9, 8>>, <<9, 9>>>>
    @@ <<9, 6>> :> <<<<10, 0>>>> @@ <<9, 8>> :> <<<<10, 2>>>>
    @@ <<9, 9>> :> <<<<10, 3>>>> @@ <<9>> :> <<<<10, 0>>>>
RhelHanaPaths ==
    <<7, 9>> :> <<<<8, 10>>>> @@ <<7>> :> <<<<8, 10>>>>
    @@ <<8, 10>> :> <<<<9, 8>>, <<9, 6>>>> @@ <<8>> :> <<<<9, 8>>, <<9, 6>>>>
    @@ <<9, 6>> :> <<<<10, 0>>>> @@ <<9, 8>> :> <<<<10, 2>>>> @@ <<9>> :> <<<<10, 0>>>>
CentosPaths == <<8>> :> <<<<9>>>> @@ <<9>> :> <<<<10>>>>
AlmaPaths ==
    <<8, 10>> :> UpTo(9, 9) @@ <<8>> :> UpTo(9, 9)
    @@ <<9, 9>> :> UpTo(10, 3) @@ <<9>> :> UpTo(10, 3)

UpgradePaths ==
    [rhel |-> [default |-> RhelPaths, saphana |-> RhelHanaPaths],
     centos |-> [default |-> CentosPaths],
     almalinux |-> [default |-> AlmaPaths]]

(* _virtual_versions                                                           *)
VirtualVersions == 8 :> 10 @@ 9 :> 9 @@ 10 :> 3
=============================================================================
