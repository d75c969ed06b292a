--------------------------- MODULE MCIPULifecycle ---------------------------
(***************************************************************************)
(* IPULifecycle for TLC.  The constants are given by the configurations:   *)
(*   lifecycle.cfg          leapp.db is synchronous                        *)
(*   lifecycle_hostile.cfg  a phase counts as executed early, and the      *)
(*                          operator types --resume                        *)
(*   lifecycle_live.cfg     one run of `leapp upgrade`, at most one        *)
(*                          failure, under fairness                        *)
(*   flag_rerun.cfg         a claim the code does not keep                 *)
(***************************************************************************)
EXTENDS IPULifecycleRefinement
=============================================================================
