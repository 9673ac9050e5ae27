-------------------------- MODULE MCAnalyticsRollup --------------------------
(***************************************************************************)
(* Instances of AnalyticsRollup for TLC.                                   *)
(***************************************************************************)
EXTENDS AnalyticsRollup, TLC

Alike == Permutations(Rollups)
=============================================================================
