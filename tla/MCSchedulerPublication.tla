----------------------- MODULE MCSchedulerPublication -----------------------
(***************************************************************************)
(* Model checking of SchedulerPublication.  The credentials share nothing  *)
(* in the scheduler but the set of shards, so one of them and two models   *)
(* are enough for every interleaving of one credential's versions.         *)
(***************************************************************************)
EXTENDS SchedulerPublication, TLC

ModelSymmetry == Permutations(Models)
=============================================================================
