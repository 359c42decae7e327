-------------------------- MODULE MCExecutionRetry --------------------------
(***************************************************************************)
(* Instances of ExecutionRetry: p has a pool of two models and may be used *)
(* in the first round only, q has one model, is prepared before its calls  *)
(* and may be used in one more round.                                      *)
(***************************************************************************)
EXTENDS ExecutionRetry, TLC

CONSTANTS p, q

MCPool == p :> {1, 2} @@ q :> {0}
MCRequestRetry == p :> 0 @@ q :> 1
MCCoolFor == [e \in Cooling |-> IF e = "credentialQuota" THEN 2 ELSE 1]
=============================================================================
