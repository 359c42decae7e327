------------------------ MODULE MCCredentialCooldown ------------------------
(***************************************************************************)
(* A small instance of CredentialCooldown: two models whose keys are       *)
(* interchangeable.                                                        *)
(***************************************************************************)
EXTENDS CredentialCooldown, TLC

ModelSymmetry == Permutations(Models)

=============================================================================
