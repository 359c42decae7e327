------------------------ MODULE MCRegistryProjection ------------------------
(***************************************************************************)
(* Model checking of RegistryProjection.  Projections of one client never  *)
(* touch another client's marks, so the orders of arrival need one client; *)
(* what is listed depends on the marks of two.                             *)
(***************************************************************************)
EXTENDS RegistryProjection, TLC

ProjectionSymmetry == Permutations(Models) \cup Permutations(Clients)
=============================================================================
