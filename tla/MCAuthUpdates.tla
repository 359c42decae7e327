--------------------------- MODULE MCAuthUpdates ---------------------------
(***************************************************************************)
(* Model checking of AuthUpdates.                                          *)
(***************************************************************************)
EXTENDS AuthUpdates
=============================================================================
