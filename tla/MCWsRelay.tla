------------------------------ MODULE MCWsRelay ------------------------------
(***************************************************************************)
(* Model checking of WsRelay: two requests share a session, and an answer  *)
(* has more frames than its channel has room for.                          *)
(***************************************************************************)
EXTENDS WsRelay
=============================================================================
