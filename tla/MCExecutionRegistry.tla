------------------------ MODULE MCExecutionRegistry -------------------------
(***************************************************************************)
(* Model checking of ExecutionRegistry.                                    *)
(***************************************************************************)
EXTENDS ExecutionRegistry
=============================================================================
