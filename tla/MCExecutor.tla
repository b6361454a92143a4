----------------------------- MODULE MCExecutor -----------------------------
(* Model checking of Executor on small instances.                          *)
EXTENDS Executor

CONSTANTS c1, c2
=============================================================================
