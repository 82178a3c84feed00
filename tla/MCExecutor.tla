----------------------------- MODULE MCExecutor -----------------------------
(* Instances of Executor for TLC: the constants are given by the cfg files.  *)
EXTENDS Executor
==============================================================================
