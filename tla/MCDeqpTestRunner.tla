-------------------------- MODULE MCDeqpTestRunner --------------------------
(* The instance of DeqpTestRunner for TLC: three cases, in batches of two.  *)
EXTENDS DeqpTestRunner
=============================================================================
