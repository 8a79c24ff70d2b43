------------------------------- MODULE MCGTest ------------------------------
(* Instances of GTest for TLC: three tests run twice by either runner.      *)
EXTENDS GTest, TLC

TestSymmetry == Permutations(Tests)
=============================================================================
