--------------------------- MODULE MCJarHostTest ---------------------------
(* Instances of JarHostTest: two packages that share a test, as the two ABIs *)
(* of a jar do, one of which has more tests; and one test for two ABIs.      *)
EXTENDS JarHostTest, TLC

TwoPackages == <<<<"a", "u", "b">>, <<"a">>>>
TwoAbis     == <<"arm64", "arm">>
OneTestAbis == <<<<"a">>, <<"a">>>>
=============================================================================
