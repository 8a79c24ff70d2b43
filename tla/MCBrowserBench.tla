--------------------------- MODULE MCBrowserBench ---------------------------
(* The instance of BrowserBench for TLC: a suite of one benchmark and one of *)
(* two, as Octane has both.                                                  *)
EXTENDS BrowserBench, TLC

TwoSuites == <<1, 2>>
=============================================================================
