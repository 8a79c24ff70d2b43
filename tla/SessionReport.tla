--------------------------- MODULE SessionReport ---------------------------
(***************************************************************************)
(* What a session's report promises to its reader, whatever happens to the *)
(* device: when the report is closed every expected test is in it, a test  *)
(* that was executed never loses its verdict, and a failed test stays      *)
(* failed.  The one exception the code makes is Overrule: a test that      *)
(* delivers a performance report is passed whatever was reported before.   *)
(***************************************************************************)
EXTENDS Integers, TestPackageResult

CONSTANTS Packages, Tests,
          Expected,    \* the tests each package is to run
          PerfTests    \* the tests that may deliver a performance report

VARIABLES report,      \* the status of each test of each package
          closed       \* no run is under way

vars == <<report, closed>>

Init ==
  /\ report = [p \in Packages |-> NewResult(Tests)]
  /\ closed = TRUE

Open == closed /\ closed' = FALSE /\ UNCHANGED report

\* Set the status of the tests S of package p to v.
Write(p, S, v) ==
  /\ ~closed
  /\ S \subseteq Expected[p]
  /\ report' = [report EXCEPT ![p] = [t \in Tests |-> IF t \in S THEN v ELSE @[t]]]
  /\ UNCHANGED closed

Insert(p, S) == (\A t \in S : report[p][t] = "absent") /\ Write(p, S, "notExecuted")
Pass(p, t)   == report[p][t] = "notExecuted" /\ Write(p, {t}, "pass")
Fail(p, t)   == report[p][t] \in {"notExecuted", "pass"} /\ Write(p, {t}, "fail")

\* Performance reports pass their tests.
Overrule(p, S) ==
  /\ S \subseteq PerfTests
  /\ \A t \in S : report[p][t] \in Executed
  /\ Write(p, S, "pass")

Close ==
  /\ \A p \in Packages : \A t \in Expected[p] : report[p][t] # "absent"
  /\ closed' = TRUE
  /\ UNCHANGED report

Next ==
  \/ Open \/ Close
  \/ \E p \in Packages :
       \/ \E S \in SUBSET Tests : Insert(p, S) \/ Overrule(p, S)
       \/ \E t \in Tests : Pass(p, t) \/ Fail(p, t)

Spec == Init /\ [][Next]_vars
=============================================================================
