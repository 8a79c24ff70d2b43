------------------------- MODULE TestPackageResult -------------------------
(***************************************************************************)
(* The results one package holds on the host                              *)
(* (result/TestPackageResult.java, Test.java, TestCase.java), as seen      *)
(* through the ResultFilter of that package (testtype/ResultFilter.java).  *)
(* A result is a function from the package's known tests to a status; a    *)
(* call about any other test is dropped, as ResultFilter.isKnownTest does. *)
(***************************************************************************)

\* CtsTestStatus, plus "absent" for a test the result tree does not hold yet.
Executed == {"pass", "fail"}
Status   == {"absent", "notExecuted"} \cup Executed

NewResult(Tests) == [t \in Tests |-> "absent"]

\* Faulty form of the next definition: the test is always created anew.
InsertTestAnew(result, t) ==
  [x \in DOMAIN result |-> IF x = t THEN "notExecuted" ELSE result[x]]

\* insertTest: find the test or create it as NOT_EXECUTED.
InsertTest(result, t) ==
  [x \in DOMAIN result |->
     IF x = t /\ result[x] = "absent" THEN "notExecuted" ELSE result[x]]

\* reportTestFailure: the status becomes FAIL whatever it was.
ReportTestFailure(result, t) ==
  [x \in DOMAIN result |-> IF x = t THEN "fail" ELSE result[x]]

\* Faulty form of the next definition: an end always passes the test.
ReportTestEndedPasses(result, t) ==
  [x \in DOMAIN result |-> IF x = t THEN "pass" ELSE result[x]]

\* reportTestEnded: PASS unless a failure was reported before.
ReportTestEnded(result, t) ==
  [x \in DOMAIN result |->
     IF x = t /\ result[x] # "fail" THEN "pass" ELSE result[x]]
=============================================================================
