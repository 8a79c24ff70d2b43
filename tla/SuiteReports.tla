---------------------------- MODULE SuiteReports ----------------------------
(* What a benchmark page owes the test that started it: every suite is       *)
(* reported once, in order, as a score or as an error; then comes the final  *)
(* score, which is a number if some suite had one.  The page is loaded again *)
(* only when a final score that is a number was reported.                    *)
EXTENDS Naturals, Sequences

CONSTANT N   \* the number of suites

VARIABLE reports   \* what the page now shown has reported: [key, number]

Final == 0   \* the key of the final score; suite s has the key s

Init == reports = <<>>

ReportSuite ==
  /\ Len(reports) < N
  /\ \E ok \in BOOLEAN :
       reports' = Append(reports, [key |-> Len(reports) + 1, number |-> ok])

ReportFinal ==
  /\ Len(reports) = N
  /\ reports' = Append(reports,
                  [key |-> Final, number |-> \E k \in 1 .. N : reports[k].number])

Reload ==
  /\ Len(reports) = N + 1 /\ reports[N + 1].number
  /\ reports' = <<>>

Next == ReportSuite \/ ReportFinal \/ Reload

Spec == Init /\ [][Next]_reports
=============================================================================
