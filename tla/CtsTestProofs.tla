---------------------------- MODULE CtsTestProofs ----------------------------
(* Proofs about CtsTest, for any number of packages with any tests, any       *)
(* runners and any number of resumed calls.                                   *)
EXTENDS CtsTest, TLAPS

USE Assumption DEF Assumption

\* The statuses of the tests S of package p become v, and no other does.
Wrote(p, S, v) ==
  result' = [result EXCEPT ![p] = [t \in Tests |-> IF t \in S THEN v ELSE result[p][t]]]

\* What every test is after that.
After(p, S, v) ==
  \A q \in Packages : \A t \in Tests :
    result'[q][t] = IF q = p /\ t \in S THEN v ELSE result[q][t]

\* The types of what is kept of each package.
BookTypes ==
  /\ known \in [Packages -> SUBSET Tests]
  /\ filter \in [Packages -> [known : SUBSET Tests, remaining : SUBSET Tests]]
  /\ result \in [Packages -> [Tests -> Status]]
  /\ perf \in [Packages -> SUBSET PerfTests]
  /\ ended \in [Packages -> SUBSET Tests] /\ failed \in [Packages -> SUBSET Tests]
  /\ begun \in [Packages -> SUBSET Tests]

\* The types of where the call is.
ControlTypes ==
  /\ pc \in {"called", "deviceInfo", "collecting", "loop", "run", "between",
             "finally", "closing", "exited"}
  /\ i \in 1 .. N + 1 /\ last \in {1} \cup 1 .. N
  /\ thrown \in {"no", "device", "runner", "unexpectedTest"}
  /\ todo \subseteq Packages
  /\ cur \in 0 .. N /\ infoRun \in BOOLEAN /\ open \in BOOLEAN
  /\ now \in Tests \cup {None} /\ started \subseteq Tests /\ skips \in BOOLEAN
  /\ resumes \in 0 .. MaxResumes
  /\ finished \subseteq Packages

\* TypeOK in two parts.
LEMMA Types == TypeOK <=> ControlTypes /\ BookTypes
  BY DEF TypeOK, ControlTypes, BookTypes

\* The same of the next state.
LEMMA TypesNext == TypeOK' <=> ControlTypes' /\ BookTypes'
  BY DEF TypeOK, ControlTypes, BookTypes
-----------------------------------------------------------------------------
(* What the reporter's operators write.                                       *)

\* A write is seen in one package only, in the tests it is for.
LEMMA WroteFacts ==
  ASSUME BookTypes, NEW p \in Packages, NEW S, NEW v \in Status, Wrote(p, S, v)
  PROVE  /\ result' \in [Packages -> [Tests -> Status]]
         /\ After(p, S, v)
<1>1. result \in [Packages -> [Tests -> Status]]
  BY DEF BookTypes
<1>2. [t \in Tests |-> IF t \in S THEN v ELSE result[p][t]] \in [Tests -> Status]
  BY <1>1
<1> QED BY <1>1, <1>2 DEF Wrote, After

\* The calls of the listener as writes.
LEMMA OperatorFacts ==
  ASSUME NEW r \in [Tests -> Status], NEW t \in Tests, NEW reports \in SUBSET Tests
  PROVE  /\ InsertTest(r, t) =
              [x \in Tests |-> IF x \in {y \in {t} : r[y] = "absent"} THEN "notExecuted" ELSE r[x]]
         /\ ReportTestFailure(r, t) = [x \in Tests |-> IF x \in {t} THEN "fail" ELSE r[x]]
         /\ ReportTestEnded(r, t) =
              [x \in Tests |-> IF x \in {y \in {t} : r[y] # "fail"} THEN "pass" ELSE r[x]]
         /\ PopulateMetrics(r, reports) = [x \in Tests |-> IF x \in reports THEN "pass" ELSE r[x]]
<1>1. DOMAIN r = Tests
  OBVIOUS
<1>2. InsertTest(r, t) =
        [x \in Tests |-> IF x \in {y \in {t} : r[y] = "absent"} THEN "notExecuted" ELSE r[x]]
  BY <1>1 DEF InsertTest
<1>3. ReportTestFailure(r, t) = [x \in Tests |-> IF x \in {t} THEN "fail" ELSE r[x]]
  BY <1>1 DEF ReportTestFailure
<1>4. ReportTestEnded(r, t) =
        [x \in Tests |-> IF x \in {y \in {t} : r[y] # "fail"} THEN "pass" ELSE r[x]]
  BY <1>1 DEF ReportTestEnded
<1>5. PopulateMetrics(r, reports) = [x \in Tests |-> IF x \in reports THEN "pass" ELSE r[x]]
  BY <1>1 DEF PopulateMetrics
<1> QED BY <1>2, <1>3, <1>4, <1>5

\* While a package runs, what is recorded is recorded for it.
LEMMA RunFacts ==
  ASSUME IInv, pc = "run"
  PROVE  /\ i \in Packages /\ cur = i /\ ~infoRun /\ cur # 0
         /\ result[i] \in [Tests -> Status] /\ perf[i] \in SUBSET Tests
         /\ \A r : Record(r) => result' = [result EXCEPT ![i] = r]
<1>1. TypeOK /\ cur = i /\ ~infoRun /\ i <= N
  BY DEF IInv, LoopInv, ReporterInv
<1>2. i \in Packages /\ cur # 0
  BY <1>1 DEF TypeOK, Packages
<1> QED BY <1>1, <1>2 DEF TypeOK, Record
-----------------------------------------------------------------------------
(* The writes of each action.                                                 *)

\* A package's details: the tests with a report pass.
LEMMA ForwardWrites ==
  ASSUME IInv, ForwardPackageDetails
  PROVE  i \in Packages /\ Wrote(i, perf[i], "pass")
<1>1. i \in Packages /\ TypeOK
  BY DEF ForwardPackageDetails, IInv, TypeOK, Packages
<1>2. result[i] \in [Tests -> Status] /\ perf[i] \in SUBSET Tests
  BY <1>1 DEF TypeOK
<1>3. result' = [result EXCEPT ![i] = PopulateMetrics(result[i], perf[i])]
  BY DEF ForwardPackageDetails
<1>4. PopulateMetrics(result[i], perf[i]) =
        [x \in Tests |-> IF x \in perf[i] THEN "pass" ELSE result[i][x]]
  BY <1>2, <1>1, OperatorFacts DEF PopulateMetrics
<1> QED BY <1>1, <1>3, <1>4 DEF Wrote

\* A test that starts is listed as not executed, unless it is in the report.
LEMMA StartWrites ==
  ASSUME IInv, NEW t \in Tests, TestStarted(t), t \in filter[i].known
  PROVE  Wrote(i, {y \in {t} : result[i][y] = "absent"}, "notExecuted")
<1>1. pc = "run" /\ Record(InsertTest(result[cur], t))
  BY DEF TestStarted, Running, IsKnownTest
<1>2. result[i] \in [Tests -> Status] /\ result' = [result EXCEPT ![i] = InsertTest(result[i], t)]
  BY <1>1, RunFacts
<1>3. {} \in SUBSET Tests
  OBVIOUS
<1>4. InsertTest(result[i], t) =
        [x \in Tests |-> IF x \in {y \in {t} : result[i][y] = "absent"}
                         THEN "notExecuted" ELSE result[i][x]]
  BY <1>2, <1>3, OperatorFacts
<1> QED BY <1>2, <1>4 DEF Wrote

\* A failure that is recorded fails its test.
LEMMA FailureWrites ==
  ASSUME IInv, pc = "run", NEW t \in Tests, Record(ReportTestFailure(result[cur], t))
  PROVE  Wrote(i, {t}, "fail")
<1>1. result[i] \in [Tests -> Status]
      /\ result' = [result EXCEPT ![i] = ReportTestFailure(result[i], t)]
  BY RunFacts
<1>2. {} \in SUBSET Tests
  OBVIOUS
<1>3. ReportTestFailure(result[i], t) =
        [x \in Tests |-> IF x \in {t} THEN "fail" ELSE result[i][x]]
  BY <1>1, <1>2, OperatorFacts
<1> QED BY <1>1, <1>3 DEF Wrote

\* A test that ends passes, unless it failed.
LEMMA EndWrites ==
  ASSUME IInv, pc = "run", NEW t \in Tests, Record(ReportTestEnded(result[cur], t))
  PROVE  Wrote(i, {y \in {t} : result[i][y] # "fail"}, "pass")
  BY RunFacts, OperatorFacts DEF Wrote

\* The end of a run passes the tests with a report.
LEMMA RunEndWrites ==
  ASSUME IInv, RunEnded \/ UnexecutedRunEnded
  PROVE  cur \in Packages /\ Wrote(cur, perf[cur], "pass")
<1>1. cur \in Packages /\ ~infoRun
  BY RunFacts DEF RunEnded, UnexecutedRunEnded, Running, IInv, ReporterInv
<1>2. cur # 0
  BY <1>1 DEF Packages
<1>3. result' = [result EXCEPT ![cur] = PopulateMetrics(result[cur], perf[cur])]
  BY <1>1, <1>2 DEF RunEnded, UnexecutedRunEnded, Record
<1>4. result[cur] \in [Tests -> Status]
  BY <1>1 DEF IInv, TypeOK
<1>5. PopulateMetrics(result[cur], perf[cur]) =
        [x \in Tests |-> IF x \in perf[cur] THEN "pass" ELSE result[cur][x]]
  BY <1>4 DEF PopulateMetrics
<1> QED BY <1>1, <1>3, <1>5 DEF Wrote

\* What remains of a package is listed as not executed.
LEMMA UnexecutedWrites ==
  ASSUME IInv, NEW p \in Packages, ReportUnexecutedTests(p), filter[p].remaining # {}
  PROVE  Wrote(p, {y \in filter[p].remaining : result[p][y] = "absent"}, "notExecuted")
<1>1. result[p] \in [Tests -> Status]
  BY DEF IInv, TypeOK
<1>2. result' = [result EXCEPT ![p] = [t \in Tests |->
                   IF t \in filter[p].remaining THEN InsertTest(result[p], t)[t] ELSE result[p][t]]]
  BY DEF ReportUnexecutedTests
<1>3. \A t \in Tests : InsertTest(result[p], t)[t] =
        IF result[p][t] = "absent" THEN "notExecuted" ELSE result[p][t]
  BY <1>1 DEF InsertTest
<1>4. [t \in Tests |->
         IF t \in filter[p].remaining THEN InsertTest(result[p], t)[t] ELSE result[p][t]]
      = [t \in Tests |-> IF t \in {y \in filter[p].remaining : result[p][y] = "absent"}
                         THEN "notExecuted" ELSE result[p][t]]
  BY <1>3
<1> QED BY <1>2, <1>4 DEF Wrote
-----------------------------------------------------------------------------
(* Steps that change nothing in the books.                                    *)

books == <<known, filter, result, perf, ended, failed, begun>>

\* What is said of the books alone stays true.
LEMMA BooksKept ==
  ASSUME IInv, UNCHANGED books
  PROVE  BookTypes' /\ ListInv' /\ ReportIsTruthful'
<1>1. /\ known' = known /\ filter' = filter /\ result' = result /\ perf' = perf
      /\ ended' = ended /\ failed' = failed /\ begun' = begun
  BY DEF books
<1>2. BookTypes'
  BY <1>1, Types DEF IInv, BookTypes
<1>3. ListInv'
  BY <1>1 DEF IInv, ListInv
<1>4. ReportIsTruthful'
  BY <1>1 DEF IInv, ReportIsTruthful
<1> QED BY <1>2, <1>3, <1>4

\* The types of where the call is, kept by a step that moves it.
LEMMA ControlKept ==
  ASSUME IInv, ControlTypes', LoopInv', ReporterInv', FilterInv', UNCHANGED books
  PROVE  IInv'
  BY BooksKept, TypesNext DEF IInv

\* The call ends before it begins, or is made again.
LEMMA OutsideSteps == ASSUME IInv, LoseDeviceEarly \/ Resume \/ UNCHANGED vars PROVE IInv'
<1>1. /\ i' = i /\ last' = last /\ finished' = finished /\ todo' = todo
      /\ cur' = cur /\ infoRun' = infoRun /\ open' = open /\ now' = now /\ started' = started /\ skips' = skips
      /\ known' = known /\ filter' = filter /\ result' = result /\ perf' = perf
      /\ ended' = ended /\ failed' = failed /\ begun' = begun
      /\ thrown' \in {thrown, "device"} /\ resumes' \in 0 .. MaxResumes
      /\ pc' = pc \/ (pc \in {"called", "exited"} /\ pc' \in {"called", "exited"})
  BY DEF LoseDeviceEarly, Resume, vars, report, runner, history, IInv, TypeOK
<1>2. ControlTypes'
  BY <1>1 DEF IInv, TypeOK, ControlTypes
<1>3. LoopInv' /\ ReporterInv'
  BY <1>1 DEF IInv, LoopInv, ReporterInv
<1>4. FilterInv'
  BY <1>1 DEF IInv, FilterInv, Complete
<1> QED BY <1>1, <1>2, <1>3, <1>4, ControlKept DEF books

\* On the way to the loop; it begins at the index that was kept.
LEMMA EntrySteps == ASSUME IInv, DeviceInfoStarted \/ EnterLoop PROVE IInv'
<1>1. /\ last' = last /\ finished' = finished /\ todo' = todo /\ thrown' = thrown
      /\ cur' = cur /\ infoRun' \in BOOLEAN /\ open' = open /\ now' = now /\ started' = started /\ skips' = skips
      /\ known' = known /\ filter' = filter /\ result' = result /\ perf' = perf
      /\ ended' = ended /\ failed' = failed /\ begun' = begun /\ resumes' = resumes
      /\ pc \in {"deviceInfo", "collecting"}
      /\ \/ pc' = "collecting" /\ i' = i
         \/ pc' = "loop" /\ i' = last
  BY DEF DeviceInfoStarted, EnterLoop, report, runner, history, IInv, TypeOK
<1>2. ControlTypes'
  BY <1>1 DEF IInv, TypeOK, ControlTypes
<1>3. LoopInv' /\ ReporterInv'
  BY <1>1 DEF IInv, LoopInv, ReporterInv
<1>4. FilterInv'
  BY <1>1 DEF IInv, FilterInv, Complete
<1> QED BY <1>1, <1>2, <1>3, <1>4, ControlKept DEF books

\* The runner starts its run, which may go to the reporter.
LEMMA RunStartedStep == ASSUME IInv, RunStarted PROVE IInv'
<1>1. /\ pc = "run" /\ pc' = pc /\ i' = i /\ last' = last /\ finished' = finished
      /\ todo' = todo /\ thrown' = thrown /\ open' = TRUE /\ now' = now /\ started' = started /\ skips' = skips
      /\ known' = known /\ filter' = filter /\ result' = result /\ perf' = perf
      /\ ended' = ended /\ failed' = failed /\ begun' = begun /\ resumes' = resumes
      /\ cur' = i /\ infoRun' = FALSE
  BY DEF RunStarted, TestRunStarted, history, IInv, ReporterInv, TypeOK
<1>2. ControlTypes'
  BY <1>1, RunFacts DEF IInv, TypeOK, ControlTypes, Packages
<1>3. LoopInv' /\ ReporterInv'
  BY <1>1 DEF IInv, LoopInv, ReporterInv
<1>4. FilterInv'
  BY <1>1 DEF IInv, FilterInv, Complete
<1> QED BY <1>1, <1>2, <1>3, <1>4, ControlKept DEF books

\* The package that is done is the one after those that are finished.
LEMMA ReturnStep == ASSUME IInv, RunnerReturns PROVE IInv'
<1>1. /\ pc = "run" /\ finished' = finished \cup {i}
      /\ todo' = todo /\ thrown' = thrown /\ open' = open /\ now' = now /\ started' = started /\ skips' = skips
      /\ known' = known /\ filter' = filter /\ result' = result /\ perf' = perf
      /\ ended' = ended /\ failed' = failed /\ begun' = begun /\ resumes' = resumes
      /\ cur' = cur /\ infoRun' = infoRun
      /\ \/ pc' = "between" /\ i' = i /\ last' = last
         \/ pc' = "loop" /\ i' = i + 1 /\ last' = i
  BY DEF RunnerReturns, KeepIndex, report, runner
<1>2. i \in Packages /\ N \in Nat /\ i \in 1 .. N /\ last \in Nat /\ i \in {last, last + 1}
  BY <1>1, RunFacts DEF IInv, TypeOK, LoopInv, Packages
<1>3. ControlTypes'
  BY <1>1, <1>2 DEF IInv, TypeOK, ControlTypes, Packages
<1>4. LoopInv' /\ ReporterInv'
  BY <1>1, <1>2 DEF IInv, LoopInv, ReporterInv
<1>5. FilterInv'
  BY <1>1 DEF IInv, FilterInv, Complete
<1> QED BY <1>1, <1>3, <1>4, <1>5, ControlKept DEF books

\* The next package: the index of the one before it is kept.
LEMMA NextPackageStep == ASSUME IInv, NextPackage PROVE IInv'
<1>1. /\ pc = "between" /\ finished' = finished /\ pc' = "loop" /\ i' = i + 1 /\ last' = i
      /\ todo' = todo /\ thrown' = thrown /\ open' = open /\ now' = now /\ started' = started /\ skips' = skips
      /\ known' = known /\ filter' = filter /\ result' = result /\ perf' = perf
      /\ ended' = ended /\ failed' = failed /\ begun' = begun /\ resumes' = resumes
      /\ cur' = cur /\ infoRun' = infoRun
  BY DEF NextPackage, KeepIndex, report, runner, history
<1>2. i \in 1 .. N /\ N \in Nat /\ last \in Nat /\ i \in {last, last + 1} /\ i \in finished
  BY <1>1 DEF IInv, TypeOK, LoopInv
<1>3. ControlTypes'
  BY <1>1, <1>2 DEF IInv, TypeOK, ControlTypes
<1>4. LoopInv' /\ ReporterInv'
  BY <1>1, <1>2 DEF IInv, LoopInv, ReporterInv
<1>5. FilterInv'
  BY <1>1 DEF IInv, FilterInv, Complete
<1> QED BY <1>1, <1>3, <1>4, <1>5, ControlKept DEF books

\* The finally block is entered: every filter has still to report.
LEMMA FinallySteps ==
  ASSUME IInv, RunnerThrows \/ DeviceLost \/ LoopEnds \/ \E t \in Tests : AssumptionOfUnknown(t)
  PROVE  IInv'
<1>1. /\ pc \in {"deviceInfo", "collecting", "loop", "run", "between"} /\ pc' = "finally"
      /\ todo' = Packages /\ thrown' \in {thrown, "runner", "device", "unexpectedTest"}
      /\ i' = i /\ last' = last /\ finished' = finished
      /\ open' = open /\ now' = now /\ started' = started /\ skips' = skips
      /\ known' = known /\ filter' = filter /\ result' = result /\ perf' = perf
      /\ ended' = ended /\ failed' = failed /\ begun' = begun /\ resumes' = resumes
      /\ cur' = cur /\ infoRun' = infoRun
  BY DEF RunnerThrows, DeviceLost, UsesDevice, LoopEnds, AssumptionOfUnknown, Running, report, runner, history
<1>2. ControlTypes'
  BY <1>1 DEF IInv, TypeOK, ControlTypes
<1>3. LoopInv' /\ ReporterInv'
  BY <1>1 DEF IInv, LoopInv, ReporterInv
<1>4. FilterInv'
  BY <1>1 DEF IInv, FilterInv, Complete
<1> QED BY <1>1, <1>2, <1>3, <1>4, ControlKept DEF books

\* The call returns: each filter has reported.
LEMMA LeaveStep == ASSUME IInv, LeaveRun PROVE IInv' /\ \A p \in Packages : Complete(p)
<1>1. /\ pc = "finally" /\ todo = {} /\ pc' = "exited" /\ todo' = todo /\ thrown' = thrown
      /\ i' = i /\ last' = last /\ finished' = finished
      /\ open' = open /\ now' = now /\ started' = started /\ skips' = skips
      /\ known' = known /\ filter' = filter /\ result' = result /\ perf' = perf
      /\ ended' = ended /\ failed' = failed /\ begun' = begun /\ resumes' = resumes
      /\ cur' = cur /\ infoRun' = infoRun
  BY DEF LeaveRun, report, runner, history
<1>2. \A p \in Packages : Complete(p)
  BY <1>1 DEF IInv, FilterInv
<1>3. ControlTypes'
  BY <1>1 DEF IInv, TypeOK, ControlTypes
<1>4. LoopInv' /\ ReporterInv'
  BY <1>1 DEF IInv, LoopInv, ReporterInv
<1>5. FilterInv'
  BY <1>1, <1>2 DEF FilterInv, Complete
<1> QED BY <1>1, <1>2, <1>3, <1>4, <1>5, ControlKept DEF books

\* The filters of a call are made from the lists.
LEMMA SetUpStep == ASSUME IInv, SetUp PROVE IInv'
<1>1. /\ pc = "called" /\ pc' = "deviceInfo" /\ thrown' = "no"
      /\ filter' = [p \in Packages |-> [known |-> known[p], remaining |-> known[p]]]
      /\ i' = i /\ last' = last /\ finished' = finished /\ todo' = todo
      /\ open' = open /\ now' = now /\ started' = started /\ skips' = skips
      /\ known' = known /\ result' = result /\ perf' = perf
      /\ ended' = ended /\ failed' = failed /\ begun' = begun /\ resumes' = resumes
      /\ cur' = cur /\ infoRun' = infoRun
  BY DEF SetUp, report, runner, history
<1>2. \A p \in Packages : filter'[p].known = known[p] /\ filter'[p].remaining = known[p]
  BY <1>1
<1>3. TypeOK'
  <2>1. known \in [Packages -> SUBSET Tests]
    BY DEF IInv, TypeOK
  <2>2. filter' \in [Packages -> [known : SUBSET Tests, remaining : SUBSET Tests]]
    BY <1>1, <2>1
  <2> QED BY <1>1, <2>2 DEF IInv, TypeOK
<1>4. LoopInv' /\ ReporterInv'
  BY <1>1 DEF IInv, LoopInv, ReporterInv
<1>5. ListInv'
  BY <1>1, <1>2 DEF IInv, ListInv
<1>6. FilterInv'
  <2>1. \A p \in Packages : \A t \in known[p] : result[p][t] = "absent" => t \in known[p]
    OBVIOUS
  <2> QED BY <1>1, <1>2 DEF FilterInv
<1>7. ReportIsTruthful'
  BY <1>1 DEF IInv, ReportIsTruthful
<1> QED BY <1>3, <1>4, <1>5, <1>6, <1>7 DEF IInv
-----------------------------------------------------------------------------
(* Steps that write to the report.                                            *)

\* A write of a status to tests a package expects loses nothing of the report.
LEMMA WriteKeeps ==
  ASSUME IInv, NEW p \in Packages, NEW S \in SUBSET Expected[p], NEW v \in Status \ {"absent"},
         Wrote(p, S, v)
  PROVE  /\ result' \in [Packages -> [Tests -> Status]]
         /\ After(p, S, v)
         /\ \A q \in Packages :
              /\ Complete(q) => Complete(q)'
              /\ \A t \in Tests : result'[q][t] = "absent" => result[q][t] = "absent"
<1>1. BookTypes
  BY Types DEF IInv
<1>2. result' \in [Packages -> [Tests -> Status]] /\ After(p, S, v)
  BY <1>1, WroteFacts
<1>3. \A q \in Packages : Expected[q] \subseteq Tests
  OBVIOUS
<1> QED BY <1>2, <1>3 DEF Complete, After

\* A write alone keeps what is said of the lists and the filters.
LEMMA WriteOnly ==
  ASSUME IInv, NEW p \in Packages, NEW S \in SUBSET Expected[p], NEW v \in Status \ {"absent"},
         Wrote(p, S, v), UNCHANGED <<known, filter, perf, ended, failed, begun>>
  PROVE  BookTypes' /\ ListInv'
<1>1. /\ known' = known /\ filter' = filter /\ perf' = perf /\ ended' = ended /\ failed' = failed /\ begun' = begun
  OBVIOUS
<1>2. result' \in [Packages -> [Tests -> Status]] /\ After(p, S, v)
  BY WriteKeeps, Zenon
<1>3. BookTypes'
  <2>1. BookTypes
    BY Types DEF IInv
  <2> QED BY <1>1, <1>2, <2>1 DEF BookTypes
<1>4. ListInv'
  <2>1. \A q \in Packages : \A t \in Tests :
          /\ result'[q][t] # "absent" => result[q][t] # "absent" \/ t \in Expected[q]
          /\ result'[q][t] = "absent" => result[q][t] = "absent"
    BY <1>2 DEF After
  <2>2. \A q \in Packages : Expected[q] \subseteq Tests
    OBVIOUS
  <2> QED BY <1>1, <2>1, <2>2 DEF IInv, ListInv
<1> QED BY <1>3, <1>4

\* Performance reports pass only tests that have ended.
LEMMA ReportsPass ==
  ASSUME IInv, NEW p \in Packages, Wrote(p, perf[p], "pass"),
         UNCHANGED <<known, filter, perf, ended, failed, begun>>
  PROVE  /\ BookTypes' /\ ListInv' /\ ReportIsTruthful'
         /\ \A q \in Packages : /\ Complete(q) => Complete(q)'
                                /\ \A t \in Tests : result'[q][t] = "absent" => result[q][t] = "absent"
<1>1. /\ known' = known /\ filter' = filter /\ perf' = perf /\ ended' = ended /\ failed' = failed /\ begun' = begun
  OBVIOUS
<1>2. /\ perf[p] \in SUBSET Expected[p] /\ perf[p] \subseteq PerfTests /\ perf[p] \subseteq ended[p]
      /\ "pass" \in Status \ {"absent"}
  BY DEF IInv, ListInv, TypeOK, Status, Executed
<1>3. BookTypes' /\ ListInv'
  BY <1>2, WriteOnly
<1>4. ReportIsTruthful'
  <2>1. After(p, perf[p], "pass")
    BY <1>2, WriteKeeps, Zenon
  <2>2. \A q \in Packages : Expected[q] \subseteq Tests
    OBVIOUS
  <2> QED BY <1>1, <1>2, <2>1, <2>2 DEF IInv, ReportIsTruthful, Executed, After
<1>5. \A q \in Packages : /\ Complete(q) => Complete(q)'
                          /\ \A t \in Tests : result'[q][t] = "absent" => result[q][t] = "absent"
  BY <1>2, WriteKeeps, Zenon
<1> QED BY <1>3, <1>4, <1>5

\* Tests are listed as not executed only if they are not in the report.
LEMMA Lists ==
  ASSUME IInv, NEW p \in Packages, NEW S \in SUBSET Expected[p],
         Wrote(p, {y \in S : result[p][y] = "absent"}, "notExecuted"),
         UNCHANGED <<known, filter, perf, ended, failed, begun>>
  PROVE  BookTypes' /\ ListInv' /\ ReportIsTruthful'
<1>1. /\ known' = known /\ filter' = filter /\ perf' = perf /\ ended' = ended /\ failed' = failed /\ begun' = begun
  OBVIOUS
<1>2. {y \in S : result[p][y] = "absent"} \in SUBSET Expected[p]
      /\ "notExecuted" \in Status \ {"absent"}
  BY DEF Status
<1>3. BookTypes' /\ ListInv'
  BY <1>2, WriteOnly
<1>4. ReportIsTruthful'
  <2>1. After(p, {y \in S : result[p][y] = "absent"}, "notExecuted")
    BY <1>2, WriteKeeps, Zenon
  <2>2. \A q \in Packages : Expected[q] \subseteq Tests
    OBVIOUS
  <2> QED BY <1>1, <2>1, <2>2 DEF IInv, ReportIsTruthful, Executed, After
<1> QED BY <1>3, <1>4

\* A package begins: it is the reporter's, and no test of it is running.
LEMMA ForwardStep == ASSUME IInv, ForwardPackageDetails PROVE IInv'
<1>1. /\ pc = "loop" /\ pc' = "run" /\ i <= N /\ cur' = i /\ infoRun' = FALSE
      /\ open' = FALSE /\ now' = None /\ started' = {} /\ skips' \in BOOLEAN
      /\ i' = i /\ last' = last /\ finished' = finished /\ todo' = todo /\ thrown' = thrown
      /\ known' = known /\ filter' = filter /\ perf' = perf
      /\ ended' = ended /\ failed' = failed /\ begun' = begun /\ resumes' = resumes
  BY DEF ForwardPackageDetails, TestRunStarted, history
<1>2. i \in Packages /\ Wrote(i, perf[i], "pass")
  BY ForwardWrites
<1>3. /\ BookTypes' /\ ListInv' /\ ReportIsTruthful'
      /\ \A q \in Packages : \A t \in Tests : result'[q][t] = "absent" => result[q][t] = "absent"
  BY <1>1, <1>2, ReportsPass
<1>4. ControlTypes'
  <2>1. cur' \in 0 .. N
    BY <1>1, <1>2 DEF Packages
  <2> QED BY <1>1, <2>1 DEF IInv, TypeOK, ControlTypes
<1>5. LoopInv' /\ ReporterInv'
  BY <1>1, <1>2 DEF IInv, LoopInv, ReporterInv
<1>6. FilterInv'
  <2>1. \A q \in Packages : \A t \in Tests : result'[q][t] = "absent" => result[q][t] = "absent"
    BY <1>3
  <2>2. \A q \in Packages : filter[q].known \subseteq Tests
    BY DEF IInv, TypeOK
  <2>3. None \notin filter[i].known
    BY <1>2, <2>2
  <2> QED BY <1>1, <2>1, <2>2, <2>3 DEF IInv, FilterInv
<1> QED BY <1>3, <1>4, <1>5, <1>6, TypesNext DEF IInv

\* A run ends: the tests with a report pass.
LEMMA RunEndSteps == ASSUME IInv, RunEnded \/ UnexecutedRunEnded PROVE IInv'
<1>1. /\ \/ pc = "run" /\ pc' = "run" /\ now = None
         \/ pc = "closing" /\ pc' = "finally"
      /\ open' \in BOOLEAN /\ now' = now /\ started' = started /\ skips' = skips
      /\ i' = i /\ last' = last /\ finished' = finished /\ todo' = todo /\ thrown' = thrown
      /\ known' = known /\ filter' = filter /\ perf' = perf
      /\ ended' = ended /\ failed' = failed /\ begun' = begun /\ resumes' = resumes
      /\ cur' = cur /\ infoRun' = infoRun
  BY DEF RunEnded, UnexecutedRunEnded, Running, runner, history, IInv, TypeOK
<1>2. cur \in Packages /\ Wrote(cur, perf[cur], "pass")
  BY RunEndWrites
<1>3. /\ BookTypes' /\ ListInv' /\ ReportIsTruthful'
      /\ \A q \in Packages : /\ Complete(q) => Complete(q)'
                             /\ \A t \in Tests : result'[q][t] = "absent" => result[q][t] = "absent"
  BY <1>1, <1>2, ReportsPass
<1>4. ControlTypes'
  BY <1>1 DEF IInv, TypeOK, ControlTypes
<1>5. LoopInv' /\ ReporterInv'
  BY <1>1 DEF IInv, LoopInv, ReporterInv
<1>6. FilterInv'
  <2>1. \A q \in Packages :
          /\ \A t \in Tests : result'[q][t] = "absent" => result[q][t] = "absent"
          /\ Complete(q) => Complete(q)'
    BY <1>3
  <2>2. \A q \in Packages : filter[q].known \subseteq Tests
    BY DEF IInv, TypeOK
  <2>3. pc = "run" => now \notin filter[i].known
    BY <1>1, <2>2, RunFacts
  <2> QED BY <1>1, <2>1, <2>2, <2>3 DEF IInv, FilterInv
<1> QED BY <1>3, <1>4, <1>5, <1>6, TypesNext DEF IInv

\* What remains of a package is listed; with that the package is complete.
LEMMA UnexecutedStep ==
  ASSUME IInv, NEW p \in Packages, ReportUnexecutedTests(p) PROVE IInv'
<1>1. /\ pc = "finally" /\ p \in todo /\ todo' = todo \ {p}
      /\ open' = open /\ now' = now /\ started' = started /\ skips' = skips
      /\ i' = i /\ last' = last /\ finished' = finished /\ thrown' = thrown
      /\ known' = known /\ filter' = filter /\ perf' = perf
      /\ ended' = ended /\ failed' = failed /\ begun' = begun /\ resumes' = resumes
      /\ \/ /\ filter[p].remaining = {}
            /\ pc' = pc /\ cur' = cur /\ infoRun' = infoRun /\ result' = result
         \/ /\ filter[p].remaining # {}
            /\ pc' = "closing" /\ cur' = p /\ infoRun' = FALSE
            /\ Wrote(p, {y \in filter[p].remaining : result[p][y] = "absent"}, "notExecuted")
  BY UnexecutedWrites DEF ReportUnexecutedTests, TestRunStarted, runner, history
<1>2. ControlTypes'
  <2>1. p \in 0 .. N
    BY DEF Packages
  <2> QED BY <1>1, <2>1 DEF IInv, TypeOK, ControlTypes
<1>3. LoopInv' /\ ReporterInv'
  BY <1>1 DEF IInv, LoopInv, ReporterInv
<1>4. \A q \in Packages : /\ Expected[q] \subseteq Tests
                          /\ \A t \in Expected[q] : result[q][t] = "absent" => t \in filter[q].remaining
  BY <1>1 DEF IInv, ListInv, FilterInv
<1>5. CASE filter[p].remaining = {}
  <2>1. Complete(p)
    BY <1>4, <1>5 DEF Complete
  <2>2. FilterInv'
    BY <1>1, <1>5, <2>1 DEF IInv, FilterInv, Complete
  <2>3. BookTypes' /\ ListInv' /\ ReportIsTruthful'
    BY <1>1, <1>5, BooksKept DEF books
  <2> QED BY <1>2, <1>3, <2>2, <2>3, TypesNext DEF IInv
<1>6. CASE filter[p].remaining # {}
  <2> DEFINE S == {y \in filter[p].remaining : result[p][y] = "absent"}
  <2>1. filter[p].remaining \in SUBSET Expected[p] /\ S \in SUBSET Expected[p]
    BY DEF IInv, ListInv
  <2>2. BookTypes' /\ ListInv' /\ ReportIsTruthful'
    BY <1>1, <1>6, <2>1, Lists
  <2>3. /\ After(p, S, "notExecuted")
        /\ \A q \in Packages :
             /\ Complete(q) => Complete(q)'
             /\ \A t \in Tests : result'[q][t] = "absent" => result[q][t] = "absent"
    <3>1. "notExecuted" \in Status \ {"absent"} /\ Wrote(p, S, "notExecuted")
      BY <1>1, <1>6 DEF Status
    <3> HIDE DEF S
    <3> QED BY <2>1, <3>1, WriteKeeps, Zenon
  <2>4. Complete(p)'
    BY <1>4, <2>3 DEF Complete, After
  <2>5. \A q \in Packages : filter[q].known \subseteq Tests
    BY DEF IInv, TypeOK
  <2>6. FilterInv'
    <3> HIDE DEF S
    <3> QED BY <1>1, <1>6, <2>3, <2>4, <2>5 DEF IInv, FilterInv
  <2> QED BY <1>2, <1>3, <2>2, <2>6, TypesNext DEF IInv
<1> QED BY <1>5, <1>6
-----------------------------------------------------------------------------
(* Steps of a test.                                                           *)

\* A test starts: one that the filter knows is in the report from now on, and one
\* that a dEQP runner begins leaves the list.
LEMMA StartedStep == ASSUME IInv, NEW t \in Tests, TestStarted(t) PROVE IInv'
<1>1. /\ pc = "run" /\ pc' = pc /\ now' = t /\ started' = started \cup {t} /\ open' = open
      /\ skips' = skips
      /\ i' = i /\ last' = last /\ finished' = finished /\ todo' = todo /\ thrown' = thrown
      /\ filter' = filter /\ perf' = perf
      /\ ended' = ended /\ failed' = failed /\ resumes' = resumes
      /\ cur' = cur /\ infoRun' = infoRun
      /\ t \notin filter[i].known => result' = result
      /\ i \in Trims => t \in known[i]
      /\ known' = IF i \in Trims /\ ~skips THEN [known EXCEPT ![i] = @ \ {t}] ELSE known
      /\ begun' = IF i \in Trims /\ ~skips THEN [begun EXCEPT ![i] = @ \cup {t}] ELSE begun
  BY DEF TestStarted, Running, IsKnownTest, Trim
<1>2. i \in Packages /\ BookTypes /\ \A q \in Packages : Expected[q] \subseteq Tests
  BY <1>1, RunFacts, Types DEF IInv
<1>3. ControlTypes'
  BY <1>1 DEF IInv, TypeOK, ControlTypes
<1>4. LoopInv' /\ ReporterInv'
  BY <1>1 DEF IInv, LoopInv, ReporterInv
<1>5. CASE t \notin filter[i].known
  <2>1. t \notin known[i]
    BY <1>1, <1>2, <1>5 DEF IInv, FilterInv
  <2>2. known' = known /\ begun' = begun
    BY <1>1, <2>1
  <2>3. BookTypes' /\ ListInv' /\ ReportIsTruthful'
    BY <1>1, <1>5, <2>2, BooksKept DEF books
  <2>4. FilterInv'
    BY <1>1, <1>5, <2>2 DEF IInv, FilterInv, Complete
  <2> QED BY <1>3, <1>4, <2>3, <2>4, TypesNext DEF IInv
<1>6. CASE t \in filter[i].known
  <2> DEFINE S == {y \in {t} : result[i][y] = "absent"}
  <2>1. t \in Expected[i] /\ S \in SUBSET Expected[i]
    BY <1>2, <1>6 DEF IInv, ListInv
  <2>2. Wrote(i, S, "notExecuted") /\ "notExecuted" \in Status \ {"absent"}
    BY <1>6, StartWrites DEF Status
  <2> HIDE DEF S
  <2>3. /\ result' \in [Packages -> [Tests -> Status]] /\ After(i, S, "notExecuted")
        /\ \A q \in Packages :
             /\ Complete(q) => Complete(q)'
             /\ \A u \in Tests : result'[q][u] = "absent" => result[q][u] = "absent"
    BY <1>2, <2>1, <2>2, WriteKeeps, Zenon
  <2>4. \A q \in Packages : \A u \in Tests :
          result'[q][u] = IF q = i /\ u = t /\ result[q][u] = "absent" THEN "notExecuted"
                                                                     ELSE result[q][u]
    BY <2>3 DEF After, S
  <2>5. result'[i][t] # "absent"
    BY <1>2, <2>4
  <2>6. \A q \in Packages :
          /\ known'[q] \subseteq known[q] /\ begun'[q] \subseteq begun[q] \cup (known[q] \ known'[q])
          /\ known[q] \subseteq known'[q] \cup (IF q = i THEN {t} ELSE {})
    <3>1. CASE i \in Trims /\ ~skips
      <4>1. \A q \in Packages :
              /\ known'[q] = IF q = i THEN known[q] \ {t} ELSE known[q]
              /\ begun'[q] = IF q = i THEN begun[q] \cup {t} ELSE begun[q]
        BY <1>1, <1>2, <3>1 DEF BookTypes
      <4> QED BY <1>1, <3>1, <4>1
    <3>2. CASE ~(i \in Trims /\ ~skips)
      BY <1>1, <3>2
    <3> QED BY <3>1, <3>2
  <2>7. BookTypes'
    <3>1. known' \in [Packages -> SUBSET Tests] /\ begun' \in [Packages -> SUBSET Tests]
      BY <1>1, <1>2 DEF BookTypes
    <3> QED BY <1>1, <1>2, <2>3, <3>1 DEF BookTypes
  <2>8. ListInv'
    <3> SUFFICES ASSUME NEW q \in Packages
                 PROVE  /\ known'[q] \cup filter[q].known \cup filter[q].remaining
                             \cup ended[q] \cup failed[q] \subseteq Expected[q]
                        /\ perf[q] \subseteq ended[q]
                        /\ known'[q] \cap begun'[q] = {}
                        /\ \A u \in Tests : result'[q][u] # "absent" => u \in Expected[q]
                        /\ \A u \in Expected[q] : result'[q][u] = "absent" => u \in known'[q]
      BY <1>1 DEF ListInv
    <3>1. /\ known[q] \cup filter[q].known \cup filter[q].remaining \cup ended[q] \cup failed[q]
               \subseteq Expected[q]
          /\ perf[q] \subseteq ended[q]
          /\ known[q] \cap begun[q] = {}
          /\ \A u \in Tests : result[q][u] # "absent" => u \in Expected[q]
          /\ \A u \in Expected[q] : result[q][u] = "absent" => u \in known[q]
      BY DEF IInv, ListInv
    <3>2. \A u \in Tests : result'[q][u] # "absent" => u \in Expected[q]
      BY <2>1, <2>4, <3>1
    <3>3. \A u \in Expected[q] : result'[q][u] = "absent" => u \in known[q] /\ ~(q = i /\ u = t)
      BY <1>2, <2>3, <2>5, <3>1
    <3>4. \A u \in Expected[q] : result'[q][u] = "absent" => u \in known'[q]
      <4>1. known[q] \subseteq known'[q] \cup (IF q = i THEN {t} ELSE {})
        BY <2>6
      <4>2. CASE q = i
        BY <3>3, <4>1, <4>2
      <4>3. CASE q # i
        BY <3>3, <4>1, <4>3
      <4> QED BY <4>2, <4>3
    <3>5. known'[q] \subseteq known[q] /\ known'[q] \cap begun'[q] = {}
      BY <2>6, <3>1
    <3> QED BY <3>1, <3>2, <3>4, <3>5
  <2>9. ReportIsTruthful'
    BY <1>1, <1>2, <2>4 DEF IInv, ReportIsTruthful, Executed
  <2>10. FilterInv'
    <3>1. \A q \in Packages : filter[q].known \subseteq Tests /\ known'[q] \subseteq known[q]
      BY <1>2, <2>6 DEF BookTypes
    <3> QED BY <1>1, <2>3, <2>5, <3>1 DEF IInv, FilterInv
  <2> QED BY <1>3, <1>4, <2>7, <2>8, <2>9, <2>10, TypesNext DEF IInv
<1> QED BY <1>5, <1>6

\* A test that is expected fails, and the report has it as failed.
LEMMA Fails ==
  ASSUME IInv, pc = "run", NEW t \in Expected[i], Wrote(i, {t}, "fail"),
         failed' = [failed EXCEPT ![i] = @ \cup {t}],
         UNCHANGED <<known, filter, perf, ended, begun>>
  PROVE  /\ BookTypes' /\ ListInv' /\ ReportIsTruthful'
         /\ \A q \in Packages : /\ Complete(q) => Complete(q)'
                                /\ \A u \in Tests : result'[q][u] = "absent" => result[q][u] = "absent"
<1>1. known' = known /\ filter' = filter /\ perf' = perf /\ ended' = ended /\ begun' = begun
  OBVIOUS
<1>2. i \in Packages /\ BookTypes /\ \A q \in Packages : Expected[q] \subseteq Tests
  BY RunFacts, Types DEF IInv
<1>3. {t} \in SUBSET Expected[i] /\ "fail" \in Status \ {"absent"}
  BY <1>2 DEF Status, Executed
<1>4. /\ result' \in [Packages -> [Tests -> Status]] /\ After(i, {t}, "fail")
      /\ \A q \in Packages : /\ Complete(q) => Complete(q)'
                             /\ \A u \in Tests : result'[q][u] = "absent" => result[q][u] = "absent"
  BY <1>2, <1>3, WriteKeeps, Zenon
<1>5. \A q \in Packages : failed'[q] = IF q = i THEN failed[q] \cup {t} ELSE failed[q]
  BY <1>2 DEF BookTypes
<1>6. BookTypes'
  <2>1. failed' \in [Packages -> SUBSET Tests]
    BY <1>2 DEF BookTypes
  <2> QED BY <1>1, <1>2, <1>4, <2>1 DEF BookTypes
<1>7. ListInv'
  BY <1>1, <1>2, <1>4, <1>5 DEF IInv, ListInv, After
<1>8. ReportIsTruthful'
  <2> SUFFICES ASSUME NEW q \in Packages, NEW u \in Expected[q]
               PROVE  /\ result'[q][u] \notin Executed => u \notin ended[q] \cup failed'[q]
                      /\ result'[q][u] = "pass" => u \in (IF u \in PerfTests THEN ended[q]
                                                                  ELSE ended[q] \ failed'[q])
                      /\ result'[q][u] = "fail" => u \in failed'[q]
    BY <1>1 DEF ReportIsTruthful
  <2>1. u \in Tests /\ result'[q][u] = IF q = i /\ u = t THEN "fail" ELSE result[q][u]
    BY <1>2, <1>4 DEF After
  <2>2. CASE q = i /\ u = t
    BY <1>5, <2>1, <2>2 DEF Executed
  <2>3. CASE ~(q = i /\ u = t)
    <3>1. result'[q][u] = result[q][u] /\ (u \in failed'[q] <=> u \in failed[q])
      BY <1>5, <2>1, <2>3
    <3> QED BY <3>1 DEF IInv, ReportIsTruthful
  <2> QED BY <2>2, <2>3
<1> QED BY <1>4, <1>6, <1>7, <1>8

\* A failure, of a test the filter knows, or one it does not filter.
LEMMA FailureSteps ==
  ASSUME IInv, NEW t \in Tests, TestFailed(t) \/ TestAssumptionFailure(t) PROVE IInv'
<1>1. /\ pc = "run" /\ pc' = pc /\ now' = now /\ started' = started /\ skips' = skips /\ open' = open
      /\ i' = i /\ last' = last /\ finished' = finished /\ todo' = todo /\ thrown' = thrown
      /\ known' = known /\ filter' = filter /\ perf' = perf
      /\ ended' = ended /\ begun' = begun /\ resumes' = resumes
      /\ cur' = cur /\ infoRun' = infoRun
  BY DEF TestFailed, TestAssumptionFailure, Running, runner
<1>2. \/ result' = result /\ failed' = failed
      \/ /\ t \in Expected[i] /\ Record(ReportTestFailure(result[cur], t))
         /\ failed' = [failed EXCEPT ![i] = @ \cup {t}]
  <2>1. i \in Packages /\ cur = i
    BY <1>1, RunFacts
  <2>2. t \in filter[i].known \/ result[i][t] # "absent" => t \in Expected[i]
    BY <2>1 DEF IInv, ListInv
  <2> QED BY <2>1, <2>2 DEF TestFailed, TestAssumptionFailure, IsKnownTest
<1>3. ControlTypes'
  BY <1>1 DEF IInv, TypeOK, ControlTypes
<1>4. LoopInv' /\ ReporterInv'
  BY <1>1 DEF IInv, LoopInv, ReporterInv
<1>5. CASE result' = result /\ failed' = failed
  <2>1. BookTypes' /\ ListInv' /\ ReportIsTruthful'
    BY <1>1, <1>5, BooksKept DEF books
  <2>2. FilterInv'
    BY <1>1, <1>5 DEF IInv, FilterInv, Complete
  <2> QED BY <1>3, <1>4, <2>1, <2>2, TypesNext DEF IInv
<1>6. CASE /\ t \in Expected[i] /\ Record(ReportTestFailure(result[cur], t))
           /\ failed' = [failed EXCEPT ![i] = @ \cup {t}]
  <2>1. Wrote(i, {t}, "fail")
    BY <1>1, <1>6, FailureWrites
  <2>2. /\ BookTypes' /\ ListInv' /\ ReportIsTruthful'
        /\ \A q \in Packages : /\ Complete(q) => Complete(q)'
                               /\ \A u \in Tests : result'[q][u] = "absent" => result[q][u] = "absent"
    BY <1>1, <1>6, <2>1, Fails
  <2>3. FilterInv'
    <3>1. i \in Packages /\ \A q \in Packages : filter[q].known \subseteq Tests
      BY <1>1, RunFacts DEF IInv, TypeOK
    <3> QED BY <1>1, <2>2, <3>1 DEF IInv, FilterInv
  <2> QED BY <1>3, <1>4, <2>2, <2>3, TypesNext DEF IInv
<1> QED BY <1>2, <1>5, <1>6

\* A test ends: it leaves what remains of its package.
LEMMA EndedStep == ASSUME IInv, NEW t \in Tests, TestEnded(t) PROVE IInv'
<1>1. /\ pc = "run" /\ pc' = pc /\ now' = None /\ started' = started /\ skips' = skips /\ open' = open
      /\ i' = i /\ last' = last /\ finished' = finished /\ todo' = todo /\ thrown' = thrown
      /\ failed' = failed /\ begun' = begun /\ resumes' = resumes
      /\ cur' = cur /\ infoRun' = infoRun /\ known' = known
  BY DEF TestEnded, Running
<1>2. i \in Packages /\ cur = i /\ BookTypes /\ \A q \in Packages : Expected[q] \subseteq Tests
  BY <1>1, RunFacts, Types DEF IInv
<1>5. ControlTypes'
  BY <1>1 DEF IInv, TypeOK, ControlTypes
<1>6. LoopInv' /\ ReporterInv'
  BY <1>1 DEF IInv, LoopInv, ReporterInv
<1>7. CASE t \notin filter[i].known
  <2>1. result' = result /\ perf' = perf /\ filter' = filter /\ ended' = ended
    BY <1>7 DEF TestEnded, IsKnownTest
  <2>2. t \notin known[i]
    BY <1>1, <1>2, <1>7 DEF IInv, FilterInv
  <2>3. BookTypes'
    BY <1>1, <1>2, <2>1 DEF BookTypes
  <2>4. ListInv'
    BY <1>1, <2>1, <2>2 DEF IInv, ListInv
  <2>5. FilterInv'
    <3>1. None \notin filter[i].known
      BY <1>2 DEF BookTypes
    <3> QED BY <1>1, <2>1, <3>1 DEF IInv, FilterInv
  <2>6. ReportIsTruthful'
    BY <1>1, <2>1 DEF IInv, ReportIsTruthful
  <2> QED BY <1>5, <1>6, <2>3, <2>4, <2>5, <2>6, TypesNext DEF IInv
<1>8. CASE t \in filter[i].known
  <2>1. PICK reports \in SUBSET (PerfTests \cap {t}) :
               perf' = [perf EXCEPT ![i] = (@ \ {t}) \cup reports]
    BY <1>2, <1>8 DEF TestEnded, IsKnownTest
  <2>2. /\ Record(ReportTestEnded(result[cur], t))
        /\ filter' = [filter EXCEPT ![i].remaining = @ \ {t}]
        /\ ended' = [ended EXCEPT ![i] = @ \cup {t}]
    BY <1>8 DEF TestEnded, IsKnownTest
  <2>3. t \in Expected[i]
    BY <1>2, <1>8 DEF IInv, ListInv
  <2> DEFINE S == {y \in {t} : result[i][y] # "fail"}
  <2>4. S \in SUBSET Expected[i] /\ "pass" \in Status \ {"absent"} /\ Wrote(i, S, "pass")
    BY <1>1, <2>2, <2>3, EndWrites DEF Status, Executed
  <2> HIDE DEF S
  <2>5. /\ result' \in [Packages -> [Tests -> Status]] /\ After(i, S, "pass")
        /\ \A q \in Packages : /\ Complete(q) => Complete(q)'
                               /\ \A u \in Tests : result'[q][u] = "absent" => result[q][u] = "absent"
    BY <1>2, <2>4, WriteKeeps, Zenon
  <2>6. \A q \in Packages : \A u \in Tests :
          result'[q][u] = IF q = i /\ u = t /\ result[q][u] # "fail" THEN "pass" ELSE result[q][u]
    BY <2>5 DEF After, S
  <2>7. \A q \in Packages :
          /\ ended'[q] = IF q = i THEN ended[q] \cup {t} ELSE ended[q]
          /\ perf'[q] = IF q = i THEN (perf[q] \ {t}) \cup reports ELSE perf[q]
          /\ filter'[q].known = filter[q].known
          /\ filter'[q].remaining = IF q = i THEN filter[q].remaining \ {t} ELSE filter[q].remaining
    <3> SUFFICES ASSUME NEW q \in Packages
                 PROVE  /\ ended'[q] = IF q = i THEN ended[q] \cup {t} ELSE ended[q]
                        /\ perf'[q] = IF q = i THEN (perf[q] \ {t}) \cup reports ELSE perf[q]
                        /\ filter'[q].known = filter[q].known
                        /\ filter'[q].remaining =
                             IF q = i THEN filter[q].remaining \ {t} ELSE filter[q].remaining
      OBVIOUS
    <3>1. ended'[q] = IF q = i THEN ended[q] \cup {t} ELSE ended[q]
      BY <1>2, <2>2 DEF BookTypes
    <3>2. perf'[q] = IF q = i THEN (perf[q] \ {t}) \cup reports ELSE perf[q]
      BY <1>2, <2>1 DEF BookTypes
    <3>3. filter[q] \in [known : SUBSET Tests, remaining : SUBSET Tests]
      BY <1>2 DEF BookTypes
    <3>4. filter'[q] = IF q = i THEN [filter[q] EXCEPT !.remaining = @ \ {t}] ELSE filter[q]
      BY <1>2, <2>2 DEF BookTypes
    <3>5. /\ filter'[q].known = filter[q].known
          /\ filter'[q].remaining = IF q = i THEN filter[q].remaining \ {t} ELSE filter[q].remaining
      BY <3>3, <3>4
    <3> QED BY <3>1, <3>2, <3>5
  <2>8. BookTypes'
    <3>1. perf' \in [Packages -> SUBSET PerfTests]
      BY <1>2, <2>1 DEF BookTypes
    <3>2. ended' \in [Packages -> SUBSET Tests]
      BY <1>2, <2>2 DEF BookTypes
    <3>3. filter' \in [Packages -> [known : SUBSET Tests, remaining : SUBSET Tests]]
      <4>1. filter[i] \in [known : SUBSET Tests, remaining : SUBSET Tests]
        BY <1>2 DEF BookTypes
      <4>2. [filter[i] EXCEPT !.remaining = @ \ {t}] \in [known : SUBSET Tests, remaining : SUBSET Tests]
        BY <4>1
      <4>3. filter' = [filter EXCEPT ![i] = [filter[i] EXCEPT !.remaining = @ \ {t}]]
        BY <1>2, <2>2 DEF BookTypes
      <4> QED BY <1>2, <4>2, <4>3 DEF BookTypes
    <3> QED BY <1>1, <1>2, <2>5, <3>1, <3>2, <3>3 DEF BookTypes
  <2>9. ListInv'
    <3> SUFFICES ASSUME NEW q \in Packages
                 PROVE  /\ known[q] \cup filter'[q].known \cup filter'[q].remaining
                             \cup ended'[q] \cup failed[q] \subseteq Expected[q]
                        /\ perf'[q] \subseteq ended'[q]
                        /\ known[q] \cap begun[q] = {}
                        /\ \A u \in Tests : result'[q][u] # "absent" => u \in Expected[q]
                        /\ \A u \in Expected[q] : result'[q][u] = "absent" => u \in known[q]
      BY <1>1 DEF ListInv
    <3>1. /\ known[q] \cup filter[q].known \cup filter[q].remaining \cup ended[q] \cup failed[q]
               \subseteq Expected[q]
          /\ perf[q] \subseteq ended[q]
          /\ known[q] \cap begun[q] = {}
          /\ \A u \in Tests : result[q][u] # "absent" => u \in Expected[q]
          /\ \A u \in Expected[q] : result[q][u] = "absent" => u \in known[q]
      BY DEF IInv, ListInv
    <3>2. reports \subseteq {t}
      BY <2>1
    <3>3. CASE q = i
      <4>1. \A u \in Expected[q] : result'[q][u] = "absent" => u # t
        BY <1>2, <2>6, <3>3
      <4>2. \A u \in Expected[q] : result'[q][u] = "absent" => result[q][u] = "absent"
        BY <1>2, <2>6
      <4>3. \A u \in Expected[q] : result'[q][u] = "absent" => u \in known[q]
        BY <3>1, <4>2
      <4>4. \A u \in Tests : result'[q][u] # "absent" => u \in Expected[q]
        BY <2>3, <2>6, <3>1, <3>3
      <4>5. /\ ended'[q] = ended[q] \cup {t} /\ perf'[q] = (perf[q] \ {t}) \cup reports
            /\ filter'[q].known = filter[q].known
            /\ filter'[q].remaining = filter[q].remaining \ {t}
        BY <1>2, <2>7, <3>3
      <4>6. t \in Expected[q]
        BY <2>3, <3>3
      <4>7. /\ known[q] \cup filter'[q].known \cup filter'[q].remaining
                 \cup ended'[q] \cup failed[q] \subseteq Expected[q]
            /\ perf'[q] \subseteq ended'[q]
            /\ known[q] \cap begun[q] = {}
        BY <3>1, <3>2, <4>5, <4>6
      <4> QED BY <4>3, <4>4, <4>7
    <3>4. CASE q # i
      BY <1>2, <2>6, <2>7, <3>1, <3>4
    <3> QED BY <3>3, <3>4
  <2>10. FilterInv'
    <3>1. result'[i][t] # "absent"
      BY <1>2, <2>6
    <3>2. \A q \in Packages : filter[q].known \subseteq Tests
      BY <1>2 DEF BookTypes
    <3>3. now' \notin filter'[i].known
      BY <1>1, <1>2, <2>7, <3>2
    <3>4. \A q \in Packages :
            /\ known[q] \subseteq filter'[q].known
            /\ \A u \in filter'[q].known : result'[q][u] = "absent" => u \in filter'[q].remaining
      <4> SUFFICES ASSUME NEW q \in Packages
                   PROVE  /\ known[q] \subseteq filter'[q].known
                          /\ \A u \in filter'[q].known :
                               result'[q][u] = "absent" => u \in filter'[q].remaining
        OBVIOUS
      <4>1. /\ known[q] \subseteq filter[q].known
            /\ \A u \in filter[q].known : result[q][u] = "absent" => u \in filter[q].remaining
        BY <1>1 DEF IInv, FilterInv
      <4>2. filter'[q].known = filter[q].known
        BY <2>7
      <4>3. ASSUME NEW u \in filter[q].known, result'[q][u] = "absent"
            PROVE  u \in filter'[q].remaining
        <5>1. u \in Tests /\ u \in filter[q].remaining /\ ~(q = i /\ u = t)
          BY <2>5, <3>1, <3>2, <4>1, <4>3
        <5>2. CASE q = i
          <6>1. filter'[q].remaining = filter[q].remaining \ {t}
            BY <2>7, <5>2
          <6> QED BY <5>1, <5>2, <6>1
        <5>3. CASE q # i
          <6>1. filter'[q].remaining = filter[q].remaining
            BY <2>7, <5>3
          <6> QED BY <5>1, <6>1
        <5> QED BY <5>2, <5>3
      <4> QED BY <4>1, <4>2, <4>3
    <3> QED BY <1>1, <3>3, <3>4 DEF FilterInv
  <2>11. ReportIsTruthful'
    <3> SUFFICES ASSUME NEW q \in Packages, NEW u \in Expected[q]
                 PROVE  /\ result'[q][u] \notin Executed => u \notin ended'[q] \cup failed[q]
                        /\ result'[q][u] = "pass" => u \in (IF u \in PerfTests THEN ended'[q]
                                                                    ELSE ended'[q] \ failed[q])
                        /\ result'[q][u] = "fail" => u \in failed[q]
      BY <1>1 DEF ReportIsTruthful
    <3>1. /\ result[q][u] \notin Executed => u \notin ended[q] \cup failed[q]
          /\ result[q][u] = "pass" => u \in (IF u \in PerfTests THEN ended[q]
                                                      ELSE ended[q] \ failed[q])
          /\ result[q][u] = "fail" => u \in failed[q]
      BY DEF IInv, ReportIsTruthful
    <3>2. u \in Tests
      BY <1>2
    <3>3. CASE q = i /\ u = t
      <4>1. result'[q][u] = (IF result[q][u] # "fail" THEN "pass" ELSE "fail") /\ u \in ended'[q]
        BY <2>6, <2>7, <3>2, <3>3
      <4>2. result[q][u] # "fail" => (u \in failed[q] => u \in PerfTests)
        BY <3>1, <1>2, <3>2 DEF BookTypes, Status, Executed
      <4> QED BY <3>1, <4>1, <4>2 DEF Executed
    <3>4. CASE ~(q = i /\ u = t)
      <4>1. result'[q][u] = result[q][u] /\ (u \in ended'[q] <=> u \in ended[q])
        <5>1. result'[q][u] = result[q][u]
          BY <2>6, <3>2, <3>4
        <5>2. CASE q = i
          <6>1. ended'[q] = ended[q] \cup {t}
            BY <2>7, <5>2
          <6> QED BY <3>4, <5>1, <5>2, <6>1
        <5>3. CASE q # i
          <6>1. ended'[q] = ended[q]
            BY <2>7, <5>3
          <6> QED BY <5>1, <6>1
        <5> QED BY <5>2, <5>3
      <4> QED BY <3>1, <4>1
    <3> QED BY <3>3, <3>4
  <2> QED BY <1>5, <1>6, <2>8, <2>9, <2>10, <2>11, TypesNext DEF IInv
<1> QED BY <1>7, <1>8
-----------------------------------------------------------------------------
(* The theorems.                                                              *)

\* The invariant holds when run() is first called.
LEMMA Initially == Init => IInv
<1> SUFFICES ASSUME Init PROVE IInv
  OBVIOUS
<1>1. \A p \in Packages : /\ Expected[p] \subseteq Tests
                          /\ filter[p].known = {} /\ filter[p].remaining = {}
                          /\ \A t \in Tests : result[p][t] = "absent"
  BY DEF Init, NewResult
<1>2. ControlTypes
  <2>1. 1 \in 1 .. N + 1 /\ 0 \in 0 .. N /\ 0 \in 0 .. MaxResumes
    OBVIOUS
  <2> QED BY <2>1 DEF Init, ControlTypes
<1>3. BookTypes
  <2>1. NewResult(Tests) \in [Tests -> Status]
    BY DEF NewResult, Status
  <2> QED BY <2>1 DEF Init, BookTypes
<1>4. LoopInv /\ ReporterInv
  BY DEF Init, LoopInv, ReporterInv
<1>5. ListInv
  BY <1>1 DEF Init, ListInv
<1>6. FilterInv
  BY <1>1 DEF Init, FilterInv
<1>7. ReportIsTruthful
  BY <1>1 DEF Init, ReportIsTruthful
<1> QED BY <1>2, <1>3, <1>4, <1>5, <1>6, <1>7, Types DEF IInv

\* Every step keeps it.
LEMMA Inductive == IInv /\ [Next]_vars => IInv'
<1> SUFFICES ASSUME IInv, [Next]_vars PROVE IInv'
  OBVIOUS
<1>1. CASE Advance
  BY <1>1, SetUpStep, EntrySteps, ForwardStep, ReturnStep, NextPackageStep, FinallySteps,
     UnexecutedStep, RunEndSteps, LeaveStep DEF Advance
<1>2. CASE RunnerStep
  BY <1>2, RunStartedStep, RunEndSteps, FinallySteps, StartedStep, FailureSteps, EndedStep
     DEF RunnerStep
<1>3. CASE DeviceLost
  BY <1>3, FinallySteps
<1>4. CASE LoseDeviceEarly \/ Resume \/ UNCHANGED vars
  BY <1>4, OutsideSteps
<1> QED BY <1>1, <1>2, <1>3, <1>4 DEF Next

\* The inductive invariant holds throughout.
THEOREM Invariance == Spec => []IInv
  BY Initially, Inductive, PTL DEF Spec

\* However a call of run() ends, its report is of the expected tests, all of them.
THEOREM ReportsAreComplete == Spec => []ReportIsComplete
<1>1. IInv => ReportIsComplete
  <2> SUFFICES ASSUME IInv, pc = "exited", \E p \in Packages : filter[p].known # {},
                      NEW p \in Packages
               PROVE  {t \in Tests : result[p][t] # "absent"} = Expected[p]
    BY DEF ReportIsComplete
  <2>1. Complete(p) /\ Expected[p] \subseteq Tests
    BY DEF IInv, FilterInv
  <2>2. \A t \in Tests : result[p][t] # "absent" => t \in Expected[p]
    BY DEF IInv, ListInv
  <2> QED BY <2>1, <2>2 DEF Complete
<1> QED BY <1>1, Invariance, PTL

\* The report says of a package's tests what the device said while it ran.
THEOREM ReportsAreTruthful == Spec => []ReportIsTruthful
<1>1. IInv => ReportIsTruthful
  BY DEF IInv
<1> QED BY <1>1, Invariance, PTL

\* A resumed call skips no package and runs at most two finished ones again.
THEOREM ResumesWhereItStopped == Spec => []ResumePoint
<1>1. IInv => ResumePoint
  <2> SUFFICES ASSUME IInv, pc = "run"
               PROVE  1 .. i - 1 \subseteq finished /\ finished \subseteq 1 .. i + 1
    BY DEF ResumePoint
  <2>1. 1 .. i - 1 \subseteq finished /\ finished \subseteq 1 .. last + 1 /\ i \in {last, last + 1}
    BY DEF IInv, LoopInv
  <2>2. last \in Nat /\ i \in Nat
    BY DEF IInv, TypeOK
  <2> QED BY <2>1, <2>2
<1> QED BY <1>1, Invariance, PTL

\* A dEQP case that has begun is not started again, by whichever call.
THEOREM BegunAreNotRerun == Spec => NoRerunOfBegun
<1>1. IInv /\ [Next]_vars =>
        [\A p \in Trims : \A t \in begun[p] : ~(pc = "run" /\ i = p /\ now' = t /\ now # t)]_vars
  <2> SUFFICES ASSUME IInv, [Next]_vars, NEW p \in Trims, NEW t \in begun[p],
                      pc = "run", i = p, now' = t, now # t
               PROVE  FALSE
    OBVIOUS
  <2>1. p \in Packages /\ begun[p] \subseteq Tests /\ known[p] \cap begun[p] = {}
    BY DEF IInv, TypeOK, ListInv
  <2>2. t # None /\ now' # now
    BY <2>1
  <2>3. \E u \in Tests : TestStarted(u) /\ now' = u
    BY <2>2 DEF Next, Advance, RunnerStep, DeviceLost, LoseDeviceEarly, Resume, SetUp,
       DeviceInfoStarted, EnterLoop, ForwardPackageDetails, RunnerReturns, NextPackage, LoopEnds,
       ReportUnexecutedTests, UnexecutedRunEnded, LeaveRun, RunStarted, RunEnded, RunnerThrows,
       TestStarted, TestFailed, TestEnded, TestAssumptionFailure, AssumptionOfUnknown, vars, runner
  <2>4. t \in known[p]
    BY <2>3 DEF TestStarted
  <2> QED BY <2>1, <2>4
<1> QED BY <1>1, Invariance, PTL DEF Spec, NoRerunOfBegun
-----------------------------------------------------------------------------
(* The reporter implements SessionReport.                                     *)

Closed == pc \in {"called", "exited"}

\* A write during a call is a write of the abstract report.
LEMMA WriteMaps ==
  ASSUME IInv, NEW p \in Packages, NEW S \in SUBSET Expected[p], NEW v,
         Wrote(p, S, v), ~Closed, ~Closed'
  PROVE  Report!Write(p, S, v)
<1>1. (pc' \in {"called", "exited"}) = (pc \in {"called", "exited"})
  BY DEF Closed
<1> QED BY <1>1 DEF Report!Write, Wrote, Closed

\* Tests are listed.
LEMMA ListMaps ==
  ASSUME IInv, NEW p \in Packages, NEW S \in SUBSET Expected[p],
         Wrote(p, {y \in S : result[p][y] = "absent"}, "notExecuted"), ~Closed, ~Closed'
  PROVE  Report!Next
<1> DEFINE T == {y \in S : result[p][y] = "absent"}
<1>1. T \in SUBSET Expected[p] /\ T \in SUBSET Tests /\ \A t \in T : result[p][t] = "absent"
  OBVIOUS
<1>2. Report!Write(p, T, "notExecuted")
  BY <1>1, WriteMaps
<1> HIDE DEF T
<1>3. Report!Insert(p, T)
  BY <1>1, <1>2 DEF Report!Insert
<1> QED BY <1>1, <1>3 DEF Report!Next

\* Tests with a performance report pass.
LEMMA ReportsMap ==
  ASSUME IInv, NEW p \in Packages, Wrote(p, perf[p], "pass"), ~Closed, ~Closed'
  PROVE  Report!Next
<1>1. perf[p] \in SUBSET Expected[p] /\ perf[p] \subseteq PerfTests /\ perf[p] \subseteq ended[p]
      /\ perf[p] \in SUBSET Tests
  BY DEF IInv, ListInv, TypeOK
<1>2. \A t \in perf[p] : result[p][t] \in Executed
  BY <1>1 DEF IInv, ReportIsTruthful
<1>3. Report!Write(p, perf[p], "pass")
  BY <1>1, WriteMaps
<1>4. Report!Overrule(p, perf[p])
  BY <1>1, <1>2, <1>3 DEF Report!Overrule, Report!Executed, Executed
<1> QED BY <1>1, <1>4 DEF Report!Next

\* A failure of a test that is in the report.
LEMMA FailureMaps ==
  ASSUME IInv, pc = "run", ~Closed', NEW t \in Expected[i], result[i][t] # "absent",
         Record(ReportTestFailure(result[cur], t))
  PROVE  Report!Next \/ result' = result
<1>1. i \in Packages /\ result[i] \in [Tests -> Status] /\ t \in Tests
  BY RunFacts
<1>2. Wrote(i, {t}, "fail") /\ {t} \in SUBSET Expected[i] /\ ~Closed
  BY <1>1, FailureWrites DEF Closed
<1>3. CASE result[i][t] = "fail"
  <2>1. \A x \in Tests : (IF x \in {t} THEN "fail" ELSE result[i][x]) = result[i][x]
    BY <1>3
  <2>2. [x \in Tests |-> IF x \in {t} THEN "fail" ELSE result[i][x]] = result[i]
    BY <1>1, <2>1
  <2>3. result' = [result EXCEPT ![i] = result[i]]
    BY <1>2, <2>2 DEF Wrote
  <2> QED BY <1>1, <2>3 DEF IInv, TypeOK
<1>4. CASE result[i][t] # "fail"
  <2>1. Report!Write(i, {t}, "fail")
    BY <1>1, <1>2, WriteMaps
  <2>2. result[i][t] \in {"notExecuted", "pass"}
    BY <1>1, <1>4 DEF Status, Executed
  <2>3. Report!Fail(i, t)
    BY <2>1, <2>2 DEF Report!Fail
  <2> QED BY <1>1, <2>3 DEF Report!Next
<1> QED BY <1>3, <1>4

\* The end of a test that is in the report.
LEMMA EndMaps ==
  ASSUME IInv, pc = "run", ~Closed', NEW t \in Expected[i], result[i][t] # "absent",
         Record(ReportTestEnded(result[cur], t))
  PROVE  Report!Next \/ result' = result
<1>1. i \in Packages /\ result[i] \in [Tests -> Status] /\ t \in Tests
  BY RunFacts
<1>2. Wrote(i, {y \in {t} : result[i][y] # "fail"}, "pass") /\ ~Closed
  BY <1>1, EndWrites DEF Closed
<1>3. CASE result[i][t] # "notExecuted"
  <2>1. result[i][t] \in {"pass", "fail"}
    BY <1>1, <1>3 DEF Status, Executed
  <2>2. \A x \in Tests :
          (IF x \in {y \in {t} : result[i][y] # "fail"} THEN "pass" ELSE result[i][x]) = result[i][x]
    BY <2>1
  <2>3. [x \in Tests |-> IF x \in {y \in {t} : result[i][y] # "fail"} THEN "pass" ELSE result[i][x]]
          = result[i]
    BY <1>1, <2>2
  <2>4. result' = [result EXCEPT ![i] = result[i]]
    BY <1>2, <2>3 DEF Wrote
  <2> QED BY <1>1, <2>4 DEF IInv, TypeOK
<1>4. CASE result[i][t] = "notExecuted"
  <2>1. {y \in {t} : result[i][y] # "fail"} = {t} /\ {t} \in SUBSET Expected[i]
    BY <1>4
  <2>2. Report!Write(i, {t}, "pass")
    BY <1>1, <1>2, <2>1, WriteMaps
  <2>3. Report!Pass(i, t)
    BY <1>4, <2>2 DEF Report!Pass
  <2> QED BY <1>1, <2>3 DEF Report!Next
<1> QED BY <1>3, <1>4

\* A step that neither writes nor opens or closes the report is a stutter.
LEMMA Stutters ==
  ASSUME result' = result, Closed <=> Closed'
  PROVE  UNCHANGED Report!vars
<1>1. (pc' \in {"called", "exited"}) = (pc \in {"called", "exited"})
  BY DEF Closed
<1> QED BY <1>1 DEF Report!vars

\* What the runner does is a write or a stutter.
LEMMA RunnerMaps == ASSUME IInv, RunnerStep PROVE [Report!Next]_(Report!vars)
<1>1. pc = "run" /\ pc' \in {"run", "finally"}
  BY DEF RunnerStep, RunStarted, RunEnded, RunnerThrows, TestStarted, TestFailed, TestEnded,
     TestAssumptionFailure, AssumptionOfUnknown, Running
<1>2. i \in Packages /\ cur = i /\ ~Closed /\ ~Closed'
  BY <1>1, RunFacts DEF Closed
<1>3. \A t \in Tests : t \in filter[i].known \/ result[i][t] # "absent" => t \in Expected[i]
  BY <1>2 DEF IInv, ListInv
<1>4. result' = result => UNCHANGED Report!vars
  BY <1>2, Stutters
<1>5. CASE RunEnded
  BY <1>2, <1>5, RunEndWrites, ReportsMap
<1>6. CASE RunStarted \/ RunnerThrows \/ \E t \in Tests : AssumptionOfUnknown(t)
  BY <1>4, <1>6 DEF RunStarted, RunnerThrows, AssumptionOfUnknown, report
<1>7. ASSUME NEW t \in Tests, TestStarted(t) PROVE [Report!Next]_(Report!vars)
  <2>1. CASE t \in filter[i].known
    <3>1. {t} \in SUBSET Expected[i]
      BY <1>3, <2>1
    <3> QED BY <1>2, <1>7, <2>1, <3>1, StartWrites, ListMaps
  <2>2. CASE t \notin filter[i].known
    BY <1>4, <1>7, <2>2 DEF TestStarted, IsKnownTest
  <2> QED BY <2>1, <2>2
<1>8. \A t \in Tests : Running(t) /\ t \in filter[i].known => result[i][t] # "absent"
  BY DEF Running, IInv, FilterInv
<1>9. ASSUME NEW t \in Tests, TestFailed(t) \/ TestAssumptionFailure(t)
      PROVE  [Report!Next]_(Report!vars)
  <2>1. \/ result' = result
        \/ /\ t \in Expected[i] /\ result[i][t] # "absent"
           /\ Record(ReportTestFailure(result[cur], t))
    BY <1>2, <1>3, <1>8, <1>9 DEF TestFailed, TestAssumptionFailure, IsKnownTest
  <2> QED BY <1>1, <1>2, <1>4, <2>1, FailureMaps
<1>10. ASSUME NEW t \in Tests, TestEnded(t) PROVE [Report!Next]_(Report!vars)
  <2>1. \/ result' = result
        \/ /\ t \in Expected[i] /\ result[i][t] # "absent"
           /\ Record(ReportTestEnded(result[cur], t))
    BY <1>2, <1>3, <1>8, <1>10 DEF TestEnded, IsKnownTest
  <2> QED BY <1>1, <1>2, <1>4, <2>1, EndMaps
<1> QED BY <1>5, <1>6, <1>7, <1>9, <1>10 DEF RunnerStep

\* So is what run() does, but for its beginning and its end.
LEMMA AdvanceMaps == ASSUME IInv, Advance PROVE [Report!Next]_(Report!vars)
<1>1. CASE SetUp
  <2>1. pc = "called" /\ pc' = "deviceInfo" /\ result' = result
    BY <1>1 DEF SetUp, report
  <2>2. Report!Open
    BY <2>1 DEF Report!Open
  <2> QED BY <2>2 DEF Report!Next
<1>2. CASE LeaveRun
  <2>1. pc = "finally" /\ pc' = "exited" /\ result' = result
    BY <1>2 DEF LeaveRun, report
  <2>2. \A p \in Packages : \A t \in Expected[p] : result[p][t] # "absent"
    BY <1>2, LeaveStep DEF Complete
  <2>3. Report!Close
    BY <2>1, <2>2 DEF Report!Close
  <2> QED BY <2>3 DEF Report!Next
<1>3. CASE ForwardPackageDetails
  <2>1. ~Closed /\ ~Closed'
    BY <1>3 DEF ForwardPackageDetails, Closed
  <2> QED BY <1>3, <2>1, ForwardWrites, ReportsMap
<1>4. CASE UnexecutedRunEnded
  <2>1. ~Closed /\ ~Closed'
    BY <1>4 DEF UnexecutedRunEnded, Closed
  <2> QED BY <1>4, <2>1, RunEndWrites, ReportsMap
<1>5. ASSUME NEW p \in Packages, ReportUnexecutedTests(p) PROVE [Report!Next]_(Report!vars)
  <2>1. ~Closed /\ ~Closed'
    BY <1>5 DEF ReportUnexecutedTests, Closed
  <2>2. CASE filter[p].remaining = {}
    BY <1>5, <2>1, <2>2, Stutters DEF ReportUnexecutedTests
  <2>3. CASE filter[p].remaining # {}
    <3>1. filter[p].remaining \in SUBSET Expected[p]
      BY DEF IInv, ListInv
    <3> QED BY <1>5, <2>1, <2>3, <3>1, UnexecutedWrites, ListMaps
  <2> QED BY <2>2, <2>3
<1>6. CASE DeviceInfoStarted \/ EnterLoop \/ RunnerReturns \/ NextPackage \/ LoopEnds
  <2>1. result' = result /\ ~Closed /\ ~Closed'
    BY <1>6 DEF DeviceInfoStarted, EnterLoop, RunnerReturns, NextPackage, LoopEnds, report, Closed
  <2> QED BY <2>1, Stutters
<1> QED BY <1>1, <1>2, <1>3, <1>4, <1>5, <1>6 DEF Advance

\* Every step of an invocation maps to a step of the abstract report or a stutter.
LEMMA StepMaps == IInv /\ [Next]_vars => [Report!Next]_(Report!vars)
<1> SUFFICES ASSUME IInv, [Next]_vars PROVE [Report!Next]_(Report!vars)
  OBVIOUS
<1>1. CASE DeviceLost \/ LoseDeviceEarly \/ Resume \/ UNCHANGED vars
  <2>1. result' = result /\ (Closed <=> Closed')
    BY <1>1 DEF DeviceLost, UsesDevice, LoseDeviceEarly, Resume, vars, report, Closed
  <2> QED BY <2>1, Stutters
<1> QED BY <1>1, AdvanceMaps, RunnerMaps DEF Next

\* An invocation begins with an empty report that is closed.
LEMMA InitMaps == Init => Report!Init
  BY DEF Init, Report!Init, Report!NewResult, NewResult

\* The reporter's tree implements SessionReport: what a call of run() leaves is
\* complete, no verdict is lost, and only a performance report undoes a failure.
THEOREM Refines == Spec => KeepsReport
  BY InitMaps, StepMaps, Invariance, PTL DEF Spec, KeepsReport, Report!Spec
=============================================================================
