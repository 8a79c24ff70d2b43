------------------------------- MODULE CtsTest ------------------------------
(***************************************************************************)
(* One CTS invocation on one device: CtsTest.run and the loop over the     *)
(* packages (testtype/CtsTest.java), the ResultFilter of each package      *)
(* (testtype/ResultFilter.java) and the reporter all of them write to      *)
(* (result/CtsXmlResultReporter.java, result/TestPackageResult.java).      *)
(*                                                                         *)
(* The runner of a package is an IRemoteTest that sends listener calls in  *)
(* the order the ITestInvocationListener contract allows.  The device may  *)
(* be lost at any device call; the invocation then resumes by calling      *)
(* run() again on the same CtsTest with the same listener.                 *)
(***************************************************************************)
EXTENDS Integers, FiniteSets, TestPackageResult

CONSTANTS
  N,                 \* the number of packages in mTestPackageList
  Tests,             \* the test identifiers, which packages may share
  Expected,          \* the tests of each package after createTest filtered them
  Trims,             \* packages whose runner removes a test it starts from that
                     \* list (DeqpTestRunner)
  RunsAsId,          \* packages whose runner uses the package id as run name
                     \* (JarHostTest and others use the app package name)
  PerfTests,         \* tests that may deliver a performance report
  AssumptionTests,   \* tests that may end in an assumption failure
  MaxResumes         \* bound on the calls of run() after the first

Packages == 1 .. N
None     == "none"

ASSUME Assumption ==
  /\ N \in Nat
  /\ None \notin Tests
  /\ Expected \in [Packages -> SUBSET Tests]
  /\ Trims \subseteq Packages /\ RunsAsId \subseteq Packages
  /\ PerfTests \subseteq Tests /\ AssumptionTests \subseteq Tests
  /\ MaxResumes \in Nat

VARIABLES
  pc,          \* where run() is
  i,           \* the loop's index
  last,        \* mLastTestPackageIndex
  thrown,      \* how the last call of run() ended, or why its finally is run
  known,       \* ITestPackageDef.getTests(), the list the runner shares
  filter,      \* of each package: the known and the remaining tests
  todo,        \* the filters the finally block has still to report
  result,      \* the report: the status of each test of each package
  perf,        \* of each package: tests whose metrics hold a report
  cur,         \* mCurrentPkgResult, 0 for null
  infoRun,     \* mIsDeviceInfoRun
  open,        \* the runner has started its test run
  now,         \* the test the runner is running
  started,     \* the tests the runner has started in this call
  skips,       \* a dEQP runner whose device lacks the OpenGL ES version: it
               \* passes every test without running it
  resumes,     \* how often run() was called again
  ended, failed,   \* history: what the device said of each package's tests
  begun,       \* history: tests that a runner which trims has begun to run
  finished     \* history: packages whose runner has returned

runner == <<open, now, started, skips>>
report == <<result, perf, cur, infoRun>>
history == <<ended, failed, begun, finished>>
vars == <<pc, i, last, thrown, known, filter, todo, result, perf, cur, infoRun,
          open, now, started, skips, resumes, ended, failed, begun, finished>>

Init ==
  /\ pc = "called" /\ i = 1 /\ last = 1 /\ thrown = "no" /\ todo = {}
  /\ known = Expected
  /\ filter = [p \in Packages |-> [known |-> {}, remaining |-> {}]]
  /\ result = [p \in Packages |-> NewResult(Tests)]
  /\ perf = [p \in Packages |-> {}]
  /\ cur = 0 /\ infoRun = FALSE
  /\ open = FALSE /\ now = None /\ started = {} /\ skips = FALSE /\ resumes = 0
  /\ ended = [p \in Packages |-> {}] /\ failed = [p \in Packages |-> {}]
  /\ begun = [p \in Packages |-> {}] /\ finished = {}

-----------------------------------------------------------------------------
(* The reporter: CtsXmlResultReporter.                                     *)

\* populateMetrics: every test with a performance report passes.
PopulateMetrics(r, reports) ==
  [t \in DOMAIN r |-> IF t \in reports THEN "pass" ELSE r[t]]

\* Faulty form of the next definition: only the first run makes a package.
TestRunStartedOnce(p) == infoRun' = FALSE /\ cur' = IF cur = 0 THEN p ELSE cur

\* testRunStarted for package p.
TestRunStarted(p) == infoRun' = FALSE /\ cur' = p

\* The current package's results become r, unless this is the device info run.
Record(r) ==
  IF infoRun \/ cur = 0 THEN UNCHANGED result ELSE result' = [result EXCEPT ![cur] = r]

-----------------------------------------------------------------------------
(* CtsTest.run up to the loop.                                             *)

\* getAbis asks the device before anything is set up.
LoseDeviceEarly ==
  /\ pc = "called"
  /\ pc' = "exited" /\ thrown' = "device"
  /\ UNCHANGED <<i, last, known, filter, todo, report, runner, resumes, history>>

\* The package list is kept from the first call on; a fresh filter is made for
\* every package of it, from what the package definition holds now.
SetUp ==
  /\ pc = "called"
  /\ filter' = [p \in Packages |-> [known |-> known[p], remaining |-> known[p]]]
  /\ pc' = "deviceInfo" /\ thrown' = "no"
  /\ UNCHANGED <<i, last, known, todo, report, runner, resumes, history>>

\* collectDeviceInfo runs the collector under its own run name, straight to
\* the reporter.
DeviceInfoStarted ==
  /\ pc = "deviceInfo"
  /\ infoRun' = TRUE /\ pc' = "collecting"
  /\ UNCHANGED <<i, last, thrown, known, filter, todo, result, perf, cur,
                 runner, resumes, history>>

\* --skip-device-info, or the end of the collection; then preRebootIfNecessary
\* and the loop from the last package that completed.
EnterLoop ==
  /\ pc \in {"deviceInfo", "collecting"}
  /\ pc' = "loop" /\ i' = last
  /\ UNCHANGED <<last, thrown, known, filter, todo, report, runner, resumes, history>>

\* forwardPackageDetails: an empty test run that carries the package's name.
\* Whether a dEQP runner can run its tests depends on the device of this call.
ForwardPackageDetails ==
  /\ pc = "loop" /\ i <= N
  /\ TestRunStarted(i)
  /\ result' = [result EXCEPT ![i] = PopulateMetrics(@, perf[i])]
  /\ pc' = "run"
  /\ open' = FALSE /\ now' = None /\ started' = {}
  /\ skips' \in IF i \in Trims THEN BOOLEAN ELSE {FALSE}
  /\ UNCHANGED <<i, last, thrown, known, filter, todo, perf, resumes, history>>

-----------------------------------------------------------------------------
(* The runner of package i, seen through its ResultFilter.                 *)

Running(t) == pc = "run" /\ open /\ now = t
IsKnownTest(t) == t \in filter[i].known

\* Only a run named after the package reaches the reporter.
RunStarted ==
  /\ pc = "run" /\ ~open
  /\ skips => started = {}
  /\ open' = TRUE
  /\ IF i \in RunsAsId THEN TestRunStarted(i) ELSE UNCHANGED <<cur, infoRun>>
  /\ UNCHANGED <<pc, i, last, thrown, known, filter, todo, result, perf, now,
                 started, skips, resumes, history>>

\* Faulty form of the next definition: the runner trims a copy of the list.
TrimACopy(t) == UNCHANGED known

\* DeqpTestRunner removes a test it has begun from the very collection that
\* ITestPackageDef.getTests returns, but none that it skips; no other runner
\* changes it.
Trim(t) == known' = IF i \in Trims /\ ~skips THEN [known EXCEPT ![i] = @ \ {t}] ELSE known

\* A runner may also run tests the package does not list.
TestStarted(t) ==
  /\ Running(None)
  /\ t \notin started
  /\ i \in Trims => t \in known[i]
  /\ now' = t /\ started' = started \cup {t}
  /\ IF IsKnownTest(t) THEN Record(InsertTest(result[cur], t)) ELSE UNCHANGED result
  /\ Trim(t)
  /\ begun' = IF i \in Trims /\ ~skips THEN [begun EXCEPT ![i] = @ \cup {t}] ELSE begun
  /\ UNCHANGED <<pc, i, last, thrown, filter, todo, perf, cur, infoRun,
                 open, skips, resumes, ended, failed, finished>>

TestFailed(t) ==
  /\ Running(t) /\ ~skips
  /\ IF IsKnownTest(t)
     THEN /\ Record(ReportTestFailure(result[cur], t))
          /\ failed' = [failed EXCEPT ![i] = @ \cup {t}]
     ELSE UNCHANGED <<result, failed>>
  /\ UNCHANGED <<pc, i, last, thrown, known, filter, todo, perf, cur, infoRun,
                 runner, resumes, ended, begun, finished>>

\* testAssumptionFailure is not overridden by ResultFilter: the reporter gets
\* it for any test.
TestAssumptionFailure(t) ==
  /\ Running(t) /\ i \notin Trims /\ t \in AssumptionTests
  /\ result[cur][t] # "absent"
  /\ Record(ReportTestFailure(result[cur], t))
  /\ failed' = [failed EXCEPT ![i] = @ \cup {t}]
  /\ UNCHANGED <<pc, i, last, thrown, known, filter, todo, perf, cur, infoRun,
                 runner, resumes, ended, begun, finished>>

\* TestPackageResult.findTest returns null for a test it does not hold: the
\* reporter's null pointer exception ends the run.
AssumptionOfUnknown(t) ==
  /\ Running(t) /\ i \notin Trims /\ t \in AssumptionTests
  /\ result[cur][t] = "absent"
  /\ thrown' = "unexpectedTest" /\ pc' = "finally" /\ todo' = Packages
  /\ UNCHANGED <<i, last, known, filter, report, runner, resumes, history>>

\* removeExecutedTest, and mTestMetrics.put with the metrics of this execution.
TestEnded(t) ==
  /\ Running(t)
  /\ now' = None
  /\ IF IsKnownTest(t)
     THEN /\ Record(ReportTestEnded(result[cur], t))
          /\ \E reports \in SUBSET (PerfTests \cap {t}) :
               perf' = [perf EXCEPT ![cur] = (@ \ {t}) \cup reports]
          /\ filter' = [filter EXCEPT ![i].remaining = @ \ {t}]
          /\ ended' = [ended EXCEPT ![i] = @ \cup {t}]
     ELSE UNCHANGED <<result, perf, filter, ended>>
  /\ UNCHANGED <<pc, i, last, thrown, known, todo, cur, infoRun, open, started,
                 skips, resumes, failed, begun, finished>>

\* testRunEnded is forwarded whatever the run's name.  A run that skips has gone
\* through the whole list.
RunEnded ==
  /\ Running(None)
  /\ skips => known[i] \subseteq started
  /\ open' = FALSE
  /\ Record(PopulateMetrics(result[cur], perf[cur]))
  /\ UNCHANGED <<pc, i, last, thrown, known, filter, todo, perf, cur, infoRun,
                 now, started, skips, resumes, history>>

\* Faulty forms of the next definition.
KeepNextIndex == last' = i + 1
KeepNoIndex   == UNCHANGED last

\* mLastTestPackageIndex = i, and the loop goes on.
KeepIndex == last' = i

\* The package is done.  Only if another one follows does the device reboot or
\* go to the home screen, and only then is the package's index kept.  A dEQP
\* runner returns when its list is empty, or when it has skipped the list.
RunnerReturns ==
  /\ pc = "run"
  /\ i \in Trims => IF skips THEN ~open /\ known[i] \subseteq started
                            ELSE now = None /\ known[i] = {}
  /\ finished' = finished \cup {i}
  /\ IF i < N THEN pc' = "between" /\ UNCHANGED <<i, last>>
     ELSE pc' = "loop" /\ KeepIndex /\ i' = i + 1
  /\ UNCHANGED <<thrown, known, filter, todo, report, runner, resumes,
                 ended, failed, begun>>

NextPackage ==
  /\ pc = "between"
  /\ pc' = "loop" /\ KeepIndex /\ i' = i + 1
  /\ UNCHANGED <<thrown, known, filter, todo, report, runner, resumes, history>>

\* A runner's IllegalArgumentException, IllegalStateException, ...
RunnerThrows ==
  /\ pc = "run" /\ ~skips
  /\ thrown' = "runner" /\ pc' = "finally" /\ todo' = Packages
  /\ UNCHANGED <<i, last, known, filter, report, runner, resumes, history>>

-----------------------------------------------------------------------------
(* The end of run().                                                       *)

\* Where run(), or the runner, is about to use the device.  A runner that skips
\* its tests uses it only to ask for the version.
UsesDevice ==
  /\ pc \in {"deviceInfo", "collecting", "loop", "run", "between"}
  /\ pc = "run" /\ skips => ~open /\ started = {}

\* A last screenshot, and the prerequisite packages are uninstalled.
LoopEnds ==
  /\ pc = "loop" /\ i > N
  /\ pc' = "finally" /\ todo' = Packages
  /\ UNCHANGED <<i, last, thrown, known, filter, report, runner, resumes, history>>

\* Faulty form of the next definition: only what was still to run is reported.
DeviceLostReportsRest ==
  /\ UsesDevice
  /\ thrown' = "device" /\ pc' = "finally" /\ todo' = i .. N
  /\ UNCHANGED <<i, last, known, filter, report, runner, resumes, history>>

\* DeviceNotAvailableException from any call that uses the device.
DeviceLost ==
  /\ UsesDevice
  /\ thrown' = "device" /\ pc' = "finally" /\ todo' = Packages
  /\ UNCHANGED <<i, last, known, filter, report, runner, resumes, history>>

\* reportUnexecutedTests of the filter of package p, in any order of packages:
\* the remaining tests are started in a run of their own, and never ended.
ReportUnexecutedTests(p) ==
  /\ pc = "finally" /\ p \in todo
  /\ todo' = todo \ {p}
  /\ IF filter[p].remaining = {} THEN UNCHANGED <<pc, result, cur, infoRun>>
     ELSE /\ pc' = "closing"
          /\ TestRunStarted(p)
          /\ result' = [result EXCEPT ![p] =
                          [t \in Tests |-> IF t \in filter[p].remaining
                                           THEN InsertTest(@, t)[t] ELSE @[t]]]
  /\ UNCHANGED <<i, last, thrown, known, filter, perf, runner, resumes, history>>

UnexecutedRunEnded ==
  /\ pc = "closing"
  /\ pc' = "finally"
  /\ Record(PopulateMetrics(result[cur], perf[cur]))
  /\ UNCHANGED <<i, last, thrown, known, filter, todo, perf, cur, infoRun,
                 runner, resumes, history>>

LeaveRun ==
  /\ pc = "finally" /\ todo = {}
  /\ pc' = "exited"
  /\ UNCHANGED <<i, last, thrown, known, filter, todo, report, runner, resumes, history>>

\* isResumable: another device is found and run() is called again.
Resume ==
  /\ pc = "exited" /\ thrown = "device" /\ resumes < MaxResumes
  /\ pc' = "called" /\ resumes' = resumes + 1
  /\ UNCHANGED <<i, last, thrown, known, filter, todo, report, runner, history>>

RunnerStep ==
  \/ RunStarted \/ RunEnded \/ RunnerThrows
  \/ \E t \in Tests : \/ TestStarted(t) \/ TestFailed(t) \/ TestEnded(t)
                      \/ TestAssumptionFailure(t) \/ AssumptionOfUnknown(t)

\* What run() does when the device stays and the runner returns.
Advance ==
  \/ SetUp \/ DeviceInfoStarted \/ EnterLoop \/ ForwardPackageDetails
  \/ RunnerReturns \/ NextPackage \/ LoopEnds
  \/ (\E p \in Packages : ReportUnexecutedTests(p))
  \/ UnexecutedRunEnded \/ LeaveRun

Next == Advance \/ RunnerStep \/ DeviceLost \/ LoseDeviceEarly \/ Resume

Spec == Init /\ [][Next]_vars
-----------------------------------------------------------------------------
(* Properties.                                                             *)

TypeOK ==
  /\ pc \in {"called", "deviceInfo", "collecting", "loop", "run", "between",
             "finally", "closing", "exited"}
  /\ i \in 1 .. N + 1 /\ last \in {1} \cup 1 .. N
  /\ thrown \in {"no", "device", "runner", "unexpectedTest"}
  /\ known \in [Packages -> SUBSET Tests]
  /\ filter \in [Packages -> [known : SUBSET Tests, remaining : SUBSET Tests]]
  /\ todo \subseteq Packages
  /\ result \in [Packages -> [Tests -> Status]]
  /\ perf \in [Packages -> SUBSET PerfTests]
  /\ cur \in 0 .. N /\ infoRun \in BOOLEAN /\ open \in BOOLEAN
  /\ now \in Tests \cup {None} /\ started \subseteq Tests /\ skips \in BOOLEAN
  /\ resumes \in 0 .. MaxResumes
  /\ ended \in [Packages -> SUBSET Tests] /\ failed \in [Packages -> SUBSET Tests]
  /\ begun \in [Packages -> SUBSET Tests] /\ finished \subseteq Packages

\* Whatever ended the call of run(), once it set up its filters the report
\* lists every expected test of every package, and nothing else.
ReportIsComplete ==
  (pc = "exited" /\ \E p \in Packages : filter[p].known # {}) =>
     \A p \in Packages : {t \in Tests : result[p][t] # "absent"} = Expected[p]

\* The report says of each package's test what the device said while that very
\* package was running, over all calls of run(): never executed, passed, or
\* failed at least once.  Only a performance report can hide a failure.
ReportIsTruthful ==
  \A p \in Packages : \A t \in Expected[p] :
    /\ result[p][t] \notin Executed => t \notin ended[p] \cup failed[p]
    /\ result[p][t] = "pass" => t \in (IF t \in PerfTests THEN ended[p]
                                                  ELSE ended[p] \ failed[p])
    /\ result[p][t] = "fail" => t \in failed[p]

\* A resumed invocation skips no package and re-runs at most the last two that
\* had finished.
ResumePoint ==
  pc = "run" => 1 .. i - 1 \subseteq finished /\ finished \subseteq 1 .. i + 1

\* A dEQP case that has begun to run is never started again by a later batch or a
\* resumed call, be it that it ended or that the device was lost under it.  (One
\* that was skipped is: the next device may support its OpenGL ES version.)
NoRerunOfBegun ==
  [][\A p \in Trims : \A t \in begun[p] : ~(pc = "run" /\ i = p /\ now' = t /\ now # t)]_vars

\* ResultFilter: "It will only report test results for expected tests".  Does not
\* hold: testAssumptionFailure is not filtered.
OnlyExpectedTestsReported == thrown # "unexpectedTest"

\* Every expected test of the package is in the report.
Complete(p) == \A t \in Expected[p] : result[p][t] # "absent"

\* The index that is kept lags behind the loop's by no more than one.
LoopInv ==
  /\ 1 .. last - 1 \subseteq finished /\ finished \subseteq 1 .. last + 1
  /\ pc \in {"loop", "run", "between"} => i \in {last, last + 1} /\ 1 .. i - 1 \subseteq finished
  /\ pc \in {"run", "between"} => i <= N
  /\ pc = "between" => i \in finished

\* What is reported during a package is written to that package.
ReporterInv ==
  /\ pc = "run" => cur = i /\ ~infoRun
  /\ pc = "closing" => cur \in Packages /\ ~infoRun

\* A test leaves its package's list only when it has begun, and is in the report.
ListInv ==
  \A p \in Packages :
    /\ known[p] \cup filter[p].known \cup filter[p].remaining \cup ended[p] \cup failed[p]
         \subseteq Expected[p]
    /\ perf[p] \subseteq ended[p]
    /\ known[p] \cap begun[p] = {}
    /\ \A t \in Tests : result[p][t] # "absent" => t \in Expected[p]
    /\ \A t \in Expected[p] : result[p][t] = "absent" => t \in known[p]

\* A filter knows what the runner may run, and what of it is not in the report
\* remains; the report is complete once the filters have spoken.
FilterInv ==
  /\ pc \notin {"called", "exited"} => \A p \in Packages :
       /\ known[p] \subseteq filter[p].known
       /\ \A t \in filter[p].known : result[p][t] = "absent" => t \in filter[p].remaining
  /\ pc = "run" /\ now \in filter[i].known => result[i][now] # "absent"
  /\ pc \in {"finally", "closing"} => \A p \in Packages \ todo : Complete(p)
  /\ pc \in {"called", "exited"} /\ (\E p \in Packages : filter[p].known # {}) =>
       \A p \in Packages : Complete(p)

\* The inductive invariant: with it the kept index, the reporter's current
\* package, the lists that runners shorten and the filters made from them agree
\* at every point of a call, whichever way the calls before it have ended.
IInv == TypeOK /\ LoopInv /\ ReporterInv /\ ListInv /\ FilterInv /\ ReportIsTruthful

Report == INSTANCE SessionReport WITH
  report <- result, closed <- pc \in {"called", "exited"}
\* The reporter's tree implements the abstract report.
KeepsReport == Report!Spec
=============================================================================
