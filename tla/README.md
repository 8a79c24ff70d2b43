# TLA+ models of the CTS test harness

This directory holds a formal model of the parts of this repository that have
state and control of their own: the CTS host harness under
`tools/tradefed-host` (a plug-in of Trade Federation), the two small
libraries it shares with the tests for performance reports, and two tests that
are systems of several threads themselves: the browser benchmark test and the
audio quality suite. The other tests (`tests/`, `hostsidetests/`, `apps/`) make
up most of the repository, but their subject is the Android platform, which is
not here.

Paths below are relative to
`src/tools/tradefed-host/src/com/android/cts/tradefed/` unless they start with
`libs/`, `suite/` or `apps/`.

## 1. Inventory

| Component | State it keeps | Operations | Talks to |
|---|---|---|---|
| **CTS invocation** `testtype/CtsTest.java` | `mTestPackageList`, `mLastTestPackageIndex`, the filter of each package | `run` (set-up, device info, loop over packages, reboot or home screen between them, `finally`), `split`, resume by a second `run` | runners, reporter, device |
| **Result filter** `testtype/ResultFilter.java` | known and remaining tests of one package | `testRunStarted`, `testStarted`, `testFailed`, `testEnded`, `reportUnexecutedTests` | called by runners, calls the reporter |
| **Reporter and results** `result/CtsXmlResultReporter.java`, `TestResults`, `TestPackageResult`, `Test` | current package, status of each test, metrics, report directory | listener calls, `populateMetrics`, `invocationStarted`, `invocationEnded` | repository of results, host store |
| **dEQP runner** `testtype/DeqpTestRunner.java` | cases left, current case, result flag, log buffer | `run`, `executeTests`, one handler per instrumentation status | app on the device, listener |
| **Jar test runner** `testtype/JarHostTest.java` | one thread per test, its exception | `run`, `runTest`, the thread | JUnit, listener |
| **Performance reports** `libs/commonutil`, `libs/deviceutil`, `util/CtsHostStore.java`, `util/HostReportLog.java` | a test's report log; one map for the whole host | `printValue`, `printSummary(WithTarget)`, delivery on device and host, removal from the map | package results |
| **Sharding** `testtype/CtsTest.java` | `mTotalShards`, `mShardAssignment`, the shard's list | `split`, `setupTestPackageList` | nothing: shards share no state |
| **Sessions and derived plans** `result/TestResultRepo.java`, `result/PlanCreator.java` | result directories and report files | list, look up by session id, derive a plan of what was not executed | reporter, `CtsTest`, the user |
| **gtest runners** `testtype/GeeTest*`, `WrappedGTest*` | parser: current result, counts, flags | `run`, `processNewLines`, `done` | a gtest program's output, listener |
| **Browser benchmark test** `suite/cts/deviceTests/browserbench`, `WatchDog`, `CtsTestServer` | the page's suite and step; `mResultsMap`, `mRunIndex`, `mLatch`; the watch-dog's semaphore | `doTest`, `onPost`, `reset`, `stop`, the page's `RunSuites` | a browser's page, by requests |
| **Audio quality suite** `suite/audio_quality`, its client app | a handler per kind of command; the device's threads and audio objects | download, play, record, wait, stop; the device's handlers | host and device, by one socket |
| **JUnit device tests** `JUnitDeviceTest`, `SingleJUnitTestResultParser` | parser state | `run`, `parse` | device output, listener |
| **Other runners** `PrintTestRunner`, `VMHostTest`, `CtsInstrumentationApkTest`, ... | packages installed, services enabled | set-up, run, clean-up | device |
| **Issue reporter** `result/IssueReporter.java` | an executor and the current issue | `testFailed`, `testEnded`, `invocationEnded` | a server |
| **Package repository** `TestPackageRepo`, `TestPackageDef`, ... | the parsed package definitions | parse, look up, filter | `CtsTest` |
| **Console, build, target preparation, device info, log reporter** | none to speak of | commands, paths, single device calls | Trade Federation |

What is hard in this code:

* **The device is lost at any device call.** `run` is then called again on the
  *same* objects, so every field that the first call left behind is input to
  the second: the package index, the list a dEQP runner has shortened, a shard's
  list, the host store's reports.
* **The `finally` block re-opens packages** that already hold verdicts.
* **The reporter has one current package**, set by run names that most runners
  do not use; who files which test where depends on the order of calls.
* **Threads left behind**: a host test that timed out goes on, and reports into
  whatever package is current by then.
* **Output that is cut off or muddled**: a native program's markers are found only at the
  start of a line, and its own output may stand before them.
* **Apps that die**: the dEQP app may stop between any two events, inside one
  too, and is started again until nothing is left.
* **Three clocks on one benchmark**: an hour's latch, a watch-dog's ten minutes and
  a page that answers when it likes, with the results stored by server threads.
* **Replies without numbers**: the audio suite's device names only the kind of
  command it answers, and a stopped operation may still answer.
* **Shared by all devices**: the host's store of reports and the directory of
  results; session ids are indexes into a listing that every reader makes anew.

What makes the components correct: a test's status is what the device said of
it, in its own package; every expected test is in the report; a failure stays a
failure; no test is lost or run twice by a batch loop, a shard or a continued
session; and an invocation ends. Section 3 gives the properties by name.
`PROJECT.json` lists each hazard with its line and the properties about it.

## 2. Modules

```
TestPackageResult      statuses and how listener calls change them
  |-- DeqpTestRunner --refines--> TestRun          DeqpTestRunnerProofs
  |-- CtsTest --------refines--> SessionReport   CtsTestProofs
  |-- JarHostTest      (jar packages, threads)     JarHostTestProofs
  |-- PerformanceReport                            PerformanceReportProofs
  |-- GTest                                        GTestProofs
  `-- Sessions         (many invocations, one result directory)
                                                   InvocationsProofs
Sharding                                           InvocationsProofs
BrowserBench --refines--> SuiteReports             BrowserBenchProofs
RemoteAudio                                        RemoteAudioProofs
MC<Module>             instances of <Module> for TLC
```

`TestRun` (what a runner owes its listener), `SessionReport` (what a report
promises its reader) and `SuiteReports` (what a benchmark page owes its test) are the
abstract specifications. An operator commented as
a *faulty form* is not part of any specification: it is a plausible bug of the
operator after it, and replacing one by the other makes the property paired with
it in `PROJECT.json` fail.

### TestPackageResult
A package's tree of suites, cases and tests is a function from tests to `absent`,
`notExecuted`, `pass`, `fail`. `InsertTest`, `ReportTestFailure` and
`ReportTestEnded` are the methods of `TestPackageResult.java` of those names.
`timeout` of `CtsTestStatus` is set by no code in the harness.

### DeqpTestRunner
`mTests`, `mCurrentTestId`, `mGotTestResult` and `mCurrentTestLog` are the fields
of that name. `pc` is the place in `run()`. `ExecuteTests` starts a session for a
batch; `BeginSession` ... `TerminateTestCase` are the handlers of one
instrumentation status each. `AppExit`, `ExitInsidePath` and `ExitInsideStatus` are
the death of the app between two statuses, inside the path of a test case and
inside another status, where the parser throws: at a line that is cut before its `=`, a case
without a path or a result without a code. `DeviceLost`/`RunAgain` are the loss of the device and the resumed call
on the same object. `good`, `bad`, `cutOff` record what the device did; the
report is judged against them.

Abstractions: the case list's trie is the set of its cases; a status is printed
and handled in one step (the connection keeps the order); an identifier cut off
in the middle is assumed to be the name of no other case.

### CtsTest
`pc` is the place in `run()`: `called`, `deviceInfo`, `collecting`, `loop`, `run`,
`between` two packages, `finally`, `closing` an unexecuted run, `exited`. `last` is
`mLastTestPackageIndex`; `known[p]` is the collection `ITestPackageDef.getTests()`
returns, which the dEQP runner shares and shortens (`Trim`): a case leaves it as it starts, so that
the filter a resumed call makes from it does not know a case that was begun and cut off.
On a device without the OpenGL ES version the cases need, the runner starts and ends them all and removes
none (`skips`, chosen anew for each call and package). `begun` records what ran. `filter[p]` is the
`ResultFilter`; `result`, `perf`, `cur` and `infoRun` are the reporter's. The runner
of a package is any sequence of listener calls its contract allows, tests the
package does not list included. Whether a package's run name equals its id
(`RunsAsId`) is a constant, since it decides whether the filter forwards
`testRunStarted`. Reboots and the home screen are places where the device may be
lost. Listener calls are atomic.

### JarHostTest
Main thread and one thread per test. `Joined`, `TimedOut` are the two ends of
`RunUtil.runTimed`; `AddTimeoutError`, `EndTimedOutTest` follow. `mException` is not
volatile, so after a timeout the main thread may or may not see it (`TestDone`).
A test thread is assumed to have begun before its timeout (minutes) expires.
A test may deliver a performance report (`Deliver`), in a thread left behind too; `store` holds the
reports of `CtsHostStore` by ABI and test, `metrics` the tests that `mTestMetrics` has, which are those that have ended. `PopulateMetrics`
passes those of them that have a report, at the end of a package's run (`PackageDone`), of
the empty run before it (`BeginPackage`) and of the run of unexecuted tests.
The last package's filters are reported by `ReportUnexecutedTests`, as in `CtsTest`.

### PerformanceReport
Several invocations run at once, each on a `device` of its own and each its packages in turn. `phase` is
the place in `CtsTest.run` and in the test of the package `at`; `last` is `mLastTestPackageIndex`, `remaining`
stands for the filters. A package has one test. `serial` is `mDeviceSerial` of the reporter, set by `invocationStarted`
(`Begin`) and never again: an invocation that lost its device is resumed on any free one
(`Resume`), of which the reporter is not told. `log` is the test's `ReportLog`, `store` the `CtsHostStore` map, `metrics` the
entry of `mTestMetrics`, `shown` the report in the test's result. A report's numbers are
abstracted to whether it has messages, whether its target was missed, and who made it.
`PopulateMetrics` is part of every end of a test run: of the empty one that names the package
(`ForwardPackageDetails`), of the test's own (`RunEnded`) and of that of an unexecuted test.
A host test that times out may deliver later (`leftBehind`, `LateDeliver`).

A report is found under the serial the reporter has, and stored under that of the device the test ran on. The history
`shared` holds the devices for which these may belong to different invocations or executions: one that an invocation was
resumed on, other than the one it began on; one that an invocation began on while another that began there was not
over; and one whose test timed out and delivered late. The properties are about invocations that began on a device that is not among these.

### Sharding
`total` is `mTotalShards`; a shard's list is given by the device it was computed on
(`source`) and `Place`, the loop of `setupTestPackageList`. `next` counts the packages
gone through; after a loss the shard goes on from the index it kept. Names that `Sessions`
has too begin with `Shard` here, so that one module can hold the proofs about both.

### Sessions
`made` counts directories (names sort by time), `written` is the state of the report
file of each (`none`, `torn` while it is being written or if it never was finished,
`mixed` if two invocations wrote it, `whole`), `content` its statuses. `ResultDirs` is
`TestResultRepo`'s listing and `Index` the place of a directory in it, which is its id;
`InvocationStarted` and `DerivePlan` look the id up separately. `HostKilled` ends the host process at any point. One package stands for
all of them. `WriteReport` may or may not garble a file that overlapping writers share.

### GTest
Both runners of gtest programs: `kind` is `GeeTest` ("native") or `WrappedGTest`
("wrapped"), `pc` the place in `run()`, `prog`, `left`, `now`, `bad`, `muddled` the program.
The parser's variables are the fields of `GeeTestResultParser`; `mStackTrace` keeps whose
output is in it. `ProcessRunStarted` ... `AppendTestOutput` are the methods called for one
kind of line each, `Parse` their choice, `PrintHeader` ... `PrintFooter` the callbacks of
the program's listener (`GLTestHelper.cpp`), which print the line. `Done` is what `flush`
calls. `verdict`, `failed`, `unheard` record what the program did.

Abstractions: a line is printed and parsed in one step. When the output ends, a line that
was being printed may be handed over in part, with the marker and a name that is no
test's; a header in part changes nothing. Only a shell shows the program's own
output, so only there is a line `muddled`: one left without an end, which the next marker then
stands on. The names of failed tests that a gtest program lists after its footer are not
modelled: the run is no longer in progress and they are ignored. All tests of the program are
known to the package, and there is at least one. The failure that `handleTestRunFailed` reports under a name without the prefix is
known to no filter, so it changes nothing here.

### BrowserBench
`test` is the place of the test's thread in `doTest` and `tearDown`; `mRunIndex`, `latch` (the
count of `mLatch`), `mSemaphore` (`NoSemaphore` is null) and `mStopRequested` are the fields.
`entries` is the order of `mResultsMap`, `scores` its arrays. The page is `js` (what its one
thread does), `suite`, `bench` and `cont`, the continuation that `RunStep` keeps (`base.js`):
`BeginSuite`, `ContinueSetup`, `RunNextBenchmark`, `RunNextTearDown` are its steps, each of
which may throw (`NotifyError`) or end the suite (`NotifyResult`), and `PageStops` is a step
that never returns. A request is a task of a server thread: `StoreScore`, `CountDown` and the two
halves of `WatchDog.reset` are separate steps of it. `IgnorePost` is a score that is no number,
which the pattern in `onPost` does not match. `Launch`, `RoundDone`, `AwaitTimesOut`,
`PrintResults` are `doTest`; `RequestStop`, `WakeWatchDog`, `Join` are `WatchDog.stop`, and
`Shutdown` is the server's. `CheckStop`, `WakeUp`, `Expire` and `Panic` are `WatchDog.run`: the ten minutes count
from the last permit it took, and so may expire wherever the other threads are, between a score and the `reset`
after it or between the two halves of `stop`; the assertion that fails then does not look at
`mStopRequested`.

Abstractions: a score is the round whose page measured it; the scores of the suites that
had one make a final score that is a number. Requests other than the scores are not modelled.
The device shows one page, and the intent's page replaces it.

### RemoteAudio
Host: `call` is where the test case's thread is in `RemoteAudio.cpp`, `handler` the fields
`mActive`, `mNotifyOnReply`, `mResult`, `mParam` and the semaphore of each `CommandHandler`,
`message` the looper's queue, `listening` whether it still polls the socket. Device: `server` is
`ProtocolServer`'s thread in `AudioProtocol.java`, `thread` the `LoopThread` of each operation,
`threadOf` the fields `mPlaybackThread` and `mRecordThread`, `unit` `mPlayback` and `mRecord`,
`released` the objects behind them. `toDevice` and `toHost` are the two directions of the
socket. `HandleMessage` and `HandlePacket` are the looper's; `HandleRequest`, `HandleStart`,
`HandleStop`, `QuitLoop` the device's commands; `PlayerStarts` ... `RecorderEnds` the loop threads.
`Crash` is an exception no one catches: it ends the client application and the connection.

Abstractions: operations have numbers in the model, which the protocol has not; the data of a
recording is its number. The waiting calls of a task (`TaskInput`, `TaskOutput`) follow
their order: start, wait or not, stop. Sound generated and processed on the host is not
modelled.

## 3. Runs

TLC checks each of these in about two minutes at most; deadlock is checked for
`DeqpTestRunner`, whose `Finished` names the legitimate ends; the other systems stop
when all work is done.

| Run | Checks | Instance | Result |
|---|---|---|---|
| `deqp` | `PassedOnDevice`, `FailureKept`, `NothingLost`, `LogsBelong`, `IInv`, `KeepsContract` (refines `TestRun`), `RunEnds` | 3 cases, batches of 2, two calls of `run` | hold |
| `cts` | `IInv`, `ReportIsComplete`, `ReportIsTruthful`, `ResumePoint`, `NoRerunOfBegun`, `KeepsReport` (refines `SessionReport`) | 3 packages, two with the same test, two run by dEQP runners on devices with and without the OpenGL ES version, one performance test, 2 resumes | hold |
| `jar` | `OwnVerdict`, `TimeoutFails`, `DeviceLossStops`, `RunEnds` | a package of 3 tests (one not in the jar) and one of 1 test, which the first has too, for another ABI; reports delivered | hold |
| `gtest` | `NothingHidden`, `FailedForCause`, `TraceIsOwn`, `PassedOnDevice` | 3 tests, both runners, 2 calls of `run` | hold |
| `gtest_crash` | `CrashedTestFails` | 2 tests, shell, one call | **violated** |
| `perf` | `ReportOfItsTest`, `ReportArrives` | two invocations on two devices: of a device test and a host test, and of the same host test; one device lost or one test timed out | hold |
| `sharding` | `NoneTwice`, `NoneMissed` | 1 to 4 shards, 5 packages, two like devices | hold |
| `sessions` | `RunsOnlyMissing`, `WritesToWanted`, `VerdictsKept`, `NoneLeftOver` | one device, 2 sessions, 3 tests, one a known failure | hold |
| `sessions_shift` | `WritesToWanted` | two devices, 2 sessions | **violated** |
| `octane` | `IInv`, `ResultsComplete`, `ExpiresBeforeStop`, `KeepsReports` (refines `SuiteReports`), `TestEnds` | suites of 1 and 2 benchmarks, 2 rounds | hold |
| `audio` | `IInv`, `RecordingIsOwn`, `TimesOutOnlyDeaf`, `PostsAwaited`, `OneAtATime`, `CallsReturn` | 4 operations, replies in time | hold |
| `audio_stop` | `PlaybackIsOwn` | 3 operations, replies in time | **violated** |

(`IInv` of `deqp`, `cts`, `octane` and `audio` contain the module's `TypeOK`; those of `Sharding` and `Sessions` are part of the
invariants proved.)

**Why the bounds are enough.** Three cases in batches of two give a full batch, a
partial one, and a case behind the one that crashed. Two calls of `run` give a
resumed call that meets everything a first one can leave; two resumes in `cts` give a
resumed call that follows a resumed call. Packages that share a test show results filed
under the wrong package; three packages are needed for an index that goes back
(a device lost between the second and third); a dEQP runner before and after a general one
shows filters made from a shortened list. A shared test, a test of the package that was left
and one of the package that is running are what a late call of a thread left behind can be
about. Two invocations on two devices, one of which is lost once, give a test that runs again on the same and on
another device, an invocation resumed where another began, and one begun where another was lost; a
device test and a host test are the two ways of a report. The devices are interchangeable (`SYMMETRY`). Three gtest tests give an unheard end before, between and after heard ones, and a
second call of `run` starts all of them again over the first call's results. Five packages exceed four
shards, so that shards of one and of two packages meet, and the cap of the stride
by the number of packages is proved in general. Two sessions let an id shift. Two
benchmark suites, one of two benchmarks, give a suite that fails at its first step, between
two benchmarks and as the last; two rounds give an entry of an earlier round, and the
proofs cover any number of both. Four audio operations are a download, without which nothing is
played, and three of any kind: one whose reply is left over, one that could take it, and one
behind it.

**Fairness.** `deqp`, `jar`, `octane` and `audio`, which check liveness, use it.
* `DeqpTestRunner!FairSpec`: the host thread keeps running (`WF` of `RunnerStep`,
  `RunAgain`); an app that was started goes on or ends, because the shell command has a
  time limit (`WF` of `AppStep \/ AppFault`). `SF` of `BeginSession` and
  `BeginSomeTestCase` is an assumption on the *device*: an app that gets the chance
  again and again does start a case in the end. Nothing in the code bounds the
  number of sessions, so without it the loop does not end. `RunEnds` names the one case
  left: the install failed, which is only logged, and every session ends at once.
* `JarHostTest!FairSpec`: the main thread and the start of threads are the virtual
  machine's to schedule. No fairness on a test's body: it may hang for ever. `RunEnds`
  is then what the timeout is for.
* `BrowserBench!FairSpec`: the test's, the watch-dog's and the server's threads are the virtual
  machine's to schedule, and an hour that is awaited passes. No fairness on the page. There is none on
  `Expire` either: the watch-dog's ten minutes may pass at any moment it waits without a permit, or never;
  and `shutdown` is assumed to outwait the tasks that run (it allows a minute).
* `RemoteAudio!FairSpec`: what a call has begun goes on, the looper is never blocked for long,
  the device's threads are scheduled. Nothing obliges the test case to make a call.
  With `LateReplies = FALSE` a wait does not time out while its reply is still to come, and the
  looper sends a command within the two seconds its caller waits.

### What the violated runs show
Each is a disagreement between the code and a comment in the repository.

1. `sessions_shift` — a session that was begun earlier and ends while another is being
   continued shifts the ids; the reporter then reads and overwrites another session.
2. `gtest_crash` — `handleTestRunFailed` ("Report that the last known test failed") names the
   test without the package prefix it was started with. The filter knows no such test and
   drops the failure and the end: the test in which the program died stays `notExecuted`.
3. `audio_stop` — a playback is stopped just as it completes. Its reply is on the way and clears
   `mActive` of the playback started next, whose `waitForPlaybackCompletion` then returns true
   at once ("return true when successfully finished", `AudioHardware.h`).

### Limits of the properties that hold
* `NoneMissed` and `NoneTwice` hold for shards on devices with the same ABIs. With
  `ListOn <- Unlike` in `MCSharding.cfg` TLC shows a package that no shard runs: each shard
  takes every n-th package of its own device's list.
* The properties of `Sessions` hold while a session is continued by one invocation at a time and,
  until its id was looked up, no invocation begun before that session opens its report: one device ensures both.
  With two, `sessions_shift` shows how the ids shift.
* `RunsOnlyMissing` and `VerdictsKept` hold without `--run-known-failures`. With `ContinueKnown = {TRUE}` in
  `MCSessions.cfg` TLC shows a known failure that was executed and runs again: the plan is
  derived from a repository without known failures, and so does not exclude it.
* `OnlyExpectedTestsReported` (`CtsTest`) does not hold: `ResultFilter` ("It will only report
  test results for expected tests", line 35) does not override `testAssumptionFailure`. An
  assumption failure of a test the package does not list reaches the reporter, whose `findTest`
  gives null, and the exception ends the invocation.
* `NoConcurrentSameTest` (`JarHostTest`, with `OneTestAbis` for `TestsOf`) does not hold:
  `CtsHostStore` says no test runs twice at once for one key; a test left behind by its timeout
  runs on while it is started for the next ABI.
* `TimeoutStaysFailed` (`JarHostTest`) does not hold. `JarHostTest.java:141`
  says "Tests that take longer than this amount will be failed"; a test that timed out was ended, so that it has metrics,
  and if its thread delivered a report before or after the timeout, `populateMetrics` (`TestPackageResult.java:262`) sets it to pass
  at the end of the package's run. `TimeoutFails`, which holds, makes this one concession.
* `HostReportArrives` (`PerformanceReport`) does not hold. `TestPackageResult.java:253` says "host test should be
  checked in CtsHostStore"; `populateMetrics` asks the store under the serial that the reporter got in
  `invocationStarted` (`CtsXmlResultReporter.java:132`), while the test stores its report under the serial of its device
  (`HostReportLog.java:43`). After a resume on another device, which `CtsTest.java:496` expects, the
  report is not found. It stays in the store, where an invocation that begins on that device may take it for
  its own. `ReportOfItsTest` and `ReportArrives` therefore leave out what began on a device in `shared`, and
  `ReportArrives` host tests that run on another device than the invocation began on.
* `ReportOfItsTest` also leaves out packages of one invocation that have the same test for the same ABI (`NoTwin`): if the device
  is lost after the second has delivered, the resumed call may begin with the first, and the empty run that names it
  takes the report.
* `MissedTargetFails` (`PerformanceReport`) does not hold: `printSummaryWithTarget` says a missed
  target fails the test; the report is delivered after that failure and `populateMetrics`
  sets the status to pass.
* `LastEntryIsFinal` (`BrowserBench`) does not hold: a suite that fails in the first round and
  succeeds in the second has the map's last entry, which is printed as the final score.
  Each of these six can be seen by naming it as an INVARIANT (`HostReportArrives`: as a PROPERTY) in its module's configuration.
* The watch-dog may panic in a test whose scores have all come: if its time expires before `stop` has released the permit,
  it asserts, whatever was requested since (`ExpiresBeforeStop` says that later it cannot).
* `PlaybackIsOwn` is violated even with replies in time. With `LateReplies = TRUE` in
  `MCRemoteAudio.cfg` TLC also shows `RecordingIsOwn`, `OneAtATime`, `PostsAwaited` and
  `TimesOutOnlyDeaf` violated: a wait that ended by its timeout has no way to disown the reply.
* The audio properties assume that tasks of one kind follow each other ("only one command at a
  time", `RemoteAudio.h:37`). An error reply makes a wait return true, for it does not look at
  `mResult`; `RecordingIsOwn` therefore asks for a reply, not for a success.
* `NothingHidden` speaks of gtest programs whose header was heard. One that dies before it
  expects no tests, and `done` reports nothing at all.

## 4. Proofs

TLAPS checks these for every value of the constants that the named assumptions allow.

**DeqpTestRunnerProofs** (assumption `DeqpAssumption`: finitely many tests, `NoTest` and
`Garbled` no tests). `PassedOnDevice` is not inductive: a result flag that is set proves
nothing unless it belongs to the current case. `IInv` adds `ResultIsCurrent` (the flag
speaks of the current case), `NoneTwice` (what a session has still to begin is in `mTests`,
and what was started is not), `Accounted` (the current case is the one test started and not
ended; every other test is left, ended or cut off) and `OnlyStarted`. `Invariance` proves
`Spec => []IInv` with a lemma per action; `OnlyEarnedPasses`, `FailuresKept` and
`NothingIsLost` are its consequences; `LogsAreOwn` needs besides that the buffer holds
nothing but the current case's data (`LogIsCurrent`), which a case that ended may leave in it,
but not the next that begins. `Refines` proves that the runner implements
`TestRun`: steps that leave every test's phase alone are stutters, the others map to
`Start`, `Finish`, `Skip`, `GiveUp` or `Cut`.

**InvocationsProofs** is about the two ways in which the tests of a plan are divided, over sessions and over shards.

*Sessions* (assumption `Assumption`). Every theorem is about behaviours with `[]ContinuedApart`: no session is
continued by two invocations at once (`NotShared`), and while an id is still to be looked up, each new invocation that has not
opened its report was begun after the session the id names (`NoneShifts`). New invocations, and those that continue other
sessions, may go on beside it on any number of devices. Without `NoneShifts` the theorems are false: the counterexample of
`sessions_shift` violates nothing else. With one device both always hold (`OneDevice`). `OnlyMissingTestsRun` and
`VerdictsAreKept` also need `KnownLeftOut` (see section 3). What a continued invocation runs and writes was
decided by an id that is looked up twice, in listings made anew each time, and by a report that an earlier invocation may
have left in any state. `IndexUnique`, `IdNames` and `LooksUp` say what a look-up yields. `SessionsInv` says: while it is still to be looked up, the id names the session the user chose (`LookUpInv`),
whose last whole report shows what was missing (`MissingInv`); the invocation writes into that session, or into a
directory that no report was ever finished in (`DirInv`), and no two write into one (`OwnDirs`), so that no report is ever
mixed (`RepoInv`); its results agree with the last whole report wherever that has a verdict (`ResultInv`); and what
was missing is to run or has a verdict (`LeftInv`), and nothing else is (`OnlyMissingInv`). `OneSteps` is the lemma every
step of one invocation cites, and `OthersKeep` what the others need of it. `ReportsGoWhereWanted` and `OnlyMissingTestsRun` follow from
`SessionsInvariance`, and so do the action properties `VerdictsAreKept` and `NothingIsLeftOver`, in which `WritesResults` says what
the one step that makes a report whole leaves in it. They hold for any number of sessions, continued and cut off anywhere
by the end of the host. TLC found `SessionsInv` to hold on the instance of `sessions`, and on two devices with
steps that leave `ContinuedApart` left out.

*Shards* (assumption `ShardAssumption`, and for the two theorems `DevicesAlike`: every
device gives the same list, without which they are false; see section 3). The
arithmetic is in the lemmas `Multiples`, `Apart` and `Covered`: the places
`s + j * step` of different shards below the stride never meet and cover the list. `ShardsInv`
says that what a shard ran are its places, that it ran each one it has gone through, and
that a done shard has none left. `ShardsAreDisjoint` and `ShardsCover` follow, for any
list and any number of shards, shards lost and resumed at any time included.

**BrowserBenchProofs** (assumption `BenchAssumption`: each suite has a benchmark, there is a
round). `ResultsComplete` is about scores that other threads store under `mRunIndex`, so it
needs that the index is still that of the page that posted them. `IInv` says: a page that
runs has no request open, reports its suites in order and the final score last (`PageInv`);
a task handles its page's last report (`TaskInv`); a round is left only after its page's final
score was stored and counted (`RoundInv`); what was reported and is not about to be stored is in
the results (`ScoresInv`); `stop` leaves a permit for the thread it joins, if that waits (`DogInv`). `Current`
draws the consequence: a request that is posted or counted comes from the page the test waits
for. There is a lemma per action or group of actions; `ResultsAreComplete` follows
from `Invariance`, and from its `DogInv` the action property `StopOutrunsExpiry`: once the permit is released, the watch-dog
never again waits without one, though it may have taken others that late resets released. `ReportsAreKept` is the refinement: the page's steps
map to `ReportSuite`, `ReportFinal` or a stutter, the load of the next round's page to `Reload`,
which is allowed because the round before was left only after its final score.

**GTestProofs** (assumption `Assumption`: finitely many tests, at least one, `NoTest` and `Unknown`
two names that are no tests). Whether a run is reported as whole is decided by a count, and what is
reported for a test by the parser's current name; neither says whose lines were heard. `IInv`
ties them to the program: the test in progress and the output collected for it are those of the
running test or of tests whose end was not heard (`OwnerInv`); a run with a footer has no test
left (`ProgramInv`); and no more tests were counted than have ended, and if as many, then each
of them was heard under its own name and reported right (`CountInv`). So a marker that was hidden leaves the count
short for the rest of the run, which is what `NothingIsHidden` needs: the run is
reported as failed. `FailuresHaveACause` and `TracesAreOwn` come from `OwnerInv`; `PassesAreEarned` from the lemma
`PassedStep`: only a whole end marker with the current name passes a test. They hold for either runner, any
tests and any number of calls of `run()`.

**CtsTestProofs** (assumption `Assumption`). `ReportIsComplete` speaks of the state in which `run()`
has returned; whether it holds then was decided long before, perhaps in an earlier call: by the list a package's
filter was made from, which a dEQP runner shortens, and by what the index that was kept makes
the new call skip. `IInv` says how these agree at every place of every call: the kept index lags behind
the loop by at most one, and the packages before it are finished (`LoopInv`); while a package runs it
is the reporter's current package (`ReporterInv`); a test is missing from a package's list only if it is in the report,
and is in the list of a dEQP runner only if it has not begun to run (`ListInv`); a filter knows what is in
the list, and what of it is not yet in the report remains in it, so that the `finally` block reports it (`FilterInv`).
`ReportIsTruthful` is a part of it: a call that re-opens a package must not touch its verdicts. There is a lemma per
action; `ReportsAreComplete`, `ReportsAreTruthful`, `ResumesWhereItStopped` and `BegunAreNotRerun` follow, for any
packages, any number of resumes and any contents of the lists. `Refines` proves that the reporter
implements `SessionReport`: the listener calls map to `Insert`, `Pass`, `Fail` and `Overrule`, the return from `run()` to
`Close`, which needs completeness, the next call to `Open`, and everything else to a stutter.

**JarHostTestProofs** (assumption `Assumption`: at least one package). A thread that timed out goes on and
calls the filter of its own package, but the reporter's current one. `IInv` orders the threads: one that was not given up
is the one the main thread waits for (`CurrentInv`), those of later tests do not exist (`PlaceInv`), and a
package's results hold its own tests only, those that were begun among them (`OwnTests`). So a late call finds a test in
the current package only if both packages have it, which is all `OwnVerdict` concedes. `populateMetrics` may give a verdict too, but only to a test that has one, for only
tests that ended have metrics, and only for a report that a thread delivered (`ReportsInv`): `TimeoutsFail` says that a test
that timed out is failed for good unless such a report was delivered for it. `ResultMoves`
is the lemma every step cites: what it may do to the results without disturbing these. `LossesStop`
proves `DeviceLossStops` from `LossInv`: a thread whose test ended with the device lost is the one awaited, until the
main thread has seen it.

**PerformanceReportProofs** (assumption `Assumption`: the packages of each invocation are a sequence, `None` is no device). The key of
the store names a serial, an ABI and a test, but not the invocation, the package or the execution. `IInv` says why that is
enough under a serial that is not in `shared`: an invocation runs on the device it began on or on a shared one, no two have a
device at once, and the serial that two unfinished ones kept is of a shared one (`DeviceInv`); every
entry under an unshared serial is of a host test of the invocation that began there whose run is still to end, in this
call or the one that resumes it (`ToRun`), and there is one for each key (`StoreInv`), since the end of the run removes it; only
device tests send metrics, which stay with their package (`MetricsInv`); and what an execution has delivered is in the one place
that `populateMetrics` looks at first (`DeliveredInv`). The index that is kept never runs ahead of the loop (`LoopInv`), so that a package
with an entry is gone through again. `Found` says what `populateMetrics` may find, `PopulateStep` what each of its
three callers leaves; `StorePut` is the same for the two deliveries to the store, `LoopStep`, `MoveStep` and `BodyStep` for the steps that
leave it alone. `ReportsAreTheirTests` (which needs `NoTwin`) and the action property `ReportsArrive` follow, for any number of
invocations, devices, packages and losses.

**RemoteAudioProofs** (assumption `AudioAssumption`, and for every theorem `~LateReplies`: a wait does not time
out while its reply is on the way; without it they are false, see section 3). Nothing on the connection says for which
operation a reply is, so that it is taken for the right one rests on both ends and what is between them. `IInv`
says, for the host: a handler is set for the last operation of its kind (`CallInv`), the looper holds no command but that
of the blocked call (`MessageInv`), and a handler that is to notify is the one the blocked call waits for, or no reply
will reach it any more (`PostInv`). For the connection: the commands of a kind are in the order of their operations, and
those of an operation that was begun come before any later one (`QueueInv`); an awaited reply has come, or the device
has what it will reply to (`DueInv`). For the device: of each kind only the thread its fields name is active, and what the host
has given up has a stop coming, or is over (`ThreadInv`), and its tracks (`UnitInv`). A reply is for the operation the host waits for
(`ReplyInv`, and `RequestInv` for the commands without a thread), with one exception: a playback that completes as it is stopped.
Its reply may reach the next playback, which is why `PlaybackIsOwn` fails; `Doomed` says that the stop
behind it finds a released track, so that the client crashes before it plays anything else.
`DeviceSteps` covers the device, with a lemma per action as for the host; `CallStep`, `DeviceStep`, `ThreadMoves` and `DeviceStands`
are what those share. `PostsAreAwaited`, `RecordingsAreOwn`, `WaitsAreAnswered` and `DevicePlaysOne` follow from
`Invariance`, for any number of operations, with reads that fail, playbacks stopped and crashes at any time.

**Only model-checked:** liveness (`RunEnds`, twice, `TestEnds`, `CallsReturn`), which the prover has no rules for.
Every other property of a passing run is a theorem.

## 5. Not modelled

* The tests under `tests/`, `hostsidetests/`, the CTS Verifier app, and the build tools: other
  programs, see section 1.
* The benchmarks themselves (`mandreel.js`, `pdfjs.js`, `regexp.js` and the other vendored
  programs of Octane): to the test each is a step that succeeds, throws or never returns.
* Of the audio suite: playing and recording on the host (`AudioLocal`), signal processing, the
  test cases' XML and their interpreter, the set-up and the release of the connection. They
  are sequential or ask for the sound itself.
* `startPlayback` returns with `mStateLock` held when the data's id is unknown; a task looks the
  id up before it calls, so no run gets there.
* `IssueReporter` and the parser of single JUnit tests: an executor whose result nothing
  waits for longer than a minute, and a parser like that of `GTest` on a line per test.
* The XML of reports, plans and packages, class filters, and logging: sequential
  conversions no property here is about. One loss they cause is in the hazard list:
  a report read back has no performance summaries.
* Bug report, screenshot and logcat listeners; prerequisite packages; set-up of a device by
  target preparers and the runners' clean-up: single device calls whose effect nothing else in
  the models reads.
* Unsynchronised access to Java collections by threads left behind: listener calls are atomic here. A late `testEnded` that puts
  into `mTestMetrics` while `populateMetrics` goes through it may end the run with a
  `ConcurrentModificationException`.
* What the end of a test run is after a device loss in JUnit or in an instrumentation: the run is taken not to
  end, so that the loss is seen by `CtsTest` alone.
* The filter of a resumed call before `DeqpTestRunner`'s listener: `mCurrentTestId` of the call that lost the device is not in it, so
  that its failure and its end are dropped. `DeqpTestRunner` models the runner's own calls; the test is in the report of the first
  call as not executed (`CtsTest`).
* A device lost while `WrappedGTest` uninstalls its program after it has run, and a finished gtest runner that runs again.
* Late replies of the audio client: no property covers a reply that comes after its wait timed out (see section 3).
* Which of several errors a failed host test shows as its cause. A thread that was
  interrupted may add an error of its own after the `TestTimeoutException`, and the last
  one is kept.
* Continuation lines of an instrumentation status that arrive in another chunk than its first
  line (`WrappedGTestResultParser` drops them): they are text of a failure's message.
* The components in section 6.

## 6. Plan

Done, in this order: `TestPackageResult`, `TestRun`, `DeqpTestRunner` and its proofs,
`SessionReport`, `CtsTest` and its proofs, `JarHostTest` and `PerformanceReport` and their proofs, `Sharding`,
`Sessions` and the proofs of both, `GTest` and its proofs, `BrowserBench` with `SuiteReports` and its proofs, `RemoteAudio` and its proofs.

Next, models:
1. `JUnitDeviceTest` with `SingleJUnitTestResultParser`: a test whose output has no end marker
   is started and never ended (`JUnitDeviceTest.java:119`).
2. `IssueReporter`: the invocation thread and the executor; what is uploaded when, and
   shut-down after a minute, whether or not the issues were sent (`IssueReporter.java:162`).
3. Device set-up around a run (`PrintTestRunner`, `VMHostTest`): what is left on the
   device when a step fails.
4. `TestFilter`, `TestPlan` and `TestPackageDef.createTest` as operators against a
   reference definition, and then in `Sessions` with two packages.
5. A composition of `CtsTest` with `DeqpTestRunner` in the place of its general runner.

Next, theorems: for `Sharding`, devices with
lists of their own: a package that is on every list at the same place, below a stride that is the same for all, is still run by one shard.
