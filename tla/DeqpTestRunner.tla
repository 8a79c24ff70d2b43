-------------------------- MODULE DeqpTestRunner --------------------------
(***************************************************************************)
(* testtype/DeqpTestRunner.java: runs a list of dEQP test cases in as many *)
(* instrumentation sessions as it takes.  Each session is given a batch of *)
(* the cases that are left (the case list file); the app on the device     *)
(* runs them and prints one instrumentation status per event, which        *)
(* InstrumentationParser hands to handleStatus.  The app may die at any    *)
(* point; the device may be lost at any point, after which CtsTest may     *)
(* call run() again on the SAME runner.                                    *)
(*                                                                         *)
(* The app (external to the repository) prints a status and the host       *)
(* handles it in one step: the connection keeps the order, and only what   *)
(* was printed before the app died arrives.                                *)
(***************************************************************************)
EXTENDS Naturals, FiniteSets, TestPackageResult

CONSTANTS
  Tests,              \* the cases the package asks for
  BatchLimit,         \* TESTCASE_BATCH_LIMIT
  MaxRuns,            \* bound: calls of run() on this runner
  CollectLogs,        \* mLogData
  NoTest,             \* Java's null
  Garbled             \* an identifier cut off in the middle, no known test

ASSUME DeqpAssumption ==
  /\ IsFiniteSet(Tests)
  /\ BatchLimit \in Nat
  /\ MaxRuns \in Nat \ {0}
  /\ CollectLogs \in BOOLEAN
  /\ NoTest \notin Tests
  /\ Garbled \notin Tests
  /\ NoTest # Garbled

VARIABLES
  pc,                 \* where run() is
  mTests,             \* the cases left to run
  mCurrentTestId,
  mGotTestResult,
  mCurrentTestLog,    \* the cases whose log data is in the buffer
  app,                \* what the instrumentation on the device is doing
  batch,              \* cases of this session it has not begun, or left to skip
  installed,          \* the on-device package is there
  runs                \* calls of run() so far

\* What the listener has been told.  open, started and ended are history.
VARIABLES
  result,             \* the package's results (TestPackageResult)
  open,               \* the known test started last and not ended
  started, ended,
  logs                \* [test -> whose data is in the logs saved under its name]

\* What the app really did, to judge the report by.
VARIABLES
  good, bad,          \* cases whose result code was a passing / failing one;
                      \* good also holds those passed because not supported
  cutOff              \* cases running when the device was lost

runnerVars == <<mTests, mCurrentTestId, mGotTestResult, mCurrentTestLog>>
deviceVars == <<app, batch, installed>>
listenVars == <<result, open, started, ended, logs>>
truthVars  == <<good, bad, cutOff>>
vars == <<pc, runs, runnerVars, deviceVars, listenVars, truthVars>>

AppStates == {"down", "launched", "session", "case", "closed"}
Terminal  == {"done", "aborted", "threw"}
Ids       == Tests \cup {NoTest, Garbled}

TypeOK ==
  /\ pc \in {"start", "loop", "exec", "skip"} \cup Terminal
  /\ mTests \in SUBSET Tests
  /\ mCurrentTestId \in Ids
  /\ mGotTestResult \in BOOLEAN
  /\ mCurrentTestLog \in SUBSET Tests
  /\ app \in AppStates
  /\ batch \in SUBSET Tests
  /\ installed \in BOOLEAN
  /\ runs \in 1..MaxRuns
  /\ result \in [Tests -> Status]
  /\ open \in Tests \cup {NoTest}
  /\ started \in SUBSET Tests /\ ended \in SUBSET Tests
  /\ logs \in [Tests -> SUBSET Tests]
  /\ good \in SUBSET Tests /\ bad \in SUBSET Tests /\ cutOff \in SUBSET Tests

Init ==
  /\ pc = "start" /\ runs = 1
  /\ mTests = Tests
  /\ mCurrentTestId = NoTest /\ mGotTestResult = FALSE /\ mCurrentTestLog = {}
  /\ app = "down" /\ batch = {} /\ installed \in BOOLEAN
  /\ result = NewResult(Tests) /\ open = NoTest
  /\ started = {} /\ ended = {} /\ logs = [t \in Tests |-> {}]
  /\ good = {} /\ bad = {} /\ cutOff = {}

-----------------------------------------------------------------------------
(* The calls of the listener.  Each sets every variable of listenVars.     *)

\* mListener.testStarted(t)
NotifyStarted(t) ==
  /\ result' = InsertTest(result, t)
  /\ open' = IF t \in Tests THEN t ELSE NoTest
  /\ started' = started \cup ({t} \cap Tests)
  /\ UNCHANGED <<ended, logs>>

\* testFailed(t) if failed, testLog of the buffer if there is one, testEnded(t).
NotifyEnded(t, failed) ==
  /\ result' = ReportTestEnded(IF failed THEN ReportTestFailure(result, t)
                                         ELSE result, t)
  /\ open' = NoTest
  /\ ended' = ended \cup ({t} \cap Tests)
  /\ logs' = IF CollectLogs /\ t \in Tests
             THEN [logs EXCEPT ![t] = @ \cup mCurrentTestLog] ELSE logs
  /\ UNCHANGED started

-----------------------------------------------------------------------------
(* run() and executeTests()                                                *)

\* The OpenGL ES version is supported: uninstall what is there, then install;
\* an install that fails is only logged.
PrepareDevice ==
  /\ pc = "start" /\ pc' = "loop"
  /\ installed' \in BOOLEAN
  /\ UNCHANGED <<runs, runnerVars, app, batch, listenVars, truthVars>>

\* It is not supported: every case left is going to be passed unrun.
PassUnsupported ==
  /\ pc = "start" /\ pc' = "skip"
  /\ batch' = mTests
  /\ UNCHANGED <<runs, runnerVars, app, installed, listenVars, truthVars>>

\* One turn of that loop: testStarted, testEnded.
SkipTest(t) ==
  /\ pc = "skip" /\ t \in batch /\ batch' = batch \ {t}
  /\ result' = ReportTestEnded(InsertTest(result, t), t)
  /\ started' = started \cup {t} /\ ended' = ended \cup {t}
  /\ good' = good \cup {t}
  /\ UNCHANGED <<pc, runs, runnerVars, app, installed, open, logs, bad, cutOff>>

SkipDone ==
  /\ pc = "skip" /\ batch = {} /\ pc' = "done"
  /\ UNCHANGED <<runs, runnerVars, deviceVars, listenVars, truthVars>>

\* generateTestCaseTrie stops after BatchLimit has been exceeded, so a batch
\* holds BatchLimit + 1 cases.
BatchSize ==
  LET left == Cardinality(mTests) IN IF left > BatchLimit THEN BatchLimit + 1 ELSE left

\* Faulty form: a batch is taken out of mTests when it is pushed.
ExecuteTestsForgets ==
  /\ pc = "loop" /\ mTests # {}
  /\ \E cases \in SUBSET mTests : /\ Cardinality(cases) = BatchSize
                                  /\ batch' = cases /\ mTests' = mTests \ cases
  /\ pc' = "exec"
  /\ app' = IF installed THEN "launched" ELSE "down"
  /\ UNCHANGED <<runs, mCurrentTestId, mGotTestResult, mCurrentTestLog, installed,
                 listenVars, truthVars>>

\* Push the case list and start the instrumentation; without the package on
\* the device "am instrument" ends at once.
ExecuteTests ==
  /\ pc = "loop" /\ mTests # {}
  /\ \E cases \in SUBSET mTests : Cardinality(cases) = BatchSize /\ batch' = cases
  /\ pc' = "exec"
  /\ app' = IF installed THEN "launched" ELSE "down"
  /\ UNCHANGED <<runs, runnerVars, installed, listenVars, truthVars>>

\* Faulty form: the interrupted case is ended but never failed.
ReportInterruptedEndsOnly ==
  /\ pc = "exec" /\ app = "down" /\ mCurrentTestId # NoTest
  /\ NotifyEnded(mCurrentTestId, FALSE)
  /\ mCurrentTestId' = NoTest
  /\ pc' = "loop"
  /\ UNCHANGED <<runs, mTests, mGotTestResult, mCurrentTestLog, deviceVars, truthVars>>

\* executeShellCommand is back: a case that was cut short is reported failed
\* unless its result had arrived, and ended either way.
ReportInterrupted ==
  /\ pc = "exec" /\ app = "down" /\ mCurrentTestId # NoTest
  /\ NotifyEnded(mCurrentTestId, ~mGotTestResult)
  /\ mCurrentTestId' = NoTest
  /\ pc' = "loop"
  /\ UNCHANGED <<runs, mTests, mGotTestResult, mCurrentTestLog, deviceVars, truthVars>>

NoneInterrupted ==
  /\ pc = "exec" /\ app = "down" /\ mCurrentTestId = NoTest
  /\ pc' = "loop"
  /\ UNCHANGED <<runs, runnerVars, deviceVars, listenVars, truthVars>>

AllRun ==
  /\ pc = "loop" /\ mTests = {}
  /\ installed' = FALSE
  /\ pc' = "done"
  /\ UNCHANGED <<runs, runnerVars, app, batch, listenVars, truthVars>>

\* DeviceNotAvailableException from any of the calls that use the device.
DeviceLost ==
  /\ pc \in {"start", "loop", "exec"} /\ pc' = "aborted"
  /\ app' = "down"
  /\ cutOff' = cutOff \cup ({open} \cap Tests)
  /\ UNCHANGED <<runs, runnerVars, batch, installed, listenVars, good, bad>>

\* CtsTest resumes with the same packages, hence with this same object.
RunAgain ==
  /\ pc = "aborted" /\ runs < MaxRuns
  /\ runs' = runs + 1 /\ pc' = "start"
  /\ UNCHANGED <<runnerVars, deviceVars, listenVars, truthVars>>

-----------------------------------------------------------------------------
(* The app's events and their handlers                                     *)

\* handleBeginSession only calls testRunStarted.
BeginSession ==
  /\ app = "launched" /\ app' = "session"
  /\ UNCHANGED <<pc, runs, runnerVars, batch, installed, listenVars, truthVars>>

\* handleEndSession only calls testRunEnded.
EndSession ==
  /\ app = "session" /\ batch = {} /\ app' = "closed"
  /\ UNCHANGED <<pc, runs, runnerVars, batch, installed, listenVars, truthVars>>

\* Faulty forms of the next definition: the result flag survives; the log does;
\* the case stays in mTests.
HandleBeginKeepsResult(id) ==
  /\ mCurrentTestId' = id /\ mCurrentTestLog' = {} /\ mTests' = mTests \ {id}
  /\ NotifyStarted(id) /\ UNCHANGED mGotTestResult
HandleBeginKeepsLog(id) ==
  /\ mCurrentTestId' = id /\ mGotTestResult' = FALSE /\ mTests' = mTests \ {id}
  /\ NotifyStarted(id) /\ UNCHANGED mCurrentTestLog
HandleBeginKeepsTest(id) ==
  /\ mCurrentTestId' = id /\ mGotTestResult' = FALSE /\ mCurrentTestLog' = {}
  /\ NotifyStarted(id) /\ UNCHANGED mTests

\* handleBeginTestCase
HandleBegin(id) ==
  /\ mCurrentTestId' = id
  /\ mCurrentTestLog' = {}
  /\ mGotTestResult' = FALSE
  /\ mTests' = mTests \ {id}
  /\ NotifyStarted(id)

BeginTestCase(t) ==
  /\ app = "session" /\ app' = "case"
  /\ t \in batch /\ batch' = batch \ {t}
  /\ HandleBegin(t)
  /\ UNCHANGED <<pc, runs, installed, truthVars>>

\* handleTestLogData
TestLogData ==
  /\ app = "case"
  /\ mCurrentTestLog' = mCurrentTestLog \cup {mCurrentTestId}
  /\ UNCHANGED <<pc, runs, mTests, mCurrentTestId, mGotTestResult, deviceVars,
                 listenVars, truthVars>>

\* handleTestCaseResult with a passing code.
TestCaseGood ==
  /\ app = "case" /\ mCurrentTestId \notin good \cup bad
  /\ mGotTestResult' = TRUE
  /\ good' = good \cup {mCurrentTestId}
  /\ UNCHANGED <<pc, runs, mTests, mCurrentTestId, mCurrentTestLog, deviceVars,
                 listenVars, bad, cutOff>>

\* handleTestCaseResult with a failing or an unknown code.
TestCaseBad ==
  /\ app = "case" /\ mCurrentTestId \notin good \cup bad
  /\ result' = ReportTestFailure(result, mCurrentTestId)
  /\ mGotTestResult' = TRUE
  /\ bad' = bad \cup {mCurrentTestId}
  /\ UNCHANGED <<pc, runs, mTests, mCurrentTestId, mCurrentTestLog, deviceVars,
                 open, started, ended, logs, good, cutOff>>

\* handleEndTestCase
EndTestCase ==
  /\ app = "case" /\ app' = "session"
  /\ NotifyEnded(mCurrentTestId, ~mGotTestResult)
  /\ mCurrentTestId' = NoTest
  /\ UNCHANGED <<pc, runs, mTests, mGotTestResult, mCurrentTestLog, batch,
                 installed, truthVars>>

\* handleTestCaseTerminate
TerminateTestCase ==
  /\ app = "case" /\ app' = "session"
  /\ NotifyEnded(mCurrentTestId, TRUE)
  /\ mCurrentTestId' = NoTest
  /\ mGotTestResult' = TRUE
  /\ bad' = bad \cup {mCurrentTestId}
  /\ UNCHANGED <<pc, runs, mTests, mCurrentTestLog, batch, installed, good, cutOff>>

\* The app is gone, after its last event or in the middle of anything.
AppExit ==
  /\ app # "down" /\ app' = "down"
  /\ UNCHANGED <<pc, runs, runnerVars, batch, installed, listenVars, truthVars>>

\* It died while it printed the path of a test case: done() flushes what
\* there is, and the identifier is no known test.
ExitInsidePath ==
  /\ app = "session" /\ batch # {} /\ app' = "down"
  /\ HandleBegin(Garbled)
  /\ UNCHANGED <<pc, runs, batch, installed, truthVars>>

\* It died inside a status whose rest is needed: a line cut off before its '=',
\* a case without its path, a result without its code.  The parser, or the
\* handler, throws out of run().
ExitInsideStatus ==
  /\ app \in {"launched", "session", "case"} /\ app' = "down"
  /\ pc' = "threw"
  /\ UNCHANGED <<runs, runnerVars, batch, installed, listenVars, truthVars>>

-----------------------------------------------------------------------------
RunnerStep ==
  \/ PrepareDevice \/ PassUnsupported \/ ExecuteTests \/ ReportInterrupted
  \/ NoneInterrupted \/ AllRun \/ SkipDone
  \/ \E t \in Tests : SkipTest(t)

BeginSomeTestCase == \E t \in Tests : BeginTestCase(t)

AppStep ==
  \/ BeginSession \/ EndSession \/ BeginSomeTestCase \/ TestLogData
  \/ TestCaseGood \/ TestCaseBad \/ EndTestCase \/ TerminateTestCase

AppFault == AppExit \/ ExitInsidePath \/ ExitInsideStatus

Finished ==
  /\ pc \in {"done", "threw"} \/ (pc = "aborted" /\ runs = MaxRuns)
  /\ UNCHANGED vars

Next == RunnerStep \/ AppStep \/ AppFault \/ DeviceLost \/ RunAgain \/ Finished

Spec == Init /\ [][Next]_vars

(* Fairness.  The host thread keeps executing run().  An app that has been *)
(* started ends or goes on (the shell command has a time limit).  An app   *)
(* that gets the chance to start a session, or a case, again and again     *)
(* does so in the end: this is an assumption about the device, and the     *)
(* code has no other ground to expect its loop to end.                     *)
FairSpec ==
  /\ Spec
  /\ WF_vars(RunnerStep) /\ WF_vars(RunAgain)
  /\ WF_vars(AppStep \/ AppFault)
  /\ SF_vars(BeginSession) /\ SF_vars(BeginSomeTestCase)

-----------------------------------------------------------------------------
(* Properties                                                              *)

\* A case is in the report as passed only if the device said it passed (or its
\* OpenGL ES version is not supported): mGotTestResult never leaks from one
\* case, session or run into another.
PassedOnDevice == \A t \in Tests : result[t] = "pass" => t \in good

\* A failing code or a termination the device sent is never masked by anything
\* that happens later: the case is reported as failed.
FailureKept == bad \subseteq {t \in Tests : result[t] = "fail"}

\* When run() returns, a case has no end only if it was running when the device
\* was lost: the loop loses nothing else over sessions, crashes and runs.
\* (RunAgain does not run those again: they left mTests when they started.)
NothingLost == pc = "done" => Tests \ ended \subseteq cutOff

\* The log saved under a case's name holds that case's data and no other's.
LogsBelong == \A t \in Tests : logs[t] \subseteq {t}

\* The runner keeps the listener's contract (module TestRun).
Cut == runs > 1 \/ pc = "aborted"
PhaseOf(t) ==
  IF t \in ended THEN IF result[t] = "pass" THEN "passed" ELSE "failed"
  ELSE IF t = open THEN "running"
  ELSE IF t \in started THEN "lost" ELSE "pending"
Phase == [t \in Tests |-> PhaseOf(t)]
Listener == INSTANCE TestRun WITH cut <- Cut, phase <- Phase
KeepsContract == Listener!Spec

\* run() ends, or the package could not be installed (the install's error is
\* only logged) and the loop launches nothing for ever.
RunEnds ==
  <>[](pc \in Terminal) \/ <>[](pc \in {"loop", "exec"} /\ ~installed)

-----------------------------------------------------------------------------
(* The inductive invariant behind the safety properties.                   *)

\* A result that has arrived for the current case is a passing code, or has
\* already failed the case in the report.
ResultIsCurrent ==
  mGotTestResult /\ mCurrentTestId \in Tests
     => mCurrentTestId \in good \/ result[mCurrentTestId] = "fail"

\* What the app still has to begin is still in mTests, where nothing is that
\* was ever started.
NoneTwice ==
  /\ app \in {"launched", "session", "case"} \/ pc = "skip" => batch \subseteq mTests
  /\ pc \notin {"skip", "done"} => started \cap mTests = {}
  /\ pc = "skip" => started \cap batch = {}

\* Every case is left to run, or ended, or is being run, or was cut off.
Accounted ==
  /\ open = IF mCurrentTestId \in Tests THEN mCurrentTestId ELSE NoTest
  /\ app = "case" => mCurrentTestId \in Tests
  /\ app # "down" => pc = "exec"
  /\ pc = "skip" => mTests \subseteq batch \cup ended
  /\ Tests \ mTests \subseteq started
  /\ ended \subseteq started
  /\ open \in Tests => open \in started \ ended
  /\ cutOff # {} => Cut
  /\ \A t \in started \ ended :
       \/ t \in cutOff
       \/ /\ t = open
          /\ pc = "threw" \/ (pc = "exec" /\ app \in {"case", "down"})

\* Only a started case has a result.
OnlyStarted == \A t \in Tests \ started : result[t] = "absent"

\* The buffer holds the current case's data only; what an ended case left in it
\* is cleared when the next one begins.
LogIsCurrent == mCurrentTestId \in Tests => mCurrentTestLog \subseteq {mCurrentTestId}

IInv ==
  /\ TypeOK /\ PassedOnDevice /\ FailureKept /\ NothingLost
  /\ ResultIsCurrent /\ NoneTwice /\ Accounted /\ OnlyStarted
=============================================================================
