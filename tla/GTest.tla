-------------------------------- MODULE GTest -------------------------------
(***************************************************************************)
(* Native tests.  GeeTest runs a gtest program in a shell, WrappedGTest one *)
(* inside an instrumentation (testtype/GeeTest.java, WrappedGTest.java);    *)
(* both turn its output into calls of the listener, line by line            *)
(* (GeeTestResultParser.java, WrappedGTestResultParser.java).  The program  *)
(* may end anywhere, the device may be lost anywhere, and output of the     *)
(* tests themselves may stand on the line of a marker.                      *)
(* A line is printed and parsed in one step: the connection keeps the order.*)
(***************************************************************************)
EXTENDS Naturals, FiniteSets, TestPackageResult

CONSTANTS
  Tests,      \* the tests of the program, all of them known to the package
  Kinds,      \* the runners: a subset of {"native", "wrapped"}
  MaxRuns,    \* bound on the calls of run()
  NoTest,     \* Java's null
  Unknown     \* any name that is no test of the package

ASSUME Assumption ==
  /\ IsFiniteSet(Tests) /\ Tests # {}
  /\ Kinds \subseteq {"native", "wrapped"}
  /\ MaxRuns \in Nat \ {0}
  /\ NoTest \notin Tests /\ Unknown \notin Tests /\ NoTest # Unknown

VARIABLES
  kind,        \* the runner
  pc, runs,    \* where run() is, and its calls so far
  prog,        \* what the program is doing
  left, now,   \* the tests it has still to run, and the one it is running
  bad,         \* that test has failed
  muddled      \* the last line has no end: the next one will stand on it too

\* The parser.
VARIABLES
  mCurrentTestResult,   \* the name in it, or NoTest
  mStackTrace,          \* the tests whose output is in it
  mNumTestsRun, mNumTestsExpected, mTestInProgress, mTestRunInProgress

VARIABLES
  result,      \* the package's results
  trace,       \* whose output is in the trace of each failed test
  runFailed,   \* history: testRunFailed was called in this run()
  verdict,     \* history: what the program made of each test in this run()
  failed,      \* history: the tests it ever failed
  unheard      \* history: tests whose end was never heard, or not whole

program == <<prog, left, now, bad, muddled>>
parser == <<mCurrentTestResult, mStackTrace, mNumTestsRun, mNumTestsExpected,
            mTestInProgress, mTestRunInProgress>>
listener == <<result, trace, runFailed>>
history == <<verdict, failed, unheard>>
vars == <<kind, pc, runs, program, parser, listener, history>>

FreshParser ==
  /\ mCurrentTestResult' = NoTest /\ mStackTrace' = {}
  /\ mNumTestsRun' = 0 /\ mNumTestsExpected' = 0
  /\ mTestInProgress' = FALSE /\ mTestRunInProgress' = FALSE

Init ==
  /\ kind \in Kinds
  /\ pc = "start" /\ runs = 1
  /\ prog = "off" /\ left = {} /\ now = NoTest /\ bad = FALSE /\ muddled = FALSE
  /\ mCurrentTestResult = NoTest /\ mStackTrace = {}
  /\ mNumTestsRun = 0 /\ mNumTestsExpected = 0
  /\ mTestInProgress = FALSE /\ mTestRunInProgress = FALSE
  /\ result = NewResult(Tests) /\ trace = [t \in Tests |-> {}] /\ runFailed = FALSE
  /\ verdict = [t \in Tests |-> "none"] /\ failed = {} /\ unheard = {}

-----------------------------------------------------------------------------
(* GeeTestResultParser, one operator per kind of line.                     *)

\* The line "Running N tests from ...".
ProcessRunStarted ==
  /\ mNumTestsExpected' = Cardinality(Tests) /\ mNumTestsRun' = 0
  /\ mTestRunInProgress' = TRUE
  /\ UNCHANGED <<mCurrentTestResult, mStackTrace, mTestInProgress, listener>>

\* The line "N tests from ... ran."
ProcessRunCompleted ==
  /\ mTestRunInProgress' = FALSE
  /\ UNCHANGED <<mCurrentTestResult, mStackTrace, mNumTestsRun, mNumTestsExpected,
                 mTestInProgress, listener>>

\* "[ RUN      ] name": the current TestResult is used on if there is one.
ProcessTestStarted(name) ==
  /\ mCurrentTestResult' = name /\ mTestInProgress' = TRUE
  /\ result' = InsertTest(result, name)
  /\ UNCHANGED <<mStackTrace, mNumTestsRun, mNumTestsExpected, mTestRunInProgress,
                 trace, runFailed>>

\* Faulty form of the next definition: the output of a test is never cleared.
ClearNothing == UNCHANGED <<mCurrentTestResult, mStackTrace>>

ClearCurrentTestResult == mCurrentTestResult' = NoTest /\ mStackTrace' = {}

\* testFailed if fails, and testEnded, for a test that is known to the filter.
ReportEnd(t, fails) ==
  /\ result' = ReportTestEnded(IF fails THEN ReportTestFailure(result, t) ELSE result, t)
  /\ trace' = IF fails /\ t \in Tests THEN [trace EXCEPT ![t] = mStackTrace] ELSE trace

\* If a test is in progress t is reported and counted; the TestResult is cleared
\* in any case.
EndTest(t, fails) ==
  /\ IF mTestInProgress
     THEN /\ ReportEnd(t, fails)
          /\ mTestInProgress' = FALSE /\ mNumTestsRun' = mNumTestsRun + 1
     ELSE UNCHANGED <<result, trace, mTestInProgress, mNumTestsRun>>
  /\ ClearCurrentTestResult
  /\ UNCHANGED <<mNumTestsExpected, mTestRunInProgress, runFailed>>

\* Faulty forms of the next definition: the names are not compared; the test the
\* line names is reported.
DoTestEndedAnyName(name, passes) == EndTest(mCurrentTestResult, ~passes)
DoTestEndedByName(name, passes) ==
  EndTest(name, ~passes \/ name # mCurrentTestResult)

\* "[       OK ] name" or "[  FAILED  ] name": the test in progress ends, and
\* fails if the line has another name.
DoTestEnded(name, passes) ==
  EndTest(mCurrentTestResult, ~passes \/ name # mCurrentTestResult)

\* Any other line is output of the test in progress.
AppendTestOutput(source) ==
  /\ mStackTrace' = IF mTestRunInProgress /\ mTestInProgress
                    THEN mStackTrace \cup source ELSE mStackTrace
  /\ UNCHANGED <<mCurrentTestResult, mNumTestsRun, mNumTestsExpected,
                 mTestInProgress, mTestRunInProgress, listener>>

\* A marker is found only at the start of a line.
Parse(line) == IF muddled THEN AppendTestOutput({now} \cap Tests) ELSE line

\* Faulty form of the next definition: a run that lacks tests is not reported.
HandleRunFailedIfOpen == runFailed' = mTestRunInProgress

\* done(): handleTestRunFailed if tests are missing or the run has no end.  It
\* fails the current test as well, under a name without mFakePackagePrefix,
\* which the package's ResultFilter does not know.
HandleRunFailed ==
  runFailed' = (mNumTestsExpected > mNumTestsRun \/ mTestRunInProgress)

-----------------------------------------------------------------------------
(* run().                                                                  *)

\* The program, or the package, is installed and started, with a parser of
\* its own; it runs all its tests whatever an earlier run() had done.
Start ==
  /\ pc = "start" /\ pc' = "exec"
  /\ prog' = "launched" /\ left' = Tests /\ now' = NoTest /\ bad' = FALSE /\ muddled' = FALSE
  /\ FreshParser
  /\ runFailed' = FALSE /\ verdict' = [t \in Tests |-> "none"]
  /\ UNCHANGED <<kind, runs, result, trace, failed, unheard>>

\* Only the log says that nothing was run.
NotInstalled ==
  /\ pc = "start" /\ pc' = "notInstalled"
  /\ UNCHANGED <<kind, runs, program, parser, listener, history>>

\* The parser's flush: done().
Done ==
  /\ pc \in {"flush", "flushLost"}
  /\ pc' = IF pc = "flush" THEN "done" ELSE "aborted"
  /\ HandleRunFailed
  /\ UNCHANGED <<kind, runs, program, parser, result, trace, history>>

LoseDeviceEarly ==
  /\ pc = "start" /\ pc' = "aborted"
  /\ UNCHANGED <<kind, runs, program, parser, listener, history>>

\* CtsTest resumes with the same runner.
RunAgain ==
  /\ pc = "aborted" /\ runs < MaxRuns
  /\ pc' = "start" /\ runs' = runs + 1
  /\ UNCHANGED <<kind, program, parser, listener, history>>

-----------------------------------------------------------------------------
(* The program.                                                            *)

PrintHeader ==
  /\ pc = "exec" /\ prog = "launched" /\ prog' = "between"
  /\ ProcessRunStarted
  /\ UNCHANGED <<kind, pc, runs, left, now, bad, muddled, history>>

\* OnTestStart
PrintRun(t) ==
  /\ pc = "exec" /\ prog = "between" /\ t \in left
  /\ prog' = "test" /\ left' = left \ {t} /\ now' = t /\ bad' = FALSE /\ muddled' = FALSE
  /\ Parse(ProcessTestStarted(t))
  /\ UNCHANGED <<kind, pc, runs, history>>

\* OnTestPartResult
PrintFailure ==
  /\ pc = "exec" /\ prog = "test"
  /\ bad' = TRUE /\ muddled' = FALSE
  /\ AppendTestOutput({now})
  /\ UNCHANGED <<kind, pc, runs, prog, left, now, history>>

\* A test, or the set-up of a group of tests, prints a line of its own, or
\* leaves one without an end.  Only a shell shows what a program prints.
PrintOwn(unterminated) ==
  /\ pc = "exec" /\ kind = "native" /\ prog \in {"test", "between"}
  /\ muddled' = unterminated
  /\ IF unterminated THEN UNCHANGED <<parser, listener>>
                     ELSE AppendTestOutput({now} \cap Tests)
  /\ UNCHANGED <<kind, pc, runs, prog, left, now, bad, history>>

\* OnTestEnd
PrintEnd ==
  /\ pc = "exec" /\ prog = "test"
  /\ prog' = "between" /\ now' = NoTest /\ bad' = FALSE /\ muddled' = FALSE
  /\ Parse(DoTestEnded(now, ~bad))
  /\ verdict' = [verdict EXCEPT ![now] = IF bad THEN "failed" ELSE "ok"]
  /\ failed' = IF bad THEN failed \cup {now} ELSE failed
  /\ unheard' = IF muddled THEN unheard \cup {now} ELSE unheard
  /\ UNCHANGED <<kind, pc, runs, left>>

\* OnTestIterationEnd
PrintFooter ==
  /\ pc = "exec" /\ prog = "between" /\ left = {} /\ ~muddled
  /\ prog' = "over"
  /\ ProcessRunCompleted
  /\ UNCHANGED <<kind, pc, runs, left, now, bad, muddled, history>>

\* The output ends: the program is through, it died, or the device was lost.
\* Of a line that was being printed only a part is left, which may hold the
\* marker with no name or with the beginning of one.
OutputEnds(lost) ==
  /\ pc = "exec" /\ pc' = IF lost THEN "flushLost" ELSE "flush"
  /\ prog' = "off" /\ muddled' = FALSE
  /\ \/ UNCHANGED <<parser, listener>>
     \/ prog = "between" /\ left # {} /\ Parse(ProcessTestStarted(Unknown))
     \/ prog = "test" /\ Parse(DoTestEnded(Unknown, ~bad))
  /\ unheard' = unheard \cup ({now} \cap Tests)
  /\ UNCHANGED <<kind, runs, left, now, bad, verdict, failed>>

Next ==
  \/ Start \/ NotInstalled \/ Done \/ LoseDeviceEarly \/ RunAgain
  \/ PrintHeader \/ PrintFailure \/ PrintEnd \/ PrintFooter
  \/ \E t \in Tests : PrintRun(t)
  \/ \E b \in BOOLEAN : PrintOwn(b) \/ OutputEnds(b)

Spec == Init /\ [][Next]_vars
-----------------------------------------------------------------------------
(* Properties.                                                             *)

\* A run whose header was heard, that ends and is not reported as failed has run
\* every test of the program, and the report agrees with each failure: no line
\* that was lost, cut off or not recognised goes unnoticed.  (A program that
\* dies before its header is not even reported as a failed run.)
NothingHidden ==
  pc = "done" /\ mNumTestsExpected > 0 /\ ~runFailed =>
    \A t \in Tests : /\ verdict[t] # "none" /\ result[t] \in Executed
                     /\ verdict[t] = "failed" => result[t] = "fail"

\* A test that failed whenever it ran to its end is never reported as passed,
\* whichever lines around it were not recognised.
PassedOnDevice ==
  [][\A t \in Tests : result[t] # "pass" /\ result'[t] = "pass" => verdict'[t] = "ok"]_vars

\* A test is reported as failed only if the program failed it or the end of it
\* was not heard: no other test's trouble is put down to it.
FailedForCause == \A t \in Tests : result[t] = "fail" => t \in failed \cup unheard

\* The trace shown with a test that failed and ended is its own output, but for
\* that of tests before it whose end was not heard.
TraceIsOwn == \A t \in Tests \ unheard : trace[t] \subseteq {t} \cup unheard

\* handleTestRunFailed: "Report that the last known test failed".  A test in
\* which the program dies is reported as failed.
CrashedTestFails ==
  pc = "done" /\ now # NoTest /\ mNumTestsExpected > 0 => result[now] = "fail"
=============================================================================
