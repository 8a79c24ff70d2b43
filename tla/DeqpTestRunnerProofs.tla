----------------------- MODULE DeqpTestRunnerProofs -----------------------
(* Proofs about DeqpTestRunner, for any finite set of cases, any batch     *)
(* limit and any number of runs.                                           *)
EXTENDS DeqpTestRunner, TLAPS

USE DeqpAssumption DEF DeqpAssumption

\* The three report operators keep the type of a package's result.
LEMMA ReportTypes ==
  ASSUME NEW r \in [Tests -> Status], NEW t
  PROVE  /\ InsertTest(r, t) \in [Tests -> Status]
         /\ ReportTestFailure(r, t) \in [Tests -> Status]
         /\ ReportTestEnded(r, t) \in [Tests -> Status]
  BY DEF InsertTest, ReportTestFailure, ReportTestEnded, Status, Executed

\* A start passes nothing and hides no failure.
LEMMA InsertKeeps ==
  ASSUME NEW r \in [Tests -> Status], NEW t, NEW u \in Tests
  PROVE  /\ InsertTest(r, t)[u] = "fail" <=> r[u] = "fail"
         /\ InsertTest(r, t)[u] = "pass" <=> r[u] = "pass"
         /\ u # t => InsertTest(r, t)[u] = r[u]
  BY DEF InsertTest, Status, Executed

\* An end passes only the test it is about, and only one without a failure.
LEMMA EndedKeeps ==
  ASSUME NEW r \in [Tests -> Status], NEW t, NEW u \in Tests
  PROVE  /\ ReportTestEnded(r, t)[u] = "fail" <=> r[u] = "fail"
         /\ ReportTestEnded(r, t)[u] = "pass"
              <=> r[u] = "pass" \/ (u = t /\ r[u] # "fail")
         /\ u # t => ReportTestEnded(r, t)[u] = r[u]
  BY DEF ReportTestEnded

\* A failure fails the test it is about and no other.
LEMMA FailureKeeps ==
  ASSUME NEW r \in [Tests -> Status], NEW t, NEW u \in Tests
  PROVE  /\ ReportTestFailure(r, t)[u] = "fail" <=> r[u] = "fail" \/ u = t
         /\ ReportTestFailure(r, t)[u] = "pass" <=> r[u] = "pass" /\ u # t
         /\ u # t => ReportTestFailure(r, t)[u] = r[u]
  BY DEF ReportTestFailure

-----------------------------------------------------------------------------
USE DEF Cut

\* Nothing has been run yet.
LEMMA InitIInv == Init => IInv
<1> SUFFICES ASSUME Init PROVE IInv
  OBVIOUS
<1> USE DEF Init, NewResult
<1>1. TypeOK
  <2>1. runs \in 1..MaxRuns /\ result \in [Tests -> Status] /\ logs \in [Tests -> SUBSET Tests]
    BY DEF Status
  <2> QED
    BY <2>1 DEF TypeOK, Ids, AppStates, Terminal
<1>2. PassedOnDevice /\ FailureKept /\ NothingLost /\ ResultIsCurrent
  BY DEF PassedOnDevice, FailureKept, NothingLost, ResultIsCurrent
<1>3. NoneTwice /\ Accounted /\ OnlyStarted
  BY DEF NoneTwice, Accounted, OnlyStarted
<1> QED
  BY <1>1, <1>2, <1>3 DEF IInv

\* A step that tells the listener nothing about the current case.
QuietStep ==
  \/ PrepareDevice \/ PassUnsupported \/ ExecuteTests \/ NoneInterrupted \/ AllRun
  \/ SkipDone \/ BeginSession \/ EndSession \/ AppExit \/ ExitInsideStatus
  \/ DeviceLost \/ RunAgain \/ TestLogData \/ UNCHANGED vars

\* Such a step keeps the invariant.
LEMMA QuietKeepsIInv == IInv /\ QuietStep => IInv'
<1> SUFFICES ASSUME IInv, QuietStep PROVE IInv'
  OBVIOUS
<1> USE DEF IInv, QuietStep, vars, runnerVars, deviceVars, listenVars, truthVars
<1>1. TypeOK'
  <2>1. runs' \in 1..MaxRuns
    BY DEF TypeOK, PrepareDevice, PassUnsupported, ExecuteTests, NoneInterrupted, AllRun,
       SkipDone, BeginSession, EndSession, AppExit, ExitInsideStatus, DeviceLost, RunAgain,
       TestLogData
  <2>2. batch' \in SUBSET Tests /\ mCurrentTestLog' \in SUBSET Tests
    BY DEF TypeOK, Accounted, PrepareDevice, PassUnsupported, ExecuteTests,
       NoneInterrupted, AllRun, SkipDone, BeginSession, EndSession, AppExit,
       ExitInsideStatus, DeviceLost, RunAgain, TestLogData
  <2>3. /\ pc' \in {"start", "loop", "exec", "skip"} \cup Terminal
        /\ app' \in AppStates /\ installed' \in BOOLEAN /\ cutOff' \in SUBSET Tests
    BY DEF TypeOK, Terminal, AppStates, PrepareDevice, PassUnsupported, ExecuteTests,
       NoneInterrupted, AllRun, SkipDone, BeginSession, EndSession, AppExit,
       ExitInsideStatus, DeviceLost, RunAgain, TestLogData
  <2>4. UNCHANGED <<mTests, mCurrentTestId, mGotTestResult, listenVars, good, bad>>
    BY DEF PrepareDevice, PassUnsupported, ExecuteTests, NoneInterrupted, AllRun,
       SkipDone, BeginSession, EndSession, AppExit, ExitInsideStatus, DeviceLost, RunAgain,
       TestLogData
  <2> QED
    BY <2>1, <2>2, <2>3, <2>4 DEF TypeOK
<1>2. UNCHANGED <<result, good, bad, mGotTestResult, mCurrentTestId, started, ended,
                  mTests, open>>
  BY DEF PrepareDevice, PassUnsupported,
     ExecuteTests, NoneInterrupted, AllRun, SkipDone, BeginSession, EndSession, AppExit,
     ExitInsideStatus, DeviceLost, RunAgain, TestLogData
<1>3. PassedOnDevice' /\ FailureKept' /\ ResultIsCurrent' /\ OnlyStarted'
  BY <1>2 DEF PassedOnDevice, FailureKept, ResultIsCurrent, OnlyStarted
<1>4. NoneTwice'
  BY <1>2 DEF NoneTwice, TypeOK, Accounted, PrepareDevice, PassUnsupported,
     ExecuteTests, NoneInterrupted, AllRun, SkipDone, BeginSession, EndSession, AppExit,
     ExitInsideStatus, DeviceLost, RunAgain, TestLogData
<1>5. Accounted'
  BY <1>2 DEF Accounted, TypeOK, PrepareDevice, PassUnsupported,
     ExecuteTests, NoneInterrupted, AllRun, SkipDone, BeginSession, EndSession, AppExit,
     ExitInsideStatus, DeviceLost, RunAgain, TestLogData
<1>6. NothingLost'
  BY <1>2 DEF NothingLost, Accounted, TypeOK, PrepareDevice, PassUnsupported,
     ExecuteTests, NoneInterrupted, AllRun, SkipDone, BeginSession, EndSession, AppExit,
     ExitInsideStatus, DeviceLost, RunAgain, TestLogData
<1> QED
  BY <1>1, <1>3, <1>4, <1>5, <1>6

\* So does one that reports a test without running it.
LEMMA SkipKeepsIInv == ASSUME IInv, NEW t \in Tests, SkipTest(t) PROVE IInv'
<1> USE DEF IInv, SkipTest, runnerVars
<1>1. result \in [Tests -> Status] /\ InsertTest(result, t) \in [Tests -> Status]
  BY ReportTypes DEF TypeOK
<1>2. TypeOK'
  BY <1>1, ReportTypes DEF TypeOK
<1>3. \A u \in Tests : /\ result'[u] = "fail" <=> result[u] = "fail"
                       /\ result'[u] = "pass" => result[u] = "pass" \/ u = t
                       /\ u # t => result'[u] = result[u]
  BY <1>1, InsertKeeps, EndedKeeps
<1>4. PassedOnDevice' /\ FailureKept'
  BY <1>3 DEF PassedOnDevice, FailureKept, TypeOK
<1>5. ResultIsCurrent' /\ OnlyStarted'
  BY <1>3 DEF ResultIsCurrent, OnlyStarted
<1>6. NoneTwice' /\ Accounted' /\ NothingLost'
  BY DEF NoneTwice, Accounted, NothingLost, TypeOK
<1> QED
  BY <1>2, <1>4, <1>5, <1>6

\* A case begins, or something unreadable does.
LEMMA BeginKeepsIInv ==
  ASSUME IInv, (\E t \in Tests : BeginTestCase(t)) \/ ExitInsidePath PROVE IInv'
<1> USE DEF IInv
<1> PICK id : /\ HandleBegin(id)
              /\ \/ id \in Tests /\ BeginTestCase(id)
                 \/ id = Garbled /\ ExitInsidePath
  BY DEF BeginTestCase, ExitInsidePath
<1> USE DEF HandleBegin, NotifyStarted, BeginTestCase, ExitInsidePath, truthVars
<1>1. result \in [Tests -> Status]
  BY DEF TypeOK
<1>2. TypeOK'
  BY <1>1, ReportTypes DEF TypeOK, Ids, AppStates
<1>3. \A u \in Tests : /\ result'[u] = "fail" <=> result[u] = "fail"
                       /\ result'[u] = "pass" <=> result[u] = "pass"
                       /\ u # id => result'[u] = result[u]
  BY <1>1, InsertKeeps
<1>4. PassedOnDevice' /\ FailureKept' /\ ResultIsCurrent' /\ OnlyStarted'
  BY <1>3 DEF PassedOnDevice, FailureKept, ResultIsCurrent, OnlyStarted, TypeOK
<1>5. NoneTwice'
  BY DEF NoneTwice, Accounted, TypeOK
<1>6. Accounted'
  BY DEF Accounted, NoneTwice, TypeOK
<1>7. NothingLost'
  BY DEF NothingLost, Accounted
<1> QED
  BY <1>2, <1>4, <1>5, <1>6, <1>7

\* The result code of the current case arrives.
LEMMA ResultKeepsIInv == ASSUME IInv, TestCaseGood \/ TestCaseBad PROVE IInv'
<1> USE DEF IInv, TestCaseGood, TestCaseBad, deviceVars, listenVars
<1>1. result \in [Tests -> Status] /\ mCurrentTestId \in Tests
  BY DEF TypeOK, Accounted
<1>2. TypeOK'
  <2>1. result' \in [Tests -> Status]
    BY <1>1, ReportTypes
  <2> QED
    BY <1>1, <2>1 DEF TypeOK
<1>3. \A u \in Tests : /\ result[u] = "fail" => result'[u] = "fail"
                       /\ result'[u] = "pass" => result[u] = "pass"
                       /\ TestCaseBad /\ u = mCurrentTestId => result'[u] = "fail"
                       /\ u # mCurrentTestId => result'[u] = result[u]
  BY <1>1, FailureKeeps
<1>4. PassedOnDevice' /\ FailureKept' /\ ResultIsCurrent'
  BY <1>1, <1>3 DEF PassedOnDevice, FailureKept, ResultIsCurrent, TypeOK
<1>5. NoneTwice' /\ Accounted' /\ NothingLost' /\ OnlyStarted'
  BY <1>1, <1>3 DEF NoneTwice, Accounted, NothingLost, OnlyStarted
<1> QED
  BY <1>2, <1>4, <1>5

\* The current case ends: by itself, terminated, or cut short.
LEMMA EndKeepsIInv ==
  ASSUME IInv, EndTestCase \/ TerminateTestCase \/ ReportInterrupted PROVE IInv'
<1> USE DEF IInv
<1> DEFINE t == mCurrentTestId
           failed == TerminateTestCase \/ ~mGotTestResult
           base == IF failed THEN ReportTestFailure(result, t) ELSE result
<1>1. result \in [Tests -> Status] /\ base \in [Tests -> Status]
  BY ReportTypes DEF TypeOK
<1>0. result' = ReportTestEnded(base, t)
  BY DEF EndTestCase, TerminateTestCase, ReportInterrupted, NotifyEnded
<1>2. /\ open' = NoTest /\ ended' = ended \cup ({t} \cap Tests)
      /\ mCurrentTestId' = NoTest
      /\ started' = started /\ mTests' = mTests /\ cutOff' = cutOff /\ batch' = batch
      /\ good' = good /\ runs' = runs /\ installed' = installed
      /\ mCurrentTestLog' = mCurrentTestLog
  BY DEF EndTestCase, TerminateTestCase, ReportInterrupted, NotifyEnded, truthVars,
     deviceVars
<1>3. /\ bad \subseteq bad' /\ bad' \subseteq bad \cup {t}
      /\ t \in Tests \/ bad' = bad
      /\ mGotTestResult' \in BOOLEAN
  BY DEF EndTestCase, TerminateTestCase, ReportInterrupted, truthVars, TypeOK, Accounted
<1>11. bad' # bad => failed
  BY DEF EndTestCase, TerminateTestCase, ReportInterrupted, truthVars
<1>12. logs' \in [Tests -> SUBSET Tests]
  BY DEF EndTestCase, TerminateTestCase, ReportInterrupted, NotifyEnded, TypeOK
<1>4. /\ pc = "exec" /\ pc' \in {"exec", "loop"}
      /\ app' \in {"down", "session"}
      /\ app' # "down" => pc' = "exec" /\ app = "case"
      /\ pc' = "exec" => app' = "session"
  BY DEF EndTestCase, TerminateTestCase, ReportInterrupted, deviceVars, Accounted
<1>5. \A u \in Tests :
         /\ result[u] = "fail" => result'[u] = "fail"
         /\ failed /\ u = t => result'[u] = "fail"
         /\ result'[u] = "pass"
              => result[u] = "pass" \/ (u = t /\ ~failed /\ result[u] # "fail")
         /\ u # t => result'[u] = result[u]
  BY <1>0, <1>1, EndedKeeps, FailureKeeps
<1>6. TypeOK'
  <2>1. result' \in [Tests -> Status]
    BY <1>0, <1>1, ReportTypes
  <2>2. open' \in Tests \cup {NoTest} /\ ended' \in SUBSET Tests /\ mCurrentTestId' \in Ids
    BY <1>2 DEF TypeOK, Ids
  <2>3. bad' \in SUBSET Tests
    BY <1>3 DEF TypeOK
  <2> QED
    BY <1>2, <1>3, <1>4, <1>12, <2>1, <2>2, <2>3 DEF TypeOK, AppStates
<1>7. PassedOnDevice' /\ FailureKept' /\ ResultIsCurrent'
  BY <1>2, <1>3, <1>11, <1>5 DEF PassedOnDevice, FailureKept, ResultIsCurrent, TypeOK
<1>8. NoneTwice'
  <2>1. NoneTwice /\ pc = "exec"
    BY <1>4
  <2> QED
    BY <1>2, <1>4, <2>1 DEF NoneTwice
<1>9. Accounted'
  <2>1. Accounted /\ started \subseteq Tests
    BY DEF TypeOK
  <2>2. t \in Tests => t \in started
    BY <2>1 DEF Accounted
  <2>3. \A u \in started \ ended' : u \in cutOff
    BY <1>2, <2>1 DEF Accounted
  <2> QED
    BY <1>2, <1>4, <2>1, <2>2, <2>3 DEF Accounted
<1>10. NothingLost' /\ OnlyStarted'
  BY <1>2, <1>4, <1>5 DEF NothingLost, OnlyStarted, Accounted
<1> QED
  BY <1>6, <1>7, <1>8, <1>9, <1>10

\* And so does every step.
LEMMA StepIInv == IInv /\ [Next]_vars => IInv'
<1> SUFFICES ASSUME IInv, [Next]_vars PROVE IInv'
  OBVIOUS
<1>1. CASE QuietStep
  BY <1>1, QuietKeepsIInv
<1>2. CASE \E t \in Tests : SkipTest(t)
  BY <1>2, SkipKeepsIInv
<1>3. CASE (\E t \in Tests : BeginTestCase(t)) \/ ExitInsidePath
  BY <1>3, BeginKeepsIInv
<1>4. CASE TestCaseGood \/ TestCaseBad
  BY <1>4, ResultKeepsIInv
<1>5. CASE EndTestCase \/ TerminateTestCase \/ ReportInterrupted
  BY <1>5, EndKeepsIInv
<1> QED
  BY <1>1, <1>2, <1>3, <1>4, <1>5 DEF Next, RunnerStep, AppStep, AppFault, Finished,
     BeginSomeTestCase, QuietStep

\* The inductive invariant of the runner: its loop over sessions, crashes and
\* runs keeps a correct account of every case.
THEOREM Invariance == Spec => []IInv
  BY InitIInv, StepIInv, PTL DEF Spec

\* No case is reported as passed without the device having said so.
THEOREM OnlyEarnedPasses == Spec => []PassedOnDevice
  BY Invariance, PTL DEF IInv

\* No failure the device reported is masked.
THEOREM FailuresKept == Spec => []FailureKept
  BY Invariance, PTL DEF IInv

\* When run() returns, every case has an end but those the device took away.
THEOREM NothingIsLost == Spec => []NothingLost
  BY Invariance, PTL DEF IInv

\* The logs and the buffer of the current case hold that case's data only.  No
\* step puts data in the buffer but of the case the app runs, which is current.
LEMMA LogsStep == ASSUME IInv, LogsBelong, LogIsCurrent, [Next]_vars PROVE LogsBelong' /\ LogIsCurrent'
<1> USE DEF LogsBelong, LogIsCurrent
<1>1. CASE TestLogData
  BY <1>1 DEF TestLogData, listenVars
<1>2. CASE (\E t \in Tests : BeginTestCase(t)) \/ ExitInsidePath
  BY <1>2 DEF BeginTestCase, ExitInsidePath, HandleBegin, NotifyStarted
<1>3. CASE EndTestCase \/ TerminateTestCase \/ ReportInterrupted
  <2>1. /\ mCurrentTestId' = NoTest
        /\ logs' = IF CollectLogs /\ mCurrentTestId \in Tests
                   THEN [logs EXCEPT ![mCurrentTestId] = @ \cup mCurrentTestLog] ELSE logs
    BY <1>3 DEF EndTestCase, TerminateTestCase, ReportInterrupted, NotifyEnded
  <2>2. logs \in [Tests -> SUBSET Tests]
    BY DEF IInv, TypeOK
  <2> QED
    BY <2>1, <2>2, DeqpAssumption
<1>4. CASE (\E t \in Tests : SkipTest(t)) \/ TestCaseGood \/ TestCaseBad
  BY <1>4 DEF SkipTest, TestCaseGood, TestCaseBad, runnerVars, listenVars
<1>5. CASE QuietStep /\ ~TestLogData
  BY <1>5 DEF QuietStep, vars, runnerVars, listenVars, PrepareDevice, PassUnsupported, SkipDone, ExecuteTests,
     NoneInterrupted, AllRun, DeviceLost, RunAgain, BeginSession, EndSession, AppExit, ExitInsideStatus, Finished
<1> QED
  BY <1>1, <1>2, <1>3, <1>4, <1>5 DEF Next, RunnerStep, AppStep, AppFault,
     Finished, BeginSomeTestCase, QuietStep

\* The log saved under a case's name holds that case's data and no other's,
\* whichever way the cases before it ended.
THEOREM LogsAreOwn == Spec => []LogsBelong
<1>1. Init => LogsBelong /\ LogIsCurrent
  BY DEF Init, LogsBelong, LogIsCurrent
<1>2. IInv /\ LogsBelong /\ LogIsCurrent /\ [Next]_vars => LogsBelong' /\ LogIsCurrent'
  BY LogsStep
<1> QED
  BY <1>1, <1>2, Invariance, PTL DEF Spec

-----------------------------------------------------------------------------
(* The runner implements the listener's contract.                          *)

\* Before run() all tests are pending.
LEMMA InitMaps == Init => Listener!Init
  BY DEF Init, Listener!Init, Phase, PhaseOf

\* A change at one case, seen through the mapping.
LEMMA PhaseAt ==
  ASSUME NEW t \in Tests, NEW p, PhaseOf(t)' = p,
         \A u \in Tests \ {t} : PhaseOf(u)' = PhaseOf(u)
  PROVE  Phase' = [Phase EXCEPT ![t] = p]
  BY DEF Phase

\* Phases that are all the same.
LEMMA SamePhase ==
  ASSUME \A u \in Tests : PhaseOf(u)' = PhaseOf(u) PROVE Phase' = Phase
  BY DEF Phase

\* A step that leaves what the listener knows alone is a stutter, or the cut.
LEMMA QuietMaps == ASSUME IInv, QuietStep PROVE [Listener!Next]_(Listener!vars)
<1>1. UNCHANGED <<result, started, ended, open>>
  BY DEF QuietStep, vars, runnerVars, listenVars, PrepareDevice, PassUnsupported,
     ExecuteTests, NoneInterrupted, AllRun, SkipDone, BeginSession, EndSession, AppExit,
     ExitInsideStatus, DeviceLost, RunAgain, TestLogData
<1>2. Phase' = Phase
  BY <1>1, SamePhase DEF PhaseOf
<1>3. (Cut' <=> Cut) \/ Cut'
  <2>1. CASE RunAgain
    BY <2>1 DEF RunAgain, IInv, TypeOK
  <2>2. CASE DeviceLost
    BY <2>2 DEF DeviceLost
  <2>3. CASE ~RunAgain /\ ~DeviceLost
    <3>1. runs' = runs /\ (pc' = pc \/ (pc # "aborted" /\ pc' # "aborted"))
      BY <2>3 DEF QuietStep, vars, PrepareDevice, PassUnsupported, ExecuteTests,
         NoneInterrupted, AllRun, SkipDone, BeginSession, EndSession, AppExit,
         ExitInsideStatus, TestLogData, IInv, Accounted
    <3> QED
      BY <3>1
  <2> QED
    BY <2>1, <2>2, <2>3
<1> QED
  BY <1>2, <1>3 DEF Listener!Next, Listener!Cut, Listener!vars

\* A test that is reported without being run maps to Skip.
LEMMA SkipMaps ==
  ASSUME IInv, NEW t \in Tests, SkipTest(t) PROVE Listener!Next
<1> USE DEF IInv
<1>1. t \notin started /\ result[t] = "absent" /\ t # open
  BY DEF SkipTest, NoneTwice, OnlyStarted, Accounted
<1>2. result \in [Tests -> Status] /\ InsertTest(result, t) \in [Tests -> Status]
  BY ReportTypes DEF TypeOK
<1>3. result'[t] = "pass" /\ \A u \in Tests \ {t} : result'[u] = result[u]
  BY <1>1, <1>2, InsertKeeps, EndedKeeps DEF SkipTest
<1>4. PhaseOf(t) = "pending" /\ PhaseOf(t)' = "passed"
  BY <1>1, <1>3 DEF PhaseOf, SkipTest, Accounted
<1>5. \A u \in Tests \ {t} : PhaseOf(u)' = PhaseOf(u)
  BY <1>3 DEF PhaseOf, SkipTest
<1>6. Phase' = [Phase EXCEPT ![t] = "passed"]
  BY <1>4, <1>5, PhaseAt
<1>7. Phase[t] = "pending" /\ Cut' = Cut
  BY <1>4 DEF Phase, SkipTest
<1> QED
  BY <1>6, <1>7 DEF Listener!Next, Listener!Skip

\* A case that begins was pending; a case still open was cut off before.
LEMMA BeginMaps ==
  ASSUME IInv, NEW t \in Tests, BeginTestCase(t) PROVE Listener!Next
<1> USE DEF IInv
<1>1. t \notin started /\ t \notin ended /\ t # open
  BY DEF BeginTestCase, NoneTwice, Accounted
<1>2. open \in Tests => Cut
  BY DEF Accounted, BeginTestCase
<1>3. \A u \in Tests \ {t} : result'[u] = result[u]
  BY InsertKeeps DEF BeginTestCase, HandleBegin, NotifyStarted, TypeOK
<1>4. /\ open' = t /\ started' = started \cup {t} /\ ended' = ended
      /\ Cut' = Cut
  BY DEF BeginTestCase, HandleBegin, NotifyStarted
<1>5. PhaseOf(t) = "pending" /\ PhaseOf(t)' = "running"
  BY <1>1, <1>4 DEF PhaseOf
<1>6. ASSUME NEW u \in Tests \ {t}
      PROVE PhaseOf(u)' = IF PhaseOf(u) = "running" THEN "lost" ELSE PhaseOf(u)
  BY <1>3, <1>4 DEF PhaseOf, Accounted
<1>7. Phase' = [u \in Tests |-> IF u = t THEN "running"
                               ELSE IF Phase[u] = "running" THEN "lost" ELSE Phase[u]]
  BY <1>5, <1>6 DEF Phase
<1>8. Phase[t] = "pending" /\ (Listener!Running = {} \/ Cut)
  BY <1>2, <1>5 DEF Listener!Running, Phase, PhaseOf
<1> QED
  BY <1>4, <1>7, <1>8 DEF Listener!Next, Listener!Start

\* The app's exit inside a test's path is a stutter or gives the open case up.
LEMMA GarbledMaps ==
  ASSUME IInv, ExitInsidePath PROVE [Listener!Next]_(Listener!vars)
<1> USE DEF IInv
<1>1. open \in Tests => Cut
  BY DEF Accounted, ExitInsidePath
<1>2. \A u \in Tests : result'[u] = result[u]
  BY InsertKeeps DEF ExitInsidePath, HandleBegin, NotifyStarted, TypeOK
<1>3. open' = NoTest /\ started' = started /\ ended' = ended /\ Cut' = Cut
  BY DEF ExitInsidePath, HandleBegin, NotifyStarted, TypeOK
<1>4. ASSUME NEW u \in Tests
      PROVE PhaseOf(u)' = IF PhaseOf(u) = "running" THEN "lost" ELSE PhaseOf(u)
  BY <1>2, <1>3 DEF PhaseOf, Accounted
<1>5. CASE open \in Tests
  <2>1. Phase' = [u \in Tests |-> IF Phase[u] = "running" THEN "lost" ELSE Phase[u]]
    BY <1>4 DEF Phase
  <2> QED
    BY <1>1, <1>3, <1>5, <2>1 DEF Listener!Next, Listener!GiveUp
<1>6. CASE open \notin Tests
  <2>1. \A u \in Tests : PhaseOf(u)' = PhaseOf(u)
    BY <1>2, <1>3, <1>6 DEF PhaseOf
  <2> QED
    BY <1>3, <2>1, SamePhase DEF Listener!vars
<1> QED
  BY <1>5, <1>6

\* A result before the end of its case shows in no phase.
LEMMA ResultMaps ==
  ASSUME IInv, TestCaseGood \/ TestCaseBad PROVE UNCHANGED Listener!vars
<1> USE DEF IInv
<1>1. mCurrentTestId \notin ended
  BY DEF TestCaseGood, TestCaseBad, Accounted
<1>2. \A u \in Tests : u # mCurrentTestId => result'[u] = result[u]
  BY FailureKeeps DEF TestCaseGood, TestCaseBad, TypeOK, listenVars
<1>3. UNCHANGED <<open, started, ended>> /\ Cut' = Cut
  BY DEF TestCaseGood, TestCaseBad, listenVars
<1>4. \A u \in Tests : PhaseOf(u)' = PhaseOf(u)
  BY <1>1, <1>2, <1>3 DEF PhaseOf
<1> QED
  BY <1>3, <1>4, SamePhase DEF Listener!vars

\* The end of a case maps to Finish; that of a case that is no test's, to a stutter.
LEMMA EndMaps ==
  ASSUME IInv, IInv', EndTestCase \/ TerminateTestCase \/ ReportInterrupted
  PROVE [Listener!Next]_(Listener!vars)
<1> DEFINE t == mCurrentTestId
           base == IF TerminateTestCase \/ ~mGotTestResult
                   THEN ReportTestFailure(result, t) ELSE result
<1>1. result \in [Tests -> Status] /\ base \in [Tests -> Status]
  BY ReportTypes DEF TypeOK, IInv
<1>2. result' = ReportTestEnded(base, t)
  BY DEF EndTestCase, TerminateTestCase, ReportInterrupted, NotifyEnded
<1>3. /\ open' = NoTest /\ started' = started /\ ended' = ended \cup ({t} \cap Tests)
  BY DEF EndTestCase, TerminateTestCase, ReportInterrupted, NotifyEnded
<1>4. \A u \in Tests : u # t => result'[u] = result[u]
  BY <1>1, <1>2, EndedKeeps, FailureKeeps
<1>5. Cut' = Cut
  BY DEF EndTestCase, TerminateTestCase, ReportInterrupted, Accounted, IInv
<1>6. open = IF t \in Tests THEN t ELSE NoTest
  BY DEF IInv, Accounted
<1>7. \A u \in Tests \ {t} : PhaseOf(u)' = PhaseOf(u)
  BY <1>3, <1>4, <1>6 DEF PhaseOf
<1>8. CASE t \in Tests
  <2>1. t \in started \ ended
    BY <1>6, <1>8 DEF IInv, Accounted
  <2> PICK c \in Tests : c = t
    BY <1>8
  <2>2. PhaseOf(c) = "running" /\ PhaseOf(c)' \in {"passed", "failed"}
    BY <1>3, <1>6, <1>8, <2>1 DEF PhaseOf
  <2>3. Phase' = [Phase EXCEPT ![c] = PhaseOf(c)'] /\ Phase[c] = "running"
    BY <1>7, <1>8, <2>2, PhaseAt DEF Phase
  <2> QED
    BY <1>5, <1>8, <2>2, <2>3 DEF Listener!Next, Listener!Finish
<1>9. CASE t \notin Tests
  <2>1. \A u \in Tests : PhaseOf(u)' = PhaseOf(u)
    BY <1>7, <1>9
  <2> QED
    BY <1>5, <2>1, SamePhase DEF Listener!vars
<1> QED
  BY <1>8, <1>9

\* Every step maps to a step of the contract or a stutter.
LEMMA StepMaps == IInv /\ IInv' /\ [Next]_vars => [Listener!Next]_(Listener!vars)
<1> SUFFICES ASSUME IInv, IInv', [Next]_vars PROVE [Listener!Next]_(Listener!vars)
  OBVIOUS
<1>1. CASE QuietStep
  BY <1>1, QuietMaps
<1>2. CASE \E t \in Tests : SkipTest(t)
  BY <1>2, SkipMaps
<1>3. CASE \E t \in Tests : BeginTestCase(t)
  BY <1>3, BeginMaps
<1>4. CASE ExitInsidePath
  BY <1>4, GarbledMaps
<1>5. CASE TestCaseGood \/ TestCaseBad
  BY <1>5, ResultMaps
<1>6. CASE EndTestCase \/ TerminateTestCase \/ ReportInterrupted
  BY <1>6, EndMaps
<1> QED
  BY <1>1, <1>2, <1>3, <1>4, <1>5, <1>6 DEF Next, RunnerStep, AppStep, AppFault,
     Finished, BeginSomeTestCase, QuietStep

\* Whatever the app and the device do, the runner starts no case twice, runs
\* one at a time, and gives each one verdict that never changes (TestRun).
THEOREM Refines == Spec => KeepsContract
  BY InitMaps, StepMaps, Invariance, PTL DEF Spec, KeepsContract, Listener!Spec

=============================================================================
