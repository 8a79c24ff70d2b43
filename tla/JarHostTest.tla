---------------------------- MODULE JarHostTest ----------------------------
(***************************************************************************)
(* Host-side test packages (testtype/JarHostTest.java), which CtsTest runs *)
(* one after another.  Every test runs in a thread of its own; the main    *)
(* thread waits for it no longer than mTimeoutMs, interrupts a thread that *)
(* takes longer and leaves it alone.  Such a thread may still call the     *)
(* ResultFilter of its package, and through it the one reporter, later on. *)
(* A test may also deliver a performance report to CtsHostStore, where the *)
(* reporter looks for one when the test run of a package ends.             *)
(***************************************************************************)
EXTENDS Integers, Sequences, TestPackageResult

CONSTANTS
  TestsOf,      \* the tests of each package, in the order of mTests
  Unloadable,   \* tests whose class the jar does not hold
  AbiOf,        \* the ABI each package is run on
  PerfTests     \* tests that may deliver a HostReportLog

Packages == 1 .. Len(TestsOf)

ASSUME Assumption ==
  /\ TestsOf \in Seq(Seq(STRING)) \ {<<>>} /\ Unloadable \subseteq STRING
  /\ AbiOf \in [Packages -> STRING] /\ PerfTests \subseteq STRING

KnownTests(p) == {TestsOf[p][k] : k \in 1 .. Len(TestsOf[p])}
Tests    == UNION {KnownTests(p) : p \in Packages}
\* The thread of the k-th test of package p.
Threads  == UNION {{<<p, k>> : k \in 1 .. Len(TestsOf[p])} : p \in Packages}
Test(th) == TestsOf[th[1]][th[2]]
\* What CtsHostStore files a test's report under, on this one device.
TestKey(q, t) == <<AbiOf[q], t>>

VARIABLES
  pc,         \* where the main thread is
  p, k,       \* the package and the test it is at
  todo,       \* the filters still to report their remaining tests
  thread,     \* the state of every test thread
  lost,       \* threads whose test ends in RuntimeDeviceNotAvailableException
  remaining,  \* ResultFilter.mRemainingTests of every package
  result,     \* the reporter's status of each test of each package
  cur,        \* mCurrentPkgResult
  metrics,    \* the tests in mTestMetrics of each package
  store,      \* the keys under which CtsHostStore holds a report
  timedOut,   \* history: threads that runTimed gave up on
  delivered   \* history: threads that delivered a report

main == <<pc, p, k, todo, timedOut>>
reporter == <<remaining, result, cur, metrics>>
reports == <<store, delivered>>
vars == <<pc, p, k, todo, thread, lost, remaining, result, cur, metrics, store,
          timedOut, delivered>>

Init ==
  /\ pc = "package" /\ p = 1 /\ k = 1 /\ todo = {}
  /\ thread = [th \in Threads |-> "unborn"] /\ lost = {}
  /\ remaining = [q \in Packages |-> KnownTests(q)]
  /\ result = [q \in Packages |-> NewResult(Tests)]
  /\ metrics = [q \in Packages |-> {}] /\ store = {}
  /\ cur = 0 /\ timedOut = {} /\ delivered = {}

-----------------------------------------------------------------------------
(* Listener calls, from whichever thread: the filter of the caller's       *)
(* package, then the reporter's current package.                           *)

\* Faulty form of the next definition: a missing test is created.
FoundOrCreated(t) == TRUE

\* findTest returns a test, not null.
Found(t) == result[cur][t] # "absent"

TestFailed(t) ==
  /\ result' = [result EXCEPT ![cur] = ReportTestFailure(@, t)]
  /\ UNCHANGED <<remaining, cur, metrics>>

TestEnded(q, t) ==
  /\ result' = [result EXCEPT ![cur] = ReportTestEnded(@, t)]
  /\ metrics' = [metrics EXCEPT ![cur] = @ \cup {t}]
  /\ remaining' = [remaining EXCEPT ![q] = @ \ {t}]
  /\ UNCHANGED cur

\* testRunEnded of package q, which goes through the tests that have ended: one
\* whose report CtsHostStore holds passes, and the report is taken from there.
PopulateMetrics(q) ==
  LET passed == {t \in metrics[q] : TestKey(q, t) \in store} IN
  /\ result' = [result EXCEPT ![q] =
                  [t \in Tests |-> IF t \in passed THEN "pass" ELSE result[q][t]]]
  /\ store' = store \ {TestKey(q, t) : t \in passed}

-----------------------------------------------------------------------------
(* A test thread: JUnit's TestResult around the test.                      *)

Become(th, s) == thread' = [thread EXCEPT ![th] = s]

ThreadBegins(th) ==
  /\ thread[th] = "born"
  /\ Become(th, "running")
  /\ result' = [result EXCEPT ![cur] = InsertTest(@, Test(th))]
  /\ UNCHANGED <<main, lost, remaining, cur, metrics, reports>>

\* HostReportLog.deliverReportToHost, also in a thread that was given up.  It is
\* taken to be one that the reporter can read; one that it cannot changes nothing.
Deliver(th) ==
  /\ thread[th] = "running" /\ Test(th) \in PerfTests
  /\ store' = store \cup {TestKey(th[1], Test(th))} /\ delivered' = delivered \cup {th}
  /\ UNCHANGED <<main, thread, lost, reporter>>

BodyPasses(th) ==
  /\ thread[th] = "running"
  /\ Become(th, "ending")
  /\ UNCHANGED <<main, lost, reporter, reports>>

\* A failure of its own, the interrupt's exception included.
BodyFails(th) ==
  /\ thread[th] = "running"
  /\ Become(th, "failing")
  /\ UNCHANGED <<main, lost, reporter, reports>>

BodyLosesDevice(th) ==
  /\ thread[th] = "running"
  /\ Become(th, "failing") /\ lost' = lost \cup {th}
  /\ UNCHANGED <<main, reporter, reports>>

\* A null pointer exception in the reporter ends the thread.
AddError(th) ==
  /\ thread[th] = "failing"
  /\ IF Found(Test(th)) THEN TestFailed(Test(th)) /\ Become(th, "ending")
                        ELSE UNCHANGED reporter /\ Become(th, "dead")
  /\ UNCHANGED <<main, lost, reports>>

EndTest(th) ==
  /\ thread[th] = "ending"
  /\ IF Found(Test(th)) THEN TestEnded(th[1], Test(th)) /\ Become(th, "done")
                        ELSE UNCHANGED reporter /\ Become(th, "dead")
  /\ UNCHANGED <<main, lost, reports>>

ThreadStep(th) ==
  \/ ThreadBegins(th) \/ Deliver(th) \/ BodyPasses(th) \/ BodyFails(th)
  \/ BodyLosesDevice(th) \/ AddError(th) \/ EndTest(th)

-----------------------------------------------------------------------------
(* The main thread.                                                        *)

Over(th) == thread[th] \in {"done", "dead"}

\* CtsTest.forwardPackageDetails, an empty test run, then JarHostTest.run: its
\* own run name is the app package name, which the ResultFilter drops.
BeginPackage ==
  /\ pc = "package"
  /\ cur' = p /\ k' = 1 /\ pc' = "next"
  /\ PopulateMetrics(p)
  /\ UNCHANGED <<p, todo, timedOut, thread, lost, remaining, metrics, delivered>>

\* run(TestResult): a test that cannot be loaded is passed over.
NextTest ==
  /\ pc = "next" /\ k <= Len(TestsOf[p])
  /\ IF Test(<<p, k>>) \in Unloadable
     THEN k' = k + 1 /\ UNCHANGED <<pc, thread>>
     ELSE pc' = "wait" /\ Become(<<p, k>>, "born") /\ UNCHANGED k
  /\ UNCHANGED <<p, todo, timedOut, lost, reporter, reports>>

Joined ==
  /\ pc = "wait" /\ Over(<<p, k>>)
  /\ pc' = "check"
  /\ UNCHANGED <<p, k, todo, timedOut, thread, lost, reporter, reports>>

\* Faulty form of the next definition: wait for the thread however long it takes.
TimedOutAfterEnd ==
  /\ pc = "wait" /\ thread[<<p, k>>] = "ending"
  /\ pc' = "addError"
  /\ UNCHANGED <<p, k, todo, timedOut, thread, lost, reporter, reports>>

\* runTimed gives up and interrupts the thread.
TimedOut ==
  /\ pc = "wait" /\ thread[<<p, k>>] \notin {"born", "done", "dead"}
  /\ pc' = "addError"
  /\ UNCHANGED <<p, k, todo, timedOut, thread, lost, reporter, reports>>

\* Faulty form of the next definition: the timed out test is only ended.
SkipTimeoutError ==
  /\ pc = "addError"
  /\ pc' = "endTest" /\ timedOut' = timedOut \cup {<<p, k>>}
  /\ UNCHANGED <<p, k, todo, thread, lost, reporter, reports>>

AddTimeoutError ==
  /\ pc = "addError"
  /\ TestFailed(Test(<<p, k>>))
  /\ pc' = "endTest" /\ timedOut' = timedOut \cup {<<p, k>>}
  /\ UNCHANGED <<p, k, todo, thread, lost, reports>>

EndTimedOutTest ==
  /\ pc = "endTest"
  /\ TestEnded(p, Test(<<p, k>>))
  /\ pc' = "check"
  /\ UNCHANGED <<p, k, todo, timedOut, thread, lost, reports>>

\* Faulty form of the next definition: the thread's exception is never read.
ExceptionIgnored(th) == FALSE

\* mException, which the thread sets after its test ended.  It is not volatile:
\* after a join the main thread sees it, after a timeout it may or may not.
ExceptionSet(th) == th \in lost /\ thread[th] = "done"

\* It leaves JUnitRunUtil before that ends the test run.
ThrowDeviceLost ==
  /\ pc = "check" /\ ExceptionSet(<<p, k>>)
  /\ pc' = "finally" /\ todo' = Packages
  /\ UNCHANGED <<p, k, timedOut, thread, lost, reporter, reports>>

TestDone ==
  /\ pc = "check" /\ (~ExceptionSet(<<p, k>>) \/ <<p, k>> \in timedOut)
  /\ pc' = "next" /\ k' = k + 1
  /\ UNCHANGED <<p, todo, timedOut, thread, lost, reporter, reports>>

\* The test run ends, whose testRunEnded every ResultFilter forwards; then back
\* in CtsTest's loop.
PackageDone ==
  /\ pc = "next" /\ k > Len(TestsOf[p])
  /\ PopulateMetrics(cur)
  /\ IF p < Len(TestsOf) THEN pc' = "package" /\ p' = p + 1 /\ UNCHANGED todo
                         ELSE pc' = "finally" /\ todo' = Packages /\ UNCHANGED p
  /\ UNCHANGED <<k, timedOut, thread, lost, remaining, cur, metrics, delivered>>

ReportUnexecutedTests(q) ==
  /\ pc = "finally" /\ q \in todo
  /\ todo' = todo \ {q}
  /\ IF remaining[q] = {} THEN UNCHANGED <<pc, cur, result>>
     ELSE /\ pc' = "closing" /\ cur' = q
          /\ result' = [result EXCEPT ![q] =
                          [t \in Tests |-> IF t \in remaining[q]
                                           THEN InsertTest(@, t)[t] ELSE @[t]]]
  /\ UNCHANGED <<p, k, timedOut, thread, lost, remaining, metrics, reports>>

UnexecutedRunEnded ==
  /\ pc = "closing"
  /\ PopulateMetrics(cur)
  /\ pc' = "finally"
  /\ UNCHANGED <<p, k, todo, timedOut, thread, lost, remaining, cur, metrics, delivered>>

LeaveRun ==
  /\ pc = "finally" /\ todo = {}
  /\ pc' = "closed"
  /\ UNCHANGED <<p, k, todo, timedOut, thread, lost, reporter, reports>>

Main ==
  \/ BeginPackage \/ NextTest \/ Joined \/ TimedOut \/ AddTimeoutError
  \/ EndTimedOutTest \/ ThrowDeviceLost \/ TestDone \/ PackageDone
  \/ (\E q \in Packages : ReportUnexecutedTests(q)) \/ UnexecutedRunEnded \/ LeaveRun

Next == Main \/ \E th \in Threads : ThreadStep(th)

Spec == Init /\ [][Next]_vars

\* The main thread and the start of a thread are the virtual machine's to
\* schedule; a test's body may hang for ever.
FairSpec ==
  Spec /\ WF_vars(Main) /\ \A th \in Threads : WF_vars(ThreadBegins(th))
-----------------------------------------------------------------------------
(* Properties.                                                             *)

\* Some thread delivered a report under the key of this thread's test.
Reported(th) == \E x \in delivered : TestKey(x[1], Test(x)) = TestKey(th[1], Test(th))

\* A test that took too long is failed in its own package's results and stays
\* so, whatever its thread, left behind, does later: only a performance report
\* that was delivered for the test passes it, and what it passes never looks
\* unexecuted again.
TimeoutFails ==
  \A th \in timedOut :
    \/ result[th[1]][Test(th)] = "fail"
    \/ result[th[1]][Test(th)] = "pass" /\ Reported(th)

\* JarHostTest.setTimeout: "Tests that take longer than this amount will be
\* failed".  Does not hold: populateMetrics passes one that delivered a report.
TimeoutStaysFailed == \A th \in timedOut : result[th[1]][Test(th)] = "fail"

SharedTests == UNION {KnownTests(x[1]) \cap KnownTests(x[2]) :
                        x \in {y \in Packages \X Packages : y[1] # y[2]}}

\* A verdict comes from a thread of the result's own package that has got so
\* far, or that was given up: a late call of a thread left behind never gives a
\* verdict to another test, or to another package, but for tests they share.
OwnVerdict ==
  \A q \in Packages : \A t \in Tests \ SharedTests :
    result[q][t] \in Executed =>
      \E th \in Threads :
        /\ th[1] = q /\ Test(th) = t
        /\ th \in timedOut \/ thread[th] \in {"ending", "done", "dead"}

\* A device lost inside a test that ended in time stops the package at once:
\* no later test of the invocation is started.
DeviceLossStops ==
  [][\A th \in Threads :
       thread[th] = "unborn" /\ thread'[th] = "born" =>
         ~\E z \in lost \ timedOut : thread[z] = "done"]_vars

\* The invocation ends even if every test hangs.
RunEnds == <>(pc = "closed")

\* CtsHostStore: "there should be no concurrent test for the same (serial,
\* class, method)".  Does not hold: a test left behind by its timeout runs on.
NoConcurrentSameTest ==
  \A x, y \in Threads :
    x # y /\ Test(x) = Test(y) =>
      ~(thread[x] \in {"running", "failing"} /\ thread[y] \in {"running", "failing"})
=============================================================================
