-------------------------- MODULE JarHostTestProofs --------------------------
(***************************************************************************)
(* For any packages, tests and threads left behind: a test that timed out  *)
(* is failed and stays so unless a performance report was delivered for    *)
(* it, verdicts come from threads of their own package, and no test is     *)
(* started once a device was lost.                                         *)
(***************************************************************************)
EXTENDS JarHostTest, TLAPS

-----------------------------------------------------------------------------
(* The inductive invariant.                                                *)

States == {"unborn", "born", "running", "failing", "ending", "done", "dead"}

TypeOK ==
  /\ pc \in {"package", "next", "wait", "addError", "endTest", "check", "finally",
            "closing", "closed"}
  /\ p \in Packages /\ k \in Nat \ {0} /\ todo \subseteq Packages
  /\ thread \in [Threads -> States] /\ lost \subseteq Threads /\ timedOut \subseteq Threads
  /\ remaining \in [Packages -> SUBSET Tests] /\ result \in [Packages -> [Tests -> Status]]
  /\ cur \in {0} \cup Packages
  /\ metrics \in [Packages -> SUBSET Tests] /\ delivered \subseteq Threads

Here == <<p, k>>

AtTest == pc \in {"wait", "addError", "endTest", "check"}

\* The main thread is at a test of its package, whose results are the
\* reporter's; the threads of later tests do not exist yet.
PlaceInv ==
  /\ AtTest => k <= Len(TestsOf[p])
  /\ AtTest \/ pc = "next" => cur = p
  /\ pc = "closing" => cur \in Packages
  /\ pc \notin {"finally", "closing", "closed"} =>
       \A th \in Threads : thread[th] # "unborn" =>
         \/ th[1] < p
         \/ th[1] = p /\ pc # "package" /\ (th[2] < k \/ (th[2] = k /\ AtTest))
  /\ cur = 0 => \A th \in Threads : thread[th] = "unborn"
  /\ \A th \in timedOut : thread[th] # "unborn"

\* A thread that the main thread has not given up on is the one it waits for.
CurrentInv ==
  /\ \A th \in Threads : thread[th] = "born" => th = Here /\ pc = "wait"
  /\ \A th \in Threads \ timedOut :
       thread[th] \in {"running", "failing", "ending"} => th = Here /\ pc \in {"wait", "addError"}
  /\ pc = "addError" => thread[Here] \notin {"unborn", "born"}
  /\ pc \in {"wait", "addError"} => Here \notin timedOut /\ thread[Here] # "unborn"
  /\ pc = "endTest" => Here \in timedOut
  /\ pc = "check" => Here \in timedOut \/ Over(Here)

\* Every package holds its own tests only, and those a thread has begun.
OwnTests ==
  /\ \A q \in Packages : remaining[q] \subseteq KnownTests(q)
  /\ \A q \in Packages : \A t \in Tests : result[q][t] # "absent" => t \in KnownTests(q)
  /\ \A th \in Threads :
       thread[th] \notin {"unborn", "born"} => result[th[1]][Test(th)] # "absent"

\* A lost device is noticed before the main thread goes on to the next test.
LossInv ==
  \A th \in lost \ timedOut :
    thread[th] = "done" =>
      \/ th = Here /\ pc \in {"wait", "addError", "check"}
      \/ pc \in {"finally", "closing", "closed"}

\* populateMetrics finds only tests that have a verdict, and a report only under
\* the key of a test that a thread delivered one for.
ReportsInv ==
  /\ \A q \in Packages : \A t \in metrics[q] : result[q][t] \in Executed
  /\ \A key \in store : \E x \in delivered : key = TestKey(x[1], Test(x))

IInv ==
  TypeOK /\ PlaceInv /\ CurrentInv /\ OwnTests /\ LossInv /\ TimeoutFails /\ OwnVerdict
  /\ ReportsInv

-----------------------------------------------------------------------------
(* Threads, tests and statuses.                                            *)

\* A thread is named by a package and a place in its tests.
LEMMA ThreadFacts ==
  ASSUME NEW th \in Threads
  PROVE  /\ th[1] \in Packages /\ th[2] \in 1 .. Len(TestsOf[th[1]])
         /\ th = <<th[1], th[2]>>
         /\ Test(th) \in KnownTests(th[1]) /\ Test(th) \in Tests
<1>1. PICK q \in Packages : \E j \in 1 .. Len(TestsOf[q]) : th = <<q, j>>
  BY DEF Threads
<1>2. PICK j \in 1 .. Len(TestsOf[q]) : th = <<q, j>>
  BY <1>1
<1>3. th[1] = q /\ th[2] = j
  BY <1>2
<1>4. Test(th) \in KnownTests(q)
  BY <1>2, <1>3 DEF Test, KnownTests
<1> QED
  BY <1>2, <1>3, <1>4 DEF Tests

\* At a test, the main thread's place is a thread.
LEMMA HereFacts ==
  ASSUME TypeOK, PlaceInv, AtTest
  PROVE  Here \in Threads /\ Here[1] = p /\ Here[2] = k /\ cur = p
<1>1. k \in 1 .. Len(TestsOf[p]) /\ p \in Packages
  BY Assumption DEF TypeOK, PlaceInv, Packages
<1>2. <<p, k>> \in {<<p, j>> : j \in 1 .. Len(TestsOf[p])}
  BY <1>1
<1> QED
  BY <1>1, <1>2 DEF Here, Threads, PlaceInv

\* The listener's calls keep a result a function from the tests to statuses.
LEMMA ResultTypes ==
  ASSUME NEW S, NEW r \in [S -> Status], NEW t
  PROVE  /\ InsertTest(r, t) \in [S -> Status]
         /\ ReportTestFailure(r, t) \in [S -> Status]
         /\ ReportTestEnded(r, t) \in [S -> Status]
BY DEF InsertTest, ReportTestFailure, ReportTestEnded, Status, Executed

\* They change the status of one test, which is then in the tree; only an end
\* that follows no failure passes it.
LEMMA CallsOfListener ==
  ASSUME NEW S, NEW r \in [S -> Status], NEW t, NEW x \in S
  PROVE  /\ InsertTest(r, t)[x] # r[x] => x = t /\ r[x] = "absent" /\ InsertTest(r, t)[x] = "notExecuted"
         /\ ReportTestFailure(r, t)[x] = IF x = t THEN "fail" ELSE r[x]
         /\ ReportTestEnded(r, t)[x] # r[x] => x = t /\ r[x] # "fail" /\ ReportTestEnded(r, t)[x] = "pass"
         /\ x = t => InsertTest(r, t)[x] # "absent"
BY DEF InsertTest, ReportTestFailure, ReportTestEnded, Status, Executed

\* A test that ends, and is in the tree, has a verdict.
LEMMA EndGivesVerdict ==
  ASSUME NEW S, NEW r \in [S -> Status], NEW x \in S
  PROVE  ReportTestEnded(r, x)[x] \in Executed
BY DEF ReportTestEnded, Executed

Late == {"ending", "done", "dead"}

\* What a step may do to the results: it touches tests of the package only,
\* never a failure, and gives a verdict for a thread that has got so far.
LEMMA ResultMoves ==
  ASSUME IInv, TypeOK', NEW u, timedOut \subseteq timedOut',
         \A q \in Packages : \A t \in Tests : result'[q][t] # result[q][t] =>
           /\ t \in KnownTests(q) /\ result'[q][t] # "absent" /\ result[q][t] # "fail"
           /\ result'[q][t] = "notExecuted" => result[q][t] = "absent"
           /\ result'[q][t] \in Executed =>
                /\ u \in Threads /\ q = cur /\ t = Test(u)
                /\ u \in timedOut' \/ thread'[u] \in Late,
         \A q \in Packages : remaining'[q] \subseteq remaining[q],
         \A th \in Threads : thread[th] \in Late => thread'[th] \in Late,
         \A th \in Threads : thread'[th] \notin {"unborn", "born"} =>
           thread[th] \notin {"unborn", "born"} \/ result'[th[1]][Test(th)] # "absent",
         \A th \in timedOut' \ timedOut : result'[th[1]][Test(th)] = "fail",
         \A q \in Packages : \A t \in metrics'[q] : t \in metrics[q] \/ result'[q][t] \in Executed,
         UNCHANGED reports
  PROVE  OwnTests' /\ TimeoutFails' /\ OwnVerdict' /\ ReportsInv'
<1> USE DEF IInv
<1>0. /\ store' = store /\ delivered' = delivered
      /\ \A q \in Packages : \A t \in Tests : result[q][t] \in Executed => result'[q][t] \in Executed
  <2>1. store' = store /\ delivered' = delivered
    BY DEF reports
  <2>2. \A q \in Packages : \A t \in Tests : result'[q][t] \in Status
    BY DEF TypeOK
  <2> QED
    BY <2>1, <2>2 DEF Status, Executed
<1>1. OwnTests'
  <2>1. \A q \in Packages : remaining'[q] \subseteq KnownTests(q)
    BY DEF OwnTests
  <2>2. \A q \in Packages : \A t \in Tests : result'[q][t] # "absent" => t \in KnownTests(q)
    BY DEF OwnTests
  <2>3. ASSUME NEW th \in Threads, thread'[th] \notin {"unborn", "born"}
        PROVE  result'[th[1]][Test(th)] # "absent"
    BY <2>3, ThreadFacts DEF OwnTests
  <2> QED
    BY <2>1, <2>2, <2>3 DEF OwnTests
<1>2. TimeoutFails'
  <2> SUFFICES ASSUME NEW th \in timedOut'
               PROVE  \/ result'[th[1]][Test(th)] = "fail"
                      \/ result'[th[1]][Test(th)] = "pass" /\ Reported(th)'
    BY DEF TimeoutFails
  <2>1. CASE th \in timedOut
    <3>1. /\ th \in Threads
          /\ \/ result[th[1]][Test(th)] = "fail"
             \/ result[th[1]][Test(th)] = "pass" /\ Reported(th)
      BY <2>1 DEF TimeoutFails, TypeOK
    <3>2. th[1] \in Packages /\ Test(th) \in Tests
      BY <3>1, ThreadFacts
    <3>3. Reported(th) => Reported(th)'
      BY <1>0 DEF Reported
    <3>4. result'[th[1]][Test(th)] \in Executed
      BY <1>0, <3>1, <3>2 DEF Executed
    <3> QED
      BY <3>1, <3>2, <3>3, <3>4 DEF Executed
  <2> QED
    BY <2>1
<1>3. OwnVerdict'
  <2> SUFFICES ASSUME NEW q \in Packages, NEW t \in Tests \ SharedTests, result'[q][t] \in Executed
               PROVE  \E th \in Threads :
                        /\ th[1] = q /\ Test(th) = t
                        /\ th \in timedOut' \/ thread'[th] \in Late
    BY DEF OwnVerdict, Late
  <2>1. CASE result'[q][t] = result[q][t]
    <3>1. PICK th \in Threads : /\ th[1] = q /\ Test(th) = t
                                /\ th \in timedOut \/ thread[th] \in Late
      BY <2>1 DEF OwnVerdict, Late
    <3> QED
      BY <3>1
  <2>2. CASE result'[q][t] # result[q][t]
    <3>1. /\ t \in KnownTests(q) /\ u \in Threads /\ t = Test(u)
          /\ u \in timedOut' \/ thread'[u] \in Late
      BY <2>2
    <3>2. u[1] \in Packages /\ t \in KnownTests(u[1])
      BY <3>1, ThreadFacts
    <3>3. u[1] # q => t \in SharedTests
      <4> SUFFICES ASSUME u[1] # q PROVE t \in SharedTests
        OBVIOUS
      <4>1. <<u[1], q>> \in {y \in Packages \X Packages : y[1] # y[2]}
        BY <3>2
      <4>2. t \in KnownTests(<<u[1], q>>[1]) \cap KnownTests(<<u[1], q>>[2])
        BY <3>1, <3>2
      <4> QED
        BY <4>1, <4>2 DEF SharedTests
    <3> QED
      BY <3>1, <3>3
  <2> QED
    BY <2>1, <2>2
<1>4. ReportsInv'
  <2>1. \A q \in Packages : metrics'[q] \subseteq Tests
    BY DEF TypeOK
  <2>2. \A q \in Packages : \A t \in metrics'[q] : result'[q][t] \in Executed
    BY <1>0, <2>1 DEF ReportsInv
  <2> QED
    BY <1>0, <2>2 DEF ReportsInv
<1> QED
  BY <1>1, <1>2, <1>3, <1>4

\* populateMetrics passes tests that have a verdict and a report of their own.
LEMMA PopulateMoves ==
  ASSUME IInv, NEW q \in Packages, PopulateMetrics(q),
         UNCHANGED <<timedOut, thread, remaining, metrics, delivered>>
  PROVE  /\ result' \in [Packages -> [Tests -> Status]]
         /\ OwnTests' /\ TimeoutFails' /\ OwnVerdict' /\ ReportsInv'
<1> USE DEF IInv
<1> DEFINE passed == {t \in metrics[q] : TestKey(q, t) \in store}
<1>1. /\ result' = [result EXCEPT ![q] =
                     [t \in Tests |-> IF t \in passed THEN "pass" ELSE result[q][t]]]
      /\ store' \subseteq store
  BY DEF PopulateMetrics
<1>2. \A t \in passed : result[q][t] \in Executed /\ TestKey(q, t) \in store
  BY DEF ReportsInv
<1> HIDE DEF passed
<1>3. result \in [Packages -> [Tests -> Status]] /\ "pass" \in Status
  BY DEF TypeOK, Status, Executed
<1>4. result' \in [Packages -> [Tests -> Status]]
  <2>1. [t \in Tests |-> IF t \in passed THEN "pass" ELSE result[q][t]] \in [Tests -> Status]
    BY <1>3
  <2> QED
    BY <1>1, <1>3, <2>1
<1>5. \A x \in Packages : \A t \in Tests :
        result'[x][t] = IF x = q /\ t \in passed THEN "pass" ELSE result[x][t]
  BY <1>1, <1>3
<1>6. \A x \in Packages : \A t \in Tests :
        /\ result'[x][t] = "absent" <=> result[x][t] = "absent"
        /\ result'[x][t] \in Executed <=> result[x][t] \in Executed
  BY <1>2, <1>5 DEF Executed
<1>7. OwnTests'
  BY <1>6, ThreadFacts DEF OwnTests
<1>8. TimeoutFails'
  <2> SUFFICES ASSUME NEW th \in timedOut
               PROVE  \/ result'[th[1]][Test(th)] = "fail"
                      \/ result'[th[1]][Test(th)] = "pass" /\ Reported(th)'
    BY DEF TimeoutFails
  <2>1. /\ th \in Threads
        /\ \/ result[th[1]][Test(th)] = "fail"
           \/ result[th[1]][Test(th)] = "pass" /\ Reported(th)
    BY DEF TimeoutFails, TypeOK
  <2>2. th[1] \in Packages /\ Test(th) \in Tests
    BY <2>1, ThreadFacts
  <2>3. Reported(th) => Reported(th)'
    BY DEF Reported
  <2>4. CASE th[1] = q /\ Test(th) \in passed
    <3>1. result'[th[1]][Test(th)] = "pass"
      BY <1>5, <2>2, <2>4
    <3>2. PICK x \in delivered : TestKey(th[1], Test(th)) = TestKey(x[1], Test(x))
      BY <1>2, <2>4 DEF ReportsInv
    <3>3. Reported(th)
      BY <3>2 DEF Reported
    <3> QED
      BY <2>3, <3>1, <3>3
  <2>5. CASE ~(th[1] = q /\ Test(th) \in passed)
    <3>1. result'[th[1]][Test(th)] = result[th[1]][Test(th)]
      BY <1>5, <2>2, <2>5
    <3> QED
      BY <2>1, <2>3, <3>1
  <2> QED
    BY <2>4, <2>5
<1>9. OwnVerdict'
  BY <1>6 DEF OwnVerdict
<1>10. ReportsInv'
  <2>1. \A x \in Packages : metrics[x] \subseteq Tests
    BY DEF TypeOK
  <2> QED
    BY <1>1, <1>6, <2>1 DEF ReportsInv
<1> QED
  BY <1>4, <1>7, <1>8, <1>9, <1>10

\* At the beginning no thread exists and no package has results.
LEMMA InitInv == ASSUME Init PROVE IInv
<1> USE DEF Init
<1>1. 1 \in Packages
  BY Assumption DEF Packages
<1>2. \A q \in Packages : KnownTests(q) \subseteq Tests
  BY DEF Tests
<1>3. TypeOK
  BY <1>1, <1>2 DEF TypeOK, States, NewResult, Status
<1>4. PlaceInv /\ CurrentInv /\ LossInv
  BY DEF PlaceInv, CurrentInv, LossInv, AtTest
<1>5. OwnTests /\ TimeoutFails /\ OwnVerdict /\ ReportsInv
  BY DEF OwnTests, TimeoutFails, OwnVerdict, ReportsInv, NewResult, Executed
<1> QED
  BY <1>3, <1>4, <1>5 DEF IInv

-----------------------------------------------------------------------------
(* The steps of a test's thread.                                           *)

\* A thread that goes on and is not given up is the one that is waited for.
LEMMA ThreadMoves ==
  ASSUME IInv, NEW th \in Threads, NEW s \in States \ {"unborn", "born"},
         thread' = [thread EXCEPT ![th] = s], thread[th] \notin {"unborn", "done", "dead"},
         UNCHANGED <<main, cur>>,
         lost' = lost \/ (lost' = lost \cup {th} /\ s # "done")
  PROVE  PlaceInv' /\ CurrentInv' /\ LossInv'
<1> USE DEF IInv, main
<1>1. Here' = Here /\ AtTest' = AtTest /\ cur # 0
  BY DEF Here, AtTest, PlaceInv
<1>2. thread'[th] = s /\ \A x \in Threads \ {th} : thread'[x] = thread[x]
  BY DEF TypeOK
<1>3. PlaceInv'
  BY <1>1, <1>2 DEF PlaceInv, TypeOK
<1>4. th \notin timedOut => th = Here /\ pc \in {"wait", "addError"}
  BY DEF CurrentInv, TypeOK, States
<1>5. CurrentInv'
  <2>1. pc \in {"wait", "addError", "check"} => Here \in Threads
    BY HereFacts DEF AtTest
  <2> QED
    BY <1>1, <1>2, <1>4, <2>1 DEF CurrentInv, Over
<1>6. LossInv'
  BY <1>1, <1>2, <1>4 DEF LossInv, TypeOK
<1> QED
  BY <1>3, <1>5, <1>6

\* A call that reaches the reporter leaves a function from tests to statuses.
LEMMA ReporterTypes ==
  ASSUME TypeOK, NEW q \in Packages, NEW t, NEW r, 
         \/ r = [result EXCEPT ![q] = InsertTest(@, t)]
         \/ r = [result EXCEPT ![q] = ReportTestFailure(@, t)]
         \/ r = [result EXCEPT ![q] = ReportTestEnded(@, t)]
  PROVE  r \in [Packages -> [Tests -> Status]]
<1>1. result[q] \in [Tests -> Status] /\ result \in [Packages -> [Tests -> Status]]
  BY DEF TypeOK
<1> QED
  BY <1>1, ResultTypes

\* ThreadBegins: testStarted inserts the test in its own package.
LEMMA BeginsStep ==
  ASSUME IInv, NEW th \in Threads, ThreadBegins(th)
  PROVE  IInv'
<1>1. /\ thread[th] = "born" /\ thread' = [thread EXCEPT ![th] = "running"]
      /\ result' = [result EXCEPT ![cur] = InsertTest(@, Test(th))]
      /\ UNCHANGED main /\ lost' = lost /\ remaining' = remaining /\ cur' = cur /\ timedOut' = timedOut
      /\ metrics' = metrics /\ UNCHANGED reports /\ delivered' = delivered
  BY DEF ThreadBegins, Become, main, reports
<1>2. th = Here /\ th[1] = cur /\ cur \in Packages
  BY <1>1, HereFacts DEF IInv, CurrentInv, AtTest, TypeOK
<1>3. TypeOK'
  BY <1>1, <1>2, ReporterTypes DEF IInv, TypeOK, States, main
<1>4. PlaceInv' /\ CurrentInv' /\ LossInv'
  BY <1>1, ThreadMoves DEF States
<1>5. Test(th) \in KnownTests(cur) /\ Test(th) \in Tests
  BY <1>2, ThreadFacts
<1>6. \A q \in Packages : \A t \in Tests : result'[q][t] # result[q][t] =>
        q = cur /\ t = Test(th) /\ result'[q][t] = "notExecuted" /\ result[q][t] = "absent"
  BY <1>1, <1>2, CallsOfListener DEF IInv, TypeOK
<1>7. result'[th[1]][Test(th)] # "absent"
  BY <1>1, <1>2, <1>5, CallsOfListener DEF IInv, TypeOK
<1>8. \A x \in Threads : /\ thread[x] \in Late => thread'[x] \in Late
                         /\ x # th => thread'[x] = thread[x]
  BY <1>1 DEF IInv, TypeOK, Late
<1>9. OwnTests' /\ TimeoutFails' /\ OwnVerdict' /\ ReportsInv'
  BY <1>1, <1>3, <1>5, <1>6, <1>7, <1>8, ResultMoves DEF Executed
<1> QED
  BY <1>3, <1>4, <1>9 DEF IInv

\* Deliver: a report of the thread's own test is stored, and nothing reported.
LEMMA DeliverStep ==
  ASSUME IInv, NEW th \in Threads, Deliver(th)
  PROVE  IInv'
<1>1. /\ store' = store \cup {TestKey(th[1], Test(th))} /\ delivered' = delivered \cup {th}
      /\ UNCHANGED <<pc, p, k, todo, timedOut, thread, lost, remaining, result, cur, metrics>>
  BY DEF Deliver, main, reporter
<1>2. TypeOK' /\ PlaceInv' /\ CurrentInv' /\ LossInv'
  BY <1>1 DEF IInv, TypeOK, PlaceInv, CurrentInv, LossInv, Here, AtTest, Over
<1>3. OwnTests' /\ OwnVerdict'
  BY <1>1 DEF IInv, OwnTests, OwnVerdict
<1>4. TimeoutFails'
  <2>1. \A x \in timedOut : Reported(x) => Reported(x)'
    BY <1>1 DEF Reported
  <2> QED
    BY <1>1, <2>1 DEF IInv, TimeoutFails
<1>5. ReportsInv'
  BY <1>1 DEF IInv, ReportsInv
<1> QED
  BY <1>2, <1>3, <1>4, <1>5 DEF IInv

\* BodyPasses, BodyFails, BodyLosesDevice: nothing is reported yet.
LEMMA BodyStep ==
  ASSUME IInv, NEW th \in Threads, BodyPasses(th) \/ BodyFails(th) \/ BodyLosesDevice(th)
  PROVE  IInv'
<1>1. /\ thread[th] = "running" /\ UNCHANGED main /\ timedOut' = timedOut
      /\ remaining' = remaining /\ result' = result /\ cur' = cur
      /\ metrics' = metrics /\ UNCHANGED reports /\ delivered' = delivered
      /\ lost' = lost \/ lost' = lost \cup {th}
  BY DEF BodyPasses, BodyFails, BodyLosesDevice, main, reporter, reports
<1>2. PICK s \in {"ending", "failing"} : thread' = [thread EXCEPT ![th] = s]
  BY DEF BodyPasses, BodyFails, BodyLosesDevice, Become
<1>3. TypeOK'
  BY <1>1, <1>2 DEF IInv, TypeOK, States, main
<1>4. PlaceInv' /\ CurrentInv' /\ LossInv'
  BY <1>1, <1>2, ThreadMoves DEF States
<1>5. \A x \in Threads : /\ thread[x] \in Late => thread'[x] \in Late
                         /\ thread'[x] # thread[x] => thread[x] = "running"
  BY <1>1, <1>2 DEF IInv, TypeOK, Late
<1>6. OwnTests' /\ TimeoutFails' /\ OwnVerdict' /\ ReportsInv'
  BY <1>1, <1>3, <1>5, ResultMoves
<1> QED
  BY <1>3, <1>4, <1>6 DEF IInv

\* AddError and EndTest of a test that the current package has.
LEMMA ReportedStep ==
  ASSUME IInv, NEW th \in Threads, NEW s \in Late, s # "dead",
         thread[th] \in {"failing", "ending"}, thread' = [thread EXCEPT ![th] = s],
         Found(Test(th)), UNCHANGED <<main, lost, reports>>,
         \/ TestFailed(Test(th))
         \/ TestEnded(th[1], Test(th))
  PROVE  IInv'
<1>1. UNCHANGED <<main, timedOut, cur, lost, reports, delivered>>
  BY DEF main, reports, TestFailed, TestEnded
<1>2. th[1] \in Packages /\ Test(th) \in Tests
  BY ThreadFacts
<1>3. cur \in Packages /\ Test(th) \in KnownTests(cur)
  BY <1>2 DEF IInv, TypeOK, PlaceInv, OwnTests, Found
<1>4. TypeOK'
  <2>1. result' \in [Packages -> [Tests -> Status]]
    BY <1>3, ReporterTypes DEF IInv, TestFailed, TestEnded
  <2>2. remaining' \in [Packages -> SUBSET Tests]
    BY <1>2 DEF IInv, TypeOK, TestFailed, TestEnded
  <2>3. thread' \in [Threads -> States]
    BY DEF IInv, TypeOK, Late, States
  <2>4. metrics' \in [Packages -> SUBSET Tests]
    BY <1>2, <1>3 DEF IInv, TypeOK, TestFailed, TestEnded
  <2> QED
    BY <1>1, <2>1, <2>2, <2>3, <2>4 DEF IInv, TypeOK, main
<1>5. PlaceInv' /\ CurrentInv' /\ LossInv'
  BY <1>1, ThreadMoves DEF Late, States
<1>6. \A q \in Packages : \A t \in Tests : result'[q][t] # result[q][t] =>
        /\ q = cur /\ t = Test(th) /\ result'[q][t] \notin {"absent", "notExecuted"}
        /\ result[q][t] # "fail"
  <2>1. CASE TestFailed(Test(th))
    BY <2>1, <1>3, CallsOfListener DEF IInv, TypeOK, TestFailed
  <2>2. CASE TestEnded(th[1], Test(th))
    BY <2>2, <1>3, CallsOfListener DEF IInv, TypeOK, TestEnded
  <2> QED
    BY <2>1, <2>2
<1>7. \A q \in Packages : remaining'[q] \subseteq remaining[q]
  BY <1>2 DEF IInv, TypeOK, TestFailed, TestEnded
<1>8. /\ \A x \in Threads : /\ thread[x] \in Late => thread'[x] \in Late
                            /\ thread'[x] # thread[x] => thread[x] \in {"failing", "ending"}
      /\ thread'[th] \in Late
  BY DEF IInv, TypeOK
<1>9. \A q \in Packages : \A t \in metrics'[q] : t \in metrics[q] \/ result'[q][t] \in Executed
  <2>1. CASE TestFailed(Test(th))
    BY <2>1 DEF TestFailed
  <2>2. CASE TestEnded(th[1], Test(th))
    <3>1. \A q \in Packages : \A t \in metrics'[q] : t \in metrics[q] \/ (q = cur /\ t = Test(th))
      BY <1>3, <2>2 DEF IInv, TypeOK, TestEnded
    <3>2. result'[cur][Test(th)] \in Executed
      <4>1. result[cur] \in [Tests -> Status] /\ result' = [result EXCEPT ![cur] = ReportTestEnded(@, Test(th))]
        BY <1>3, <2>2 DEF IInv, TypeOK, TestEnded
      <4> QED
        BY <1>2, <1>3, <4>1, EndGivesVerdict DEF IInv, TypeOK
    <3> QED
      BY <3>1, <3>2
  <2> QED
    BY <2>1, <2>2
<1>10. OwnTests' /\ TimeoutFails' /\ OwnVerdict' /\ ReportsInv'
  BY <1>1, <1>3, <1>4, <1>6, <1>7, <1>8, <1>9, ResultMoves
<1> QED
  BY <1>4, <1>5, <1>10 DEF IInv

\* AddError and EndTest of one that it has not: the thread dies of it.
LEMMA DiesStep ==
  ASSUME IInv, NEW th \in Threads, thread[th] \in {"failing", "ending"},
         thread' = [thread EXCEPT ![th] = "dead"], UNCHANGED <<main, lost, reporter, reports>>
  PROVE  IInv'
<1>1. UNCHANGED <<main, timedOut, cur, lost, remaining, result, metrics, reports, delivered>>
  BY DEF main, reporter, reports
<1>2. TypeOK'
  BY <1>1 DEF IInv, TypeOK, States, main
<1>3. PlaceInv' /\ CurrentInv' /\ LossInv'
  BY <1>1, ThreadMoves DEF States
<1>4. \A x \in Threads : /\ thread[x] \in Late => thread'[x] \in Late
                         /\ thread'[x] # thread[x] => thread[x] \in {"failing", "ending"}
  BY DEF IInv, TypeOK, Late
<1>5. OwnTests' /\ TimeoutFails' /\ OwnVerdict' /\ ReportsInv'
  BY <1>1, <1>2, <1>4, ResultMoves
<1> QED
  BY <1>2, <1>3, <1>5 DEF IInv

\* Every step of a test's thread, left behind or not.
LEMMA ThreadStepInv ==
  ASSUME IInv, NEW th \in Threads, ThreadStep(th)
  PROVE  IInv'
<1>1. CASE AddError(th)
  <2>1. CASE Found(Test(th))
    BY <1>1, <2>1, ReportedStep DEF AddError, Become, Late
  <2>2. CASE ~Found(Test(th))
    BY <1>1, <2>2, DiesStep DEF AddError, Become
  <2> QED
    BY <2>1, <2>2
<1>2. CASE EndTest(th)
  <2>1. CASE Found(Test(th))
    BY <1>2, <2>1, ReportedStep DEF EndTest, Become, Late
  <2>2. CASE ~Found(Test(th))
    BY <1>2, <2>2, DiesStep DEF EndTest, Become
  <2> QED
    BY <2>1, <2>2
<1> QED
  BY <1>1, <1>2, BeginsStep, DeliverStep, BodyStep DEF ThreadStep

-----------------------------------------------------------------------------
(* The steps of the main thread.                                           *)

\* A step that leaves the results and the threads alone.
LEMMA QuietResults ==
  ASSUME IInv, TypeOK', UNCHANGED <<timedOut, thread, remaining, result, metrics, store, delivered>>
  PROVE  OwnTests' /\ TimeoutFails' /\ OwnVerdict' /\ ReportsInv'
BY DEF IInv, OwnTests, TimeoutFails, OwnVerdict, ReportsInv, Reported

\* BeginPackage: the next package, none of whose tests was begun.
LEMMA BeginPackageStep == ASSUME IInv, BeginPackage PROVE IInv'
<1>1. /\ pc = "package" /\ cur' = p /\ k' = 1 /\ pc' = "next" /\ p' = p /\ todo' = todo
      /\ timedOut' = timedOut /\ thread' = thread /\ lost' = lost
      /\ remaining' = remaining /\ metrics' = metrics /\ delivered' = delivered
  BY DEF BeginPackage
<1>2. TypeOK' /\ OwnTests' /\ TimeoutFails' /\ OwnVerdict' /\ ReportsInv'
  <2>1. p \in Packages /\ PopulateMetrics(p)
    BY DEF BeginPackage, IInv, TypeOK
  <2>2. /\ result' \in [Packages -> [Tests -> Status]]
        /\ OwnTests' /\ TimeoutFails' /\ OwnVerdict' /\ ReportsInv'
    BY <1>1, <2>1, PopulateMoves
  <2> QED
    BY <1>1, <2>2 DEF IInv, TypeOK
<1>3. ~AtTest' /\ p # 0
  BY <1>1 DEF AtTest, IInv, TypeOK, Packages
<1>4. PlaceInv'
  BY <1>1, <1>3 DEF IInv, PlaceInv
<1>5. CurrentInv' /\ LossInv'
  BY <1>1 DEF IInv, CurrentInv, LossInv
<1> QED
  BY <1>2, <1>4, <1>5 DEF IInv

\* NextTest: passed over, or its thread is started.
LEMMA NextTestStep ==
  ASSUME IInv, NextTest
  PROVE  /\ IInv'
         /\ \A th \in lost \ timedOut : thread[th] # "done"
<1>1. /\ pc = "next" /\ k <= Len(TestsOf[p]) /\ p' = p /\ todo' = todo /\ timedOut' = timedOut
      /\ lost' = lost /\ remaining' = remaining /\ result' = result /\ cur' = cur
      /\ metrics' = metrics /\ UNCHANGED reports /\ store' = store /\ delivered' = delivered
      /\ \/ k' = k + 1 /\ pc' = pc /\ thread' = thread
         \/ pc' = "wait" /\ thread' = [thread EXCEPT ![Here] = "born"] /\ k' = k
  BY DEF NextTest, Become, reporter, reports, Here
<1>2. ~AtTest /\ p \in Packages /\ k \in Nat \ {0}
  BY <1>1 DEF AtTest, IInv, TypeOK
<1>3. Here \in Threads /\ Here[1] = p /\ Here[2] = k
  <2>1. k \in 1 .. Len(TestsOf[p])
    BY <1>1, <1>2, Assumption DEF Packages
  <2> QED
    BY <1>2, <2>1 DEF Here, Threads
<1>4. \A th \in Threads : thread[th] # "unborn" => th[1] < p \/ (th[1] = p /\ th[2] < k)
  BY <1>1, <1>2 DEF IInv, PlaceInv
<1>5. thread[Here] = "unborn" /\ Here \notin timedOut
  BY <1>2, <1>3, <1>4 DEF IInv, PlaceInv, TypeOK, Packages
<1>6. \A th \in lost \ timedOut : thread[th] # "done"
  BY <1>1 DEF IInv, LossInv
<1>7. TypeOK'
  BY <1>1, <1>2, <1>3 DEF IInv, TypeOK, States
<1>8. CASE k' = k + 1 /\ pc' = pc /\ thread' = thread
  <2>1. PlaceInv'
    BY <1>1, <1>2, <1>4, <1>8, ThreadFacts DEF IInv, PlaceInv, AtTest
  <2>2. CurrentInv' /\ LossInv'
    BY <1>1, <1>8 DEF IInv, CurrentInv, LossInv
  <2> QED
    BY <1>1, <1>6, <1>7, <1>8, <2>1, <2>2, QuietResults DEF IInv
<1>9. CASE pc' = "wait" /\ thread' = [thread EXCEPT ![Here] = "born"] /\ k' = k
  <2>1. thread'[Here] = "born" /\ \A th \in Threads \ {Here} : thread'[th] = thread[th]
    BY <1>3, <1>9 DEF IInv, TypeOK
  <2>2. Here' = Here /\ AtTest'
    BY <1>1, <1>9 DEF Here, AtTest
  <2>3. PlaceInv'
    BY <1>1, <1>2, <1>3, <1>4, <1>5, <1>9, <2>1, <2>2 DEF IInv, PlaceInv, TypeOK, Packages
  <2>4. CurrentInv'
    BY <1>1, <1>5, <1>9, <2>1, <2>2 DEF IInv, CurrentInv
  <2>5. LossInv'
    BY <1>1, <1>6, <2>1 DEF IInv, LossInv, TypeOK
  <2>6. OwnTests' /\ TimeoutFails' /\ OwnVerdict' /\ ReportsInv'
    BY <1>1, <1>5, <1>7, <2>1, ResultMoves DEF Late
  <2> QED
    BY <1>6, <1>7, <2>3, <2>4, <2>5, <2>6 DEF IInv
<1> QED
  BY <1>1, <1>8, <1>9

\* Joined, TimedOut, TestDone, ThrowDeviceLost and LeaveRun change nothing but the
\* main thread's place.
LEMMA PlaceStep ==
  ASSUME IInv, Joined \/ TimedOut \/ TestDone \/ ThrowDeviceLost \/ LeaveRun
  PROVE  IInv'
<1>1. UNCHANGED <<timedOut, thread, lost, remaining, result, cur, metrics, store, delivered>>
  BY DEF Joined, TimedOut, TestDone, ThrowDeviceLost, LeaveRun, reporter, reports
<1> USE DEF IInv
<1>2. TypeOK' /\ PlaceInv' /\ CurrentInv' /\ LossInv'
  <2>1. CASE Joined
    <3>1. pc = "wait" /\ Over(Here) /\ pc' = "check" /\ UNCHANGED <<p, k, todo>>
      BY <2>1 DEF Joined, Here
    <3>2. Here' = Here /\ Here \in Threads /\ AtTest /\ AtTest'
      BY <3>1, HereFacts DEF Here, AtTest
    <3> QED
      BY <1>1, <3>1, <3>2 DEF TypeOK, PlaceInv, CurrentInv, LossInv, Over
  <2>2. CASE TimedOut
    <3>1. /\ pc = "wait" /\ thread[Here] \notin {"born", "done", "dead"}
          /\ pc' = "addError" /\ UNCHANGED <<p, k, todo>>
      BY <2>2 DEF TimedOut, Here
    <3>2. Here' = Here /\ AtTest /\ AtTest'
      BY <3>1 DEF Here, AtTest
    <3> QED
      BY <1>1, <3>1, <3>2 DEF TypeOK, PlaceInv, CurrentInv, LossInv
  <2>3. CASE TestDone
    <3>1. /\ pc = "check" /\ (~ExceptionSet(Here) \/ Here \in timedOut)
          /\ pc' = "next" /\ k' = k + 1 /\ UNCHANGED <<p, todo>>
      BY <2>3 DEF TestDone, Here
    <3>2. AtTest /\ ~AtTest' /\ Here \in Threads
      BY <3>1, HereFacts DEF AtTest
    <3>3. TypeOK'
      BY <1>1, <3>1 DEF TypeOK
    <3>4. PlaceInv'
      BY <1>1, <3>1, <3>2, ThreadFacts DEF TypeOK, PlaceInv
    <3>5. CurrentInv'
      BY <1>1, <3>1, <3>2 DEF CurrentInv, Over
    <3>6. LossInv'
      BY <1>1, <3>1 DEF LossInv, ExceptionSet
    <3> QED
      BY <3>3, <3>4, <3>5, <3>6
  <2>4. CASE ThrowDeviceLost
    <3>1. pc = "check" /\ pc' = "finally" /\ todo' = Packages /\ UNCHANGED <<p, k>>
      BY <2>4 DEF ThrowDeviceLost
    <3> QED
      BY <1>1, <3>1 DEF TypeOK, PlaceInv, CurrentInv, LossInv, AtTest, Over
  <2>5. CASE LeaveRun
    <3>1. pc = "finally" /\ pc' = "closed" /\ UNCHANGED <<p, k, todo>>
      BY <2>5 DEF LeaveRun
    <3> QED
      BY <1>1, <3>1 DEF TypeOK, PlaceInv, CurrentInv, LossInv, AtTest, Here
  <2> QED
    BY <2>1, <2>2, <2>3, <2>4, <2>5
<1> QED
  BY <1>1, <1>2, QuietResults

\* PackageDone and UnexecutedRunEnded end a test run of the current package, which
\* collects its reports.
LEMMA RunEndStep == ASSUME IInv, PackageDone \/ UnexecutedRunEnded PROVE IInv'
<1>1. /\ UNCHANGED <<timedOut, thread, lost, remaining, cur, metrics, delivered, k>>
      /\ PopulateMetrics(cur)
      /\ \/ /\ pc = "next" /\ k > Len(TestsOf[p])
            /\ \/ p < Len(TestsOf) /\ pc' = "package" /\ p' = p + 1 /\ todo' = todo
               \/ pc' = "finally" /\ todo' = Packages /\ p' = p
         \/ pc = "closing" /\ pc' = "finally" /\ p' = p /\ todo' = todo
  BY DEF PackageDone, UnexecutedRunEnded
<1> USE DEF IInv
<1>2. ~AtTest /\ ~AtTest' /\ p \in Packages /\ p \in Nat /\ cur \in Packages
  BY <1>1 DEF AtTest, TypeOK, PlaceInv, Packages
<1>3. /\ result' \in [Packages -> [Tests -> Status]]
      /\ OwnTests' /\ TimeoutFails' /\ OwnVerdict' /\ ReportsInv'
  BY <1>1, <1>2, PopulateMoves
<1>4. TypeOK'
  <2>1. Len(TestsOf) \in Nat
    BY Assumption
  <2>2. todo' \subseteq Packages
    BY <1>1 DEF TypeOK
  <2>3. p' \in Packages
    BY <1>1, <1>2, <2>1 DEF Packages
  <2> QED
    BY <1>1, <1>3, <2>2, <2>3 DEF TypeOK
<1>5. PlaceInv'
  BY <1>1, <1>2, ThreadFacts DEF PlaceInv, Packages
<1>6. CurrentInv' /\ LossInv'
  BY <1>1 DEF CurrentInv, LossInv
<1> QED
  BY <1>3, <1>4, <1>5, <1>6

\* AddTimeoutError fails the test in its own package and so gives it up.
LEMMA TimeoutErrorStep == ASSUME IInv, AddTimeoutError PROVE IInv'
<1>1. /\ pc = "addError" /\ pc' = "endTest" /\ timedOut' = timedOut \cup {Here}
      /\ result' = [result EXCEPT ![cur] = ReportTestFailure(@, Test(Here))]
      /\ p' = p /\ k' = k /\ todo' = todo /\ thread' = thread /\ lost' = lost
      /\ remaining' = remaining /\ cur' = cur
      /\ metrics' = metrics /\ UNCHANGED reports /\ delivered' = delivered
  BY DEF AddTimeoutError, TestFailed, reports, Here
<1>2. AtTest /\ AtTest' /\ Here' = Here
  BY <1>1 DEF AtTest, Here
<1>3. Here \in Threads /\ Here[1] = cur /\ cur \in Packages
  BY <1>2, HereFacts DEF IInv, TypeOK
<1>4. Test(Here) \in KnownTests(cur) /\ Test(Here) \in Tests
  BY <1>3, ThreadFacts
<1>5. TypeOK'
  <2>1. result' \in [Packages -> [Tests -> Status]]
    BY <1>1, <1>3, ReporterTypes DEF IInv
  <2> QED
    BY <1>1, <1>3, <2>1 DEF IInv, TypeOK
<1>6. PlaceInv'
  BY <1>1, <1>2, <1>3 DEF IInv, PlaceInv, CurrentInv
<1>7. CurrentInv' /\ LossInv'
  BY <1>1, <1>2 DEF IInv, CurrentInv, LossInv
<1>8. \A q \in Packages : \A t \in Tests :
        result'[q][t] = IF q = cur /\ t = Test(Here) THEN "fail" ELSE result[q][t]
  BY <1>1, <1>3, CallsOfListener DEF IInv, TypeOK
<1>9. OwnTests' /\ TimeoutFails' /\ OwnVerdict' /\ ReportsInv'
  BY <1>1, <1>3, <1>4, <1>5, <1>8, ResultMoves
<1> QED
  BY <1>5, <1>6, <1>7, <1>9 DEF IInv

\* EndTimedOutTest: the end of a test that has failed.
LEMMA EndTimedOutStep == ASSUME IInv, EndTimedOutTest PROVE IInv'
<1>1. /\ pc = "endTest" /\ pc' = "check"
      /\ result' = [result EXCEPT ![cur] = ReportTestEnded(@, Test(Here))]
      /\ remaining' = [remaining EXCEPT ![p] = @ \ {Test(Here)}]
      /\ p' = p /\ k' = k /\ todo' = todo /\ thread' = thread /\ lost' = lost
      /\ timedOut' = timedOut /\ cur' = cur
      /\ metrics' = [metrics EXCEPT ![cur] = @ \cup {Test(Here)}]
      /\ UNCHANGED reports /\ delivered' = delivered
  BY DEF EndTimedOutTest, TestEnded, reports, Here
<1>2. AtTest /\ AtTest' /\ Here' = Here
  BY <1>1 DEF AtTest, Here
<1>3. Here \in Threads /\ Here[1] = cur /\ cur \in Packages /\ p \in Packages
  BY <1>2, HereFacts DEF IInv, TypeOK
<1>4. Test(Here) \in KnownTests(cur) /\ Test(Here) \in Tests /\ Here \in timedOut
  BY <1>1, <1>3, ThreadFacts DEF IInv, CurrentInv
<1>5. TypeOK'
  <2>1. result' \in [Packages -> [Tests -> Status]]
    BY <1>1, <1>3, ReporterTypes DEF IInv
  <2>2. metrics' \in [Packages -> SUBSET Tests] /\ remaining' \in [Packages -> SUBSET Tests]
    BY <1>1, <1>3, <1>4 DEF IInv, TypeOK
  <2> QED
    BY <1>1, <1>3, <2>1, <2>2 DEF IInv, TypeOK
<1>6. PlaceInv'
  BY <1>1, <1>2 DEF IInv, PlaceInv
<1>7. CurrentInv' /\ LossInv'
  BY <1>1, <1>2, <1>4 DEF IInv, CurrentInv, LossInv
<1>8. \A q \in Packages : \A t \in Tests : result'[q][t] # result[q][t] =>
        /\ q = cur /\ t = Test(Here) /\ result'[q][t] \notin {"absent", "notExecuted"}
        /\ result[q][t] # "fail"
  BY <1>1, <1>3, CallsOfListener DEF IInv, TypeOK
<1>9. OwnTests' /\ TimeoutFails' /\ OwnVerdict' /\ ReportsInv'
  <2>1. \A q \in Packages : remaining'[q] \subseteq remaining[q]
    BY <1>1, <1>3 DEF IInv, TypeOK
  <2>2. \A q \in Packages : \A t \in metrics'[q] : t \in metrics[q] \/ (q = cur /\ t = Test(Here))
    BY <1>1, <1>3 DEF IInv, TypeOK
  <2>3. result'[cur][Test(Here)] \in Executed
    BY <1>1, <1>3, <1>4, EndGivesVerdict DEF IInv, TypeOK
  <2> QED
    BY <1>1, <1>3, <1>4, <1>5, <1>8, <2>1, <2>2, <2>3, ResultMoves
<1> QED
  BY <1>5, <1>6, <1>7, <1>9 DEF IInv

\* ReportUnexecutedTests inserts what the filter still holds, as not executed.
LEMMA UnexecutedStep ==
  ASSUME IInv, NEW q \in Packages, ReportUnexecutedTests(q)
  PROVE  IInv'
<1> DEFINE kept == [t \in Tests |-> IF t \in remaining[q] THEN InsertTest(result[q], t)[t]
                                                           ELSE result[q][t]]
<1>1. /\ pc = "finally" /\ todo' = todo \ {q} /\ p' = p /\ k' = k
      /\ metrics' = metrics /\ UNCHANGED reports /\ delivered' = delivered
      /\ timedOut' = timedOut /\ thread' = thread /\ lost' = lost /\ remaining' = remaining
      /\ \/ pc' = pc /\ cur' = cur /\ result' = result
         \/ pc' = "closing" /\ cur' = q /\ result' = [result EXCEPT ![q] = kept]
  BY DEF ReportUnexecutedTests, reports
<1>2. result[q] \in [Tests -> Status]
  BY DEF IInv, TypeOK
<1>3. kept \in [Tests -> Status]
  BY <1>2, ResultTypes
<1>4. \A t \in Tests : kept[t] # result[q][t] =>
        t \in remaining[q] /\ kept[t] = "notExecuted" /\ result[q][t] = "absent"
  BY <1>2, CallsOfListener
<1> HIDE DEF kept
<1>5. TypeOK'
  BY <1>1, <1>3 DEF IInv, TypeOK
<1>6. PlaceInv' /\ CurrentInv' /\ LossInv'
  <2>1. ~AtTest' /\ q # 0
    BY <1>1 DEF AtTest, Packages
  <2> QED
    BY <1>1, <2>1 DEF IInv, PlaceInv, CurrentInv, LossInv
<1>7. \A x \in Packages : \A t \in Tests : result'[x][t] # result[x][t] =>
        t \in KnownTests(x) /\ result'[x][t] = "notExecuted" /\ result[x][t] = "absent"
  BY <1>1, <1>4 DEF IInv, TypeOK, OwnTests
<1>8. OwnTests' /\ TimeoutFails' /\ OwnVerdict' /\ ReportsInv'
  BY <1>1, <1>5, <1>7, ResultMoves DEF Executed
<1> QED
  BY <1>5, <1>6, <1>8 DEF IInv

\* Every step preserves the invariant.
LEMMA StepInv == ASSUME IInv, [Next]_vars PROVE IInv'
<1>1. CASE Main
  BY <1>1, BeginPackageStep, NextTestStep, PlaceStep, RunEndStep, TimeoutErrorStep,
     EndTimedOutStep, UnexecutedStep DEF Main
<1>2. CASE \E th \in Threads : ThreadStep(th)
  BY <1>2, ThreadStepInv
<1>3. CASE UNCHANGED vars
  BY <1>3 DEF vars, IInv, TypeOK, PlaceInv, CurrentInv, OwnTests, LossInv, TimeoutFails, OwnVerdict,
     ReportsInv, Reported, Here, AtTest, Over
<1> QED
  BY <1>1, <1>2, <1>3 DEF Next

-----------------------------------------------------------------------------
(* The theorems.                                                           *)

\* The inductive invariant holds in every reachable state.
THEOREM Invariance == Spec => []IInv
BY InitInv, StepInv, PTL DEF Spec

\* A test that took too long stays failed in its own package's results, whatever
\* its thread, left behind, does later, unless a report was delivered for it.
THEOREM TimeoutsFail == Spec => []TimeoutFails
<1>1. IInv => TimeoutFails
  BY DEF IInv
<1> QED
  BY <1>1, Invariance, PTL

\* A verdict of a test that no other package has comes from a thread of the
\* test's package that got so far, or was given up.
THEOREM VerdictsAreOwn == Spec => []OwnVerdict
<1>1. IInv => OwnVerdict
  BY DEF IInv
<1> QED
  BY <1>1, Invariance, PTL

\* No test is started after one that lost the device and ended in time.
THEOREM LossesStop == Spec => DeviceLossStops
<1> DEFINE Stops == \A th \in Threads :
             thread[th] = "unborn" /\ thread'[th] = "born" =>
               ~\E z \in lost \ timedOut : thread[z] = "done"
<1>1. ASSUME IInv, [Next]_vars PROVE Stops
  <2> SUFFICES ASSUME NEW th \in Threads, thread[th] = "unborn", thread'[th] = "born"
               PROVE  NextTest
    BY <1>1, NextTestStep
  <2>1. ~UNCHANGED thread
    OBVIOUS
  <2>2. \A u \in Threads : ThreadStep(u) => thread'[th] # "born"
    BY <1>1 DEF ThreadStep, ThreadBegins, Deliver, BodyPasses, BodyFails, BodyLosesDevice, AddError, EndTest,
       Become, IInv, TypeOK
  <2> QED
    BY <1>1, <2>1, <2>2 DEF Next, Main, vars, BeginPackage, Joined, TimedOut, AddTimeoutError,
       EndTimedOutTest, ThrowDeviceLost, TestDone, PackageDone, LeaveRun, ReportUnexecutedTests,
       UnexecutedRunEnded
<1>2. Spec => [][Stops]_vars
  BY <1>1, Invariance, PTL DEF Spec
<1> QED
  BY <1>2 DEF DeviceLossStops
=============================================================================
