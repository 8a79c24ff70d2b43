-------------------------- MODULE PerformanceReport -------------------------
(***************************************************************************)
(* How a performance report travels from a test into its result.  A test   *)
(* prints values and a summary into a ReportLog (libs/commonutil); a test  *)
(* on the device delivers it in tearDown, as a metric of the test          *)
(* (libs/deviceutil), a test on the host puts it into CtsHostStore, one    *)
(* map for all invocations of the host; the package's results collect both *)
(* when the test run ends (result/TestPackageResult.java).                 *)
(* Several invocations run at once, each on a device of its own and each   *)
(* its packages in turn (CtsTest.run); one that lost its device is resumed *)
(* on any other.                                                           *)
(***************************************************************************)
EXTENDS Integers, Sequences, TestPackageResult

CONSTANTS
  Invocations,
  Devices,      \* the devices, by serial
  None,         \* no device
  PackagesOf,   \* the packages of each invocation: records [abi, test, host],
                \* one test each
  SlowTests,    \* host tests that may outlast their timeout
  MaxFaults     \* bound on the devices lost and the tests timed out

Packages(i) == 1 .. Len(PackagesOf[i])

ASSUME Assumption ==
  /\ PackagesOf \in [Invocations -> Seq([abi : STRING, test : STRING, host : BOOLEAN])]
  /\ None \notin Devices /\ SlowTests \subseteq STRING
  /\ MaxFaults \in Nat

VARIABLES
  device,     \* getDevice() of each invocation, None outside run()
  serial,     \* mDeviceSerial of each invocation's reporter
  phase,      \* where its run() is, and how far the test of its package
  at,         \* the package it is at
  last,       \* mLastTestPackageIndex
  remaining,  \* the packages whose filter still holds its test
  log,        \* the test's ReportLog: summary and number of messages
  sent,       \* the report the instrumentation has sent for the running test
  metrics,    \* mTestMetrics of each package: none, or the report in the
              \* metrics of its test
  store,      \* CtsHostStore.mMap
  result,     \* the status of each package's test
  shown,      \* the report in each test's result
  leftBehind, \* what threads of timed out tests may still deliver
  faults,     \* devices lost and tests timed out
  execution,  \* history: the number of executions begun
  delivered,  \* history: the report this execution has delivered
  shared      \* history: the devices under whose serial a report may be that
              \* is not of the invocation that began there

loop    == <<phase, at, last, remaining>>
devices == <<device, serial, shared>>
faulty  == <<leftBehind, faults>>
test    == <<log, sent, execution, delivered>>
results == <<metrics, store, result, shown>>
vars    == <<loop, devices, faulty, test, results>>

NoReport == [full |-> FALSE, missed |-> FALSE, by |-> <<>>, package |-> 0, execution |-> 0]
EmptyLog == [summary |-> "none", messages |-> 0]

\* The store's entries under other keys.
Without(key) == {e \in store : e.key # key}

Package(i) == PackagesOf[i][at[i]]
OnHost(i)  == Package(i).host

\* Faulty form of the next definition: the device is left out of the key.
KeyWithoutSerial(d, pkg) == <<None, pkg.abi, pkg.test>>

\* generateTestKey: device serial, ABI and test.
TestKey(d, pkg) == <<d, pkg.abi, pkg.test>>

Init ==
  /\ device = [i \in Invocations |-> None] /\ serial = [i \in Invocations |-> None]
  /\ phase = [i \in Invocations |-> "idle"]
  /\ at = [i \in Invocations |-> 1] /\ last = [i \in Invocations |-> 1]
  /\ remaining = [i \in Invocations |-> {}]
  /\ log = [i \in Invocations |-> EmptyLog]
  /\ sent = [i \in Invocations |-> NoReport]
  /\ metrics = [i \in Invocations |-> [pkg \in Packages(i) |-> {}]]
  /\ store = {}
  /\ result = [i \in Invocations |-> NewResult(Packages(i))]
  /\ shown = [i \in Invocations |-> [pkg \in Packages(i) |-> NoReport]]
  /\ leftBehind = {} /\ faults = 0
  /\ execution = [i \in Invocations |-> 0]
  /\ delivered = [i \in Invocations |-> NoReport]
  /\ shared = {}

Goto(i, ph) == phase' = [phase EXCEPT ![i] = ph]

-----------------------------------------------------------------------------
(* Invocations and their devices.                                          *)

Free(d)    == \A i \in Invocations : device[i] # d
Begun(i)   == serial[i] # None
HasMore(i) == at[i] \in Packages(i)
\* Its reporter may still look for reports, now or in a resumed call.
Live(i)    == Begun(i) /\ phase[i] # "over"

\* run() is called, with filters that are made anew: the loop goes on from the
\* last package that completed.
CallRun(i, d) ==
  /\ phase[i] = "idle" /\ Free(d)
  /\ Goto(i, "loop")
  /\ device' = [device EXCEPT ![i] = d]
  /\ at' = [at EXCEPT ![i] = last[i]]
  /\ remaining' = [remaining EXCEPT ![i] = Packages(i)]
  /\ UNCHANGED <<last, faulty, test, results>>

\* invocationStarted: the reporter keeps the serial for good.
Begin(i, d) ==
  /\ ~Begun(i) /\ CallRun(i, d)
  /\ serial' = [serial EXCEPT ![i] = d]
  /\ shared' = IF \E j \in Invocations : Live(j) /\ serial[j] = d
               THEN shared \cup {d} ELSE shared

\* The resumed call, on whichever device is free; the reporter is not told that
\* the invocation starts again.
Resume(i, d) ==
  /\ Begun(i) /\ CallRun(i, d)
  /\ shared' = IF d = serial[i] THEN shared ELSE shared \cup {d}
  /\ UNCHANGED serial

\* What a test leaves: its ReportLog and its metrics are objects of their own.
ForgetTest(i) ==
  /\ log' = [log EXCEPT ![i] = EmptyLog]
  /\ sent' = [sent EXCEPT ![i] = NoReport]
  /\ delivered' = [delivered EXCEPT ![i] = NoReport]

\* The device is lost, in a test or at the reboot after it.
DeviceLost(i) ==
  /\ \/ phase[i] \in {"loop", "begun", "body", "tearDown", "ending", "ended"}
     \/ phase[i] = "between" /\ at[i] < Len(PackagesOf[i])
  /\ faults < MaxFaults /\ faults' = faults + 1
  /\ Goto(i, "lost")
  /\ ForgetTest(i)
  /\ UNCHANGED <<at, last, remaining, devices, leftBehind, execution, results>>

\* The package's index is kept only after the reboot or the home screen.
NextPackage(i) ==
  /\ phase[i] = "between"
  /\ Goto(i, "loop")
  /\ last' = [last EXCEPT ![i] = at[i]]
  /\ at' = [at EXCEPT ![i] = @ + 1]
  /\ UNCHANGED <<remaining, devices, faulty, test, results>>

LoopEnds(i) ==
  /\ phase[i] = "loop" /\ ~HasMore(i)
  /\ Goto(i, "through")
  /\ UNCHANGED <<at, last, remaining, devices, faulty, test, results>>

\* The device is free for another invocation; a call that lost it is resumed.
LeaveRun(i) ==
  /\ phase[i] \in {"lost", "through"} /\ remaining[i] = {}
  /\ Goto(i, IF phase[i] = "lost" THEN "idle" ELSE "over")
  /\ device' = [device EXCEPT ![i] = None]
  /\ UNCHANGED <<at, last, remaining, serial, shared, faulty, test, results>>

-----------------------------------------------------------------------------
(* The package's results.                                                  *)

\* testRunEnded, populateMetrics for a package whose statuses are r: if its test
\* has ended, the report in the metrics, else the one in the store, which is
\* removed; one that can be read passes the test.
PopulateMetrics(i, pkg, r) ==
  LET key     == TestKey(serial[i], PackagesOf[i][pkg])
      inStore == metrics[i][pkg] = {NoReport}
      reports == IF inStore THEN {e.report : e \in store \ Without(key)} ELSE metrics[i][pkg]
  IN /\ store' = IF inStore THEN Without(key) ELSE store
     /\ \/ \E report \in reports :
             /\ report.full
             /\ result' = [result EXCEPT ![i] = [r EXCEPT ![pkg] = "pass"]]
             /\ shown' = [shown EXCEPT ![i][pkg] = report]
        \/ /\ ~(\E report \in reports : report.full)
           /\ result' = [result EXCEPT ![i] = r]
           /\ UNCHANGED shown

\* An empty test run that carries the package's name.
ForwardPackageDetails(i) ==
  /\ phase[i] = "loop" /\ HasMore(i)
  /\ Goto(i, "begun")
  /\ PopulateMetrics(i, at[i], result[i])
  /\ UNCHANGED <<at, last, remaining, devices, faulty, test, metrics>>

TestStarted(i) ==
  /\ phase[i] = "begun"
  /\ Goto(i, "body")
  /\ result' = [result EXCEPT ![i] = InsertTest(@, at[i])]
  /\ execution' = [execution EXCEPT ![i] = @ + 1]
  /\ UNCHANGED <<at, last, remaining, devices, faulty, log, sent, delivered, metrics, store, shown>>

\* Faulty form of the next definition: the first metrics of a test are kept.
FirstMetrics(i) ==
  IF metrics[i][at[i]] = {}
  THEN metrics' = [metrics EXCEPT ![i][at[i]] = {sent[i]}] ELSE UNCHANGED metrics

\* mTestMetrics.put replaces what an earlier execution left.
PutMetrics(i) == metrics' = [metrics EXCEPT ![i][at[i]] = {sent[i]}]

TestEnded(i) ==
  /\ phase[i] = "ending"
  /\ Goto(i, "ended")
  /\ result' = [result EXCEPT ![i] = ReportTestEnded(@, at[i])]
  /\ PutMetrics(i)
  /\ remaining' = [remaining EXCEPT ![i] = @ \ {at[i]}]
  /\ UNCHANGED <<at, last, devices, faulty, test, store, shown>>

RunEnded(i) ==
  /\ phase[i] = "ended"
  /\ Goto(i, "between")
  /\ PopulateMetrics(i, at[i], result[i])
  /\ ForgetTest(i)
  /\ UNCHANGED <<at, last, remaining, devices, faulty, execution, metrics>>

\* A filter whose test has not ended in this call starts and ends a run for it.
ReportUnexecutedTests(i, pkg) ==
  /\ phase[i] \in {"lost", "through"} /\ pkg \in remaining[i]
  /\ remaining' = [remaining EXCEPT ![i] = @ \ {pkg}]
  /\ PopulateMetrics(i, pkg, InsertTest(result[i], pkg))
  /\ UNCHANGED <<phase, at, last, devices, faulty, test, metrics>>

-----------------------------------------------------------------------------
(* The body of the test.                                                   *)

SetLog(i, newLog) ==
  /\ phase[i] = "body"
  /\ log' = [log EXCEPT ![i] = newLog]
  /\ UNCHANGED <<at, last, remaining, devices, faulty, sent, execution, delivered, metrics, store, shown>>

\* printValue, printArray: one message more; one stands for any number.
PrintValue(i) ==
  SetLog(i, [log[i] EXCEPT !.messages = 1]) /\ UNCHANGED <<phase, result>>

PrintSummary(i) ==
  SetLog(i, [log[i] EXCEPT !.summary = "met"]) /\ UNCHANGED <<phase, result>>

\* An assertion fails: the listener is told and the body is left.
Fails(i) ==
  /\ Goto(i, "tearDown")
  /\ result' = [result EXCEPT ![i] = ReportTestFailure(@, at[i])]

\* The summary is kept first; a value that misses the target then fails.
PrintSummaryWithTarget(i) ==
  \/ SetLog(i, [log[i] EXCEPT !.summary = "met"]) /\ UNCHANGED <<phase, result>>
  \/ SetLog(i, [log[i] EXCEPT !.summary = "missed"]) /\ Fails(i)

BodyFails(i) == phase[i] = "body" /\ Fails(i)
  /\ UNCHANGED <<at, last, remaining, devices, faulty, test, metrics, store, shown>>

BodyEnds(i) ==
  /\ phase[i] = "body" /\ Goto(i, "tearDown")
  /\ UNCHANGED <<at, last, remaining, devices, faulty, test, results>>

-----------------------------------------------------------------------------
(* Delivery.                                                               *)

\* generateReport: the reader finds summary and details only if there is a
\* message: without one, deleting the last separator breaks the summary's.
GenerateReport(i) ==
  [full |-> log[i].messages > 0, missed |-> log[i].summary = "missed",
   by |-> <<i>>, package |-> at[i], execution |-> execution[i]]

\* HostReportLog.deliverReportToHost, wherever the test's body calls it.
HostDeliver(i) ==
  /\ phase[i] = "body" /\ OnHost(i)
  /\ store' = Without(TestKey(device[i], Package(i)))
               \cup {[key |-> TestKey(device[i], Package(i)), report |-> GenerateReport(i)]}
  /\ delivered' = [delivered EXCEPT ![i] = GenerateReport(i)]
  /\ log' = [log EXCEPT ![i] = EmptyLog]
  /\ UNCHANGED <<loop, devices, faulty, sent, execution, metrics, result, shown>>

\* CtsActivityInstrumentationTestCase2.tearDown and
\* DeviceReportLog.deliverReportToHost; an empty report is not sent.
TearDown(i) ==
  /\ phase[i] = "tearDown"
  /\ Goto(i, "ending")
  /\ log' = [log EXCEPT ![i] = EmptyLog]
  /\ IF OnHost(i) \/ log[i] = EmptyLog THEN UNCHANGED <<sent, delivered>>
     ELSE /\ sent' = [sent EXCEPT ![i] = GenerateReport(i)]
          /\ delivered' = [delivered EXCEPT ![i] = GenerateReport(i)]
  /\ UNCHANGED <<at, last, remaining, devices, faulty, execution, results>>

-----------------------------------------------------------------------------
(* A host test that takes too long.                                        *)

\* runTest fails the test and ends it; its thread goes on, and may still call
\* deliverReportToHost, with the serial of the device it was given.
TestTimesOut(i) ==
  /\ phase[i] = "body" /\ OnHost(i) /\ Package(i).test \in SlowTests /\ faults < MaxFaults
  /\ \E full \in BOOLEAN :
       leftBehind' = leftBehind \cup
         {[key |-> TestKey(device[i], Package(i)), report |-> [GenerateReport(i) EXCEPT !.full = full]]}
  /\ faults' = faults + 1
  /\ Goto(i, "ending")
  /\ result' = [result EXCEPT ![i] = ReportTestFailure(@, at[i])]
  /\ UNCHANGED <<at, last, remaining, devices, test, metrics, store, shown>>

LateDeliver(late) ==
  /\ leftBehind' = leftBehind \ {late}
  /\ store' = Without(late.key) \cup {late}
  /\ shared' = shared \cup {late.key[1]}
  /\ UNCHANGED <<loop, device, serial, faults, test, metrics, result, shown>>

Loop(i) ==
  \/ \E d \in Devices : Begin(i, d) \/ Resume(i, d)
  \/ ForwardPackageDetails(i) \/ TestStarted(i) \/ TestEnded(i) \/ RunEnded(i)
  \/ NextPackage(i) \/ LoopEnds(i) \/ DeviceLost(i)
  \/ (\E pkg \in Packages(i) : ReportUnexecutedTests(i, pkg)) \/ LeaveRun(i)

Test(i) ==
  \/ PrintValue(i) \/ PrintSummary(i) \/ PrintSummaryWithTarget(i) \/ BodyFails(i) \/ BodyEnds(i)
  \/ HostDeliver(i) \/ TearDown(i) \/ TestTimesOut(i)

Next == (\E i \in Invocations : Loop(i) \/ Test(i)) \/ (\E late \in leftBehind : LateDeliver(late))

Spec == Init /\ [][Next]_vars
-----------------------------------------------------------------------------
(* Properties.                                                             *)

\* No other package of the invocation has a test of this name, for the same ABI.
NoTwin(i, pkg) ==
  \A q \in Packages(i) : q # pkg =>
    TestKey(None, PackagesOf[i][q]) # TestKey(None, PackagesOf[i][pkg])

\* The report shown with a result was made by that very test, in that
\* invocation and for that ABI, whatever else the host's one store holds,
\* unless on the device that the invocation began on another one was resumed,
\* or begun before that one was over, or a timed out test delivered late.
ReportOfItsTest ==
  \A i \in Invocations : \A pkg \in Packages(i) :
    shown[i][pkg] # NoReport /\ serial[i] \notin shared /\ NoTwin(i, pkg) =>
      shown[i][pkg].by = <<i>> /\ shown[i][pkg].package = pkg

\* populateMetrics looks into the store under the serial that the test used.
LooksWhereStored(i) == OnHost(i) => device[i] = serial[i] /\ serial[i] \notin shared

RunEnds(i) == phase[i] = "ended" /\ phase'[i] = "between"

\* The end of a run shows the readable report that the test delivered in the
\* execution that has just ended: none is lost to another invocation, and none
\* of an execution that was cut short, perhaps on another device, is shown in
\* its place.
ReportArrives ==
  [][\A i \in Invocations :
       RunEnds(i) /\ delivered[i].full /\ LooksWhereStored(i) =>
         shown'[i][at[i]] = delivered[i]]_vars

\* TestPackageResult: "host test should be checked in CtsHostStore."  The end of
\* a run shows the readable report of a host test wherever it ran: does not
\* hold, for an invocation that is resumed on another device stores under that
\* one's serial and looks under the first one's.
HostReportArrives ==
  [][\A i \in Invocations :
       RunEnds(i) /\ delivered[i].full /\ OnHost(i) => shown'[i][at[i]] = delivered[i]]_vars

\* printSummaryWithTarget: "value of 1.0 with target of 2.0 will fail".  A test
\* that missed its target is reported as failed once its run has ended: does not
\* hold, for populateMetrics makes every test with a report pass.
MissedTargetFails ==
  \A i \in Invocations : \A pkg \in Packages(i) :
    shown[i][pkg].missed /\ phase[i] = "over" => result[i][pkg] = "fail"
=============================================================================
