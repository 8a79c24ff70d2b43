----------------------- MODULE PerformanceReportProofs -----------------------
(***************************************************************************)
(* For any invocations, devices, packages and number of devices lost: a    *)
(* report is shown with the result of the test that made it, and the one a *)
(* test delivered last is shown when its run ends, although all            *)
(* invocations share one store, as long as no report can be in it under    *)
(* the serial of a device that it was not made for.                        *)
(***************************************************************************)
EXTENDS PerformanceReport, TLAPS

-----------------------------------------------------------------------------
(* The inductive invariant.                                                *)

InTest  == {"body", "tearDown", "ending", "ended"}
Phases  == {"idle", "loop", "begun", "between", "lost", "through", "over"} \cup InTest
Makers  == {<<>>} \cup {<<i>> : i \in Invocations}
Reports == [full : BOOLEAN, missed : BOOLEAN, by : Makers, package : Nat, execution : Nat]
Metrics == {{}} \cup {{r} : r \in Reports}
Logs    == [summary : {"none", "met", "missed"}, messages : {0, 1}]

TypeOK ==
  /\ device \in [Invocations -> Devices \cup {None}] /\ serial \in [Invocations -> Devices \cup {None}]
  /\ phase \in [Invocations -> Phases]
  /\ at \in [Invocations -> Nat \ {0}] /\ last \in [Invocations -> Nat \ {0}]
  /\ remaining = [i \in Invocations |-> remaining[i]]
  /\ \A i \in Invocations : remaining[i] \subseteq Packages(i)
  /\ log \in [Invocations -> Logs]
  /\ sent \in [Invocations -> Reports] /\ delivered \in [Invocations -> Reports]
  /\ metrics = [i \in Invocations |-> metrics[i]] /\ shown = [i \in Invocations |-> shown[i]]
  /\ \A i \in Invocations : metrics[i] \in [Packages(i) -> Metrics] /\ shown[i] \in [Packages(i) -> Reports]
  /\ result = [i \in Invocations |-> result[i]]
  /\ \A i \in Invocations : result[i] \in [Packages(i) -> Status]
  /\ faults \in 0 .. MaxFaults /\ execution \in [Invocations -> Nat]
  /\ None \notin shared /\ \A l \in leftBehind : l.key[1] # None /\ l.report \in Reports

\* Report r was made by the test of package pkg in invocation i.
MadeBy(r, i, pkg) == r.by = <<i>> /\ r.package = pkg

\* The index that is kept is not ahead of the loop's.
LoopInv ==
  \A i \in Invocations :
    /\ last[i] <= at[i]
    /\ phase[i] \in {"begun", "between"} \cup InTest => HasMore(i)
    /\ phase[i] = "through" => ~HasMore(i)

\* A device has one invocation at a time, which runs on the device that it
\* began on or on a shared one; a serial that two kept is of a shared one.
DeviceInv ==
  /\ \A i \in Invocations : phase[i] \notin {"idle", "over"} => device[i] # None
  /\ \A i \in Invocations : device[i] # None => Live(i)
  /\ \A i, j \in Invocations : device[i] = device[j] /\ device[i] # None => i = j
  /\ \A i \in Invocations : device[i] \in {None, serial[i]} \cup shared
  /\ \A i, j \in Invocations :
       Live(i) /\ Live(j) /\ serial[i] = serial[j] /\ i # j => serial[i] \in shared

\* The packages whose run is still to end, in this call or, if the device was
\* lost, in the one that resumes it.
ToRun(i) ==
  {pkg \in Packages(i) :
     \/ phase[i] \in {"idle", "lost"} /\ last[i] <= pkg
     \/ phase[i] \in {"loop", "begun"} \cup InTest /\ at[i] <= pkg
     \/ phase[i] = "between" /\ at[i] < pkg}

\* Entry e is of a host test of invocation i whose run is still to end.
EntryOf(e, i) ==
  /\ Begun(i) /\ e.report.by = <<i>> /\ e.report.package \in ToRun(i)
  /\ PackagesOf[i][e.report.package].host
  /\ e.key = TestKey(serial[i], PackagesOf[i][e.report.package])

\* Under the serial of a device that is not shared the store has only such
\* entries of the invocation that began there; there is one entry for a key.
StoreInv ==
  /\ \A e \in store : e.report \in Reports
  /\ \A e \in store : e.key[1] \notin shared => \E i \in Invocations : EntryOf(e, i)
  /\ \A e, f \in store : e.key = f.key => e = f

\* Only a device test sends metrics, and they stay with its package.
MetricsInv ==
  /\ \A i \in Invocations : sent[i] # NoReport =>
       ~OnHost(i) /\ phase[i] \in {"ending", "ended"} /\ MadeBy(sent[i], i, at[i])
  /\ \A i \in Invocations : \A pkg \in Packages(i) : \A r \in metrics[i][pkg] : r # NoReport =>
       ~PackagesOf[i][pkg].host /\ MadeBy(r, i, pkg)

\* What the host test under way has delivered is in the store.
Stored(i) == \E e \in store : e.key = TestKey(serial[i], Package(i)) /\ e.report = delivered[i]

\* What an execution has delivered is where populateMetrics will look for it.
DeliveredInv ==
  \A i \in Invocations :
    /\ delivered[i] # NoReport /\ OnHost(i) /\ LooksWhereStored(i) => Stored(i)
    /\ delivered[i] # NoReport =>
         phase[i] \in InTest /\ MadeBy(delivered[i], i, at[i]) /\ (~OnHost(i) => delivered[i] = sent[i])
    /\ phase[i] = "ended" => metrics[i][at[i]] = {sent[i]}

IInv == TypeOK /\ LoopInv /\ DeviceInv /\ StoreInv /\ MetricsInv /\ DeliveredInv /\ ReportOfItsTest

-----------------------------------------------------------------------------
(* Statuses and reports.                                                   *)

\* The listener's calls keep a result a function from the tests to statuses.
LEMMA ResultTypes ==
  ASSUME NEW S, NEW r \in [S -> Status], NEW t
  PROVE  /\ InsertTest(r, t) \in [S -> Status]
         /\ ReportTestFailure(r, t) \in [S -> Status]
         /\ ReportTestEnded(r, t) \in [S -> Status]
BY DEF InsertTest, ReportTestFailure, ReportTestEnded, Status, Executed

\* Nothing yet: an empty log and no report.
LEMMA Nothing == NoReport \in Reports /\ ~NoReport.full /\ EmptyLog \in Logs
BY DEF NoReport, Reports, Makers, EmptyLog, Logs

\* At the beginning no report exists.
LEMMA InitInv == ASSUME Init PROVE IInv
<1> USE DEF Init
<1>1. \A i \in Invocations : result[i] \in [Packages(i) -> Status]
  BY DEF NewResult, Status
<1>2. MaxFaults \in Nat
  BY Assumption
<1>3. \A i \in Invocations : metrics[i] \in [Packages(i) -> Metrics]
  BY DEF Metrics
<1>4. TypeOK
  BY <1>1, <1>2, <1>3, Nothing DEF TypeOK, Phases
<1>5. LoopInv /\ DeviceInv /\ StoreInv /\ MetricsInv /\ DeliveredInv /\ ReportOfItsTest
  BY DEF LoopInv, InTest, DeviceInv, Begun, Live, StoreInv, MetricsInv, DeliveredInv, ReportOfItsTest
<1> QED
  BY <1>4, <1>5 DEF IInv

\* The report that a test makes is its own.
LEMMA Generated ==
  ASSUME TypeOK, NEW i \in Invocations
  PROVE  /\ GenerateReport(i) \in Reports /\ MadeBy(GenerateReport(i), i, at[i])
         /\ GenerateReport(i) # NoReport
<1>1. at[i] \in Nat \ {0} /\ execution[i] \in Nat
  BY DEF TypeOK
<1>2. (log[i].messages > 0) \in BOOLEAN /\ (log[i].summary = "missed") \in BOOLEAN
  BY DEF TypeOK, Logs
<1>3. GenerateReport(i) \in Reports
  BY <1>1, <1>2 DEF GenerateReport, Reports, Makers
<1>4. GenerateReport(i).package # NoReport.package
  BY <1>1 DEF GenerateReport, NoReport
<1> QED
  BY <1>3, <1>4 DEF GenerateReport, MadeBy

\* Outside a test nothing has been sent or delivered.
LEMMA NothingSent ==
  ASSUME MetricsInv, DeliveredInv, NEW i \in Invocations, phase[i] \notin InTest
  PROVE  sent[i] = NoReport /\ delivered[i] = NoReport
BY DEF MetricsInv, DeliveredInv, InTest

-----------------------------------------------------------------------------
(* Steps that leave the store alone.                                       *)

\* What is said of the store stands as long as the store and the serials do,
\* what is to run still is, and no device that was shared ceases to be.
LEMMA StoreStands ==
  ASSUME StoreInv, UNCHANGED store, shared \subseteq shared',
         \A i \in Invocations : Begun(i) => serial'[i] = serial[i] /\ ToRun(i) \subseteq ToRun(i)'
  PROVE  StoreInv'
<1>1. \A e \in store, i \in Invocations : EntryOf(e, i) => EntryOf(e, i)'
  BY DEF EntryOf, Begun, TestKey
<1> QED
  BY <1>1 DEF StoreInv

\* A step of the loop outside a test, before or after it: nothing has been sent
\* or delivered, and every run that is to end still is.
LEMMA LoopStep ==
  ASSUME IInv, NEW i \in Invocations, LoopInv', DeviceInv',
         \A x \in Invocations \ {i} :
           /\ device'[x] = device[x] /\ serial'[x] = serial[x] /\ phase'[x] = phase[x]
           /\ at'[x] = at[x] /\ last'[x] = last[x]
           /\ sent'[x] = sent[x] /\ delivered'[x] = delivered[x],
         device' \in [Invocations -> Devices \cup {None}], serial' \in [Invocations -> Devices \cup {None}],
         Begun(i) => serial'[i] = serial[i] /\ ToRun(i) \subseteq ToRun(i)',
         shared \subseteq shared', None \notin shared',
         phase' \in [Invocations -> Phases], phase'[i] \notin InTest,
         at' \in [Invocations -> Nat \ {0}], last' \in [Invocations -> Nat \ {0}],
         remaining' = [x \in Invocations |-> remaining'[x]],
         \A x \in Invocations : remaining'[x] \subseteq Packages(x),
         log' \in [Invocations -> Logs], sent' \in [Invocations -> Reports],
         delivered' \in [Invocations -> Reports],
         faults' \in 0 .. MaxFaults,
         sent'[i] = NoReport, delivered'[i] = NoReport,
         UNCHANGED <<leftBehind, execution, results>>
  PROVE  IInv'
<1> USE DEF IInv, results
<1>1. TypeOK'
  BY DEF TypeOK
<1>2. StoreInv'
  <2>1. \A x \in Invocations : Begun(x) => serial'[x] = serial[x] /\ ToRun(x) \subseteq ToRun(x)'
    BY DEF ToRun
  <2> QED
    BY <2>1, StoreStands
<1>3. MetricsInv'
  BY DEF MetricsInv, MadeBy, OnHost, Package
<1>4. DeliveredInv'
  <2>1. ASSUME NEW x \in Invocations, x # i
        PROVE  /\ delivered'[x] # NoReport /\ OnHost(x)' /\ LooksWhereStored(x)' => Stored(x)'
               /\ delivered'[x] # NoReport =>
                    /\ phase'[x] \in InTest /\ MadeBy(delivered'[x], x, at'[x])
                    /\ ~OnHost(x)' => delivered'[x] = sent'[x]
               /\ phase'[x] = "ended" => metrics'[x][at'[x]] = {sent'[x]}
    <3>1. /\ LooksWhereStored(x)' => LooksWhereStored(x)
          /\ OnHost(x)' <=> OnHost(x)
          /\ Stored(x) => Stored(x)'
      BY <2>1 DEF LooksWhereStored, Stored, OnHost, Package, TestKey
    <3>2. /\ delivered'[x] = delivered[x] /\ phase'[x] = phase[x] /\ at'[x] = at[x]
          /\ sent'[x] = sent[x] /\ metrics' = metrics
      BY <2>1
    <3> QED
      BY <3>1, <3>2 DEF DeliveredInv, MadeBy
  <2>2. delivered'[i] = NoReport /\ phase'[i] # "ended"
    BY DEF InTest
  <2> QED
    BY <2>1, <2>2 DEF DeliveredInv, MadeBy
<1>5. ReportOfItsTest'
  <2>1. shown' = shown
    OBVIOUS
  <2>2. \A x \in Invocations : \A pkg \in Packages(x) :
          shown[x][pkg] # NoReport /\ serial'[x] \notin shared' => serial[x] \notin shared
    BY DEF Begun, TypeOK
  <2> QED
    BY <2>1, <2>2 DEF ReportOfItsTest, NoTwin, TestKey
<1> QED
  BY <1>1, <1>2, <1>3, <1>4, <1>5

\* run() is called: the packages from the one that is kept are to run.
LEMMA CallStep ==
  ASSUME IInv, NEW i \in Invocations, NEW d \in Devices, CallRun(i, d),
         serial' = IF Begun(i) THEN serial ELSE [serial EXCEPT ![i] = d],
         shared' = IF IF Begun(i) THEN d # serial[i]
                                  ELSE \E j \in Invocations : Live(j) /\ serial[j] = d
                   THEN shared \cup {d} ELSE shared
  PROVE  IInv'
<1>1. /\ phase[i] = "idle" /\ (\A x \in Invocations : device[x] # d)
      /\ phase' = [phase EXCEPT ![i] = "loop"]
      /\ device' = [device EXCEPT ![i] = d]
      /\ at' = [at EXCEPT ![i] = last[i]]
      /\ remaining' = [remaining EXCEPT ![i] = Packages(i)]
      /\ UNCHANGED <<last, leftBehind, faults, log, sent, execution, delivered, results>>
  BY DEF CallRun, Free, Goto, faulty, test
<1>2. d # None
  BY Assumption
<1>3. sent[i] = NoReport /\ delivered[i] = NoReport
  BY <1>1, NothingSent DEF IInv, InTest
<1>4. serial \in [Invocations -> Devices \cup {None}]
  BY DEF IInv, TypeOK
<1>5. \A x \in Invocations : /\ device'[x] = IF x = i THEN d ELSE device[x]
                             /\ phase'[x] = IF x = i THEN "loop" ELSE phase[x]
                             /\ at'[x] = IF x = i THEN last[i] ELSE at[x]
  BY <1>1 DEF IInv, TypeOK
<1>6. \A x \in Invocations : serial'[x] = IF x = i /\ ~Begun(i) THEN d ELSE serial[x]
  BY <1>4
<1>7. None \notin shared' /\ shared \subseteq shared'
  BY <1>2 DEF IInv, TypeOK
<1>8. LoopInv'
  BY <1>1, <1>5 DEF IInv, LoopInv, TypeOK, HasMore, InTest
<1>9. DeviceInv'
  <2>1. \A x \in Invocations : phase'[x] \notin {"idle", "over"} => device'[x] # None
    BY <1>2, <1>5 DEF IInv, DeviceInv
  <2>2. \A x \in Invocations : Live(x)' <=> x = i \/ Live(x)
    BY <1>2, <1>5, <1>6 DEF Live, Begun
  <2>3. \A x \in Invocations : device'[x] # None => Live(x)'
    BY <2>2, <1>5 DEF IInv, DeviceInv
  <2>4. \A x, y \in Invocations : device'[x] = device'[y] /\ device'[x] # None => x = y
    BY <1>1, <1>5 DEF IInv, DeviceInv
  <2>5. \A x \in Invocations : device'[x] \in {None, serial'[x]} \cup shared'
    <3>1. ASSUME NEW x \in Invocations, x # i PROVE device'[x] \in {None, serial'[x]} \cup shared'
      BY <3>1, <1>5, <1>6, <1>7 DEF IInv, DeviceInv
    <3>2. d = serial'[i] \/ d \in shared'
      <4>1. CASE Begun(i)
        <5>1. shared' = IF d # serial[i] THEN shared \cup {d} ELSE shared
          BY <4>1
        <5>2. serial'[i] = serial[i]
          BY <4>1, <1>6
        <5> QED
          BY <5>1, <5>2
      <4>2. CASE ~Begun(i)
        BY <4>2, <1>6
      <4> QED
        BY <4>1, <4>2
    <3> QED
      BY <3>1, <3>2, <1>5
  <2>6. \A x, y \in Invocations : Live(x)' /\ Live(y)' /\ serial'[x] = serial'[y] /\ x # y
          => serial'[x] \in shared'
    <3>1. CASE Begun(i)
      <4>1. Live(i)
        BY <3>1, <1>1 DEF Live
      <4> QED
        BY <4>1, <3>1, <2>2, <1>6, <1>7 DEF IInv, DeviceInv
    <3>2. CASE ~Begun(i)
      <4>1. \A x \in Invocations : x # i /\ Live(x) /\ serial[x] = d => d \in shared'
        BY <3>2
      <4> QED
        BY <4>1, <3>2, <2>2, <1>6, <1>7 DEF IInv, DeviceInv
    <3> QED
      BY <3>1, <3>2
  <2> QED
    BY <2>1, <2>3, <2>4, <2>5, <2>6 DEF DeviceInv
<1>10. ToRun(i) \subseteq ToRun(i)'
  BY <1>1, <1>5 DEF ToRun, InTest
<1>11. /\ phase' \in [Invocations -> Phases] /\ phase'[i] \notin InTest
       /\ device' \in [Invocations -> Devices \cup {None}]
       /\ serial' \in [Invocations -> Devices \cup {None}]
       /\ at' \in [Invocations -> Nat \ {0}]
  BY <1>1, <1>4, <1>5 DEF IInv, TypeOK, Phases, InTest
<1>12. /\ remaining' = [x \in Invocations |-> remaining'[x]]
       /\ \A x \in Invocations : remaining'[x] \subseteq Packages(x)
  BY <1>1 DEF IInv, TypeOK
<1> QED
  BY <1>1, <1>3, <1>5, <1>6, <1>7, <1>8, <1>9, <1>10, <1>11, <1>12, LoopStep DEF IInv, TypeOK

\* Begin and Resume: a device that another invocation has begun on, or this
\* one has not, is shared from now on.
LEMMA BeginStep ==
  ASSUME IInv, NEW i \in Invocations, NEW d \in Devices, Begin(i, d) \/ Resume(i, d)
  PROVE  IInv'
<1>1. CASE Begin(i, d)
  BY <1>1, CallStep DEF Begin
<1>2. CASE Resume(i, d)
  <2>1. shared' = IF d # serial[i] THEN shared \cup {d} ELSE shared
    BY <1>2 DEF Resume
  <2> QED
    BY <1>2, <2>1, CallStep DEF Resume
<1> QED
  BY <1>1, <1>2

\* A move of the loop outside a test, which leaves no device but its own.
LEMMA MoveStep ==
  ASSUME IInv, NEW i \in Invocations, phase'[i] \in {"idle", "loop", "lost", "through", "over"},
         \A x \in Invocations \ {i} :
           /\ device'[x] = device[x] /\ phase'[x] = phase[x] /\ at'[x] = at[x] /\ last'[x] = last[x]
           /\ sent'[x] = sent[x] /\ delivered'[x] = delivered[x],
         IF phase'[i] \in {"idle", "over"} THEN device'[i] = None ELSE device'[i] = device[i],
         phase[i] \notin {"idle", "over"}, ToRun(i) \subseteq ToRun(i)',
         LoopInv', phase' \in [Invocations -> Phases],
         device' \in [Invocations -> Devices \cup {None}],
         at' \in [Invocations -> Nat \ {0}], last' \in [Invocations -> Nat \ {0}],
         log' \in [Invocations -> Logs], sent' \in [Invocations -> Reports],
         delivered' \in [Invocations -> Reports], faults' \in 0 .. MaxFaults,
         sent'[i] = NoReport, delivered'[i] = NoReport,
         UNCHANGED <<serial, shared, remaining, leftBehind, execution, results>>
  PROVE  IInv'
<1>1. Live(i) /\ device[i] # None
  BY DEF IInv, DeviceInv
<1>2. \A x \in Invocations : Live(x)' => Live(x)
  BY <1>1 DEF Live, Begun
<1>3. \A x \in Invocations : device'[x] \in {None, device[x]}
  OBVIOUS
<1>4. DeviceInv'
  <2>1. \A x \in Invocations : phase'[x] \notin {"idle", "over"} => device'[x] # None
    BY <1>1 DEF IInv, DeviceInv
  <2>2. \A x \in Invocations : device'[x] # None => Live(x)'
    BY <1>1 DEF IInv, DeviceInv, Live, Begun
  <2> QED
    BY <2>1, <2>2, <1>2, <1>3 DEF IInv, DeviceInv
<1>5. phase'[i] \notin InTest
  BY DEF InTest
<1>6. /\ serial' \in [Invocations -> Devices \cup {None}] /\ None \notin shared' /\ shared \subseteq shared'
      /\ remaining' = [x \in Invocations |-> remaining'[x]]
      /\ \A x \in Invocations : remaining'[x] \subseteq Packages(x)
  BY DEF IInv, TypeOK
<1> QED
  BY <1>4, <1>5, <1>6, LoopStep

\* DeviceLost: the run that was cut short is still to end, in the next call.
LEMMA LostStep ==
  ASSUME IInv, NEW i \in Invocations, DeviceLost(i)
  PROVE  IInv'
<1>1. /\ phase[i] \in {"loop", "begun", "between"} \cup InTest
      /\ phase' = [phase EXCEPT ![i] = "lost"]
      /\ faults < MaxFaults /\ faults' = faults + 1
      /\ log' = [log EXCEPT ![i] = EmptyLog] /\ sent' = [sent EXCEPT ![i] = NoReport]
      /\ delivered' = [delivered EXCEPT ![i] = NoReport]
      /\ UNCHANGED <<at, last, remaining, device, serial, shared, leftBehind, execution, results>>
  BY DEF DeviceLost, ForgetTest, Goto, devices, InTest
<1>2. \A x \in Invocations :
        /\ x = i => sent'[x] = NoReport /\ delivered'[x] = NoReport /\ phase'[x] = "lost"
        /\ x # i => sent'[x] = sent[x] /\ delivered'[x] = delivered[x] /\ phase'[x] = phase[x]
  BY <1>1 DEF IInv, TypeOK
<1>3. /\ phase' \in [Invocations -> Phases] /\ sent' \in [Invocations -> Reports]
      /\ delivered' \in [Invocations -> Reports]
      /\ log' \in [Invocations -> Logs] /\ faults' \in 0 .. MaxFaults
  BY <1>1, Nothing, Assumption DEF IInv, TypeOK, Phases
<1>4. LoopInv'
  BY <1>1, <1>2 DEF IInv, LoopInv, HasMore, InTest
<1>5. ToRun(i) \subseteq ToRun(i)'
  <2>1. last[i] <= at[i] /\ last[i] \in Nat /\ at[i] \in Nat
    BY DEF IInv, LoopInv, TypeOK
  <2>2. ToRun(i)' = {pkg \in Packages(i) : last[i] <= pkg}
    BY <1>1, <1>2 DEF ToRun, InTest
  <2>3. \A pkg \in Packages(i) : pkg \in Int
    BY DEF Packages
  <2>4. \A pkg \in ToRun(i) : pkg \in Packages(i) /\ at[i] <= pkg
    BY <1>1, <2>1, <2>3 DEF ToRun, InTest
  <2> QED
    BY <2>1, <2>2, <2>3, <2>4
<1>6. phase[i] \notin {"idle", "over"}
  BY <1>1 DEF InTest
<1> QED
  BY <1>1, <1>2, <1>3, <1>4, <1>5, <1>6, MoveStep DEF IInv, TypeOK

\* NextPackage: the loop is at the package after the one that has ended.
LEMMA NextPackageStep ==
  ASSUME IInv, NEW i \in Invocations, NextPackage(i)
  PROVE  IInv'
<1>1. /\ phase[i] = "between" /\ phase' = [phase EXCEPT ![i] = "loop"]
      /\ last' = [last EXCEPT ![i] = at[i]] /\ at' = [at EXCEPT ![i] = @ + 1]
      /\ UNCHANGED <<remaining, device, serial, shared, leftBehind, faults, test, results>>
  BY DEF NextPackage, Goto, devices, faulty
<1>2. at[i] \in Nat \ {0}
  BY DEF IInv, TypeOK
<1>3. sent[i] = NoReport /\ delivered[i] = NoReport
  BY <1>1, NothingSent DEF IInv, InTest
<1>4. /\ phase' \in [Invocations -> Phases] /\ last' \in [Invocations -> Nat \ {0}]
      /\ at' \in [Invocations -> Nat \ {0}]
  BY <1>1, <1>2 DEF IInv, TypeOK, Phases
<1>5. \A x \in Invocations :
        /\ x = i => phase'[x] = "loop" /\ last'[x] = at[i] /\ at'[x] = at[i] + 1
        /\ x # i => phase'[x] = phase[x] /\ last'[x] = last[x] /\ at'[x] = at[x]
  BY <1>1 DEF IInv, TypeOK
<1>6. LoopInv'
  BY <1>2, <1>5 DEF IInv, LoopInv, HasMore, InTest
<1>7. ToRun(i) \subseteq ToRun(i)'
  <2>1. \A pkg \in ToRun(i) : pkg \in Packages(i) /\ pkg \in Int /\ at[i] < pkg
    BY <1>1 DEF ToRun, InTest, Packages
  <2>2. ToRun(i)' = {pkg \in Packages(i) : at[i] + 1 <= pkg}
    BY <1>5 DEF ToRun, InTest
  <2> QED
    BY <2>1, <2>2, <1>2
<1> QED
  BY <1>1, <1>3, <1>4, <1>5, <1>6, <1>7, MoveStep DEF IInv, TypeOK, test

\* LoopEnds, LeaveRun: a call that gets through the loop has run every package.
LEMMA LeaveStep ==
  ASSUME IInv, NEW i \in Invocations, LoopEnds(i) \/ LeaveRun(i)
  PROVE  IInv'
<1>1. PICK ph \in {"idle", "through", "over"} :
        /\ phase' = [phase EXCEPT ![i] = ph]
        /\ ph = "through" => phase[i] = "loop" /\ ~HasMore(i) /\ device' = device
        /\ ph = "idle" => phase[i] = "lost" /\ device' = [device EXCEPT ![i] = None]
        /\ ph = "over" => phase[i] = "through" /\ device' = [device EXCEPT ![i] = None]
        /\ UNCHANGED <<at, last, remaining, serial, shared, leftBehind, faults, test, results>>
  BY DEF LoopEnds, LeaveRun, Goto, devices, faulty
<1>2. phase[i] \in {"loop", "lost", "through"}
  BY <1>1
<1>3. sent[i] = NoReport /\ delivered[i] = NoReport
  BY <1>2, NothingSent DEF IInv, InTest
<1>4. \A x \in Invocations : phase'[x] = IF x = i THEN ph ELSE phase[x]
  BY <1>1 DEF IInv, TypeOK
<1>5. /\ phase' \in [Invocations -> Phases] /\ device' \in [Invocations -> Devices \cup {None}]
      /\ \A x \in Invocations \ {i} : device'[x] = device[x]
      /\ IF phase'[i] \in {"idle", "over"} THEN device'[i] = None ELSE device'[i] = device[i]
  BY <1>1, <1>4 DEF IInv, TypeOK, Phases
<1>6. LoopInv'
  BY <1>1, <1>4 DEF IInv, LoopInv, HasMore, InTest
<1>7. ToRun(i) \subseteq ToRun(i)'
  <2>1. CASE ph = "idle"
    BY <2>1, <1>1, <1>4 DEF ToRun, InTest
  <2>2. CASE ph = "through"
    <3>1. \A pkg \in ToRun(i) : pkg \in Packages(i) /\ at[i] <= pkg
      BY <2>2, <1>1 DEF ToRun, InTest
    <3>2. at[i] \in Nat \ {0} /\ at[i] \notin 1 .. Len(PackagesOf[i])
      BY <2>2, <1>1 DEF IInv, TypeOK, HasMore, Packages
    <3> QED
      BY <3>1, <3>2 DEF Packages
  <2>3. CASE ph = "over"
    BY <2>3, <1>1 DEF ToRun, InTest
  <2> QED
    BY <1>1, <2>1, <2>2, <2>3
<1> QED
  BY <1>1, <1>2, <1>3, <1>4, <1>5, <1>6, <1>7, MoveStep DEF IInv, TypeOK, test

\* A step inside the body of a test, or into it, or out of it: the reports
\* made so far stay where they are.
LEMMA BodyStep ==
  ASSUME IInv, NEW i \in Invocations, NEW ph \in {"body", "tearDown", "ending"},
         phase[i] \in {"begun", "body"}, phase' = [phase EXCEPT ![i] = ph],
         UNCHANGED <<at, last, remaining, devices, sent, delivered, metrics, store, shown>>,
         \A l \in leftBehind' : l.key[1] # None /\ l.report \in Reports, faults' \in 0 .. MaxFaults,
         NEW lg \in Logs, log' = [log EXCEPT ![i] = lg],
         UNCHANGED execution \/ execution' = [execution EXCEPT ![i] = @ + 1],
         \/ UNCHANGED result
         \/ result' = [result EXCEPT ![i] = InsertTest(@, at[i])]
         \/ result' = [result EXCEPT ![i] = ReportTestFailure(@, at[i])]
  PROVE  IInv'
<1> USE DEF IInv
<1>0. UNCHANGED <<device, serial, shared>>
  BY DEF devices
<1>1. \A x \in Invocations : result'[x] \in [Packages(x) -> Status]
  <2> SUFFICES ASSUME NEW x \in Invocations PROVE result'[x] \in [Packages(x) -> Status]
    OBVIOUS
  <2>1. result[x] \in [Packages(x) -> Status] /\ result = [y \in Invocations |-> result[y]]
    BY DEF TypeOK
  <2>2. \/ result'[x] = result[x] \/ result'[x] = InsertTest(result[x], at[x])
        \/ result'[x] = ReportTestFailure(result[x], at[x])
    BY <2>1
  <2> QED
    BY <2>1, <2>2, ResultTypes
<1>2. result' = [x \in Invocations |-> result'[x]]
  BY DEF TypeOK
<1>3. TypeOK'
  <2>1. phase' \in [Invocations -> Phases] /\ log' \in [Invocations -> Logs]
    BY DEF TypeOK, Phases, InTest
  <2>2. execution' \in [Invocations -> Nat]
    <3>1. execution \in [Invocations -> Nat]
      BY DEF TypeOK
    <3> HIDE DEF IInv
    <3> QED
      BY <3>1
  <2> QED
    BY <1>0, <1>1, <1>2, <2>1, <2>2 DEF TypeOK
<1>4. \A x \in Invocations : phase'[x] = IF x = i THEN ph ELSE phase[x]
  BY DEF TypeOK
<1>5. LoopInv'
  BY <1>4 DEF LoopInv, HasMore, InTest
<1>6. DeviceInv'
  BY <1>0, <1>4 DEF DeviceInv, Begun, Live
<1>7. StoreInv'
  <2>1. \A x \in Invocations : ToRun(x) \subseteq ToRun(x)'
    BY <1>4 DEF ToRun, InTest
  <2> QED
    BY <1>0, <2>1, StoreStands
<1>8. sent[i] = NoReport /\ phase[i] # "ended" /\ ph # "ended"
  BY DEF MetricsInv
<1>9. MetricsInv'
  BY <1>4, <1>8 DEF MetricsInv, OnHost, Package, MadeBy
<1>10. DeliveredInv'
  <2>1. \A x \in Invocations : /\ phase[x] \in InTest => phase'[x] \in InTest
                               /\ phase'[x] = "ended" => phase[x] = "ended"
    BY <1>4, <1>8 DEF InTest
  <2>2. \A x \in Invocations : /\ OnHost(x)' = OnHost(x) /\ LooksWhereStored(x)' = LooksWhereStored(x)
                               /\ Stored(x)' = Stored(x)
    BY <1>0 DEF LooksWhereStored, Stored, OnHost, Package, TestKey
  <2> QED
    BY <2>1, <2>2 DEF DeliveredInv, MadeBy
<1>11. ReportOfItsTest'
  BY <1>0 DEF ReportOfItsTest, NoTwin, TestKey
<1> QED
  BY <1>3, <1>5, <1>6, <1>7, <1>9, <1>10, <1>11

\* TestStarted.
LEMMA StartedStep ==
  ASSUME IInv, NEW i \in Invocations, TestStarted(i)
  PROVE  IInv'
<1>1. log[i] \in Logs /\ log' = [log EXCEPT ![i] = log[i]]
  BY DEF TestStarted, IInv, TypeOK
<1> QED
  BY <1>1, BodyStep DEF TestStarted, Goto, faulty, IInv, TypeOK

\* PrintValue, PrintSummary, PrintSummaryWithTarget.
LEMMA PrintStep ==
  ASSUME IInv, NEW i \in Invocations, PrintValue(i) \/ PrintSummary(i) \/ PrintSummaryWithTarget(i)
  PROVE  IInv'
<1>1. log[i] \in Logs /\ phase[i] = "body" /\ phase = [phase EXCEPT ![i] = "body"]
  BY DEF IInv, TypeOK, PrintValue, PrintSummary, PrintSummaryWithTarget, SetLog
<1>2. PICK lg \in Logs : log' = [log EXCEPT ![i] = lg]
  BY <1>1 DEF PrintValue, PrintSummary, PrintSummaryWithTarget, SetLog, Logs
<1>3. PICK ph \in {"body", "tearDown"} : phase' = [phase EXCEPT ![i] = ph]
  BY <1>1 DEF PrintValue, PrintSummary, PrintSummaryWithTarget, Fails, Goto
<1>4. /\ UNCHANGED <<at, last, remaining, devices, faulty, sent, execution, delivered, metrics, store, shown>>
      /\ UNCHANGED result \/ result' = [result EXCEPT ![i] = ReportTestFailure(@, at[i])]
  BY DEF PrintValue, PrintSummary, PrintSummaryWithTarget, SetLog, Fails
<1> QED
  BY <1>1, <1>2, <1>3, <1>4, BodyStep DEF faulty, IInv, TypeOK

\* BodyFails, BodyEnds.
LEMMA LeaveBodyStep ==
  ASSUME IInv, NEW i \in Invocations, BodyFails(i) \/ BodyEnds(i)
  PROVE  IInv'
<1>1. /\ phase[i] = "body"
      /\ UNCHANGED <<at, last, remaining, devices, faulty, test, metrics, store, shown>>
      /\ phase' = [phase EXCEPT ![i] = "tearDown"]
      /\ UNCHANGED result \/ result' = [result EXCEPT ![i] = ReportTestFailure(@, at[i])]
  BY DEF BodyFails, BodyEnds, Fails, Goto, results
<1>2. log[i] \in Logs /\ log' = [log EXCEPT ![i] = log[i]]
  BY <1>1 DEF test, IInv, TypeOK
<1> QED
  BY <1>1, <1>2, BodyStep DEF test, faulty, IInv, TypeOK

\* TestTimesOut: what the thread left behind has of the device is its serial.
LEMMA TimesOutStep ==
  ASSUME IInv, NEW i \in Invocations, TestTimesOut(i)
  PROVE  IInv'
<1>1. /\ phase[i] = "body"
      /\ UNCHANGED <<at, last, remaining, devices, test, metrics, store, shown>>
      /\ phase' = [phase EXCEPT ![i] = "ending"]
      /\ result' = [result EXCEPT ![i] = ReportTestFailure(@, at[i])]
      /\ faults < MaxFaults /\ faults' = faults + 1
  BY DEF TestTimesOut, Goto
<1>2. device[i] # None
  BY <1>1 DEF IInv, DeviceInv
<1>3. PICK full \in BOOLEAN :
        leftBehind' = leftBehind \cup
          {[key |-> TestKey(device[i], Package(i)), report |-> [GenerateReport(i) EXCEPT !.full = full]]}
  BY DEF TestTimesOut
<1>4. GenerateReport(i) \in Reports
  BY Generated DEF IInv
<1>5. [GenerateReport(i) EXCEPT !.full = full] \in Reports
  BY <1>4 DEF Reports
<1>6. TestKey(device[i], Package(i))[1] # None
  BY <1>2 DEF TestKey
<1>7. \A l \in leftBehind' : l.key[1] # None /\ l.report \in Reports
  <2>1. \A l \in leftBehind : l.key[1] # None /\ l.report \in Reports
    BY DEF IInv, TypeOK
  <2> DEFINE new == [key |-> TestKey(device[i], Package(i)), report |-> [GenerateReport(i) EXCEPT !.full = full]]
  <2>2. new.key[1] # None /\ new.report \in Reports
    BY <1>5, <1>6
  <2>3. leftBehind' = leftBehind \cup {new}
    BY <1>3
  <2> HIDE DEF new
  <2> QED
    BY <2>1, <2>2, <2>3
<1>8. faults' \in 0 .. MaxFaults
  BY <1>1, Assumption DEF IInv, TypeOK
<1>9. log[i] \in Logs /\ log' = [log EXCEPT ![i] = log[i]]
  BY <1>1 DEF test, IInv, TypeOK
<1> QED
  BY <1>1, <1>7, <1>8, <1>9, BodyStep DEF test

-----------------------------------------------------------------------------
(* Steps that end a run of the package: populateMetrics.                   *)

\* What populateMetrics finds was made by the test of that package, as long as
\* the serial it asks for is not shared and no other test answers to the key.
LEMMA Found ==
  ASSUME IInv, NEW i \in Invocations, Live(i), NEW pkg \in Packages(i), NEW r, r # NoReport,
         r \in metrics[i][pkg] \/
           \E e \in store : e.key = TestKey(serial[i], PackagesOf[i][pkg]) /\ r = e.report
  PROVE  /\ r \in Reports
         /\ serial[i] \notin shared /\ NoTwin(i, pkg) => MadeBy(r, i, pkg)
<1>1. CASE r \in metrics[i][pkg]
  <2>1. metrics[i][pkg] \in Metrics
    BY DEF IInv, TypeOK
  <2> QED
    BY <2>1, <1>1 DEF IInv, MetricsInv, Metrics
<1>2. ASSUME NEW e \in store, e.key = TestKey(serial[i], PackagesOf[i][pkg]), r = e.report
      PROVE  /\ r \in Reports
             /\ serial[i] \notin shared /\ NoTwin(i, pkg) => MadeBy(r, i, pkg)
  <2>1. r \in Reports
    BY <1>2 DEF IInv, StoreInv
  <2>2. ASSUME serial[i] \notin shared, NoTwin(i, pkg) PROVE MadeBy(r, i, pkg)
    <3>1. e.key[1] = serial[i]
      BY <1>2 DEF TestKey
    <3>2. PICK x \in Invocations : EntryOf(e, x)
      BY <2>2, <3>1 DEF IInv, StoreInv
    <3>3. serial[x] = serial[i]
      BY <1>2, <3>2 DEF EntryOf, TestKey
    <3>4. Live(x)
      BY <3>2 DEF EntryOf, ToRun, InTest, Live
    <3>5. x = i
      BY <2>2, <3>3, <3>4 DEF IInv, DeviceInv
    <3>6. /\ r.by = <<i>> /\ r.package \in Packages(i)
          /\ e.key = TestKey(serial[i], PackagesOf[i][r.package])
      BY <1>2, <3>2, <3>5 DEF EntryOf, ToRun
    <3>7. TestKey(None, PackagesOf[i][r.package]) = TestKey(None, PackagesOf[i][pkg])
      BY <3>6, <1>2 DEF TestKey
    <3>8. r.package = pkg
      BY <3>6, <3>7, <2>2 DEF NoTwin
    <3> QED
      BY <3>6, <3>8 DEF MadeBy
  <2> QED
    BY <2>1, <2>2
<1> QED
  BY <1>1, <1>2

\* The statuses and the reports shown stay functions from the packages, only the
\* package's report changes, and only its entry is removed from the store.
LEMMA Populated ==
  ASSUME IInv, NEW i \in Invocations, Live(i), NEW pkg \in Packages(i),
         NEW s \in [Packages(i) -> Status], PopulateMetrics(i, pkg, s)
  PROVE  /\ store' \subseteq store
         /\ \A e \in store : e.key # TestKey(serial[i], PackagesOf[i][pkg]) => e \in store'
         /\ metrics[i][pkg] = {NoReport} =>
              \A e \in store' : e.key # TestKey(serial[i], PackagesOf[i][pkg])
         /\ result' = [x \in Invocations |-> result'[x]] /\ shown' = [x \in Invocations |-> shown'[x]]
         /\ \A x \in Invocations : result'[x] \in [Packages(x) -> Status] /\ shown'[x] \in [Packages(x) -> Reports]
         /\ \A x \in Invocations : \A q \in Packages(x) :
              \/ shown'[x][q] = shown[x][q]
              \/ x = i /\ q = pkg /\ (serial[i] \notin shared /\ NoTwin(i, pkg) => MadeBy(shown'[x][q], i, pkg))
<1> DEFINE key == TestKey(serial[i], PackagesOf[i][pkg])
           inStore == metrics[i][pkg] = {NoReport}
           reports == IF inStore THEN {e.report : e \in store \ Without(key)} ELSE metrics[i][pkg]
<1>1. /\ store' = IF inStore THEN Without(key) ELSE store
      /\ \/ \E r \in reports :
              /\ r.full
              /\ result' = [result EXCEPT ![i] = [s EXCEPT ![pkg] = "pass"]]
              /\ shown' = [shown EXCEPT ![i][pkg] = r]
         \/ /\ ~(\E r \in reports : r.full)
            /\ result' = [result EXCEPT ![i] = s]
            /\ shown' = shown
  BY DEF PopulateMetrics
<1>2. \A r \in reports : r.full =>
        /\ r \in Reports
        /\ serial[i] \notin shared /\ NoTwin(i, pkg) => MadeBy(r, i, pkg)
  <2> SUFFICES ASSUME NEW r \in reports, r.full
               PROVE  /\ r \in Reports
                      /\ serial[i] \notin shared /\ NoTwin(i, pkg) => MadeBy(r, i, pkg)
    OBVIOUS
  <2>1. r # NoReport
    BY Nothing
  <2>2. r \in metrics[i][pkg] \/ \E e \in store : e.key = key /\ r = e.report
    BY DEF Without
  <2> QED
    BY <2>1, <2>2, Found
<1>3. /\ store' \subseteq store /\ \A e \in store : e.key # key => e \in store'
      /\ inStore => \A e \in store' : e.key # key
  BY <1>1 DEF Without
<1>4. /\ result = [x \in Invocations |-> result[x]] /\ shown = [x \in Invocations |-> shown[x]]
      /\ \A x \in Invocations : result[x] \in [Packages(x) -> Status] /\ shown[x] \in [Packages(x) -> Reports]
  BY DEF IInv, TypeOK
<1>5. CASE result' = [result EXCEPT ![i] = s] /\ shown' = shown
  <2>1. \A x \in Invocations : result'[x] = IF x = i THEN s ELSE result[x]
    BY <1>4, <1>5
  <2>2. result' = [x \in Invocations |-> result'[x]]
    BY <1>4, <1>5
  <2> QED
    BY <1>3, <1>4, <1>5, <2>1, <2>2
<1>6. ASSUME NEW r \in reports, r.full,
             result' = [result EXCEPT ![i] = [s EXCEPT ![pkg] = "pass"]],
             shown' = [shown EXCEPT ![i][pkg] = r]
      PROVE  /\ result' = [x \in Invocations |-> result'[x]] /\ shown' = [x \in Invocations |-> shown'[x]]
             /\ \A x \in Invocations : result'[x] \in [Packages(x) -> Status] /\ shown'[x] \in [Packages(x) -> Reports]
             /\ \A x \in Invocations : \A q \in Packages(x) :
                  \/ shown'[x][q] = shown[x][q]
                  \/ x = i /\ q = pkg /\ (serial[i] \notin shared /\ NoTwin(i, pkg) => MadeBy(shown'[x][q], i, pkg))
  <2>1. r \in Reports /\ (serial[i] \notin shared /\ NoTwin(i, pkg) => MadeBy(r, i, pkg))
    BY <1>2, <1>6
  <2> HIDE DEF reports
  <2>2. "pass" \in Status
    BY DEF Status, Executed
  <2>3. [s EXCEPT ![pkg] = "pass"] \in [Packages(i) -> Status]
    BY <2>2
  <2>4. [shown[i] EXCEPT ![pkg] = r] \in [Packages(i) -> Reports]
    BY <1>4, <2>1
  <2>5. \A x \in Invocations :
          /\ result'[x] = IF x = i THEN [s EXCEPT ![pkg] = "pass"] ELSE result[x]
          /\ shown'[x] = IF x = i THEN [shown[i] EXCEPT ![pkg] = r] ELSE shown[x]
    BY <1>4, <1>6
  <2>6. result' = [x \in Invocations |-> result'[x]] /\ shown' = [x \in Invocations |-> shown'[x]]
    BY <1>4, <1>6
  <2>7. \A x \in Invocations : result'[x] \in [Packages(x) -> Status] /\ shown'[x] \in [Packages(x) -> Reports]
    BY <1>4, <2>3, <2>4, <2>5
  <2>8. \A x \in Invocations : \A q \in Packages(x) :
          \/ shown'[x][q] = shown[x][q]
          \/ x = i /\ q = pkg /\ shown'[x][q] = r
    BY <1>4, <2>5
  <2> QED
    BY <2>1, <2>6, <2>7, <2>8
<1> HIDE DEF reports, inStore, key
<1>7. /\ result' = [x \in Invocations |-> result'[x]] /\ shown' = [x \in Invocations |-> shown'[x]]
      /\ \A x \in Invocations : result'[x] \in [Packages(x) -> Status] /\ shown'[x] \in [Packages(x) -> Reports]
      /\ \A x \in Invocations : \A q \in Packages(x) :
           \/ shown'[x][q] = shown[x][q]
           \/ x = i /\ q = pkg /\ (serial[i] \notin shared /\ NoTwin(i, pkg) => MadeBy(shown'[x][q], i, pkg))
  BY <1>1, <1>4, <1>5, <1>6
<1> QED
  BY <1>3, <1>7 DEF inStore, key

\* A run of the package ends: the invariant stands, for no entry is left of a
\* package that is not to run again.
LEMMA PopulateStep ==
  ASSUME IInv, NEW i \in Invocations, Live(i), NEW pkg \in Packages(i),
         NEW s \in [Packages(i) -> Status], PopulateMetrics(i, pkg, s),
         NEW ph \in {"begun", "between", "lost", "through"}, phase' = [phase EXCEPT ![i] = ph],
         LoopInv', device[i] # None,
         UNCHANGED <<at, last, device, serial, shared, leftBehind, faults, execution, metrics>>,
         remaining' = [x \in Invocations |-> remaining'[x]],
         \A x \in Invocations : remaining'[x] \subseteq Packages(x),
         log' \in [Invocations -> Logs], sent' \in [Invocations -> Reports],
         delivered' \in [Invocations -> Reports],
         \A x \in Invocations \ {i} : sent'[x] = sent[x] /\ delivered'[x] = delivered[x],
         sent'[i] = NoReport, delivered'[i] = NoReport,
         \A e \in store' : EntryOf(e, i) => e.report.package \in ToRun(i)'
  PROVE  IInv'
<1> DEFINE key == TestKey(serial[i], PackagesOf[i][pkg])
<1>1. /\ store' \subseteq store
      /\ \A e \in store : e.key # key => e \in store'
      /\ result' = [x \in Invocations |-> result'[x]] /\ shown' = [x \in Invocations |-> shown'[x]]
      /\ \A x \in Invocations : result'[x] \in [Packages(x) -> Status] /\ shown'[x] \in [Packages(x) -> Reports]
      /\ \A x \in Invocations : \A q \in Packages(x) :
           \/ shown'[x][q] = shown[x][q]
           \/ x = i /\ q = pkg /\ (serial[i] \notin shared /\ NoTwin(i, pkg) => MadeBy(shown'[x][q], i, pkg))
  BY Populated
<1>2. \A x \in Invocations : phase'[x] = IF x = i THEN ph ELSE phase[x]
  BY DEF IInv, TypeOK
<1>3. TypeOK'
  <2>1. phase' \in [Invocations -> Phases]
    BY DEF IInv, TypeOK, Phases
  <2> QED
    BY <1>1, <2>1 DEF IInv, TypeOK
<1>4. DeviceInv'
  <2>1. \A x \in Invocations : Live(x)' <=> Live(x)
    BY <1>2 DEF Live, Begun
  <2> QED
    BY <2>1, <1>2 DEF IInv, DeviceInv
<1>5. StoreInv'
  <2>1. ASSUME NEW e \in store', NEW x \in Invocations, EntryOf(e, x) PROVE EntryOf(e, x)'
    <3>1. CASE x = i
      BY <3>1, <2>1 DEF EntryOf, Begun, TestKey
    <3>2. CASE x # i
      <4>1. ToRun(x)' = ToRun(x)
        BY <3>2, <1>2 DEF ToRun
      <4> QED
        BY <4>1, <2>1 DEF EntryOf, Begun, TestKey
    <3> QED
      BY <3>1, <3>2
  <2> QED
    BY <2>1, <1>1 DEF IInv, StoreInv
<1>6. MetricsInv'
  BY <1>2 DEF IInv, MetricsInv, OnHost, Package, MadeBy
<1>7. DeliveredInv'
  <2>1. ASSUME NEW x \in Invocations, x # i
        PROVE  /\ delivered'[x] # NoReport /\ OnHost(x)' /\ LooksWhereStored(x)' => Stored(x)'
               /\ delivered'[x] # NoReport =>
                    /\ phase'[x] \in InTest /\ MadeBy(delivered'[x], x, at'[x])
                    /\ ~OnHost(x)' => delivered'[x] = sent'[x]
               /\ phase'[x] = "ended" => metrics'[x][at'[x]] = {sent'[x]}
    <3>1. /\ delivered'[x] = delivered[x] /\ phase'[x] = phase[x] /\ at'[x] = at[x]
          /\ sent'[x] = sent[x] /\ metrics' = metrics
      BY <2>1, <1>2
    <3>2. (OnHost(x)' <=> OnHost(x)) /\ (LooksWhereStored(x)' <=> LooksWhereStored(x))
      BY DEF LooksWhereStored, OnHost, Package
    <3>3. ASSUME delivered[x] # NoReport, OnHost(x), LooksWhereStored(x) PROVE Stored(x)'
      <4>1. phase[x] \in InTest /\ serial[x] \notin shared
        BY <3>3 DEF IInv, DeliveredInv, LooksWhereStored
      <4>2. Live(x)
        BY <4>1 DEF IInv, DeviceInv, InTest
      <4>3. serial[x] # serial[i]
        BY <2>1, <4>1, <4>2 DEF IInv, DeviceInv
      <4>4. TestKey(serial[x], Package(x)) # key
        BY <4>3 DEF TestKey
      <4>5. PICK e \in store : e.key = TestKey(serial[x], Package(x)) /\ e.report = delivered[x]
        BY <3>3 DEF IInv, DeliveredInv, Stored
      <4> HIDE DEF key
      <4>6. e \in store'
        BY <4>4, <4>5, <1>1
      <4> QED
        BY <4>5, <4>6, <3>1 DEF Stored, Package, TestKey
    <3> QED
      BY <3>1, <3>2, <3>3 DEF IInv, DeliveredInv, MadeBy
  <2>2. delivered'[i] = NoReport /\ phase'[i] # "ended"
    BY <1>2
  <2> QED
    BY <2>1, <2>2 DEF DeliveredInv, MadeBy
<1>8. ReportOfItsTest'
  <2>1. \A x \in Invocations : \A q \in Packages(x) : NoTwin(x, q)' <=> NoTwin(x, q)
    BY DEF NoTwin, TestKey
  <2> QED
    BY <2>1, <1>1 DEF IInv, ReportOfItsTest, MadeBy
<1> QED
  BY <1>3, <1>4, <1>5, <1>6, <1>7, <1>8 DEF IInv

\* ForwardPackageDetails: the package's own run is still to come.
LEMMA ForwardStep ==
  ASSUME IInv, NEW i \in Invocations, ForwardPackageDetails(i)
  PROVE  IInv'
<1>1. /\ phase[i] = "loop" /\ at[i] \in Packages(i)
      /\ phase' = [phase EXCEPT ![i] = "begun"]
      /\ PopulateMetrics(i, at[i], result[i])
      /\ UNCHANGED <<at, last, remaining, devices, faulty, test, metrics>>
  BY DEF ForwardPackageDetails, HasMore, Goto
<1>2. UNCHANGED <<device, serial, shared, leftBehind, faults, log, sent, delivered, execution>>
  BY <1>1 DEF devices, faulty, test
<1>3. device[i] # None /\ Live(i)
  BY <1>1 DEF IInv, DeviceInv
<1>4. sent[i] = NoReport /\ delivered[i] = NoReport
  BY <1>1, NothingSent DEF IInv, InTest
<1>5. \A x \in Invocations : phase'[x] = IF x = i THEN "begun" ELSE phase[x]
  BY <1>1 DEF IInv, TypeOK
<1>6. LoopInv'
  BY <1>1, <1>5 DEF IInv, LoopInv, HasMore, InTest
<1>7. ToRun(i)' = ToRun(i)
  BY <1>1, <1>5 DEF ToRun, InTest
<1>8. \A e \in store' : EntryOf(e, i) => e.report.package \in ToRun(i)'
  BY <1>7 DEF EntryOf
<1>9. result[i] \in [Packages(i) -> Status]
  BY DEF IInv, TypeOK
<1>10. /\ remaining' = [x \in Invocations |-> remaining'[x]]
       /\ \A x \in Invocations : remaining'[x] \subseteq Packages(x)
       /\ log' \in [Invocations -> Logs] /\ sent' \in [Invocations -> Reports]
       /\ delivered' \in [Invocations -> Reports]
  BY <1>1, <1>2 DEF IInv, TypeOK
<1> QED
  BY <1>1, <1>2, <1>3, <1>4, <1>6, <1>8, <1>9, <1>10, PopulateStep

\* ReportUnexecutedTests: a run of its own, after the loop has been left.
LEMMA UnexecutedStep ==
  ASSUME IInv, NEW i \in Invocations, NEW pkg \in Packages(i), ReportUnexecutedTests(i, pkg)
  PROVE  IInv'
<1>1. /\ phase[i] \in {"lost", "through"}
      /\ remaining' = [remaining EXCEPT ![i] = @ \ {pkg}]
      /\ PopulateMetrics(i, pkg, InsertTest(result[i], pkg))
      /\ UNCHANGED <<phase, at, last, devices, faulty, test, metrics>>
  BY DEF ReportUnexecutedTests
<1>2. UNCHANGED <<device, serial, shared, leftBehind, faults, log, sent, delivered, execution>>
  BY <1>1 DEF devices, faulty, test
<1>3. device[i] # None /\ Live(i)
  BY <1>1 DEF IInv, DeviceInv
<1>4. sent[i] = NoReport /\ delivered[i] = NoReport
  BY <1>1, NothingSent DEF IInv, InTest
<1>5. PICK ph \in {"lost", "through"} : ph = phase[i]
  BY <1>1
<1>6. phase' = [phase EXCEPT ![i] = ph]
  BY <1>1, <1>5 DEF IInv, TypeOK
<1>7. LoopInv' /\ ToRun(i)' = ToRun(i)
  BY <1>1 DEF IInv, LoopInv, HasMore, ToRun
<1>8. \A e \in store' : EntryOf(e, i) => e.report.package \in ToRun(i)'
  BY <1>7 DEF EntryOf
<1>9. InsertTest(result[i], pkg) \in [Packages(i) -> Status]
  <2>1. result[i] \in [Packages(i) -> Status]
    BY DEF IInv, TypeOK
  <2> QED
    BY <2>1, ResultTypes
<1>10. /\ remaining' = [x \in Invocations |-> remaining'[x]]
       /\ \A x \in Invocations : remaining'[x] \subseteq Packages(x)
       /\ log' \in [Invocations -> Logs] /\ sent' \in [Invocations -> Reports]
       /\ delivered' \in [Invocations -> Reports]
  BY <1>1, <1>2 DEF IInv, TypeOK
<1> QED
  BY <1>1, <1>2, <1>3, <1>4, <1>6, <1>7, <1>8, <1>9, <1>10, PopulateStep

\* RunEnded: the report that the test delivered is shown, if populateMetrics
\* looks where it is stored, and the store is rid of the package's entry.
LEMMA RunEndedStep ==
  ASSUME IInv, NEW i \in Invocations, RunEnded(i)
  PROVE  /\ IInv'
         /\ delivered[i].full /\ LooksWhereStored(i) => shown'[i][at[i]] = delivered[i]
<1> DEFINE pkg == at[i]
           key == TestKey(serial[i], Package(i))
           inStore == metrics[i][pkg] = {NoReport}
           reports == IF inStore THEN {e.report : e \in store \ Without(key)} ELSE metrics[i][pkg]
<1>1. /\ phase[i] = "ended"
      /\ phase' = [phase EXCEPT ![i] = "between"]
      /\ PopulateMetrics(i, pkg, result[i])
      /\ log' = [log EXCEPT ![i] = EmptyLog] /\ sent' = [sent EXCEPT ![i] = NoReport]
      /\ delivered' = [delivered EXCEPT ![i] = NoReport]
      /\ UNCHANGED <<at, last, remaining, device, serial, shared, leftBehind, faults, execution, metrics>>
  BY DEF RunEnded, ForgetTest, Goto, devices, faulty
<1>2. pkg \in Packages(i) /\ device[i] # None /\ Live(i) /\ metrics[i][pkg] = {sent[i]}
  BY <1>1 DEF IInv, LoopInv, DeviceInv, DeliveredInv, InTest, HasMore
<1>3. result[i] \in [Packages(i) -> Status]
  BY DEF IInv, TypeOK
<1>4. \A x \in Invocations :
        /\ x = i => sent'[x] = NoReport /\ delivered'[x] = NoReport /\ phase'[x] = "between"
        /\ x # i => sent'[x] = sent[x] /\ delivered'[x] = delivered[x] /\ phase'[x] = phase[x]
  BY <1>1 DEF IInv, TypeOK
<1>5. LoopInv'
  BY <1>1, <1>2, <1>4 DEF IInv, LoopInv, HasMore, InTest
<1>6. \A e \in store' : EntryOf(e, i) => e.report.package \in ToRun(i)'
  <2> SUFFICES ASSUME NEW e \in store', EntryOf(e, i) PROVE e.report.package \in ToRun(i)'
    OBVIOUS
  <2>1. e.report.package \in Packages(i) /\ at[i] <= e.report.package
    BY <1>1 DEF EntryOf, ToRun, InTest
  <2>2. e.report.package # at[i]
    <3>1. CASE inStore
      <4>1. e.key # key
        BY <3>1, <1>1, <1>2, <1>3, Populated DEF Package
      <4> QED
        BY <4>1 DEF EntryOf, Package
    <3>2. CASE ~inStore
      <4>1. ~PackagesOf[i][at[i]].host
        BY <3>2, <1>2 DEF IInv, MetricsInv, OnHost, Package
      <4> QED
        BY <4>1 DEF EntryOf
    <3> QED
      BY <3>1, <3>2
  <2>3. ToRun(i)' = {q \in Packages(i) : at[i] < q}
    BY <1>1, <1>4 DEF ToRun, InTest
  <2>4. at[i] \in Int /\ e.report.package \in Int
    BY <1>2, <2>1 DEF Packages
  <2> QED
    BY <2>1, <2>2, <2>3, <2>4
<1>7. /\ remaining' = [x \in Invocations |-> remaining'[x]]
      /\ \A x \in Invocations : remaining'[x] \subseteq Packages(x)
      /\ log' \in [Invocations -> Logs] /\ sent' \in [Invocations -> Reports]
      /\ delivered' \in [Invocations -> Reports]
  BY <1>1, Nothing DEF IInv, TypeOK
<1>8. IInv'
  BY <1>1, <1>2, <1>3, <1>4, <1>5, <1>6, <1>7, PopulateStep
<1>9. delivered[i].full /\ LooksWhereStored(i) => shown'[i][pkg] = delivered[i]
  <2> SUFFICES ASSUME delivered[i].full, LooksWhereStored(i) PROVE shown'[i][pkg] = delivered[i]
    OBVIOUS
  <2>1. delivered[i] # NoReport
    BY Nothing
  <2>2. reports = {delivered[i]}
    <3>1. CASE OnHost(i)
      <4>1. inStore
        BY <3>1, <1>2 DEF IInv, MetricsInv
      <4>2. PICK e \in store : e.key = key /\ e.report = delivered[i]
        BY <3>1, <2>1 DEF IInv, DeliveredInv, Stored
      <4>3. \A f \in store : f.key = key => f = e
        BY <4>2 DEF IInv, StoreInv
      <4> HIDE DEF key
      <4>4. store \ Without(key) = {e}
        BY <4>2, <4>3 DEF Without
      <4> HIDE DEF inStore
      <4> QED
        BY <4>1, <4>2, <4>4
    <3>2. CASE ~OnHost(i)
      BY <3>2, <2>1, <1>2 DEF IInv, DeliveredInv
    <3> QED
      BY <3>1, <3>2
  <2>3. shown' = [shown EXCEPT ![i][pkg] = delivered[i]]
    <3>1. \/ \E r \in reports : r.full /\ shown' = [shown EXCEPT ![i][pkg] = r]
          \/ ~(\E r \in reports : r.full)
      BY <1>1 DEF PopulateMetrics, Package
    <3> HIDE DEF reports
    <3> QED
      BY <3>1, <2>2
  <2> QED
    BY <2>3, <1>2 DEF IInv, TypeOK
<1> QED
  BY <1>8, <1>9

-----------------------------------------------------------------------------
(* Steps that put a report into the store, and those that send it.         *)

\* An entry that replaces the one of its key: it is of the test under way on a
\* device, or that device is shared.
LEMMA StorePut ==
  ASSUME StoreInv, NEW key, NEW new,
         new.key = key, new.report \in Reports, store' = Without(key) \cup {new},
         UNCHANGED <<serial, phase, at, last>>, shared \subseteq shared',
         key[1] \notin shared' => \E i \in Invocations : EntryOf(new, i)
  PROVE  StoreInv'
<1>1. \A e, i : EntryOf(e, i) => EntryOf(e, i)'
  BY DEF EntryOf, ToRun, Begun, TestKey
<1>2. \A e \in store' : (e \in store /\ e.key # key) \/ e = new
  BY DEF Without
<1>3. \A e \in store' : e.report \in Reports
  BY <1>2 DEF StoreInv
<1>4. \A e \in store' : e.key[1] \notin shared' => \E i \in Invocations : EntryOf(e, i)
  BY <1>2 DEF StoreInv
<1>5. \A e, f \in store' : e.key = f.key => e = f
  BY <1>2 DEF StoreInv
<1> QED
  BY <1>1, <1>3, <1>4, <1>5 DEF StoreInv

\* A host test delivers: its entry takes the place of the one it had.
LEMMA HostDeliverStep ==
  ASSUME IInv, NEW i \in Invocations, HostDeliver(i)
  PROVE  IInv'
<1> DEFINE r == GenerateReport(i)
           key == TestKey(device[i], Package(i))
           entry == [key |-> key, report |-> r]
<1>1. /\ phase[i] = "body" /\ OnHost(i) /\ at[i] \in Packages(i) /\ device[i] # None /\ Live(i)
      /\ store' = Without(key) \cup {entry}
      /\ delivered' = [delivered EXCEPT ![i] = r]
      /\ log' = [log EXCEPT ![i] = EmptyLog]
      /\ UNCHANGED <<phase, at, last, remaining, device, serial, shared, leftBehind, faults,
                     sent, execution, metrics, result, shown>>
  BY DEF HostDeliver, IInv, LoopInv, DeviceInv, InTest, HasMore, loop, devices, faulty
<1>2. r \in Reports /\ MadeBy(r, i, at[i]) /\ r # NoReport
  BY Generated DEF IInv
<1>3. sent[i] = NoReport
  BY <1>1 DEF IInv, MetricsInv
<1>4. \A e \in store : e.key # key => e \in store'
  BY <1>1 DEF Without
<1>5. entry \in store' /\ entry.key = key /\ entry.report = r
  BY <1>1
<1>6. key[1] = device[i]
  BY DEF TestKey
<1>7. device[i] \notin shared => EntryOf(entry, i)
  <2>1. device[i] \notin shared => device[i] = serial[i]
    BY <1>1 DEF IInv, DeviceInv
  <2>2. at[i] \in ToRun(i)
    BY <1>1 DEF ToRun, InTest, Packages
  <2>3. Begun(i)
    BY <1>1 DEF Live
  <2> QED
    BY <2>1, <2>2, <2>3, <1>1, <1>2, <1>5 DEF EntryOf, MadeBy, OnHost, Package
<1> HIDE DEF r, entry
<1>8. TypeOK'
  BY <1>1, <1>2, Nothing DEF IInv, TypeOK
<1>9. LoopInv' /\ DeviceInv' /\ ReportOfItsTest' /\ MetricsInv'
  BY <1>1 DEF IInv, LoopInv, HasMore, DeviceInv, Begun, Live, ReportOfItsTest, NoTwin, TestKey,
     MetricsInv, OnHost, Package, MadeBy
<1>10. StoreInv'
  <2> HIDE DEF key
  <2> QED
    BY <1>1, <1>2, <1>5, <1>6, <1>7, StorePut DEF IInv
<1>11. DeliveredInv'
  <2>0. \A x \in Invocations :
          /\ OnHost(x)' <=> OnHost(x)
          /\ LooksWhereStored(x)' <=> LooksWhereStored(x)
          /\ Stored(x)' <=> \E e \in store' : e.key = TestKey(serial[x], Package(x)) /\ e.report = delivered'[x]
    BY <1>1 DEF LooksWhereStored, Stored, OnHost, Package, TestKey
  <2> HIDE DEF key
  <2> SUFFICES ASSUME NEW x \in Invocations
               PROVE  /\ delivered'[x] # NoReport /\ OnHost(x) /\ LooksWhereStored(x) =>
                           \E e \in store' : e.key = TestKey(serial[x], Package(x)) /\ e.report = delivered'[x]
                      /\ delivered'[x] # NoReport =>
                           /\ phase[x] \in InTest /\ MadeBy(delivered'[x], x, at[x])
                           /\ (~OnHost(x) => delivered'[x] = sent[x])
                      /\ phase[x] = "ended" => metrics[x][at[x]] = {sent[x]}
    BY <1>1, <2>0 DEF DeliveredInv, MadeBy
  <2>1. CASE x = i
    <3>1. LooksWhereStored(i) => key = TestKey(serial[i], Package(i))
      BY <1>1 DEF LooksWhereStored, key
    <3>2. phase[i] \in InTest /\ phase[i] # "ended"
      BY <1>1 DEF InTest
    <3> QED
      BY <2>1, <3>1, <3>2, <1>1, <1>2, <1>5 DEF IInv, TypeOK
  <2>2. CASE x # i
    <3>1. delivered'[x] = delivered[x]
      BY <2>2, <1>1 DEF IInv, TypeOK
    <3>2. ASSUME delivered[x] # NoReport, OnHost(x), LooksWhereStored(x)
          PROVE  TestKey(serial[x], Package(x)) # key
      <4>1. device[x] = serial[x] /\ phase[x] \in InTest
        BY <3>2 DEF LooksWhereStored, IInv, DeliveredInv
      <4>2. device[x] # device[i]
        BY <2>2, <1>1 DEF IInv, DeviceInv
      <4> QED
        BY <4>1, <4>2 DEF TestKey, key
    <3> QED
      BY <3>1, <3>2, <1>4 DEF IInv, DeliveredInv, Stored
  <2> QED
    BY <2>1, <2>2
<1> QED
  BY <1>8, <1>9, <1>10, <1>11 DEF IInv

\* LateDeliver: from now on the device that the thread was given is shared.
LEMMA LateStep ==
  ASSUME IInv, NEW late \in leftBehind, LateDeliver(late)
  PROVE  IInv'
<1>1. /\ leftBehind' = leftBehind \ {late}
      /\ store' = Without(late.key) \cup {late}
      /\ shared' = shared \cup {late.key[1]}
      /\ UNCHANGED <<phase, at, last, remaining, device, serial, faults, log, sent, execution,
                     delivered, metrics, result, shown>>
  BY DEF LateDeliver, loop, test
<1>2. late.report \in Reports /\ late.key[1] # None
  BY DEF IInv, TypeOK
<1>3. TypeOK'
  BY <1>1, <1>2 DEF IInv, TypeOK
<1>4. LoopInv' /\ DeviceInv'
  BY <1>1 DEF IInv, LoopInv, HasMore, DeviceInv, Begun, Live
<1>5. StoreInv'
  BY <1>1, <1>2, StorePut DEF IInv
<1>6. MetricsInv' /\ ReportOfItsTest'
  BY <1>1 DEF IInv, MetricsInv, ReportOfItsTest, NoTwin, TestKey, MadeBy, OnHost, Package
<1>7. DeliveredInv'
  <2>1. ASSUME NEW x \in Invocations, OnHost(x), LooksWhereStored(x)', Stored(x)
        PROVE  Stored(x)'
    <3>1. TestKey(serial[x], Package(x)) # late.key
      BY <2>1, <1>1 DEF LooksWhereStored, OnHost, Package, TestKey
    <3> QED
      BY <2>1, <3>1, <1>1 DEF Stored, Without, Package, TestKey
  <2>2. \A x \in Invocations : (OnHost(x) <=> OnHost(x)') /\ (LooksWhereStored(x)' => LooksWhereStored(x))
    BY <1>1 DEF OnHost, Package, LooksWhereStored
  <2> QED
    BY <2>1, <2>2, <1>1 DEF IInv, DeliveredInv, MadeBy
<1> QED
  BY <1>3, <1>4, <1>5, <1>6, <1>7 DEF IInv

\* A device test delivers when it is torn down.
LEMMA TearDownStep ==
  ASSUME IInv, NEW i \in Invocations, TearDown(i)
  PROVE  IInv'
<1> DEFINE r == GenerateReport(i)
<1>1. /\ phase[i] = "tearDown"
      /\ phase' = [phase EXCEPT ![i] = "ending"]
      /\ log' = [log EXCEPT ![i] = EmptyLog]
      /\ \/ UNCHANGED <<sent, delivered>>
         \/ /\ ~OnHost(i)
            /\ sent' = [sent EXCEPT ![i] = r]
            /\ delivered' = [delivered EXCEPT ![i] = r]
      /\ UNCHANGED <<at, last, remaining, device, serial, shared, leftBehind, faults, execution,
                     metrics, store, result, shown>>
  BY DEF TearDown, Goto, devices, faulty, results
<1>2. r \in Reports /\ MadeBy(r, i, at[i])
  BY Generated DEF IInv
<1> HIDE DEF r
<1>3. TypeOK'
  <2>1. sent' \in [Invocations -> Reports] /\ delivered' \in [Invocations -> Reports]
    <3>1. sent \in [Invocations -> Reports] /\ delivered \in [Invocations -> Reports]
      BY DEF IInv, TypeOK
    <3> QED
      BY <3>1, <1>1, <1>2
  <2>2. phase' \in [Invocations -> Phases]
    BY <1>1 DEF IInv, TypeOK, Phases, InTest
  <2> QED
    BY <2>1, <2>2, <1>1, Nothing DEF IInv, TypeOK
<1>4. \A x \in Invocations : /\ phase'[x] = IF x = i THEN "ending" ELSE phase[x]
                             /\ x # i => sent'[x] = sent[x] /\ delivered'[x] = delivered[x]
  BY <1>1 DEF IInv, TypeOK
<1>5. LoopInv' /\ DeviceInv'
  BY <1>1, <1>4 DEF IInv, LoopInv, HasMore, InTest, DeviceInv, Begun, Live
<1>6. StoreInv'
  <2>1. \A x \in Invocations : ToRun(x) \subseteq ToRun(x)'
    BY <1>1, <1>4 DEF ToRun, InTest
  <2> QED
    BY <2>1, <1>1, StoreStands DEF IInv
<1>7. ReportOfItsTest'
  BY <1>1 DEF IInv, ReportOfItsTest, NoTwin, TestKey
<1>8. MetricsInv'
  <2>1. sent'[i] = NoReport \/ (~OnHost(i) /\ MadeBy(sent'[i], i, at[i]))
    BY <1>1, <1>2 DEF IInv, TypeOK, MetricsInv
  <2> QED
    BY <2>1, <1>1, <1>4 DEF IInv, MetricsInv, OnHost, Package, MadeBy
<1>9. DeliveredInv'
  <2> SUFFICES ASSUME NEW x \in Invocations
               PROVE  /\ delivered'[x] # NoReport /\ OnHost(x) /\ LooksWhereStored(x) =>
                           \E e \in store : e.key = TestKey(serial[x], Package(x)) /\ e.report = delivered'[x]
                      /\ delivered'[x] # NoReport =>
                           /\ phase'[x] \in InTest /\ MadeBy(delivered'[x], x, at[x])
                           /\ (~OnHost(x) => delivered'[x] = sent'[x])
                      /\ phase'[x] = "ended" => metrics[x][at[x]] = {sent'[x]}
    BY <1>1 DEF DeliveredInv, LooksWhereStored, Stored, OnHost, Package, TestKey, MadeBy
  <2>1. CASE x = i
    <3>0. phase'[i] \in InTest /\ phase'[i] # "ended"
      BY <1>4 DEF InTest
    <3>1. CASE UNCHANGED <<sent, delivered>>
      BY <2>1, <3>0, <3>1 DEF IInv, DeliveredInv, Stored
    <3>2. CASE ~OnHost(i) /\ sent'[i] = r /\ delivered'[i] = r
      BY <2>1, <3>0, <3>2, <1>2
    <3>3. ~(UNCHANGED <<sent, delivered>>) => ~OnHost(i) /\ sent'[i] = r /\ delivered'[i] = r
      BY <1>1 DEF IInv, TypeOK
    <3> QED
      BY <3>1, <3>2, <3>3
  <2>2. CASE x # i
    BY <2>2, <1>4 DEF IInv, DeliveredInv, Stored
  <2> QED
    BY <2>1, <2>2
<1> QED
  BY <1>3, <1>5, <1>6, <1>7, <1>8, <1>9 DEF IInv

\* The metrics of the ended test replace those of an earlier execution.
LEMMA EndedStep ==
  ASSUME IInv, NEW i \in Invocations, TestEnded(i)
  PROVE  IInv'
<1>1. /\ phase[i] = "ending" /\ at[i] \in Packages(i)
      /\ phase' = [phase EXCEPT ![i] = "ended"]
      /\ result' = [result EXCEPT ![i] = ReportTestEnded(@, at[i])]
      /\ metrics' = [metrics EXCEPT ![i][at[i]] = {sent[i]}]
      /\ remaining' = [remaining EXCEPT ![i] = @ \ {at[i]}]
      /\ UNCHANGED <<at, last, device, serial, shared, leftBehind, faults, log, sent, execution,
                     delivered, store, shown>>
  BY DEF TestEnded, PutMetrics, Goto, IInv, LoopInv, InTest, HasMore, devices, faulty, test
<1>2. \A x \in Invocations : \A pkg \in Packages(x) :
        metrics'[x][pkg] = IF x = i /\ pkg = at[i] THEN {sent[i]} ELSE metrics[x][pkg]
  BY <1>1 DEF IInv, TypeOK
<1>3. TypeOK'
  <2>1. result' = [x \in Invocations |-> result'[x]]
    BY <1>1 DEF IInv, TypeOK
  <2>2. \A x \in Invocations : result'[x] \in [Packages(x) -> Status]
    <3>1. \A x \in Invocations : result'[x] = IF x = i THEN ReportTestEnded(result[i], at[i]) ELSE result[x]
      BY <1>1 DEF IInv, TypeOK
    <3>2. result[i] \in [Packages(i) -> Status]
      BY DEF IInv, TypeOK
    <3>3. ReportTestEnded(result[i], at[i]) \in [Packages(i) -> Status]
      BY <3>2, ResultTypes
    <3> QED
      BY <3>1, <3>3 DEF IInv, TypeOK
  <2>3. \A x \in Invocations : metrics'[x] \in [Packages(x) -> Metrics]
    <3>1. {sent[i]} \in Metrics
      BY DEF IInv, TypeOK, Metrics
    <3>2. \A x \in Invocations : metrics'[x] = IF x = i THEN [metrics[i] EXCEPT ![at[i]] = {sent[i]}] ELSE metrics[x]
      BY <1>1 DEF IInv, TypeOK
    <3>3. \A x \in Invocations : metrics[x] \in [Packages(x) -> Metrics]
      BY DEF IInv, TypeOK
    <3>4. [metrics[i] EXCEPT ![at[i]] = {sent[i]}] \in [Packages(i) -> Metrics]
      BY <3>1, <3>3
    <3> QED
      BY <3>2, <3>3, <3>4
  <2>4. metrics' = [x \in Invocations |-> metrics'[x]]
    BY <1>1 DEF IInv, TypeOK
  <2>5. /\ remaining' = [x \in Invocations |-> remaining'[x]]
        /\ \A x \in Invocations : remaining'[x] \subseteq Packages(x)
    BY <1>1 DEF IInv, TypeOK
  <2>6. phase' \in [Invocations -> Phases]
    BY <1>1 DEF IInv, TypeOK, Phases, InTest
  <2> QED
    BY <2>1, <2>2, <2>3, <2>4, <2>5, <2>6, <1>1 DEF IInv, TypeOK
<1>4. \A x \in Invocations : phase'[x] = IF x = i THEN "ended" ELSE phase[x]
  BY <1>1 DEF IInv, TypeOK
<1>5. LoopInv' /\ DeviceInv'
  BY <1>1, <1>4 DEF IInv, LoopInv, HasMore, InTest, DeviceInv, Begun, Live
<1>6. StoreInv'
  <2>1. \A x \in Invocations : ToRun(x) \subseteq ToRun(x)'
    BY <1>1, <1>4 DEF ToRun, InTest
  <2> QED
    BY <2>1, <1>1, StoreStands DEF IInv
<1>7. ReportOfItsTest'
  BY <1>1 DEF IInv, ReportOfItsTest, NoTwin, TestKey
<1>8. MetricsInv'
  BY <1>1, <1>2, <1>4 DEF IInv, MetricsInv, OnHost, Package, MadeBy
<1>9. DeliveredInv'
  <2>1. \A x \in Invocations : phase'[x] = "ended" => metrics'[x][at[x]] = {sent[x]}
    <3>1. \A x \in Invocations : phase'[x] = "ended" /\ x # i =>
            metrics[x][at[x]] = {sent[x]} /\ at[x] \in Packages(x)
      BY <1>4 DEF IInv, LoopInv, DeliveredInv, InTest, HasMore
    <3> QED
      BY <3>1, <1>1, <1>2
  <2>2. \A x \in Invocations : /\ OnHost(x)' = OnHost(x) /\ LooksWhereStored(x)' = LooksWhereStored(x)
                               /\ Stored(x)' = Stored(x)
    BY <1>1 DEF LooksWhereStored, Stored, OnHost, Package, TestKey
  <2>3. \A x \in Invocations : phase[x] \in InTest => phase'[x] \in InTest
    BY <1>4 DEF InTest
  <2> QED
    BY <2>1, <2>2, <2>3, <1>1 DEF IInv, DeliveredInv, MadeBy
<1> QED
  BY <1>3, <1>5, <1>6, <1>7, <1>8, <1>9 DEF IInv

\* Every step preserves the invariant.
LEMMA StepInv == ASSUME IInv, [Next]_vars PROVE IInv'
<1>1. CASE Next
  <2>1. ASSUME NEW i \in Invocations, Loop(i) PROVE IInv'
    BY <2>1, BeginStep, ForwardStep, StartedStep, EndedStep, RunEndedStep, NextPackageStep, LeaveStep,
       LostStep, UnexecutedStep DEF Loop
  <2>2. ASSUME NEW i \in Invocations, Test(i) PROVE IInv'
    BY <2>2, PrintStep, LeaveBodyStep, HostDeliverStep, TearDownStep, TimesOutStep DEF Test
  <2> QED
    BY <1>1, <2>1, <2>2, LateStep DEF Next
<1>2. CASE UNCHANGED vars
  <2>1. UNCHANGED <<device, serial, phase, at, last, remaining, leftBehind, faults, shared, log, sent,
                    execution, delivered, metrics, store, result, shown>>
    BY <1>2 DEF vars, loop, devices, faulty, test, results
  <2>2. TypeOK' /\ LoopInv' /\ DeviceInv' /\ MetricsInv' /\ ReportOfItsTest'
    BY <2>1 DEF IInv, TypeOK, LoopInv, HasMore, DeviceInv, Begun, Live, MetricsInv, MadeBy,
       ReportOfItsTest, NoTwin, TestKey, OnHost, Package
  <2>3. StoreInv'
    <3>1. \A x \in Invocations : ToRun(x) \subseteq ToRun(x)'
      BY <2>1 DEF ToRun
    <3> QED
      BY <2>1, <3>1, StoreStands DEF IInv
  <2>4. DeliveredInv'
    BY <2>1 DEF IInv, DeliveredInv, LooksWhereStored, Stored, OnHost, Package, TestKey, MadeBy
  <2> QED
    BY <2>2, <2>3, <2>4 DEF IInv
<1> QED
  BY <1>1, <1>2

-----------------------------------------------------------------------------
(* The theorems.                                                           *)

\* The inductive invariant holds in every reachable state.
THEOREM Invariance == Spec => []IInv
BY InitInv, StepInv, PTL DEF Spec

\* A report is shown with the result of the very test that made it, whatever the
\* host's one store holds, unless the device that the invocation began on is
\* shared or the invocation has two tests of one name.
THEOREM ReportsAreTheirTests == Spec => []ReportOfItsTest
<1>1. IInv => ReportOfItsTest
  BY DEF IInv
<1> QED
  BY <1>1, Invariance, PTL

\* A run of a test is ended by RunEnded only, which shows the report the test
\* delivered in the execution that has just ended, if it was delivered where
\* populateMetrics looks for it.
THEOREM ReportsArrive == Spec => ReportArrives
<1> DEFINE Arrives == \A i \in Invocations :
             RunEnds(i) /\ delivered[i].full /\ LooksWhereStored(i) => shown'[i][at[i]] = delivered[i]
<1>1. ASSUME IInv, [Next]_vars PROVE Arrives
  <2> SUFFICES ASSUME NEW i \in Invocations, phase[i] = "ended", phase'[i] = "between",
                      delivered[i].full, LooksWhereStored(i)
               PROVE  shown'[i][at[i]] = delivered[i]
    BY DEF RunEnds
  <2>1. PICK x \in Invocations : Loop(x) \/ Test(x)
    <3>1. ~(UNCHANGED phase)
      OBVIOUS
    <3>2. \A late \in leftBehind : LateDeliver(late) => UNCHANGED phase
      BY DEF LateDeliver, loop
    <3> QED
      BY <1>1, <3>1, <3>2 DEF Next, vars, loop
  <2>2. \A y, ph : Goto(y, ph) => y = i /\ ph = "between"
    BY <1>1 DEF Goto, IInv, TypeOK
  <2>3. ~(UNCHANGED phase)
    OBVIOUS
  <2>4. ~Test(x)
    BY <2>2, <2>3 DEF Test, PrintValue, PrintSummary, PrintSummaryWithTarget, SetLog, BodyFails, Fails,
       BodyEnds, HostDeliver, TearDown, TestTimesOut, loop
  <2>5. RunEnded(x) /\ x = i
    BY <2>1, <2>2, <2>3, <2>4 DEF Loop, Begin, Resume, CallRun, ForwardPackageDetails, TestStarted,
       TestEnded, RunEnded, NextPackage, LoopEnds, DeviceLost, ReportUnexecutedTests, LeaveRun
  <2> QED
    BY <1>1, <2>5, RunEndedStep
<1>2. [Next]_vars /\ IInv => [Arrives]_vars
  BY <1>1
<1>3. Spec => [][Arrives]_vars
  BY <1>2, Invariance, PTL DEF Spec
<1> QED
  BY <1>3 DEF ReportArrives
=============================================================================
