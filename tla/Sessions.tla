------------------------------ MODULE Sessions ------------------------------
(***************************************************************************)
(* The result directory of a CTS host: sessions, their ids and             *)
(* --continue-session.  Every invocation writes its report into a session  *)
(* directory when it ends (result/CtsXmlResultReporter.java).  A session's *)
(* id is the index of its directory among those that hold a report file    *)
(* (result/TestResultRepo.java); the reporter and the derived plan         *)
(* (result/PlanCreator.java) each look it up, at different times, while    *)
(* invocations on other devices may end.  The host may be killed.          *)
(* One package stands for all: the ids and plans treat each alike.         *)
(***************************************************************************)
EXTENDS Integers, FiniteSets, TestPackageResult

CONSTANTS
  Devices,          \* one invocation at a time runs on each
  Tests,            \* the tests of the package
  KnownFailures,    \* those with expectation="failure" in the package's xml
  ContinueKnown,    \* the values of --run-known-failures given to a continued
                    \* invocation; a new one may have either
  MaxSessions       \* bound on the sessions made

ASSUME Assumption ==
  /\ KnownFailures \subseteq Tests
  /\ ContinueKnown \subseteq BOOLEAN
  /\ MaxSessions \in Nat

AllSessions == 1 .. MaxSessions

VARIABLES
  made,      \* session directories made; their names sort by time
  written,   \* the state of the report file of each
  content,   \* the results in the last whole report file of each
  phase,     \* where the invocation of each device is
  id,        \* mContinueSessionId, a new session has none
  known,     \* mIncludeKnownFailures of CtsTest
  dir,       \* mReportDir
  results,   \* mResults
  todo,      \* the tests the invocation has still to run
  wanted,    \* history: the session that had the id when the user chose it
  missing,   \* history: the tests that session had not executed then
  ran        \* history: the tests this invocation has run

repo == <<made, written, content>>
command == <<id, known, wanted, missing>>
vars == <<made, written, content, phase, id, known, dir, results, todo, wanted,
          missing, ran>>

NoId == -1

Init ==
  /\ made = 0
  /\ written = [s \in AllSessions |-> "none"]
  /\ content = [s \in AllSessions |-> NewResult(Tests)]
  /\ phase = [d \in Devices |-> "idle"]
  /\ id = [d \in Devices |-> NoId]
  /\ known = [d \in Devices |-> FALSE]
  /\ dir = [d \in Devices |-> 0]
  /\ results = [d \in Devices |-> NewResult(Tests)]
  /\ todo = [d \in Devices |-> {}]
  /\ wanted = [d \in Devices |-> 0]
  /\ missing = [d \in Devices |-> {}]
  /\ ran = [d \in Devices |-> {}]

-----------------------------------------------------------------------------
(* TestResultRepo and PlanCreator.                                         *)

\* The directories that hold a report file; one that is being written, or was
\* never finished, counts.
ResultDirs == {s \in 1 .. made : written[s] # "none"}

\* Where a directory is in an ordered list of directories.
Index(s, dirs) == Cardinality({r \in dirs : r < s})

Exists(n) == \E s \in ResultDirs : Index(s, ResultDirs) = n

Session(n) == CHOOSE s \in ResultDirs : Index(s, ResultDirs) = n

\* Faulty form of the next definition: directories without a report file count.
ReportDirOfAny(n) == n + 1

\* getReportDir, the directory that the reporter goes on with.
ReportDir(n) == Session(n)

\* getResult returns null for an id that does not exist and for a report that
\* cannot be parsed.
HasResult(n) == Exists(n) /\ written[Session(n)] = "whole"

WithStatus(r, status) == {t \in Tests : r[t] = status}

\* TestPackageRepo: known failures are listed only if asked for.
ListedTests(withKnown) == IF withKnown THEN Tests ELSE Tests \ KnownFailures

\* Faulty forms of the next definition.
ExcludedNone(r)        == {}
ExcludedNotExecuted(r) == WithStatus(r, "notExecuted")

\* createDerivedPlan: PlanCreator's own --run-known-failures is never set here.
ExcludedTests(r) == ListedTests(FALSE) \ WithStatus(r, "notExecuted")

\* The tests of a package in the plan that its filter lets pass.
PlannedTests(r, withKnown) ==
  IF \A t \in Tests : r[t] = "absent" THEN {}
  ELSE ListedTests(withKnown) \ ExcludedTests(r)

-----------------------------------------------------------------------------
(* An invocation.                                                          *)

\* createUniqueReportDir.
MakeDir == made' = made + 1

\* "run cts", for any selection of the tests.
StartNew(d) ==
  /\ phase[d] = "idle" /\ made < MaxSessions
  /\ MakeDir
  /\ dir' = [dir EXCEPT ![d] = made + 1]
  /\ results' = [results EXCEPT ![d] = NewResult(Tests)]
  /\ id' = [id EXCEPT ![d] = NoId]
  /\ wanted' = [wanted EXCEPT ![d] = 0] /\ missing' = [missing EXCEPT ![d] = {}]
  /\ \E withKnown \in BOOLEAN :
       /\ known' = [known EXCEPT ![d] = withKnown]
       /\ \E S \in SUBSET ListedTests(withKnown) : todo' = [todo EXCEPT ![d] = S]
  /\ phase' = [phase EXCEPT ![d] = "running"]
  /\ ran' = [ran EXCEPT ![d] = {}]
  /\ UNCHANGED <<written, content>>

\* The user reads an id in the list of results: "run cts --continue-session".
ContinueSession(d) ==
  /\ phase[d] = "idle"
  /\ \E n \in 0 .. made - 1 :
       /\ HasResult(n)
       /\ id' = [id EXCEPT ![d] = n]
       /\ wanted' = [wanted EXCEPT ![d] = Session(n)]
       /\ missing' = [missing EXCEPT ![d] = WithStatus(content[Session(n)], "notExecuted")]
  /\ \E withKnown \in ContinueKnown : known' = [known EXCEPT ![d] = withKnown]
  /\ phase' = [phase EXCEPT ![d] = "asked"]
  /\ ran' = [ran EXCEPT ![d] = {}] /\ todo' = [todo EXCEPT ![d] = {}]
  /\ UNCHANGED <<repo, dir, results>>

\* Faulty form of the next definition: the old report is not read back.
LoadNothing(s) == NewResult(Tests)

Load(s) == content[s]

\* invocationStarted of the reporter; without a result it throws.
InvocationStarted(d) ==
  /\ phase[d] = "asked"
  /\ IF HasResult(id[d])
     THEN /\ dir' = [dir EXCEPT ![d] = ReportDir(id[d])]
          /\ results' = [results EXCEPT ![d] = Load(Session(id[d]))]
          /\ phase' = [phase EXCEPT ![d] = "started"]
     ELSE /\ phase' = [phase EXCEPT ![d] = "idle"]
          /\ UNCHANGED <<dir, results>>
  /\ UNCHANGED <<repo, command, todo, ran>>

\* getAvailableTestPackages: the plan is derived from a second look at the id;
\* without a result run() throws, and the invocation ends.
DerivePlan(d) ==
  /\ phase[d] = "started"
  /\ IF HasResult(id[d])
     THEN /\ todo' = [todo EXCEPT ![d] = PlannedTests(content[Session(id[d])], known[d])]
          /\ phase' = [phase EXCEPT ![d] = "running"]
     ELSE /\ phase' = [phase EXCEPT ![d] = "ended"]
          /\ UNCHANGED todo
  /\ UNCHANGED <<repo, command, dir, results, ran>>

\* testStarted, perhaps testFailed, testEnded.
RunTest(d, t, failure) ==
  LET inserted == InsertTest(results[d], t)
  IN /\ phase[d] = "running" /\ t \in todo[d]
     /\ results' = [results EXCEPT ![d] = ReportTestEnded(
                      IF failure THEN ReportTestFailure(inserted, t) ELSE inserted, t)]
     /\ todo' = [todo EXCEPT ![d] = @ \ {t}]
     /\ ran' = [ran EXCEPT ![d] = @ \cup {t}]
     /\ UNCHANGED <<repo, phase, command, dir>>

\* All tests were run, or the device was lost: what is left is reported.
LeaveRun(d) ==
  /\ phase[d] = "running"
  /\ results' = [results EXCEPT ![d] =
                   [t \in Tests |-> IF t \in todo[d] THEN InsertTest(@, t)[t] ELSE @[t]]]
  /\ phase' = [phase EXCEPT ![d] = "ended"]
  /\ UNCHANGED <<repo, command, dir, todo, ran>>

OtherWrites(d) == \E e \in Devices \ {d} : phase[e] = "writing" /\ dir[e] = dir[d]

\* invocationEnded: opening the output stream empties the file.
OpenReport(d) ==
  /\ phase[d] = "ended"
  /\ written' = [written EXCEPT ![dir[d]] = IF OtherWrites(d) THEN "mixed" ELSE "torn"]
  /\ phase' = [phase EXCEPT ![d] = "writing"]
  /\ UNCHANGED <<made, content, command, dir, results, todo, ran>>

\* The report is whole unless two invocations wrote it at once.
WriteReport(d) ==
  /\ phase[d] = "writing"
  /\ \E whole \in BOOLEAN :
       /\ OtherWrites(d) => ~whole
       /\ written[dir[d]] = "torn" => whole
       /\ written' = [written EXCEPT ![dir[d]] = IF whole THEN "whole" ELSE "mixed"]
       /\ content' = [content EXCEPT ![dir[d]] = IF whole THEN results[d] ELSE @]
  /\ phase' = [phase EXCEPT ![d] = "idle"]
  /\ UNCHANGED <<made, command, dir, results, todo, ran>>

\* The host's process ends, with all invocations.
HostKilled ==
  /\ \E d \in Devices : phase[d] # "idle"
  /\ phase' = [d \in Devices |-> "idle"]
  /\ UNCHANGED <<repo, command, dir, results, todo, ran>>

Next ==
  \/ \E d \in Devices :
       \/ StartNew(d) \/ ContinueSession(d) \/ InvocationStarted(d) \/ DerivePlan(d)
       \/ (\E t \in Tests, failure \in BOOLEAN : RunTest(d, t, failure))
       \/ LeaveRun(d) \/ OpenReport(d) \/ WriteReport(d)
  \/ HostKilled

Spec == Init /\ [][Next]_vars
-----------------------------------------------------------------------------
(* Properties.                                                             *)

\* "run all not executed tests from a previous CTS session": a continued
\* invocation runs no test that the session the user chose had executed, or
\* never held.
RunsOnlyMissing == \A d \in Devices : wanted[d] # 0 => ran[d] \subseteq missing[d]

\* A continued invocation that was not cut short leaves no test of that session
\* unexecuted, known failures aside: the report it writes has a verdict for
\* each, whichever invocations wrote to the directory before.
NoneLeftOver ==
  [][\A d \in Devices :
       phase[d] = "writing" /\ phase'[d] = "idle" /\ written'[dir[d]] = "whole"
         /\ wanted[d] # 0 /\ todo[d] = {} =>
           \A t \in missing[d] \ KnownFailures : content'[wanted[d]][t] \in Executed]_vars

\* Continuing a session, however often and wherever it stops, changes no
\* verdict that a whole report of the session has shown.
VerdictsKept ==
  [][\A s \in AllSessions : \A t \in Tests :
       content[s][t] \in Executed => content'[s][t] = content[s][t]]_vars

\* "the index of each file is its session id": an invocation writes its report
\* into the session whose id the user gave.
WritesToWanted ==
  \A d \in Devices :
    wanted[d] # 0 /\ phase[d] \in {"started", "running", "ended", "writing"} => dir[d] = wanted[d]
=============================================================================
