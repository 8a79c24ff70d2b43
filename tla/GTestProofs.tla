----------------------------- MODULE GTestProofs -----------------------------
(* Proofs about GTest, for any finite set of tests, either runner and any    *)
(* number of runs.                                                           *)
EXTENDS GTest, Integers, FiniteSetTheorems, TLAPS

\* The types of the variables.
TypeOK ==
  /\ pc \in {"start", "exec", "flush", "flushLost", "done", "aborted", "notInstalled"}
  /\ prog \in {"off", "launched", "between", "test", "over"}
  /\ left \subseteq Tests /\ now \in Tests \cup {NoTest}
  /\ bad \in BOOLEAN /\ muddled \in BOOLEAN
  /\ mCurrentTestResult \in Tests \cup {NoTest, Unknown} /\ mStackTrace \subseteq Tests
  /\ mNumTestsRun \in Nat /\ mNumTestsExpected \in {0, Cardinality(Tests)}
  /\ mTestInProgress \in BOOLEAN /\ mTestRunInProgress \in BOOLEAN
  /\ result \in [Tests -> Status] /\ trace \in [Tests -> SUBSET Tests] /\ runFailed \in BOOLEAN
  /\ verdict \in [Tests -> {"none", "ok", "failed"}]
  /\ failed \subseteq Tests /\ unheard \subseteq Tests

\* How far the program is, and what the parser knows of the run.
ProgramInv ==
  /\ pc = "exec" <=> prog # "off"
  /\ pc = "exec" => (prog = "test" <=> now # NoTest)
  /\ prog = "launched" =>
       ~mTestInProgress /\ mNumTestsRun = 0 /\ mNumTestsExpected = 0 /\ ~mTestRunInProgress
  /\ prog \in {"between", "test"} => mTestRunInProgress
  /\ pc \in {"exec", "flush", "flushLost", "done"} =>
       /\ now \notin left
       /\ \A t \in Tests : verdict[t] # "none" <=> t \notin left /\ t # now
       /\ mNumTestsExpected > 0 /\ ~mTestRunInProgress => left = {} /\ now = NoTest

\* The test in progress is the program's, or one whose end was not heard; so is
\* the output that was collected.
OwnerInv ==
  /\ mTestInProgress => mCurrentTestResult \in ({now} \cap Tests) \cup unheard \cup {Unknown}
  /\ mStackTrace \subseteq ({now} \cap Tests) \cup unheard

Ended == {t \in Tests : verdict[t] # "none"}

\* No more tests were counted than have ended; if as many, each was heard.
Counted ==
  /\ mNumTestsRun <= Cardinality(Ended)
  /\ mNumTestsRun = Cardinality(Ended) =>
       /\ mTestInProgress => mCurrentTestResult = now
       /\ \A t \in Ended : result[t] \in Executed /\ (verdict[t] = "failed" => result[t] = "fail")

CountInv ==
  pc = "exec" \/ (pc \in {"flush", "flushLost"} /\ ~mTestRunInProgress) => Counted

IInv ==
  /\ TypeOK /\ ProgramInv /\ OwnerInv /\ CountInv
  /\ FailedForCause /\ TraceIsOwn /\ NothingHidden
-----------------------------------------------------------------------------
(* What the parser's operators do.                                           *)

USE Assumption DEF Assumption

\* A start passes nothing and hides nothing.
LEMMA InsertFacts ==
  ASSUME NEW r \in [Tests -> Status], NEW t
  PROVE  /\ InsertTest(r, t) \in [Tests -> Status]
         /\ \A u \in Tests : r[u] \in Executed => InsertTest(r, t)[u] = r[u]
         /\ \A u \in Tests : InsertTest(r, t)[u] \in Executed => InsertTest(r, t)[u] = r[u]
  BY DEF InsertTest, Status, Executed

\* An end changes the result and the trace of the test it is about, no other's.
LEMMA ReportEndFacts ==
  ASSUME TypeOK, NEW t, NEW fails \in BOOLEAN, ReportEnd(t, fails)
  PROVE  /\ result' \in [Tests -> Status] /\ trace' \in [Tests -> SUBSET Tests]
         /\ \A u \in Tests : u # t => result'[u] = result[u] /\ trace'[u] = trace[u]
         /\ t \in Tests => /\ result'[t] = IF fails \/ result[t] = "fail" THEN "fail" ELSE "pass"
                          /\ trace'[t] = IF fails THEN mStackTrace ELSE trace[t]
<1>1. result \in [Tests -> Status] /\ trace \in [Tests -> SUBSET Tests] /\ mStackTrace \subseteq Tests
  BY DEF TypeOK
<1>2. CASE fails
  <2>1. result' = ReportTestEnded(ReportTestFailure(result, t), t)
    BY <1>2 DEF ReportEnd
  <2>2. result' = [x \in Tests |-> IF x = t THEN "fail" ELSE result[x]]
    BY <1>1, <2>1 DEF ReportTestEnded, ReportTestFailure
  <2>3. trace' = IF t \in Tests THEN [trace EXCEPT ![t] = mStackTrace] ELSE trace
    BY <1>2 DEF ReportEnd
  <2> QED BY <1>1, <1>2, <2>2, <2>3 DEF Status, Executed
<1>3. CASE ~fails
  <2>1. result' = ReportTestEnded(result, t) /\ trace' = trace
    BY <1>3 DEF ReportEnd
  <2>2. result' = [x \in Tests |-> IF x = t /\ result[x] # "fail" THEN "pass" ELSE result[x]]
    BY <1>1, <2>1 DEF ReportTestEnded
  <2> QED BY <1>1, <1>3, <2>1, <2>2 DEF Status, Executed
<1> QED BY <1>2, <1>3

\* The end of a test is reported if one is in progress.
LEMMA EndedFacts ==
  ASSUME TypeOK, NEW name, NEW passes \in BOOLEAN, DoTestEnded(name, passes)
  PROVE  /\ mCurrentTestResult' = NoTest /\ mStackTrace' = {} /\ mTestInProgress' = FALSE
         /\ mNumTestsExpected' = mNumTestsExpected /\ mTestRunInProgress' = mTestRunInProgress
         /\ runFailed' = runFailed
         /\ mNumTestsRun' = IF mTestInProgress THEN mNumTestsRun + 1 ELSE mNumTestsRun
         /\ ~mTestInProgress => result' = result /\ trace' = trace
         /\ result' \in [Tests -> Status] /\ trace' \in [Tests -> SUBSET Tests]
         /\ \A u \in Tests : u # mCurrentTestResult => result'[u] = result[u] /\ trace'[u] = trace[u]
         /\ mTestInProgress /\ mCurrentTestResult \in Tests =>
              LET t     == mCurrentTestResult
                  fails == ~passes \/ name # t
              IN /\ result'[t] = IF fails \/ result[t] = "fail" THEN "fail" ELSE "pass"
                 /\ trace'[t] = IF fails THEN mStackTrace ELSE trace[t]
<1> DEFINE fails == ~passes \/ name # mCurrentTestResult
<1>1. EndTest(mCurrentTestResult, fails)
  BY DEF DoTestEnded
<1>2. fails \in BOOLEAN
  OBVIOUS
<1> HIDE DEF fails
<1>3. /\ mCurrentTestResult' = NoTest /\ mStackTrace' = {} /\ mTestInProgress' = FALSE
      /\ mNumTestsExpected' = mNumTestsExpected /\ mTestRunInProgress' = mTestRunInProgress
      /\ runFailed' = runFailed
      /\ mNumTestsRun' = IF mTestInProgress THEN mNumTestsRun + 1 ELSE mNumTestsRun
  BY <1>1 DEF EndTest, ClearCurrentTestResult, TypeOK
<1>4. CASE mTestInProgress
  <2>1. ReportEnd(mCurrentTestResult, fails)
    BY <1>1, <1>4 DEF EndTest
  <2> QED BY <1>2, <1>3, <1>4, <2>1, ReportEndFacts DEF fails
<1>5. CASE ~mTestInProgress
  <2>1. result' = result /\ trace' = trace
    BY <1>1, <1>5 DEF EndTest
  <2> QED BY <1>3, <1>5, <2>1 DEF TypeOK
<1> QED BY <1>4, <1>5

\* A line of output is kept for the test in progress and changes nothing else.
LEMMA AppendFacts ==
  ASSUME TypeOK, NEW source \in SUBSET Tests, AppendTestOutput(source)
  PROVE  /\ mStackTrace' \subseteq mStackTrace \cup source
         /\ mCurrentTestResult' = mCurrentTestResult /\ mNumTestsRun' = mNumTestsRun
         /\ mNumTestsExpected' = mNumTestsExpected /\ mTestInProgress' = mTestInProgress
         /\ mTestRunInProgress' = mTestRunInProgress
         /\ result' = result /\ trace' = trace /\ runFailed' = runFailed
  BY DEF AppendTestOutput, listener

\* The tests that have ended are finitely many.
LEMMA EndedFinite ==
  /\ IsFiniteSet(Ended) /\ Cardinality(Ended) \in Nat
  /\ IsFiniteSet(Tests) /\ Cardinality(Tests) \in Nat
<1>1. Ended \subseteq Tests
  BY DEF Ended
<1> QED BY <1>1, FS_Subset, FS_CardinalityType
-----------------------------------------------------------------------------
(* The steps of run().                                                       *)

\* A run begins: the program has all its tests to run, the parser is new.
LEMMA StartStep == ASSUME IInv, Start PROVE IInv'
<1>1. /\ pc' = "exec" /\ prog' = "launched" /\ left' = Tests /\ now' = NoTest
      /\ bad' = FALSE /\ muddled' = FALSE /\ runFailed' = FALSE
      /\ mCurrentTestResult' = NoTest /\ mStackTrace' = {}
      /\ mNumTestsRun' = 0 /\ mNumTestsExpected' = 0
      /\ mTestInProgress' = FALSE /\ mTestRunInProgress' = FALSE
      /\ verdict' = [t \in Tests |-> "none"]
      /\ result' = result /\ trace' = trace /\ failed' = failed /\ unheard' = unheard
  BY DEF Start, FreshParser
<1>2. TypeOK'
  BY <1>1 DEF IInv, TypeOK
<1>3. ProgramInv' /\ OwnerInv'
  BY <1>1 DEF ProgramInv, OwnerInv
<1>4. CountInv'
  <2>1. Ended' = {}
    BY <1>1 DEF Ended
  <2>2. Cardinality(Ended') = 0
    BY <2>1, FS_EmptySet
  <2> QED BY <1>1, <2>1, <2>2 DEF CountInv, Counted
<1>5. FailedForCause' /\ TraceIsOwn' /\ NothingHidden'
  BY <1>1 DEF IInv, FailedForCause, TraceIsOwn, NothingHidden
<1> QED BY <1>2, <1>3, <1>4, <1>5 DEF IInv

\* The run is closed: only one that heard every test is not reported as failed.
LEMMA DoneStep == ASSUME IInv, Done PROVE IInv'
<1>1. /\ pc \in {"flush", "flushLost"} /\ pc' = IF pc = "flush" THEN "done" ELSE "aborted"
      /\ runFailed' = (mNumTestsExpected > mNumTestsRun \/ mTestRunInProgress)
      /\ prog' = prog /\ left' = left /\ now' = now /\ bad' = bad /\ muddled' = muddled
      /\ mCurrentTestResult' = mCurrentTestResult /\ mStackTrace' = mStackTrace
      /\ mNumTestsRun' = mNumTestsRun /\ mNumTestsExpected' = mNumTestsExpected
      /\ mTestInProgress' = mTestInProgress /\ mTestRunInProgress' = mTestRunInProgress
      /\ verdict' = verdict
      /\ result' = result /\ trace' = trace /\ failed' = failed /\ unheard' = unheard
  BY DEF Done, HandleRunFailed, program, parser, history
<1>2. TypeOK'
  BY <1>1 DEF IInv, TypeOK
<1>3. ProgramInv' /\ OwnerInv' /\ CountInv'
  BY <1>1 DEF IInv, ProgramInv, OwnerInv, CountInv
<1>4. FailedForCause' /\ TraceIsOwn'
  BY <1>1 DEF IInv, FailedForCause, TraceIsOwn
<1>5. NothingHidden'
  <2> SUFFICES ASSUME pc = "flush", mNumTestsExpected > 0, ~runFailed', NEW t \in Tests
               PROVE  /\ verdict[t] # "none" /\ result[t] \in Executed
                      /\ verdict[t] = "failed" => result[t] = "fail"
    BY <1>1 DEF NothingHidden
  <2>1. ~(mNumTestsExpected > mNumTestsRun) /\ ~mTestRunInProgress
    BY <1>1
  <2>2. left = {} /\ now = NoTest
    BY <1>1, <2>1 DEF IInv, ProgramInv
  <2>3. \A u \in Tests : verdict[u] # "none"
    BY <1>1, <2>2 DEF IInv, ProgramInv
  <2>4. Ended = Tests
    BY <2>3 DEF Ended
  <2>5. mNumTestsExpected = Cardinality(Tests) /\ mNumTestsRun \in Nat
    BY DEF IInv, TypeOK
  <2>6. Counted
    BY <1>1, <2>1 DEF IInv, CountInv
  <2>7. mNumTestsRun = Cardinality(Ended)
    BY <2>1, <2>4, <2>5, <2>6, EndedFinite DEF Counted
  <2> QED BY <2>3, <2>4, <2>6, <2>7 DEF Counted
<1> QED BY <1>2, <1>3, <1>4, <1>5 DEF IInv

\* What neither the program nor the parser takes part in.
LEMMA OutsideSteps ==
  ASSUME IInv, NotInstalled \/ LoseDeviceEarly \/ RunAgain \/ UNCHANGED vars
  PROVE  IInv'
<1>1. /\ prog' = prog /\ left' = left /\ now' = now /\ bad' = bad /\ muddled' = muddled
      /\ mCurrentTestResult' = mCurrentTestResult /\ mStackTrace' = mStackTrace
      /\ mNumTestsRun' = mNumTestsRun /\ mNumTestsExpected' = mNumTestsExpected
      /\ mTestInProgress' = mTestInProgress /\ mTestRunInProgress' = mTestRunInProgress
      /\ verdict' = verdict /\ runFailed' = runFailed
      /\ result' = result /\ trace' = trace /\ failed' = failed /\ unheard' = unheard
      /\ pc' = pc \/ (pc \in {"start", "aborted"} /\ pc' \in {"start", "aborted", "notInstalled"})
  BY DEF NotInstalled, LoseDeviceEarly, RunAgain, vars, program, parser, listener, history
<1>2. TypeOK'
  BY <1>1 DEF IInv, TypeOK
<1>3. ProgramInv' /\ OwnerInv'
  BY <1>1 DEF IInv, ProgramInv, OwnerInv
<1>4. CountInv'
  BY <1>1 DEF IInv, CountInv, Counted, Ended
<1>5. FailedForCause' /\ TraceIsOwn' /\ NothingHidden'
  BY <1>1 DEF IInv, FailedForCause, TraceIsOwn, NothingHidden
<1> QED BY <1>2, <1>3, <1>4, <1>5 DEF IInv
-----------------------------------------------------------------------------
(* The steps of the program.                                                 *)

\* The header: tests are expected from now on, and none has ended.
LEMMA PrintHeaderStep == ASSUME IInv, PrintHeader PROVE IInv'
<1>1. /\ pc = "exec" /\ prog = "launched" /\ prog' = "between" /\ pc' = pc
      /\ mNumTestsExpected' = Cardinality(Tests) /\ mNumTestsRun' = 0 /\ mTestRunInProgress' = TRUE
      /\ left' = left /\ now' = now /\ bad' = bad /\ muddled' = muddled
      /\ mCurrentTestResult' = mCurrentTestResult /\ mStackTrace' = mStackTrace
      /\ mTestInProgress' = mTestInProgress
      /\ verdict' = verdict /\ runFailed' = runFailed
      /\ result' = result /\ trace' = trace /\ failed' = failed /\ unheard' = unheard
  BY DEF PrintHeader, ProcessRunStarted, listener, history
<1>2. TypeOK'
  BY <1>1 DEF IInv, TypeOK
<1>3. ProgramInv' /\ OwnerInv'
  BY <1>1 DEF IInv, ProgramInv, OwnerInv
<1>4. CountInv'
  <2>1. Counted /\ mNumTestsRun = 0
    BY <1>1 DEF IInv, CountInv, ProgramInv
  <2> QED BY <1>1, <2>1 DEF CountInv, Counted, Ended
<1>5. FailedForCause' /\ TraceIsOwn' /\ NothingHidden'
  BY <1>1 DEF IInv, FailedForCause, TraceIsOwn, NothingHidden
<1> QED BY <1>2, <1>3, <1>4, <1>5 DEF IInv

\* The footer: nothing is left to run.
LEMMA PrintFooterStep == ASSUME IInv, PrintFooter PROVE IInv'
<1>1. /\ pc = "exec" /\ prog = "between" /\ left = {} /\ prog' = "over" /\ pc' = pc
      /\ mTestRunInProgress' = FALSE
      /\ left' = left /\ now' = now /\ bad' = bad /\ muddled' = muddled
      /\ mCurrentTestResult' = mCurrentTestResult /\ mStackTrace' = mStackTrace
      /\ mNumTestsRun' = mNumTestsRun /\ mNumTestsExpected' = mNumTestsExpected
      /\ mTestInProgress' = mTestInProgress
      /\ verdict' = verdict /\ runFailed' = runFailed
      /\ result' = result /\ trace' = trace /\ failed' = failed /\ unheard' = unheard
  BY DEF PrintFooter, ProcessRunCompleted, listener, history
<1>2. TypeOK'
  BY <1>1 DEF IInv, TypeOK
<1>3. ProgramInv' /\ OwnerInv'
  BY <1>1 DEF IInv, ProgramInv, OwnerInv
<1>4. CountInv'
  BY <1>1 DEF IInv, CountInv, Counted, Ended
<1>5. FailedForCause' /\ TraceIsOwn' /\ NothingHidden'
  BY <1>1 DEF IInv, FailedForCause, TraceIsOwn, NothingHidden
<1> QED BY <1>2, <1>3, <1>4, <1>5 DEF IInv

\* Output, of a test or of the program.
LEMMA OutputSteps == ASSUME IInv, PrintFailure \/ \E b \in BOOLEAN : PrintOwn(b) PROVE IInv'
<1>1. /\ pc = "exec" /\ prog \in {"test", "between"} /\ prog' = prog /\ pc' = pc
      /\ left' = left /\ now' = now /\ bad' \in BOOLEAN /\ muddled' \in BOOLEAN
      /\ verdict' = verdict /\ failed' = failed /\ unheard' = unheard
  BY DEF PrintFailure, PrintOwn, history, IInv, TypeOK
<1>2. /\ mStackTrace' \subseteq mStackTrace \cup ({now} \cap Tests)
      /\ mCurrentTestResult' = mCurrentTestResult /\ mNumTestsRun' = mNumTestsRun
      /\ mNumTestsExpected' = mNumTestsExpected /\ mTestInProgress' = mTestInProgress
      /\ mTestRunInProgress' = mTestRunInProgress
      /\ result' = result /\ trace' = trace /\ runFailed' = runFailed
  <2>1. CASE PrintFailure
    <3>1. {now} \in SUBSET Tests /\ {now} = {now} \cap Tests
      BY <2>1 DEF PrintFailure, IInv, TypeOK, ProgramInv
    <3>2. AppendTestOutput({now})
      BY <2>1 DEF PrintFailure
    <3> QED BY <3>1, <3>2, AppendFacts DEF IInv
  <2>2. ASSUME NEW b \in BOOLEAN, PrintOwn(b)
        PROVE  <1>2!:
    <3>1. CASE b
      BY <2>2, <3>1 DEF PrintOwn, parser, listener
    <3>2. CASE ~b
      <4>1. AppendTestOutput({now} \cap Tests)
        BY <2>2, <3>2 DEF PrintOwn
      <4> QED BY <4>1, AppendFacts DEF IInv
    <3> QED BY <3>1, <3>2
  <2> QED BY <2>1, <2>2
<1>3. TypeOK'
  BY <1>1, <1>2 DEF IInv, TypeOK
<1>4. ProgramInv' /\ OwnerInv'
  BY <1>1, <1>2 DEF IInv, ProgramInv, OwnerInv
<1>5. CountInv'
  BY <1>1, <1>2 DEF IInv, CountInv, Counted, Ended
<1>6. FailedForCause' /\ TraceIsOwn' /\ NothingHidden'
  BY <1>1, <1>2 DEF IInv, FailedForCause, TraceIsOwn, NothingHidden
<1> QED BY <1>3, <1>4, <1>5, <1>6 DEF IInv

\* A test starts; on a muddled line its start is not heard.
LEMMA PrintRunStep == ASSUME IInv, NEW t \in Tests, PrintRun(t) PROVE IInv'
<1>1. /\ pc = "exec" /\ prog = "between" /\ t \in left /\ prog' = "test" /\ pc' = pc
      /\ left' = left \ {t} /\ now' = t /\ bad' = FALSE /\ muddled' = FALSE
      /\ verdict' = verdict /\ failed' = failed /\ unheard' = unheard
      /\ Parse(ProcessTestStarted(t))
  BY DEF PrintRun, history
<1>2. now = NoTest /\ {now} \cap Tests = {}
  BY <1>1 DEF IInv, ProgramInv
<1>3. CASE muddled
  <2>1. /\ mStackTrace' \subseteq mStackTrace
        /\ mCurrentTestResult' = mCurrentTestResult /\ mNumTestsRun' = mNumTestsRun
        /\ mNumTestsExpected' = mNumTestsExpected /\ mTestInProgress' = mTestInProgress
        /\ mTestRunInProgress' = mTestRunInProgress
        /\ result' = result /\ trace' = trace /\ runFailed' = runFailed
    <3>1. AppendTestOutput({now} \cap Tests)
      BY <1>1, <1>3 DEF Parse
    <3> QED BY <1>2, <3>1, AppendFacts DEF IInv
  <2>2. TypeOK'
    BY <1>1, <2>1 DEF IInv, TypeOK
  <2>3. ProgramInv'
    BY <1>1, <2>1 DEF IInv, TypeOK, ProgramInv
  <2>4. OwnerInv'
    BY <1>1, <1>2, <2>1 DEF IInv, OwnerInv
  <2>5. CountInv'
    <3>1. Counted
      BY <1>1 DEF IInv, CountInv
    <3>2. mTestInProgress => mCurrentTestResult # now
      BY <1>2 DEF IInv, OwnerInv, TypeOK
    <3> QED BY <1>1, <2>1, <3>1, <3>2 DEF CountInv, Counted, Ended
  <2>6. FailedForCause' /\ TraceIsOwn' /\ NothingHidden'
    BY <1>1, <2>1 DEF IInv, FailedForCause, TraceIsOwn, NothingHidden
  <2> QED BY <2>2, <2>3, <2>4, <2>5, <2>6 DEF IInv
<1>4. CASE ~muddled
  <2>1. /\ mCurrentTestResult' = t /\ mTestInProgress' = TRUE
        /\ mStackTrace' = mStackTrace /\ mNumTestsRun' = mNumTestsRun
        /\ mNumTestsExpected' = mNumTestsExpected /\ mTestRunInProgress' = mTestRunInProgress
        /\ trace' = trace /\ runFailed' = runFailed
        /\ result' = InsertTest(result, t)
    BY <1>1, <1>4 DEF Parse, ProcessTestStarted
  <2>2. /\ result' \in [Tests -> Status]
        /\ \A u \in Tests : result[u] \in Executed => result'[u] = result[u]
        /\ \A u \in Tests : result'[u] \in Executed => result'[u] = result[u]
    BY <2>1, InsertFacts DEF IInv, TypeOK
  <2>3. TypeOK'
    BY <1>1, <2>1, <2>2 DEF IInv, TypeOK
  <2>4. ProgramInv'
    BY <1>1, <2>1 DEF IInv, TypeOK, ProgramInv
  <2>5. OwnerInv'
    BY <1>1, <1>2, <2>1 DEF IInv, OwnerInv
  <2>6. CountInv'
    <3>1. Counted
      BY <1>1 DEF IInv, CountInv
    <3> QED BY <1>1, <2>1, <2>2, <3>1 DEF CountInv, Counted, Ended, Executed
  <2>7. FailedForCause' /\ TraceIsOwn' /\ NothingHidden'
    BY <1>1, <2>1, <2>2 DEF IInv, FailedForCause, TraceIsOwn, NothingHidden, Executed
  <2> QED BY <2>3, <2>4, <2>5, <2>6, <2>7 DEF IInv
<1> QED BY <1>3, <1>4

\* A test ends: one more has ended, and is counted if its end was heard.
LEMMA EndedGrows ==
  ASSUME IInv, now \in Tests, verdict[now] = "none", NEW v \in {"ok", "failed"},
         verdict' = [verdict EXCEPT ![now] = v]
  PROVE  Ended' = Ended \cup {now} /\ now \notin Ended
         /\ Cardinality(Ended') = Cardinality(Ended) + 1
<1>1. Ended' = Ended \cup {now} /\ now \notin Ended
  BY DEF Ended, IInv, TypeOK
<1> QED BY <1>1, EndedFinite, FS_AddElement

\* The end of a test that is heard is reported, for the test in progress.
LEMMA PrintEndStep == ASSUME IInv, PrintEnd PROVE IInv'
<1>1. /\ pc = "exec" /\ prog = "test" /\ prog' = "between" /\ pc' = pc
      /\ left' = left /\ now' = NoTest /\ bad' = FALSE /\ muddled' = FALSE
      /\ verdict' = [verdict EXCEPT ![now] = IF bad THEN "failed" ELSE "ok"]
      /\ failed' = (IF bad THEN failed \cup {now} ELSE failed)
      /\ unheard' = (IF muddled THEN unheard \cup {now} ELSE unheard)
      /\ Parse(DoTestEnded(now, ~bad))
  BY DEF PrintEnd
<1>2. now \in Tests /\ now # NoTest /\ {now} \cap Tests = {now}
  BY <1>1 DEF IInv, TypeOK, ProgramInv
<1>3. verdict[now] = "none" /\ Counted
  BY <1>1, <1>2 DEF IInv, TypeOK, ProgramInv, CountInv
<1>4. Ended' = Ended \cup {now} /\ now \notin Ended
      /\ Cardinality(Ended') = Cardinality(Ended) + 1
  <2>1. (IF bad THEN "failed" ELSE "ok") \in {"ok", "failed"}
    OBVIOUS
  <2> QED BY <1>1, <1>2, <1>3, <2>1, EndedGrows
<1>5. mNumTestsRun \in Nat /\ Cardinality(Ended) \in Nat
  BY EndedFinite DEF IInv, TypeOK
<1>6. CASE muddled
  <2>1. /\ mStackTrace' \subseteq mStackTrace \cup {now}
        /\ mCurrentTestResult' = mCurrentTestResult /\ mNumTestsRun' = mNumTestsRun
        /\ mNumTestsExpected' = mNumTestsExpected /\ mTestInProgress' = mTestInProgress
        /\ mTestRunInProgress' = mTestRunInProgress
        /\ result' = result /\ trace' = trace /\ runFailed' = runFailed
    <3>1. AppendTestOutput({now})
      BY <1>1, <1>2, <1>6 DEF Parse
    <3> QED BY <1>2, <3>1, AppendFacts DEF IInv
  <2>2. TypeOK'
    BY <1>1, <1>2, <2>1 DEF IInv, TypeOK
  <2>3. ProgramInv'
    BY <1>1, <1>2, <2>1 DEF IInv, TypeOK, ProgramInv
  <2>4. OwnerInv'
    BY <1>1, <1>2, <1>6, <2>1 DEF IInv, OwnerInv
  <2>5. CountInv'
    BY <1>3, <1>4, <1>5, <2>1 DEF CountInv, Counted
  <2>6. FailedForCause' /\ TraceIsOwn' /\ NothingHidden'
    BY <1>1, <1>6, <2>1 DEF IInv, FailedForCause, TraceIsOwn, NothingHidden
  <2> QED BY <2>2, <2>3, <2>4, <2>5, <2>6 DEF IInv
<1>7. CASE ~muddled
  <2>1. DoTestEnded(now, ~bad)
    BY <1>1, <1>7 DEF Parse
  <2> DEFINE cur == mCurrentTestResult
  <2>2. /\ mCurrentTestResult' = NoTest /\ mStackTrace' = {} /\ mTestInProgress' = FALSE
        /\ mNumTestsExpected' = mNumTestsExpected /\ mTestRunInProgress' = mTestRunInProgress
        /\ runFailed' = runFailed
        /\ mNumTestsRun' = IF mTestInProgress THEN mNumTestsRun + 1 ELSE mNumTestsRun
        /\ ~mTestInProgress => result' = result /\ trace' = trace
        /\ result' \in [Tests -> Status] /\ trace' \in [Tests -> SUBSET Tests]
        /\ \A u \in Tests : u # cur => result'[u] = result[u] /\ trace'[u] = trace[u]
        /\ mTestInProgress /\ cur \in Tests =>
             /\ result'[cur] = IF bad \/ now # cur \/ result[cur] = "fail" THEN "fail" ELSE "pass"
             /\ trace'[cur] = IF bad \/ now # cur THEN mStackTrace ELSE trace[cur]
    <3>1. (~bad) \in BOOLEAN
      OBVIOUS
    <3>2. TypeOK
      BY DEF IInv
    <3> HIDE DEF cur
    <3> QED BY <2>1, <3>1, <3>2, EndedFacts DEF cur
  <2>3. unheard' = unheard /\ (mTestInProgress => cur \in {now} \cup unheard \cup {Unknown})
    BY <1>1, <1>2, <1>7 DEF IInv, OwnerInv
  <2> HIDE DEF cur
  <2>4. TypeOK'
    <3>1. TypeOK
      BY DEF IInv
    <3>2. verdict' \in [Tests -> {"none", "ok", "failed"}] /\ failed' \subseteq Tests
      BY <1>1, <1>2, <3>1 DEF TypeOK
    <3>3. mNumTestsRun' \in Nat /\ mNumTestsExpected' \in {0, Cardinality(Tests)}
      BY <2>2, <3>1 DEF TypeOK
    <3> QED BY <1>1, <2>2, <2>3, <3>1, <3>2, <3>3 DEF TypeOK
  <2>5. ProgramInv'
    BY <1>1, <1>2, <2>2 DEF IInv, TypeOK, ProgramInv
  <2>6. OwnerInv'
    BY <2>2 DEF OwnerInv
  <2>7. CountInv'
    <3>1. CASE mTestInProgress
      <4>1. mNumTestsRun' <= Cardinality(Ended')
        BY <1>3, <1>4, <1>5, <2>2, <3>1 DEF Counted
      <4>2. ASSUME mNumTestsRun' = Cardinality(Ended'), NEW u \in Ended'
            PROVE  result'[u] \in Executed /\ (verdict'[u] = "failed" => result'[u] = "fail")
        <5>1. mNumTestsRun = Cardinality(Ended)
          BY <1>4, <1>5, <2>2, <3>1, <4>2
        <5>2. cur = now
          BY <1>3, <3>1, <5>1 DEF Counted, cur
        <5>3. CASE u = now
          BY <1>1, <1>2, <2>2, <3>1, <5>2, <5>3 DEF IInv, TypeOK, Executed
        <5>4. CASE u # now
          <6>1. u \in Ended /\ u \in Tests
            BY <1>4, <4>2, <5>4 DEF Ended
          <6>2. verdict'[u] = verdict[u] /\ result'[u] = result[u]
            BY <1>1, <2>2, <5>2, <5>4, <6>1 DEF IInv, TypeOK
          <6> QED BY <1>3, <5>1, <6>1, <6>2 DEF Counted
        <5> QED BY <5>3, <5>4
      <4> QED BY <2>2, <4>1, <4>2 DEF CountInv, Counted
    <3>2. CASE ~mTestInProgress
      BY <1>3, <1>4, <1>5, <2>2, <3>2 DEF CountInv, Counted
    <3> QED BY <3>1, <3>2
  <2>8. FailedForCause'
    <3> SUFFICES ASSUME NEW u \in Tests, result'[u] = "fail" PROVE u \in failed' \cup unheard'
      BY DEF FailedForCause
    <3>1. CASE result[u] = "fail"
      BY <1>1, <2>3, <3>1 DEF IInv, FailedForCause
    <3>2. CASE result[u] # "fail"
      <4>1. mTestInProgress /\ u = cur
        BY <2>2, <3>2
      <4>2. bad \/ now # cur
        BY <2>2, <3>2, <4>1
      <4> QED BY <1>1, <2>3, <4>1, <4>2
    <3> QED BY <3>1, <3>2
  <2>9. TraceIsOwn'
    <3> SUFFICES ASSUME NEW u \in Tests \ unheard PROVE trace'[u] \subseteq {u} \cup unheard
      BY <2>3 DEF TraceIsOwn
    <3>1. trace[u] \subseteq {u} \cup unheard
      BY DEF IInv, TraceIsOwn
    <3>2. mStackTrace \subseteq {now} \cup unheard
      BY <1>2 DEF IInv, OwnerInv
    <3>3. mTestInProgress /\ u = cur => u = now
      BY <2>3
    <3> QED BY <2>2, <3>1, <3>2, <3>3
  <2>10. NothingHidden'
    BY <1>1 DEF NothingHidden
  <2> QED BY <2>4, <2>5, <2>6, <2>7, <2>8, <2>9, <2>10 DEF IInv
<1> QED BY <1>6, <1>7

\* The output ends: what it left of a line may end the test in progress, and
\* that test is then the one that was running or one whose end was not heard.
LEMMA OutputEndsStep == ASSUME IInv, NEW lost \in BOOLEAN, OutputEnds(lost) PROVE IInv'
<1>1. /\ pc = "exec" /\ pc' \in {"flush", "flushLost"} /\ prog' = "off" /\ muddled' = FALSE
      /\ left' = left /\ now' = now /\ bad' = bad /\ verdict' = verdict /\ failed' = failed
      /\ unheard' = unheard \cup ({now} \cap Tests)
  BY DEF OutputEnds
<1> DEFINE cur == mCurrentTestResult
<1> DEFINE mine == ({now} \cap Tests) \cup unheard
<1>2. /\ mCurrentTestResult' \in Tests \cup {NoTest, Unknown} /\ mStackTrace' \subseteq mine
      /\ mTestInProgress' \in BOOLEAN
      /\ mTestInProgress' => mCurrentTestResult' \in mine \cup {Unknown}
      /\ mNumTestsRun' \in Nat /\ mNumTestsExpected' = mNumTestsExpected
      /\ mTestRunInProgress' = mTestRunInProgress /\ runFailed' = runFailed
      /\ result' \in [Tests -> Status] /\ trace' \in [Tests -> SUBSET Tests]
      /\ \A u \in Tests : result'[u] = "fail" => result[u] = "fail" \/ u \in mine
      /\ \A u \in Tests : trace'[u] = trace[u] \/ u \in mine
      /\ ~mTestRunInProgress =>
           /\ mNumTestsRun' = mNumTestsRun /\ mTestInProgress' = mTestInProgress
           /\ mCurrentTestResult' = mCurrentTestResult /\ result' = result
  <2>1. mStackTrace \subseteq mine /\ (mTestInProgress => cur \in mine \cup {Unknown})
    BY DEF IInv, OwnerInv
  <2>2. prog \in {"between", "test"} => mTestRunInProgress
    BY DEF IInv, ProgramInv
  <2>3. {now} \cap Tests \in SUBSET Tests /\ {now} \cap Tests \subseteq mine /\ TypeOK
    BY DEF IInv
  <2> HIDE DEF mine
  <2>4. CASE UNCHANGED <<parser, listener>>
    BY <2>1, <2>3, <2>4 DEF parser, listener, TypeOK
  <2>5. ASSUME prog \in {"between", "test"}, muddled, AppendTestOutput({now} \cap Tests)
        PROVE  <1>2!:
    <3>1. /\ mStackTrace' \subseteq mStackTrace \cup ({now} \cap Tests)
          /\ mCurrentTestResult' = mCurrentTestResult /\ mNumTestsRun' = mNumTestsRun
          /\ mNumTestsExpected' = mNumTestsExpected /\ mTestInProgress' = mTestInProgress
          /\ mTestRunInProgress' = mTestRunInProgress
          /\ result' = result /\ trace' = trace /\ runFailed' = runFailed
      BY <2>3, <2>5, AppendFacts
    <3> QED BY <2>1, <2>3, <3>1 DEF TypeOK
  <2>6. ASSUME prog = "between", ~muddled, ProcessTestStarted(Unknown)
        PROVE  <1>2!:
    <3>1. /\ mCurrentTestResult' = Unknown /\ mTestInProgress' = TRUE
          /\ mStackTrace' = mStackTrace /\ mNumTestsRun' = mNumTestsRun
          /\ mNumTestsExpected' = mNumTestsExpected /\ mTestRunInProgress' = mTestRunInProgress
          /\ trace' = trace /\ runFailed' = runFailed
          /\ result' = InsertTest(result, Unknown)
      BY <2>6 DEF ProcessTestStarted
    <3>2. /\ result' \in [Tests -> Status]
          /\ \A u \in Tests : result'[u] \in Executed => result'[u] = result[u]
      BY <2>3, <3>1, InsertFacts DEF TypeOK
    <3> QED BY <2>1, <2>2, <2>3, <2>6, <3>1, <3>2 DEF TypeOK, Executed
  <2>7. ASSUME prog = "test", ~muddled, DoTestEnded(Unknown, ~bad)
        PROVE  <1>2!:
    <3>1. /\ mCurrentTestResult' = NoTest /\ mStackTrace' = {} /\ mTestInProgress' = FALSE
          /\ mNumTestsExpected' = mNumTestsExpected /\ mTestRunInProgress' = mTestRunInProgress
          /\ runFailed' = runFailed
          /\ mNumTestsRun' = IF mTestInProgress THEN mNumTestsRun + 1 ELSE mNumTestsRun
          /\ ~mTestInProgress => result' = result /\ trace' = trace
          /\ result' \in [Tests -> Status] /\ trace' \in [Tests -> SUBSET Tests]
          /\ \A u \in Tests : u # cur => result'[u] = result[u] /\ trace'[u] = trace[u]
      <4>1. (~bad) \in BOOLEAN
        OBVIOUS
      <4> HIDE DEF cur
      <4> QED BY <2>3, <2>7, <4>1, EndedFacts DEF cur
    <3> HIDE DEF cur
    <3>2. \A u \in Tests : u \notin mine => result'[u] = result[u] /\ trace'[u] = trace[u]
      BY <2>1, <3>1
    <3>3. mNumTestsRun' \in Nat
      BY <2>3, <3>1 DEF TypeOK
    <3> QED BY <2>2, <2>7, <3>1, <3>2, <3>3
  <2> HIDE DEF cur
  <2> QED BY <2>4, <2>5, <2>6, <2>7 DEF OutputEnds, Parse
<1> HIDE DEF cur
<1>3. unheard' = mine
  BY <1>1
<1>4. TypeOK'
  BY <1>1, <1>2 DEF IInv, TypeOK
<1>5. ProgramInv'
  BY <1>1, <1>2 DEF IInv, TypeOK, ProgramInv
<1>6. OwnerInv'
  BY <1>2, <1>3 DEF OwnerInv
<1>7. CountInv'
  BY <1>1, <1>2 DEF IInv, CountInv, Counted, Ended
<1>8. FailedForCause'
  BY <1>1, <1>2 DEF IInv, FailedForCause
<1>9. TraceIsOwn'
  BY <1>1, <1>2 DEF IInv, TraceIsOwn
<1>10. NothingHidden'
  BY <1>1 DEF NothingHidden
<1> QED BY <1>4, <1>5, <1>6, <1>7, <1>8, <1>9, <1>10 DEF IInv
-----------------------------------------------------------------------------
(* The theorems.                                                             *)

\* The invariant holds before the first run.
LEMMA Initially == Init => IInv
<1> SUFFICES ASSUME Init PROVE IInv
  OBVIOUS
<1>1. TypeOK
  BY DEF Init, TypeOK, NewResult, Status
<1>2. ProgramInv /\ OwnerInv /\ CountInv
  BY DEF Init, ProgramInv, OwnerInv, CountInv
<1>3. FailedForCause /\ TraceIsOwn /\ NothingHidden
  BY DEF Init, FailedForCause, TraceIsOwn, NothingHidden, NewResult
<1> QED BY <1>1, <1>2, <1>3 DEF IInv

\* Every step keeps it.
LEMMA Inductive == IInv /\ [Next]_vars => IInv'
<1> SUFFICES ASSUME IInv, [Next]_vars PROVE IInv'
  OBVIOUS
<1>1. CASE Start
  BY <1>1, StartStep
<1>2. CASE NotInstalled \/ LoseDeviceEarly \/ RunAgain \/ UNCHANGED vars
  BY <1>2, OutsideSteps
<1>3. CASE Done
  BY <1>3, DoneStep
<1>4. CASE PrintHeader
  BY <1>4, PrintHeaderStep
<1>5. CASE PrintFooter
  BY <1>5, PrintFooterStep
<1>6. CASE PrintFailure \/ \E b \in BOOLEAN : PrintOwn(b)
  BY <1>6, OutputSteps
<1>7. CASE PrintEnd
  BY <1>7, PrintEndStep
<1>8. CASE \E t \in Tests : PrintRun(t)
  BY <1>8, PrintRunStep
<1>9. CASE \E b \in BOOLEAN : OutputEnds(b)
  BY <1>9, OutputEndsStep
<1> QED BY <1>1, <1>2, <1>3, <1>4, <1>5, <1>6, <1>7, <1>8, <1>9 DEF Next

\* The inductive invariant holds throughout.
THEOREM Invariance == Spec => []IInv
  BY Initially, Inductive, PTL DEF Spec

\* A run that is not reported as failed ran every test of its program and hides
\* none of its failures.
THEOREM NothingIsHidden == Spec => []NothingHidden
<1>1. IInv => NothingHidden
  BY DEF IInv
<1> QED BY <1>1, Invariance, PTL

\* A test is reported as failed only if it failed or its end was not heard.
THEOREM FailuresHaveACause == Spec => []FailedForCause
<1>1. IInv => FailedForCause
  BY DEF IInv
<1> QED BY <1>1, Invariance, PTL

\* The trace of a failed test that was heard to its end is its own.
THEOREM TracesAreOwn == Spec => []TraceIsOwn
<1>1. IInv => TraceIsOwn
  BY DEF IInv
<1> QED BY <1>1, Invariance, PTL

\* A test of which neither the program nor the parser speaks does not pass.
LEMMA PassedStep ==
  ASSUME IInv, [Next]_vars, NEW u \in Tests, result[u] # "pass", result'[u] = "pass"
  PROVE  verdict'[u] = "ok"
<1>1. TypeOK
  BY DEF IInv
<1>2. ASSUME NEW source \in SUBSET Tests, AppendTestOutput(source) PROVE FALSE
  BY <1>1, <1>2, AppendFacts
<1>3. ASSUME NEW name, ProcessTestStarted(name) PROVE FALSE
  <2>1. result' = InsertTest(result, name)
    BY <1>3 DEF ProcessTestStarted
  <2> QED BY <1>1, <2>1, InsertFacts DEF TypeOK, Executed
<1>4. ~UNCHANGED listener
  BY DEF listener
<1>5. ASSUME NEW name, NEW passes \in BOOLEAN, DoTestEnded(name, passes)
      PROVE  u = mCurrentTestResult /\ passes /\ name = u
  <2>1. mTestInProgress /\ u = mCurrentTestResult
    BY <1>1, <1>5, EndedFacts
  <2> QED BY <1>1, <1>5, <2>1, EndedFacts
<1>6. {now} \cap Tests \in SUBSET Tests
  OBVIOUS
<1>7. ~UNCHANGED result
  OBVIOUS
<1>8. ~Start /\ ~NotInstalled /\ ~Done /\ ~LoseDeviceEarly /\ ~RunAgain /\ ~UNCHANGED vars
  BY <1>7 DEF Start, NotInstalled, Done, LoseDeviceEarly, RunAgain, vars, listener
<1>9. ~PrintHeader /\ ~PrintFooter
  BY <1>4 DEF PrintHeader, PrintFooter, ProcessRunStarted, ProcessRunCompleted
<1>10. ~PrintFailure
  <2>1. PrintFailure => {now} \in SUBSET Tests /\ AppendTestOutput({now})
    BY DEF PrintFailure, IInv, TypeOK, ProgramInv
  <2> QED BY <1>2, <2>1
<1>11. ASSUME NEW b \in BOOLEAN PROVE ~PrintOwn(b)
  BY <1>2, <1>4, <1>6 DEF PrintOwn
<1>12. ASSUME NEW t \in Tests PROVE ~PrintRun(t)
  BY <1>2, <1>3, <1>6 DEF PrintRun, Parse
<1>13. ASSUME NEW b \in BOOLEAN PROVE ~OutputEnds(b)
  <2>1. OutputEnds(b) => DoTestEnded(Unknown, ~bad)
    BY <1>2, <1>3, <1>4, <1>6 DEF OutputEnds, Parse
  <2>2. (~bad) \in BOOLEAN
    OBVIOUS
  <2> QED BY <1>5, <2>1, <2>2
<1>14. CASE PrintEnd
  <2>1. DoTestEnded(now, ~bad)
    BY <1>2, <1>6, <1>14 DEF PrintEnd, Parse
  <2>2. (~bad) \in BOOLEAN
    OBVIOUS
  <2>3. ~bad /\ now = u
    BY <1>5, <2>1, <2>2
  <2> QED BY <1>1, <1>14, <2>3 DEF PrintEnd, TypeOK
<1> QED BY <1>8, <1>9, <1>10, <1>11, <1>12, <1>13, <1>14 DEF Next

\* A test is first reported as passed when its program has passed it, whichever
\* lines around it were not recognised.
THEOREM PassesAreEarned == Spec => PassedOnDevice
<1>1. IInv /\ [Next]_vars =>
        [\A t \in Tests : result[t] # "pass" /\ result'[t] = "pass" => verdict'[t] = "ok"]_vars
  BY PassedStep
<1> QED BY <1>1, Invariance, PTL DEF Spec, PassedOnDevice
=============================================================================
