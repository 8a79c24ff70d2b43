---------------------------- MODULE BrowserBench ----------------------------
(* The browser benchmark test.  BrowserBenchTest.doTest opens the Octane     *)
(* page once per round and waits for its final score; the page runs suite    *)
(* after suite and POSTs each result; a thread of CtsTestServer's pool runs  *)
(* onPost for each request; a WatchDog thread panics, and with it the test's *)
(* process, when no result has come for ten minutes.                         *)
(*                                                                           *)
(* A score is abstracted to the round whose page measured it.  An error, and *)
(* the mean of no scores, are not numbers.  "Octane Score " and "Octane      *)
(* Score(incomplete)" are one key: the browser strips the blank at the end   *)
(* of a URL, and onPost's pattern stops at the parenthesis.                  *)
EXTENDS Integers, Sequences

CONSTANTS BenchmarksOf,   \* how many benchmarks each suite has
          NumberRepeat    \* numberRepeat, the rounds

ASSUME BenchAssumption ==
  /\ BenchmarksOf \in Seq(Nat \ {0})
  /\ NumberRepeat \in Nat \ {0}

N      == Len(BenchmarksOf)
Suites == 1 .. N
Final  == 0                         \* the key of the final score
Keys   == {Final} \cup Suites
Rounds == 0 .. NumberRepeat - 1
Unset  == -1                        \* 0.0, what a new array holds

VARIABLES
  \* the test thread
  test,           \* where it is in doTest and tearDown
  mRunIndex,
  latch,          \* the count of the current mLatch
  verdict,
  \* the page
  loaded,         \* the round it was loaded for
  js,             \* "none", "ready", "blocked" in a request, "stopped", "through"
  suite, bench,   \* the suites begun; the benchmark that suite is at
  cont,           \* continuation
  pushed,         \* the length of BenchmarkSuite.scores
  \* the server
  task,           \* the last request of each round's page and how far onPost is
  entries,        \* the keys of mResultsMap in the order they were put
  scores,         \* the arrays of mResultsMap
  \* the watch-dog
  mSemaphore,     \* its permits, or NoSemaphore
  mStopRequested,
  watchdog,
  \* history
  reported        \* what each round's page has reported

testVars == <<test, mRunIndex, latch, verdict>>
pageVars == <<loaded, js, suite, bench, cont, pushed>>
taskVars == <<task, entries, scores>>
dogVars  == <<mSemaphore, mStopRequested, watchdog>>
vars     == <<testVars, pageVars, taskVars, dogVars, reported>>

NoSemaphore == -1
Request == [key : Keys, number : BOOLEAN]

Init ==
  /\ test = "launch" /\ mRunIndex = 0 /\ latch = 0 /\ verdict = "none"
  /\ loaded = -1 /\ js = "none" /\ suite = 0 /\ bench = 1 /\ cont = "null" /\ pushed = 0
  /\ task = [r \in Rounds |-> [pc |-> "idle", key |-> Final, number |-> FALSE]]
  /\ entries = <<>> /\ scores = [key \in Keys |-> [r \in Rounds |-> Unset]]
  /\ mSemaphore = 0 /\ mStopRequested = FALSE /\ watchdog = "looping"
  /\ reported = [r \in Rounds |-> <<>>]

Alive == watchdog # "panicked"   \* the test's process has not crashed
-----------------------------------------------------------------------------
(* The page: RunSuites in base.js, the callbacks in index.html.              *)

\* The browser shows the page the intent asked for, in place of the old one.
PageLoads ==
  /\ Alive /\ test = "await" /\ loaded < mRunIndex
  /\ loaded' = mRunIndex /\ js' = "ready"
  /\ suite' = 0 /\ bench' = 1 /\ cont' = "null" /\ pushed' = 0
  /\ UNCHANGED <<testVars, taskVars, dogVars, reported>>

\* RunStep yields to the browser until the next step is due.
Yield(step) ==
  /\ cont' = step
  /\ UNCHANGED <<js, task, reported, pushed>>

\* CtsReport: a synchronous XMLHttpRequest, in which the page waits.
CtsReport(key, number) ==
  /\ test # "over"
  /\ task' = [task EXCEPT ![loaded] = [pc |-> "posted", key |-> key, number |-> number]]
  /\ reported' = [reported EXCEPT ![loaded] = Append(@, [key |-> key, number |-> number])]
  /\ js' = "blocked"

\* A step throws: the suite is reported as an error and its other steps are
\* left out.  Faulty form: the suite goes on.
NotifyErrorGoesOn(s) ==
  CtsReport(s, FALSE) /\ cont' = "benchmark" /\ UNCHANGED pushed
NotifyError(s) ==
  CtsReport(s, FALSE) /\ cont' = "null" /\ UNCHANGED pushed

NotifyResult(s) ==
  CtsReport(s, TRUE) /\ cont' = "null" /\ pushed' = pushed + 1

RunNextSetup(s, b) ==
  \/ b <= BenchmarksOf[s] /\ (Yield("benchmark") \/ NotifyError(s))
  \/ b > BenchmarksOf[s] /\ NotifyResult(s)

Running == Alive /\ js = "ready"

\* BenchmarkSuite.prototype.RunStep begins with the first set-up.
BeginSuite ==
  /\ Running /\ cont = "null" /\ suite < N
  /\ suite' = suite + 1 /\ bench' = 1
  /\ RunNextSetup(suite + 1, 1)
  /\ UNCHANGED <<testVars, loaded, entries, scores, dogVars>>

ContinueSetup ==
  /\ Running /\ cont = "setup"
  /\ RunNextSetup(suite, bench)
  /\ UNCHANGED <<testVars, loaded, suite, bench, entries, scores, dogVars>>

RunNextBenchmark ==
  /\ Running /\ cont = "benchmark"
  /\ Yield("tearDown") \/ NotifyError(suite)
  /\ UNCHANGED <<testVars, loaded, suite, bench, entries, scores, dogVars>>

RunNextTearDown ==
  /\ Running /\ cont = "tearDown"
  /\ bench' = bench + 1
  /\ Yield("setup") \/ NotifyError(suite)
  /\ UNCHANGED <<testVars, loaded, suite, entries, scores, dogVars>>

\* All suites are done: the final score, whether or not some failed.  The mean
\* of no scores is NaN.  Faulty form: one failed suite spoils the score.
NotifyScoreOfAll ==
  /\ Running /\ cont = "null" /\ suite = N
  /\ CtsReport(Final, pushed = N)
  /\ UNCHANGED <<testVars, loaded, suite, bench, cont, pushed, entries, scores, dogVars>>
NotifyScore ==
  /\ Running /\ cont = "null" /\ suite = N
  /\ CtsReport(Final, pushed > 0)
  /\ UNCHANGED <<testVars, loaded, suite, bench, cont, pushed, entries, scores, dogVars>>

\* A step of a benchmark never returns, or the browser dies.
PageStops ==
  /\ Running
  /\ js' = "stopped"
  /\ UNCHANGED <<testVars, loaded, suite, bench, cont, pushed, taskVars, dogVars, reported>>

PageStep ==
  PageLoads \/ BeginSuite \/ ContinueSetup \/ RunNextBenchmark \/ RunNextTearDown
    \/ NotifyScore \/ PageStops
-----------------------------------------------------------------------------
(* The server's threads: onPost in BrowserBenchTest, for the request of the  *)
(* page of round r.                                                          *)

At(r, pc) == task[r].pc = pc
Goto(r, pc) == task' = [task EXCEPT ![r].pc = pc]

\* The response goes out and the page, if it is still there, runs on.
Respond(r) ==
  /\ Goto(r, "idle")
  /\ js' = IF loaded # r \/ js # "blocked" THEN js
           ELSE IF task[r].key = Final THEN "through" ELSE "ready"

\* The request does not match onPost's pattern, for its score is no number: it
\* is answered and nothing else happens.
IgnorePost(r) ==
  /\ At(r, "posted") /\ ~task[r].number
  /\ Respond(r)
  /\ UNCHANGED <<testVars, loaded, suite, bench, cont, pushed, entries, scores, dogVars, reported>>

PutIfAbsent(key) ==
  entries' = IF \E k \in DOMAIN entries : entries[k] = key THEN entries
             ELSE Append(entries, key)

\* Faulty form: every round begins a new array.
StoreScoreAnew(r) ==
  /\ At(r, "posted") /\ task[r].number
  /\ PutIfAbsent(task[r].key)
  /\ scores' = [scores EXCEPT ![task[r].key] =
                  [x \in Rounds |-> IF x = mRunIndex THEN r ELSE Unset]]
  /\ Goto(r, IF task[r].key = Final THEN "count" ELSE "reset")
  /\ UNCHANGED <<testVars, pageVars, dogVars, reported>>
StoreScore(r) ==
  /\ At(r, "posted") /\ task[r].number
  /\ PutIfAbsent(task[r].key)
  /\ scores' = [scores EXCEPT ![task[r].key][mRunIndex] = r]
  /\ Goto(r, IF task[r].key = Final THEN "count" ELSE "reset")
  /\ UNCHANGED <<testVars, pageVars, dogVars, reported>>

CountDown(r) ==
  /\ At(r, "count")
  /\ latch' = 0
  /\ Goto(r, "reset")
  /\ UNCHANGED <<test, mRunIndex, verdict, pageVars, entries, scores, dogVars, reported>>

\* WatchDog.reset reads the flag and then releases a permit; stop() may come in
\* between.
ResetStopped(r) ==
  /\ At(r, "reset") /\ mStopRequested
  /\ Respond(r)
  /\ UNCHANGED <<testVars, loaded, suite, bench, cont, pushed, entries, scores, dogVars, reported>>

ResetBegins(r) ==
  /\ At(r, "reset") /\ ~mStopRequested
  /\ Goto(r, "release")
  /\ UNCHANGED <<testVars, pageVars, entries, scores, dogVars, reported>>

ResetReleases(r) ==
  /\ At(r, "release") /\ mSemaphore # NoSemaphore
  /\ mSemaphore' = mSemaphore + 1
  /\ Respond(r)
  /\ UNCHANGED <<testVars, loaded, suite, bench, cont, pushed, entries, scores,
                 mStopRequested, watchdog, reported>>

\* mSemaphore is null: the exception ends the task and no response is sent.
ResetThrows(r) ==
  /\ At(r, "release") /\ mSemaphore = NoSemaphore
  /\ Goto(r, "idle")
  /\ UNCHANGED <<testVars, pageVars, entries, scores, dogVars, reported>>

TaskStep(r) ==
  /\ Alive
  /\ \/ IgnorePost(r) \/ StoreScore(r) \/ CountDown(r)
     \/ ResetStopped(r) \/ ResetBegins(r) \/ ResetReleases(r) \/ ResetThrows(r)
-----------------------------------------------------------------------------
(* The watch-dog's thread.                                                   *)

\* The loop's condition.
CheckStop ==
  /\ Alive /\ watchdog = "looping"
  /\ watchdog' = IF mStopRequested THEN "exited" ELSE "waiting"
  /\ UNCHANGED <<testVars, pageVars, taskVars, mSemaphore, mStopRequested, reported>>

WakeUp ==
  /\ Alive /\ watchdog = "waiting" /\ mSemaphore > 0
  /\ mSemaphore' = mSemaphore - 1
  /\ watchdog' = "looping"
  /\ UNCHANGED <<testVars, pageVars, taskVars, mStopRequested, reported>>

\* Ten minutes have passed since the last permit was taken, wherever the other
\* threads are: tryAcquire returns false.
Expire ==
  /\ Alive /\ watchdog = "waiting" /\ mSemaphore = 0
  /\ watchdog' = "expired"
  /\ UNCHANGED <<testVars, pageVars, taskVars, mSemaphore, mStopRequested, reported>>

\* The assertion fails, stop requested or not, and the process crashes.
Panic ==
  /\ watchdog = "expired"
  /\ watchdog' = "panicked"
  /\ UNCHANGED <<testVars, pageVars, taskVars, mSemaphore, mStopRequested, reported>>

DogStep == CheckStop \/ WakeUp \/ Panic
-----------------------------------------------------------------------------
(* The test's thread: doTest, then tearDown.                                 *)

\* The next round.  Faulty form: there is one too many.
LaunchOnceMore ==
  /\ test = "launch" /\ mRunIndex <= NumberRepeat
  /\ test' = "await" /\ latch' = 1
  /\ UNCHANGED <<mRunIndex, verdict, pageVars, taskVars, dogVars, reported>>
Launch ==
  /\ test = "launch" /\ mRunIndex < NumberRepeat
  /\ test' = "await" /\ latch' = 1
  /\ UNCHANGED <<mRunIndex, verdict, pageVars, taskVars, dogVars, reported>>

RoundDone ==
  /\ test = "await" /\ latch = 0
  /\ test' = "launch" /\ mRunIndex' = mRunIndex + 1
  /\ UNCHANGED <<latch, verdict, pageVars, taskVars, dogVars, reported>>

\* An hour has passed.  Faulty form: the latch is awaited for ever.
AwaitForEver == FALSE /\ UNCHANGED vars
AwaitTimesOut ==
  /\ test = "await" /\ latch = 1
  /\ test' = "stop" /\ verdict' = "fail"
  /\ UNCHANGED <<mRunIndex, latch, pageVars, taskVars, dogVars, reported>>

\* The results are printed: the map's last entry as the final score.
PrintResults ==
  /\ test = "launch" /\ mRunIndex = NumberRepeat
  /\ test' = "stop" /\ verdict' = "pass"
  /\ UNCHANGED <<mRunIndex, latch, pageVars, taskVars, dogVars, reported>>

RequestStop ==
  /\ test = "stop"
  /\ test' = "release" /\ mStopRequested' = TRUE
  /\ UNCHANGED <<mRunIndex, latch, verdict, pageVars, taskVars, mSemaphore, watchdog, reported>>

\* Faulty form: stop() joins the thread without waking it.
WakeNobody ==
  /\ test = "release"
  /\ test' = "join"
  /\ UNCHANGED <<mRunIndex, latch, verdict, pageVars, taskVars, dogVars, reported>>
WakeWatchDog ==
  /\ test = "release"
  /\ test' = "join" /\ mSemaphore' = mSemaphore + 1
  /\ UNCHANGED <<mRunIndex, latch, verdict, pageVars, taskVars, mStopRequested, watchdog, reported>>

Join ==
  /\ test = "join" /\ watchdog = "exited"
  /\ test' = "shutdown" /\ mSemaphore' = NoSemaphore
  /\ UNCHANGED <<mRunIndex, latch, verdict, pageVars, taskVars, mStopRequested, watchdog, reported>>

\* The server takes no more requests and its tasks end within the minute.
Shutdown ==
  /\ test = "shutdown" /\ \A r \in Rounds : At(r, "idle")
  /\ test' = "over"
  /\ UNCHANGED <<mRunIndex, latch, verdict, pageVars, taskVars, dogVars, reported>>

TestStep ==
  /\ Alive
  /\ \/ Launch \/ RoundDone \/ AwaitTimesOut \/ PrintResults
     \/ RequestStop \/ WakeWatchDog \/ Join \/ Shutdown

Next == PageStep \/ (\E r \in Rounds : TaskStep(r)) \/ DogStep \/ Expire \/ TestStep

Spec == Init /\ [][Next]_vars

\* The test's threads are the virtual machine's to schedule, and an awaited hour
\* passes; a page may never run on, and the ten minutes may always be renewed.
FairSpec ==
  /\ Spec /\ WF_vars(TestStep) /\ WF_vars(DogStep)
  /\ \A r \in Rounds : WF_vars(TaskStep(r))
-----------------------------------------------------------------------------
(* Properties.                                                               *)

TypeOK ==
  /\ test \in {"launch", "await", "stop", "release", "join", "shutdown", "over"}
  /\ mRunIndex \in 0 .. NumberRepeat /\ latch \in {0, 1}
  /\ verdict \in {"none", "pass", "fail"}
  /\ loaded \in {-1} \cup Rounds
  /\ js \in {"none", "ready", "blocked", "stopped", "through"}
  /\ suite \in 0 .. N /\ bench \in Nat \ {0} /\ pushed \in 0 .. N
  /\ cont \in {"null", "setup", "benchmark", "tearDown"}
  /\ task \in [Rounds -> [pc : {"idle", "posted", "count", "reset", "release"},
                          key : Keys, number : BOOLEAN]]
  /\ entries \in Seq(Keys)
  /\ scores \in [Keys -> [Rounds -> {Unset} \cup Rounds]]
  /\ mSemaphore \in {NoSemaphore} \cup Nat /\ mStopRequested \in BOOLEAN
  /\ watchdog \in {"looping", "waiting", "expired", "exited", "panicked"}
  /\ reported \in [Rounds -> Seq(Request)]

Scored(r, key) == \E k \in DOMAIN reported[r] : reported[r][k] = [key |-> key, number |-> TRUE]

\* A test that passes printed the scores its pages measured: for each round and
\* suite the score of that round's page, none where the suite failed there, and
\* a final score of every round, though each is stored by another thread.
ResultsComplete ==
  verdict = "pass" =>
    \A r \in Rounds :
      /\ Scored(r, Final)
      /\ \A key \in Keys : scores[key][r] = IF Scored(r, key) THEN r ELSE Unset

\* The ten minutes never expire once stop() has released its permit, whichever
\* permits late resets add and the watch-dog takes: the thread that stop() joins
\* then ends by itself, or panics because it had expired before.
ExpiresBeforeStop ==
  [][watchdog = "waiting" /\ watchdog' = "expired" =>
       test \notin {"join", "shutdown", "over"}]_vars

\* The test ends, by itself or in a panic, whatever the page does.
TestEnds == <>(test = "over" \/ ~Alive)

Reports == INSTANCE SuiteReports WITH
  reports <- IF loaded = -1 THEN <<>> ELSE reported[loaded]
\* Each page reports every suite once and in order, then the final score, and
\* no page is replaced before its final score has come.
KeepsReports == Reports!Spec

\* "last entry will be the final score": does not hold when a suite fails in
\* the first round and succeeds in a later one.
LastEntryIsFinal == verdict = "pass" => entries[Len(entries)] = Final
-----------------------------------------------------------------------------
(* The inductive invariant behind ResultsComplete, ExpiresBeforeStop and     *)
(* KeepsReports.                                                             *)

\* A round's task handles the last report of the round's page; only a final
\* score that is a number counts the latch down.
TaskInv ==
  \A r \in Rounds :
    LET last == reported[r][Len(reported[r])] IN
    /\ ~At(r, "idle") => reported[r] # <<>>
    /\ reported[r] # <<>> => task[r].key = last.key /\ task[r].number = last.number
    /\ At(r, "count") => task[r].key = Final /\ task[r].number

\* The page's k-th report is about suite k, and after them all comes the final
\* one; a page that is not waiting for a response has had it.
PageInv ==
  LET rep == reported[loaded] IN
  /\ loaded = -1 => js = "none"
  /\ loaded # -1 =>
       /\ \A k \in DOMAIN rep : rep[k].key = IF k <= N THEN k ELSE Final
       /\ pushed <= Len(rep)
       /\ pushed > 0 <=> \E k \in DOMAIN rep : k <= N /\ rep[k].number
       /\ js # "none" /\ (js # "blocked" => At(loaded, "idle"))
       /\ \/ cont # "null" /\ Len(rep) = suite - 1 /\ js \in {"ready", "stopped"}
          \/ cont = "null" /\ Len(rep) = suite /\ js # "through"
          \/ cont = "null" /\ Len(rep) = N + 1 /\ suite = N /\ js \in {"blocked", "through"}

\* A round is left only after its page's final score was stored.
RoundInv ==
  /\ loaded <= mRunIndex /\ (test = "launch" => loaded < mRunIndex)
  /\ test = "await" => mRunIndex < NumberRepeat
  /\ verdict = "pass" => mRunIndex = NumberRepeat
  /\ \A r \in Rounds :
       /\ r > loaded => reported[r] = <<>>
       /\ r < mRunIndex \/ (r = mRunIndex /\ test = "await" /\ latch = 0) =>
            Scored(r, Final) /\ ~At(r, "posted") /\ ~At(r, "count")
       /\ r = mRunIndex /\ test = "await" /\ latch = 1 /\ Scored(r, Final) =>
            At(r, "posted") \/ At(r, "count")

\* What was reported and is not just about to be stored is in the results.
ScoresInv ==
  \A r \in Rounds, key \in Keys :
    scores[key][r] =
      IF Scored(r, key) /\ ~(At(r, "posted") /\ task[r].key = key) THEN r ELSE Unset

\* stop() leaves a permit for the thread it joins, if that is going to wait.
DogInv ==
  /\ mSemaphore = NoSemaphore => test \in {"shutdown", "over"}
  /\ mStopRequested <=> test \in {"release", "join", "shutdown", "over"}
  /\ test = "join" /\ watchdog = "waiting" => mSemaphore > 0
  /\ watchdog = "exited" => mStopRequested
  /\ test \in {"shutdown", "over"} => watchdog = "exited"

IInv == TypeOK /\ TaskInv /\ PageInv /\ RoundInv /\ ScoresInv /\ DogInv
=============================================================================
