------------------------- MODULE BrowserBenchProofs -------------------------
(* Proofs about BrowserBench, for any number of suites, benchmarks and       *)
(* rounds.                                                                   *)
EXTENDS BrowserBench, SequenceTheorems, TLAPS

USE BenchAssumption DEF BenchAssumption

\* The number of suites is a natural number.
LEMMA NumberOfSuites == N \in Nat
  BY DEF N

\* A request that is posted or counted is the last one of the page that is
\* shown, and that page is the one the test waits for.
LEMMA Current ==
  ASSUME IInv, NEW r \in Rounds, At(r, "posted") \/ At(r, "count")
  PROVE  r = loaded /\ r = mRunIndex /\ Len(reported[r]) > 0
         /\ js = "blocked"
         /\ task[r].key = reported[r][Len(reported[r])].key
         /\ task[r].number = reported[r][Len(reported[r])].number
<1> USE DEF IInv, TypeOK, Rounds, At
<1>1. reported[r] # <<>>
  BY DEF TaskInv
<1>2. reported[r] \in Seq(Request) /\ Len(reported[r]) > 0
  BY <1>1
<1>3. r = loaded /\ r = mRunIndex
  BY <1>1 DEF RoundInv
<1>4. js = "blocked"
  BY <1>3 DEF PageInv
<1> QED BY <1>1, <1>2, <1>3, <1>4 DEF TaskInv

\* Different places have different keys.
LEMMA PlaceOfKey ==
  ASSUME NEW n \in Nat, NEW x \in 1 .. n + 1, NEW y \in 1 .. n + 1,
         (IF x <= n THEN x ELSE 0) = (IF y <= n THEN y ELSE 0)
  PROVE  x = y
  OBVIOUS

\* What is in a sequence that was appended to.
LEMMA InAppended ==
  ASSUME NEW S, NEW s \in Seq(S), NEW e \in S, NEW v
  PROVE  (\E k \in DOMAIN Append(s, e) : Append(s, e)[k] = v)
           <=> (\E k \in DOMAIN s : s[k] = v) \/ e = v
<1>1. Len(s) \in Nat /\ DOMAIN s = 1 .. Len(s) /\ DOMAIN Append(s, e) = 1 .. Len(s) + 1
  OBVIOUS
<1>2. Append(s, e)[Len(s) + 1] = e /\ \A k \in 1 .. Len(s) : Append(s, e)[k] = s[k]
  OBVIOUS
<1>3. ASSUME NEW k \in DOMAIN Append(s, e), Append(s, e)[k] = v
      PROVE  (\E i \in DOMAIN s : s[i] = v) \/ e = v
  <2>1. CASE k = Len(s) + 1
    BY <1>2, <1>3, <2>1
  <2>2. CASE k \in 1 .. Len(s)
    BY <1>1, <1>2, <1>3, <2>2
  <2> QED BY <1>1, <2>1, <2>2
<1>4. ASSUME NEW k \in DOMAIN s, s[k] = v
      PROVE  \E i \in DOMAIN Append(s, e) : Append(s, e)[i] = v
  BY <1>1, <1>2, <1>4
<1>5. e = v => \E i \in DOMAIN Append(s, e) : Append(s, e)[i] = v
  BY <1>1, <1>2
<1> QED BY <1>3, <1>4, <1>5

\* What a page has scored after one more report.
LEMMA ScoredAfter ==
  ASSUME NEW r, reported[r] \in Seq(Request), NEW e \in Request, NEW x,
         reported'[r] = Append(reported[r], e)
  PROVE  Scored(r, x)' <=> Scored(r, x) \/ e = [key |-> x, number |-> TRUE]
<1> DEFINE v == [key |-> x, number |-> TRUE]
           s == reported[r]
<1>1. Scored(r, x)' <=> \E k \in DOMAIN Append(s, e) : Append(s, e)[k] = v
  BY DEF Scored
<1>2. Scored(r, x) <=> \E k \in DOMAIN s : s[k] = v
  BY DEF Scored
<1>3. s \in Seq(Request)
  OBVIOUS
<1> HIDE DEF v, s
<1>4. (\E k \in DOMAIN Append(s, e) : Append(s, e)[k] = v)
        <=> (\E k \in DOMAIN s : s[k] = v) \/ e = v
  <2>1. \A w : (\E k \in DOMAIN Append(s, e) : Append(s, e)[k] = w)
                <=> (\E k \in DOMAIN s : s[k] = w) \/ e = w
    BY ONLY <1>3, e \in Request, InAppended
  <2> QED BY ONLY <2>1
<1> QED BY <1>1, <1>2, <1>4 DEF v

\* A page reports no key twice.
LEMMA OnlyOnce ==
  ASSUME IInv, loaded # -1,
         NEW j \in DOMAIN reported[loaded], NEW k \in DOMAIN reported[loaded],
         reported[loaded][j].key = reported[loaded][k].key
  PROVE  j = k
<1>1. loaded \in Rounds /\ reported[loaded] \in Seq(Request) /\ suite \in 0 .. N
  BY DEF IInv, TypeOK
<1>2. Len(reported[loaded]) <= N + 1
  BY <1>1, NumberOfSuites DEF IInv, PageInv
<1>3. j \in 1 .. N + 1 /\ k \in 1 .. N + 1
  BY <1>1, <1>2, NumberOfSuites
<1>4. /\ reported[loaded][j].key = (IF j <= N THEN j ELSE Final)
      /\ reported[loaded][k].key = (IF k <= N THEN k ELSE Final)
  BY DEF IInv, PageInv
<1>5. (IF j <= N THEN j ELSE 0) = (IF k <= N THEN k ELSE 0)
  BY <1>4 DEF Final
<1> QED BY <1>3, <1>5, PlaceOfKey, NumberOfSuites

\* The final score is a page's last report.
LEMMA FinalIsLast ==
  ASSUME IInv, loaded # -1, Scored(loaded, Final)
  PROVE  /\ Len(reported[loaded]) = N + 1 /\ js \in {"blocked", "through"}
         /\ reported[loaded][N + 1] = [key |-> Final, number |-> TRUE]
<1>1. loaded \in Rounds /\ reported[loaded] \in Seq(Request) /\ suite \in 0 .. N
  BY DEF IInv, TypeOK
<1>2. PICK k \in DOMAIN reported[loaded] : reported[loaded][k] = [key |-> Final, number |-> TRUE]
  BY DEF Scored
<1>3. k \in 1 .. Len(reported[loaded]) /\ ~(k <= N)
  BY <1>1, <1>2, NumberOfSuites DEF IInv, PageInv, Final
<1>4. Len(reported[loaded]) = N + 1 /\ js \in {"blocked", "through"}
  BY <1>1, <1>3, NumberOfSuites DEF IInv, PageInv
<1> QED BY <1>2, <1>3, <1>4, NumberOfSuites
-----------------------------------------------------------------------------
(* The steps of the page.                                                    *)

\* A page that runs reports what is next: every part of the invariant but the
\* page's own is preserved.
LEMMA Reporting ==
  ASSUME IInv, Alive, js = "ready",
         NEW key \in Keys, NEW number \in BOOLEAN, CtsReport(key, number),
         key = IF Len(reported[loaded]) + 1 <= N THEN Len(reported[loaded]) + 1 ELSE Final,
         Len(reported[loaded]) <= N,
         loaded' = loaded, test' = test, mRunIndex' = mRunIndex, latch' = latch,
         verdict' = verdict, scores' = scores, mSemaphore' = mSemaphore,
         mStopRequested' = mStopRequested, watchdog' = watchdog
  PROVE  /\ TaskInv' /\ RoundInv' /\ ScoresInv' /\ DogInv'
         /\ task' \in [Rounds -> [pc : {"idle", "posted", "count", "reset", "release"},
                                  key : Keys, number : BOOLEAN]]
         /\ reported' \in [Rounds -> Seq(Request)]
         /\ loaded \in Rounds
         /\ reported'[loaded] = Append(reported[loaded], [key |-> key, number |-> number])
         /\ js' = "blocked"
<1> DEFINE old == reported[loaded]
           req == [key |-> key, number |-> number]
<1>1. loaded \in Rounds /\ At(loaded, "idle") /\ old \in Seq(Request) /\ suite \in 0 .. N
  BY DEF IInv, TypeOK, PageInv
<1>2. /\ task' = [task EXCEPT ![loaded] = [pc |-> "posted", key |-> key, number |-> number]]
      /\ reported' = [reported EXCEPT ![loaded] = Append(old, req)] /\ js' = "blocked"
  BY DEF CtsReport
<1>3. req \in Request
  BY DEF Request
<1>4. /\ task' \in [Rounds -> [pc : {"idle", "posted", "count", "reset", "release"},
                               key : Keys, number : BOOLEAN]]
      /\ reported' \in [Rounds -> Seq(Request)]
  BY <1>1, <1>2, <1>3 DEF IInv, TypeOK
<1>5. /\ reported'[loaded] = Append(old, req)
      /\ task'[loaded] = [pc |-> "posted", key |-> key, number |-> number]
      /\ \A r \in Rounds \ {loaded} : reported'[r] = reported[r] /\ task'[r] = task[r]
  BY <1>1, <1>2 DEF IInv, TypeOK
<1>6. /\ Append(old, req) \in Seq(Request)
      /\ Len(Append(old, req)) = Len(old) + 1 /\ Append(old, req) # <<>>
      /\ Append(old, req)[Len(old) + 1] = req
      /\ \A k \in 1 .. Len(old) : Append(old, req)[k] = old[k]
      /\ DOMAIN Append(old, req) = 1 .. Len(old) + 1
      /\ DOMAIN old = 1 .. Len(old) /\ Len(old) \in Nat
  <2> HIDE DEF old, req
  <2>1. Append(old, req) \in Seq(Request) /\ Len(Append(old, req)) = Len(old) + 1 /\ Len(old) \in Nat
    BY <1>1, <1>3
  <2>2. Append(old, req) # <<>>
    BY <2>1
  <2>3. Append(old, req)[Len(old) + 1] = req /\ \A k \in 1 .. Len(old) : Append(old, req)[k] = old[k]
    BY <1>1, <1>3
  <2>4. DOMAIN Append(old, req) = 1 .. Len(old) + 1 /\ DOMAIN old = 1 .. Len(old)
    BY <1>1, <2>1
  <2> QED BY <2>1, <2>2, <2>3, <2>4
<1>7. /\ \A r \in Rounds \ {loaded}, x \in Keys : Scored(r, x)' <=> Scored(r, x)
      /\ \A x \in Keys : Scored(loaded, x)' <=> Scored(loaded, x) \/ (x = key /\ number)
  <2>1. \A r \in Rounds \ {loaded}, x \in Keys : Scored(r, x)' <=> Scored(r, x)
    BY <1>5 DEF Scored
  <2>2. ASSUME NEW x \in Keys
        PROVE  Scored(loaded, x)' <=> Scored(loaded, x) \/ (x = key /\ number)
    <3>1. Scored(loaded, x)' <=> Scored(loaded, x) \/ req = [key |-> x, number |-> TRUE]
      BY <1>1, <1>3, <1>5, ScoredAfter
    <3>2. req = [key |-> x, number |-> TRUE] <=> x = key /\ number
      OBVIOUS
    <3> QED BY <3>1, <3>2
  <2> QED BY <2>1, <2>2
<1>8. ~Scored(loaded, key) /\ ~Scored(loaded, Final)
  <2>1. \A k \in DOMAIN old : k <= N /\ old[k].key = k
    BY <1>1, <1>6, NumberOfSuites DEF IInv, PageInv
  <2>2. \A k \in DOMAIN old : old[k].key # key /\ old[k].key # Final
    BY <2>1, <1>6, NumberOfSuites DEF Final
  <2> QED BY <2>2 DEF Scored
<1>9. TaskInv'
  <2> SUFFICES ASSUME NEW r \in Rounds
               PROVE  LET last == reported'[r][Len(reported'[r])] IN
                      /\ task'[r].pc # "idle" => reported'[r] # <<>>
                      /\ reported'[r] # <<>> => task'[r].key = last.key /\ task'[r].number = last.number
                      /\ task'[r].pc = "count" => task'[r].key = Final /\ task'[r].number
    BY DEF TaskInv, At
  <2>1. CASE r = loaded
    BY <2>1, <1>5, <1>6
  <2>2. CASE r # loaded
    BY <2>2, <1>5 DEF IInv, TaskInv, At
  <2> QED BY <2>1, <2>2
<1>10. RoundInv'
  <2>1. loaded' <= mRunIndex' /\ (test' = "launch" => loaded' < mRunIndex')
    BY DEF IInv, RoundInv
  <2>2. (test' = "await" => mRunIndex' < NumberRepeat) /\ (verdict' = "pass" => mRunIndex' = NumberRepeat)
    BY DEF IInv, RoundInv
  <2>3. ASSUME NEW r \in Rounds
        PROVE  /\ r > loaded => reported'[r] = <<>>
               /\ r < mRunIndex \/ (r = mRunIndex /\ test = "await" /\ latch = 0) =>
                    Scored(r, Final)' /\ task'[r].pc # "posted" /\ task'[r].pc # "count"
               /\ r = mRunIndex /\ test = "await" /\ latch = 1 /\ Scored(r, Final)' =>
                    task'[r].pc = "posted" \/ task'[r].pc = "count"
    <3>1. CASE r = loaded
      BY <3>1, <1>5, <1>8 DEF IInv, RoundInv, Rounds
    <3>2. CASE r # loaded
      BY <3>2, <1>5, <1>7 DEF IInv, RoundInv, At, Keys
    <3> QED BY <3>1, <3>2
  <2> QED BY <2>1, <2>2, <2>3 DEF RoundInv, At
<1>11. ScoresInv'
  <2> SUFFICES ASSUME NEW r \in Rounds, NEW x \in Keys
               PROVE  scores[x][r] = IF Scored(r, x)' /\ ~(task'[r].pc = "posted" /\ task'[r].key = x)
                                     THEN r ELSE Unset
    BY DEF ScoresInv, At
  <2>0. scores[x][r] = IF Scored(r, x) /\ ~(task[r].pc = "posted" /\ task[r].key = x)
                       THEN r ELSE Unset
    BY DEF IInv, ScoresInv, At
  <2>1. CASE r # loaded
    BY <2>0, <2>1, <1>5, <1>7
  <2>2. CASE r = loaded /\ x = key
    BY <2>0, <2>2, <1>5, <1>8
  <2>3. CASE r = loaded /\ x # key
    BY <2>0, <2>3, <1>1, <1>5, <1>7 DEF At
  <2> QED BY <2>1, <2>2, <2>3
<1>12. DogInv'
  BY DEF IInv, DogInv, Alive
<1> QED BY <1>1, <1>4, <1>5, <1>9, <1>10, <1>11, <1>12, <1>2

\* The page's own part of the invariant after a report.
LEMMA PageAfterReport ==
  ASSUME IInv, Alive, js = "ready", NEW key \in Keys, NEW number \in BOOLEAN,
         loaded \in Rounds, loaded' = loaded, js' = "blocked",
         Len(reported[loaded]) <= N,
         key = IF Len(reported[loaded]) + 1 <= N THEN Len(reported[loaded]) + 1 ELSE Final,
         reported'[loaded] = Append(reported[loaded], [key |-> key, number |-> number]),
         cont' = "null", suite' \in 0 .. N,
         \/ Len(reported[loaded]) + 1 = suite'
         \/ Len(reported[loaded]) = N /\ suite' = N,
         pushed' = IF number /\ key # Final THEN pushed + 1 ELSE pushed
  PROVE  PageInv' /\ pushed' \in 0 .. N
<1> DEFINE old == reported[loaded]
           new == reported'[loaded]
<1>1. old \in Seq(Request) /\ pushed \in 0 .. N /\ loaded # -1 /\ [key |-> key, number |-> number] \in Request
  <2>1. old \in Seq(Request) /\ pushed \in 0 .. N
    BY DEF IInv, TypeOK
  <2>2. loaded # -1
    BY DEF Rounds
  <2>3. [key |-> key, number |-> number] \in Request
    BY DEF Request
  <2> QED BY <2>1, <2>2, <2>3
<1>2. /\ Len(old) \in Nat /\ Len(new) = Len(old) + 1 /\ DOMAIN old = 1 .. Len(old)
      /\ DOMAIN new = 1 .. Len(old) + 1
      /\ new[Len(old) + 1].key = key /\ new[Len(old) + 1].number = number
      /\ \A k \in 1 .. Len(old) : new[k] = old[k]
  BY <1>1
<1>3. /\ \A k \in DOMAIN old : old[k].key = IF k <= N THEN k ELSE Final
      /\ pushed <= Len(old)
      /\ pushed > 0 <=> \E k \in DOMAIN old : k <= N /\ old[k].number
  BY <1>1 DEF IInv, PageInv
<1> HIDE DEF old, new
<1>4. key # Final <=> Len(old) + 1 <= N
  BY <1>2, NumberOfSuites DEF Final, old
<1>5. \A k \in DOMAIN new : new[k].key = IF k <= N THEN k ELSE Final
  <2> SUFFICES ASSUME NEW k \in DOMAIN new
               PROVE  new[k].key = IF k <= N THEN k ELSE Final
    OBVIOUS
  <2>1. CASE k = Len(old) + 1
    BY <1>2, <2>1 DEF old
  <2>2. CASE k \in 1 .. Len(old)
    BY <1>2, <1>3, <2>2
  <2> QED BY <1>2, <2>1, <2>2
<1>6. pushed' <= Len(new) /\ pushed' \in 0 .. N
  BY <1>1, <1>2, <1>3, <1>4, NumberOfSuites
<1>7. (\E k \in DOMAIN new : k <= N /\ new[k].number)
        <=> (\E k \in DOMAIN old : k <= N /\ old[k].number) \/ (number /\ key # Final)
  <2>1. ASSUME NEW k \in DOMAIN new, k <= N, new[k].number
        PROVE  (\E i \in DOMAIN old : i <= N /\ old[i].number) \/ (number /\ key # Final)
    <3>1. CASE k = Len(old) + 1
      BY <1>2, <1>4, <2>1, <3>1
    <3>2. CASE k \in 1 .. Len(old)
      BY <1>2, <2>1, <3>2
    <3> QED BY <1>2, <3>1, <3>2
  <2>2. ASSUME NEW k \in DOMAIN old, k <= N, old[k].number
        PROVE  \E i \in DOMAIN new : i <= N /\ new[i].number
    BY <1>2, <2>2
  <2>3. number /\ key # Final => \E i \in DOMAIN new : i <= N /\ new[i].number
    <3>1. Len(old) + 1 \in DOMAIN new
      BY <1>2
    <3> QED BY <1>2, <1>4, <3>1
  <2> QED BY <2>1, <2>2, <2>3
<1>8. pushed' > 0 <=> \E k \in DOMAIN new : k <= N /\ new[k].number
  BY <1>1, <1>3, <1>7
<1>9. \/ Len(new) = suite'
      \/ Len(new) = N + 1 /\ suite' = N
  BY <1>2 DEF old
<1> QED BY <1>1, <1>5, <1>6, <1>8, <1>9 DEF PageInv, new

\* A suite that was begun yields, fails or ends.
LEMMA SuiteStep ==
  ASSUME IInv, Running, NEW s \in 1 .. N,
         Len(reported[loaded]) = s - 1, suite' = s, bench' \in Nat \ {0}, loaded' = loaded,
         \/ \E step \in {"setup", "benchmark", "tearDown"} : Yield(step)
         \/ NotifyError(s)
         \/ NotifyResult(s),
         test' = test, mRunIndex' = mRunIndex, latch' = latch, verdict' = verdict,
         entries' = entries, scores' = scores, mSemaphore' = mSemaphore,
         mStopRequested' = mStopRequested, watchdog' = watchdog
  PROVE  IInv'
<1>1. /\ Alive /\ js = "ready" /\ loaded \in Rounds /\ loaded # -1 /\ s \in Keys /\ s # Final
      /\ suite' \in 0 .. N
  BY NumberOfSuites DEF IInv, TypeOK, PageInv, Running, Rounds, Keys, Suites, Final
<1>2. ASSUME NEW step \in {"setup", "benchmark", "tearDown"}, Yield(step)
      PROVE  IInv'
  <2>1. /\ js' = js /\ task' = task /\ reported' = reported /\ pushed' = pushed
        /\ cont' = step /\ cont' # "null"
    BY <1>2 DEF Yield
  <2>2. TypeOK'
    BY <1>1, <2>1 DEF IInv, TypeOK
  <2>3. TaskInv' /\ RoundInv' /\ ScoresInv'
    <3>1. TaskInv'
      BY <2>1 DEF IInv, TaskInv, At
    <3>2. RoundInv'
      BY <2>1 DEF IInv, RoundInv, At, Scored
    <3>3. ScoresInv'
      BY <2>1 DEF IInv, ScoresInv, At, Scored
    <3> QED BY <3>1, <3>2, <3>3
  <2>4. PageInv'
    BY <1>1, <2>1 DEF IInv, PageInv, At
  <2>5. DogInv'
    BY <2>1 DEF IInv, DogInv, Scored
  <2> QED BY <2>2, <2>3, <2>4, <2>5 DEF IInv
<1>3. ASSUME NEW number \in BOOLEAN, CtsReport(s, number), cont' = "null",
             pushed' = IF number THEN pushed + 1 ELSE pushed
      PROVE  IInv'
  <2>1. /\ Len(reported[loaded]) <= N
        /\ s = IF Len(reported[loaded]) + 1 <= N THEN Len(reported[loaded]) + 1 ELSE Final
        /\ Len(reported[loaded]) + 1 = suite'
    BY NumberOfSuites
  <2>2. /\ TaskInv' /\ RoundInv' /\ ScoresInv' /\ DogInv'
        /\ task' \in [Rounds -> [pc : {"idle", "posted", "count", "reset", "release"},
                                 key : Keys, number : BOOLEAN]]
        /\ reported' \in [Rounds -> Seq(Request)]
        /\ reported'[loaded] = Append(reported[loaded], [key |-> s, number |-> number])
        /\ js' = "blocked"
    BY <1>1, <1>3, <2>1, Reporting
  <2>3. PageInv' /\ pushed' \in 0 .. N
    BY <1>1, <1>3, <2>1, <2>2, PageAfterReport
  <2>4. TypeOK'
    BY <1>1, <1>3, <2>2, <2>3 DEF IInv, TypeOK
  <2> QED BY <2>2, <2>3, <2>4 DEF IInv
<1>4. ASSUME NotifyError(s) PROVE IInv'
  BY <1>3, <1>4 DEF NotifyError
<1>5. ASSUME NotifyResult(s) PROVE IInv'
  BY <1>3, <1>5 DEF NotifyResult
<1> QED BY <1>2, <1>4, <1>5

\* A suite is begun with its first set-up.
LEMMA BeginSuiteStep == ASSUME IInv, BeginSuite PROVE IInv'
<1>1. /\ loaded # -1 /\ suite \in 0 .. N /\ suite < N /\ cont = "null" /\ js = "ready"
      /\ Running /\ suite' = suite + 1 /\ bench' = 1
      /\ loaded' = loaded /\ entries' = entries /\ scores' = scores
      /\ test' = test /\ mRunIndex' = mRunIndex /\ latch' = latch /\ verdict' = verdict
      /\ mSemaphore' = mSemaphore /\ mStopRequested' = mStopRequested /\ watchdog' = watchdog
  BY DEF BeginSuite, Running, IInv, TypeOK, PageInv, testVars, dogVars
<1>2. Len(reported[loaded]) = (suite + 1) - 1 /\ suite + 1 \in 1 .. N
  BY <1>1, NumberOfSuites DEF IInv, PageInv
<1>3. \/ \E step \in {"setup", "benchmark", "tearDown"} : Yield(step)
      \/ NotifyError(suite + 1)
      \/ NotifyResult(suite + 1)
  BY DEF BeginSuite, RunNextSetup
<1> QED BY <1>1, <1>2, <1>3, SuiteStep

\* The steps of a suite that was begun.
LEMMA InSuiteStep ==
  ASSUME IInv, ContinueSetup \/ RunNextBenchmark \/ RunNextTearDown
  PROVE  IInv'
<1>1. /\ cont # "null" /\ js = "ready" /\ Running /\ suite' = suite
      /\ bench' \in Nat \ {0}
      /\ loaded' = loaded /\ entries' = entries /\ scores' = scores
      /\ test' = test /\ mRunIndex' = mRunIndex /\ latch' = latch /\ verdict' = verdict
      /\ mSemaphore' = mSemaphore /\ mStopRequested' = mStopRequested /\ watchdog' = watchdog
  BY DEF ContinueSetup, RunNextBenchmark, RunNextTearDown, Running, IInv, TypeOK, testVars, dogVars
<1>2. loaded \in Rounds /\ suite \in 0 .. N /\ reported[loaded] \in Seq(Request)
  BY <1>1 DEF IInv, TypeOK, PageInv
<1>3. Len(reported[loaded]) = suite - 1 /\ suite \in 1 .. N
  <2>1. Len(reported[loaded]) = suite - 1
    BY <1>1, <1>2 DEF IInv, PageInv, Rounds
  <2> QED BY <1>2, <2>1, NumberOfSuites
<1>4. \/ \E step \in {"setup", "benchmark", "tearDown"} : Yield(step)
      \/ NotifyError(suite)
      \/ NotifyResult(suite)
  BY DEF ContinueSetup, RunNextBenchmark, RunNextTearDown, RunNextSetup
<1> QED BY <1>1, <1>3, <1>4, SuiteStep

\* The final score is reported.
LEMMA NotifyScoreStep == ASSUME IInv, NotifyScore PROVE IInv'
<1>1. /\ Alive /\ cont = "null" /\ suite = N /\ js = "ready" /\ CtsReport(Final, pushed > 0)
      /\ loaded' = loaded /\ suite' = suite /\ bench' = bench /\ cont' = cont
      /\ pushed' = pushed /\ entries' = entries /\ scores' = scores
      /\ test' = test /\ mRunIndex' = mRunIndex /\ latch' = latch /\ verdict' = verdict
      /\ mSemaphore' = mSemaphore /\ mStopRequested' = mStopRequested /\ watchdog' = watchdog
  BY DEF NotifyScore, Running, testVars, dogVars
<1>2. loaded \in Rounds /\ loaded # -1 /\ pushed \in 0 .. N
  BY <1>1 DEF IInv, TypeOK, PageInv, Rounds
<1>3. Len(reported[loaded]) = N
  BY <1>1, <1>2 DEF IInv, PageInv
<1>4. /\ Final \in Keys /\ (pushed > 0) \in BOOLEAN /\ suite' \in 0 .. N
      /\ Len(reported[loaded]) <= N
      /\ Final = IF Len(reported[loaded]) + 1 <= N THEN Len(reported[loaded]) + 1 ELSE Final
  BY <1>1, <1>3, NumberOfSuites DEF Keys
<1>5. /\ TaskInv' /\ RoundInv' /\ ScoresInv' /\ DogInv'
      /\ task' \in [Rounds -> [pc : {"idle", "posted", "count", "reset", "release"},
                               key : Keys, number : BOOLEAN]]
      /\ reported' \in [Rounds -> Seq(Request)]
      /\ reported'[loaded] = Append(reported[loaded], [key |-> Final, number |-> pushed > 0])
      /\ js' = "blocked"
  BY <1>1, <1>4, Reporting
<1>6. PageInv' /\ pushed' \in 0 .. N
  BY <1>1, <1>2, <1>3, <1>4, <1>5, PageAfterReport
<1>7. TypeOK'
  BY <1>1, <1>4, <1>5, <1>6 DEF IInv, TypeOK
<1> QED BY <1>5, <1>6, <1>7 DEF IInv

\* The page of a new round has reported nothing.
LEMMA PageLoadsStep == ASSUME IInv, PageLoads PROVE IInv'
<1>1. /\ test = "await" /\ loaded < mRunIndex /\ loaded' = mRunIndex /\ js' = "ready"
      /\ suite' = 0 /\ bench' = 1 /\ cont' = "null" /\ pushed' = 0
      /\ test' = test /\ mRunIndex' = mRunIndex /\ latch' = latch /\ verdict' = verdict
      /\ task' = task /\ entries' = entries /\ scores' = scores
      /\ mSemaphore' = mSemaphore /\ mStopRequested' = mStopRequested /\ watchdog' = watchdog
      /\ reported' = reported
  BY DEF PageLoads, testVars, taskVars, dogVars
<1>2. mRunIndex \in Rounds /\ mRunIndex # -1
  BY <1>1 DEF IInv, TypeOK, RoundInv, Rounds
<1>3. reported[mRunIndex] = <<>> /\ At(mRunIndex, "idle")
  BY <1>1, <1>2 DEF IInv, RoundInv, TaskInv
<1>4. TypeOK'
  BY <1>1, <1>2, NumberOfSuites DEF IInv, TypeOK
<1>5. TaskInv'
  BY <1>1 DEF IInv, TaskInv, At
<1>6. PageInv'
  BY <1>1, <1>2, <1>3, NumberOfSuites DEF PageInv, At
<1>7. RoundInv'
  <2>1. /\ loaded' <= mRunIndex' /\ (test' = "launch" => loaded' < mRunIndex')
        /\ (test' = "await" => mRunIndex' < NumberRepeat)
        /\ (verdict' = "pass" => mRunIndex' = NumberRepeat)
    BY <1>1, <1>2 DEF IInv, TypeOK, RoundInv
  <2>2. \A r \in Rounds : r > loaded' => reported[r] = <<>>
    BY <1>1, <1>2 DEF IInv, TypeOK, RoundInv, Rounds
  <2> QED BY <1>1, <2>1, <2>2 DEF IInv, RoundInv, At, Scored
<1>8. ScoresInv' /\ DogInv'
  <2>1. ScoresInv'
    BY <1>1 DEF IInv, ScoresInv, At, Scored
  <2>2. DogInv'
    BY <1>1 DEF IInv, DogInv, Scored
  <2> QED BY <2>1, <2>2
<1> QED BY <1>4, <1>5, <1>6, <1>7, <1>8 DEF IInv

\* A page that stops reports nothing more.
LEMMA PageStopsStep == ASSUME IInv, PageStops PROVE IInv'
<1>1. /\ js = "ready" /\ js' = "stopped"
      /\ loaded' = loaded /\ suite' = suite /\ bench' = bench /\ cont' = cont /\ pushed' = pushed
      /\ test' = test /\ mRunIndex' = mRunIndex /\ latch' = latch /\ verdict' = verdict
      /\ task' = task /\ entries' = entries /\ scores' = scores
      /\ mSemaphore' = mSemaphore /\ mStopRequested' = mStopRequested /\ watchdog' = watchdog
      /\ reported' = reported
  BY DEF PageStops, Running, testVars, taskVars, dogVars
<1>2. TypeOK' /\ TaskInv'
  BY <1>1 DEF IInv, TypeOK, TaskInv, At
<1>3. PageInv'
  BY <1>1 DEF IInv, PageInv, At
<1>4. RoundInv'
  BY <1>1 DEF IInv, RoundInv, At, Scored
<1>5. ScoresInv' /\ DogInv'
  BY <1>1 DEF IInv, ScoresInv, DogInv, At, Scored
<1> QED BY <1>2, <1>3, <1>4, <1>5 DEF IInv
-----------------------------------------------------------------------------
(* The steps of the server's threads.                                        *)

\* When a request is answered the page goes on, unless it was the final score.
LEMMA Responding ==
  ASSUME IInv, NEW r \in Rounds, ~At(r, "idle"), Respond(r),
         loaded' = loaded, suite' = suite, bench' = bench, cont' = cont, pushed' = pushed,
         reported' = reported
  PROVE  /\ TaskInv' /\ PageInv'
         /\ task' = [task EXCEPT ![r].pc = "idle"]
         /\ task' \in [Rounds -> [pc : {"idle", "posted", "count", "reset", "release"},
                                  key : Keys, number : BOOLEAN]]
         /\ js' \in {"none", "ready", "blocked", "stopped", "through"}
<1>1. /\ task' = [task EXCEPT ![r].pc = "idle"]
      /\ js' = IF loaded # r \/ js # "blocked" THEN js
               ELSE IF task[r].key = Final THEN "through" ELSE "ready"
  BY DEF Respond, Goto
<1>2. /\ task'[r].pc = "idle" /\ task'[r].key = task[r].key /\ task'[r].number = task[r].number
      /\ \A q \in Rounds \ {r} : task'[q] = task[q]
      /\ task' \in [Rounds -> [pc : {"idle", "posted", "count", "reset", "release"},
                               key : Keys, number : BOOLEAN]]
      /\ js' \in {"none", "ready", "blocked", "stopped", "through"}
  BY <1>1 DEF IInv, TypeOK
<1>3. TaskInv'
  BY <1>2 DEF IInv, TaskInv, At
<1>4. PageInv'
  <2>1. CASE loaded # r
    <3>1. js' = js /\ (loaded \in Rounds => task'[loaded] = task[loaded])
      BY <1>1, <1>2, <2>1
    <3> QED BY <3>1 DEF IInv, TypeOK, PageInv, At
  <2>2. CASE loaded = r
    <3>1. js = "blocked" /\ loaded # -1 /\ Len(reported[r]) > 0 /\ reported[r] \in Seq(Request)
          /\ task[r].key = reported[r][Len(reported[r])].key
      BY <2>2 DEF IInv, TypeOK, PageInv, TaskInv, Rounds
    <3>2. task[r].key = IF Len(reported[r]) <= N THEN Len(reported[r]) ELSE Final
      BY <2>2, <3>1 DEF IInv, PageInv
    <3>3. cont = "null" /\ (Len(reported[r]) = suite \/ (Len(reported[r]) = N + 1 /\ suite = N))
      BY <2>2, <3>1 DEF IInv, PageInv
    <3>4. suite \in 0 .. N
      BY DEF IInv, TypeOK
    <3>5. js' = IF Len(reported[r]) = N + 1 THEN "through" ELSE "ready"
      BY <1>1, <2>2, <3>1, <3>2, <3>3, <3>4, NumberOfSuites DEF Final
    <3>6. \/ Len(reported[r]) = suite /\ js' = "ready"
          \/ Len(reported[r]) = N + 1 /\ suite = N /\ js' = "through"
      BY <3>3, <3>4, <3>5, NumberOfSuites
    <3> QED BY <1>2, <2>2, <3>1, <3>3, <3>6 DEF IInv, PageInv, At
  <2> QED BY <2>1, <2>2
<1> QED BY <1>1, <1>2, <1>3, <1>4

\* An ignored request was never a score to be stored.
LEMMA IgnorePostStep == ASSUME IInv, NEW r \in Rounds, IgnorePost(r) PROVE IInv'
<1>1. /\ task[r].pc = "posted" /\ ~task[r].number /\ Respond(r)
      /\ loaded' = loaded /\ suite' = suite /\ bench' = bench /\ cont' = cont /\ pushed' = pushed
      /\ test' = test /\ mRunIndex' = mRunIndex /\ latch' = latch /\ verdict' = verdict
      /\ entries' = entries /\ scores' = scores
      /\ mSemaphore' = mSemaphore /\ mStopRequested' = mStopRequested /\ watchdog' = watchdog
      /\ reported' = reported
  BY DEF IgnorePost, At, testVars, dogVars
<1>2. /\ TaskInv' /\ PageInv'
      /\ task' = [task EXCEPT ![r].pc = "idle"]
      /\ task' \in [Rounds -> [pc : {"idle", "posted", "count", "reset", "release"},
                               key : Keys, number : BOOLEAN]]
      /\ js' \in {"none", "ready", "blocked", "stopped", "through"}
  BY <1>1, Responding DEF At
<1>3. /\ task'[r].pc = "idle" /\ \A q \in Rounds \ {r} : task'[q] = task[q]
  BY <1>2 DEF IInv, TypeOK
<1>4. r = loaded /\ r = mRunIndex /\ Len(reported[r]) > 0 /\ loaded # -1
      /\ task[r].key = reported[r][Len(reported[r])].key
      /\ task[r].number = reported[r][Len(reported[r])].number
  BY <1>1, Current DEF At, Rounds
<1>5. ~Scored(r, task[r].key)
  <2> SUFFICES ASSUME NEW k \in DOMAIN reported[r],
                      reported[r][k] = [key |-> task[r].key, number |-> TRUE]
               PROVE  FALSE
    BY DEF Scored
  <2>1. Len(reported[r]) \in DOMAIN reported[r]
    BY <1>4 DEF IInv, TypeOK
  <2>2. k = Len(reported[r])
    BY <1>4, <2>1, OnlyOnce
  <2> QED BY <1>1, <1>4, <2>2
<1>6. Scored(r, Final) => FALSE
  <2>1. Scored(r, Final) => Len(reported[r]) = N + 1 /\ reported[r][N + 1] = [key |-> Final, number |-> TRUE]
    BY <1>4, FinalIsLast
  <2> QED BY <1>1, <1>4, <2>1
<1>7. TypeOK'
  BY <1>1, <1>2 DEF IInv, TypeOK
<1>8. RoundInv'
  BY <1>1, <1>3, <1>6 DEF IInv, RoundInv, At, Scored
<1>9. ScoresInv'
  <2> SUFFICES ASSUME NEW q \in Rounds, NEW x \in Keys
               PROVE  scores'[x][q] = IF Scored(q, x)' /\ ~(task'[q].pc = "posted" /\ task'[q].key = x)
                                      THEN q ELSE Unset
    BY DEF ScoresInv, At
  <2>1. scores[x][q] = IF Scored(q, x) /\ ~(task[q].pc = "posted" /\ task[q].key = x)
                       THEN q ELSE Unset
    BY DEF IInv, ScoresInv, At
  <2>2. Scored(q, x)' <=> Scored(q, x)
    BY <1>1 DEF Scored
  <2>3. CASE q # r
    BY <1>1, <1>3, <2>1, <2>2, <2>3
  <2>4. CASE q = r
    BY <1>1, <1>3, <1>5, <2>1, <2>2, <2>4
  <2> QED BY <2>3, <2>4
<1>10. DogInv'
  BY <1>1 DEF IInv, DogInv, Scored
<1> QED BY <1>2, <1>7, <1>8, <1>9, <1>10 DEF IInv

\* A score is stored under the round of the page that posted it.
LEMMA StoreScoreStep == ASSUME IInv, NEW r \in Rounds, StoreScore(r) PROVE IInv'
<1> DEFINE key == task[r].key
<1>1. /\ task[r].pc = "posted" /\ task[r].number /\ PutIfAbsent(key)
      /\ scores' = [scores EXCEPT ![key][mRunIndex] = r]
      /\ task' = [task EXCEPT ![r].pc = IF key = Final THEN "count" ELSE "reset"]
      /\ loaded' = loaded /\ suite' = suite /\ bench' = bench /\ cont' = cont /\ pushed' = pushed
      /\ test' = test /\ mRunIndex' = mRunIndex /\ latch' = latch /\ verdict' = verdict
      /\ mSemaphore' = mSemaphore /\ mStopRequested' = mStopRequested /\ watchdog' = watchdog
      /\ js' = js /\ reported' = reported
  BY DEF StoreScore, At, Goto, testVars, pageVars, dogVars
<1>2. /\ r = loaded /\ r = mRunIndex /\ loaded # -1 /\ Len(reported[r]) > 0 /\ js = "blocked"
      /\ key = reported[r][Len(reported[r])].key
      /\ reported[r][Len(reported[r])].number = TRUE
  <2>1. /\ r = loaded /\ r = mRunIndex /\ Len(reported[r]) > 0 /\ js = "blocked"
        /\ task[r].key = reported[r][Len(reported[r])].key
        /\ task[r].number = reported[r][Len(reported[r])].number
    BY <1>1, Current DEF At
  <2>2. loaded # -1
    BY <2>1 DEF Rounds
  <2>3. task[r].number = TRUE
    BY <1>1 DEF IInv, TypeOK
  <2> QED BY <2>1, <2>2, <2>3
<1>3. /\ key \in Keys /\ reported[r] \in Seq(Request)
      /\ task'[r].pc = (IF key = Final THEN "count" ELSE "reset")
      /\ task'[r].key = key /\ task'[r].number = task[r].number
      /\ \A q \in Rounds \ {r} : task'[q] = task[q]
      /\ task' \in [Rounds -> [pc : {"idle", "posted", "count", "reset", "release"},
                               key : Keys, number : BOOLEAN]]
  BY <1>1 DEF IInv, TypeOK
<1>4. Scored(r, key)
  <2>1. Len(reported[r]) \in DOMAIN reported[r]
    BY <1>2, <1>3
  <2>2. reported[r][Len(reported[r])] \in Request
    BY <1>3, <2>1
  <2>3. reported[r][Len(reported[r])] = [key |-> key, number |-> TRUE]
    BY <1>2, <2>2 DEF Request
  <2> QED BY <2>1, <2>3 DEF Scored
<1>5. Scored(r, Final) => key = Final
  <2>1. Scored(r, Final) => Len(reported[r]) = N + 1 /\ reported[r][N + 1] = [key |-> Final, number |-> TRUE]
    BY <1>2, FinalIsLast
  <2> QED BY <1>2, <2>1
<1>6. TypeOK'
  <2>1. entries' \in Seq(Keys)
    BY <1>1, <1>3 DEF PutIfAbsent, IInv, TypeOK
  <2>2. scores' \in [Keys -> [Rounds -> {Unset} \cup Rounds]]
    BY <1>1, <1>3 DEF IInv, TypeOK
  <2> QED BY <1>1, <1>3, <2>1, <2>2 DEF IInv, TypeOK
<1>7. TaskInv'
  BY <1>1, <1>3 DEF IInv, TaskInv, At
<1>8. PageInv'
  BY <1>1, <1>2 DEF IInv, PageInv, At
<1>9. RoundInv'
  <2>1. /\ loaded' <= mRunIndex' /\ (test' = "launch" => loaded' < mRunIndex')
        /\ (test' = "await" => mRunIndex' < NumberRepeat)
        /\ (verdict' = "pass" => mRunIndex' = NumberRepeat)
    BY <1>1 DEF IInv, RoundInv
  <2>2. ASSUME NEW q \in Rounds
        PROVE  /\ q > loaded => reported[q] = <<>>
               /\ q < mRunIndex \/ (q = mRunIndex /\ test = "await" /\ latch = 0) =>
                    Scored(q, Final) /\ task'[q].pc # "posted" /\ task'[q].pc # "count"
               /\ q = mRunIndex /\ test = "await" /\ latch = 1 /\ Scored(q, Final) =>
                    task'[q].pc = "posted" \/ task'[q].pc = "count"
    <3>1. CASE q = r
      BY <1>1, <1>2, <1>3, <1>5, <3>1 DEF IInv, RoundInv, At
    <3>2. CASE q # r
      <4>1. task'[q] = task[q] /\ q # mRunIndex
        BY <1>2, <1>3, <3>2
      <4> QED BY <4>1 DEF IInv, RoundInv, At
    <3> QED BY <3>1, <3>2
  <2>3. \A q \in Rounds : Scored(q, Final)' <=> Scored(q, Final)
    BY <1>1 DEF Scored
  <2> QED BY <1>1, <2>1, <2>2, <2>3 DEF RoundInv, At
<1>10. ScoresInv'
  <2> SUFFICES ASSUME NEW q \in Rounds, NEW x \in Keys
               PROVE  scores'[x][q] = IF Scored(q, x)' /\ ~(task'[q].pc = "posted" /\ task'[q].key = x)
                                      THEN q ELSE Unset
    BY DEF ScoresInv, At
  <2>1. scores[x][q] = IF Scored(q, x) /\ ~(task[q].pc = "posted" /\ task[q].key = x)
                       THEN q ELSE Unset
    BY DEF IInv, ScoresInv, At
  <2>2. Scored(q, x)' <=> Scored(q, x)
    BY <1>1 DEF Scored
  <2>3. CASE q = r /\ x = key
    <3>1. scores'[x][q] = r
      BY <1>1, <1>2, <2>3 DEF IInv, TypeOK
    <3> QED BY <1>3, <1>4, <2>2, <2>3, <3>1
  <2>4. CASE ~(q = r /\ x = key)
    <3>1. scores'[x][q] = scores[x][q]
      BY <1>1, <1>2, <2>4 DEF IInv, TypeOK
    <3>2. (task'[q].pc = "posted" /\ task'[q].key = x) <=> (task[q].pc = "posted" /\ task[q].key = x)
      BY <1>3, <2>4
    <3> QED BY <2>1, <2>2, <3>1, <3>2
  <2> QED BY <2>3, <2>4
<1>11. DogInv'
  BY <1>1 DEF IInv, DogInv, Scored
<1> QED BY <1>6, <1>7, <1>8, <1>9, <1>10, <1>11 DEF IInv

\* The latch is counted down for the final score of the round that is awaited.
LEMMA CountDownStep == ASSUME IInv, NEW r \in Rounds, CountDown(r), Alive PROVE IInv'
<1>1. /\ task[r].pc = "count" /\ latch' = 0 /\ task' = [task EXCEPT ![r].pc = "reset"]
      /\ loaded' = loaded /\ suite' = suite /\ bench' = bench /\ cont' = cont /\ pushed' = pushed
      /\ test' = test /\ mRunIndex' = mRunIndex /\ verdict' = verdict
      /\ entries' = entries /\ scores' = scores
      /\ mSemaphore' = mSemaphore /\ mStopRequested' = mStopRequested /\ watchdog' = watchdog
      /\ js' = js /\ reported' = reported
  BY DEF CountDown, At, Goto, pageVars, dogVars
<1>2. /\ r = loaded /\ r = mRunIndex /\ loaded # -1 /\ Len(reported[r]) > 0 /\ js = "blocked"
      /\ task[r].key = reported[r][Len(reported[r])].key
      /\ reported[r][Len(reported[r])].number = task[r].number
  BY <1>1, Current DEF At, Rounds
<1>3. /\ task'[r].pc = "reset" /\ task'[r].key = task[r].key /\ task'[r].number = task[r].number
      /\ \A q \in Rounds \ {r} : task'[q] = task[q]
      /\ task' \in [Rounds -> [pc : {"idle", "posted", "count", "reset", "release"},
                               key : Keys, number : BOOLEAN]]
  BY <1>1 DEF IInv, TypeOK
<1>4. Scored(r, Final)
  <2>1. task[r].key = Final /\ task[r].number = TRUE
    BY <1>1 DEF IInv, TypeOK, TaskInv, At
  <2>2. Len(reported[r]) \in DOMAIN reported[r] /\ reported[r][Len(reported[r])] \in Request
    BY <1>2 DEF IInv, TypeOK
  <2>3. reported[r][Len(reported[r])] = [key |-> Final, number |-> TRUE]
    BY <1>2, <2>1, <2>2 DEF Request
  <2> QED BY <2>2, <2>3 DEF Scored
<1>5. TypeOK'
  BY <1>1, <1>3 DEF IInv, TypeOK
<1>6. TaskInv'
  BY <1>1, <1>3 DEF IInv, TaskInv, At
<1>7. PageInv'
  BY <1>1, <1>2 DEF IInv, PageInv, At
<1>8. RoundInv'
  <2>1. /\ loaded' <= mRunIndex' /\ (test' = "launch" => loaded' < mRunIndex')
        /\ (test' = "await" => mRunIndex' < NumberRepeat)
        /\ (verdict' = "pass" => mRunIndex' = NumberRepeat)
    BY <1>1 DEF IInv, RoundInv
  <2>2. ASSUME NEW q \in Rounds
        PROVE  /\ q > loaded => reported[q] = <<>>
               /\ q < mRunIndex \/ (q = mRunIndex /\ test = "await" /\ latch' = 0) =>
                    Scored(q, Final) /\ task'[q].pc # "posted" /\ task'[q].pc # "count"
               /\ q = mRunIndex /\ test = "await" /\ latch' = 1 /\ Scored(q, Final) =>
                    task'[q].pc = "posted" \/ task'[q].pc = "count"
    <3>1. CASE q = r
      BY <1>1, <1>2, <1>3, <1>4, <3>1 DEF IInv, RoundInv, At
    <3>2. CASE q # r
      <4>1. task'[q] = task[q] /\ q # mRunIndex
        BY <1>2, <1>3, <3>2
      <4> QED BY <4>1 DEF IInv, RoundInv, At
    <3> QED BY <3>1, <3>2
  <2>3. \A q \in Rounds : Scored(q, Final)' <=> Scored(q, Final)
    BY <1>1 DEF Scored
  <2> QED BY <1>1, <2>1, <2>2, <2>3 DEF RoundInv, At
<1>9. ScoresInv'
  BY <1>1, <1>3 DEF IInv, ScoresInv, At, Scored
<1>10. DogInv'
  BY <1>1 DEF IInv, DogInv, Alive
<1> QED BY <1>5, <1>6, <1>7, <1>8, <1>9, <1>10 DEF IInv

\* The last steps of a request touch neither results nor latch.
LEMMA ResetSteps ==
  ASSUME IInv, Alive, NEW r \in Rounds,
         ResetStopped(r) \/ ResetBegins(r) \/ ResetReleases(r) \/ ResetThrows(r)
  PROVE  IInv'
<1>1. /\ task[r].pc \in {"reset", "release"}
      /\ loaded' = loaded /\ suite' = suite /\ bench' = bench /\ cont' = cont /\ pushed' = pushed
      /\ test' = test /\ mRunIndex' = mRunIndex /\ latch' = latch /\ verdict' = verdict
      /\ entries' = entries /\ scores' = scores
      /\ mStopRequested' = mStopRequested /\ watchdog' = watchdog
      /\ reported' = reported
  BY DEF ResetStopped, ResetBegins, ResetReleases, ResetThrows, At, testVars, pageVars, dogVars
<1>2. \/ mSemaphore' = mSemaphore
      \/ mSemaphore # NoSemaphore /\ mSemaphore' = mSemaphore + 1
  BY DEF ResetStopped, ResetBegins, ResetReleases, ResetThrows, dogVars
<1>3. PICK pc \in {"idle", "release"} : task' = [task EXCEPT ![r].pc = pc]
  BY DEF ResetStopped, ResetBegins, ResetReleases, ResetThrows, Respond, Goto
<1>4. /\ task'[r].pc \in {"idle", "release"}
      /\ task'[r].key = task[r].key /\ task'[r].number = task[r].number
      /\ \A q \in Rounds \ {r} : task'[q] = task[q]
      /\ task' \in [Rounds -> [pc : {"idle", "posted", "count", "reset", "release"},
                               key : Keys, number : BOOLEAN]]
  BY <1>3 DEF IInv, TypeOK
<1>5. /\ TaskInv' /\ PageInv'
      /\ js' \in {"none", "ready", "blocked", "stopped", "through"}
  <2>1. CASE ResetStopped(r) \/ ResetReleases(r)
    BY <1>1, <2>1, Responding DEF ResetStopped, ResetReleases, At
  <2>2. CASE ResetBegins(r) \/ ResetThrows(r)
    <3>1. js' = js
      BY <2>2 DEF ResetBegins, ResetThrows, pageVars
    <3>2. TaskInv'
      <4>1. /\ reported[r] # <<>>
            /\ \A q \in Rounds : task'[q].pc # "idle" => task[q].pc # "idle"
            /\ \A q \in Rounds : task'[q].pc = "count" => task[q].pc = "count"
            /\ \A q \in Rounds : task'[q].key = task[q].key /\ task'[q].number = task[q].number
        BY <1>1, <1>4 DEF IInv, TaskInv, At
      <4> QED BY <1>1, <4>1 DEF IInv, TaskInv, At
    <3>3. loaded = r => js = "blocked"
      BY <1>1 DEF IInv, PageInv, At, Rounds
    <3>4. PageInv'
      <4>1. CASE loaded = r
        BY <1>1, <3>1, <3>3, <4>1 DEF IInv, PageInv, At
      <4>2. CASE loaded # r
        <5>1. loaded \in Rounds => task'[loaded] = task[loaded]
          BY <1>4, <4>2
        <5> QED BY <1>1, <3>1, <5>1 DEF IInv, TypeOK, PageInv, At
      <4> QED BY <4>1, <4>2
    <3> QED BY <3>1, <3>2, <3>4 DEF IInv, TypeOK
  <2> QED BY <2>1, <2>2
<1>6. TypeOK'
  BY <1>1, <1>2, <1>4, <1>5 DEF IInv, TypeOK, NoSemaphore
<1>7. /\ \A q \in Rounds : (task'[q].pc = "posted" <=> task[q].pc = "posted")
                          /\ (task'[q].pc = "count" <=> task[q].pc = "count")
                          /\ task'[q].key = task[q].key
      /\ \A q \in Rounds, x \in Keys : Scored(q, x)' <=> Scored(q, x)
      /\ Scored(mRunIndex, Final)' <=> Scored(mRunIndex, Final)
  BY <1>1, <1>4 DEF Scored
<1>8. RoundInv'
  BY <1>1, <1>7 DEF IInv, RoundInv, At, Keys
<1>9. ScoresInv'
  BY <1>1, <1>7 DEF IInv, ScoresInv, At
<1>10. DogInv'
  BY <1>1, <1>2, <1>7 DEF IInv, TypeOK, DogInv, NoSemaphore
<1> QED BY <1>5, <1>6, <1>8, <1>9, <1>10 DEF IInv
-----------------------------------------------------------------------------
(* The steps of the watch-dog and of the test's thread.                      *)

\* What the pages and their tasks have established is kept by steps of others.
LEMMA PagesKept ==
  ASSUME IInv, js' = js, loaded' = loaded, suite' = suite, bench' = bench, cont' = cont,
         pushed' = pushed, task' = task, entries' = entries, scores' = scores,
         reported' = reported
  PROVE  TaskInv' /\ PageInv' /\ ScoresInv'
<1>1. TaskInv'
  BY DEF IInv, TaskInv, At
<1>2. PageInv'
  BY DEF IInv, PageInv, At
<1>3. ScoresInv'
  BY DEF IInv, ScoresInv, At, Scored
<1> QED BY <1>1, <1>2, <1>3

\* The watch-dog checks the flag after every permit, so that it does not wait
\* again once it is stopped.
LEMMA WatchDogSteps == ASSUME IInv, DogStep \/ Expire PROVE IInv'
<1>1. /\ js' = js /\ loaded' = loaded /\ suite' = suite /\ bench' = bench /\ cont' = cont
      /\ pushed' = pushed /\ task' = task /\ entries' = entries /\ scores' = scores
      /\ reported' = reported
      /\ test' = test /\ mRunIndex' = mRunIndex /\ latch' = latch /\ verdict' = verdict
      /\ mStopRequested' = mStopRequested
  BY DEF DogStep, CheckStop, WakeUp, Expire, Panic, testVars, pageVars, taskVars
<1>2. TaskInv' /\ PageInv' /\ ScoresInv'
  BY <1>1, PagesKept
<1>3. RoundInv'
  BY <1>1 DEF IInv, RoundInv, At, Scored
<1>4. CASE CheckStop
  <2>1. watchdog = "looping" /\ mSemaphore' = mSemaphore
        /\ watchdog' = IF mStopRequested THEN "exited" ELSE "waiting"
    BY <1>4 DEF CheckStop
  <2>2. TypeOK' /\ DogInv'
    BY <1>1, <2>1 DEF IInv, TypeOK, DogInv
  <2> QED BY <1>2, <1>3, <2>2 DEF IInv
<1>5. CASE WakeUp
  <2>1. /\ watchdog = "waiting" /\ mSemaphore > 0 /\ mSemaphore' = mSemaphore - 1
        /\ watchdog' = "looping"
    BY <1>5 DEF WakeUp
  <2>2. TypeOK' /\ DogInv'
    BY <1>1, <2>1 DEF IInv, TypeOK, DogInv, NoSemaphore
  <2> QED BY <1>2, <1>3, <2>2 DEF IInv
<1>6. CASE Expire \/ Panic
  <2>1. /\ watchdog \in {"waiting", "expired"} /\ watchdog' \in {"expired", "panicked"}
        /\ mSemaphore' = mSemaphore
    BY <1>6 DEF Expire, Panic
  <2>2. TypeOK' /\ DogInv'
    BY <1>1, <2>1 DEF IInv, TypeOK, DogInv
  <2> QED BY <1>2, <1>3, <2>2 DEF IInv
<1> QED BY <1>4, <1>5, <1>6 DEF DogStep

\* The test's thread begins a round, leaves it, or gives up.
LEMMA RoundSteps ==
  ASSUME IInv, Alive, Launch \/ RoundDone \/ AwaitTimesOut \/ PrintResults
  PROVE  IInv'
<1>1. /\ js' = js /\ loaded' = loaded /\ suite' = suite /\ bench' = bench /\ cont' = cont
      /\ pushed' = pushed /\ task' = task /\ entries' = entries /\ scores' = scores
      /\ reported' = reported
      /\ mSemaphore' = mSemaphore /\ mStopRequested' = mStopRequested /\ watchdog' = watchdog
  BY DEF Launch, RoundDone, AwaitTimesOut, PrintResults, pageVars, taskVars, dogVars
<1>2. TaskInv' /\ PageInv' /\ ScoresInv'
  BY <1>1, PagesKept
<1>3. \A r \in Rounds : Scored(r, Final)' <=> Scored(r, Final)
  BY <1>1 DEF Scored
<1>4. /\ test \in {"launch", "await"} /\ test' \in {"launch", "await", "stop"}
      /\ mRunIndex \in 0 .. NumberRepeat /\ NumberRepeat \in Nat /\ loaded \in {-1} \cup Rounds
  BY DEF Launch, RoundDone, AwaitTimesOut, PrintResults, IInv, TypeOK
<1>5. DogInv'
  BY <1>1, <1>4 DEF IInv, DogInv, Alive
<1>6. CASE Launch
  <2>1. /\ test = "launch" /\ mRunIndex < NumberRepeat /\ test' = "await" /\ latch' = 1
        /\ mRunIndex' = mRunIndex /\ verdict' = verdict
    BY <1>6 DEF Launch
  <2>2. loaded < mRunIndex /\ mRunIndex \in Rounds
    BY <1>4, <2>1 DEF IInv, RoundInv, Rounds
  <2>3. reported[mRunIndex] = <<>>
    BY <2>2 DEF IInv, RoundInv
  <2>4. ~Scored(mRunIndex, Final)
    BY <2>3 DEF Scored
  <2>5. TypeOK'
    BY <1>1, <2>1 DEF IInv, TypeOK
  <2>6. RoundInv'
    BY <1>1, <1>3, <1>4, <2>1, <2>2, <2>4 DEF IInv, RoundInv, At
  <2> QED BY <1>2, <1>5, <2>5, <2>6 DEF IInv
<1>7. CASE RoundDone
  <2>1. /\ test = "await" /\ latch = 0 /\ test' = "launch" /\ mRunIndex' = mRunIndex + 1
        /\ latch' = latch /\ verdict' = verdict
    BY <1>7 DEF RoundDone
  <2>2. mRunIndex < NumberRepeat /\ loaded <= mRunIndex /\ verdict # "pass"
    BY <1>4, <2>1 DEF IInv, RoundInv
  <2>3. TypeOK'
    BY <1>1, <1>4, <2>1, <2>2 DEF IInv, TypeOK
  <2>4. \A r \in Rounds : r < mRunIndex + 1 =>
          Scored(r, Final) /\ task[r].pc # "posted" /\ task[r].pc # "count"
    BY <1>4, <2>1 DEF IInv, RoundInv, At, Rounds
  <2>5. RoundInv'
    BY <1>1, <1>3, <1>4, <2>1, <2>2, <2>4 DEF IInv, RoundInv, At, Rounds
  <2> QED BY <1>2, <1>5, <2>3, <2>5 DEF IInv
<1>8. CASE AwaitTimesOut \/ PrintResults
  <2>1. /\ test' = "stop" /\ mRunIndex' = mRunIndex /\ latch' = latch
        /\ verdict' \in {"pass", "fail"} /\ (verdict' = "pass" => mRunIndex = NumberRepeat)
    BY <1>8 DEF AwaitTimesOut, PrintResults
  <2>2. TypeOK'
    BY <1>1, <2>1 DEF IInv, TypeOK
  <2>3. RoundInv'
    BY <1>1, <1>3, <2>1 DEF IInv, RoundInv, At
  <2> QED BY <1>2, <1>5, <2>2, <2>3 DEF IInv
<1> QED BY <1>6, <1>7, <1>8

\* tearDown.
LEMMA StopSteps ==
  ASSUME IInv, Alive, RequestStop \/ WakeWatchDog \/ Join \/ Shutdown
  PROVE  IInv'
<1>1. /\ js' = js /\ loaded' = loaded /\ suite' = suite /\ bench' = bench /\ cont' = cont
      /\ pushed' = pushed /\ task' = task /\ entries' = entries /\ scores' = scores
      /\ reported' = reported
      /\ mRunIndex' = mRunIndex /\ latch' = latch /\ verdict' = verdict /\ watchdog' = watchdog
  BY DEF RequestStop, WakeWatchDog, Join, Shutdown, pageVars, taskVars, dogVars
<1>2. TaskInv' /\ PageInv' /\ ScoresInv'
  BY <1>1, PagesKept
<1>3. test \notin {"launch", "await"} /\ test' \in {"release", "join", "shutdown", "over"}
  BY DEF RequestStop, WakeWatchDog, Join, Shutdown
<1>4. RoundInv'
  BY <1>1, <1>3 DEF IInv, RoundInv, At, Scored
<1>5. CASE RequestStop
  BY <1>1, <1>2, <1>4, <1>5 DEF RequestStop, IInv, TypeOK, DogInv, Alive
<1>6. CASE WakeWatchDog
  <2>1. /\ test = "release" /\ test' = "join" /\ mSemaphore' = mSemaphore + 1
        /\ mStopRequested' = mStopRequested
    BY <1>6 DEF WakeWatchDog
  <2>2. TypeOK' /\ DogInv'
    BY <1>1, <2>1 DEF IInv, TypeOK, DogInv, Alive, NoSemaphore
  <2> QED BY <1>2, <1>4, <2>2 DEF IInv
<1>7. CASE Join
  <2>1. /\ test = "join" /\ watchdog = "exited" /\ test' = "shutdown" /\ mSemaphore' = NoSemaphore
        /\ mStopRequested' = mStopRequested
    BY <1>7 DEF Join
  <2>2. TypeOK' /\ DogInv'
    BY <1>1, <2>1 DEF IInv, TypeOK, DogInv, Alive
  <2> QED BY <1>2, <1>4, <2>2 DEF IInv
<1>8. CASE Shutdown
  <2>1. /\ test = "shutdown" /\ test' = "over" /\ mSemaphore' = mSemaphore
        /\ mStopRequested' = mStopRequested
    BY <1>8 DEF Shutdown, dogVars
  <2>2. TypeOK' /\ DogInv'
    BY <1>1, <2>1 DEF IInv, TypeOK, DogInv, Alive
  <2> QED BY <1>2, <1>4, <2>2 DEF IInv
<1> QED BY <1>5, <1>6, <1>7, <1>8
-----------------------------------------------------------------------------
(* The theorems.                                                             *)

\* The invariant holds at first.
LEMMA Initially == Init => IInv
<1> SUFFICES ASSUME Init PROVE IInv
  OBVIOUS
<1> USE DEF Init
<1>1. TypeOK
  <2>1. 0 \in 0 .. NumberRepeat /\ 0 \in 0 .. N
    BY NumberOfSuites
  <2>2. task \in [Rounds -> [pc : {"idle", "posted", "count", "reset", "release"},
                            key : Keys, number : BOOLEAN]]
    BY DEF Keys
  <2>3. entries \in Seq(Keys) /\ reported \in [Rounds -> Seq(Request)]
    OBVIOUS
  <2>4. scores \in [Keys -> [Rounds -> {Unset} \cup Rounds]]
    OBVIOUS
  <2>5. /\ bench \in Nat \ {0} /\ mSemaphore \in {NoSemaphore} \cup Nat /\ mStopRequested \in BOOLEAN
        /\ latch \in {0, 1} /\ loaded \in {-1} \cup Rounds
    <3>1. bench \in Nat \ {0} /\ latch \in {0, 1}
      OBVIOUS
    <3>2. mSemaphore \in {NoSemaphore} \cup Nat
      OBVIOUS
    <3>3. mStopRequested \in BOOLEAN
      OBVIOUS
    <3>4. loaded \in {-1} \cup Rounds
      OBVIOUS
    <3> QED BY <3>1, <3>2, <3>3, <3>4
  <2>6. /\ test \in {"launch", "await", "stop", "release", "join", "shutdown", "over"}
        /\ verdict \in {"none", "pass", "fail"}
        /\ js \in {"none", "ready", "blocked", "stopped", "through"}
        /\ cont \in {"null", "setup", "benchmark", "tearDown"}
        /\ watchdog \in {"looping", "waiting", "expired", "exited", "panicked"}
    OBVIOUS
  <2>7. mRunIndex \in 0 .. NumberRepeat /\ suite \in 0 .. N /\ pushed \in 0 .. N
    BY <2>1
  <2> HIDE DEF Init
  <2> QED BY <2>2, <2>3, <2>4, <2>5, <2>6, <2>7 DEF TypeOK
<1>2. \A r \in Rounds : reported[r] = <<>> /\ task[r].pc = "idle"
  OBVIOUS
<1>3. \A r \in Rounds, x \in Keys : ~Scored(r, x)
  BY <1>2 DEF Scored
<1>4. TaskInv /\ PageInv
  BY <1>2 DEF TaskInv, PageInv, At
<1>5. RoundInv
  BY <1>2 DEF RoundInv, At, Rounds
<1>6. ScoresInv
  BY <1>3 DEF ScoresInv
<1>7. DogInv
  BY DEF DogInv, NoSemaphore
<1> QED BY <1>1, <1>4, <1>5, <1>6, <1>7 DEF IInv

\* Every step preserves the invariant.
LEMMA Inductive == IInv /\ [Next]_vars => IInv'
<1> SUFFICES ASSUME IInv, [Next]_vars PROVE IInv'
  OBVIOUS
<1>1. CASE PageStep
  BY <1>1, PageLoadsStep, BeginSuiteStep, InSuiteStep, NotifyScoreStep, PageStopsStep DEF PageStep
<1>2. ASSUME NEW r \in Rounds, TaskStep(r) PROVE IInv'
  BY <1>2, IgnorePostStep, StoreScoreStep, CountDownStep, ResetSteps DEF TaskStep
<1>3. CASE DogStep \/ Expire
  BY <1>3, WatchDogSteps
<1>4. CASE TestStep
  BY <1>4, RoundSteps, StopSteps DEF TestStep
<1>5. CASE UNCHANGED vars
  <2>1. /\ js' = js /\ loaded' = loaded /\ suite' = suite /\ bench' = bench /\ cont' = cont
        /\ pushed' = pushed /\ task' = task /\ entries' = entries /\ scores' = scores
        /\ reported' = reported
        /\ test' = test /\ mRunIndex' = mRunIndex /\ latch' = latch /\ verdict' = verdict
        /\ mSemaphore' = mSemaphore /\ mStopRequested' = mStopRequested /\ watchdog' = watchdog
    BY <1>5 DEF vars, testVars, pageVars, taskVars, dogVars
  <2>2. TaskInv' /\ PageInv' /\ ScoresInv'
    BY <2>1, PagesKept
  <2>3. TypeOK'
    BY <2>1 DEF IInv, TypeOK
  <2>4. RoundInv' /\ DogInv'
    BY <2>1 DEF IInv, RoundInv, DogInv, At, Scored
  <2> QED BY <2>2, <2>3, <2>4 DEF IInv
<1> QED BY <1>1, <1>2, <1>3, <1>4, <1>5 DEF Next

\* The invariant, for any number of suites, benchmarks and rounds.
THEOREM Invariance == Spec => []IInv
  BY Initially, Inductive, PTL DEF Spec

\* A benchmark test that passes has the score of every suite that had one, in
\* every round, and every round's final score.
THEOREM ResultsAreComplete == Spec => []ResultsComplete
<1>1. IInv => ResultsComplete
  <2> SUFFICES ASSUME IInv, verdict = "pass", NEW r \in Rounds
               PROVE  /\ Scored(r, Final)
                      /\ \A key \in Keys : scores[key][r] = IF Scored(r, key) THEN r ELSE Unset
    BY DEF ResultsComplete
  <2>1. mRunIndex = NumberRepeat /\ r < mRunIndex
    BY DEF IInv, RoundInv, Rounds
  <2>2. Scored(r, Final) /\ ~At(r, "posted")
    BY <2>1 DEF IInv, RoundInv
  <2> QED BY <2>2 DEF IInv, ScoresInv
<1> QED BY <1>1, Invariance, PTL

\* Once stop() has released its permit the watch-dog's ten minutes do not expire
\* any more: it never waits again without a permit.
THEOREM StopOutrunsExpiry == Spec => ExpiresBeforeStop
<1> DEFINE Before == watchdog = "waiting" /\ watchdog' = "expired" =>
             test \notin {"join", "shutdown", "over"}
<1>1. ASSUME IInv, [Next]_vars PROVE Before
  <2>1. CASE Expire
    BY <1>1, <2>1 DEF Expire, IInv, DogInv
  <2>2. CASE DogStep
    BY <2>2 DEF DogStep, CheckStop, WakeUp, Panic
  <2>3. CASE PageStep
    BY <2>3 DEF PageStep, PageLoads, BeginSuite, ContinueSetup, RunNextBenchmark, RunNextTearDown,
                NotifyScore, PageStops, dogVars
  <2>4. ASSUME NEW r \in Rounds, TaskStep(r) PROVE Before
    BY <2>4 DEF TaskStep, IgnorePost, StoreScore, CountDown, ResetStopped, ResetBegins, ResetReleases,
                ResetThrows, dogVars
  <2>5. CASE TestStep \/ UNCHANGED vars
    BY <2>5 DEF TestStep, Launch, RoundDone, AwaitTimesOut, PrintResults, RequestStop, WakeWatchDog,
                Join, Shutdown, vars, dogVars
  <2> QED BY <1>1, <2>1, <2>2, <2>3, <2>4, <2>5 DEF Next
<1>2. Spec => [][Before]_vars
  BY <1>1, Invariance, PTL DEF Spec
<1> QED BY <1>2 DEF ExpiresBeforeStop

\* A step of a suite is a report of that suite or changes no report.
LEMMA SuiteStepMaps ==
  ASSUME IInv, NEW s \in 1 .. N, loaded # -1, Len(reported[loaded]) = s - 1, loaded' = loaded,
         \/ \E step \in {"setup", "benchmark", "tearDown"} : Yield(step)
         \/ NotifyError(s)
         \/ NotifyResult(s)
  PROVE  [Reports!Next]_(IF loaded = -1 THEN <<>> ELSE reported[loaded])
<1>1. CASE \E step \in {"setup", "benchmark", "tearDown"} : Yield(step)
  BY <1>1 DEF Yield
<1>2. ASSUME NEW number \in BOOLEAN, CtsReport(s, number)
      PROVE  Reports!ReportSuite
  <2>1. loaded \in Rounds
    BY DEF IInv, TypeOK
  <2>2. reported'[loaded] = Append(reported[loaded], [key |-> s, number |-> number])
    BY <1>2, <2>1 DEF CtsReport, IInv, TypeOK
  <2>3. Len(reported[loaded]) < N /\ s = Len(reported[loaded]) + 1
    BY NumberOfSuites
  <2> QED BY <2>2, <2>3 DEF Reports!ReportSuite
<1>3. CASE NotifyError(s) \/ NotifyResult(s)
  BY <1>2, <1>3 DEF NotifyError, NotifyResult, Reports!Next
<1> QED BY <1>1, <1>3

\* Every step maps to a step of SuiteReports or to a stutter.
LEMMA StepMaps ==
  IInv /\ [Next]_vars => [Reports!Next]_(IF loaded = -1 THEN <<>> ELSE reported[loaded])
<1> SUFFICES ASSUME IInv, [Next]_vars
             PROVE  [Reports!Next]_(IF loaded = -1 THEN <<>> ELSE reported[loaded])
  OBVIOUS
<1>1. CASE PageLoads
  <2>1. /\ test = "await" /\ loaded < mRunIndex /\ loaded' = mRunIndex /\ reported' = reported
    BY <1>1 DEF PageLoads
  <2>2. mRunIndex \in Rounds /\ mRunIndex # -1 /\ loaded \in {-1} \cup Rounds
    BY <2>1 DEF IInv, TypeOK, RoundInv, Rounds
  <2>3. reported[mRunIndex] = <<>>
    BY <2>1, <2>2 DEF IInv, RoundInv
  <2>4. CASE loaded = -1
    BY <2>1, <2>2, <2>3, <2>4
  <2>5. CASE loaded # -1
    <3>1. Scored(loaded, Final)
      BY <2>1, <2>2, <2>5 DEF IInv, RoundInv
    <3>2. Len(reported[loaded]) = N + 1 /\ reported[loaded][N + 1].number
      BY <2>5, <3>1, FinalIsLast
    <3> QED BY <2>1, <2>2, <2>3, <2>5, <3>2 DEF Reports!Next, Reports!Reload
  <2> QED BY <2>4, <2>5
<1>2. CASE BeginSuite
  <2>1. /\ loaded # -1 /\ suite \in 0 .. N /\ suite < N /\ cont = "null" /\ js = "ready"
        /\ loaded' = loaded
    BY <1>2 DEF BeginSuite, Running, IInv, TypeOK, PageInv
  <2>2. Len(reported[loaded]) = (suite + 1) - 1 /\ suite + 1 \in 1 .. N
    BY <2>1, NumberOfSuites DEF IInv, PageInv
  <2>3. \/ \E step \in {"setup", "benchmark", "tearDown"} : Yield(step)
        \/ NotifyError(suite + 1)
        \/ NotifyResult(suite + 1)
    BY <1>2 DEF BeginSuite, RunNextSetup
  <2> QED BY <2>1, <2>2, <2>3, SuiteStepMaps
<1>3. CASE ContinueSetup \/ RunNextBenchmark \/ RunNextTearDown
  <2>1. cont # "null" /\ js = "ready" /\ loaded' = loaded
    BY <1>3 DEF ContinueSetup, RunNextBenchmark, RunNextTearDown, Running
  <2>2. /\ loaded \in Rounds /\ loaded # -1 /\ suite \in 0 .. N
        /\ reported[loaded] \in Seq(Request)
    BY <2>1 DEF IInv, TypeOK, PageInv, Rounds
  <2>3. Len(reported[loaded]) = suite - 1
    BY <2>1, <2>2 DEF IInv, PageInv
  <2>4. suite \in 1 .. N
    BY <2>2, <2>3, NumberOfSuites
  <2>5. \/ \E step \in {"setup", "benchmark", "tearDown"} : Yield(step)
        \/ NotifyError(suite)
        \/ NotifyResult(suite)
    BY <1>3 DEF ContinueSetup, RunNextBenchmark, RunNextTearDown, RunNextSetup
  <2> QED BY <2>1, <2>2, <2>3, <2>4, <2>5, SuiteStepMaps
<1>4. CASE NotifyScore
  <2>1. /\ cont = "null" /\ suite = N /\ js = "ready" /\ CtsReport(Final, pushed > 0)
        /\ loaded' = loaded
    BY <1>4 DEF NotifyScore, Running
  <2>2. loaded \in Rounds /\ loaded # -1 /\ reported[loaded] \in Seq(Request)
    BY <2>1 DEF IInv, TypeOK, PageInv, Rounds
  <2>3. /\ Len(reported[loaded]) = N
        /\ pushed > 0 <=> \E k \in DOMAIN reported[loaded] : k <= N /\ reported[loaded][k].number
    BY <2>1, <2>2 DEF IInv, PageInv
  <2>4. (pushed > 0) = \E k \in 1 .. N : reported[loaded][k].number
    <3>1. DOMAIN reported[loaded] = 1 .. N /\ \A k \in 1 .. N : k <= N
      BY <2>2, <2>3, NumberOfSuites
    <3>2. pushed > 0 <=> \E k \in 1 .. N : reported[loaded][k].number
      BY <2>3, <3>1
    <3>3. CASE pushed > 0
      <4>1. (pushed > 0) = TRUE /\ (\E k \in 1 .. N : reported[loaded][k].number) = TRUE
        BY <3>2, <3>3
      <4> QED BY <4>1, Zenon
    <3>4. CASE ~(pushed > 0)
      <4>1. (pushed > 0) = FALSE /\ (\E k \in 1 .. N : reported[loaded][k].number) = FALSE
        BY <3>2, <3>4
      <4> QED BY <4>1, Zenon
    <3> QED BY <3>3, <3>4, Zenon
  <2>5. reported'[loaded] = Append(reported[loaded], [key |-> Final, number |-> pushed > 0])
    BY <2>1, <2>2 DEF CtsReport, IInv, TypeOK
  <2> QED BY <2>1, <2>2, <2>3, <2>4, <2>5 DEF Reports!Next, Reports!ReportFinal, Final, Reports!Final
<1>5. CASE PageStops
  BY <1>5 DEF PageStops
<1>6. ASSUME NEW r \in Rounds, TaskStep(r) PROVE loaded' = loaded /\ reported' = reported
  BY <1>6 DEF TaskStep, IgnorePost, StoreScore, CountDown, ResetStopped, ResetBegins, ResetReleases,
              ResetThrows, pageVars
<1>7. CASE DogStep \/ Expire \/ TestStep \/ UNCHANGED vars
  <2>1. loaded' = loaded /\ reported' = reported
    BY <1>7 DEF DogStep, CheckStop, WakeUp, Expire, Panic, TestStep, Launch, RoundDone, AwaitTimesOut, PrintResults, RequestStop,
                WakeWatchDog, Join, Shutdown, vars, pageVars
  <2> QED BY <2>1
<1> QED BY <1>1, <1>2, <1>3, <1>4, <1>5, <1>6, <1>7 DEF Next, PageStep

\* The pages implement SuiteReports: each reports every suite once and in order,
\* and is replaced only after a final score that is a number.
THEOREM ReportsAreKept == Spec => KeepsReports
<1>1. Init => Reports!Init
  BY DEF Init, Reports!Init
<1> QED BY <1>1, Invariance, StepMaps, PTL DEF Spec, KeepsReports, Reports!Spec
=============================================================================
