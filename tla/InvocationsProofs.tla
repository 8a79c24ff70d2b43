-------------------------- MODULE InvocationsProofs --------------------------
(***************************************************************************)
(* How the tests of a plan are divided: over sessions in time, by          *)
(* --continue-session, and over devices, by --shards.                      *)
(* For any tests, sessions and devices: as long as an id keeps its meaning *)
(* until it was looked up, and no session is continued by two invocations  *)
(* at once, continuing it runs what is missing and keeps what is there.    *)
(* For any devices that compute the same package list, any list and any    *)
(* number of shards: the shards run disjoint parts of the list, and        *)
(* together the whole of it.                                               *)
(***************************************************************************)
EXTENDS Sessions, Sharding, FiniteSetTheorems, TLAPS

-----------------------------------------------------------------------------
(***************************************************************************)
(* Continued sessions: hypotheses and the inductive invariant.             *)

\* --run-known-failures is not given to a continued invocation, or there are
\* no known failures.
KnownLeftOut == TRUE \in ContinueKnown => KnownFailures = {}

HasDir(d)      == phase[d] \in {"started", "running", "ended", "writing"}
HasPlan(d)     == phase[d] \in {"running", "ended", "writing"}
IsContinued(d) == phase[d] # "idle" /\ wanted[d] # 0

\* No session is continued by two invocations at once.
NotShared ==
  \A d, e \in Devices : IsContinued(d) /\ IsContinued(e) /\ wanted[d] = wanted[e] => d = e

\* While an id is to be looked up, the new invocations that have still to open
\* their report were begun after the session that the id names.
NoneShifts ==
  \A d, e \in Devices :
    phase[d] \in {"asked", "started"} /\ phase[e] \in {"running", "ended"} /\ wanted[e] = 0 =>
      wanted[d] < dir[e]

ContinuedApart == NotShared /\ NoneShifts

\* With one device it always is so.
LEMMA OneDevice == (\A d, e \in Devices : d = e) => ContinuedApart
  BY DEF ContinuedApart, NotShared, NoneShifts

SessionsTypeOK ==
  /\ made \in 0 .. MaxSessions
  /\ written \in [AllSessions -> {"none", "torn", "mixed", "whole"}]
  /\ content \in [AllSessions -> [Tests -> Status]]
  /\ phase \in [Devices -> {"idle", "asked", "started", "running", "ended", "writing"}]
  /\ id \in [Devices -> Int]
  /\ known \in [Devices -> BOOLEAN]
  /\ dir \in [Devices -> 0 .. MaxSessions]
  /\ results \in [Devices -> [Tests -> Status]]
  /\ todo \in [Devices -> SUBSET Tests]
  /\ wanted \in [Devices -> 0 .. MaxSessions]
  /\ missing \in [Devices -> SUBSET Tests]
  /\ ran \in [Devices -> SUBSET Tests]

\* A directory that was not made holds nothing; no report is mixed.
RepoInv ==
  \A s \in AllSessions :
    /\ written[s] # "mixed"
    /\ s > made => written[s] = "none" /\ content[s] = NewResult(Tests)

\* While the id is still to be looked up, it is that of the session the user
\* chose.
LookUpInv(d) ==
  phase[d] \in {"asked", "started"} =>
    /\ wanted[d] # 0 /\ wanted[d] \in ResultDirs
    /\ Index(wanted[d], ResultDirs) = id[d]

\* The last whole report of the session shows what was missing when it was
\* chosen, and is there until the invocation writes its own.
MissingInv(d) ==
  IsContinued(d) =>
    /\ wanted[d] \in 1 .. made
    /\ missing[d] = WithStatus(content[wanted[d]], "notExecuted")
    /\ written[wanted[d]] = IF phase[d] = "writing" THEN "torn" ELSE "whole"

\* A continued invocation writes into the session the user chose, a new one into
\* a directory without a report.
DirInv(d) ==
  HasDir(d) =>
    /\ dir[d] \in 1 .. made
    /\ wanted[d] # 0 => dir[d] = wanted[d]
    /\ wanted[d] = 0 =>
         /\ content[dir[d]] = NewResult(Tests)
         /\ written[dir[d]] = IF phase[d] = "writing" THEN "torn" ELSE "none"

\* No two invocations write into one directory.
OwnDirs ==
  \A d, e \in Devices : HasDir(d) /\ HasDir(e) /\ dir[d] = dir[e] => d = e

\* The results agree with the last whole report wherever that has a verdict.
ResultInv(d) ==
  KnownLeftOut /\ HasDir(d) =>
    \A t \in Tests : content[dir[d]][t] \in Executed => results[d][t] = content[dir[d]][t]

\* What was missing is still to run, or was run.
LeftInv(d) ==
  HasPlan(d) /\ wanted[d] # 0 =>
    \A t \in missing[d] \ KnownFailures : t \in todo[d] \/ results[d][t] \in Executed

\* What a continued invocation has to run and what it ran was missing.
OnlyMissingInv(d) ==
  KnownLeftOut /\ wanted[d] # 0 =>
    /\ phase[d] = "idle" \/ known[d] \in ContinueKnown
    /\ ran[d] \subseteq missing[d]
    /\ phase[d] = "running" => todo[d] \subseteq missing[d]

SessionsInv ==
  /\ SessionsTypeOK
  /\ RepoInv
  /\ OwnDirs
  /\ \A d \in Devices : /\ LookUpInv(d) /\ MissingInv(d) /\ DirInv(d)
                        /\ ResultInv(d) /\ LeftInv(d) /\ OnlyMissingInv(d)

-----------------------------------------------------------------------------
(* What the steps have in common.                                          *)

\* The invariant of one device.
DeviceInv(d) == /\ LookUpInv(d) /\ MissingInv(d) /\ DirInv(d)
                /\ ResultInv(d) /\ LeftInv(d) /\ OnlyMissingInv(d)

\* Two directories of a listing have different places in it.
LEMMA IndexUnique ==
  ASSUME NEW dirs \in SUBSET Nat, IsFiniteSet(dirs), NEW r \in dirs, NEW s \in dirs,
         Index(r, dirs) = Index(s, dirs)
  PROVE  r = s
<1> DEFINE Below(x) == {y \in dirs : y < x}
<1>1. ASSUME NEW x \in dirs, NEW y \in dirs, x < y, Index(x, dirs) = Index(y, dirs)
      PROVE  FALSE
  <2>1. IsFiniteSet(Below(y))
    BY FS_Subset
  <2>0. x \in Nat /\ y \in Nat /\ \A z \in dirs : z \in Nat
    OBVIOUS
  <2>a. \A z \in dirs : z < x => z < y
    BY <1>1, <2>0
  <2>2. Below(x) \in SUBSET Below(y)
    BY <2>a
  <2>3. Below(x) = Below(y)
    BY <1>1, <2>1, <2>2, FS_Subset DEF Index
  <2>4. x \in Below(y) /\ x \notin Below(x)
    BY <1>1
  <2> QED
    BY <2>3, <2>4
<1>2. r \in Nat /\ s \in Nat
  OBVIOUS
<1> QED
  BY <1>1, <1>2

\* The id of a session with a whole report names that session.
LEMMA IdNames ==
  ASSUME SessionsTypeOK, NEW s \in ResultDirs, written[s] = "whole",
         NEW n, n = Index(s, ResultDirs)
  PROVE  HasResult(n) /\ Session(n) = s
<1>1. IsFiniteSet(1 .. made) /\ ResultDirs \in SUBSET (1 .. made) /\ made \in Nat
  <2>1. made \in Nat
    BY DEF SessionsTypeOK
  <2> QED
    BY <2>1, FS_Interval DEF ResultDirs
<1>2. IsFiniteSet(ResultDirs) /\ ResultDirs \in SUBSET Nat
  <2>1. IsFiniteSet(ResultDirs)
    BY <1>1, FS_Subset
  <2> QED
    BY <1>1, <2>1
<1>3. Session(n) \in ResultDirs /\ Index(Session(n), ResultDirs) = n
  BY DEF Session
<1>4. Session(n) = s
  BY <1>2, <1>3, IndexUnique
<1> QED
  BY <1>4 DEF HasResult, Exists

\* An id with a result names a session that was made and has that id.
LEMMA SessionMade ==
  ASSUME SessionsTypeOK, NEW n, HasResult(n)
  PROVE  /\ Session(n) \in ResultDirs /\ Index(Session(n), ResultDirs) = n
         /\ written[Session(n)] = "whole"
         /\ Session(n) \in 1 .. made /\ Session(n) \in AllSessions /\ made \in Nat
<1>1. Session(n) \in ResultDirs /\ Index(Session(n), ResultDirs) = n
  BY DEF HasResult, Exists, Session
<1> QED
  BY <1>1, Assumption DEF HasResult, ResultDirs, SessionsTypeOK, AllSessions, Assumption

\* What a device has is as it was.
Same(d) ==
  /\ phase'[d] = phase[d] /\ id'[d] = id[d] /\ known'[d] = known[d]
  /\ dir'[d] = dir[d] /\ results'[d] = results[d] /\ todo'[d] = todo[d]
  /\ wanted'[d] = wanted[d] /\ missing'[d] = missing[d] /\ ran'[d] = ran[d]

\* A device without an invocation keeps its part of the invariant.
LEMMA IdleKeeps ==
  ASSUME SessionsInv, NEW d \in Devices, phase'[d] = "idle",
         ran'[d] = ran[d], missing'[d] = missing[d], wanted'[d] = wanted[d]
  PROVE  DeviceInv(d)'
  BY DEF SessionsInv, DeviceInv, LookUpInv, MissingInv, DirInv, ResultInv, LeftInv,
         OnlyMissingInv, HasDir, HasPlan, IsContinued

\* Another invocation's directory is another, and was made.
LEMMA OthersDirs ==
  ASSUME SessionsInv, NEW d \in Devices, HasDir(d)
  PROVE  /\ dir[d] \in AllSessions /\ dir[d] \in 1 .. made
         /\ \A e \in Devices \ {d} : HasDir(e) => dir[d] # dir[e]
  BY Assumption DEF SessionsInv, SessionsTypeOK, DirInv, OwnDirs, AllSessions, Assumption

\* No invocation writes into a session that another continues.
LEMMA WantedApart ==
  ASSUME SessionsInv, NotShared, NEW d \in Devices, NEW e \in Devices, d # e,
         HasDir(d), IsContinued(e)
  PROVE  dir[d] # wanted[e]
<1>1. CASE wanted[d] # 0
  BY <1>1 DEF SessionsInv, DirInv, NotShared, IsContinued, HasDir
<1>2. CASE wanted[d] = 0 /\ phase[d] # "writing"
  BY <1>2 DEF SessionsInv, DirInv, MissingInv
<1>3. CASE wanted[d] = 0 /\ phase[d] = "writing"
  <2>1. CASE phase[e] = "writing"
    BY <2>1 DEF SessionsInv, OwnDirs, DirInv, HasDir, IsContinued
  <2>2. CASE phase[e] # "writing"
    BY <1>3, <2>2 DEF SessionsInv, DirInv, MissingInv
  <2> QED
    BY <2>1, <2>2
<1> QED
  BY <1>1, <1>2, <1>3

\* No other invocation writes the same report.
LEMMA WritesAlone ==
  ASSUME SessionsInv, NEW d \in Devices, phase[d] \in {"ended", "writing"}
  PROVE  ~OtherWrites(d)
  BY DEF SessionsInv, OwnDirs, HasDir, OtherWrites

\* A step of one device touches no report but its own, and the listing only
\* when a new session's report is opened.
OnlyOwn(d) ==
  /\ made' >= made
  /\ \A s \in AllSessions :
       \/ HasDir(d) /\ s = dir[d]
       \/ content'[s] = content[s] /\ written'[s] = written[s]
  /\ \A s \in AllSessions :
       \/ phase[d] = "ended" /\ wanted[d] = 0 /\ s = dir[d]
       \/ written'[s] = "none" <=> written[s] = "none"

\* Such a step disturbs no other device.
LEMMA OthersKeep ==
  ASSUME SessionsInv, ContinuedApart, SessionsTypeOK', NEW d \in Devices, OnlyOwn(d),
         NEW e \in Devices, e # d, Same(e)
  PROVE  DeviceInv(e)'
<1>1. CASE phase[e] = "idle"
  BY <1>1, IdleKeeps DEF Same
<1>2. CASE phase[e] # "idle"
  <2>1. made \in Nat /\ made' \in Nat /\ made <= made' /\ made <= MaxSessions
    BY Assumption DEF SessionsInv, SessionsTypeOK, OnlyOwn, Assumption
  <2>2. ASSUME IsContinued(e)
        PROVE  /\ content'[wanted[e]] = content[wanted[e]]
               /\ written'[wanted[e]] = written[wanted[e]]
               /\ wanted[e] \in 1 .. made /\ wanted[e] \in AllSessions
    <3>1. wanted[e] \in 1 .. made /\ wanted[e] \in AllSessions
      BY <2>1, <2>2, Assumption DEF SessionsInv, MissingInv, AllSessions, Assumption
    <3>2. ~(HasDir(d) /\ wanted[e] = dir[d])
      BY <2>2, WantedApart DEF ContinuedApart
    <3> QED
      BY <3>1, <3>2 DEF OnlyOwn
  <2>3. ASSUME HasDir(e)
        PROVE  /\ content'[dir[e]] = content[dir[e]] /\ written'[dir[e]] = written[dir[e]]
               /\ dir[e] \in 1 .. made
    BY <2>3, OthersDirs DEF OnlyOwn
  <2>4. LookUpInv(e)'
    <3> SUFFICES ASSUME phase[e] \in {"asked", "started"} PROVE LookUpInv(e)'
      BY DEF LookUpInv, Same
    <3>1. wanted[e] # 0 /\ wanted[e] \in ResultDirs /\ Index(wanted[e], ResultDirs) = id[e]
      BY DEF SessionsInv, LookUpInv
    <3>2. /\ written'[wanted[e]] = written[wanted[e]]
          /\ wanted[e] \in 1 .. made /\ wanted[e] \in AllSessions
      BY <3>1, <2>2 DEF IsContinued
    <3>3. ASSUME NEW s, s < wanted[e] PROVE s \in ResultDirs' <=> s \in ResultDirs
      <4>1. s \in 1 .. made' <=> s \in 1 .. made
        BY <2>1, <3>2, <3>3
      <4>2. ASSUME s \in 1 .. made PROVE written'[s] = "none" <=> written[s] = "none"
        <5>1. s \in AllSessions
          BY <2>1, <4>2, Assumption DEF AllSessions, Assumption
        <5>2. ~(phase[d] = "ended" /\ wanted[d] = 0 /\ s = dir[d])
          <6> SUFFICES ASSUME phase[d] = "ended", wanted[d] = 0, s = dir[d] PROVE FALSE
            OBVIOUS
          <6>1. wanted[e] < dir[d]
            BY DEF ContinuedApart, NoneShifts
          <6> QED
            BY <3>2, <3>3, <4>2, <6>1, <2>1
        <5> QED
          BY <5>1, <5>2 DEF OnlyOwn
      <4> QED
        BY <4>1, <4>2 DEF ResultDirs
    <3>4. Index(wanted[e], ResultDirs') = Index(wanted[e], ResultDirs)
      <4>1. {r \in ResultDirs' : r < wanted[e]} = {r \in ResultDirs : r < wanted[e]}
        BY <3>3
      <4> QED
        BY <4>1 DEF Index
    <3>5. wanted[e] \in ResultDirs'
      BY <2>1, <3>1, <3>2 DEF ResultDirs
    <3> QED
      BY <3>1, <3>4, <3>5 DEF LookUpInv, Same
  <2>5. MissingInv(e)'
    <3> SUFFICES ASSUME IsContinued(e) PROVE MissingInv(e)'
      BY DEF MissingInv, IsContinued, Same
    <3>1. wanted[e] \in 1 .. made'
      BY <2>1, <2>2
    <3> QED
      BY <2>2, <3>1 DEF SessionsInv, MissingInv, WithStatus, Same
  <2>6. DirInv(e)' /\ ResultInv(e)'
    <3> SUFFICES ASSUME HasDir(e) PROVE DirInv(e)' /\ ResultInv(e)'
      BY DEF DirInv, ResultInv, HasDir, Same
    <3>1. dir[e] \in 1 .. made'
      BY <2>1, <2>3
    <3> QED
      BY <2>3, <3>1 DEF SessionsInv, DirInv, ResultInv, Same
  <2>7. LeftInv(e)' /\ OnlyMissingInv(e)'
    BY DEF SessionsInv, LeftInv, OnlyMissingInv, HasPlan, Same
  <2> QED
    BY <2>4, <2>5, <2>6, <2>7 DEF DeviceInv
<1> QED
  BY <1>1, <1>2

\* What a step of one device has to show.
LEMMA OneSteps ==
  ASSUME SessionsInv, ContinuedApart, NEW d \in Devices,
         \A e \in Devices \ {d} : Same(e),
         OnlyOwn(d),
         HasDir(d)' => \A e \in Devices \ {d} : HasDir(e) => dir'[d] # dir[e],
         SessionsTypeOK', RepoInv', DeviceInv(d)'
  PROVE  SessionsInv'
<1>1. ASSUME NEW e \in Devices, e # d PROVE DeviceInv(e)'
  BY <1>1, OthersKeep
<1>2. \A e \in Devices : DeviceInv(e)'
  BY <1>1
<1>3. OwnDirs'
  <2>1. \A e \in Devices \ {d} : (HasDir(e)' <=> HasDir(e)) /\ dir'[e] = dir[e]
    BY DEF Same, HasDir
  <2> QED
    BY <2>1 DEF SessionsInv, OwnDirs
<1> QED
  BY <1>2, <1>3 DEF SessionsInv, DeviceInv

-----------------------------------------------------------------------------
(* The invariant is inductive.                                             *)

\* No session and no invocation.
LEMMA SessionsInitially == Init => SessionsInv
<1> SUFFICES ASSUME Init PROVE SessionsInv
  OBVIOUS
<1>1. SessionsTypeOK
  <2>1. NewResult(Tests) \in [Tests -> Status]
    BY DEF NewResult, Status
  <2> QED
    BY <2>1, Assumption DEF Init, SessionsTypeOK, NoId, Assumption
<1>2. RepoInv
  BY DEF Init, RepoInv
<1>3. \A d \in Devices : DeviceInv(d)
  BY DEF Init, DeviceInv, LookUpInv, MissingInv, DirInv, ResultInv, LeftInv,
         OnlyMissingInv, HasDir, HasPlan, IsContinued
<1>4. OwnDirs
  BY DEF Init, OwnDirs, HasDir
<1> QED
  BY <1>1, <1>2, <1>3, <1>4 DEF SessionsInv, DeviceInv

\* A new session has a directory of its own, without results.
LEMMA StartNewStep ==
  ASSUME SessionsInv, ContinuedApart, NEW d \in Devices, StartNew(d)
  PROVE  SessionsInv'
<1> USE DEF SessionsInv
<1>1. /\ made' = made + 1 /\ made + 1 \in AllSessions /\ made \in Nat
      /\ written' = written /\ content' = content
      /\ dir' = [dir EXCEPT ![d] = made + 1]
      /\ results' = [results EXCEPT ![d] = NewResult(Tests)]
      /\ id' = [id EXCEPT ![d] = NoId]
      /\ wanted' = [wanted EXCEPT ![d] = 0]
      /\ missing' = [missing EXCEPT ![d] = {}]
      /\ phase' = [phase EXCEPT ![d] = "running"]
      /\ ran' = [ran EXCEPT ![d] = {}]
  BY Assumption DEF StartNew, MakeDir, SessionsTypeOK, AllSessions, Assumption
<1>2. PICK withKnown \in BOOLEAN, S \in SUBSET Tests :
        known' = [known EXCEPT ![d] = withKnown] /\ todo' = [todo EXCEPT ![d] = S]
  BY Assumption DEF StartNew, ListedTests, Assumption
<1>3. SessionsTypeOK'
  <2>1. NewResult(Tests) \in [Tests -> Status] /\ NoId \in Int
    BY DEF NewResult, Status, NoId
  <2> QED
    BY <1>1, <1>2, <2>1, Assumption DEF SessionsTypeOK, AllSessions, Assumption
<1>4. RepoInv'
  BY <1>1 DEF RepoInv, SessionsTypeOK, AllSessions
<1>5. /\ phase'[d] = "running" /\ dir'[d] = made + 1 /\ wanted'[d] = 0
      /\ results'[d] = NewResult(Tests) /\ missing'[d] = {} /\ ran'[d] = {}
  BY <1>1 DEF SessionsTypeOK
<1>6. content'[dir'[d]] = NewResult(Tests) /\ written'[dir'[d]] = "none"
  BY <1>1, <1>5 DEF RepoInv
<1>7. DeviceInv(d)'
  <2>1. \A t \in Tests : NewResult(Tests)[t] \notin Executed
    BY DEF NewResult, Executed
  <2>2. dir'[d] \in 1 .. made'
    BY <1>1, <1>5
  <2> QED
    BY <1>5, <1>6, <2>1, <2>2
    DEF DeviceInv, LookUpInv, MissingInv, DirInv, ResultInv, LeftInv,
        OnlyMissingInv, HasDir, HasPlan, IsContinued
<1>8. \A e \in Devices \ {d} : Same(e)
  BY <1>1, <1>2 DEF Same, SessionsTypeOK
<1>9. OnlyOwn(d)
  BY <1>1 DEF OnlyOwn
<1>10. \A e \in Devices \ {d} : HasDir(e) => dir'[d] # dir[e]
  BY <1>1, <1>5 DEF DirInv, SessionsTypeOK
<1> HIDE DEF SessionsInv
<1> QED
  BY <1>3, <1>4, <1>7, <1>8, <1>9, <1>10, OneSteps

\* The id is that of a session with a whole report.
LEMMA ContinueSessionStep ==
  ASSUME SessionsInv, ContinuedApart, NEW d \in Devices, ContinueSession(d)
  PROVE  SessionsInv'
<1> USE DEF SessionsInv
<1>1. PICK n \in 0 .. made - 1 :
        /\ HasResult(n)
        /\ id' = [id EXCEPT ![d] = n]
        /\ wanted' = [wanted EXCEPT ![d] = Session(n)]
        /\ missing' = [missing EXCEPT ![d] = WithStatus(content[Session(n)], "notExecuted")]
  BY DEF ContinueSession
<1>a. n \in Int
  BY DEF SessionsTypeOK
<1>2. PICK withKnown \in ContinueKnown : known' = [known EXCEPT ![d] = withKnown]
  BY DEF ContinueSession
<1>3. /\ phase' = [phase EXCEPT ![d] = "asked"]
      /\ ran' = [ran EXCEPT ![d] = {}] /\ todo' = [todo EXCEPT ![d] = {}]
      /\ made' = made /\ written' = written /\ content' = content
      /\ dir' = dir /\ results' = results
  BY DEF ContinueSession, repo
<1>4. /\ Session(n) \in ResultDirs /\ Index(Session(n), ResultDirs) = n
      /\ written[Session(n)] = "whole"
      /\ Session(n) \in 1 .. made /\ Session(n) \in AllSessions /\ made \in Nat
  BY <1>1, SessionMade
<1>5. /\ phase'[d] = "asked" /\ id'[d] = n /\ wanted'[d] = Session(n)
      /\ missing'[d] = WithStatus(content[Session(n)], "notExecuted")
      /\ ran'[d] = {} /\ known'[d] = withKnown
  BY <1>1, <1>2, <1>3 DEF SessionsTypeOK
<1>6. SessionsTypeOK'
  <2>1. WithStatus(content[Session(n)], "notExecuted") \in SUBSET Tests
    BY DEF WithStatus
  <2>2. Session(n) \in 0 .. MaxSessions /\ withKnown \in BOOLEAN
    BY <1>4, Assumption DEF AllSessions, Assumption
  <2> QED
    BY <1>1, <1>a, <1>2, <1>3, <2>1, <2>2 DEF SessionsTypeOK
<1>7. RepoInv'
  BY <1>3 DEF RepoInv
<1>8. DeviceInv(d)'
  <2>1. ResultDirs' = ResultDirs
    BY <1>3 DEF ResultDirs
  <2>2. LookUpInv(d)'
    BY <1>4, <1>5, <2>1 DEF LookUpInv
  <2>3. MissingInv(d)'
    BY <1>3, <1>4, <1>5 DEF MissingInv, WithStatus
  <2>4. OnlyMissingInv(d)'
    BY <1>2, <1>5 DEF OnlyMissingInv
  <2> QED
    BY <1>5, <2>2, <2>3, <2>4 DEF DeviceInv, DirInv, ResultInv, LeftInv, HasDir, HasPlan
<1>9. \A e \in Devices \ {d} : Same(e)
  BY <1>1, <1>2, <1>3 DEF Same, SessionsTypeOK
<1>10. OnlyOwn(d) /\ ~HasDir(d)'
  BY <1>3, <1>4, <1>5 DEF OnlyOwn, HasDir
<1> HIDE DEF SessionsInv
<1> QED
  BY <1>6, <1>7, <1>8, <1>9, <1>10, OneSteps

\* Both looks at the id find the session the user chose.
LEMMA LooksUp ==
  ASSUME SessionsInv, NEW d \in Devices, phase[d] \in {"asked", "started"}
  PROVE  /\ HasResult(id[d]) /\ Session(id[d]) = wanted[d]
         /\ wanted[d] \in 1 .. made /\ wanted[d] \in AllSessions /\ wanted[d] # 0
<1>1. PICK n : n = id[d]
  OBVIOUS
<1>2. PICK s : s = wanted[d]
  OBVIOUS
<1>3. /\ s # 0 /\ s \in ResultDirs /\ n = Index(s, ResultDirs)
      /\ s \in 1 .. made /\ written[s] = "whole"
  BY <1>1, <1>2 DEF SessionsInv, LookUpInv, MissingInv, IsContinued
<1>4. HasResult(n) /\ Session(n) = s
  BY <1>3, IdNames DEF SessionsInv
<1>5. s \in AllSessions
  BY <1>3, Assumption DEF SessionsInv, SessionsTypeOK, AllSessions, Assumption
<1> QED
  BY <1>1, <1>2, <1>3, <1>4, <1>5

\* The reporter goes on with the session the user chose, and its results.
LEMMA InvocationStartedStep ==
  ASSUME SessionsInv, ContinuedApart, NEW d \in Devices, InvocationStarted(d)
  PROVE  SessionsInv'
<1>1. /\ made' = made /\ written' = written /\ content' = content
      /\ id' = id /\ known' = known /\ wanted' = wanted /\ missing' = missing
      /\ todo' = todo /\ ran' = ran /\ phase[d] = "asked"
  BY DEF InvocationStarted, repo, command
<1>2. PICK n : n = id[d]
  OBVIOUS
<1>3. PICK s \in AllSessions : s = wanted[d] /\ s # 0 /\ s \in 1 .. made
  BY <1>1, LooksUp
<1>4. HasResult(n) /\ Session(n) = s
  BY <1>1, <1>2, <1>3, LooksUp
<1> USE DEF SessionsInv
<1>5. /\ dir' = [dir EXCEPT ![d] = s]
      /\ results' = [results EXCEPT ![d] = content[s]]
      /\ phase' = [phase EXCEPT ![d] = "started"]
  BY <1>2, <1>4 DEF InvocationStarted, ReportDir, Load
<1>6. dir'[d] = s /\ results'[d] = content[s] /\ phase'[d] = "started"
  BY <1>5 DEF SessionsTypeOK
<1>7. SessionsTypeOK'
  <2>1. s \in 0 .. MaxSessions
    BY DEF AllSessions
  <2> QED
    BY <1>1, <1>5, <2>1 DEF SessionsTypeOK
<1>8. RepoInv'
  BY <1>1 DEF RepoInv
<1>9. DeviceInv(d)'
  <2>1. ResultDirs' = ResultDirs
    BY <1>1 DEF ResultDirs
  <2>2. LookUpInv(d)'
    BY <1>1, <2>1 DEF LookUpInv
  <2>3. MissingInv(d)'
    BY <1>1, <1>6 DEF MissingInv, IsContinued, WithStatus
  <2>4. DirInv(d)' /\ ResultInv(d)'
    BY <1>1, <1>3, <1>6 DEF DirInv, ResultInv, HasDir
  <2>5. LeftInv(d)' /\ OnlyMissingInv(d)'
    BY <1>1, <1>6 DEF LeftInv, OnlyMissingInv, HasPlan
  <2> QED
    BY <2>2, <2>3, <2>4, <2>5 DEF DeviceInv
<1>10. \A e \in Devices \ {d} : Same(e)
  BY <1>1, <1>5 DEF Same, SessionsTypeOK
<1>11. OnlyOwn(d)
  BY <1>1 DEF OnlyOwn, SessionsTypeOK
<1> HIDE DEF SessionsInv
<1>12. \A e \in Devices \ {d} : HasDir(e) => dir'[d] # dir[e]
  BY <1>1, <1>3, <1>6, WantedApart DEF ContinuedApart, IsContinued
<1> QED
  BY <1>7, <1>8, <1>9, <1>10, <1>11, <1>12, OneSteps

\* The plan is derived from the session that the reporter goes on with.
LEMMA DerivePlanStep ==
  ASSUME SessionsInv, ContinuedApart, NEW d \in Devices, DerivePlan(d)
  PROVE  SessionsInv'
<1>1. /\ made' = made /\ written' = written /\ content' = content
      /\ id' = id /\ known' = known /\ wanted' = wanted /\ missing' = missing
      /\ dir' = dir /\ results' = results /\ ran' = ran /\ phase[d] = "started"
  BY DEF DerivePlan, repo, command
<1>2. PICK n : n = id[d]
  OBVIOUS
<1>3. PICK s \in AllSessions : s = wanted[d] /\ s # 0 /\ s \in 1 .. made
  BY <1>1, LooksUp
<1>4. HasResult(n) /\ Session(n) = s
  BY <1>1, <1>2, <1>3, LooksUp
<1> USE DEF SessionsInv
<1>5. PICK S : S = PlannedTests(content[s], known[d])
  OBVIOUS
<1>6. /\ todo' = [todo EXCEPT ![d] = S]
      /\ phase' = [phase EXCEPT ![d] = "running"]
  BY <1>2, <1>4, <1>5 DEF DerivePlan
<1>7. S \in SUBSET Tests
  BY <1>5, Assumption DEF PlannedTests, ListedTests, Assumption
<1>8. todo'[d] = S /\ phase'[d] = "running"
  BY <1>6 DEF SessionsTypeOK
<1>9. missing[d] = WithStatus(content[s], "notExecuted") /\ dir[d] = s
  BY <1>1, <1>3 DEF MissingInv, IsContinued, DirInv, HasDir
<1>10. missing[d] \ KnownFailures \subseteq S
  BY <1>5, <1>9 DEF PlannedTests, ExcludedTests, ListedTests, WithStatus
<1>11. KnownLeftOut => S \subseteq missing[d]
  <2> SUFFICES ASSUME KnownLeftOut PROVE S \subseteq missing[d]
    OBVIOUS
  <2>1. known[d] \in ContinueKnown /\ known[d] \in BOOLEAN
    BY <1>1, <1>3 DEF OnlyMissingInv, SessionsTypeOK
  <2>2. ListedTests(known[d]) = ListedTests(FALSE)
    BY <2>1 DEF KnownLeftOut, ListedTests
  <2> QED
    BY <1>5, <1>9, <2>2, Assumption
    DEF PlannedTests, ExcludedTests, ListedTests, WithStatus, Assumption
<1>12. SessionsTypeOK'
  BY <1>1, <1>6, <1>7 DEF SessionsTypeOK
<1>13. RepoInv'
  BY <1>1 DEF RepoInv
<1>14. DeviceInv(d)'
  <2>1. LookUpInv(d)'
    BY <1>8 DEF LookUpInv
  <2>2. MissingInv(d)'
    BY <1>1, <1>8 DEF MissingInv, IsContinued, WithStatus
  <2>3. DirInv(d)' /\ ResultInv(d)'
    BY <1>1, <1>8 DEF DirInv, ResultInv, HasDir
  <2>4. LeftInv(d)'
    BY <1>1, <1>8, <1>10 DEF LeftInv
  <2>5. OnlyMissingInv(d)'
    BY <1>1, <1>3, <1>8, <1>11 DEF OnlyMissingInv
  <2> QED
    BY <2>1, <2>2, <2>3, <2>4, <2>5 DEF DeviceInv
<1>15. \A e \in Devices \ {d} : Same(e)
  BY <1>1, <1>6 DEF Same, SessionsTypeOK
<1>16. OnlyOwn(d)
  BY <1>1 DEF OnlyOwn, SessionsTypeOK
<1> HIDE DEF SessionsInv
<1>17. \A e \in Devices \ {d} : HasDir(e) => dir'[d] # dir[e]
  BY <1>1, OthersDirs DEF HasDir
<1> QED
  BY <1>12, <1>13, <1>14, <1>15, <1>16, <1>17, OneSteps

\* Only a test without a verdict in the last whole report is run.
LEMMA TodoHasNoVerdict ==
  ASSUME SessionsInv, KnownLeftOut, NEW d \in Devices, phase[d] = "running",
         NEW t \in todo[d]
  PROVE  content[dir[d]][t] \notin Executed
<1> USE DEF SessionsInv
<1>0. t \in Tests
  BY DEF SessionsTypeOK
<1>1. CASE wanted[d] = 0
  BY <1>0, <1>1 DEF DirInv, HasDir, NewResult, Executed
<1>2. CASE wanted[d] # 0
  <2>1. t \in missing[d] /\ dir[d] = wanted[d]
    BY <1>2 DEF OnlyMissingInv, DirInv, HasDir
  <2>2. content[dir[d]][t] = "notExecuted"
    BY <1>2, <2>1 DEF MissingInv, IsContinued, WithStatus
  <2> QED
    BY <2>2 DEF Executed
<1> QED
  BY <1>1, <1>2

\* A test that was still to run has a verdict now; no other verdict has changed.
LEMMA RunTestStep ==
  ASSUME SessionsInv, ContinuedApart, NEW d \in Devices,
         NEW t \in Tests, NEW failure \in BOOLEAN, RunTest(d, t, failure)
  PROVE  SessionsInv'
<1>1. /\ made' = made /\ written' = written /\ content' = content /\ phase' = phase
      /\ id' = id /\ known' = known /\ wanted' = wanted /\ missing' = missing
      /\ dir' = dir /\ phase[d] = "running" /\ t \in todo[d]
      /\ todo' = [todo EXCEPT ![d] = todo[d] \ {t}]
      /\ ran' = [ran EXCEPT ![d] = ran[d] \cup {t}]
  BY DEF RunTest, repo, command
<1>2. PICK before : before = results[d]
  OBVIOUS
<1>3. PICK after \in [Tests -> Status] :
        /\ results' = [results EXCEPT ![d] = after]
        /\ after[t] \in Executed
        /\ \A x \in Tests \ {t} : after[x] = before[x]
  <2> DEFINE inserted == InsertTest(before, t)
             filled == IF failure THEN ReportTestFailure(inserted, t) ELSE inserted
             result == ReportTestEnded(filled, t)
  <2>0. before \in [Tests -> Status]
    BY <1>2 DEF SessionsInv, SessionsTypeOK
  <2>1. inserted \in [Tests -> Status] /\ \A x \in Tests \ {t} : inserted[x] = before[x]
    BY <2>0 DEF InsertTest, Status
  <2>2. filled \in [Tests -> Status] /\ \A x \in Tests \ {t} : filled[x] = before[x]
    BY <2>1 DEF ReportTestFailure, Status, Executed
  <2>3. /\ result \in [Tests -> Status] /\ result[t] \in Executed
        /\ \A x \in Tests \ {t} : result[x] = before[x]
    BY <2>2 DEF ReportTestEnded, Status, Executed
  <2>4. results' = [results EXCEPT ![d] = result]
    BY <1>2 DEF RunTest
  <2> QED
    BY <2>3, <2>4
<1> USE DEF SessionsInv
<1>4. /\ results'[d] = after /\ todo'[d] = todo[d] \ {t}
      /\ ran'[d] = ran[d] \cup {t}
  BY <1>1, <1>3 DEF SessionsTypeOK
<1>5. SessionsTypeOK'
  BY <1>1, <1>3 DEF SessionsTypeOK
<1>6. RepoInv'
  BY <1>1 DEF RepoInv
<1>7. DeviceInv(d)'
  <2>1. LookUpInv(d)'
    BY <1>1 DEF LookUpInv
  <2>2. MissingInv(d)'
    BY <1>1 DEF MissingInv, IsContinued, WithStatus
  <2>3. DirInv(d)'
    BY <1>1 DEF DirInv, HasDir
  <2>4. ResultInv(d)'
    <3> HIDE DEF SessionsInv
    <3> SUFFICES ASSUME KnownLeftOut, NEW x \in Tests, content[dir[d]][x] \in Executed
                 PROVE  after[x] = content[dir[d]][x]
      BY <1>1, <1>4 DEF ResultInv
    <3>1. x # t
      BY <1>1, TodoHasNoVerdict
    <3>2. before[x] = content[dir[d]][x]
      BY <1>1, <1>2 DEF SessionsInv, ResultInv, HasDir
    <3> QED
      BY <1>3, <3>1, <3>2
  <2>5. LeftInv(d)'
    BY <1>1, <1>2, <1>3, <1>4 DEF LeftInv, HasPlan, SessionsTypeOK
  <2>6. OnlyMissingInv(d)'
    BY <1>1, <1>4 DEF OnlyMissingInv
  <2> QED
    BY <2>1, <2>2, <2>3, <2>4, <2>5, <2>6 DEF DeviceInv
<1>8. \A e \in Devices \ {d} : Same(e)
  BY <1>1, <1>3 DEF Same, SessionsTypeOK
<1>9. OnlyOwn(d)
  BY <1>1 DEF OnlyOwn, SessionsTypeOK
<1> HIDE DEF SessionsInv
<1>10. \A e \in Devices \ {d} : HasDir(e) => dir'[d] # dir[e]
  BY <1>1, OthersDirs DEF HasDir
<1> QED
  BY <1>5, <1>6, <1>7, <1>8, <1>9, <1>10, OneSteps

\* What is left is reported; no verdict is lost.
LEMMA LeaveRunStep ==
  ASSUME SessionsInv, ContinuedApart, NEW d \in Devices, LeaveRun(d)
  PROVE  SessionsInv'
<1>1. /\ made' = made /\ written' = written /\ content' = content
      /\ id' = id /\ known' = known /\ wanted' = wanted /\ missing' = missing
      /\ dir' = dir /\ todo' = todo /\ ran' = ran /\ phase[d] = "running"
      /\ phase' = [phase EXCEPT ![d] = "ended"]
  BY DEF LeaveRun, repo, command
<1>2. PICK before : before = results[d]
  OBVIOUS
<1>3. PICK after \in [Tests -> Status] :
        /\ results' = [results EXCEPT ![d] = after]
        /\ \A t \in Tests : before[t] \in Executed => after[t] = before[t]
  <2> DEFINE result == [t \in Tests |-> IF t \in todo[d] THEN InsertTest(before, t)[t]
                                        ELSE before[t]]
  <2>1. before \in [Tests -> Status] /\ results \in [Devices -> [Tests -> Status]]
    BY <1>2 DEF SessionsInv, SessionsTypeOK
  <2>2. \A t \in Tests : InsertTest(before, t)[t] \in Status
                           /\ (before[t] \in Executed => InsertTest(before, t)[t] = before[t])
    BY <2>1 DEF InsertTest, Status, Executed
  <2>3. /\ result \in [Tests -> Status]
        /\ \A t \in Tests : before[t] \in Executed => result[t] = before[t]
    BY <2>1, <2>2
  <2>4. results' = [results EXCEPT ![d] = result]
    BY <1>2, <2>1 DEF LeaveRun
  <2> QED
    BY <2>3, <2>4
<1> USE DEF SessionsInv
<1>4. results'[d] = after /\ phase'[d] = "ended"
  BY <1>1, <1>3 DEF SessionsTypeOK
<1>5. SessionsTypeOK'
  BY <1>1, <1>3 DEF SessionsTypeOK
<1>6. RepoInv'
  BY <1>1 DEF RepoInv
<1>7. DeviceInv(d)'
  <2>1. LookUpInv(d)'
    BY <1>4 DEF LookUpInv
  <2>2. MissingInv(d)'
    BY <1>1, <1>4 DEF MissingInv, IsContinued, WithStatus
  <2>3. DirInv(d)'
    BY <1>1, <1>4 DEF DirInv, HasDir
  <2>4. ResultInv(d)'
    BY <1>1, <1>2, <1>3, <1>4 DEF ResultInv, HasDir
  <2>5. LeftInv(d)'
    BY <1>1, <1>2, <1>3, <1>4 DEF LeftInv, HasPlan, SessionsTypeOK
  <2>6. OnlyMissingInv(d)'
    BY <1>1, <1>4 DEF OnlyMissingInv
  <2> QED
    BY <2>1, <2>2, <2>3, <2>4, <2>5, <2>6 DEF DeviceInv
<1>8. \A e \in Devices \ {d} : Same(e)
  BY <1>1, <1>3 DEF Same, SessionsTypeOK
<1>9. OnlyOwn(d)
  BY <1>1 DEF OnlyOwn, SessionsTypeOK
<1> HIDE DEF SessionsInv
<1>10. \A e \in Devices \ {d} : HasDir(e) => dir'[d] # dir[e]
  BY <1>1, OthersDirs DEF HasDir
<1> QED
  BY <1>5, <1>6, <1>7, <1>8, <1>9, <1>10, OneSteps

\* The report is torn from now on; the last whole one is the same.
LEMMA OpenReportStep ==
  ASSUME SessionsInv, ContinuedApart, NEW d \in Devices, OpenReport(d)
  PROVE  SessionsInv'
<1>0. phase[d] = "ended" /\ ~OtherWrites(d)
  BY WritesAlone DEF OpenReport
<1>1. /\ made' = made /\ content' = content
      /\ id' = id /\ known' = known /\ wanted' = wanted /\ missing' = missing
      /\ dir' = dir /\ results' = results /\ todo' = todo /\ ran' = ran
      /\ written' = [written EXCEPT ![dir[d]] = "torn"]
      /\ phase' = [phase EXCEPT ![d] = "writing"]
  BY <1>0 DEF OpenReport, command
<1> USE DEF SessionsInv
<1>2. PICK s \in AllSessions : s = dir[d] /\ s \in 1 .. made
  <2>1. dir[d] \in 1 .. made
    BY <1>0 DEF DirInv, HasDir
  <2> QED
    BY <2>1, Assumption DEF SessionsTypeOK, AllSessions, Assumption
<1>3. phase'[d] = "writing" /\ written'[s] = "torn"
  BY <1>1, <1>2 DEF SessionsTypeOK
<1>4. SessionsTypeOK'
  BY <1>1, <1>2 DEF SessionsTypeOK
<1>5. RepoInv'
  <2>1. \A x \in AllSessions : written'[x] = IF x = s THEN "torn" ELSE written[x]
    BY <1>1, <1>2 DEF SessionsTypeOK
  <2>2. ~(s > made)
    BY <1>2 DEF SessionsTypeOK
  <2> QED
    BY <1>1, <2>1, <2>2 DEF RepoInv
<1>6. DeviceInv(d)'
  <2>1. LookUpInv(d)'
    BY <1>3 DEF LookUpInv
  <2>2. MissingInv(d)'
    BY <1>0, <1>1, <1>2, <1>3 DEF MissingInv, IsContinued, DirInv, HasDir, WithStatus
  <2>3. DirInv(d)'
    BY <1>0, <1>1, <1>2, <1>3 DEF DirInv, HasDir
  <2>4. ResultInv(d)'
    BY <1>0, <1>1 DEF ResultInv, HasDir
  <2>5. LeftInv(d)'
    BY <1>0, <1>1 DEF LeftInv, HasPlan
  <2>6. OnlyMissingInv(d)'
    BY <1>0, <1>1, <1>3 DEF OnlyMissingInv
  <2> QED
    BY <2>1, <2>2, <2>3, <2>4, <2>5, <2>6 DEF DeviceInv
<1>7. \A e \in Devices \ {d} : Same(e)
  BY <1>1 DEF Same, SessionsTypeOK
<1>8. OnlyOwn(d)
  <2>1. \A x \in AllSessions : x # s => written'[x] = written[x]
    BY <1>1, <1>2 DEF SessionsTypeOK
  <2>2. wanted[d] # 0 => written[s] # "none"
    BY <1>0, <1>2 DEF MissingInv, IsContinued, DirInv, HasDir
  <2> QED
    BY <1>0, <1>1, <1>2, <1>3, <2>1, <2>2 DEF OnlyOwn, HasDir, SessionsTypeOK
<1> HIDE DEF SessionsInv
<1>9. \A e \in Devices \ {d} : HasDir(e) => dir'[d] # dir[e]
  BY <1>0, <1>1, OthersDirs DEF HasDir
<1> QED
  BY <1>4, <1>5, <1>6, <1>7, <1>8, <1>9, OneSteps

\* An invocation that writes alone leaves its results in its directory.
LEMMA WritesResults ==
  ASSUME SessionsInv, NEW d \in Devices, WriteReport(d)
  PROVE  /\ dir[d] \in 1 .. made /\ dir[d] \in AllSessions
         /\ written' = [written EXCEPT ![dir[d]] = "whole"]
         /\ content' = [content EXCEPT ![dir[d]] = results[d]]
<1>1. phase[d] = "writing" /\ ~OtherWrites(d)
  BY WritesAlone DEF WriteReport
<1>2. dir[d] \in 1 .. made /\ written[dir[d]] = "torn"
  BY <1>1 DEF SessionsInv, DirInv, MissingInv, IsContinued, HasDir
<1>3. dir[d] \in AllSessions
  BY <1>2, Assumption DEF SessionsInv, SessionsTypeOK, AllSessions, Assumption
<1> QED
  BY <1>2, <1>3 DEF WriteReport

\* The report is whole again, and the invocation is over.
LEMMA WriteReportStep ==
  ASSUME SessionsInv, ContinuedApart, NEW d \in Devices, WriteReport(d)
  PROVE  SessionsInv'
<1>1. PICK s \in AllSessions :
        /\ s = dir[d] /\ s \in 1 .. made
        /\ written' = [written EXCEPT ![s] = "whole"]
        /\ content' = [content EXCEPT ![s] = results[d]]
  BY WritesResults
<1>2. /\ made' = made /\ phase[d] = "writing"
      /\ id' = id /\ known' = known /\ wanted' = wanted /\ missing' = missing
      /\ dir' = dir /\ results' = results /\ todo' = todo /\ ran' = ran
      /\ phase' = [phase EXCEPT ![d] = "idle"]
  BY DEF WriteReport, command
<1>3. SessionsTypeOK'
  BY <1>1, <1>2 DEF SessionsInv, SessionsTypeOK
<1>4. RepoInv'
  <2>1. \A x \in AllSessions : /\ written'[x] = IF x = s THEN "whole" ELSE written[x]
                               /\ content'[x] = IF x = s THEN results[d] ELSE content[x]
    BY <1>1 DEF SessionsInv, SessionsTypeOK
  <2>2. ~(s > made)
    BY <1>1 DEF SessionsInv, SessionsTypeOK
  <2> QED
    BY <1>2, <2>1, <2>2 DEF SessionsInv, RepoInv
<1>5. \A e \in Devices : /\ phase'[e] = IF e = d THEN "idle" ELSE phase[e]
                         /\ ran'[e] = ran[e] /\ dir'[e] = dir[e]
                         /\ missing'[e] = missing[e] /\ wanted'[e] = wanted[e]
  BY <1>2 DEF SessionsInv, SessionsTypeOK
<1>6. DeviceInv(d)'
  BY <1>5, IdleKeeps
<1>7. \A e \in Devices \ {d} : Same(e)
  BY <1>2 DEF Same, SessionsInv, SessionsTypeOK
<1>8. OnlyOwn(d)
  <2>1. \A x \in AllSessions : x # s => written'[x] = written[x] /\ content'[x] = content[x]
    BY <1>1 DEF SessionsInv, SessionsTypeOK
  <2>2. written[s] = "torn" /\ written'[s] = "whole"
    BY <1>1, <1>2 DEF SessionsInv, SessionsTypeOK, MissingInv, IsContinued, DirInv, HasDir
  <2> QED
    BY <1>1, <1>2, <2>1, <2>2 DEF OnlyOwn, HasDir, SessionsInv, SessionsTypeOK
<1>9. ~HasDir(d)'
  BY <1>5 DEF HasDir
<1> QED
  BY <1>3, <1>4, <1>6, <1>7, <1>8, <1>9, OneSteps

\* All invocations are over; the repository is as it was.
LEMMA HostKilledStep ==
  ASSUME SessionsInv, HostKilled
  PROVE  SessionsInv'
<1>1. /\ made' = made /\ written' = written /\ content' = content
      /\ id' = id /\ known' = known /\ wanted' = wanted /\ missing' = missing
      /\ dir' = dir /\ results' = results /\ todo' = todo /\ ran' = ran
      /\ phase' = [d \in Devices |-> "idle"]
  BY DEF HostKilled, repo, command
<1>2. SessionsTypeOK' /\ RepoInv'
  BY <1>1 DEF SessionsInv, SessionsTypeOK, RepoInv
<1>3. \A d \in Devices : phase'[d] = "idle"
  BY <1>1
<1>4. \A d \in Devices : DeviceInv(d)'
  BY <1>1, <1>3, IdleKeeps
<1>5. OwnDirs'
  BY <1>3 DEF OwnDirs, HasDir
<1> QED
  BY <1>2, <1>4, <1>5 DEF SessionsInv, DeviceInv

\* A step in which nothing changes.
LEMMA SessionsStutter ==
  ASSUME SessionsInv, UNCHANGED <<made, written, content, phase, id, known, dir, results,
                                  todo, wanted, missing, ran>>
  PROVE  SessionsInv'
<1>1. SessionsTypeOK' /\ RepoInv' /\ OwnDirs'
  BY DEF SessionsInv, SessionsTypeOK, RepoInv, OwnDirs, HasDir
<1>2. ASSUME NEW d \in Devices PROVE DeviceInv(d)'
  <2>1. ResultDirs' = ResultDirs
    BY DEF ResultDirs
  <2> QED
    BY <2>1 DEF SessionsInv, DeviceInv, LookUpInv, MissingInv, DirInv, ResultInv, LeftInv, OnlyMissingInv,
                HasDir, HasPlan, IsContinued, WithStatus
<1> QED
  BY <1>1, <1>2 DEF SessionsInv, DeviceInv

\* The inductive invariant of the sessions holds of every behaviour in which a
\* session is continued by one invocation at a time, and no invocation of an
\* earlier directory opens its report while the id is to be looked up.
THEOREM SessionsInvariance == Spec /\ []ContinuedApart => []SessionsInv
<1>1. SessionsInv /\ ContinuedApart /\ [Next]_vars => SessionsInv'
  <2> SUFFICES ASSUME SessionsInv, ContinuedApart, [Next]_vars
               PROVE  SessionsInv'
    OBVIOUS
  <2>1. CASE UNCHANGED vars
    BY <2>1, SessionsStutter DEF vars
  <2>2. CASE Next
    BY <2>2, StartNewStep, ContinueSessionStep, InvocationStartedStep, DerivePlanStep, RunTestStep,
       LeaveRunStep, OpenReportStep, WriteReportStep, HostKilledStep DEF Next
  <2> QED
    BY <2>1, <2>2
<1> QED
  BY SessionsInitially, <1>1, PTL DEF Spec

-----------------------------------------------------------------------------
(* What follows for continued sessions.                                    *)

\* An invocation that continues a session apart from the others writes its
\* report into the session whose id the user gave.
THEOREM ReportsGoWhereWanted == Spec /\ []ContinuedApart => []WritesToWanted
<1>1. SessionsInv => WritesToWanted
  BY DEF SessionsInv, DirInv, HasDir, WritesToWanted
<1> QED
  BY SessionsInvariance, <1>1, PTL

\* It runs no test that the session had executed or never held, if known
\* failures are left out.
THEOREM OnlyMissingTestsRun == KnownLeftOut /\ Spec /\ []ContinuedApart => []RunsOnlyMissing
<1> SUFFICES ASSUME KnownLeftOut PROVE Spec /\ []ContinuedApart => []RunsOnlyMissing
  OBVIOUS
<1>1. SessionsInv => RunsOnlyMissing
  BY DEF SessionsInv, OnlyMissingInv, RunsOnlyMissing
<1> QED
  BY SessionsInvariance, <1>1, PTL

\* No verdict of a whole report is changed by continuing its session.
THEOREM VerdictsAreKept == KnownLeftOut /\ Spec /\ []ContinuedApart => VerdictsKept
<1> SUFFICES ASSUME KnownLeftOut PROVE Spec /\ []ContinuedApart => VerdictsKept
  OBVIOUS
<1> DEFINE Kept == \A s \in AllSessions : \A t \in Tests :
                     content[s][t] \in Executed => content'[s][t] = content[s][t]
<1>1. SessionsInv /\ ContinuedApart /\ [Next]_vars => [Kept]_vars
  <2> SUFFICES ASSUME SessionsInv, ContinuedApart, Next PROVE Kept
    OBVIOUS
  <2>1. ASSUME NEW d \in Devices, WriteReport(d) PROVE Kept
    <3>1. content' = [content EXCEPT ![dir[d]] = results[d]] /\ dir[d] \in AllSessions
      BY <2>1, WritesResults
    <3>2. \A t \in Tests : content[dir[d]][t] \in Executed => results[d][t] = content[dir[d]][t]
      BY <2>1 DEF WriteReport, SessionsInv, ResultInv, HasDir
    <3> QED
      BY <3>1, <3>2 DEF SessionsInv, SessionsTypeOK
  <2>2. CASE content' = content
    BY <2>2
  <2> QED
    BY <2>1, <2>2 DEF Next, StartNew, ContinueSession, InvocationStarted, DerivePlan, RunTest,
                      LeaveRun, OpenReport, HostKilled, repo
<1> QED
  BY SessionsInvariance, <1>1, PTL DEF Spec, VerdictsKept

\* A continued invocation that was not cut short leaves a verdict for each test
\* that was missing, known failures aside.
THEOREM NothingIsLeftOver == Spec /\ []ContinuedApart => NoneLeftOver
<1> DEFINE Full ==
      \A d \in Devices :
        phase[d] = "writing" /\ phase'[d] = "idle" /\ written'[dir[d]] = "whole"
          /\ wanted[d] # 0 /\ todo[d] = {} =>
            \A t \in missing[d] \ KnownFailures : content'[wanted[d]][t] \in Executed
<1>1. SessionsInv /\ ContinuedApart /\ [Next]_vars => [Full]_vars
  <2> SUFFICES ASSUME SessionsInv, ContinuedApart, Next, NEW d \in Devices,
                      phase[d] = "writing", phase'[d] = "idle", written'[dir[d]] = "whole",
                      wanted[d] # 0, todo[d] = {}, NEW t \in missing[d] \ KnownFailures
               PROVE  content'[wanted[d]][t] \in Executed
    OBVIOUS
  <2>1. /\ dir[d] = wanted[d] /\ written[dir[d]] = "torn"
        /\ results[d][t] \in Executed
    BY DEF SessionsInv, DirInv, LeftInv, MissingInv, IsContinued, HasDir, HasPlan
  <2>2. ASSUME WriteReport(d) PROVE content'[wanted[d]][t] \in Executed
    <3>1. content' = [content EXCEPT ![dir[d]] = results[d]] /\ dir[d] \in AllSessions
      BY <2>2, WritesResults
    <3> QED
      BY <2>1, <3>1 DEF SessionsInv, SessionsTypeOK
  <2>3. ~HostKilled
    BY <2>1 DEF HostKilled, repo
  <2>4. PICK e \in Devices :
          \/ StartNew(e) \/ ContinueSession(e) \/ InvocationStarted(e) \/ DerivePlan(e)
          \/ (\E x \in Tests, failure \in BOOLEAN : RunTest(e, x, failure))
          \/ LeaveRun(e) \/ OpenReport(e) \/ WriteReport(e)
    BY <2>3 DEF Next
  <2>5. CASE e = d
    BY <2>2, <2>4, <2>5 DEF StartNew, ContinueSession, InvocationStarted, DerivePlan,
                            RunTest, LeaveRun, OpenReport
  <2>6. CASE e # d
    <3>1. phase'[d] = phase[d]
      BY <2>4, <2>6 DEF SessionsInv, SessionsTypeOK, StartNew, ContinueSession,
           InvocationStarted, DerivePlan, RunTest, LeaveRun, OpenReport, WriteReport
    <3> QED
      BY <3>1
  <2> QED
    BY <2>5, <2>6
<1> QED
  BY SessionsInvariance, <1>1, PTL DEF Spec, NoneLeftOver

-----------------------------------------------------------------------------
\* All devices support the same ABIs.
DevicesAlike == \A d, e \in ShardDevices : ListOn[d] = ListOn[e]

-----------------------------------------------------------------------------
(* Shards: arithmetic of the loop.                                         *)

\* Multiples grow with their factor.
LEMMA Multiples ==
  ASSUME NEW j \in Nat, NEW k \in Nat, NEW step \in Nat, j <= k
  PROVE  j * step <= k * step
<1>1. k * step - j * step = (k - j) * step
  OBVIOUS
<1>2. (k - j) * step >= 0
  OBVIOUS
<1> QED
  BY <1>1, <1>2

\* Two loops of one stride never meet if they start at different places below it.
LEMMA Apart ==
  ASSUME NEW step \in Nat, NEW s \in 0 .. step - 1, NEW r \in 0 .. step - 1,
         NEW j \in Nat, NEW k \in Nat, s + j * step = r + k * step
  PROVE  s = r
<1>1. ASSUME j < k PROVE FALSE
  <2>1. (j + 1) * step <= k * step
    BY <1>1, Multiples, j + 1 <= k
  <2>2. (j + 1) * step = j * step + step
    OBVIOUS
  <2> QED
    BY <2>1, <2>2
<1>2. ASSUME k < j PROVE FALSE
  <2>1. (k + 1) * step <= j * step
    BY <1>2, Multiples, k + 1 <= j
  <2>2. (k + 1) * step = k * step + step
    OBVIOUS
  <2> QED
    BY <2>1, <2>2
<1> QED
  BY <1>1, <1>2

\* The loops that start below the stride reach every place.
LEMMA Covered ==
  ASSUME NEW m \in Nat, NEW step \in Nat \ {0}
  PROVE  \E s \in 0 .. step - 1 : \E j \in Nat : m = s + j * step
<1>1. m % step \in 0 .. step - 1 /\ m \div step \in Nat
  OBVIOUS
<1>2. m = (m % step) + (m \div step) * step
  OBVIOUS
<1> QED
  BY <1>1, <1>2

-----------------------------------------------------------------------------
(* Shards: the inductive invariant.                                        *)

\* Only a shard that exists, with a list, has left the queue.
Started ==
  \A s \in AllShards :
    state[s] # "queued" \/ next[s] > 0 => s \in Shards /\ source[s] \in ShardDevices

\* A package that was run has a place in the loop of the shard that ran it.
RanIsMine ==
  \A x \in ranBy :
    /\ x[1] \in Shards
    /\ \E d \in ShardDevices : \E j \in Nat :
         /\ Place(x[1], j, Size(d)) < Size(d)
         /\ x[2] = ListOn[d][Place(x[1], j, Size(d)) + 1]

\* A shard has run what its loop went through.
GoneThrough ==
  \A s \in AllShards : \A j \in Nat :
    j < next[s] =>
      /\ Place(s, j, Size(source[s])) < Size(source[s])
      /\ <<s, ListOn[source[s]][Place(s, j, Size(source[s])) + 1]>> \in ranBy

DoneIsAll ==
  \A s \in AllShards : state[s] = "done" => ~HasNext(s, Size(source[s]))

ShardsInv == ShardTypeOK /\ Started /\ RanIsMine /\ GoneThrough /\ DoneIsAll

USE ShardAssumption DEF ShardAssumption

\* Sizes and places are numbers, and a place below the size names a package.
LEMMA Places ==
  ASSUME ShardTypeOK, NEW d \in ShardDevices, NEW s \in AllShards, NEW j \in Nat
  PROVE  /\ Size(d) \in Nat
         /\ Step(Size(d)) \in Nat
         /\ Place(s, j, Size(d)) \in Nat
         /\ Place(s, j, Size(d)) < Size(d) =>
              ListOn[d][Place(s, j, Size(d)) + 1] \in Packages
<1>1. Size(d) \in Nat /\ total \in Nat /\ s \in Nat
  BY DEF Size, ShardTypeOK, AllShards
<1>2. Step(Size(d)) \in Nat
  BY <1>1 DEF Step
<1>3. j * Step(Size(d)) \in Nat
  BY <1>2
<1>4. Place(s, j, Size(d)) \in Nat
  BY <1>1, <1>3 DEF Place
<1>5. Place(s, j, Size(d)) < Size(d) => ListOn[d][Place(s, j, Size(d)) + 1] \in Packages
  BY <1>1, <1>4 DEF Size, Packages
<1> QED
  BY <1>1, <1>2, <1>4, <1>5

\* Before the split nothing has been run.
LEMMA ShardsInitially == ShardInit => ShardsInv
  BY DEF ShardInit, ShardsInv, ShardTypeOK, Started, RanIsMine, GoneThrough, DoneIsAll, AllShards

\* The shards that split makes are all in the queue.
LEMMA SplitStep ==
  ASSUME ShardsInv, Split
  PROVE  ShardsInv'
<1>1. ShardTypeOK'
  BY DEF ShardsInv, ShardTypeOK, Split
<1>2. Shards = {}
  BY DEF Split, Shards
<1>3. ranBy = {} /\ \A s \in AllShards : state[s] = "queued" /\ ~(next[s] > 0)
  BY <1>2 DEF ShardsInv, Started, RanIsMine
<1>4. ranBy' = {} /\ \A s \in AllShards : state'[s] = "queued" /\ ~(next'[s] > 0)
  BY <1>3 DEF Split
<1>5. \A s \in AllShards : next'[s] \in Nat
  BY <1>1 DEF ShardTypeOK
<1>6. Started' /\ RanIsMine' /\ GoneThrough' /\ DoneIsAll'
  BY <1>4, <1>5 DEF Started, RanIsMine, GoneThrough, DoneIsAll
<1> QED
  BY <1>1, <1>6 DEF ShardsInv

\* A shard that has gone through a package keeps its list.
LEMMA SetUpStep ==
  ASSUME ShardsInv, NEW r \in AllShards, NEW d \in ShardDevices, SetUp(r, d)
  PROVE  ShardsInv'
<1> USE DEF ShardsInv
<1>1. ShardTypeOK'
  BY DEF ShardTypeOK, SetUp
<1>2. total' = total /\ next' = next /\ ranBy' = ranBy /\ Shards' = Shards
  BY DEF SetUp, Shards
<1>3. source'[r] \in ShardDevices /\ \A s \in AllShards \ {r} : source'[s] = source[s]
  BY DEF ShardTypeOK, SetUp
<1>4. ASSUME next[r] > 0 PROVE source'[r] = source[r]
  <2>1. next[r] \in Nat /\ source[r] \in ShardDevices /\ r \in Nat
    BY <1>4 DEF ShardTypeOK, Started, AllShards
  <2>2. Place(r, 0, Size(source[r])) < Size(source[r])
    BY <1>4, <2>1 DEF GoneThrough
  <2>3. Place(r, 0, Size(source[r])) = r
    <3>1. Step(Size(source[r])) \in Nat
      BY <2>1, Places
    <3>2. 0 * Step(Size(source[r])) = 0
      BY <3>1
    <3> QED
      BY <2>1, <3>2 DEF Place
  <2>4. source[r] # None /\ r < Size(source[r])
    BY <2>1, <2>2, <2>3
  <2> QED
    BY <2>4 DEF SetUp
<1>5. \A s \in AllShards \ {r} : state'[s] = state[s]
  BY DEF SetUp, ShardTypeOK
<1>6. state'[r] = "running" /\ r \in Shards
  BY DEF SetUp, ShardTypeOK
<1>7. Started'
  BY <1>2, <1>3, <1>5, <1>6 DEF Started
<1>8. RanIsMine'
  BY <1>2 DEF RanIsMine, Place, Step, Size
<1>9. GoneThrough'
  <2> SUFFICES ASSUME NEW s \in AllShards, NEW j \in Nat, j < next[s]
               PROVE /\ Place(s, j, Size(source'[s])) < Size(source'[s])
                     /\ <<s, ListOn[source'[s]][Place(s, j, Size(source'[s])) + 1]>> \in ranBy
    BY <1>2 DEF GoneThrough, Place, Step, Size
  <2>1. next[s] \in Nat /\ next[s] > 0
    BY DEF ShardTypeOK
  <2>2. source'[s] = source[s]
    BY <2>1, <1>3, <1>4
  <2> QED
    BY <2>2 DEF GoneThrough
<1>10. DoneIsAll'
  BY <1>2, <1>3, <1>5, <1>6 DEF DoneIsAll, HasNext, Place, Step, Size
<1> QED
  BY <1>1, <1>7, <1>8, <1>9, <1>10

\* A package that is run is the next place in its shard's loop.
LEMMA RunPackageStep ==
  ASSUME ShardsInv, NEW r \in AllShards, RunPackage(r)
  PROVE  ShardsInv'
<1> USE DEF ShardsInv
<1> DEFINE d == source[r]
           n == next[r]
<1>1. r \in Shards /\ d \in ShardDevices /\ n \in Nat
  BY DEF ShardTypeOK, RunPackage, Started
<1>2. Place(r, n, Size(d)) < Size(d)
  BY DEF RunPackage, HasNext
<1>3. ListOn[d][Place(r, n, Size(d)) + 1] \in Packages
  BY <1>1, <1>2, Places
<1>4. /\ total' = total /\ state' = state /\ source' = source
      /\ ranBy' = ranBy \cup {<<r, ListOn[d][Place(r, n, Size(d)) + 1]>>}
      /\ next' = [next EXCEPT ![r] = n + 1]
      /\ Shards' = Shards
  BY DEF RunPackage, Shards
<1>5. ShardTypeOK'
  BY <1>1, <1>3, <1>4 DEF ShardTypeOK
<1>6. \A s \in AllShards : next'[s] = IF s = r THEN n + 1 ELSE next[s]
  BY <1>4 DEF ShardTypeOK
<1>7. Started'
  BY <1>1, <1>4, <1>6 DEF Started
<1>8. RanIsMine'
  <2> SUFFICES ASSUME NEW x \in ranBy'
               PROVE /\ x[1] \in Shards
                     /\ \E e \in ShardDevices : \E j \in Nat :
                          /\ Place(x[1], j, Size(e)) < Size(e)
                          /\ x[2] = ListOn[e][Place(x[1], j, Size(e)) + 1]
    BY <1>4 DEF RanIsMine, Place, Step, Size
  <2>1. CASE x \in ranBy
    BY <2>1 DEF RanIsMine
  <2>2. CASE x = <<r, ListOn[d][Place(r, n, Size(d)) + 1]>>
    BY <2>2, <1>1, <1>2
  <2> QED
    BY <2>1, <2>2, <1>4
<1>9. GoneThrough'
  <2> SUFFICES ASSUME NEW s \in AllShards, NEW j \in Nat, j < next'[s]
               PROVE /\ Place(s, j, Size(source[s])) < Size(source[s])
                     /\ <<s, ListOn[source[s]][Place(s, j, Size(source[s])) + 1]>> \in ranBy'
    BY <1>4 DEF GoneThrough, Place, Step, Size
  <2>1. CASE j < next[s]
    BY <2>1, <1>4 DEF GoneThrough
  <2>2. CASE ~(j < next[s])
    <3>1. s = r /\ j = n
      BY <2>2, <1>6, <1>1
    <3> QED
      BY <3>1, <1>2, <1>4
  <2> QED
    BY <2>1, <2>2
<1>10. DoneIsAll'
  <2>1. state[r] = "running"
    BY DEF RunPackage
  <2> QED
    BY <2>1, <1>4, <1>6 DEF DoneIsAll, HasNext, Place, Step, Size
<1> QED
  BY <1>5, <1>7, <1>8, <1>9, <1>10

\* A shard that is done has gone through its loop.
LEMMA ShardDoneStep ==
  ASSUME ShardsInv, NEW r \in AllShards, ShardDone(r)
  PROVE  ShardsInv'
<1> USE DEF ShardsInv
<1>1. /\ total' = total /\ source' = source /\ next' = next /\ ranBy' = ranBy
      /\ Shards' = Shards
  BY DEF ShardDone, Shards
<1>2. ShardTypeOK'
  BY DEF ShardTypeOK, ShardDone
<1>3. \A s \in AllShards : state'[s] = IF s = r THEN "done" ELSE state[s]
  BY DEF ShardDone, ShardTypeOK
<1>4. Started'
  BY <1>1, <1>3 DEF Started, ShardDone
<1>5. RanIsMine' /\ GoneThrough'
  BY <1>1 DEF RanIsMine, GoneThrough, Place, Step, Size
<1>6. DoneIsAll'
  BY <1>1, <1>3 DEF DoneIsAll, ShardDone, HasNext, Place, Step, Size
<1> QED
  BY <1>2, <1>4, <1>5, <1>6

\* A lost shard goes back by one package at most.
LEMMA DeviceLostStep ==
  ASSUME ShardsInv, NEW r \in AllShards, DeviceLost(r)
  PROVE  ShardsInv'
<1> USE DEF ShardsInv
<1>1. /\ total' = total /\ source' = source /\ ranBy' = ranBy
      /\ Shards' = Shards
  BY DEF DeviceLost, Shards
<1>2. ShardTypeOK'
  BY DEF ShardTypeOK, DeviceLost
<1>3. \A s \in AllShards : state'[s] = IF s = r THEN "queued" ELSE state[s]
  BY DEF DeviceLost, ShardTypeOK
<1>4. \A s \in AllShards : next'[s] \in Nat /\ next[s] \in Nat /\ next'[s] <= next[s]
  BY DEF DeviceLost, ShardTypeOK
<1>5. Started'
  BY <1>1, <1>3, <1>4 DEF Started
<1>6. RanIsMine'
  BY <1>1 DEF RanIsMine, Place, Step, Size
<1>7. GoneThrough'
  <2>1. \A s \in AllShards : \A j \in Nat : j < next'[s] => j < next[s]
    BY <1>4
  <2> QED
    BY <1>1, <2>1 DEF GoneThrough, Place, Step, Size
<1>8. DoneIsAll'
  <2> SUFFICES ASSUME NEW s \in AllShards, state'[s] = "done"
               PROVE  ~HasNext(s, Size(source[s]))'
    BY <1>1 DEF DoneIsAll, Size
  <2>1. s # r /\ state[s] = "done"
    BY <1>3
  <2>2. next'[s] = next[s]
    BY <2>1 DEF DeviceLost, ShardTypeOK
  <2> QED
    BY <2>1, <2>2, <1>1 DEF DoneIsAll, HasNext, Place, Step, Size
<1> QED
  BY <1>2, <1>5, <1>6, <1>7, <1>8

\* The strengthened invariant holds of every behaviour.
THEOREM ShardsInvariance == ShardSpec => []ShardsInv
<1>1. ShardsInv /\ [ShardNext]_shardVars => ShardsInv'
  <2> SUFFICES ASSUME ShardsInv, [ShardNext]_shardVars PROVE ShardsInv'
    OBVIOUS
  <2>1. CASE UNCHANGED shardVars
    BY <2>1 DEF shardVars, ShardsInv, ShardTypeOK, Started, RanIsMine, GoneThrough, DoneIsAll,
                HasNext, Place, Step, Shards, Size
  <2>2. CASE ShardNext
    BY <2>2, SplitStep, SetUpStep, RunPackageStep, ShardDoneStep, DeviceLostStep DEF ShardNext
  <2> QED
    BY <2>1, <2>2
<1> QED
  BY ShardsInitially, <1>1, PTL DEF ShardSpec

-----------------------------------------------------------------------------
(* Shards: what follows for devices of the same ABIs.                      *)

\* A shard with a package in the list is one of the first, as many as the stride.
LEMMA StrideCap ==
  ASSUME ShardTypeOK, NEW d \in ShardDevices, NEW s \in AllShards, NEW j \in Nat,
         s \in Shards, Place(s, j, Size(d)) < Size(d)
  PROVE  s \in 0 .. Step(Size(d)) - 1
<1>1. Size(d) \in Nat /\ Step(Size(d)) \in Nat /\ total \in Nat /\ s \in Nat
  BY Places DEF ShardTypeOK, AllShards
<1>2. j * Step(Size(d)) \in Nat
  BY <1>1
<1>3. s < Size(d)
  BY <1>1, <1>2 DEF Place
<1>4. s < total
  BY <1>1 DEF Shards
<1> QED
  BY <1>1, <1>3, <1>4 DEF Step

\* Alike devices: a package is in the loop of one shard only.
LEMMA OneShard == DevicesAlike /\ ShardsInv => NoneTwice
<1> SUFFICES ASSUME DevicesAlike, ShardsInv, NEW x \in ranBy, NEW y \in ranBy, x[2] = y[2]
             PROVE  x[1] = y[1]
  BY DEF NoneTwice
<1> USE DEF ShardsInv
<1>1. x[1] \in AllShards /\ y[1] \in AllShards /\ x[1] \in Shards /\ y[1] \in Shards
  BY DEF ShardTypeOK, RanIsMine
<1>2. PICK d \in ShardDevices, j \in Nat :
        /\ Place(x[1], j, Size(d)) < Size(d)
        /\ x[2] = ListOn[d][Place(x[1], j, Size(d)) + 1]
  BY DEF RanIsMine
<1>3. PICK e \in ShardDevices, k \in Nat :
        /\ Place(y[1], k, Size(e)) < Size(e)
        /\ y[2] = ListOn[e][Place(y[1], k, Size(e)) + 1]
  BY DEF RanIsMine
<1>4. ListOn[e] = ListOn[d] /\ Size(e) = Size(d)
  BY DEF DevicesAlike, Size
<1>5. Place(x[1], j, Size(d)) \in Nat /\ Place(y[1], k, Size(d)) \in Nat /\ Size(d) \in Nat
  BY <1>1, Places
<1>6. Place(x[1], j, Size(d)) = Place(y[1], k, Size(d))
  <2>1. /\ Place(x[1], j, Size(d)) + 1 \in 1 .. Len(ListOn[d])
        /\ Place(y[1], k, Size(d)) + 1 \in 1 .. Len(ListOn[d])
    BY <1>2, <1>3, <1>4, <1>5 DEF Size
  <2>2. ListOn[d][Place(x[1], j, Size(d)) + 1] = ListOn[d][Place(y[1], k, Size(d)) + 1]
    BY <1>2, <1>3, <1>4
  <2>3. Place(x[1], j, Size(d)) + 1 = Place(y[1], k, Size(d)) + 1
    BY <2>1, <2>2
  <2> QED
    BY <2>3, <1>5
<1>7. x[1] \in 0 .. Step(Size(d)) - 1 /\ y[1] \in 0 .. Step(Size(d)) - 1
  BY <1>1, <1>2, <1>3, <1>4, StrideCap
<1>8. Step(Size(d)) \in Nat
  BY <1>1, Places
<1>9. x[1] + j * Step(Size(d)) = y[1] + k * Step(Size(d))
  BY <1>6 DEF Place
<1> QED
  BY <1>7, <1>8, <1>9, Apart

\* Alike devices: every package is in the loop of some shard.
LEMMA AllRun == DevicesAlike /\ ShardsInv => NoneMissed
<1> SUFFICES ASSUME DevicesAlike, ShardsInv, total > 0,
                    \A s \in Shards : state[s] = "done", NEW x \in Packages
             PROVE  \E s \in Shards : <<s, x>> \in ranBy
  BY DEF NoneMissed
<1> USE DEF ShardsInv
<1>1. PICK d \in ShardDevices : \E m \in 1 .. Len(ListOn[d]) : x = ListOn[d][m]
  BY DEF Packages
<1>a. PICK m \in 1 .. Len(ListOn[d]) : x = ListOn[d][m]
  BY <1>1
<1>2. Size(d) \in Nat /\ m - 1 \in Nat /\ m - 1 < Size(d) /\ total \in Nat \ {0}
  BY <1>1 DEF Size, ShardTypeOK
<1>3. Step(Size(d)) \in Nat \ {0} /\ Step(Size(d)) <= total
  BY <1>2 DEF Step
<1>4. PICK s \in 0 .. Step(Size(d)) - 1, j \in Nat : m - 1 = s + j * Step(Size(d))
  BY <1>2, <1>3, Covered
<1>5. s \in Shards /\ s \in AllShards
  BY <1>2, <1>3 DEF Shards, AllShards, ShardTypeOK
<1>6. source[s] \in ShardDevices /\ next[s] \in Nat /\ ~HasNext(s, Size(source[s]))
  BY <1>5 DEF Started, ShardTypeOK, DoneIsAll
<1>7. ListOn[source[s]] = ListOn[d] /\ Size(source[s]) = Size(d)
  BY <1>6 DEF DevicesAlike, Size
<1>8. j < next[s]
  <2> SUFFICES ASSUME next[s] <= j PROVE FALSE
    BY <1>6
  <2>1. next[s] * Step(Size(d)) <= j * Step(Size(d))
    BY <1>3, <1>6, Multiples
  <2>2. s + next[s] * Step(Size(d)) >= Size(d)
    <3>1. s + next[s] * Step(Size(d)) \in Nat
      <4>1. next[s] * Step(Size(d)) \in Nat
        BY <1>3, <1>6
      <4> QED
        BY <4>1, <1>4
    <3> QED
      BY <3>1, <1>2, <1>6, <1>7 DEF HasNext, Place
  <2>3. j * Step(Size(d)) \in Nat /\ next[s] * Step(Size(d)) \in Nat
    BY <1>3, <1>6
  <2> QED
    BY <2>1, <2>2, <2>3, <1>2, <1>4
<1>9. <<s, ListOn[d][Place(s, j, Size(d)) + 1]>> \in ranBy
  BY <1>5, <1>7, <1>8 DEF GoneThrough
<1>10. Place(s, j, Size(d)) + 1 = m
  BY <1>4 DEF Place
<1> QED
  BY <1>a, <1>5, <1>9, <1>10

\* However many shards are asked for, no package is run by two of them.
THEOREM ShardsAreDisjoint == DevicesAlike /\ ShardSpec => []NoneTwice
<1> SUFFICES ASSUME DevicesAlike PROVE ShardSpec => []NoneTwice
  OBVIOUS
<1>1. ShardsInv => NoneTwice
  BY OneShard
<1> QED
  BY ShardsInvariance, <1>1, PTL

\* However many shards are asked for, together they run every package.
THEOREM ShardsCover == DevicesAlike /\ ShardSpec => []NoneMissed
<1> SUFFICES ASSUME DevicesAlike PROVE ShardSpec => []NoneMissed
  OBVIOUS
<1>1. ShardsInv => NoneMissed
  BY AllRun
<1> QED
  BY ShardsInvariance, <1>1, PTL
=============================================================================
