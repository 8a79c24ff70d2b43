------------------------------ MODULE TestRun ------------------------------
(***************************************************************************)
(* What a test runner (IRemoteTest.run) owes its ITestInvocationListener:  *)
(* every test is started at most once, one test at a time, and is given    *)
(* exactly one verdict, which never changes.  A test that was running when *)
(* the device was lost may stay without a verdict.                         *)
(***************************************************************************)
CONSTANT Tests

VARIABLES phase,   \* the life of each test as the listener sees it
          cut      \* a run has been cut short by the loss of the device

vars == <<phase, cut>>

Phases == {"pending", "running", "lost", "passed", "failed"}

Init == phase = [t \in Tests |-> "pending"] /\ cut = FALSE

Running == {t \in Tests : phase[t] = "running"}

\* A test starts; one that a lost device left running is given up.
Start(t) ==
  /\ phase[t] = "pending"
  /\ Running = {} \/ cut
  /\ phase' = [u \in Tests |-> IF u = t THEN "running"
                               ELSE IF phase[u] = "running" THEN "lost"
                               ELSE phase[u]]
  /\ UNCHANGED cut

\* The host starts a test whose name it cannot make out; only the test that a
\* lost device left running is affected.
GiveUp ==
  /\ cut
  /\ phase' = [u \in Tests |-> IF phase[u] = "running" THEN "lost" ELSE phase[u]]
  /\ UNCHANGED cut

Finish(t) ==
  /\ phase[t] = "running"
  /\ \E verdict \in {"passed", "failed"} : phase' = [phase EXCEPT ![t] = verdict]
  /\ UNCHANGED cut

\* A test the device does not support is passed without being run.
Skip(t) ==
  /\ phase[t] = "pending"
  /\ phase' = [phase EXCEPT ![t] = "passed"]
  /\ UNCHANGED cut

Cut == cut' = TRUE /\ UNCHANGED phase

Next == (\E t \in Tests : Start(t) \/ Finish(t) \/ Skip(t)) \/ GiveUp \/ Cut

Spec == Init /\ [][Next]_vars
=============================================================================
