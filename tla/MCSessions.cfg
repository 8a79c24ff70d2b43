SPECIFICATION Spec
CONSTANTS
  t1 = t1
  t2 = t2
  k = k
  Devices = {"one"}
  Tests <- WithKnown
  KnownFailures = {k}
  ContinueKnown = {FALSE}
  MaxSessions = 2
INVARIANTS RunsOnlyMissing WritesToWanted
PROPERTIES VerdictsKept NoneLeftOver
CHECK_DEADLOCK FALSE
