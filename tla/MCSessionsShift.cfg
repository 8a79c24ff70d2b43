SPECIFICATION Spec
CONSTANTS
  t1 = t1
  t2 = t2
  k = k
  Devices = {"one", "two"}
  Tests <- TwoTests
  KnownFailures = {}
  ContinueKnown = {FALSE}
  MaxSessions = 2
INVARIANT WritesToWanted
CHECK_DEADLOCK FALSE
