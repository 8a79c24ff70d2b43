SPECIFICATION Spec
CONSTANTS
  Tests = {t1, t2, t3}
  Kinds = {"native", "wrapped"}
  MaxRuns = 2
  NoTest = NoTest
  Unknown = Unknown
SYMMETRY TestSymmetry
INVARIANTS NothingHidden FailedForCause TraceIsOwn
PROPERTY PassedOnDevice
CHECK_DEADLOCK FALSE
