SPECIFICATION Spec
CONSTANTS
  Tests = {t1, t2}
  Kinds = {"native"}
  MaxRuns = 1
  NoTest = NoTest
  Unknown = Unknown
INVARIANT CrashedTestFails
CHECK_DEADLOCK FALSE
