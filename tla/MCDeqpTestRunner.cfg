SPECIFICATION FairSpec
CONSTANTS
  Tests = {t1, t2, t3}
  BatchLimit = 1
  MaxRuns = 2
  CollectLogs = TRUE
  NoTest = NoTest
  Garbled = Garbled
INVARIANTS PassedOnDevice FailureKept NothingLost LogsBelong IInv
PROPERTIES KeepsContract RunEnds
