SPECIFICATION FairSpec
CONSTANTS
  BenchmarksOf <- TwoSuites
  NumberRepeat = 2
INVARIANTS IInv ResultsComplete
PROPERTIES ExpiresBeforeStop TestEnds KeepsReports
CHECK_DEADLOCK FALSE
