SPECIFICATION FairSpec
CONSTANTS
  TestsOf <- TwoPackages
  Unloadable = {"u"}
  AbiOf <- TwoAbis
  PerfTests = {"a", "b"}
INVARIANTS OwnVerdict TimeoutFails
PROPERTIES DeviceLossStops RunEnds
CHECK_DEADLOCK FALSE
