SPECIFICATION Spec
CONSTANTS
  Invocations = {"first", "second"}
  Devices = {one, two}
  None = none
  PackagesOf <- TwoInvocations
  SlowTests = {"h"}
  MaxFaults = 1
SYMMETRY Symmetry
INVARIANT ReportOfItsTest
PROPERTY ReportArrives
CHECK_DEADLOCK FALSE
