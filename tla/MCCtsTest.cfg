SPECIFICATION Spec
CONSTANTS
  t1 = t1
  t2 = t2
  N = 3
  Tests <- MCTests
  Expected <- MCExpected
  Trims = {1, 3}
  RunsAsId = {1, 3}
  PerfTests = {t1}
  AssumptionTests = {t1, t2}
  MaxResumes = 2
INVARIANTS IInv ReportIsComplete ReportIsTruthful ResumePoint
PROPERTIES NoRerunOfBegun KeepsReport
CHECK_DEADLOCK FALSE
