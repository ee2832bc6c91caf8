CONSTANTS
  r1 = r1
  r2 = r2
  r3 = r3
  Runs = {r1, r2, r3}
  Inputs <- MCInputs
  MaxFaults = 2
SPECIFICATION Spec
SYMMETRY MCSymmetry
INVARIANTS
  TypeOK
  SuccessMeansStored
  OverlapIsNoFailure
  ReportsAsConfigured
  PodsCanStart
  OneOffLeavesBackupAlone
  EveryIsEven
  OncePerPeriod
  MigrationKeepsCadence
PROPERTIES
  NothingLostToFailure
\* The system may stop: every run has ended.
CHECK_DEADLOCK FALSE
