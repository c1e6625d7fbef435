CONSTANTS
  r1 = r1
  r2 = r2
  a = a
  b = b
  Runner <- OneRunner
  Mig <- ThreeMigs
  Baseline <- BaselineOne
  Content <- TwoContents
  Limits <- StepAndAll
  Commands <- PlansAndRemovals
  IgnoreMissingSource = TRUE
  IgnoreChecksumDrift = FALSE
  PerfSchema = FALSE
  SqlMayReleaseLock = FALSE
  InspectionIsCurrent = TRUE
  Editable <- OneLate
  MaxId = 3
  MaxBatch = 3
SYMMETRY ContentSymmetry
SPECIFICATION Spec
INVARIANTS
  CleanRowsAreTrue
  RollbackIsLifo
  RollbackRunsRecordedSql
  DriftBlocksSql
  BaselinesStay
PROPERTIES
  LedgerSpec
