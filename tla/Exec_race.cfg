CONSTANTS
  r1 = r1
  r2 = r2
  a = a
  b = b
  Runner <- TwoRunners
  Mig <- TwoMigs
  Baseline <- NoMigs
  Content <- OneContent
  Limits <- All
  Commands <- UpAndRepair
  IgnoreMissingSource = FALSE
  IgnoreChecksumDrift = FALSE
  PerfSchema = TRUE
  SqlMayReleaseLock = FALSE
  InspectionIsCurrent = TRUE
  Editable <- NoMigs
  MaxId = 3
  MaxBatch = 3
SYMMETRY RunnerSymmetry
SPECIFICATION Spec
INVARIANTS
  TypeOK
  SingleWriter
  OneInFlight
  IntentBeforeSql
  CleanRowsAreTrue
  BatchOrder
PROPERTIES
  DirtyBlocksOthers
  LedgerSpec
