CONSTANTS
  r1 = r1
  r2 = r2
  a = a
  b = b
  Runner <- OneRunner
  Mig <- TwoMigs
  Baseline <- NoMigs
  Content <- OneContent
  Limits <- StepAndAll
  Commands <- UpAndMark
  IgnoreMissingSource = FALSE
  IgnoreChecksumDrift = FALSE
  PerfSchema = TRUE
  SqlMayReleaseLock = FALSE
  InspectionIsCurrent = TRUE
  Editable <- NoMigs
  MaxId = 3
  MaxBatch = 3
SPECIFICATION Spec
INVARIANTS
  CrashLeavesDirty
