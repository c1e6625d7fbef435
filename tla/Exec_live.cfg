CONSTANTS
  r1 = r1
  r2 = r2
  a = a
  b = b
  Runner <- TwoRunners
  Mig <- TwoMigs
  Baseline <- NoMigs
  Content <- OneContent
  Limits <- All
  Commands <- UpDown
  IgnoreMissingSource = FALSE
  IgnoreChecksumDrift = FALSE
  PerfSchema = FALSE
  SqlMayReleaseLock = TRUE
  InspectionIsCurrent = FALSE
  Editable <- NoMigs
  MaxId = 3
  MaxBatch = 3
SPECIFICATION FairSpec
INVARIANTS
  OneInFlight
  ReturnedIsUnlocked
PROPERTIES
  HolderWritesClean
  CommandsReturn
