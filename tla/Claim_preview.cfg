CONSTANTS
  r1 = r1
  r2 = r2
  s1 = s1
  s2 = s2
  Free = Free
  NoRow = NoRow
  NoTable = NoTable
  NoScope = NoScope
  Scope <- OneScope
  Runner <- OneRunner
  Mig <- TwoMigs
  Commands <- Previews
  Legacy <- NoScopes
  MayDie <- NoScopes
  PreviewMayLose = FALSE
  MaxBatch = 2
  OldBatches <- ImportedOrLast
SPECIFICATION Spec
INVARIANTS
  NobodyWaitsForItself
