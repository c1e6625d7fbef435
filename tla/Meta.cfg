CONSTANTS
  r1 = r1
  r2 = r2
  s1 = s1
  s2 = s2
  Free = Free
  NoRow = NoRow
  NoTable = NoTable
  NoScope = NoScope
  Scope <- TwoScopes
  Runner <- TwoRunners
  Mig <- OneMig
  Commands <- All
  Legacy <- LastScope
  MayDie <- LastScope
  PreviewMayLose = TRUE
  MaxBatch = 2
  OldBatches <- ImportedOrLast
SYMMETRY RunnerSymmetry
SPECIFICATION Spec
INVARIANTS
  TypeOK
  BootstrapDelivers
  NextBatchIsFree
  NoCircularWait
  ControlRowMeansV1
PROPERTIES
  NextBatchNeverFalls
  HistoryIsKept
