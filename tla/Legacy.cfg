CONSTANTS
  p1 = p1
  p2 = p2
  Process <- TwoProcesses
  Timed <- Timestamps
  Numbered <- Numbers
  Commands <- AllCommands
  Limits <- All
  Dirs <- SomeDirs
  MaxBatch = 2
  MaySpoil <- FirstNumber
SYMMETRY ProcessSymmetry
SPECIFICATION Spec
INVARIANTS
  TypeOK
  RowsTellTheTruth
PROPERTIES
  BatchIsOneCall
  RollbackIsLifo
  SuccessIsComplete
