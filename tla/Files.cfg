CONSTANTS
  c1 = c1
  c2 = c2
  s1 = s1
  s2 = s2
  x = x
  y = y
  NoName = NoName
  Creator <- TwoCreators
  Second <- TwoSeconds
  Name <- TwoNames
  Base <- ThreeBases
SYMMETRY CreatorSymmetry
SPECIFICATION Spec
INVARIANTS
  TypeOK
  NeverUpOnly
  OneNameASecond
  CreatedPairsStay
  ScanMeetsPairs
