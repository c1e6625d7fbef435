CONSTANTS
  i1 = i1
  i2 = i2
  a = a
  b = b
  Missing = Missing
  Importer <- TwoImporters
  Stem <- FourStems
  Digits <- TheirDigits
  Desc <- TheirDescs
  Malformed <- NoStems
  MaxVersion <- Four
  Content <- TwoContents
  Dirs <- SomeDirs
  SrcVersions <- OneTwo
SYMMETRY ImporterSymmetry
SPECIFICATION Spec
INVARIANTS
  TypeOK
PROPERTIES
  ImportsCleanSource
  SameImportIsAccepted
  SuccessIsExact
