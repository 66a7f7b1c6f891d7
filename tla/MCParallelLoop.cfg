CONSTANTS
  MaxInt = 31
  WorkThreshold = 24
  BodyThreshold = 10
  ScratchLimit = 6
  Programs <- LegalPrograms
SPECIFICATION FairSpec
INVARIANTS
  TypeOK
  SameAsSequential
  NoDataRace
  NamesBound
PROPERTIES
  RangeCompletes
