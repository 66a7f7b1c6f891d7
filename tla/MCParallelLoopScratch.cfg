CONSTANTS
  MaxInt = 31
  WorkThreshold = 24
  BodyThreshold = 10
  ScratchLimit = 6
  Programs <- ScratchBoundPrograms
SPECIFICATION FairSpec
INVARIANTS
  SameAsSequential
