CONSTANTS
  MaxInt = 7
  Threshold = 5
  MaxCost = 2
  Clobbers = {"reduce"}
  Ranges <- AllRanges
  Prefix <- MCPrefix
SPECIFICATION FairSpec
INVARIANTS
  ReductionExact
