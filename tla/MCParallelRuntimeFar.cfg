CONSTANTS
  MaxInt = 7
  Threshold = 5
  MaxCost = 2
  Clobbers = {"for"}
  Ranges <- AllRanges
  Prefix <- MCPrefix
SPECIFICATION FairSpec
INVARIANTS
  EmptyRangesDirect
