CONSTANTS
  MaxInt = 7
  Threshold = 5
  MaxCost = 2
  Clobbers = {"for"}
  Ranges <- AllRanges
  Prefix <- MCPrefix
SPECIFICATION FairSpec
INVARIANTS
  TypeOK
  ExactlyOnce
  FrameOutlivesThread
  ReductionExact
  NearEmptyDirect
PROPERTIES
  ImplementsContract
  CallReturns
