CONSTANTS
  Functions <- MCFunctions
  Names <- MCNames
  Programs <- MCPrograms
SPECIFICATION FairSpec
INVARIANTS
  TypeOK
  ClosedSetsStayPure
  NothingImpureReached
  PureTouchesNothing
PROPERTIES
  SweepsEnd
