CONSTANTS
  MaxInt = 7
  RunLength = 9
  Residents = {19, 20}
  PhiRegisters = {12}
  HalfWord = 4
  MaxInlineBody = 3
  MaxTrips = 3
  MaxBody = 3
  MaxExpanded = 6
  MaxNewTemps = 5
  Callees <- MCCallees
  Functions <- MCFunctions
  Inputs <- MCInputs
SPECIFICATION MiddleSpec
INVARIANTS
  MiddleTypeOK
  VerifierAccepts
  EveryPhiMatters
  ValuesCover
  PassesPreserve
  PassesKeepSsa
  NothingLeftOver
  EmissionImplements
PROPERTIES
  ValuesRise
