CONSTANTS
  MaxInt = 127
  MaxBlocks = 80
  Programs <- MCPrograms
  Garbled <- GarbledPrograms
  Inputs <- MCInputs
SPECIFICATION Spec
INVARIANTS
  ParsedAsWritten
  CheckerExact
  StagesInForm
  CompiledMeansSource
