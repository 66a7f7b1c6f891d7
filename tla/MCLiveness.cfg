CONSTANTS
  t = t
  NumBlocks = 3
  Temps = {t}
  Programs <- MCPrograms
SPECIFICATION FairSpec
INVARIANTS
  TypeOK
  StopsAtSolution
  BelowSolutions
  LivenessExact
PROPERTIES
  Converges
