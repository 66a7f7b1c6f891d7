CONSTANTS
  Entry = 1
  Labels <- MCLabels
  Blocks <- MCBlocks
  Graphs <- MCGraphs
SPECIFICATION FairSpec
INVARIANTS
  TypeOK
  LeastClosed
  DominatorsExact
  FrontiersExact
PROPERTIES
  Converges
