SPECIFICATION FairSpec
CONSTANTS
  NumImages = 3
  MatchSets <- MCMatchSets
  Parallelisms = {1, 2, 3}
  MaxUpstream = 1
INVARIANTS
  TypeOK
  ParallelismRespected
  BestEffortStop
  ListsComplete
PROPERTIES
  DbStableDuringScans
  Terminates
  ImplementsContract
