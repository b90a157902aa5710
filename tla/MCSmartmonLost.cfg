SPECIFICATION Spec
CONSTANTS
  NumDisks = 2
  Snapshots <- LostSnapshots
  MaxRuns = 1
  MaxOverlap = 1
INVARIANTS
  CounterNotLost
