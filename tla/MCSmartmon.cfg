SPECIFICATION Spec
CONSTANTS
  NumDisks = 2
  Snapshots <- MCSnapshots
  MaxRuns = 3
  MaxOverlap = 2
INVARIANTS
  TypeOK
  PublishedIsWhole
  AlertsAreRight
  MetricOnce
PROPERTIES
  PublishesNothingStale
