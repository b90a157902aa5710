SPECIFICATION MCSpec
CONSTANTS
  Host = {h1, h2}
  Instance = {i1, i2}
  None = None
  r1 = r1
  n2 = n2
  Router = {r1, r2}
  Network = {n1, n2}
  Attached <- MCAttached
  MAX_PRIORITY = 32767
  MaxVersion = 3
  MaxImage = 4
SYMMETRY Symmetry
INVARIANTS
  TypesOK
  RecordedWishKept
  DrainedStaysEmpty
  BatchIsClosed
  MaterialNeverLost
  ConfigFits
  ChosenIsFile
  GatewaysLead
