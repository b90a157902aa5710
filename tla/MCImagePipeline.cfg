SPECIFICATION FairSpec
CONSTANTS
  Job = {"amd64", "aarch64"}
  Arch = {"amd64", "aarch64"}
  Image = {"nova", "glance"}
  Severities <- MCSeverities
  MaxTries = 2
INVARIANTS
  TypeOK
  PushedIsAllowed
  GreenMeansPushed
  ManifestsNeedGreen
PROPERTIES
  SyncSeesEverything
  Completes
