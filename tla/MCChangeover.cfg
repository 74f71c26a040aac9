SPECIFICATION Spec
CONSTANTS
  v1 = v1
  v2 = v2
  v3 = v3
  v4 = v4
  Manifests = {v1, v2, v3, v4}
  Version <- MCVersion
  Names = {n1, n2}
  Local = v2
  None = None
  MaxStorage = 4
  MaxFaults = 4
INVARIANTS
  RecordedFilesOnDisk
  EngineFilesOnDisk
  NoJunkLeftBehind
PROPERTIES
  DowngradeOnlyByRestart
  FollowsCatalog
CHECK_DEADLOCK FALSE
