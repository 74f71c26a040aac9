SPECIFICATION Spec
CONSTANTS
  Nodes = {a, b, c}
  Hashes = {new}
  New = new
  None = None
  Files = {f1}
  MaxFaults = 1
INVARIANTS
  OriginPayersExplained
  SeedersHoldFiles
PROPERTY
  EveryNodeUpdates
CHECK_DEADLOCK FALSE
