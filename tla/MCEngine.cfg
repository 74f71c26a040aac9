SPECIFICATION Spec

CONSTANTS
  Machines <- MCMachines
  Releases = 2
  None = None
  MaxLives = 2
  MaxProcs = 4
  MaxFaults = 2

INVARIANTS
  EnginesAccountedFor
  AnsweredByOwn
  
