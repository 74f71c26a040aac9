SPECIFICATION Spec

CONSTANTS
  Timeout = 3
  Interval = 1
  MaxPost = 1
  MaxStarts = 2
  MaxFaults = 2
  MaxSwaps = 1

INVARIANTS
  ResumesOnlyAfterIdle
  AbsenceExplained
  FadesInTime

PROPERTY ComesBack
