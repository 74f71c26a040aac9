SPECIFICATION Spec

CONSTANTS
  Timeout = 3
  Interval = 1
  MaxPost = 1
  MaxStarts = 1
  MaxFaults = 0
  MaxSwaps = 0

INVARIANT ContributesOnlyIdle
