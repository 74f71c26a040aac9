SPECIFICATION Spec
CONSTANTS
  N = 3
  Seeders = {s1, s2}
  None = none
  Addresses = 2
  Retries = 2
  MaxFaults = 3
INVARIANTS
  LeechedIsServed
PROPERTIES
  PinnedReadyIsGood
  InstalledInTheEnd
