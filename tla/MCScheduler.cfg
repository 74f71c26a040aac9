SPECIFICATION SchedulerSpec
CONSTANTS
  n1 = n1
  n2 = n2
  n3 = n3
  None = None
  Rows <- MCRows
  Boxes <- MCBoxes
  ClientRTT <- MCClientRTT
  RTTs = {2, 40}
  Queues = {0, 1}
  Rams = {20}
  ModelGB = 16
  Context = 32768
  Prompt = 480
  MaxBeats = 2
INVARIANTS LinksAsMeasured SlowerOnlyBySplit OverPlacedOnlyIf
