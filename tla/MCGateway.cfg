SPECIFICATION Spec
CONSTANTS
  Turns = {t1, t2}
  Nodes = {n1}
  Direct = None
  Models = {m1}
  Reading = {{}, {m1, m2}, {m2}}
  None = None
  MAX_SESSIONS = 1
  TTL = 1
  MaxFlight = 1
  MaxBorn = 2
  MaxChunks = 1
  MaxSwaps = 1
SYMMETRY Symmetry
INVARIANTS AnswersRecorded ForgottenIsGone
PROPERTIES MisroutedOnlyByChange CancelStops
CHECK_DEADLOCK FALSE
