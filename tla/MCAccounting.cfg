SPECIFICATION Spec
CONSTANTS
  Nodes = {n1, n2}
  Pools = {pub}
  Models = {m1, m2}
  ReceiptIds = {r1, r2}
  Work <- MCWork
  Timeout = 0
  MaxOutstanding = 1
  MaxDraws = 2
  MaxPlans = 2
  MaxCrashes = 1
  MaxFailures = 1
SYMMETRY Symmetry
INVARIANTS
  ReceiptPaidOnce
  CreditIsOwed
  SpentNotOutstanding
  UnpaidOnlyByMishap
PROPERTIES
  NonceSurvives
  ImplementsCreditLedger
