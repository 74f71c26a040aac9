SPECIFICATION ChainSpec
CONSTANTS
  Replicas = {r1, r2}
  Bodies <- MCBodies
  NoReceipt = NoReceipt
  NoNonce = NoNonce
  MaxBlocks = 3
  a = a
INVARIANTS
  AcceptedIsVerifiable
  NonceCreditedOnce
  SameHeadSameBalances
PROPERTY
  HeadOnlyImproves
