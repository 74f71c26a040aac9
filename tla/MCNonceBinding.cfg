SPECIFICATION ChainSpec
CONSTANTS
  Replicas = {r1, r2}
  Bodies <- MCRenamed
  NoReceipt = NoReceipt
  NoNonce = NoNonce
  MaxBlocks = 3
  a = a
INVARIANT
  ReceiptNonceOnce
