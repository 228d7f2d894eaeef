SPECIFICATION Spec
CONSTANTS
  TxDepth = 2
  HalTxDepth = 2
  MaxSize = 4
  MaxCalls = 2
INVARIANT WriteSendsTheArray
PROPERTY CommitKeepsOtherFields
