CONSTANTS
  MaxBlock = 6
  batch_size = 2
  FailingCalls = {"eth_getBlockByNumber"}
SPECIFICATION Spec
INVARIANTS ScanExact
CHECK_DEADLOCK FALSE
