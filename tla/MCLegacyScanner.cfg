CONSTANTS
  MaxBlock = 6
  batch_size = 2
  FailingCalls = {"eth_blockNumber", "eth_getLogs", "eth_getBlockByNumber"}
SPECIFICATION Spec
INVARIANTS LegacyTypeOK
PROPERTIES CurrentSpec
CHECK_DEADLOCK FALSE
