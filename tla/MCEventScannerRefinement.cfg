CONSTANTS
  MaxBlock = 6
  batch_size = 2
  FailingCalls = {"eth_blockNumber"}
SPECIFICATION Spec
PROPERTIES LatestSpec
CHECK_DEADLOCK FALSE
