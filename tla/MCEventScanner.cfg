CONSTANTS
  MaxBlock = 6
  batch_size = 2
  FailingCalls <- MCFailingCalls
SPECIFICATION Spec
INVARIANTS TypeOK ScanSound
PROPERTIES Termination
CHECK_DEADLOCK FALSE
