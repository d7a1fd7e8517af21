CONSTANTS
  f1 = f1
  f2 = f2
  node = node
  target = target
  none = none
  Flows <- MCFlows
  Hosts <- MCHosts
  Ports <- MCPorts
  TargetUrls <- MCTargetUrls
  NoTarget = none
SPECIFICATION Spec
INVARIANTS ProxyTypeOK ForwardedToTarget
CHECK_DEADLOCK FALSE
