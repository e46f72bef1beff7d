CONSTANTS
  Ports = {"22"}
  Values = {v, w}
  None = None
  Bad = Bad
SPECIFICATION Spec
INVARIANT UdpFollowsURL
CHECK_DEADLOCK FALSE
