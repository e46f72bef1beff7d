CONSTANTS
  Ports = {"22"}
  Values = {v, w}
  None = None
  Bad = Bad
SPECIFICATION Spec
INVARIANTS AddressesAgree TLSAsAsked
CHECK_DEADLOCK FALSE
