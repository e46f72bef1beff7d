CONSTANTS
  a1 = a1
  a2 = a2
  Addrs <- OneClient
  Sessions = {s1, s2}
  MaxRead <- TwiceAlone
  MaxReplies <- Once
  NoSession = NoSession
SPECIFICATION Spec
PROPERTIES DispatchGoesOn AllEnd
CHECK_DEADLOCK FALSE
