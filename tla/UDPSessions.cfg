CONSTANTS
  a1 = a1
  a2 = a2
  Addrs <- Clients
  Sessions = {s1, s2}
  MaxRead <- TwiceOnce
  MaxReplies <- TwiceNever
  NoSession = NoSession
SPECIFICATION Spec
SYMMETRY SessionSymmetry
INVARIANTS TypeOK OneSession ClientInOrder TunnelersLeft RepliesInOrder
CHECK_DEADLOCK FALSE
