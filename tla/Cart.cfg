SPECIFICATION Spec
CONSTANTS
  p1 = p1
  p2 = p2
  Malformed = Malformed
  Undefined = Undefined
  Instances <- BothServices
  Durable = TRUE
  Posts <- TwoPosts
  MaxPicks = 2
  Picks <- MCPicks
  Faults <- AllFaults
CHECK_DEADLOCK FALSE
SYMMETRY PostSymmetry
INVARIANTS
  CafeTypeOK
  CartKept
  CartInv
