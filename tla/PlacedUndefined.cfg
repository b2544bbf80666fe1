SPECIFICATION Spec
CONSTANTS
  p1 = p1
  p2 = p2
  Malformed = Malformed
  Undefined = Undefined
  Instances <- BothServices
  Durable = TRUE
  Posts <- TwoPosts
  MaxPicks = 1
  Picks <- MCPicks
  Faults <- OrderFaults
CHECK_DEADLOCK FALSE
INVARIANT PlacedIsAnOrder
