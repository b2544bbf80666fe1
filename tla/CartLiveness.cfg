SPECIFICATION FairSpec
CONSTANTS
  p1 = p1
  p2 = p2
  Malformed = Malformed
  Undefined = Undefined
  Instances <- BothServices
  Durable = TRUE
  Posts <- TwoPosts
  MaxPicks = 1
  Picks <- MCPicks
  Faults <- PodFaults
CHECK_DEADLOCK FALSE
PROPERTIES
  PromisesSettle
  CatalogFound
