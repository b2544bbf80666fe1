\* Two calls to any endpoint; every process and database may fail.
CONSTANTS
  ann = ann
  bob = bob
  cheap = cheap
  dear = dear
  c1 = c1
  c2 = c2
  c3 = c3
  Malformed = Malformed
  Word = 8
  Calls <- TwoCalls
  Emails <- MCEmails
  Prices <- MCPrices
  UserSeed <- OneUser
  MenuSeed <- OneItem
  Requests <- ApiRequests
  Faults <- AllFaults
SPECIFICATION Spec
SYMMETRY CallSymmetry
INVARIANTS TypeOK ReadYourWrites NotFoundIsTrue
CHECK_DEADLOCK FALSE
