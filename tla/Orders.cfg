\* Three calls that order, read, and create what the orders refer to.
CONSTANTS
  ann = ann
  bob = bob
  cheap = cheap
  dear = dear
  c1 = c1
  c2 = c2
  c3 = c3
  Malformed = Malformed
  Word = 8
  Calls <- ThreeCalls
  Emails <- MCEmails
  Prices <- MCPrices
  UserSeed <- OneUser
  MenuSeed <- OneItem
  Requests <- OrderRequests
  Faults <- OrderFaults
SPECIFICATION Spec
SYMMETRY CallSymmetry
INVARIANTS OrderAsRequested AnswerIsTrue OrdersReadWhole KeysUnique OrderIntegrity HandlerInv
PROPERTY ImplementsLedger
CHECK_DEADLOCK FALSE
