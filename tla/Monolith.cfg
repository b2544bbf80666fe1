\* Four calls to the monolith; its database and its process may fail.
CONSTANTS
  ann = ann
  bob = bob
  cheap = cheap
  dear = dear
  c1 = c1
  c2 = c2
  c3 = c3
  c4 = c4
  Malformed = Malformed
  Text = Text
  Calls <- FourCalls
  Emails <- MCEmails
  Prices <- MCPrices
  Requests <- MCRequests
  Faults <- BothFaults
SPECIFICATION Spec
SYMMETRY CallSymmetry
INVARIANTS MonolithTypeOK OrderAnswers SequenceAhead
PROPERTY MonolithImplementsLedger
CHECK_DEADLOCK FALSE
