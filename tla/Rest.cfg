\* Two calls to the REST services; every process and database may fail.
CONSTANTS
  ann = ann
  c1 = c1
  c2 = c2
  Malformed = Malformed
  Text = Text
  Calls <- TwoCalls
  Emails <- MCEmails
  Requests <- MCRequests
  Faults <- AllFaults
SPECIFICATION FairSpec
INVARIANTS RestTypeOK RestOrderAnswers
PROPERTIES RestImplementsLedger RequestsEnd
CHECK_DEADLOCK FALSE
