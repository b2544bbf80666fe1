\* POST /api/menu while nothing fails.
CONSTANTS
  ann = ann
  c1 = c1
  c2 = c2
  Malformed = Malformed
  Text = Text
  Calls <- TwoCalls
  Emails <- MCEmails
  Requests <- MCRequests
  Faults <- NoFaults
SPECIFICATION Spec
INVARIANT MenuCanBeFilled
CHECK_DEADLOCK FALSE
