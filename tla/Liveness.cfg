\* Every call and every handler ends, whatever fails.
CONSTANTS
  ann = ann
  bob = bob
  cheap = cheap
  dear = dear
  c1 = c1
  c2 = c2
  c3 = c3
  Malformed = Malformed
  Word = 8
  Calls <- TwoCalls
  Emails <- MCEmails
  Prices <- MCPrices
  UserSeed <- OneUser
  MenuSeed <- TwoItems
  Requests <- ChainRequests
  Faults <- Crashes
SPECIFICATION FairSpec
PROPERTIES CallsEnd HandlersEnd
CHECK_DEADLOCK FALSE
