\* Three processes of one service and one call; Consul, the services and the gateway may fail.
CONSTANTS
  u1 = u1
  u2 = u2
  u3 = u3
  c1 = c1
  here = here
  there = there
  Procs <- UserProcs
  Runs <- MCRuns
  Instances <- UserInstances
  GatewayHost = here
  Joined <- BothHosts
  Reachable <- BothHosts
  Calls <- OneCall
  Requests <- MCRequests
  Faults <- AllFaults
  Durable = FALSE
SPECIFICATION FairSpec
INVARIANTS DiscoveryTypeOK Undisturbed
PROPERTIES RestartIsFound OutageIsNoticed GatewayAnswers
CHECK_DEADLOCK FALSE
