\* Consul knows a healthy instance on another host.
CONSTANTS
  u1 = u1
  u2 = u2
  u3 = u3
  c1 = c1
  here = here
  there = there
  Procs <- UserProcs
  Runs <- MCRuns
  Instances <- UserInstances
  GatewayHost = here
  Joined <- BothHosts
  Reachable <- BothHosts
  Calls <- OneCall
  Requests <- MCRequests
  Faults <- NoFaults
  Durable = FALSE
SPECIFICATION FairSpec
PROPERTY NamedInstanceServes
CHECK_DEADLOCK FALSE
