SPECIFICATION Spec
CONSTANTS
  p1 = p1  app = app  front = front  h1 = h1  h2 = h2  h3 = h3
  p2 = p2  lo = lo  m1 = m1  m2 = m2  v6 = v6
  None = None
  Services = {app, front}
  Hosts = {h1, h2, h3}
  Machines = {lo, m1, m2, v6}
  Unparsable = {v6}
  Ports = {80, 8080, 9001, 9002}
  Handlers = {p1}
  Requests <- MCDropRequests
  Extends <- MCPrefixExtends
  Discovery = TRUE
  Faults = {}
  InitServices <- MCServices
  InitHosts <- MCHosts
  MaxClock = 2
  MaxRequests = 3
  MaxFaults = 0
INVARIANTS ListedHostsExist
CHECK_DEADLOCK FALSE
