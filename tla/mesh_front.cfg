SPECIFICATION FairMeshSpec
CONSTANTS
  p1 = p1  app = app  front = front  h1 = h1  h2 = h2  h3 = h3
  p2 = p2  lo = lo  m1 = m1  m2 = m2  v6 = v6  ghost = ghost
  None = None
  Services = {app, front}
  Hosts = {h1, h2, h3}
  Machines = {lo, m1, m2, v6}
  Unparsable = {v6}
  Ports = {80, 8080, 9001, 9002}
  Handlers = {p1}
  Requests <- FrontRequests
  Extends <- MCExtends
  Discovery = FALSE
  Faults = {}
  InitServices <- MeshServices
  InitHosts <- MeshHosts
  MaxClock = 8
  MaxRequests = 2
  MaxFaults = 0
  FreshVersions = TRUE
  Envoys = {h2}
INVARIANTS VersionIdentifiesConfig
PROPERTIES EnvoysConverge
