SPECIFICATION CtlSpec
CONSTANTS
  p1 = p1  app = app  front = front  h1 = h1  h2 = h2  h3 = h3
  p2 = p2  lo = lo  m1 = m1  m2 = m2  v6 = v6  c1 = c1  c2 = c2
  None = None
  Services = {app, front}
  Hosts = {h1}
  Machines = {lo, m1, m2, v6}
  Unparsable = {v6}
  Ports = {80, 8080, 9001, 9002}
  Handlers = {p1, p2}
  Requests <- NoRequests
  Extends <- MCExtends
  Discovery = FALSE
  Faults = {"crash", "error", "timeout", "upload"}
  InitServices <- AppServices
  InitHosts <- MCHosts
  MaxClock = 2
  MaxRequests = 3
  MaxFaults = 1
  Clients = {c1, c2}
  Commands <- MCCommands
  Shows <- MCShows
INVARIANTS StoredValid
PROPERTIES CommandConverges ShownIsNoChange
CHECK_DEADLOCK FALSE
