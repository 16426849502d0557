SPECIFICATION Spec
CONSTANTS
  app = app  front = front  h1 = h1  h2 = h2  m1 = m1  lo = lo
  None = None
  Services = {app, front}
  Hosts = {h1, h2}
  Machines = {lo, m1}
  Unparsable = {}
  Ports = {80, 8080, 9001}
  Calls <- MCCalls
  Extends = {}
  MaxOutages = 1
PROPERTIES HeapImplementsRepository ConsulImplementsRepository
