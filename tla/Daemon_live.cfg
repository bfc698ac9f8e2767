SPECIFICATION FairSpec
CONSTANTS
  s1 = s1
  c1 = c1
  c2 = c2
  t1 = t1
  r1 = r1
  r2 = r2
  Services = {s1}
  Clients = {c1}
  Traces = {t1}
  Requests = {r1, r2}
  ServiceOf <- OneService
  Capacity = 2
  TraceBuffer = 1
  MaxEvents = 1
  MaxActivations = 2
  MaxRestarts = 0
PROPERTIES  ChangeReachesClients
CHECK_DEADLOCK FALSE
