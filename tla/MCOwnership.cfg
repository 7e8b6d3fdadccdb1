\* Ownership: two claims of different people, a create and a delete of the first
\* one, an install, a log batch; every actor once. Addresses: every door once, the
\* watch door twice. Own hosts: a save and a check, three changes of plan.
CONSTANTS
  a = a  b = b  c1 = c1  c2 = c2  n1 = n1  d1 = d1  i1 = i1  m1 = m1  w1 = w1  l1 = l1  v1 = v1
  People <- MCPeople
  Claims = {c1, c2}
  Creates = {n1}
  Deletes = {d1}
  Issues = {i1}
  Mints = {m1}
  Watches = {w1}
  LogBatches = {l1}
  WebBatches = {v1}
  Who <- MCWho
  Plan <- MCPlan
  Load = 3
  Hosts = {h1, h2}
  Registrable <- MCRegistrable
  Address <- MCAddress
  Accounts = {e1}
  Visits = {x1, x2}
  Seeds = {y1}
  Saves = {p1}
  Namings = {z1}
  Takes = {t1}
  Tokens = {o1}
  Endings = {1}
  PerAddress = 2
  PerDay = 3
  HostPagesMax = 2
  MaxFaults = 1
  Pages = {g1, g2}
  Domains = {f1, f2}
  Checks = {k1}
  GraceDays = 2
  MaxTurns = 3
  MaxRequests = 2
  MaxIds = 7
SPECIFICATION MCSpec
INVARIANTS WithinPlan ClaimedOnce HostPageWasFree SharedLinkStands AllowedIsProved
PROPERTIES UsedProjectStays UnboundAfterGrace
CHECK_DEADLOCK FALSE
