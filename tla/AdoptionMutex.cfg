CONSTANTS
  t1 = t1  t2 = t2  t3 = t3
  d1 = d1  d2 = d2  d3 = d3  a1 = a1  r1 = r1  r2 = r2
  k1 = k1  s1 = s1  s2 = s2  s3 = s3  c1 = c1  c2 = c2
  NoThread = NoThread
  Threads = {t1, t2, t3}
  Jobs = {d1, d2, d3, a1}
  Tenants = {k1}
  Servers = {s1}
  CancelCalls = {}
  Faults = {}
  TrackLater = TRUE
  TenantOf <- OneTenant
  ServerOf <- OneServer
  JobKind <- KindOfJob
  JobThread <- ThreadOfJob
SPECIFICATION AwaitingAdoption
INVARIANT TenantMutex
CHECK_DEADLOCK FALSE
