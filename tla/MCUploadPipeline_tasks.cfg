SPECIFICATION PipelineFairSpec
CONSTANTS
  t1 = t1
  t2 = t2
  q1 = q1
  l1 = l1
  l2 = l2
  r1 = r1
  n1 = n1
  None = None
  Tasks = {t1, t2}
  Blank = {t1}
  Tenants = {n1}
  TenantOf <- OneTenant
  Runners = {r1}
  Leases = {l1, l2}
  Workers = 1
  QueueLimit = 1
  TenantQueueLimit = 1
  MaxAttempts = 1
  Requests = {q1}
  RequestTenant <- OneCaller
  GlobalLimit = 2
  TenantLimit = 2
INVARIANT CapacityKept
PROPERTIES PlacesAreReserved ImplementsAdmission EveryTaskSettles
