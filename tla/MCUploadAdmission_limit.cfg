SPECIFICATION Spec
CONSTANTS
  q1 = q1
  q2 = q2
  q3 = q3
  q4 = q4
  t1 = t1
  t2 = t2
  t3 = t3
  n1 = n1
  n2 = n2
  Nobody = Nobody
  Requests = {q1, q2, q3}
  Tasks = {t1, t2, t3}
  Tenants = {n1}
  TenantOf <- OneTenant
  GlobalLimit = 2
  TenantLimit = 2
INVARIANTS BacklogLimitKept
