SPECIFICATION Spec
CONSTANTS
  t1 = t1
  l1 = l1
  l2 = l2
  r1 = r1
  r2 = r2
  n1 = n1
  None = None
  Tasks = {t1}
  Blank = {}
  Tenants = {n1}
  TenantOf <- OneTenant
  Runners = {r1, r2}
  Leases = {l1, l2}
  Workers = 1
  QueueLimit = 2
  TenantQueueLimit = 1
  MaxAttempts = 2
SYMMETRY LeaseSymmetry
INVARIANTS StaleWithinOneStage CompletedIsDurable IInv
PROPERTIES HandoverOnlyByRule RetryBudgetKept ImplementsQueue
