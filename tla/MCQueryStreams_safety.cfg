SPECIFICATION Spec
CONSTANTS
  q1 = q1
  q2 = q2
  q3 = q3
  p1 = p1
  p2 = p2
  g = g
  t1 = t1
  t2 = t2
  Calls = {q1, q2}
  Procs = {p1, p2}
  ProcOf <- Alone
  Scopes = {g, t1, t2}
  ScopesOf <- Nested
  Limit <- TwoAndOne
  Replays = {q1}
  Workers = 1
  EventLimit = 2
  Faults = {"thread", "release"}
  MaxStages = 0
  MaxCrashes = 1
INVARIANTS PermitsBalanced SharedCapacityKept OverHoldsNothing
PROPERTIES LeaseNeverRevives OneVerdictAtTheEnd
CHECK_DEADLOCK FALSE
