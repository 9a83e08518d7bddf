SPECIFICATION FairSpec
CONSTANTS
  q1 = q1
  q2 = q2
  q3 = q3
  p1 = p1
  p2 = p2
  g = g
  t1 = t1
  t2 = t2
  Calls = {q1, q2}
  Procs = {p1, p2}
  ProcOf <- Alone
  Scopes = {g, t1, t2}
  ScopesOf <- OnlyGlobal
  Limit <- Twos
  Replays = {q1}
  Workers = 1
  EventLimit = 1
  Faults = {}
  MaxStages = 1
  MaxCrashes = 0
INVARIANT NoStreamIsStuck
PROPERTIES EveryStreamEnds EveryJobReturns
CHECK_DEADLOCK FALSE
