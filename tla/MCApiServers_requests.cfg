SPECIFICATION FewSpec
CONSTANTS
  north = north
  south = south
  ann = ann
  k1 = k1
  k2 = k2
  t1 = t1
  t2 = t2
  t3 = t3
  Threads = {t1, t2, t3}
  Processes = {north, south}
  Jobs <- AllJobs
  JobsOf <- ThreeThreads
  NoJob = NoJob
  PoolSize = 1
  Users = {ann}
  Tokens = {k1, k2}
  NoToken = NoToken
  NoUser = NoUser
  Slots = 1
  Attempts = 2
  HasFallback = TRUE
INVARIANTS IInv OnlyRacersGoStale AnswersAreKept NoOneWaitsInVain
PROPERTIES EveryRequestEnds
CHECK_DEADLOCK FALSE
