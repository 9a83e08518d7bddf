SPECIFICATION FairSpec
CONSTANTS
  c1 = c1
  c2 = c2
  c4 = c4
  f1 = f1
  f2 = f2
  None = None
  Callers = {c1, c2, c4}
  Prints = {f1, f2}
  PrintOf <- LastDiffers
  MaxStages = 2
INVARIANTS IInv ReplayIsComplete
PROPERTIES ImplementsAnswerOnce EveryWaiterServed
CHECK_DEADLOCK FALSE
