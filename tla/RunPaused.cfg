CONSTANTS
  t1 = t1
  t2 = t2
  Task = {t1, t2}
  Worker = {w1, w2}
  NoTask = NoTask
  MaxRecoveryRuns = 2
  Spent <- MCSpent
  Delivery <- AnyDelivery
  MaxFailure = 1
  MaxCall = 0
SPECIFICATION Spec
INVARIANT PausedRunHasHeldTask
SYMMETRY Symmetry
\* nobody has to answer a form
CHECK_DEADLOCK FALSE
