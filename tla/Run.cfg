CONSTANTS
  t1 = t1
  t2 = t2
  Task = {t1, t2}
  Worker = {w1, w2}
  NoTask = NoTask
  MaxRecoveryRuns = 2
  Spent <- MCSpent
  Delivery <- HeldOnce
  MaxFailure = 1
  MaxCall = 1
SPECIFICATION Spec
INVARIANTS
  CompletedOnlyAfterAll
  NoTaskAbandoned
  CancellationEnds
SYMMETRY Symmetry
\* nobody has to answer a form
CHECK_DEADLOCK FALSE
