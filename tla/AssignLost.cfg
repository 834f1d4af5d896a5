CONSTANTS
  t1 = t1
  t2 = t2
  t3 = t3
  Task = {t1, t2, t3}
  Run = {r1}
  Worker = {w1, w2}
  NoTask = NoTask
  NoRun = NoRun
  DependsOn <- JoinDeps
  BlockedBy <- JoinBlocks
  MaxAssign <- Once
  MaxOperator = 0
SPECIFICATION Spec
INVARIANT BlockedIsReleased
\* calls are bounded, and nobody has to make one
CHECK_DEADLOCK FALSE
