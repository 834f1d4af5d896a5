CONSTANTS
  a = a
  b = b
  c = c
  d = d
  Todo = {a, b, c, d}
  Ord = {1, 2}
  Worker = {w1}
  NoTodo = NoTodo
  OrdOf <- RetryOrd
  DependsOn <- RetryDeps
  DecompOf <- RetryDecomp
  InOrder = TRUE
  MaxOperator = 0
  MaxDirection = 1
SPECIFICATION Spec
INVARIANT FailedOnlyAfterFailure
\* every todo may be done, and nobody has to call again
CHECK_DEADLOCK FALSE
