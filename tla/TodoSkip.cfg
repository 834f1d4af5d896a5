CONSTANTS
  a = a
  b = b
  c = c
  d = d
  Todo = {a, b}
  Ord = {1, 2}
  Worker = {w1}
  NoTodo = NoTodo
  OrdOf <- ChainOrd
  DependsOn <- ChainDeps
  DecompOf <- ChainDecomp
  InOrder = TRUE
  MaxOperator = 0
  MaxDirection = 1
SPECIFICATION Spec
INVARIANT SkipReevaluates
\* every todo may be done, and nobody has to call again
CHECK_DEADLOCK FALSE
