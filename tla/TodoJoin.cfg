CONSTANTS
  a = a
  b = b
  c = c
  d = d
  Todo = {a, b, c}
  Ord = {1, 2, 3}
  Worker = {w1, w2}
  NoTodo = NoTodo
  OrdOf <- ForkOrd
  DependsOn <- ForkDeps
  DecompOf <- ForkDecomp
  InOrder = TRUE
  MaxOperator = 0
  MaxDirection = 0
SPECIFICATION Spec
INVARIANTS
  DispatchedAfterDependencies
  NoTodoForgotten
  CompletedOnlyAfterAll
PROPERTY ParentSettles
\* every todo may be done, and nobody has to call again
CHECK_DEADLOCK FALSE
