CONSTANTS
  a = a
  b = b
  c = c
  d = d
  Todo = {a, b, c}
  Ord = {1, 2}
  Worker = {w1, w2}
  NoTodo = NoTodo
  OrdOf <- SecondOrd
  DependsOn <- SecondDeps
  DecompOf <- SecondDecomp
  InOrder = TRUE
  MaxOperator = 1
  MaxDirection = 1
SPECIFICATION Spec
INVARIANTS
  CascadesByNumber
\* every todo may be done, and nobody has to call again
CHECK_DEADLOCK FALSE
