CONSTANTS
  a = a
  b = b
  x = x
  y = y
  z = z
  d = d
  Run = {a, b}
  Task = {x, y, z}
  Todo = {d}
  Worker = {w1, w2}
  NoRun = NoRun
  NoTask = NoTask
  DependsOn <- CrossDependsOn
  Owner <- CrossOwner
  TodoRun <- CrossTodoRun
  MaxRollback = 2
  MaxUpdate = 1
  MaxFault = 1
SPECIFICATION Spec
INVARIANTS
  NothingLeft
  NoStaleCompletion
PROPERTIES
  SharedKept
  RollbackEnds
\* every bound may be spent
CHECK_DEADLOCK FALSE
