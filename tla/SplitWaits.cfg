CONSTANTS
  x = x
  y = y
  z = z
  Child = {x, y, z}
  Parent = Parent
  Worker = {w1, w2}
  NoTask = NoTask
  DependsOn <- ForkDependsOn
  MaxCall = 0
  MaxFault = 0
SPECIFICATION SplitSpec
INVARIANTS
  DependentsDispatched
SYMMETRY Symmetry
\* a child may wait for an operator
CHECK_DEADLOCK FALSE
