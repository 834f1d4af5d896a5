CONSTANTS
  x = x
  y = y
  z = z
  Child = {x, y, z}
  Parent = Parent
  Worker = {w1, w2}
  NoTask = NoTask
  DependsOn <- ForkDependsOn
  MaxCall = 2
  MaxFault = 1
SPECIFICATION SplitSpec
INVARIANTS
  OutcomeHasCause
  RollUpNotMissed
PROPERTY StartedAfterSiblings
SYMMETRY Symmetry
\* a child may wait for an operator
CHECK_DEADLOCK FALSE
