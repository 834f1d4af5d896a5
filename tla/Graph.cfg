SPECIFICATION Spec
CONSTANTS
  t1 = t1
  t2 = t2
  t3 = t3
  p1 = p1
  p2 = p2
  a1 = a1
  w1 = w1
  w2 = w2
  None = None
  Task <- Tasks
  Project <- Projects
  Agent <- Agents
  Worker <- Workers
  Label <- Labels
  InitTasks <- Named
  MaxEdge = 3
  MaxCall = 4
  MaxFault = 1
SYMMETRY Symmetry
INVARIANTS NamesDistinct EdgesOnce DeletedProjectIsEmpty
CHECK_DEADLOCK FALSE
