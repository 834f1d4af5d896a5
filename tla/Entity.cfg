SPECIFICATION EntitySpec
CONSTANTS
  w1 = w1
  w2 = w2
  Worker <- Workers
  Priority <- Priorities
  Value <- Values
  MaxCall = 2
  MaxFault = 1
SYMMETRY Symmetry
INVARIANTS LastGiven
PROPERTIES OthersKept StatusAlongTransitions
CHECK_DEADLOCK FALSE
