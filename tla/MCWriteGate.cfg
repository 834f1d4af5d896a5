CONSTANTS
  r1 = r1
  r2 = r2
  a = a
  b = b
  Run = {r1, r2}
  Path = {a, b}
  EmptyPath = EmptyPath
  Writes <- MCWrites
  Gate = {g1, g2}
  NoGate = NoGate
  NoRun = NoRun
SPECIFICATION Spec
INVARIANTS
  TypeOK
  RunsAtMostOnce
  ReleasedWithAllWrites
  HeldGateHasTimer
PROPERTIES
  HeldIsApplied
  ImplementsDeferredCall
CHECK_DEADLOCK FALSE
