CONSTANTS
  Run = {r1, r2, r3}
  Child = {c1, c2}
  Name = {n1}
  Budget = {0, 1}
  Worker = {w1, w2}
  NoRun = NoRun
  NoChild = NoChild
  NoName = NoName
  Goal = {"in_progress", "failed"}
  MaxCall = 2
SPECIFICATION Spec
INVARIANTS
  UsedWithinCounted
  OverrunOnlyIfOvertaken
  LineageRooted
  TimedOutOnce
SYMMETRY Symmetry
CHECK_DEADLOCK FALSE
