CONSTANTS
  Tasks = {t1, t2, t3}
  Submitters = {s1, s2}
  Workers = {w1, w2}
  Sweeper = sweeper
  NoTask = none
  Depth = 1
  Full = "wait"
  Deadlines = {3}
  Reserve = 1
  MinBudget = 1
  MaxTime = 4
SYMMETRY SubmitterSymmetry
SPECIFICATION Spec
INVARIANTS DepthBound NoLostWakeup
PROPERTY NothingQueuedOnceClosed
