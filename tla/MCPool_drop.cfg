CONSTANTS
  Tasks = {t1, t2, t3}
  Submitters = {s1}
  Workers = {w1, w2}
  Sweeper = sweeper
  NoTask = none
  Depth = 2
  Full = "drop"
  Deadlines = {1, 3}
  Reserve = 1
  MinBudget = 1
  MaxTime = 4
SYMMETRY PoolSymmetry
SPECIFICATION Spec
INVARIANTS TypeOK Ownership Fifo Accounting DrainedOnReturn
PROPERTY ImplementsPromise
