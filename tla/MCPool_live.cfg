CONSTANTS
  Tasks = {t1, t2, t3}
  Submitters = {s1}
  Workers = {w1}
  Sweeper = sweeper
  NoTask = none
  Depth = 1
  Full = "wait"
  Deadlines = {2}
  Reserve = 0
  MinBudget = 1
  MaxTime = 3
SPECIFICATION FairSpec
PROPERTIES EveryTaskAnswered CloseReturns HungHandlersBlockNobody
