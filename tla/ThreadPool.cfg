SPECIFICATION FairSpec
CONSTANTS
  Workers = {w1, w2}
  Submitters = {s1}
  Owner = owner
  NoTask = none
  Tasks = {k1, k2, k3}
  Capacity = 2
  Ending = "any"
INVARIANTS TypeOK TasksKept
PROPERTIES PoolServes
