SPECIFICATION Spec
CONSTANTS
  t1 = t1
  t2 = t2
  t3 = t3
  Threads = {t1, t2, t3}
  Keys = {1, 2, 3, 4}
  Nodes = {n1, n2}
  Tree = tree
  Null = 0
  Works <- WorksCollide
INVARIANT
  IdleHoldsNoMutex
CHECK_DEADLOCK FALSE
