SPECIFICATION FairSpec
CONSTANTS
  t1 = t1
  t2 = t2
  t3 = t3
  Threads = {t1, t2, t3}
  Keys = {1, 2, 3, 4}
  Nodes = {n1, n2, n3}
  Tree = tree
  Null = 0
  Works <- WorksNoDelete
INVARIANT
  StoredKeysAreFound
PROPERTIES
  IsConcurrentSet
  AllThreadsFinish
\* A duplicate add leaves a node locked: the others may block for ever.
CHECK_DEADLOCK FALSE
