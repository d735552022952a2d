SPECIFICATION Spec
CONSTANTS
  t1 = t1
  t2 = t2
  t3 = t3
  Threads = {t1, t2, t3}
  Keys = {1, 2, 3, 4}
  Nodes = {n1, n2, n3}
  Tree = tree
  Null = 0
  Works <- WorksMixed
SYMMETRY NodeSymmetry
INVARIANTS
  KeysUnique
  NodesSeenAreFilled
\* Delete and duplicate adds leave nodes locked: the others may block for ever.
CHECK_DEADLOCK FALSE
