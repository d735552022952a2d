SPECIFICATION MCSpec
CONSTANTS
  Keys = {1, 2, 3, 4, 5}
  Values = {6, 7}
  Nodes = {n1, n2, n3, n4, n5}
  Null = Null
  MaxMsgLen = 3
  StreamBytes = 8
  Stored = {1, 2}
  Junk = 0
  MaxElements = 3
  Bits = {"r", "w"}
  GivenFiles = {1, 2}
INVARIANTS
  WellFormed
  LinesAreReturned
  ArrayIsSequence
  AnswersAreRight
  BytesAreKept
  PathsResolve
  
PROPERTY IsMap
SYMMETRY Symmetry
\* Behaviours end: the tree after a lookup that crashes, the other units when
\* their program has ended.
CHECK_DEADLOCK FALSE
