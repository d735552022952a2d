SPECIFICATION FairSpec
CONSTANTS
  a = a
  b = b
  m = m
  Clients = {a, b, m}
  Malicious = {m}
  SeqLen <- Lengths
  Empty = Empty
  NoNum = NoNum
  MAX_SIZE = 99
  MaxStops = 1
  MaxCrashes = 1
INVARIANTS
  TypeOK
  NumbersDisjoint
  BackupIsCurrent
PROPERTIES
  RequestsAreTaken
  ReadersEnd
\* Once every client has ended the server has nothing left to read.
CHECK_DEADLOCK FALSE
