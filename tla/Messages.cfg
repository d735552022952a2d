SPECIFICATION MCSpec
CONSTANTS
  a = a
  b = b
  N = 3
  SqLen <- SqLens
  RlLen <- RlLens
  IntMax = 100
  FileLen <- FileLens
  Keys = {1, 2}
  Values = {5, 6}
  MaxInterrupts = 2
  MaxKills = 1
  MaxErrors = 1
  NoNum = NoNum
  NoFile = NoFile
  CtrlC = FALSE
  Users = {a, b}
  Peer <- Pair
  MaxMsg = 2
  MaxLines = 3
  MaxSignals = 1
INVARIANTS
  ProgramsTypeOK
  ReceiveNeverBlocks
  NotifyNeverBusy
  FlagInv
  EndsInOrder
PROPERTIES
  ServersAreAllocators
  FirstAdderDecides
  ChildrenAreReaped
  ClientsAreServed
\* Both users may have quit, or every client may have ended.
CHECK_DEADLOCK FALSE
