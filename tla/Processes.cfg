SPECIFICATION MCSpec
CONSTANTS
  N = 12
  NumChildren = 4
  Retries = 2
  FileLen = 5
  MaxClock = 8
  MaxSignals = 2
  Rounds = 3
  SignalsSent <- SentSignals
  PipeSize = 3
  Atomic = 2
  BufSize = 2
  Message <- FourBytes
  NumTyped = 3
  QOut = 2
  TcpClients = {"t1", "t2"}
  UdpClients = {"u1"}
  NumClients = 3
  Limit = 2
  Connects <- ForkConnects
  Pieces <- ForkBounds
  MaxKills <- ForkBounds
  Loads <- TelnetLoads
INVARIANTS
  CountsAgree
  BytesArrive
  ServersAreSound
  LocksExclude
  TimersKeepTime
  SignalsArrive
PROPERTIES
  IsTransfer
  PshmIsTransfer
  EveryProgramEnds
\* Programs end, and those that show a deadlock reach it.
CHECK_DEADLOCK FALSE
