---------------------------- MODULE FifoSeqProofs -----------------------------
(***************************************************************************)
(* Proofs about FifoSeq, for any number of clients and any bounds: types,  *)
(* the backup file, and that no number is given out twice.                 *)
(***************************************************************************)
EXTENDS FifoSeq, TLAPS

\* What a server that starts now would begin with.
Restored == IF backup = Empty THEN 0 ELSE backup

\* A fourth attempt to write is not made.
TypeInv == TypeOK /\ (spc = "write" => tries \in 1..3)

\* The lengths for which the server keeps its promise.
Ascending == \A c \in Clients : SeqLen[c] >= 0

\* The backup file is behind only between the response and its own update.
BackupInv ==
  /\ seq_num >= 0 /\ (backup # Empty => backup >= 0)
  /\ spc \notin {"down", "truncate", "store"} => seq_num = Restored
  /\ crashes = 0 /\ spc = "down" => seq_num = Restored

-----------------------------------------------------------------------------
\* Seq is closed under what the actions do to the queue.
LEMMA QueueFacts ==
  ASSUME NEW q \in Seq(Clients), NEW c \in Clients
  PROVE  /\ Append(q, c) \in Seq(Clients)
         /\ q # <<>> => Head(q) \in Clients /\ Tail(q) \in Seq(Clients)
  OBVIOUS

\* A number that loses its last digit does not grow.
LEMMA StoredIsNumber ==
  ASSUME NEW n \in Numbers
  PROVE  Stored(n) \in Numbers /\ (n >= 0 => Stored(n) = n)
<1> USE FifoAssumption DEF Numbers
<1>1. ASSUME NEW k \in Nat
      PROVE  k \div 10 \in 0..k
  OBVIOUS
<1>2. CASE n <= -((MAX_SIZE + 1) \div 10)
  <2>1. (MAX_SIZE + 1) \div 10 \in Nat
    BY <1>1
  <2>2. -n \in Nat /\ -n <= MAX_SIZE
    BY <1>2, <2>1
  <2>3. (-n) \div 10 \in 0..(-n)
    BY <1>1, <2>2
  <2>4. Stored(n) = -((-n) \div 10)
    BY <1>2 DEF Stored
  <2> QED
    BY <2>1, <2>2, <2>3, <2>4, <1>2
<1>3. CASE ~(n <= -((MAX_SIZE + 1) \div 10))
  BY <1>3 DEF Stored
<1> QED
  BY <1>2, <1>3

\* The empty queue is a queue.
LEMMA NoRequests == <<>> \in Seq(Clients)
  OBVIOUS

\* Initially every variable has its type.
LEMMA TypeInit == Init => TypeInv
<1> SUFFICES ASSUME Init
             PROVE  TypeInv
  OBVIOUS
<1>1. 0 \in Numbers /\ stops \in 0..MaxStops /\ crashes \in 0..MaxCrashes
  BY FifoAssumption DEF Init, Numbers
<1>2. /\ cpc \in [Clients -> ClientPCs] /\ cfifo \in [Clients -> BOOLEAN]
      /\ box \in [Clients -> Numbers \cup {NoNum}]
      /\ got \in [Clients -> Numbers \cup {NoNum}]
  BY DEF Init, ClientPCs
<1>3. queue \in Seq(Clients)
  BY NoRequests DEF Init
<1>4. spc \in ServerPCs /\ backup \in Numbers \cup {Empty} /\ spc # "write"
  BY DEF Init, ServerPCs
<1>5. stop_requested \in BOOLEAN /\ fifo \in BOOLEAN
  BY DEF Init
<1>6. seq_num \in Numbers /\ cur \in Clients /\ tries \in 1..4
  BY <1>1 DEF Init
<1> QED
  BY <1>1, <1>2, <1>3, <1>4, <1>5, <1>6 DEF TypeInv, TypeOK

\* The steps of the server keep the types.
LEMMA TypeServer == TypeInv /\ (Server \/ Start \/ Signal \/ Crash) => TypeInv'
<1> SUFFICES ASSUME TypeInv, Server \/ Start \/ Signal \/ Crash
             PROVE  TypeInv'
  OBVIOUS
<1> USE FifoAssumption
    DEF TypeInv, TypeOK, ServerPCs, ClientPCs, ServerGoto, server, clients, bounds
<1>1. CASE StopAtTop
  BY <1>1, NoRequests DEF StopAtTop
<1>2. CASE GoRead
  BY <1>2 DEF GoRead
<1>3. CASE ReadRequest
  BY <1>3, QueueFacts DEF ReadRequest
<1>4. CASE OpenDummy
  BY <1>4 DEF OpenDummy
<1>5. CASE OpenWrite
  BY <1>5 DEF OpenWrite
<1>6. CASE CloseDummy
  BY <1>6 DEF CloseDummy
<1>7. CASE WriteResponse
  <2>1. CASE HasReader(cur)
    BY <1>7, <2>1 DEF WriteResponse
  <2>2. CASE ~HasReader(cur)
    BY <1>7, <2>2 DEF WriteResponse
  <2> QED
    BY <2>1, <2>2
<1>8. CASE CloseAndUpdate
  BY <1>8 DEF CloseAndUpdate, Numbers
<1>9. CASE Truncate
  BY <1>9 DEF Truncate
<1>10. CASE Store
  BY <1>10, StoredIsNumber DEF Store
<1>11. CASE Start
  BY <1>11 DEF Start, Numbers
<1>12. CASE Signal
  BY <1>12 DEF Signal
<1>13. CASE Crash
  <2>1. queue' \in Seq(Clients)
    BY <1>13, NoRequests DEF Crash, Kept
  <2>2. crashes' \in 0..MaxCrashes
    BY <1>13 DEF Crash
  <2> QED
    BY <1>13, <2>1, <2>2 DEF Crash
<1> QED
  BY <1>1, <1>2, <1>3, <1>4, <1>5, <1>6, <1>7, <1>8, <1>9, <1>10, <1>11, <1>12, <1>13
  DEF Server

\* The steps of a client keep the types.
LEMMA TypeClient ==
  ASSUME TypeInv, NEW c \in Clients, Client(c)
  PROVE  TypeInv'
<1> USE FifoAssumption
    DEF TypeInv, TypeOK, ClientPCs, ClientGoto, End, Kept, server, clients, bounds
<1>1. CASE MakeFifo(c)
  BY <1>1 DEF MakeFifo
<1>2. CASE OpenServer(c)
  BY <1>2 DEF OpenServer
<1>3. CASE NoServer(c)
  BY <1>3 DEF NoServer
<1>4. CASE Send(c)
  BY <1>4, QueueFacts DEF Send
<1>5. CASE Killed(c)
  <2>1. cpc' = [cpc EXCEPT ![c] = "killed"] /\ queue' \in Seq(Clients)
    BY <1>5, NoRequests DEF Killed
  <2> QED
    BY <1>5, <2>1 DEF Killed
<1>6. CASE OpenOwn(c)
  BY <1>6 DEF OpenOwn
<1>7. CASE ReadResponse(c)
  BY <1>7 DEF ReadResponse
<1>8. CASE ReadEOF(c)
  BY <1>8 DEF ReadEOF
<1>9. CASE WalkAway(c)
  BY <1>9 DEF WalkAway
<1> QED
  BY <1>1, <1>2, <1>3, <1>4, <1>5, <1>6, <1>7, <1>8, <1>9 DEF Client

\* Every step keeps the types.
LEMMA TypeStep == TypeInv /\ [Next]_vars => TypeInv'
<1> SUFFICES ASSUME TypeInv, [Next]_vars
             PROVE  TypeInv'
  OBVIOUS
<1>1. CASE UNCHANGED vars
  BY <1>1 DEF vars, server, clients, bounds, TypeInv, TypeOK
<1> QED
  BY <1>1, TypeServer, TypeClient DEF Next

\* Every variable keeps its type, whatever is asked for.
THEOREM FifoTypes == Spec => []TypeOK
<1>1. Spec => []TypeInv
  BY TypeInit, TypeStep, PTL DEF Spec
<1>2. TypeInv => TypeOK
  BY DEF TypeInv
<1> QED
  BY <1>1, <1>2, PTL

-----------------------------------------------------------------------------
LEMMA BackupStep ==
  ASSUME Ascending, TypeInv, BackupInv, [Next]_vars
  PROVE  BackupInv'
<1> USE FifoAssumption DEF BackupInv, Restored, ServerGoto
<1>1. spc \in ServerPCs /\ seq_num \in Numbers /\ backup \in Numbers \cup {Empty}
      /\ crashes \in Nat /\ Empty \notin Numbers /\ cur \in Clients
  BY DEF TypeInv, TypeOK, Numbers
<1>2. CASE StopAtTop \/ GoRead
  BY <1>2 DEF StopAtTop, GoRead, clients, bounds
<1>3. CASE ReadRequest \/ OpenDummy
  BY <1>3 DEF ReadRequest, OpenDummy, clients, bounds
<1>4. CASE OpenWrite \/ CloseDummy
  BY <1>4 DEF OpenWrite, CloseDummy, clients, bounds
<1>5. CASE WriteResponse
  BY <1>5 DEF WriteResponse, bounds
<1>6. CASE CloseAndUpdate
  <2>1. seq_num + SeqLen[cur] >= 0
    BY <1>1 DEF Ascending, Numbers
  <2> QED
    BY <1>6, <2>1 DEF CloseAndUpdate, clients, bounds
<1>7. CASE Truncate
  BY <1>7 DEF Truncate, clients, bounds
<1>8. CASE Store
  BY <1>1, <1>8, StoredIsNumber DEF Store, clients, bounds
<1>9. CASE Start
  BY <1>1, <1>9 DEF Start, clients, bounds, Numbers
<1>10. CASE Signal
  BY <1>10 DEF Signal, clients
<1>11. CASE Crash
  BY <1>1, <1>11 DEF Crash, clients
<1>12. CASE (\E c \in Clients : Client(c)) \/ UNCHANGED vars
  <2>1. UNCHANGED <<server, bounds>>
    BY <1>12 DEF Client, MakeFifo, OpenServer, NoServer, Send, Killed, OpenOwn,
                 ReadResponse, ReadEOF, WalkAway, vars
  <2> QED
    BY <2>1 DEF server, bounds
<1> QED
  BY <1>2, <1>3, <1>4, <1>5, <1>6, <1>7, <1>8, <1>9, <1>10, <1>11, <1>12 DEF Next, Server

\* The backup is behind only between a response and its own update.
LEMMA BackupInvariance == Ascending => (Spec => [](TypeInv /\ BackupInv))
<1>1. Init => BackupInv
  BY DEF Init, BackupInv, Restored
<1>2. Ascending /\ TypeInv /\ BackupInv /\ [Next]_vars => BackupInv'
  BY BackupStep
<1>3. SUFFICES ASSUME Ascending
               PROVE  Spec => [](TypeInv /\ BackupInv)
  OBVIOUS
<1>4. TypeInv /\ BackupInv /\ [Next]_vars => BackupInv'
  BY <1>2, <1>3
<1> QED
  BY <1>1, <1>4, TypeInit, TypeStep, PTL DEF Spec

\* A server that is stopped between two requests, or crashes there, goes on where
\* it was, whatever happened before, if no length is negative.
THEOREM BackupIsSound == Ascending => (Spec => []BackupIsCurrent)
<1>1. BackupInv => BackupIsCurrent
  BY DEF BackupInv, BackupIsCurrent, Restored
<1> QED
  BY <1>1, BackupInvariance, PTL

-----------------------------------------------------------------------------
(***************************************************************************)
(* A client sends one request, and has no number before it is served:      *)
(*   - one that has not sent, or is in the queue, has none;                *)
(*   - no client is in the queue twice, or in it and being served.         *)
(***************************************************************************)
Silent(c) == cpc[c] \in {"start", "made", "opened", "stale", "killed"}
Serving == spc \in {"openDummy", "openWrite", "closeDummy", "write"}

OneRequest ==
  /\ \A c \in Clients : /\ Silent(c) => Given(c) = NoNum
                        /\ got[c] # NoNum => cpc[c] = "done"
  /\ Serving => ~Silent(cur) /\ Given(cur) = NoNum
  /\ \A i \in 1..Len(queue) : /\ ~Silent(queue[i]) /\ Given(queue[i]) = NoNum
                              /\ Serving => queue[i] # cur
                              /\ \A j \in 1..Len(queue) : i # j => queue[i] # queue[j]

(***************************************************************************)
(* The server has gone past every sequence it gave out, but for the one it *)
(* has just given, and those that were refused.                            *)
(***************************************************************************)
Passed ==
  crashes = 0 => \A c \in Clients :
    Given(c) # NoNum =>
      \/ Given(c) + SeqLen[c] <= seq_num
      \/ ~Fits(c)
      \/ spc = "close" /\ c = cur /\ Given(c) = seq_num

\* What Append and Tail do to the elements of a queue.
LEMMA QueueElements ==
  ASSUME NEW q \in Seq(Clients), NEW c \in Clients
  PROVE  /\ Len(Append(q, c)) = Len(q) + 1
         /\ \A i \in 1..Len(q) + 1 :
              Append(q, c)[i] = IF i = Len(q) + 1 THEN c ELSE q[i]
         /\ q # <<>> => /\ Len(Tail(q)) = Len(q) - 1 /\ Len(q) \in Nat \ {0}
                        /\ Head(q) = q[1]
                        /\ \A i \in 1..Len(q) - 1 : Tail(q)[i] = q[i + 1]
  OBVIOUS

\* A queue that is emptied or left alone, while nobody changes sides.
LEMMA QuietStep ==
  ASSUME TypeInv, OneRequest, queue' \in {<<>>, queue}, UNCHANGED <<cur, box, got>>,
         Serving' => Serving,
         \A c \in Clients : (Silent(c)' => Silent(c)) /\ (cpc[c] = "done" => cpc'[c] = "done")
  PROVE  OneRequest'
<1>1. \A c \in Clients : Given(c)' = Given(c)
  BY DEF Given
<1>2. cur \in Clients /\ \A i \in 1..Len(queue) : queue[i] \in Clients
  BY DEF TypeInv, TypeOK
<1>3. CASE queue' = queue
  BY <1>1, <1>2, <1>3 DEF OneRequest
<1>4. CASE queue' = <<>>
  <2>1. 1..Len(queue') = {}
    BY <1>4
  <2> QED
    BY <1>1, <1>2, <2>1 DEF OneRequest
<1> QED
  BY <1>3, <1>4

\* The server takes a request out of the FIFO.
LEMMA OneRequestRead ==
  ASSUME TypeInv, OneRequest, ReadRequest
  PROVE  OneRequest'
<1> USE DEF ReadRequest, ServerGoto, clients
<1>1. queue \in Seq(Clients) /\ queue # <<>> /\ cur' = Head(queue) /\ queue' = Tail(queue)
  BY DEF TypeInv, TypeOK
<1>2. /\ Len(queue') = Len(queue) - 1 /\ Len(queue) \in Nat \ {0} /\ cur' = queue[1]
      /\ \A i \in 1..Len(queue') : queue'[i] = queue[i + 1]
  <2>1. cur \in Clients
    BY DEF TypeInv, TypeOK
  <2> QED
    BY <1>1, <2>1, QueueElements
<1>3. \A c : Given(c)' = Given(c) /\ (Silent(c)' <=> Silent(c))
  BY DEF Given, Silent
<1>4. ~Silent(cur') /\ Given(cur') = NoNum
  BY <1>2 DEF OneRequest
<1>5. ASSUME NEW i \in 1..Len(queue')
      PROVE  /\ ~Silent(queue'[i]) /\ Given(queue'[i]) = NoNum /\ queue'[i] # cur'
             /\ \A j \in 1..Len(queue') : i # j => queue'[i] # queue'[j]
  <2>1. i + 1 \in 1..Len(queue) /\ 1 \in 1..Len(queue) /\ i + 1 # 1 /\ queue'[i] = queue[i + 1]
    BY <1>2
  <2>2. ASSUME NEW j \in 1..Len(queue'), i # j
        PROVE  queue'[i] # queue'[j]
    <3>1. j + 1 \in 1..Len(queue) /\ i + 1 # j + 1 /\ queue'[j] = queue[j + 1]
      BY <1>2, <2>2
    <3> QED
      BY <2>1, <3>1 DEF OneRequest
  <2> QED
    BY <1>2, <2>1, <2>2 DEF OneRequest
<1>6. \A c \in Clients : (Silent(c)' => Given(c)' = NoNum) /\ (got'[c] # NoNum => cpc'[c] = "done")
  BY <1>3 DEF OneRequest
<1>7. ~Silent(cur)' /\ Given(cur)' = NoNum
  BY <1>3, <1>4 DEF Silent, Given
<1>8. \A i \in 1..Len(queue') : (~Silent(queue[i]))' /\ (Given(queue[i]) = NoNum)'
  BY <1>5 DEF Silent, Given
<1> QED
  BY <1>5, <1>6, <1>7, <1>8 DEF OneRequest

\* The server writes a response.
LEMMA OneRequestWrite ==
  ASSUME TypeInv, OneRequest, WriteResponse
  PROVE  OneRequest'
<1> USE DEF WriteResponse, ServerGoto
<1>1. cur \in Clients /\ \A i \in 1..Len(queue) : queue[i] \in Clients
  BY DEF TypeInv, TypeOK
<1>2. spc = "write" /\ Serving /\ UNCHANGED <<cur, queue, cpc, got>>
  BY DEF Serving
<1>3. CASE ~HasReader(cur)
  <2>1. \A c \in Clients : Given(c)' = Given(c) /\ (Silent(c)' <=> Silent(c))
    BY <1>2, <1>3 DEF Given, Silent
  <2>2. UNCHANGED queue /\ UNCHANGED cur
    BY <1>2
  <2> QED
    BY <1>1, <1>2, <2>1, <2>2 DEF OneRequest
<1>4. CASE HasReader(cur)
  <2>1. \A c \in Clients : c # cur => Given(c)' = Given(c)
    BY <1>1, <1>4 DEF Given, TypeInv, TypeOK
  <2>2. \A c \in Clients : Silent(c)' <=> Silent(c)
    BY <1>2 DEF Silent
  <2>3. ~Serving'
    BY <1>4 DEF Serving
  <2> QED
    BY <1>1, <1>2, <2>1, <2>2, <2>3 DEF OneRequest
<1> QED
  BY <1>3, <1>4

\* A client sends its request.
LEMMA OneRequestSend ==
  ASSUME TypeInv, OneRequest, NEW c \in Clients, Send(c)
  PROVE  OneRequest'
<1> USE DEF Send, ClientGoto, server
<1>1. queue \in Seq(Clients) /\ cpc \in [Clients -> ClientPCs] /\ cur \in Clients
  BY DEF TypeInv, TypeOK
<1>2. Silent(c) /\ Given(c) = NoNum
  BY DEF Silent, OneRequest
<1>3. \A d \in Clients : Given(d)' = Given(d) /\ (Silent(d)' => Silent(d))
                       /\ (cpc[d] = "done" => cpc'[d] = "done")
  BY <1>1 DEF Given, Silent
<1>4. ~Silent(c)'
  BY <1>1 DEF Silent
<1>5. Len(queue') = Len(queue) + 1 /\ Len(queue) \in Nat
      /\ \A i \in 1..Len(queue') : queue'[i] = IF i = Len(queue) + 1 THEN c ELSE queue[i]
  BY <1>1, QueueElements
<1>6. \A i \in 1..Len(queue) : queue[i] \in Clients /\ queue[i] # c
  BY <1>1, <1>2 DEF OneRequest
<1>7. Serving => cur # c
  BY <1>2 DEF OneRequest
<1>8. ASSUME NEW i \in 1..Len(queue')
      PROVE  /\ ~Silent(queue[i])' /\ Given(queue[i])' = NoNum /\ (Serving => queue'[i] # cur)
             /\ \A j \in 1..Len(queue') : i # j => queue'[i] # queue'[j]
  <2>1. CASE i = Len(queue) + 1
    <3>1. queue'[i] = c
      BY <1>5, <2>1
    <3>2. Given(queue[i])' = NoNum /\ ~Silent(queue[i])'
      BY <1>2, <1>3, <1>4, <3>1 DEF Given, Silent
    <3>3. \A j \in 1..Len(queue') : i # j => queue'[j] # c
      BY <1>5, <1>6, <2>1
    <3> QED
      BY <1>7, <3>1, <3>2, <3>3
  <2>2. CASE i # Len(queue) + 1
    <3>1. i \in 1..Len(queue) /\ queue'[i] = queue[i]
      BY <1>5, <2>2
    <3>2. /\ ~Silent(queue[i]) /\ Given(queue[i]) = NoNum /\ (Serving => queue[i] # cur)
          /\ \A j \in 1..Len(queue) : i # j => queue[i] # queue[j]
      BY <3>1 DEF OneRequest
    <3>3. ~Silent(queue[i])' /\ Given(queue[i])' = NoNum
      BY <1>3, <1>6, <3>1, <3>2 DEF Given, Silent
    <3>4. \A j \in 1..Len(queue') : i # j => queue'[i] # queue'[j]
      BY <1>5, <1>6, <3>1, <3>2
    <3> QED
      BY <3>1, <3>2, <3>3, <3>4
  <2> QED
    BY <2>1, <2>2
<1>9. Serving' <=> Serving
  BY DEF Serving
<1>10. Serving' => ~Silent(cur)' /\ Given(cur)' = NoNum
  BY <1>1, <1>3, <1>9 DEF OneRequest, Silent, Given
<1> QED
  BY <1>3, <1>8, <1>9, <1>10 DEF OneRequest

\* Every step of a client.
LEMMA OneRequestClient ==
  ASSUME TypeInv, OneRequest, NEW c \in Clients, Client(c)
  PROVE  OneRequest'
<1> USE DEF ClientGoto, End, Kept, Silent, Serving, server
<1>1. cpc \in [Clients -> ClientPCs] /\ box \in [Clients -> Numbers \cup {NoNum}]
      /\ got \in [Clients -> Numbers \cup {NoNum}]
  BY DEF TypeInv, TypeOK
<1>2. CASE MakeFifo(c) \/ OpenServer(c) \/ NoServer(c) \/ Killed(c)
  BY <1>1, <1>2, QuietStep DEF MakeFifo, OpenServer, NoServer, Killed
<1>3. CASE OpenOwn(c) \/ ReadEOF(c) \/ WalkAway(c)
  BY <1>1, <1>3, QuietStep DEF OpenOwn, ReadEOF, WalkAway
<1>4. CASE Send(c)
  BY <1>4, OneRequestSend
<1>5. CASE ReadResponse(c)
  <2>1. \A d \in Clients : Given(d)' = Given(d) /\ (Silent(d)' <=> Silent(d))
    BY <1>1, <1>5 DEF ReadResponse, Given, OneRequest
  <2>2. \A d \in Clients : got'[d] # NoNum => cpc'[d] = "done"
    BY <1>1, <1>5 DEF ReadResponse, OneRequest
  <2>3. cur \in Clients /\ cur' = cur /\ spc' = spc /\ \A i \in 1..Len(queue) : queue[i] \in Clients
    BY <1>5 DEF ReadResponse, TypeInv, TypeOK
  <2>4. queue' = queue \/ 1..Len(queue') = {}
    BY <1>5 DEF ReadResponse
  <2> QED
    BY <2>1, <2>2, <2>3, <2>4 DEF OneRequest
<1> QED
  BY <1>2, <1>3, <1>4, <1>5 DEF Client

\* Every step of the server.
LEMMA OneRequestServer ==
  ASSUME TypeInv, OneRequest, Server \/ Start \/ Signal \/ Crash
  PROVE  OneRequest'
<1> USE DEF ServerGoto, Kept, Silent, Serving, clients, bounds
<1>1. cpc \in [Clients -> ClientPCs] /\ cur \in Clients
  BY DEF TypeInv, TypeOK
<1>2. CASE StopAtTop \/ GoRead \/ OpenDummy
  BY <1>1, <1>2, QuietStep DEF StopAtTop, GoRead, OpenDummy
<1>3. CASE OpenWrite \/ CloseDummy \/ CloseAndUpdate
  BY <1>1, <1>3, QuietStep DEF OpenWrite, CloseDummy, CloseAndUpdate
<1>4. CASE Truncate \/ Store \/ Start
  BY <1>4, QuietStep DEF Truncate, Store, Start
<1>5. CASE Signal \/ Crash
  BY <1>5, QuietStep DEF Signal, Crash
<1> QED
  BY <1>2, <1>3, <1>4, <1>5, OneRequestRead, OneRequestWrite DEF Server

\* No step makes a client ask twice.
LEMMA OneRequestStep == TypeInv /\ OneRequest /\ [Next]_vars => OneRequest'
<1>1. ASSUME UNCHANGED vars, OneRequest
      PROVE  OneRequest'
  BY <1>1 DEF vars, server, clients, OneRequest, Silent, Serving, Given
<1> QED
  BY <1>1, OneRequestClient, OneRequestServer DEF Next

-----------------------------------------------------------------------------
\* The numbers of clients whose request is not being served stay where they are.
LEMMA PassedQuiet ==
  ASSUME Passed, UNCHANGED <<crashes, cur>>, \A c \in Clients : Given(c)' = Given(c),
         crashes = 0 => seq_num' = seq_num, spc = "close" => spc' = "close"
  PROVE  Passed'
  BY DEF Passed, Fits

\* A step that gives out no number.
LEMMA DisjointQuiet ==
  ASSUME NumbersDisjoint, UNCHANGED crashes, \A c \in Clients : Given(c)' = Given(c)
  PROVE  NumbersDisjoint'
  BY DEF NumbersDisjoint, Fits

\* The response is the end of all sequences given out before.
LEMMA DisjointWrite ==
  ASSUME TypeInv, OneRequest, Passed, NumbersDisjoint, WriteResponse
  PROVE  Passed' /\ NumbersDisjoint'
<1> USE DEF WriteResponse, ServerGoto, bounds
<1>1. /\ cur \in Clients /\ box \in [Clients -> Numbers \cup {NoNum}] /\ seq_num \in Numbers
      /\ SeqLen \in [Clients -> Int] /\ Numbers \subseteq Int
      /\ got \in [Clients -> Numbers \cup {NoNum}]
  BY FifoAssumption DEF TypeInv, TypeOK, Numbers
<1>2. CASE ~HasReader(cur)
  <2>1. \A c \in Clients : Given(c)' = Given(c)
    BY <1>2 DEF Given
  <2> QED
    BY <1>2, <2>1, PassedQuiet, DisjointQuiet
<1>3. CASE HasReader(cur)
  <2>1. Given(cur)' = seq_num /\ \A c \in Clients : c # cur => Given(c)' = Given(c)
    BY <1>1, <1>3 DEF Given, OneRequest, Serving
  <2>2. spc = "write" /\ spc' = "close" /\ UNCHANGED <<cur, seq_num, crashes>>
    BY <1>3
  <2>3. Passed'
    BY <2>1, <2>2 DEF Passed, Fits
  <2>4. ASSUME crashes = 0, NEW c \in Clients, c # cur, Given(c) # NoNum, Fits(c)
        PROVE  Given(c) + SeqLen[c] <= seq_num
    BY <2>2, <2>4 DEF Passed
  <2>5. ASSUME crashes = 0, NEW c \in Clients, NEW d \in Clients, c # d,
               Given(c)' # NoNum, Given(d)' # NoNum, Fits(c)', Fits(d)'
        PROVE  Given(c)' + SeqLen[c] <= Given(d)' \/ Given(d)' + SeqLen[d] <= Given(c)'
    <3>1. CASE c # cur /\ d # cur
      BY <2>1, <2>5, <3>1 DEF NumbersDisjoint, Fits
    <3>2. CASE c = cur
      BY <2>1, <2>4, <2>5, <3>2 DEF Fits
    <3>3. CASE d = cur
      BY <2>1, <2>4, <2>5, <3>3 DEF Fits
    <3> QED
      BY <3>1, <3>2, <3>3
  <2> QED
    BY <2>2, <2>3, <2>5 DEF NumbersDisjoint
<1> QED
  BY <1>2, <1>3

\* The steps of the server.
LEMMA DisjointServer ==
  ASSUME Ascending, TypeInv, BackupInv, OneRequest, Passed, NumbersDisjoint,
         Server \/ Start \/ Signal \/ Crash
  PROVE  Passed' /\ NumbersDisjoint'
<1> USE DEF ServerGoto, clients, bounds
<1>1. CASE StopAtTop \/ GoRead \/ OpenDummy
  <2>1. \A c \in Clients : Given(c)' = Given(c)
    BY <1>1 DEF StopAtTop, GoRead, OpenDummy, Given
  <2> QED
    BY <1>1, <2>1, PassedQuiet, DisjointQuiet DEF StopAtTop, GoRead, OpenDummy
<1>2. CASE OpenWrite \/ CloseDummy \/ Truncate \/ Store
  <2>1. \A c \in Clients : Given(c)' = Given(c)
    BY <1>2 DEF OpenWrite, CloseDummy, Truncate, Store, Given
  <2> QED
    BY <1>2, <2>1, PassedQuiet, DisjointQuiet DEF OpenWrite, CloseDummy, Truncate, Store
<1>3. CASE ReadRequest
  <2>1. \A c \in Clients : Given(c)' = Given(c)
    BY <1>3 DEF ReadRequest, Given
  <2>2. Passed'
    BY <1>3, <2>1 DEF ReadRequest, Passed, Fits
  <2> QED
    BY <1>3, <2>1, <2>2, DisjointQuiet DEF ReadRequest
<1>4. CASE WriteResponse
  BY <1>4, DisjointWrite
<1>5. CASE CloseAndUpdate
  <2>1. \A c \in Clients : Given(c)' = Given(c)
    BY <1>5 DEF CloseAndUpdate, Given
  <2>2. /\ cur \in Clients /\ seq_num \in Numbers /\ seq_num >= 0 /\ SeqLen \in [Clients -> Int]
        /\ MAX_SIZE \in Nat /\ \A c \in Clients : SeqLen[c] >= 0
        /\ \A c \in Clients : Given(c) # NoNum => Given(c) \in Numbers
    BY FifoAssumption DEF TypeInv, TypeOK, BackupInv, Ascending, Given
  <2>3. \/ seq_num' = seq_num + SeqLen[cur]
        \/ seq_num' = seq_num /\ seq_num + SeqLen[cur] > MAX_SIZE
    BY <1>5, <2>2 DEF CloseAndUpdate, Numbers
  <2>4. ASSUME crashes = 0, NEW c \in Clients, Given(c) # NoNum
        PROVE  Given(c) + SeqLen[c] <= seq_num' \/ ~Fits(c)
    <3>1. CASE Given(c) + SeqLen[c] <= seq_num
      BY <2>2, <2>3, <2>4, <3>1 DEF Numbers
    <3>2. CASE c = cur /\ Given(c) = seq_num
      BY <2>2, <2>3, <3>2 DEF Fits, Numbers
    <3> QED
      BY <2>4, <3>1, <3>2 DEF Passed
  <2>5. Passed'
    BY <1>5, <2>1, <2>4 DEF CloseAndUpdate, Passed, Fits
  <2> QED
    BY <1>5, <2>1, <2>5, DisjointQuiet DEF CloseAndUpdate
<1>6. CASE Start
  <2>1. \A c \in Clients : Given(c)' = Given(c)
    BY <1>6 DEF Start, Given
  <2>2. crashes = 0 => seq_num' = seq_num
    BY <1>6 DEF Start, BackupInv, Restored
  <2> QED
    BY <1>6, <2>1, <2>2, PassedQuiet, DisjointQuiet DEF Start
<1>7. CASE Signal
  <2>1. \A c \in Clients : Given(c)' = Given(c)
    BY <1>7 DEF Signal, Given
  <2> QED
    BY <1>7, <2>1, PassedQuiet, DisjointQuiet DEF Signal
<1>8. CASE Crash
  <2>1. crashes' # 0
    BY <1>8 DEF Crash, TypeInv, TypeOK
  <2> QED
    BY <2>1 DEF Passed, NumbersDisjoint
<1> QED
  BY <1>1, <1>2, <1>3, <1>4, <1>5, <1>6, <1>7, <1>8 DEF Server

\* The steps of the clients.
LEMMA DisjointClient ==
  ASSUME TypeInv, OneRequest, Passed, NumbersDisjoint, NEW c \in Clients, Client(c)
  PROVE  Passed' /\ NumbersDisjoint'
<1>1. \A d \in Clients : Given(d)' = Given(d)
  <2>1. CASE ReadResponse(c)
    BY <2>1 DEF ReadResponse, End, ClientGoto, Given, OneRequest, TypeInv, TypeOK
  <2>2. CASE ~ReadResponse(c)
    BY <2>2 DEF Client, MakeFifo, OpenServer, NoServer, Send, Killed, OpenOwn, ReadEOF,
                WalkAway, Given
  <2> QED
    BY <2>1, <2>2
<1>2. UNCHANGED <<server, bounds>>
  BY DEF Client, MakeFifo, OpenServer, NoServer, Send, Killed, OpenOwn, ReadResponse,
         ReadEOF, WalkAway
<1> QED
  BY <1>1, <1>2, PassedQuiet, DisjointQuiet DEF server, bounds

\* No step gives out a number twice.
LEMMA DisjointStep ==
  ASSUME Ascending, TypeInv, BackupInv, OneRequest, Passed, NumbersDisjoint, [Next]_vars
  PROVE  Passed' /\ NumbersDisjoint'
<1>1. CASE UNCHANGED vars
  <2>1. \A c \in Clients : Given(c)' = Given(c)
    BY <1>1 DEF vars, clients, Given
  <2> QED
    BY <1>1, <2>1, PassedQuiet, DisjointQuiet DEF vars, server, bounds
<1> QED
  BY <1>1, DisjointServer, DisjointClient DEF Next

\* Whoever stops the server and starts it again, whoever walks away: without a crash
\* no number is given out twice, if no length is negative.
THEOREM NoNumberTwice == Ascending => (Spec => []NumbersDisjoint)
<1>1. Init => OneRequest /\ Passed /\ NumbersDisjoint
  BY DEF Init, OneRequest, Silent, Serving, Given, Passed, NumbersDisjoint
<1>2. SUFFICES ASSUME Ascending
               PROVE  Spec => []NumbersDisjoint
  OBVIOUS
<1>3. TypeInv /\ BackupInv /\ OneRequest /\ Passed /\ NumbersDisjoint /\ [Next]_vars
        => (OneRequest /\ Passed /\ NumbersDisjoint)'
  BY <1>2, OneRequestStep, DisjointStep
<1>4. Spec => [](TypeInv /\ BackupInv)
  BY <1>2, BackupInvariance
<1> QED
  BY <1>1, <1>3, <1>4, PTL DEF Spec
=============================================================================
