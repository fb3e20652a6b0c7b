--------------------------- MODULE TCPSocket_proofs ---------------------------
(***************************************************************************)
(* Proofs about the handlers of a socket, whatever loop calls them: what   *)
(* each of their steps does to the types, to the stream of cells a socket  *)
(* receives, and to the number of its messages that are buffered.          *)
(***************************************************************************)
EXTENDS TCPSocket, SequenceLemmas

(* What a step of a socket's handler leaves to the loop around it. *)
HandlerKeeps ==
  /\ SocketTypeOK'
  /\ NetworkTypeOK'
  /\ \A s \in Socket : fd'[s] = "open" => fd[s] = "open"
  /\ incoming # <<>> => incoming' # <<>>

-----------------------------------------------------------------------------
(* Messages and cells *)

(* A message is a sequence of two or three parts. *)
LEMMA PartsType ==
  /\ MessageSize \in {2, 3}
  /\ DOMAIN Parts = 1 .. MessageSize
  /\ \A i \in 1 .. MessageSize : Parts[i] \in ToSet(Parts)
<1>1. CASE SplitHeaders
  <2>1. Parts = <<"len", "head", "body">>
    BY <1>1 DEF Parts
  <2> QED BY <2>1 DEF MessageSize, ToSet
<1>2. CASE ~SplitHeaders
  <2>1. Parts = <<"head", "body">>
    BY <1>2 DEF Parts
  <2> QED BY <2>1 DEF MessageSize, ToSet
<1> QED BY <1>1, <1>2

(* What toBytes writes are cells. *)
LEMMA CellsOfType ==
  ASSUME NEW m \in Message
  PROVE  CellsOf(m) \in Seq(Cell)
<1>1. \A i \in 1 .. MessageSize : <<m, Parts[i]>> \in Cell
  BY PartsType DEF Cell
<1>2. MessageSize \in Nat
  BY PartsType
<1> QED BY <1>1, <1>2, PartsType, IsASeq DEF CellsOf

(* What a peer sends are cells of its messages. *)
LEMMA SentCellType ==
  ASSUME NEW s \in Socket, NEW i \in 1 .. MessageSize * Requests[s]
  PROVE  SentCell(s, i) \in Cell
<1> DEFINE k == ((i - 1) \div MessageSize) + 1
           p == ((i - 1) % MessageSize) + 1
<1>1. Requests[s] \in Nat
  BY NetworkAssumption
<1>2. k \in 1 .. Requests[s] /\ p \in 1 .. MessageSize
  <2>1. CASE MessageSize = 2
    BY <1>1, <2>1
  <2>2. CASE MessageSize = 3
    BY <1>1, <2>2
  <2> QED BY <2>1, <2>2, PartsType
<1>3. <<s, k>> \in Message
  BY <1>2 DEF Message
<1>4. Parts[p] \in ToSet(Parts)
  BY <1>2, PartsType
<1> QED BY <1>3, <1>4 DEF SentCell, Cell

(* A cell that was received belongs to a message. *)
LEMMA FirstMessageType ==
  ASSUME SocketTypeOK, NEW s \in Socket, recvBuffer[s] # <<>>
  PROVE  FirstMessage(s) \in Message
<1>1. recvBuffer[s] \in Seq(Cell)
  BY DEF SocketTypeOK
<1>2. recvBuffer[s][1] \in Cell
  BY <1>1, EmptySeq, ElementOfSeq
<1> QED BY <1>2 DEF Cell, FirstMessage

(* A suffix and a prefix of a sequence. *)
LEMMA PieceType ==
  ASSUME NEW S, NEW q \in Seq(S), NEW k \in 0 .. Len(q)
  PROVE  /\ SubSeq(q, k + 1, Len(q)) \in Seq(S)
         /\ SubSeq(q, 1, k) \in Seq(S)
         /\ Len(SubSeq(q, 1, k)) = k
<1>1. Len(q) \in Nat /\ \A i \in 1 .. Len(q) : q[i] \in S
  BY LenProperties, ElementOfSeq
<1>2. \A i \in k + 1 .. Len(q) : q[i] \in S
  BY <1>1
<1>3. \A i \in 1 .. k : q[i] \in S
  BY <1>1
<1>4. SubSeq(q, k + 1, Len(q)) \in Seq(S)
  BY <1>1, <1>2, SubSeqProperties
<1>5. SubSeq(q, 1, k) \in Seq(S) /\ Len(SubSeq(q, 1, k)) = k
  BY <1>1, <1>3, SubSeqProperties
<1> QED BY <1>4, <1>5

-----------------------------------------------------------------------------
(* The kernel and the peers *)

(* Peers act within the types. *)
LEMMA PeerNextType ==
  ASSUME NetworkTypeOK, PeerNext
  PROVE  NetworkTypeOK'
<1> USE DEF NetworkTypeOK
<1>1. PICK s \in Socket : \/ PeerConnect(s)
                          \/ PeerSend(s)
                          \/ PeerReceive(s)
                          \/ PeerClose(s)
                          \/ PeerReject(s)
  BY DEF PeerNext
<1>2. CASE PeerConnect(s)
  <2>1. backlog' \in Seq(Socket)
    BY <1>2, AppendProperties DEF PeerConnect
  <2> QED BY <1>2, <2>1 DEF PeerConnect, PeerState
<1>3. CASE PeerSend(s)
  <2>1. sent'[s] \in 1 .. MessageSize * Requests[s] /\ sent'[s] = sent[s] + 1
    <3>1. Requests[s] \in Nat /\ MessageSize * Requests[s] \in Nat
      BY NetworkAssumption, PartsType
    <3> QED BY <1>3, <3>1 DEF PeerSend
  <2>2. SentCell(s, sent'[s]) \in Cell
    BY <2>1, SentCellType
  <2>3. Append(inbox[s], SentCell(s, sent'[s])) \in Seq(Cell)
    BY <2>2, AppendProperties
  <2>4. inbox' \in [Socket -> Seq(Cell)]
    BY <1>3, <2>3 DEF PeerSend
  <2>5. sent' \in [Socket -> Nat]
    BY <1>3, SMTT(30) DEF PeerSend
  <2>6. \A t \in Socket : sent'[t] <= MessageSize * Requests[t]
    BY <1>3, <2>1 DEF PeerSend
  <2> QED BY <1>3, <2>4, <2>5, <2>6 DEF PeerSend
<1>4. CASE PeerReceive(s)
  <2>1. /\ Head(outbox[s]) \in Cell
        /\ Tail(outbox[s]) \in Seq(Cell)
        /\ Len(Tail(outbox[s])) = Len(outbox[s]) - 1
    BY <1>4, HeadTailProperties DEF PeerReceive
  <2>2. Append(received[s], Head(outbox[s])) \in Seq(Cell)
    BY <2>1, AppendProperties
  <2>3. received' \in [Socket -> Seq(Cell)] /\ outbox' \in [Socket -> Seq(Cell)]
    BY <1>4, <2>1, <2>2 DEF PeerReceive
  <2>4. \A t \in Socket : Len(outbox'[t]) <= SendRoom
    <3>1. Len(outbox[s]) \in Nat /\ SendRoom \in Nat
      BY LenProperties, NetworkAssumption
    <3>2. Len(outbox'[s]) <= SendRoom
      BY <1>4, <2>1, <3>1 DEF PeerReceive
    <3> QED BY <1>4, <3>2 DEF PeerReceive
  <2> QED BY <1>4, <2>3, <2>4 DEF PeerReceive
<1>5. ASSUME outbox' = [outbox EXCEPT ![s] = <<>>]
      PROVE  /\ outbox' \in [Socket -> Seq(Cell)]
             /\ \A t \in Socket : Len(outbox'[t]) <= SendRoom
  BY <1>5, EmptySeq, NetworkAssumption
<1>6. CASE PeerClose(s)
  BY <1>5, <1>6 DEF PeerClose, PeerState
<1>7. CASE PeerReject(s)
  BY <1>5, <1>7 DEF PeerReject, PeerState
<1> QED BY <1>1, <1>2, <1>3, <1>4, <1>6, <1>7

(* read() takes a prefix of what arrived. *)
LEMMA KernelReadType ==
  ASSUME NetworkTypeOK, NEW s \in Socket, NEW k \in Nat, KernelRead(s, k)
  PROVE  NetworkTypeOK' /\ SubSeq(inbox[s], 1, k) \in Seq(Cell)
<1>1. inbox[s] \in Seq(Cell) /\ k <= Len(inbox[s])
  BY DEF NetworkTypeOK, KernelRead
<1>2. k \in 0 .. Len(inbox[s])
  BY <1>1, LenProperties
<1>3. /\ SubSeq(inbox[s], k + 1, Len(inbox[s])) \in Seq(Cell)
      /\ SubSeq(inbox[s], 1, k) \in Seq(Cell)
  BY <1>1, <1>2, PieceType
<1> QED BY <1>3 DEF NetworkTypeOK, KernelRead

(* write() takes what there is room for. *)
LEMMA KernelWriteType ==
  ASSUME NetworkTypeOK, NEW s \in Socket, NEW cells \in Seq(Cell),
         KernelWrite(s, cells)
  PROVE  NetworkTypeOK'
<1>1. /\ outbox[s] \o cells \in Seq(Cell)
      /\ Len(outbox[s] \o cells) <= SendRoom
  BY ConcatProperties DEF NetworkTypeOK, KernelWrite
<1> QED BY <1>1 DEF NetworkTypeOK, KernelWrite

(* accept() takes the oldest connection. *)
LEMMA KernelAcceptType ==
  ASSUME NetworkTypeOK, NEW s \in Socket, KernelAccept(s)
  PROVE  NetworkTypeOK'
<1>1. Tail(backlog) \in Seq(Socket)
  BY HeadTailProperties DEF NetworkTypeOK, KernelAccept
<1> QED BY <1>1 DEF NetworkTypeOK, KernelAccept

-----------------------------------------------------------------------------
(* The handlers of a socket *)

(* A call record with a count in its range is a call. *)
LEMMA CallType ==
  ASSUME NEW op \in {"read", "extract", "write", "returned"}, NEW s \in Socket,
         NEW b \in -1 .. MaxBytesPerReadWrite + BlockSize
  PROVE  [op |-> op, sock |-> s, bytes |-> b] \in Calls
BY DEF Calls

(* A call that is not idle has a count in its range. *)
LEMMA CallBytes ==
  ASSUME SocketTypeOK, call # Idle
  PROVE  call.bytes \in -1 .. MaxBytesPerReadWrite + BlockSize
BY DEF SocketTypeOK, Calls

(* Handlers that leave the queues and buffers alone. *)
LEMMA CheckKeeps ==
  ASSUME SocketTypeOK, NetworkTypeOK, NEW s \in Socket, CheckNonBlockConnect(s)
  PROVE  HandlerKeeps
<1>1. call' \in Calls
  <2>1. -1 \in -1 .. MaxBytesPerReadWrite + BlockSize
        /\ 0 \in -1 .. MaxBytesPerReadWrite + BlockSize
    BY TCPSocketAssumption
  <2> QED BY <2>1, CallType DEF CheckNonBlockConnect, Return
<1>2. /\ fd' \in [Socket -> {"none", "open", "closed"}]
      /\ isConnected' \in [Socket -> BOOLEAN]
      /\ \A t \in Socket : fd'[t] = "open" => fd[t] = "open"
  BY DEF CheckNonBlockConnect, Close, SocketTypeOK
<1>3. UNCHANGED <<recvBuffer, sendBuffer, incoming, outgoing, network>>
  BY DEF CheckNonBlockConnect, queues
<1> QED BY <1>1, <1>2, <1>3
        DEF HandlerKeeps, SocketTypeOK, NetworkTypeOK, Queues!TypeOK, network

(* Starting a handler. *)
LEMMA StartKeeps ==
  ASSUME SocketTypeOK, NetworkTypeOK, NEW s \in Socket,
         StartReadable(s) \/ StartWritable(s)
  PROVE  HandlerKeeps
<1>1. CASE CheckNonBlockConnect(s)
  BY <1>1, CheckKeeps
<1>2. CASE ~CheckNonBlockConnect(s)
  <2>1. UNCHANGED <<sockets, queues, network>>
    BY <1>2 DEF StartReadable, StartWritable
  <2>2. 0 \in -1 .. MaxBytesPerReadWrite + BlockSize
    BY TCPSocketAssumption
  <2>3. call' \in Calls
    BY <1>2, <2>2, CallType DEF StartReadable, StartWritable, Return, Goto
  <2> QED BY <2>1, <2>3
          DEF HandlerKeeps, SocketTypeOK, NetworkTypeOK, Queues!TypeOK,
              network, sockets, queues
<1> QED BY <1>1, <1>2

(* A read appends to recvBuffer_; it starts below the limit of the pass. *)
LEMMA ReadDataKeeps ==
  ASSUME SocketTypeOK, NetworkTypeOK, NEW s \in Socket, ReadData(s)
  PROVE  HandlerKeeps
<1>1. PICK k \in 1 .. BlockSize :
        /\ KernelRead(s, k)
        /\ recvBuffer' = [recvBuffer EXCEPT ![s] = @ \o SubSeq(inbox[s], 1, k)]
        /\ Goto("read", s, call.bytes + k)
  BY DEF ReadData
<1>2. k \in Nat
  BY TCPSocketAssumption
<1>3. NetworkTypeOK' /\ SubSeq(inbox[s], 1, k) \in Seq(Cell)
  BY <1>1, <1>2, KernelReadType
<1>4. recvBuffer' \in [Socket -> Seq(Cell)]
  <2>1. recvBuffer[s] \o SubSeq(inbox[s], 1, k) \in Seq(Cell)
    BY <1>3, ConcatProperties DEF SocketTypeOK
  <2> QED BY <1>1, <2>1 DEF SocketTypeOK
<1>5. call' \in Calls
  <2>1. call.bytes \in -1 .. MaxBytesPerReadWrite + BlockSize
        /\ call.bytes < MaxBytesPerReadWrite
    BY CallBytes DEF ReadData, InLoop, Idle
  <2>2. call.bytes + k \in -1 .. MaxBytesPerReadWrite + BlockSize
    BY <2>1, TCPSocketAssumption
  <2> QED BY <1>1, <2>2, CallType DEF Goto
<1>6. UNCHANGED <<fd, isConnected, sendBuffer, incoming, outgoing>>
  BY DEF ReadData, queues
<1> QED BY <1>3, <1>4, <1>5, <1>6
        DEF HandlerKeeps, SocketTypeOK, Queues!TypeOK

(* The ends of the loops, which at most close the socket. *)
LEMMA LoopEndKeeps ==
  ASSUME SocketTypeOK, NetworkTypeOK, NEW s \in Socket,
         \/ ReadCloses(s) \/ ReadStops(s) \/ ExtractDone(s)
         \/ WriteCloses(s) \/ WriteStops(s)
  PROVE  HandlerKeeps
<1>1. /\ call # Idle
      /\ \E op \in {"extract", "returned"} :
           call' = [op |-> op, sock |-> s, bytes |-> call.bytes]
  BY DEF ReadCloses, ReadStops, ExtractDone, WriteCloses, WriteStops,
         InLoop, Idle, Goto, Return
<1>2. call' \in Calls
  BY <1>1, CallBytes, CallType
<1>3. /\ fd' \in [Socket -> {"none", "open", "closed"}]
      /\ \A t \in Socket : fd'[t] = "open" => fd[t] = "open"
  BY DEF ReadCloses, ReadStops, ExtractDone, WriteCloses, WriteStops,
         Close, SocketTypeOK, sockets
<1>4. UNCHANGED <<isConnected, recvBuffer, sendBuffer, incoming, outgoing, network>>
  BY DEF ReadCloses, ReadStops, ExtractDone, WriteCloses, WriteStops,
         sockets, queues
<1> QED BY <1>2, <1>3, <1>4
        DEF HandlerKeeps, SocketTypeOK, NetworkTypeOK, Queues!TypeOK, network

(* Dropping a prefix of recvBuffer_. *)
LEMMA DropFirstType ==
  ASSUME SocketTypeOK, NEW s \in Socket, NEW k \in 0 .. Len(recvBuffer[s]),
         DropFirst(s, k)
  PROVE  recvBuffer' \in [Socket -> Seq(Cell)]
<1>1. SubSeq(recvBuffer[s], k + 1, Len(recvBuffer[s])) \in Seq(Cell)
  BY PieceType DEF SocketTypeOK
<1> QED BY <1>1 DEF DropFirst, SocketTypeOK

(* A message leaves recvBuffer_, and joins queueIn_ unless it is unknown. *)
LEMMA ExtractOneKeeps ==
  ASSUME SocketTypeOK, NetworkTypeOK, NEW s \in Socket, ExtractOne(s)
  PROVE  HandlerKeeps
<1>1. /\ recvBuffer[s] # <<>> /\ Len(recvBuffer[s]) >= MessageSize
      /\ recvBuffer[s] \in Seq(Cell)
  BY DEF ExtractOne, HasWholeMessage, InStep, SocketTypeOK
<1>2. MessageSize \in 0 .. Len(recvBuffer[s])
  BY <1>1, PartsType, LenProperties
<1>3. recvBuffer' \in [Socket -> Seq(Cell)]
  BY <1>2, DropFirstType DEF ExtractOne
<1>4. /\ Queues!TypeOK'
      /\ incoming # <<>> => incoming' # <<>>
  <2>1. CASE FirstMessage(s) \in Unsupported
    BY <2>1 DEF ExtractOne, queues, SocketTypeOK, Queues!TypeOK
  <2>2. CASE FirstMessage(s) \notin Unsupported
    <3>1. [sock |-> s, msg |-> FirstMessage(s)] \in Queues!Envelope
      BY <1>1, FirstMessageType DEF Queues!Envelope
    <3>2. /\ incoming' = Append(incoming, [sock |-> s, msg |-> FirstMessage(s)])
          /\ UNCHANGED outgoing
      BY <2>2 DEF ExtractOne, Queues!Arrive
    <3>3. incoming' \in Seq(Queues!Envelope) /\ incoming' # <<>>
      BY <3>1, <3>2, AppendProperties, SMTT(30) DEF SocketTypeOK, Queues!TypeOK
    <3> QED BY <3>2, <3>3 DEF SocketTypeOK, Queues!TypeOK
  <2> QED BY <2>1, <2>2
<1>5. UNCHANGED <<fd, isConnected, sendBuffer, call, network>>
  BY DEF ExtractOne
<1> QED BY <1>3, <1>4, <1>5
        DEF HandlerKeeps, SocketTypeOK, NetworkTypeOK, network

(* Bytes that make no message leave recvBuffer_. *)
LEMMA ExtractDropsKeeps ==
  ASSUME SocketTypeOK, NetworkTypeOK, NEW s \in Socket,
         ExtractClears(s) \/ ExtractGarbage(s)
  PROVE  HandlerKeeps
<1>1. Len(recvBuffer[s]) \in Nat
  BY LenProperties DEF SocketTypeOK
<1>2. \E k \in 0 .. Len(recvBuffer[s]) : DropFirst(s, k)
  BY <1>1 DEF ExtractClears, ExtractGarbage
<1>3. recvBuffer' \in [Socket -> Seq(Cell)]
  BY <1>2, DropFirstType
<1>4. UNCHANGED <<fd, isConnected, sendBuffer, incoming, outgoing, call, network>>
  BY DEF ExtractClears, ExtractGarbage, queues
<1> QED BY <1>3, <1>4
        DEF HandlerKeeps, SocketTypeOK, NetworkTypeOK, Queues!TypeOK, network

(* The next message to send goes into sendBuffer_. *)
LEMMA PrintMessageKeeps ==
  ASSUME SocketTypeOK, NetworkTypeOK, NEW s \in Socket, PrintMessage(s)
  PROVE  HandlerKeeps
<1>1. outgoing[s] \in Seq(Message) /\ outgoing[s] # <<>>
  BY DEF PrintMessage, HasMessageToSend, SocketTypeOK, Queues!TypeOK
<1>2. Head(outgoing[s]) \in Message /\ Tail(outgoing[s]) \in Seq(Message)
  BY <1>1, HeadTailProperties
<1>3. CellsOf(Head(outgoing[s])) \in Seq(Cell)
  BY <1>2, CellsOfType
<1>4. sendBuffer' \in [Socket -> Seq(Cell)]
  BY <1>3 DEF PrintMessage, SocketTypeOK
<1>5. outgoing' \in [Socket -> Seq(Message)] /\ UNCHANGED incoming
  BY <1>2 DEF PrintMessage, Queues!Dequeue, SocketTypeOK, Queues!TypeOK
<1>6. UNCHANGED <<fd, isConnected, recvBuffer, call, network>>
  BY DEF PrintMessage
<1> QED BY <1>4, <1>5, <1>6
        DEF HandlerKeeps, SocketTypeOK, NetworkTypeOK, Queues!TypeOK, network

(* A write takes no more than a block, and no more than there is. *)
LEMMA WriteSize ==
  ASSUME SocketTypeOK, NEW s \in Socket, NEW k \in 1 .. Min({BlockSize, Len(sendBuffer[s])})
  PROVE  k \in 1 .. BlockSize /\ k \in 0 .. Len(sendBuffer[s])
<1>1. sendBuffer[s] \in Seq(Cell) /\ Len(sendBuffer[s]) \in Nat
  BY LenProperties DEF SocketTypeOK
<1>2. \E x \in {BlockSize, Len(sendBuffer[s])} :
        \A y \in {BlockSize, Len(sendBuffer[s])} : x <= y
  BY <1>1, TCPSocketAssumption
<1>3. /\ Min({BlockSize, Len(sendBuffer[s])}) \in {BlockSize, Len(sendBuffer[s])}
      /\ Min({BlockSize, Len(sendBuffer[s])}) <= BlockSize
      /\ Min({BlockSize, Len(sendBuffer[s])}) <= Len(sendBuffer[s])
  BY <1>2 DEF Min
<1> QED BY <1>1, <1>3, TCPSocketAssumption

(* A write takes from sendBuffer_; it starts below the limit of the pass. *)
LEMMA WriteDataKeeps ==
  ASSUME SocketTypeOK, NetworkTypeOK, NEW s \in Socket, WriteData(s)
  PROVE  HandlerKeeps
<1>1. sendBuffer[s] \in Seq(Cell) /\ Len(sendBuffer[s]) \in Nat
  BY LenProperties DEF SocketTypeOK
<1>2. PICK k \in 1 .. Min({BlockSize, Len(sendBuffer[s])}) :
        /\ KernelWrite(s, SubSeq(sendBuffer[s], 1, k))
        /\ sendBuffer' = [sendBuffer EXCEPT ![s] = SubSeq(@, k + 1, Len(@))]
        /\ Goto("write", s, call.bytes + k)
  BY DEF WriteData
<1>3. k \in 1 .. BlockSize /\ k \in 0 .. Len(sendBuffer[s])
  BY WriteSize
<1>4. /\ SubSeq(sendBuffer[s], k + 1, Len(sendBuffer[s])) \in Seq(Cell)
      /\ SubSeq(sendBuffer[s], 1, k) \in Seq(Cell)
  BY <1>1, <1>3, PieceType
<1>5. NetworkTypeOK'
  BY <1>2, <1>4, KernelWriteType
<1>6. sendBuffer' \in [Socket -> Seq(Cell)]
  BY <1>2, <1>4 DEF SocketTypeOK
<1>7. call' \in Calls
  <2>1. call.bytes \in -1 .. MaxBytesPerReadWrite + BlockSize
        /\ call.bytes < MaxBytesPerReadWrite
    BY CallBytes DEF WriteData, InLoop, Idle
  <2>2. call.bytes + k \in -1 .. MaxBytesPerReadWrite + BlockSize
    BY <1>3, <2>1, TCPSocketAssumption
  <2> QED BY <1>2, <2>2, CallType DEF Goto
<1>8. UNCHANGED <<fd, isConnected, recvBuffer, incoming, outgoing>>
  BY DEF WriteData, queues
<1> QED BY <1>5, <1>6, <1>7, <1>8
        DEF HandlerKeeps, SocketTypeOK, Queues!TypeOK

(* Every step of a handler. *)
LEMMA HandlerStepKeeps ==
  ASSUME SocketTypeOK, NetworkTypeOK, NEW s \in Socket, HandlerStep(s)
  PROVE  HandlerKeeps
BY ReadDataKeeps, LoopEndKeeps, ExtractOneKeeps, ExtractDropsKeeps,
   PrintMessageKeeps, WriteDataKeeps DEF HandlerStep

-----------------------------------------------------------------------------
(* The stream a socket receives *)

(* From cell n + 1 on, the stream of s lies in rb and then in ib. *)
Runs(s, n, rb, ib) ==
  /\ n \in Nat
  /\ \A i \in 1 .. Len(rb) : rb[i] = SentCell(s, n + i)
  /\ \A i \in 1 .. Len(ib) : ib[i] = SentCell(s, n + Len(rb) + i)

(* How many cells were sent on s and have left recvBuffer_. *)
Taken(s) == sent[s] - Len(recvBuffer[s]) - Len(inbox[s])

(* recvBuffer_ and what was not read are what was sent, without a gap. *)
Stream == \A s \in Socket : Runs(s, Taken(s), recvBuffer[s], inbox[s])

(* Whole messages have left recvBuffer_. *)
Whole == \A s \in Socket : Taken(s) % MessageSize = 0

(* The message of e is supported, and one of the first n cells of its socket. *)
Came(e, n) ==
  /\ e.msg[1] = e.sock
  /\ MessageSize * e.msg[2] <= n
  /\ e.msg \notin Unsupported

(* A queued message came on its socket, all of it, and is supported. *)
Extracted ==
  \A i \in 1 .. Len(incoming), s \in Socket :
    incoming[i].sock = s => Came(incoming[i], Taken(s))

(* What is left of a sequence, and what is taken, element by element. *)
LEMMA PieceElements ==
  ASSUME NEW S, NEW q \in Seq(S), NEW k \in 0 .. Len(q)
  PROVE  /\ Len(SubSeq(q, k + 1, Len(q))) = Len(q) - k
         /\ \A i \in 1 .. Len(q) - k : SubSeq(q, k + 1, Len(q))[i] = q[k + i]
         /\ \A i \in 1 .. k : SubSeq(q, 1, k)[i] = q[i]
<1>1. Len(q) \in Nat /\ \A i \in 1 .. Len(q) : q[i] \in S
  BY LenProperties, ElementOfSeq
<1>2. \A i \in k + 1 .. Len(q) : q[i] \in S
  BY <1>1
<1>3. \A i \in 1 .. k : q[i] \in S
  BY <1>1
<1>4. /\ Len(SubSeq(q, k + 1, Len(q))) = Len(q) - k
      /\ \A i \in 1 .. Len(q) - k : SubSeq(q, k + 1, Len(q))[i] = q[k + i]
  BY <1>1, <1>2, SubSeqProperties
<1>5. \A i \in 1 .. k : SubSeq(q, 1, k)[i] = q[i]
  BY <1>1, <1>3, SubSeqProperties
<1> QED BY <1>4, <1>5

(* A read moves cells from one sequence to the other. *)
LEMMA RunsRead ==
  ASSUME NEW s, NEW n, NEW rb \in Seq(Cell), NEW ib \in Seq(Cell),
         NEW k \in 0 .. Len(ib), Runs(s, n, rb, ib)
  PROVE  /\ Runs(s, n, rb \o SubSeq(ib, 1, k), SubSeq(ib, k + 1, Len(ib)))
         /\ Len(rb \o SubSeq(ib, 1, k)) = Len(rb) + k
         /\ Len(SubSeq(ib, k + 1, Len(ib))) = Len(ib) - k
<1> DEFINE a == SubSeq(ib, 1, k)
           rb2 == rb \o a
           ib2 == SubSeq(ib, k + 1, Len(ib))
<1>1. a \in Seq(Cell) /\ Len(a) = k /\ \A i \in 1 .. k : a[i] = ib[i]
  BY PieceType, PieceElements
<1>2. /\ Len(ib2) = Len(ib) - k
      /\ \A i \in 1 .. Len(ib) - k : ib2[i] = ib[k + i]
  BY PieceElements
<1>3. Len(rb) \in Nat /\ Len(ib) \in Nat /\ n \in Nat /\ k \in Nat /\ k <= Len(ib)
  BY LenProperties DEF Runs
<1> HIDE DEF a
<1>5. /\ Len(rb2) = Len(rb) + k
      /\ \A i \in 1 .. Len(rb) + k :
           rb2[i] = IF i <= Len(rb) THEN rb[i] ELSE a[i - Len(rb)]
  BY <1>1, ConcatProperties
<1> HIDE DEF rb2, ib2
<1>6. ASSUME NEW i \in 1 .. Len(rb2)
      PROVE  rb2[i] = SentCell(s, n + i)
  <2>1. CASE i <= Len(rb)
    BY <1>3, <1>5, <2>1 DEF Runs
  <2>2. CASE i > Len(rb)
    <3> DEFINE j == i - Len(rb)
    <3>1. j \in 1 .. k /\ j \in 1 .. Len(ib) /\ n + Len(rb) + j = n + i
      BY <1>3, <1>5, <2>2
    <3>2. rb2[i] = a[j]
      BY <1>3, <1>5, <2>2
    <3> HIDE DEF j
    <3>3. rb2[i] = SentCell(s, n + Len(rb) + j)
      BY <1>1, <3>1, <3>2 DEF Runs
    <3> QED BY <3>1, <3>3
  <2> QED BY <1>3, <2>1, <2>2
<1>7. ASSUME NEW i \in 1 .. Len(ib2)
      PROVE  ib2[i] = SentCell(s, n + Len(rb2) + i)
  <2> DEFINE j == k + i
  <2>1. j \in 1 .. Len(ib) /\ n + Len(rb) + j = n + Len(rb2) + i
    BY <1>2, <1>3, <1>5
  <2>2. ib2[i] = ib[j]
    BY <1>2
  <2> HIDE DEF j
  <2>3. ib2[i] = SentCell(s, n + Len(rb) + j)
    BY <2>1, <2>2 DEF Runs
  <2> QED BY <2>1, <2>3
<1>8. Runs(s, n, rb2, ib2)
  BY <1>3, <1>6, <1>7 DEF Runs
<1> QED BY <1>2, <1>5, <1>8 DEF rb2, ib2, a

(* Cells leave the front. *)
LEMMA RunsDrop ==
  ASSUME NEW s, NEW n, NEW rb \in Seq(Cell), NEW ib \in Seq(Cell),
         NEW k \in 0 .. Len(rb), Runs(s, n, rb, ib)
  PROVE  /\ Runs(s, n + k, SubSeq(rb, k + 1, Len(rb)), ib)
         /\ Len(SubSeq(rb, k + 1, Len(rb))) = Len(rb) - k
<1> DEFINE rb2 == SubSeq(rb, k + 1, Len(rb))
<1>1. /\ Len(rb2) = Len(rb) - k
      /\ \A i \in 1 .. Len(rb) - k : rb2[i] = rb[k + i]
  BY PieceElements
<1>2. Len(rb) \in Nat /\ Len(ib) \in Nat /\ n \in Nat /\ k \in Nat /\ k <= Len(rb)
  BY LenProperties DEF Runs
<1> HIDE DEF rb2
<1>3. ASSUME NEW i \in 1 .. Len(rb2)
      PROVE  rb2[i] = SentCell(s, (n + k) + i)
  <2> DEFINE j == k + i
  <2>1. j \in 1 .. Len(rb) /\ n + j = (n + k) + i
    BY <1>1, <1>2
  <2>2. rb2[i] = rb[j]
    BY <1>1
  <2> HIDE DEF j
  <2>3. rb2[i] = SentCell(s, n + j)
    BY <2>1, <2>2 DEF Runs
  <2> QED BY <2>1, <2>3
<1>4. ASSUME NEW i \in 1 .. Len(ib)
      PROVE  ib[i] = SentCell(s, (n + k) + Len(rb2) + i)
  <2>1. n + Len(rb) + i = (n + k) + Len(rb2) + i
    BY <1>1, <1>2
  <2> QED BY <2>1 DEF Runs
<1>5. Runs(s, n + k, rb2, ib)
  BY <1>1, <1>2, <1>3, <1>4 DEF Runs
<1> QED BY <1>1, <1>5 DEF rb2

(* The next cell arrives. *)
LEMMA RunsSend ==
  ASSUME NEW s, NEW n, NEW rb \in Seq(Cell), NEW ib \in Seq(Cell),
         Runs(s, n, rb, ib), NEW m, m = n + Len(rb) + Len(ib) + 1,
         SentCell(s, m) \in Cell
  PROVE  /\ Runs(s, n, rb, Append(ib, SentCell(s, m)))
         /\ Len(Append(ib, SentCell(s, m))) = Len(ib) + 1
<1> DEFINE ib2 == Append(ib, SentCell(s, m))
<1>1. /\ Len(ib2) = Len(ib) + 1
      /\ \A i \in 1 .. Len(ib) : ib2[i] = ib[i]
      /\ ib2[Len(ib) + 1] = SentCell(s, m)
  BY AppendProperties
<1> HIDE DEF ib2
<1>2. Len(rb) \in Nat /\ Len(ib) \in Nat /\ n \in Nat
  BY LenProperties DEF Runs
<1>3. ASSUME NEW i \in 1 .. Len(ib2)
      PROVE  ib2[i] = SentCell(s, n + Len(rb) + i)
  <2>1. CASE i = Len(ib) + 1
    <3>1. m = n + Len(rb) + i
      BY <1>2, <2>1
    <3> QED BY <1>1, <2>1, <3>1
  <2>2. CASE i \in 1 .. Len(ib)
    BY <1>1, <2>2 DEF Runs
  <2> QED BY <1>1, <1>2, <2>1, <2>2
<1>4. Runs(s, n, rb, ib2)
  BY <1>2, <1>3 DEF Runs
<1> QED BY <1>1, <1>4 DEF ib2

(* What does not touch the stream. *)
LEMMA StreamFrame ==
  ASSUME Stream, UNCHANGED <<sent, recvBuffer, inbox>>
  PROVE  Stream' /\ \A t \in Socket : Taken(t)' = Taken(t)
BY DEF Stream, Taken, Runs

(* Peers send the next cell of the stream; the rest of what they do is of  *)
(* no concern here.                                                        *)
LEMMA PeerStream ==
  ASSUME SocketTypeOK, NetworkTypeOK, Stream, PeerNext, UNCHANGED recvBuffer
  PROVE  Stream' /\ \A t \in Socket : Taken(t)' = Taken(t)
<1>1. CASE UNCHANGED <<sent, inbox>>
  BY <1>1, StreamFrame
<1>2. CASE \E s \in Socket : PeerSend(s)
  <2>1. PICK s \in Socket : PeerSend(s)
    BY <1>2
  <2> DEFINE m == sent[s] + 1
  <2>2. /\ sent[s] \in Nat /\ m \in 1 .. MessageSize * Requests[s]
        /\ sent' = [sent EXCEPT ![s] = m]
        /\ inbox' = [inbox EXCEPT ![s] = Append(@, SentCell(s, m))]
    <3>1. Requests[s] \in Nat /\ MessageSize * Requests[s] \in Nat
      BY NetworkAssumption, PartsType
    <3>2. sent[s] \in Nat /\ sent[s] < MessageSize * Requests[s] /\ sent'[s] = m
      BY <2>1 DEF PeerSend, NetworkTypeOK
    <3>3. m \in 1 .. MessageSize * Requests[s]
      BY <3>1, <3>2
    <3> HIDE DEF m
    <3>4. /\ sent' = [sent EXCEPT ![s] = m]
          /\ inbox' = [inbox EXCEPT ![s] = Append(@, SentCell(s, m))]
      BY <2>1, <3>2 DEF PeerSend, m
    <3> QED BY <3>2, <3>3, <3>4
  <2>3. recvBuffer[s] \in Seq(Cell) /\ inbox[s] \in Seq(Cell)
    BY DEF SocketTypeOK, NetworkTypeOK
  <2>4. Runs(s, Taken(s), recvBuffer[s], inbox[s])
    BY DEF Stream
  <2>5. m = Taken(s) + Len(recvBuffer[s]) + Len(inbox[s]) + 1
    BY <2>2, <2>3, LenProperties DEF Taken
  <2> HIDE DEF m
  <2>6. SentCell(s, m) \in Cell
    BY <2>2, SentCellType
  <2>7. /\ Runs(s, Taken(s), recvBuffer[s], Append(inbox[s], SentCell(s, m)))
        /\ Len(Append(inbox[s], SentCell(s, m))) = Len(inbox[s]) + 1
    <3> DEFINE n == Taken(s)
               rb == recvBuffer[s]
               ib == inbox[s]
    <3> HIDE DEF n, rb, ib
    <3>1. rb \in Seq(Cell) /\ ib \in Seq(Cell) /\ Runs(s, n, rb, ib)
          /\ m = n + Len(rb) + Len(ib) + 1
      BY <2>3, <2>4, <2>5 DEF n, rb, ib
    <3>2. /\ Runs(s, n, rb, Append(ib, SentCell(s, m)))
          /\ Len(Append(ib, SentCell(s, m))) = Len(ib) + 1
      BY <2>6, <3>1, RunsSend
    <3> QED BY <3>2 DEF n, rb, ib
  <2>8. /\ inbox'[s] = Append(inbox[s], SentCell(s, m)) /\ sent'[s] = m
        /\ \A t \in Socket : t # s => inbox'[t] = inbox[t] /\ sent'[t] = sent[t]
    BY <2>2 DEF NetworkTypeOK
  <2>9. Taken(s)' = Taken(s)
    BY <2>2, <2>3, <2>7, <2>8, LenProperties DEF Taken, m
  <2>10. ASSUME NEW t \in Socket, t # s
         PROVE  Taken(t)' = Taken(t) /\ Runs(t, Taken(t), recvBuffer'[t], inbox'[t])
    BY <2>8, <2>10 DEF Taken, Stream
  <2>11. \A t \in Socket : Taken(t)' = Taken(t)
    BY <2>9, <2>10
  <2>12. \A t \in Socket : Runs(t, Taken(t), recvBuffer'[t], inbox'[t])
    BY <2>7, <2>8, <2>10
  <2> QED BY <2>11, <2>12 DEF Stream
<1>3. UNCHANGED <<sent, inbox>> \/ \E s \in Socket : PeerSend(s)
  BY DEF PeerNext, PeerConnect, PeerReceive, PeerClose, PeerReject
<1> QED BY <1>1, <1>2, <1>3

(* A read moves cells from the kernel into recvBuffer_. *)
LEMMA ReadStream ==
  ASSUME SocketTypeOK, NetworkTypeOK, Stream, NEW s \in Socket, ReadData(s)
  PROVE  Stream' /\ \A t \in Socket : Taken(t)' = Taken(t)
<1>1. PICK k \in 1 .. BlockSize :
        /\ KernelRead(s, k)
        /\ recvBuffer' = [recvBuffer EXCEPT ![s] = @ \o SubSeq(inbox[s], 1, k)]
  BY DEF ReadData
<1>2. recvBuffer[s] \in Seq(Cell) /\ inbox[s] \in Seq(Cell) /\ sent[s] \in Nat
  BY DEF SocketTypeOK, NetworkTypeOK
<1>3. k \in 0 .. Len(inbox[s])
  BY <1>1, <1>2, LenProperties, TCPSocketAssumption DEF KernelRead
<1>4. /\ recvBuffer'[s] = recvBuffer[s] \o SubSeq(inbox[s], 1, k)
      /\ inbox'[s] = SubSeq(inbox[s], k + 1, Len(inbox[s]))
      /\ sent' = sent
      /\ \A t \in Socket : t # s => inbox'[t] = inbox[t] /\ recvBuffer'[t] = recvBuffer[t]
  BY <1>1 DEF KernelRead, SocketTypeOK, NetworkTypeOK
<1>5. Runs(s, Taken(s), recvBuffer[s], inbox[s])
  BY DEF Stream
<1>6. /\ Runs(s, Taken(s), recvBuffer'[s], inbox'[s])
      /\ Len(recvBuffer'[s]) = Len(recvBuffer[s]) + k
      /\ Len(inbox'[s]) = Len(inbox[s]) - k
  <2> DEFINE n == Taken(s)
             rb == recvBuffer[s]
             ib == inbox[s]
  <2> HIDE DEF n, rb, ib
  <2>1. rb \in Seq(Cell) /\ ib \in Seq(Cell) /\ k \in 0 .. Len(ib) /\ Runs(s, n, rb, ib)
    BY <1>2, <1>3, <1>5 DEF n, rb, ib
  <2>2. /\ Runs(s, n, rb \o SubSeq(ib, 1, k), SubSeq(ib, k + 1, Len(ib)))
        /\ Len(rb \o SubSeq(ib, 1, k)) = Len(rb) + k
        /\ Len(SubSeq(ib, k + 1, Len(ib))) = Len(ib) - k
    BY <2>1, RunsRead
  <2> QED BY <1>4, <2>2 DEF n, rb, ib
<1>7. Taken(s)' = Taken(s)
  BY <1>2, <1>3, <1>4, <1>6, LenProperties DEF Taken
<1>8. \A t \in Socket : t # s => Taken(t)' = Taken(t)
  BY <1>4 DEF Taken
<1>9. \A t \in Socket : Runs(t, Taken(t), recvBuffer'[t], inbox'[t])
  BY <1>4, <1>6 DEF Stream
<1> QED BY <1>7, <1>8, <1>9 DEF Stream

(* Cells leave recvBuffer_. *)
LEMMA DropStream ==
  ASSUME SocketTypeOK, NetworkTypeOK, Stream, NEW s \in Socket,
         NEW k \in 0 .. Len(recvBuffer[s]), DropFirst(s, k),
         UNCHANGED <<sent, inbox>>
  PROVE  /\ Stream'
         /\ Taken(s)' = Taken(s) + k
         /\ \A t \in Socket : t # s => Taken(t)' = Taken(t)
<1>1. recvBuffer[s] \in Seq(Cell) /\ inbox[s] \in Seq(Cell) /\ sent[s] \in Nat
  BY DEF SocketTypeOK, NetworkTypeOK
<1>2. /\ recvBuffer'[s] = SubSeq(recvBuffer[s], k + 1, Len(recvBuffer[s]))
      /\ \A t \in Socket : t # s => recvBuffer'[t] = recvBuffer[t]
  BY DEF DropFirst, SocketTypeOK
<1>3. Runs(s, Taken(s), recvBuffer[s], inbox[s])
  BY DEF Stream
<1>4. /\ Runs(s, Taken(s) + k, recvBuffer'[s], inbox[s])
      /\ Len(recvBuffer'[s]) = Len(recvBuffer[s]) - k
  BY <1>1, <1>2, <1>3, RunsDrop
<1>5. Taken(s)' = Taken(s) + k
  BY <1>1, <1>4, LenProperties DEF Taken
<1>6. \A t \in Socket : t # s => Taken(t)' = Taken(t)
  BY <1>2 DEF Taken
<1>7. Runs(s, Taken(s)', recvBuffer'[s], inbox'[s])
  BY <1>4, <1>5
<1>8. \A t \in Socket : t # s => Runs(t, Taken(t)', recvBuffer'[t], inbox'[t])
  BY <1>2, <1>6 DEF Stream
<1> QED BY <1>5, <1>6, <1>7, <1>8 DEF Stream

(* The first message of a buffer in step is the next one of the stream. *)
LEMMA FirstOfStream ==
  ASSUME SocketTypeOK, NetworkTypeOK, Stream, NEW s \in Socket, InStep(s)
  PROVE  /\ Taken(s) % MessageSize = 0
         /\ FirstMessage(s) = <<s, (Taken(s) \div MessageSize) + 1>>
<1>1. Len(recvBuffer[s]) \in Nat /\ Len(recvBuffer[s]) > 0
  BY EmptySeq, LenProperties DEF SocketTypeOK, InStep
<1>2. Taken(s) \in Nat /\ recvBuffer[s][1] = SentCell(s, Taken(s) + 1)
  BY <1>1 DEF Stream, Runs
<1> DEFINE n == Taken(s)
<1>3. recvBuffer[s][1] = << <<s, (n \div MessageSize) + 1>>, Parts[(n % MessageSize) + 1] >>
  <2>1. (n + 1) - 1 = n
    BY <1>2
  <2> QED BY <1>2, <2>1 DEF SentCell
<1>4. Parts[(n % MessageSize) + 1] = Parts[1]
  BY <1>3 DEF InStep
<1>5. n % MessageSize \in 0 .. MessageSize - 1
  <2> HIDE DEF n
  <2>1. MessageSize = 2 => n % MessageSize \in 0 .. 1
    BY <1>2 DEF n
  <2>2. MessageSize = 3 => n % MessageSize \in 0 .. 2
    BY <1>2 DEF n
  <2> QED BY <2>1, <2>2, PartsType
<1>6. \A i \in 1 .. MessageSize : Parts[i] = Parts[1] => i = 1
  BY DEF MessageSize, Parts
<1>7. n % MessageSize = 0
  <2> DEFINE r == n % MessageSize
  <2> HIDE DEF r
  <2>1. r \in 0 .. MessageSize - 1 /\ Parts[r + 1] = Parts[1]
    BY <1>4, <1>5 DEF r
  <2>2. r + 1 \in 1 .. MessageSize
    BY <2>1, PartsType
  <2>3. r + 1 = 1
    BY <1>6, <2>1, <2>2
  <2> QED BY <2>1, <2>3 DEF r
<1> QED BY <1>3, <1>7 DEF FirstMessage

(* What a handler's step may do to the stream: take from its front. *)
StreamSteps ==
  /\ Stream'
  /\ \A t \in Socket : Taken(t)' \in Nat /\ Taken(t)' >= Taken(t)

(* A whole message leaves recvBuffer_. *)
LEMMA ExtractOneStream ==
  ASSUME SocketTypeOK, NetworkTypeOK, Stream, NEW s \in Socket, ExtractOne(s)
  PROVE  /\ Stream'
         /\ Taken(s)' = Taken(s) + MessageSize
         /\ \A t \in Socket : t # s => Taken(t)' = Taken(t)
<1>1. MessageSize \in 0 .. Len(recvBuffer[s])
  BY PartsType, LenProperties DEF ExtractOne, HasWholeMessage, SocketTypeOK
<1>2. DropFirst(s, MessageSize) /\ UNCHANGED <<sent, inbox>>
  BY DEF ExtractOne, network
<1> QED BY <1>1, <1>2, DropStream

(* Every step of a handler. *)
LEMMA StepStream ==
  ASSUME SocketTypeOK, NetworkTypeOK, Stream, NEW s \in Socket, HandlerStep(s)
  PROVE  StreamSteps
<1>1. \A t \in Socket : Taken(t) \in Nat
  BY DEF Stream, Runs
<1>2. CASE ReadData(s)
  BY <1>1, <1>2, ReadStream DEF StreamSteps
<1>3. CASE ExtractOne(s)
  BY <1>1, <1>3, ExtractOneStream, PartsType DEF StreamSteps
<1>4. CASE ExtractClears(s) \/ ExtractGarbage(s)
  <2>1. Len(recvBuffer[s]) \in Nat
    BY LenProperties DEF SocketTypeOK
  <2>2. PICK k \in 0 .. Len(recvBuffer[s]) : DropFirst(s, k)
    BY <1>4, <2>1 DEF ExtractClears, ExtractGarbage
  <2>3. UNCHANGED <<sent, inbox>>
    BY <1>4 DEF ExtractClears, ExtractGarbage, network
  <2>4. /\ Stream'
        /\ Taken(s)' = Taken(s) + k
        /\ \A t \in Socket : t # s => Taken(t)' = Taken(t)
    BY <2>2, <2>3, DropStream
  <2> QED BY <1>1, <2>1, <2>4 DEF StreamSteps
<1>5. CASE \/ ReadCloses(s) \/ ReadStops(s) \/ ExtractDone(s) \/ PrintMessage(s)
           \/ WriteData(s) \/ WriteCloses(s) \/ WriteStops(s)
  <2>1. UNCHANGED <<sent, recvBuffer, inbox>>
    BY <1>5 DEF ReadCloses, ReadStops, ExtractDone, PrintMessage, WriteData,
                WriteCloses, WriteStops, KernelWrite, sockets, network
  <2> QED BY <1>1, <2>1, StreamFrame DEF StreamSteps
<1> QED BY <1>2, <1>3, <1>4, <1>5 DEF HandlerStep

(* The start of a handler. *)
LEMMA StartStream ==
  ASSUME Stream, NEW s \in Socket, StartReadable(s) \/ StartWritable(s)
  PROVE  /\ Stream'
         /\ \A t \in Socket : Taken(t)' = Taken(t)
         /\ UNCHANGED queues
<1>1. UNCHANGED <<sent, recvBuffer, inbox, queues>>
  BY DEF StartReadable, StartWritable, CheckNonBlockConnect, sockets, network
<1> QED BY <1>1, StreamFrame

(* What has come stays so, as no cell is given back. *)
LEMMA CameLater ==
  ASSUME NEW e \in Queues!Envelope, NEW m \in Nat, NEW n \in Nat, m <= n, Came(e, m)
  PROVE  Came(e, n)
<1> DEFINE c == MessageSize * e.msg[2]
<1>1. e.msg[2] \in Nat
  BY NetworkAssumption DEF Queues!Envelope, Message
<1>2. c \in Nat
  BY <1>1, PartsType
<1>3. c <= m
  BY DEF Came
<1> HIDE DEF c
<1>4. c <= n
  BY <1>2, <1>3
<1> QED BY <1>4 DEF Came, c

(* Queued messages stay when nothing is queued. *)
LEMMA ExtractedFrame ==
  ASSUME SocketTypeOK, Stream, Extracted, UNCHANGED incoming,
         \A t \in Socket : Taken(t)' \in Nat /\ Taken(t)' >= Taken(t)
  PROVE  Extracted'
<1>1. ASSUME NEW i \in 1 .. Len(incoming), NEW s \in Socket, incoming[i].sock = s
      PROVE  Came(incoming[i], Taken(s)')
  <2> DEFINE e == incoming[i]
             m == Taken(s)
             n == Taken(s)'
  <2>1. e \in Queues!Envelope
    BY ElementOfSeq DEF SocketTypeOK, Queues!TypeOK
  <2>2. m \in Nat /\ n \in Nat /\ m <= n
    BY DEF Stream, Runs
  <2>3. Came(e, m)
    BY <1>1 DEF Extracted
  <2> HIDE DEF e, m, n
  <2>4. Came(e, n)
    BY <2>1, <2>2, <2>3, CameLater
  <2> QED BY <2>4 DEF e, n
<1> QED BY <1>1 DEF Extracted

(* The center takes the oldest message. *)
LEMMA ExtractedTail ==
  ASSUME SocketTypeOK, Extracted, incoming # <<>>, incoming' = Tail(incoming),
         \A t \in Socket : Taken(t)' = Taken(t)
  PROVE  Extracted'
<1>1. incoming \in Seq(Queues!Envelope)
  BY DEF SocketTypeOK, Queues!TypeOK
<1>2. /\ Len(incoming') = Len(incoming) - 1
      /\ \A i \in 1 .. Len(incoming') : incoming'[i] = incoming[i + 1]
      /\ Len(incoming) \in Nat
  BY <1>1, HeadTailProperties, LenProperties
<1>3. ASSUME NEW i \in 1 .. Len(incoming'), NEW s \in Socket, incoming'[i].sock = s
      PROVE  Came(incoming'[i], Taken(s)')
  <2> DEFINE j == i + 1
  <2>1. j \in 1 .. Len(incoming) /\ incoming'[i] = incoming[j]
    BY <1>2
  <2> HIDE DEF j
  <2>2. Came(incoming[j], Taken(s))
    BY <1>3, <2>1 DEF Extracted
  <2> QED BY <2>1, <2>2
<1> QED BY <1>3 DEF Extracted

(* Every step of a handler. *)
LEMMA StepExtracted ==
  ASSUME SocketTypeOK, NetworkTypeOK, Stream, Extracted, NEW s \in Socket, HandlerStep(s)
  PROVE  Extracted'
<1>1. CASE UNCHANGED incoming
  BY <1>1, StepStream, ExtractedFrame DEF StreamSteps
<1>2. CASE ExtractOne(s) /\ FirstMessage(s) \notin Unsupported
  <2> DEFINE m == FirstMessage(s)
             e == [sock |-> s, msg |-> m]
             n == Taken(s) \div MessageSize
  <2>1. /\ Stream'
        /\ Taken(s)' = Taken(s) + MessageSize
        /\ \A t \in Socket : t # s => Taken(t)' = Taken(t)
    BY <1>2, ExtractOneStream
  <2>2. Taken(s) % MessageSize = 0 /\ m = <<s, n + 1>>
    BY <1>2, FirstOfStream DEF ExtractOne, HasWholeMessage
  <2>3. Taken(s) \in Nat
    BY DEF Stream, Runs
  <2>4. MessageSize * (n + 1) = Taken(s)'
    <3>1. MessageSize = 2 => 2 * n = Taken(s)
      BY <2>2, <2>3
    <3>2. MessageSize = 3 => 3 * n = Taken(s)
      BY <2>2, <2>3
    <3>3. n \in Nat
      BY <2>3, PartsType
    <3> HIDE DEF n
    <3> QED BY <2>1, <3>1, <3>2, <3>3, PartsType
  <2>5. incoming' = Append(incoming, e)
    BY <1>2 DEF ExtractOne, Queues!Arrive
  <2>6. incoming \in Seq(Queues!Envelope) /\ Len(incoming) \in Nat
    BY LenProperties DEF SocketTypeOK, Queues!TypeOK
  <2>7. e \in Queues!Envelope
    BY <1>2, FirstMessageType DEF ExtractOne, HasWholeMessage, InStep, Queues!Envelope
  <2>8. /\ Len(incoming') = Len(incoming) + 1
        /\ \A i \in 1 .. Len(incoming) : incoming'[i] = incoming[i]
        /\ incoming'[Len(incoming) + 1] = e
    BY <2>5, <2>6, <2>7, AppendProperties
  <2>9. Came(e, Taken(s)') /\ e.sock = s
    <3>1. e.sock = s /\ e.msg = m
      OBVIOUS
    <3>2. m[1] = s /\ m[2] = n + 1 /\ m \notin Unsupported
      BY <1>2, <2>2
    <3>3. Taken(s)' \in Nat
      BY <2>1, <2>3, PartsType
    <3> DEFINE k == Taken(s)'
               c == MessageSize * (n + 1)
    <3> HIDE DEF e, m, n, k
    <3>4. c = k /\ k \in Nat
      BY <2>4, <3>3 DEF k
    <3>5. MessageSize * m[2] = c
      BY <3>2
    <3>6. MessageSize * m[2] <= k
      <4> HIDE DEF c
      <4> QED BY <3>4, <3>5
    <3> QED BY <3>1, <3>2, <3>6 DEF Came, k
  <2>10. ASSUME NEW i \in 1 .. Len(incoming), NEW t \in Socket, incoming[i].sock = t
         PROVE  Came(incoming[i], Taken(t)')
    <3> DEFINE f == incoming[i]
               a == Taken(t)
               b == Taken(t)'
    <3>1. f \in Queues!Envelope
      BY <2>6, ElementOfSeq
    <3>2. a \in Nat
      BY DEF Stream, Runs
    <3>3. b = a \/ b = a + MessageSize
      BY <2>1
    <3>4. Came(f, a)
      BY <2>10 DEF Extracted
    <3> HIDE DEF f, a, b
    <3>5. b \in Nat /\ a <= b
      BY <3>2, <3>3, PartsType
    <3>6. Came(f, b)
      BY <3>1, <3>2, <3>4, <3>5, CameLater
    <3> QED BY <3>6 DEF f, b
  <2>11. ASSUME NEW i \in 1 .. Len(incoming'), NEW t \in Socket, incoming'[i].sock = t
         PROVE  Came(incoming'[i], Taken(t)')
    <3>1. i \in 1 .. Len(incoming) \/ i = Len(incoming) + 1
      BY <2>6, <2>8
    <3> HIDE DEF e
    <3>2. CASE i \in 1 .. Len(incoming)
      BY <2>8, <2>10, <2>11, <3>2
    <3>3. CASE i = Len(incoming) + 1
      BY <2>8, <2>9, <2>11, <3>3
    <3> QED BY <3>1, <3>2, <3>3
  <2> QED BY <2>11 DEF Extracted
<1>3. UNCHANGED incoming \/ (ExtractOne(s) /\ FirstMessage(s) \notin Unsupported)
  BY DEF HandlerStep, ReadData, ReadCloses, ReadStops, ExtractOne, ExtractClears,
         ExtractGarbage, ExtractDone, PrintMessage, WriteData, WriteCloses,
         WriteStops, Queues!Dequeue, queues
<1> QED BY <1>1, <1>2, <1>3

-----------------------------------------------------------------------------
(* Streams in step: no peer's length field is cut, so recvBuffer_ always   *)
(* begins where a message does, and nothing is thrown away.                *)

(* A message is two cells then, and its length comes whole with the first. *)
LEMMA TwoParts ==
  ASSUME ~SplitHeaders
  PROVE  MessageSize = 2 /\ LengthSize = 1
BY DEF MessageSize, LengthSize, Parts

LEMMA WholeInStep ==
  ASSUME ~SplitHeaders, SocketTypeOK, Stream, Whole, NEW s \in Socket,
         recvBuffer[s] # <<>>
  PROVE  InStep(s) /\ HasLength(s)
<1>1. Len(recvBuffer[s]) \in Nat /\ Len(recvBuffer[s]) > 0
  BY EmptySeq, LenProperties DEF SocketTypeOK
<1> DEFINE n == Taken(s)
<1>2. n \in Nat /\ recvBuffer[s][1] = SentCell(s, n + 1)
  BY <1>1 DEF Stream, Runs
<1>3. n % MessageSize = 0 /\ (n + 1) - 1 = n
  BY <1>2 DEF Whole
<1>4. SentCell(s, n + 1)[2] = Parts[1]
  BY <1>3 DEF SentCell
<1> HIDE DEF n
<1>5. InStep(s)
  BY <1>2, <1>4 DEF InStep
<1>6. HasLength(s)
  BY <1>1, <1>5, TwoParts DEF HasLength
<1> QED BY <1>5, <1>6

(* Steps that take nothing from recvBuffer_. *)
LEMMA WholeFrame ==
  ASSUME Whole, \A t \in Socket : Taken(t)' = Taken(t)
  PROVE  Whole'
BY DEF Whole

LEMMA StepWhole ==
  ASSUME ~SplitHeaders, SocketTypeOK, NetworkTypeOK, Stream, Whole,
         NEW s \in Socket, HandlerStep(s)
  PROVE  /\ Whole'
         /\ ~ExtractClears(s) /\ ~ExtractGarbage(s)
<1>1. ~ExtractClears(s) /\ ~ExtractGarbage(s)
  <2>1. recvBuffer[s] # <<>> => InStep(s) /\ HasLength(s)
    BY WholeInStep
  <2> QED BY <2>1 DEF ExtractClears, ExtractGarbage, InStep
<1>2. CASE ReadData(s)
  BY <1>1, <1>2, ReadStream, WholeFrame
<1>3. CASE ExtractOne(s)
  <2>1. /\ Taken(s)' = Taken(s) + MessageSize
        /\ \A t \in Socket : t # s => Taken(t)' = Taken(t)
    BY <1>3, ExtractOneStream
  <2>2. Taken(s) \in Nat /\ Taken(s) % MessageSize = 0
    BY DEF Stream, Runs, Whole
  <2> DEFINE n == Taken(s)
  <2>3. (n + 2) % 2 = 0
    BY <2>2, TwoParts
  <2> HIDE DEF n
  <2>4. Taken(s)' % MessageSize = 0
    BY <2>1, <2>3, TwoParts DEF n
  <2>5. \A t \in Socket : t # s => Taken(t)' % MessageSize = 0
    BY <2>1 DEF Whole
  <2> QED BY <1>1, <2>4, <2>5 DEF Whole
<1>4. CASE \/ ReadCloses(s) \/ ReadStops(s) \/ ExtractDone(s) \/ PrintMessage(s)
           \/ WriteData(s) \/ WriteCloses(s) \/ WriteStops(s)
  <2>1. UNCHANGED <<sent, recvBuffer, inbox>>
    BY <1>4 DEF ReadCloses, ReadStops, ExtractDone, PrintMessage, WriteData,
                WriteCloses, WriteStops, KernelWrite, sockets, network
  <2> QED BY <1>1, <2>1, StreamFrame, WholeFrame
<1> QED BY <1>1, <1>2, <1>3, <1>4 DEF HandlerStep

-----------------------------------------------------------------------------
(* The messages buffered for a socket *)

(* A message that arrives is buffered for its socket and for no other. *)
LEMMA BufferedArrive ==
  ASSUME SocketTypeOK, NEW e \in Queues!Envelope, incoming' = Append(incoming, e)
  PROVE  \A t \in Socket :
           BufferedFrom(t)' = IF e.sock = t THEN Append(BufferedFrom(t), e)
                              ELSE BufferedFrom(t)
<1>1. incoming \in Seq(Queues!Envelope)
  BY DEF SocketTypeOK, Queues!TypeOK
<1> SUFFICES ASSUME NEW t \in Socket
             PROVE  BufferedFrom(t)' = IF e.sock = t THEN Append(BufferedFrom(t), e)
                                       ELSE BufferedFrom(t)
  OBVIOUS
<1> DEFINE S == {x \in Queues!Envelope : x.sock = t}
<1>2. e \in S <=> e.sock = t
  OBVIOUS
<1> HIDE DEF S
<1>3. Filter(Append(incoming, e), S) =
        IF e \in S THEN Append(Filter(incoming, S), e) ELSE Filter(incoming, S)
  BY <1>1, FilterAppend
<1>4. BufferedFrom(t) = Filter(incoming, S) /\ BufferedFrom(t)' = Filter(incoming', S)
  BY DEF BufferedFrom, S, Queues!Envelope
<1> QED BY <1>2, <1>3, <1>4

(* The one the center takes was the first of its socket. *)
LEMMA BufferedTail ==
  ASSUME SocketTypeOK, incoming # <<>>, incoming' = Tail(incoming)
  PROVE  \A t \in Socket :
           BufferedFrom(t) = (IF Head(incoming).sock = t THEN <<Head(incoming)>> ELSE <<>>)
                               \o BufferedFrom(t)'
<1>1. incoming \in Seq(Queues!Envelope)
  BY DEF SocketTypeOK, Queues!TypeOK
<1> SUFFICES ASSUME NEW t \in Socket
             PROVE  BufferedFrom(t) =
                      (IF Head(incoming).sock = t THEN <<Head(incoming)>> ELSE <<>>)
                         \o BufferedFrom(t)'
  OBVIOUS
<1> DEFINE S == {x \in Queues!Envelope : x.sock = t}
<1>2. Head(incoming) \in S <=> Head(incoming).sock = t
  BY <1>1, HeadTailProperties
<1> HIDE DEF S
<1>3. Filter(incoming, S) =
        (IF Head(incoming) \in S THEN <<Head(incoming)>> ELSE <<>>) \o Filter(Tail(incoming), S)
  BY <1>1, FilterHead
<1>4. BufferedFrom(t) = Filter(incoming, S) /\ BufferedFrom(t)' = Filter(incoming', S)
  BY DEF BufferedFrom, S, Queues!Envelope
<1> QED BY <1>2, <1>3, <1>4

(* What is buffered are messages of the socket. *)
LEMMA BufferedType ==
  ASSUME SocketTypeOK, NEW t \in Socket
  PROVE  BufferedFrom(t) \in Seq(Queues!Envelope) /\ NumBuffered(t) \in Nat
<1>1. BufferedFrom(t) \in Seq(Queues!Envelope)
  BY FilterSeq DEF SocketTypeOK, Queues!TypeOK, BufferedFrom
<1> QED BY <1>1, LenProperties DEF NumBuffered

(* Nothing changes when nothing is queued. *)
LEMMA BufferedFrame ==
  ASSUME UNCHANGED incoming
  PROVE  \A t \in Socket : /\ BufferedFrom(t)' = BufferedFrom(t)
                           /\ NumBuffered(t)' = NumBuffered(t)
BY DEF BufferedFrom, NumBuffered, Queues!Envelope

(* The two changes of the queue, counted. *)
LEMMA CountArrive ==
  ASSUME SocketTypeOK, NEW e \in Queues!Envelope, incoming' = Append(incoming, e)
  PROVE  \A t \in Socket :
           NumBuffered(t)' = IF e.sock = t THEN NumBuffered(t) + 1 ELSE NumBuffered(t)
<1>1. ASSUME NEW t \in Socket
      PROVE  NumBuffered(t)' = IF e.sock = t THEN NumBuffered(t) + 1 ELSE NumBuffered(t)
  <2>1. BufferedFrom(t)' = IF e.sock = t THEN Append(BufferedFrom(t), e)
                           ELSE BufferedFrom(t)
    BY BufferedArrive
  <2>2. Len(Append(BufferedFrom(t), e)) = Len(BufferedFrom(t)) + 1
    BY BufferedType, AppendProperties
  <2> QED BY <2>1, <2>2 DEF NumBuffered
<1> QED BY <1>1

LEMMA CountTail ==
  ASSUME SocketTypeOK, SocketTypeOK', incoming # <<>>, incoming' = Tail(incoming)
  PROVE  \A t \in Socket : NumBuffered(t)' \in Nat /\ NumBuffered(t)' <= NumBuffered(t)
<1>1. ASSUME NEW t \in Socket
      PROVE  NumBuffered(t)' \in Nat /\ NumBuffered(t)' <= NumBuffered(t)
  <2> DEFINE q == IF Head(incoming).sock = t THEN <<Head(incoming)>> ELSE <<>>
             r == BufferedFrom(t)'
  <2>1. BufferedFrom(t) = q \o r
    BY BufferedTail
  <2>2. incoming \in Seq(Queues!Envelope)
    BY DEF SocketTypeOK, Queues!TypeOK
  <2>3. q \in Seq(Queues!Envelope)
    BY <2>2, HeadTailProperties
  <2>4. r \in Seq(Queues!Envelope)
    <3>1. incoming' \in Seq(Queues!Envelope)
      BY <2>2, HeadTailProperties
    <3> QED BY <3>1, FilterSeq DEF BufferedFrom, Queues!Envelope
  <2>5. NumBuffered(t)' = Len(r) /\ NumBuffered(t) = Len(BufferedFrom(t))
    BY DEF NumBuffered
  <2> HIDE DEF q, r
  <2>6. Len(q \o r) = Len(q) + Len(r) /\ Len(q) \in Nat /\ Len(r) \in Nat
    BY <2>3, <2>4, ConcatProperties, LenProperties
  <2> QED BY <2>1, <2>5, <2>6
<1> QED BY <1>1

(* The most a socket can have buffered: the limit is passed by what one    *)
(* pass of reads and the beginning of a message from an earlier one hold.  *)
MostBuffered ==
  MaxNumberMessagesInBuffer - 1
    + (MaxBytesPerReadWrite + BlockSize + MessageSize - 2) \div MessageSize

InPass(s) == call.op \in {"read", "extract"} /\ call.sock = s

(* In a pass, messages and cells together have grown by the bytes it read; *)
(* between passes less than a message is left in recvBuffer_.              *)
PassLimit(s) ==
  /\ MessageSize * NumBuffered(s) + Len(recvBuffer[s])
       <= MessageSize * MaxNumberMessagesInBuffer - 1 + call.bytes
  /\ call.bytes \in 0 .. MaxBytesPerReadWrite + BlockSize - 1
  /\ call.op = "read" => NumBuffered(s) <= MaxNumberMessagesInBuffer - 1

RestLimit(s) == Len(recvBuffer[s]) < MessageSize /\ NumBuffered(s) <= MostBuffered

PassBound == \A s \in Socket : IF InPass(s) THEN PassLimit(s) ELSE RestLimit(s)

(* Within a pass the buffer stays below what can be left after it. *)
LEMMA PassMost ==
  ASSUME ~SplitHeaders, SocketTypeOK, PassBound, NEW s \in Socket
  PROVE  NumBuffered(s) <= MostBuffered
<1> DEFINE n == NumBuffered(s)
           l == Len(recvBuffer[s])
           b == call.bytes
<1>1. n \in Nat /\ l \in Nat
  BY BufferedType, LenProperties DEF SocketTypeOK
<1>2. CASE InPass(s)
  <2>1. /\ 2 * n + l <= 2 * MaxNumberMessagesInBuffer - 1 + b
        /\ b \in 0 .. MaxBytesPerReadWrite + BlockSize - 1
    BY <1>2, TwoParts DEF PassBound, PassLimit
  <2> HIDE DEF n, l, b
  <2>2. n <= MaxNumberMessagesInBuffer - 1 + (MaxBytesPerReadWrite + BlockSize) \div 2
    BY <1>1, <2>1, TCPSocketAssumption
  <2>3. MaxBytesPerReadWrite + BlockSize + 2 - 2 = MaxBytesPerReadWrite + BlockSize
    BY TCPSocketAssumption
  <2> QED BY <2>2, <2>3, TwoParts DEF MostBuffered, n
<1>3. CASE ~InPass(s)
  BY <1>3 DEF PassBound, RestLimit
<1> QED BY <1>2, <1>3

(* Steps that leave calls, recvBuffer_ and queueIn_ alone. *)
LEMMA PassFrame ==
  ASSUME PassBound, UNCHANGED <<call, recvBuffer, incoming>>
  PROVE  PassBound'
<1>1. \A t \in Socket : NumBuffered(t)' = NumBuffered(t)
  BY BufferedFrame
<1> QED BY <1>1 DEF PassBound, InPass, PassLimit, RestLimit, MostBuffered

(* Between passes nothing but a pass adds to the buffer. *)
LEMMA RestFrame ==
  ASSUME SocketTypeOK, PassBound, UNCHANGED recvBuffer,
         call.op \notin {"read", "extract"}, call'.op \notin {"read", "extract"},
         \A t \in Socket : NumBuffered(t)' \in Nat /\ NumBuffered(t)' <= NumBuffered(t)
  PROVE  PassBound'
<1>1. ASSUME NEW t \in Socket
      PROVE  RestLimit(t)'
  <2>1. Len(recvBuffer[t]) < MessageSize /\ NumBuffered(t) <= MostBuffered
    BY DEF PassBound, InPass, RestLimit
  <2>2. NumBuffered(t)' \in Nat /\ NumBuffered(t) \in Nat /\ NumBuffered(t)' <= NumBuffered(t)
    BY BufferedType
  <2>3. MostBuffered \in Int
    <3>1. MessageSize = 2 => (MaxBytesPerReadWrite + BlockSize + MessageSize - 2) \div MessageSize \in Int
      BY TCPSocketAssumption
    <3>2. MessageSize = 3 => (MaxBytesPerReadWrite + BlockSize + MessageSize - 2) \div MessageSize \in Int
      BY TCPSocketAssumption
    <3> QED BY <3>1, <3>2, PartsType, TCPSocketAssumption DEF MostBuffered
  <2>4. MostBuffered' = MostBuffered
    BY DEF MostBuffered
  <2> DEFINE a == NumBuffered(t)
             b == NumBuffered(t)'
             m == MostBuffered
  <2>5. b <= m
    <3> HIDE DEF a, b, m
    <3> QED BY <2>1, <2>2, <2>3 DEF a, b, m
  <2> QED BY <2>1, <2>4, <2>5 DEF RestLimit
<1> QED BY <1>1 DEF PassBound, InPass

(* A handler for reading starts below the limit. *)
LEMMA StartPass ==
  ASSUME ~SplitHeaders, SocketTypeOK, PassBound, NEW s \in Socket,
         StartReadable(s) \/ StartWritable(s)
  PROVE  PassBound'
<1>1. /\ call = Idle /\ call.op = "none"
      /\ UNCHANGED <<recvBuffer, incoming>>
  BY DEF StartReadable, StartWritable, CheckNonBlockConnect, Idle, sockets, queues
<1>2. \A t \in Socket : NumBuffered(t)' = NumBuffered(t) /\ NumBuffered(t) \in Nat
  BY <1>1, BufferedFrame, BufferedType
<1>3. CASE call'.op # "read"
  <2>1. call'.op \notin {"read", "extract"}
    BY <1>3 DEF StartReadable, StartWritable, CheckNonBlockConnect, Return, Goto
  <2> QED BY <1>1, <1>2, <2>1, RestFrame
<1>4. CASE call'.op = "read"
  <2>1. ~TooMuchBuffered(s) /\ call' = [op |-> "read", sock |-> s, bytes |-> 0]
    BY <1>4 DEF StartReadable, StartWritable, CheckNonBlockConnect, Return, Goto
  <2>2. \A t \in Socket : RestLimit(t)
    BY <1>1 DEF PassBound, InPass
  <2>3. \A t \in Socket : RestLimit(t)'
    BY <1>1, <1>2, <2>2 DEF RestLimit, MostBuffered
  <2>4. PassLimit(s)'
    <3> DEFINE n == NumBuffered(s)
               l == Len(recvBuffer[s])
    <3>1. n \in Nat /\ l \in Nat /\ l < 2 /\ n <= MaxNumberMessagesInBuffer - 1
      <4>1. l \in Nat /\ l < 2
        BY <2>2, TwoParts, LenProperties DEF RestLimit, SocketTypeOK
      <4>2. ~ (n >= MaxNumberMessagesInBuffer)
        BY <2>1 DEF TooMuchBuffered
      <4> HIDE DEF n, l
      <4>3. n \in Nat
        BY <1>2 DEF n
      <4> QED BY <4>1, <4>2, <4>3, TCPSocketAssumption
    <3>2. n' = n /\ l' = l /\ call'.bytes = 0
      BY <1>1, <1>2, <2>1
    <3> DEFINE n2 == n'
               l2 == l'
    <3> HIDE DEF n, l
    <3>3. /\ 2 * n2 + l2 <= 2 * MaxNumberMessagesInBuffer - 1 + 0
          /\ 0 \in 0 .. MaxBytesPerReadWrite + BlockSize - 1
          /\ n2 <= MaxNumberMessagesInBuffer - 1
      BY <3>1, <3>2, TCPSocketAssumption
    <3> QED BY <3>2, <3>3, TwoParts DEF PassLimit, n, l
  <2>5. \A t \in Socket : InPass(t)' => t = s
    BY <2>1 DEF InPass
  <2> QED BY <2>3, <2>4, <2>5 DEF PassBound
<1> QED BY <1>3, <1>4

(* A handler in progress leaves the other sockets alone. *)
LEMMA PassOthers ==
  ASSUME PassBound, NEW s \in Socket, call # Idle, call.sock = s, call'.sock = s,
         \A t \in Socket : t # s => /\ recvBuffer'[t] = recvBuffer[t]
                                   /\ NumBuffered(t)' = NumBuffered(t),
         IF InPass(s)' THEN PassLimit(s)' ELSE RestLimit(s)'
  PROVE  PassBound'
<1>1. ASSUME NEW t \in Socket, t # s
      PROVE  ~InPass(t)' /\ RestLimit(t)'
  <2>1. RestLimit(t) /\ ~InPass(t)'
    BY <1>1 DEF PassBound, InPass
  <2> QED BY <1>1, <2>1 DEF RestLimit, MostBuffered
<1> QED BY <1>1 DEF PassBound

(* A read adds to both sides. *)
LEMMA ReadPass ==
  ASSUME ~SplitHeaders, SocketTypeOK, NetworkTypeOK, PassBound,
         NEW s \in Socket, ReadData(s)
  PROVE  PassBound'
<1>1. PICK k \in 1 .. BlockSize :
        /\ KernelRead(s, k)
        /\ recvBuffer' = [recvBuffer EXCEPT ![s] = @ \o SubSeq(inbox[s], 1, k)]
        /\ call' = [op |-> "read", sock |-> s, bytes |-> call.bytes + k]
  BY DEF ReadData, Goto
<1>2. /\ call.op = "read" /\ call.sock = s /\ call # Idle
      /\ call.bytes < MaxBytesPerReadWrite
      /\ UNCHANGED incoming
  BY DEF ReadData, InLoop, Idle, queues
<1>3. \A t \in Socket : NumBuffered(t)' = NumBuffered(t) /\ NumBuffered(t) \in Nat
  BY <1>2, BufferedFrame, BufferedType
<1>4. recvBuffer[s] \in Seq(Cell) /\ inbox[s] \in Seq(Cell)
  BY DEF SocketTypeOK, NetworkTypeOK
<1>5. Len(recvBuffer'[s]) = Len(recvBuffer[s]) + k
  <2>1. k \in 0 .. Len(inbox[s])
    BY <1>1, <1>4, LenProperties, TCPSocketAssumption DEF KernelRead
  <2>2. SubSeq(inbox[s], 1, k) \in Seq(Cell) /\ Len(SubSeq(inbox[s], 1, k)) = k
    BY <1>4, <2>1, PieceType
  <2>3. recvBuffer'[s] = recvBuffer[s] \o SubSeq(inbox[s], 1, k)
    BY <1>1 DEF SocketTypeOK
  <2> QED BY <1>4, <2>2, <2>3, ConcatProperties
<1>6. PassLimit(s)'
  <2> DEFINE n == NumBuffered(s)
             l == Len(recvBuffer[s])
             b == call.bytes
             n2 == NumBuffered(s)'
             l2 == Len(recvBuffer'[s])
  <2>1. /\ 2 * n + l <= 2 * MaxNumberMessagesInBuffer - 1 + b
        /\ b \in 0 .. MaxBytesPerReadWrite + BlockSize - 1
        /\ n <= MaxNumberMessagesInBuffer - 1
        /\ n \in Nat /\ l \in Nat
    BY <1>2, <1>3, <1>4, TwoParts, LenProperties DEF PassBound, InPass, PassLimit
  <2>2. n2 = n /\ l2 = l + k /\ call'.bytes = b + k /\ b < MaxBytesPerReadWrite
    BY <1>1, <1>2, <1>3, <1>5
  <2> HIDE DEF n, l, b, n2, l2
  <2>3. /\ 2 * n2 + l2 <= 2 * MaxNumberMessagesInBuffer - 1 + (b + k)
        /\ b + k \in 0 .. MaxBytesPerReadWrite + BlockSize - 1
        /\ n2 <= MaxNumberMessagesInBuffer - 1
    BY <2>1, <2>2, TCPSocketAssumption
  <2> QED BY <2>2, <2>3, TwoParts DEF PassLimit, n2, l2
<1>7. InPass(s)' /\ call'.sock = s
  BY <1>1 DEF InPass
<1>8. \A t \in Socket : t # s => recvBuffer'[t] = recvBuffer[t]
  BY <1>1 DEF SocketTypeOK
<1> QED BY <1>2, <1>3, <1>6, <1>7, <1>8, PassOthers

(* A message leaves recvBuffer_ and counts as two cells, if it counts. *)
LEMMA ExtractPass ==
  ASSUME ~SplitHeaders, SocketTypeOK, PassBound, NEW s \in Socket, ExtractOne(s)
  PROVE  PassBound'
<1>1. /\ call.op = "extract" /\ call.sock = s /\ call # Idle /\ call' = call
      /\ recvBuffer[s] # <<>> /\ Len(recvBuffer[s]) >= MessageSize
      /\ DropFirst(s, MessageSize)
  BY DEF ExtractOne, InLoop, Idle, HasWholeMessage, InStep
<1>2. recvBuffer[s] \in Seq(Cell) /\ Len(recvBuffer[s]) \in Nat
  BY LenProperties DEF SocketTypeOK
<1>3. Len(recvBuffer'[s]) = Len(recvBuffer[s]) - 2
  <2> DEFINE q == recvBuffer[s]
             k == 2
  <2>1. q \in Seq(Cell) /\ k \in 0 .. Len(q)
    BY <1>1, <1>2, TwoParts
  <2>2. recvBuffer'[s] = SubSeq(q, k + 1, Len(q))
    BY <1>1, TwoParts DEF DropFirst, SocketTypeOK
  <2> HIDE DEF q, k
  <2>3. Len(SubSeq(q, k + 1, Len(q))) = Len(q) - k
    BY <2>1, PieceElements
  <2> QED BY <2>2, <2>3 DEF q, k
<1>4. /\ \A t \in Socket : NumBuffered(t) \in Nat
      /\ NumBuffered(s)' = NumBuffered(s) \/ NumBuffered(s)' = NumBuffered(s) + 1
      /\ \A t \in Socket : t # s => NumBuffered(t)' = NumBuffered(t)
  <2>1. CASE FirstMessage(s) \in Unsupported
    BY <2>1, BufferedFrame, BufferedType DEF ExtractOne, queues
  <2>2. CASE FirstMessage(s) \notin Unsupported
    <3> DEFINE e == [sock |-> s, msg |-> FirstMessage(s)]
    <3>1. e \in Queues!Envelope
      BY <1>1, FirstMessageType DEF Queues!Envelope
    <3>2. incoming' = Append(incoming, e)
      BY <2>2 DEF ExtractOne, Queues!Arrive
    <3>3. e.sock = s
      OBVIOUS
    <3> HIDE DEF e
    <3>4. \A t \in Socket :
            NumBuffered(t)' = IF e.sock = t THEN NumBuffered(t) + 1 ELSE NumBuffered(t)
      BY <3>1, <3>2, CountArrive
    <3> QED BY <3>3, <3>4, BufferedType
  <2> QED BY <2>1, <2>2
<1>5. PassLimit(s)'
  <2> DEFINE n == NumBuffered(s)
             l == Len(recvBuffer[s])
             b == call.bytes
             n2 == NumBuffered(s)'
             l2 == Len(recvBuffer'[s])
  <2>1. /\ 2 * n + l <= 2 * MaxNumberMessagesInBuffer - 1 + b
        /\ b \in 0 .. MaxBytesPerReadWrite + BlockSize - 1
        /\ n \in Nat /\ l \in Nat /\ l >= 2
    BY <1>1, <1>2, <1>4, TwoParts DEF PassBound, InPass, PassLimit
  <2>2. n2 \in {n, n + 1} /\ l2 = l - 2 /\ call'.bytes = b /\ call'.op # "read"
    BY <1>1, <1>3, <1>4
  <2> HIDE DEF n, l, b, n2, l2
  <2>3. 2 * n2 + l2 <= 2 * MaxNumberMessagesInBuffer - 1 + b
    BY <2>1, <2>2, TCPSocketAssumption
  <2> QED BY <2>1, <2>2, <2>3, TwoParts DEF PassLimit, n2, l2
<1>6. InPass(s)' /\ call'.sock = s
  BY <1>1 DEF InPass
<1>7. \A t \in Socket : t # s => recvBuffer'[t] = recvBuffer[t]
  BY <1>1 DEF DropFirst, SocketTypeOK
<1> QED BY <1>1, <1>4, <1>5, <1>6, <1>7, PassOthers

(* The pass goes on, or ends with less than a message left. *)
LEMMA PassGoesOn ==
  ASSUME ~SplitHeaders, SocketTypeOK, Stream, Whole, PassBound,
         NEW s \in Socket, ReadCloses(s) \/ ReadStops(s) \/ ExtractDone(s)
  PROVE  PassBound'
<1>1. /\ call # Idle /\ call.sock = s /\ InPass(s) /\ call'.sock = s /\ call'.bytes = call.bytes
      /\ UNCHANGED <<recvBuffer, incoming>>
  BY DEF ReadCloses, ReadStops, ExtractDone, InLoop, InPass, Idle, Goto, Return,
         sockets, queues
<1>2. \A t \in Socket : NumBuffered(t)' = NumBuffered(t)
  BY <1>1, BufferedFrame
<1>3. CASE ~ExtractDone(s)
  <2>1. call'.op = "extract" /\ InPass(s)'
    BY <1>3 DEF ReadCloses, ReadStops, Goto, InPass
  <2>2. PassLimit(s)'
    BY <1>1, <1>2, <2>1 DEF PassBound, PassLimit
  <2> QED BY <1>1, <1>2, <2>1, <2>2, PassOthers
<1>4. CASE ExtractDone(s)
  <2>1. call'.op = "returned" /\ ~InPass(s)'
    BY <1>4 DEF ExtractDone, Return, InPass
  <2>2. Len(recvBuffer[s]) < MessageSize
    <3>1. recvBuffer[s] = <<>> \/ (~HasWholeMessage(s) /\ InStep(s))
      BY <1>4, WholeInStep DEF ExtractDone
    <3> QED BY <3>1, EmptySeq, PartsType, LenProperties DEF HasWholeMessage, SocketTypeOK
  <2>3. NumBuffered(s) <= MostBuffered
    BY PassMost
  <2>4. RestLimit(s)'
    BY <1>1, <1>2, <2>2, <2>3 DEF RestLimit, MostBuffered
  <2> QED BY <1>1, <1>2, <2>1, <2>4, PassOthers
<1> QED BY <1>3, <1>4

(* Every step of a handler. *)
LEMMA StepPass ==
  ASSUME ~SplitHeaders, SocketTypeOK, NetworkTypeOK, Stream, Whole, PassBound,
         NEW s \in Socket, HandlerStep(s)
  PROVE  PassBound'
<1>1. ~ExtractClears(s) /\ ~ExtractGarbage(s)
  BY StepWhole
<1>2. CASE PrintMessage(s) \/ WriteData(s) \/ WriteCloses(s) \/ WriteStops(s)
  <2>1. /\ call.op \notin {"read", "extract"} /\ call'.op \notin {"read", "extract"}
        /\ UNCHANGED <<recvBuffer, incoming>>
    BY <1>2 DEF PrintMessage, WriteData, WriteCloses, WriteStops, InLoop, Goto, Return,
                sockets, queues, Queues!Dequeue
  <2>2. \A t \in Socket : NumBuffered(t)' = NumBuffered(t) /\ NumBuffered(t) \in Nat
    BY <2>1, BufferedFrame, BufferedType
  <2> QED BY <2>1, <2>2, RestFrame
<1> QED BY <1>1, <1>2, ReadPass, ExtractPass, PassGoesOn DEF HandlerStep
=============================================================================
