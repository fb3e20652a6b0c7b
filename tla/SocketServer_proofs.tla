------------------------- MODULE SocketServer_proofs -------------------------
(* Proofs about the server for any number of peers, messages and limits. *)
EXTENDS SocketServer, TCPSocket_proofs

(* What select() found of the pipe stays true until the center runs. *)
CenterWaits ==
  pc \in {"write", "read"} /\ "center" \in readyToReadSockets => incoming # <<>>

Inv == TypeOK /\ OpenIsServed /\ CenterWaits

-----------------------------------------------------------------------------
(* The loop *)

(* The server starts with its services registered and nothing found ready. *)
LEMMA InitInv == Init => Inv
<1> SUFFICES ASSUME Init PROVE Inv
  OBVIOUS
<1>1. NetworkTypeOK
  <2>1. \A s \in Socket : 0 <= MessageSize * Requests[s]
    BY PartsType, NetworkAssumption
  <2> QED BY <2>1, EmptySeq, NetworkAssumption
          DEF Init, NetworkInit, NetworkTypeOK, PeerState
<1>2. SocketTypeOK
  BY EmptySeq DEF Init, SocketInit, SocketTypeOK, Calls, Queues!Init, Queues!TypeOK
<1>3. TypeOK
  BY <1>1, <1>2, ServerAssumption DEF Init, TypeOK, Services, Selectables
<1>4. OpenIsServed /\ CenterWaits
  BY DEF Init, SocketInit, OpenIsServed, CenterWaits
<1> QED BY <1>3, <1>4 DEF Inv

(* select() finds the pipe ready only with a message behind it. *)
LEMMA SelectInv ==
  ASSUME Inv, Select
  PROVE  Inv'
<1>1. PICK r \in SUBSET Closed, w \in SUBSET Closed :
        /\ readyToReadSockets' = ReadReady \cup r
        /\ readyToWriteSockets' = WriteReady \cup w
  BY DEF Select
<1>2. /\ r \subseteq Socket /\ w \subseteq Socket
      /\ readyToWriteSockets' \subseteq Socket
      /\ readyToReadSockets' \subseteq Selectables
  BY <1>1 DEF Closed, Open, ReadReady, WriteReady, Services, Selectables
<1>3. "center" \in readyToReadSockets' => incoming # <<>>
  BY <1>1, <1>2, ServerAssumption DEF ReadReady, Open
<1>4. /\ pc' = "write"
      /\ UNCHANGED <<selectables, datagrams, call, sockets, queues, network>>
  BY DEF Select
<1>5. TypeOK'
  BY <1>2, <1>4 DEF Inv, TypeOK, SocketTypeOK, NetworkTypeOK, Queues!TypeOK,
                    sockets, queues, network
<1> QED BY <1>3, <1>4, <1>5
        DEF Inv, OpenIsServed, CenterWaits, sockets, queues

(* A handler starts or takes a step, and the loop waits for it. *)
LEMMA HandlersInv ==
  ASSUME Inv, Write \/ Read \/ Handler
  PROVE  Inv'
<1>1. SocketTypeOK /\ NetworkTypeOK
  BY DEF Inv, TypeOK
<1>2. HandlerKeeps
  <2>1. CASE Write
    BY <1>1, <2>1, StartKeeps DEF Write, Inv, TypeOK
  <2>2. CASE Read
    BY <1>1, <2>2, StartKeeps DEF Read
  <2>3. CASE Handler
    BY <1>1, <2>3, HandlerStepKeeps DEF Handler
  <2> QED BY <2>1, <2>2, <2>3
<1>3. UNCHANGED <<pc, selectables, readyToWriteSockets, readyToReadSockets, datagrams>>
  BY DEF Write, Read, Handler, loop
<1>4. TypeOK'
  BY <1>2, <1>3 DEF Inv, TypeOK, HandlerKeeps
<1> QED BY <1>2, <1>3, <1>4
        DEF Inv, OpenIsServed, CenterWaits, HandlerKeeps

(* The loop takes what a handler returned: only a closed socket is removed. *)
LEMMA ReturnedInv ==
  ASSUME Inv, Written \/ ReadReturned
  PROVE  Inv'
<1>1. /\ selectables' \subseteq selectables
      /\ \A s \in Socket : fd[s] = "open" /\ s \in selectables => s \in selectables'
      /\ readyToWriteSockets' \subseteq readyToWriteSockets
      /\ readyToReadSockets' \subseteq readyToReadSockets
      /\ call' = Idle
      /\ UNCHANGED <<pc, datagrams, sockets, queues, network>>
  BY DEF Written, ReadReturned, RemoveFromAll
<1>2. SocketTypeOK' /\ NetworkTypeOK'
  BY <1>1 DEF Inv, TypeOK, SocketTypeOK, NetworkTypeOK, Queues!TypeOK, Calls,
              sockets, queues, network
<1>3. TypeOK'
  BY <1>1, <1>2 DEF Inv, TypeOK
<1> QED BY <1>1, <1>3 DEF Inv, OpenIsServed, CenterWaits, sockets, queues

(* The ends of the two phases. *)
LEMMA PhaseEndsInv ==
  ASSUME Inv, WritePhaseEnds \/ ReadPhaseEnds
  PROVE  Inv'
<1>1. /\ pc' \in {"select", "read"}
      /\ pc' = "read" => pc = "write"
      /\ UNCHANGED <<selectables, readyToWriteSockets, readyToReadSockets>>
      /\ UNCHANGED <<datagrams, call, sockets, queues, network>>
  BY DEF WritePhaseEnds, ReadPhaseEnds
<1>2. SocketTypeOK' /\ NetworkTypeOK'
  BY <1>1 DEF Inv, TypeOK, SocketTypeOK, NetworkTypeOK, Queues!TypeOK,
              sockets, queues, network
<1>3. TypeOK'
  BY <1>1, <1>2 DEF Inv, TypeOK
<1> QED BY <1>1, <1>3 DEF Inv, OpenIsServed, CenterWaits, sockets, queues

(* An accepted socket is registered in the step that makes it. *)
LEMMA AcceptInv ==
  ASSUME Inv, Accept
  PROVE  Inv'
<1>1. PICK s \in Socket : /\ KernelAccept(s)
                          /\ fd' = [fd EXCEPT ![s] = "open"]
                          /\ Register(s)
  BY DEF Accept
<1>2. /\ readyToReadSockets' = readyToReadSockets \ {"listener"}
      /\ UNCHANGED <<pc, readyToWriteSockets, call, datagrams>>
      /\ UNCHANGED <<isConnected, recvBuffer, sendBuffer, incoming, outgoing>>
  BY DEF Accept, Handles, queues
<1>3. NetworkTypeOK'
  BY <1>1, KernelAcceptType DEF Inv, TypeOK
<1>4. SocketTypeOK'
  BY <1>1, <1>2 DEF Inv, TypeOK, SocketTypeOK, Queues!TypeOK
<1>5. TypeOK'
  BY <1>1, <1>2, <1>3, <1>4 DEF Inv, TypeOK, Register, Selectables
<1>6. OpenIsServed'
  BY <1>1 DEF Inv, TypeOK, SocketTypeOK, OpenIsServed, Register
<1> QED BY <1>2, <1>5, <1>6 DEF Inv, CenterWaits

(* The center takes its message and its turn together. *)
LEMMA ProcessMessageInv ==
  ASSUME Inv, ProcessMessage
  PROVE  Inv'
<1>1. incoming \in Seq(Queues!Envelope) /\ incoming # <<>>
  BY DEF ProcessMessage, Inv, TypeOK, SocketTypeOK, Queues!TypeOK
<1>2. Head(incoming) \in Queues!Envelope /\ Tail(incoming) \in Seq(Queues!Envelope)
  BY <1>1, HeadTailProperties
<1>3. Queues!TypeOK'
  <2> DEFINE e == Head(incoming)
  <2>1. e.sock \in Socket /\ e.msg \in Message
    BY <1>2 DEF Queues!Envelope
  <2>2. outgoing[e.sock] \in Seq(Message)
    BY <2>1 DEF Inv, TypeOK, SocketTypeOK, Queues!TypeOK
  <2>3. Append(outgoing[e.sock], e.msg) \in Seq(Message)
    BY <2>1, <2>2, AppendProperties
  <2>4. /\ incoming' = Tail(incoming)
        /\ outgoing' = [outgoing EXCEPT ![e.sock] = Append(@, e.msg)]
    BY DEF ProcessMessage
  <2> QED BY <1>2, <2>1, <2>3, <2>4 DEF Inv, TypeOK, SocketTypeOK, Queues!TypeOK
<1>4. /\ readyToReadSockets' = readyToReadSockets \ {"center"}
      /\ UNCHANGED <<pc, readyToWriteSockets, call>>
      /\ UNCHANGED <<selectables, datagrams, sockets, network>>
  BY DEF ProcessMessage, Handles
<1>5. SocketTypeOK' /\ NetworkTypeOK'
  BY <1>3, <1>4 DEF Inv, TypeOK, SocketTypeOK, NetworkTypeOK, sockets, network
<1>6. TypeOK'
  BY <1>4, <1>5 DEF Inv, TypeOK
<1> QED BY <1>4, <1>6 DEF Inv, OpenIsServed, CenterWaits, sockets

(* A failed accept and the UDP port leave everything but their turn. *)
LEMMA OtherServicesInv ==
  ASSUME Inv, AcceptFails \/ ReadDatagram
  PROVE  Inv'
<1>1. UNCHANGED datagrams
  BY ServerAssumption DEF AcceptFails, ReadDatagram, ShouldReadMoreOnSocket,
                          NumUDPBuffered
<1>2. /\ readyToReadSockets' \subseteq readyToReadSockets
      /\ UNCHANGED <<pc, readyToWriteSockets, call, selectables, sockets, queues, network>>
  BY DEF AcceptFails, ReadDatagram, Handles
<1>3. SocketTypeOK' /\ NetworkTypeOK'
  BY <1>2 DEF Inv, TypeOK, SocketTypeOK, NetworkTypeOK, Queues!TypeOK,
              sockets, queues, network
<1>4. TypeOK'
  BY <1>1, <1>2, <1>3 DEF Inv, TypeOK
<1> QED BY <1>2, <1>4 DEF Inv, OpenIsServed, CenterWaits, sockets, queues

(* The process is killed in the middle of a write. *)
LEMMA KilledInv ==
  ASSUME Inv, Killed
  PROVE  Inv'
<1>1. /\ pc' = "stopped"
      /\ UNCHANGED <<selectables, readyToWriteSockets, readyToReadSockets, datagrams>>
      /\ UNCHANGED <<sockets, queues, call, network>>
  BY DEF Killed, WriteKills
<1>2. SocketTypeOK' /\ NetworkTypeOK'
  BY <1>1 DEF Inv, TypeOK, SocketTypeOK, NetworkTypeOK, Queues!TypeOK,
              sockets, queues, network
<1>3. TypeOK'
  BY <1>1, <1>2 DEF Inv, TypeOK
<1> QED BY <1>1, <1>3 DEF Inv, OpenIsServed, CenterWaits, sockets, queues

(* What happens outside the program. *)
LEMMA OutsideInv ==
  ASSUME Inv, PeersNext \/ Datagram
  PROVE  Inv'
<1>1. /\ NetworkTypeOK'
      /\ datagrams' \in 0 .. MaxDatagrams
      /\ UNCHANGED <<loop, call, sockets, queues>>
  <2>1. CASE PeersNext
    BY <2>1, PeerNextType DEF PeersNext, Inv, TypeOK
  <2>2. CASE Datagram
    BY <2>2, ServerAssumption
       DEF Datagram, Inv, TypeOK, NetworkTypeOK, network
  <2> QED BY <2>1, <2>2
<1>2. SocketTypeOK'
  BY <1>1 DEF Inv, TypeOK, SocketTypeOK, Queues!TypeOK, sockets, queues
<1>3. TypeOK'
  BY <1>1, <1>2 DEF Inv, TypeOK, loop
<1> QED BY <1>1, <1>3 DEF Inv, OpenIsServed, CenterWaits, loop, sockets, queues

(* Every step keeps the invariant. *)
LEMMA NextInv == Inv /\ [Next]_vars => Inv'
<1> SUFFICES ASSUME Inv, [Next]_vars PROVE Inv'
  OBVIOUS
<1>1. CASE UNCHANGED vars
  <2>1. SocketTypeOK' /\ NetworkTypeOK'
    BY <1>1 DEF Inv, TypeOK, SocketTypeOK, NetworkTypeOK, Queues!TypeOK,
                vars, sockets, queues, network
  <2> QED BY <1>1, <2>1
          DEF Inv, TypeOK, OpenIsServed, CenterWaits, vars, loop, sockets, queues
<1>2. CASE ServerNext
  BY <1>2, SelectInv, HandlersInv, ReturnedInv, PhaseEndsInv, AcceptInv,
     ProcessMessageInv, OtherServicesInv, KilledInv DEF ServerNext
<1>3. CASE PeersNext \/ Datagram
  BY <1>3, OutsideInv
<1> QED BY <1>1, <1>2, <1>3 DEF Next

-----------------------------------------------------------------------------
(* Types, live sockets registered, and a message behind every wake-up of   *)
(* the message center, whatever peers and handlers do in between.          *)
THEOREM Invariance == Spec => []Inv
<1> QED BY InitInv, NextInv, PTL DEF Spec

(* The state of server, kernel and peers keeps its types. *)
THEOREM TypeCorrect == Spec => []TypeOK
<1>1. Inv => TypeOK
  BY DEF Inv
<1> QED BY <1>1, Invariance, PTL

(* The loop removes a socket only when it is closed. *)
THEOREM LiveSocketsServed == Spec => []OpenIsServed
<1>1. Inv => OpenIsServed
  BY DEF Inv
<1> QED BY <1>1, Invariance, PTL

(* The center never reads an empty pipe or an empty list. *)
THEOREM CenterNeverBlocks == Spec => []CenterFindsMessage
<1>1. Inv => CenterFindsMessage
  BY DEF Inv, CenterWaits, CenterFindsMessage
<1> QED BY <1>1, Invariance, PTL

-----------------------------------------------------------------------------
(* Streams and buffers *)

(* As far as streams and buffers go, a step of the server is one of a      *)
(* handler, of a peer or of the center, or at most forgets what a handler  *)
(* returned.                                                               *)
LEMMA StepKinds ==
  ASSUME TypeOK, [Next]_vars
  PROVE  \/ \E s \in Socket : HandlerStep(s)
         \/ \E s \in Socket : StartReadable(s) \/ StartWritable(s)
         \/ PeerNext /\ UNCHANGED <<call, sockets, queues>>
         \/ ProcessMessage
         \/ /\ UNCHANGED <<peer, sent, inbox, outbox, received>>
            /\ UNCHANGED <<recvBuffer, sendBuffer, queues>>
            /\ call' = call \/ (call.op = "returned" /\ call' = Idle)
<1>1. CASE Write \/ Read \/ Handler \/ PeersNext \/ ProcessMessage
  BY <1>1 DEF Write, Read, Handler, PeersNext, TypeOK
<1>2. CASE \/ Select \/ WritePhaseEnds \/ ReadPhaseEnds \/ AcceptFails \/ ReadDatagram
           \/ Killed \/ Datagram \/ UNCHANGED vars
  BY <1>2 DEF Select, WritePhaseEnds, ReadPhaseEnds, AcceptFails, ReadDatagram, Killed,
              Datagram, WriteKills, Handles, vars, network, sockets
<1>3. CASE Accept
  BY <1>3 DEF Accept, Handles, KernelAccept
<1>4. CASE Written \/ ReadReturned
  BY <1>4 DEF Written, ReadReturned, network, sockets
<1> QED BY <1>1, <1>2, <1>3, <1>4 DEF Next, ServerNext

(* The invariant the next theorems rest on. *)
StreamInv == Inv /\ Stream /\ Extracted

LEMMA InitStream == Init => Stream /\ Extracted /\ Whole
<1> SUFFICES ASSUME Init PROVE Stream /\ Extracted /\ Whole
  OBVIOUS
<1>1. \A s \in Socket : sent[s] = 0 /\ recvBuffer[s] = <<>> /\ inbox[s] = <<>>
  BY DEF Init, NetworkInit, SocketInit
<1>2. Len(<<>>) = 0
  BY EmptySeq
<1>3. \A s \in Socket : Taken(s) = 0
  BY <1>1, <1>2 DEF Taken
<1>4. Stream
  BY <1>1, <1>2, <1>3 DEF Stream, Runs
<1>5. Extracted
  BY <1>2 DEF Init, SocketInit, Queues!Init, Extracted
<1>6. 0 % MessageSize = 0
  BY PartsType
<1> QED BY <1>3, <1>4, <1>5, <1>6 DEF Whole

(* Every step keeps the streams, and what was queued came on its socket. *)
LEMMA NextStream ==
  ASSUME StreamInv, [Next]_vars
  PROVE  StreamInv'
<1>1. SocketTypeOK /\ NetworkTypeOK /\ Stream /\ Extracted /\ Inv'
  BY NextInv DEF StreamInv, Inv, TypeOK
<1>2. \A t \in Socket : Taken(t) \in Nat
  BY <1>1 DEF Stream, Runs
<1>3. CASE \E s \in Socket : HandlerStep(s)
  BY <1>1, <1>3, StepStream, StepExtracted DEF StreamSteps, StreamInv
<1>4. CASE \E s \in Socket : StartReadable(s) \/ StartWritable(s)
  BY <1>1, <1>2, <1>4, StartStream, ExtractedFrame DEF StreamInv, queues
<1>5. CASE PeerNext /\ UNCHANGED <<call, sockets, queues>>
  <2>1. Stream' /\ \A t \in Socket : Taken(t)' = Taken(t)
    BY <1>1, <1>5, PeerStream DEF sockets
  <2> QED BY <1>1, <1>2, <1>5, <2>1, ExtractedFrame DEF StreamInv, queues
<1>6. CASE ProcessMessage
  <2>1. /\ UNCHANGED <<sent, recvBuffer, inbox>>
        /\ incoming # <<>> /\ incoming' = Tail(incoming)
    BY <1>6 DEF ProcessMessage, sockets, network
  <2>2. Stream' /\ \A t \in Socket : Taken(t)' = Taken(t)
    BY <1>1, <2>1, StreamFrame
  <2> QED BY <1>1, <2>1, <2>2, ExtractedTail DEF StreamInv
<1>7. CASE UNCHANGED <<sent, inbox, recvBuffer, queues>>
  <2>1. Stream' /\ \A t \in Socket : Taken(t)' = Taken(t)
    BY <1>1, <1>7, StreamFrame
  <2> QED BY <1>1, <1>2, <1>7, <2>1, ExtractedFrame DEF StreamInv, queues
<1> QED BY <1>3, <1>4, <1>5, <1>6, <1>7, StepKinds DEF StreamInv, Inv

(* With headers that come whole: recvBuffer_ begins with a message, and    *)
(* holds less than one between the passes that fill it.                    *)
PassInv == StreamInv /\ Whole /\ PassBound

LEMMA InitPass ==
  ASSUME ~SplitHeaders, Init
  PROVE  PassInv
<1>1. StreamInv /\ Whole
  BY InitInv, InitStream DEF StreamInv
<1>2. ASSUME NEW s \in Socket
      PROVE  ~InPass(s) /\ RestLimit(s)
  <2>1. recvBuffer[s] = <<>> /\ incoming = <<>> /\ call.op = "none"
    BY DEF Init, SocketInit, Queues!Init, Idle
  <2>2. Len(<<>>) = 0 /\ NumBuffered(s) = 0
    BY <2>1, EmptySeq, FilterEmpty DEF NumBuffered, BufferedFrom
  <2>3. 0 <= MostBuffered
    <3>1. MaxBytesPerReadWrite + BlockSize + 2 - 2 = MaxBytesPerReadWrite + BlockSize
      BY TCPSocketAssumption
    <3>2. 0 <= MaxNumberMessagesInBuffer - 1 + (MaxBytesPerReadWrite + BlockSize) \div 2
      BY TCPSocketAssumption
    <3> QED BY <3>1, <3>2, TwoParts DEF MostBuffered
  <2> QED BY <2>1, <2>2, <2>3, PartsType DEF InPass, RestLimit
<1> QED BY <1>1, <1>2 DEF PassInv, PassBound

LEMMA NextPass ==
  ASSUME ~SplitHeaders, PassInv, [Next]_vars
  PROVE  PassInv'
<1>1. /\ SocketTypeOK /\ NetworkTypeOK /\ Stream /\ Whole /\ PassBound
      /\ StreamInv' /\ SocketTypeOK'
  BY NextStream DEF PassInv, StreamInv, Inv, TypeOK
<1>2. \A t \in Socket : NumBuffered(t) \in Nat
  BY <1>1, BufferedType
<1>3. CASE \E s \in Socket : HandlerStep(s)
  BY <1>1, <1>3, StepWhole, StepPass DEF PassInv
<1>4. CASE \E s \in Socket : StartReadable(s) \/ StartWritable(s)
  BY <1>1, <1>4, StartStream, WholeFrame, StartPass DEF PassInv, StreamInv
<1>5. CASE PeerNext /\ UNCHANGED <<call, sockets, queues>>
  <2>1. \A t \in Socket : Taken(t)' = Taken(t)
    BY <1>1, <1>5, PeerStream DEF sockets
  <2> QED BY <1>1, <1>5, <2>1, WholeFrame, PassFrame DEF PassInv, sockets, queues
<1>6. CASE ProcessMessage
  <2>1. /\ UNCHANGED <<sent, recvBuffer, inbox>> /\ call = Idle /\ call' = Idle
        /\ incoming # <<>> /\ incoming' = Tail(incoming)
    BY <1>6 DEF ProcessMessage, Handles, sockets, network
  <2>2. \A t \in Socket : Taken(t)' = Taken(t)
    BY <1>1, <2>1, StreamFrame
  <2>3. \A t \in Socket : NumBuffered(t)' \in Nat /\ NumBuffered(t)' <= NumBuffered(t)
    BY <1>1, <2>1, CountTail
  <2>4. PassBound'
    BY <1>1, <2>1, <2>3, RestFrame DEF Idle
  <2> QED BY <1>1, <2>2, <2>4, WholeFrame DEF PassInv
<1>7. CASE /\ UNCHANGED <<sent, inbox, recvBuffer, queues>>
           /\ call' = call \/ (call.op = "returned" /\ call' = Idle)
  <2>1. \A t \in Socket : Taken(t)' = Taken(t) /\ NumBuffered(t)' = NumBuffered(t)
    BY <1>1, <1>7, StreamFrame, BufferedFrame DEF queues
  <2>2. PassBound'
    <3>1. CASE call' = call
      BY <1>1, <1>7, <3>1, PassFrame DEF queues
    <3>2. CASE call.op = "returned" /\ call' = Idle
      BY <1>1, <1>2, <1>7, <2>1, <3>2, RestFrame DEF Idle
    <3> QED BY <1>7, <3>1, <3>2
  <2> QED BY <1>1, <2>1, <2>2, WholeFrame DEF PassInv
<1> QED BY <1>3, <1>4, <1>5, <1>6, <1>7, StepKinds DEF PassInv, StreamInv, Inv

(* The pipe holds a byte for each queued message: a message about to be    *)
(* queued is one that its socket may still have buffered.                  *)
LEMMA RoomInPipe ==
  ASSUME ~SplitHeaders, PassInv, NEW s \in Socket, InLoop("extract", s), HasWholeMessage(s),
         IsFiniteSet(Socket), PipeCapacity >= Cardinality(Socket) * MostBuffered
  PROVE  Len(incoming) < PipeCapacity
<1>1. SocketTypeOK /\ PassBound /\ recvBuffer[s] # <<>>
  BY DEF PassInv, StreamInv, Inv, TypeOK, HasWholeMessage, InStep
<1> DEFINE E == Queues!Envelope
           class == [e \in E |-> e.sock]
           e0 == [sock |-> s, msg |-> FirstMessage(s)]
           more == Append(incoming, e0)
<1>2. e0 \in E /\ e0.sock = s /\ class \in [E -> Socket] /\ incoming \in Seq(E)
  BY <1>1, FirstMessageType DEF Queues!Envelope, SocketTypeOK, Queues!TypeOK
<1>3. MostBuffered \in Nat /\ NumBuffered(s) + 1 <= MostBuffered
  <2> DEFINE n == NumBuffered(s)
             l == Len(recvBuffer[s])
             b == call.bytes
  <2>1. /\ 2 * n + l <= 2 * MaxNumberMessagesInBuffer - 1 + b
        /\ b \in 0 .. MaxBytesPerReadWrite + BlockSize - 1
        /\ n \in Nat /\ l \in Nat /\ l >= 2
    BY <1>1, TwoParts, BufferedType, LenProperties
       DEF PassBound, InPass, InLoop, PassLimit, HasWholeMessage, SocketTypeOK
  <2> HIDE DEF n, l, b
  <2>2. /\ n + 1 <= MaxNumberMessagesInBuffer - 1 + (MaxBytesPerReadWrite + BlockSize) \div 2
        /\ MaxNumberMessagesInBuffer - 1 + (MaxBytesPerReadWrite + BlockSize) \div 2 \in Nat
    BY <2>1, TCPSocketAssumption
  <2>3. MaxBytesPerReadWrite + BlockSize + 2 - 2 = MaxBytesPerReadWrite + BlockSize
    BY TCPSocketAssumption
  <2> QED BY <2>2, <2>3, TwoParts DEF MostBuffered, n
<1>4. ASSUME NEW t \in Socket
      PROVE  Len(Filter(more, {e \in E : class[e] = t})) <= MostBuffered
  <2> DEFINE S == {e \in E : class[e] = t}
  <2>1. Filter(incoming, S) = BufferedFrom(t)
    <3>1. S = {e \in E : e.sock = t}
      OBVIOUS
    <3> QED BY <3>1 DEF BufferedFrom
  <2>2. e0 \in S <=> s = t
    BY <1>2
  <2>3. BufferedFrom(t) \in Seq(E) /\ NumBuffered(t) <= MostBuffered
    BY <1>1, BufferedType, PassMost
  <2> HIDE DEF S, e0, E
  <2>4. Filter(more, S) = IF e0 \in S THEN Append(Filter(incoming, S), e0) ELSE Filter(incoming, S)
    BY <1>2, FilterAppend
  <2>5. Len(Append(BufferedFrom(t), e0)) = Len(BufferedFrom(t)) + 1
    BY <1>2, <2>3, AppendProperties
  <2> QED BY <1>3, <2>1, <2>2, <2>3, <2>4, <2>5 DEF NumBuffered, S
<1> HIDE DEF E, class, e0
<1>5. more \in Seq(E) /\ Len(more) = Len(incoming) + 1 /\ Len(incoming) \in Nat
  BY <1>2, AppendProperties, LenProperties
<1> HIDE DEF more
<1>6. Len(more) <= Cardinality(Socket) * MostBuffered
  BY <1>2, <1>3, <1>4, <1>5, LengthBound
<1>7. Cardinality(Socket) * MostBuffered \in Nat
  BY <1>3, FS_CardinalityType
<1> DEFINE m == Cardinality(Socket) * MostBuffered
<1> HIDE DEF m
<1>8. Len(more) <= m /\ m \in Nat /\ PipeCapacity >= m
  BY <1>6, <1>7 DEF m
<1> QED BY <1>5, <1>8, TCPSocketAssumption

(* Only whole, supported messages of the socket they are queued for are    *)
(* ever queued, in whatever pieces the bytes come and whatever recvBuffer_ *)
(* makes of a header that is cut.                                          *)
THEOREM OnlyWholeMessagesQueued == Spec => []Extracted
<1>1. Init => StreamInv
  BY InitInv, InitStream DEF StreamInv
<1>2. StreamInv /\ [Next]_vars => StreamInv'
  BY NextStream
<1>3. StreamInv => Extracted
  BY DEF StreamInv
<1> QED BY <1>1, <1>2, <1>3, PTL DEF Spec

(* While headers come whole, no socket has more buffered than the limit    *)
(* and what one pass of reads adds to it.                                  *)
THEOREM BoundedBuffers == ASSUME ~SplitHeaders PROVE Spec => []BufferBound
<1>1. Init => PassInv
  BY InitPass
<1>2. PassInv /\ [Next]_vars => PassInv'
  BY NextPass
<1>3. PassInv => BufferBound
  <2>1. PassInv => SocketTypeOK /\ PassBound
    BY DEF PassInv, StreamInv, Inv, TypeOK
  <2> QED BY <2>1, PassMost DEF BufferBound, MostBuffered
<1> QED BY <1>1, <1>2, <1>3, PTL DEF Spec

(* A pipe with room for what all sockets may have buffered never makes the *)
(* thread wait for itself.                                                 *)
THEOREM PipeNeverFull ==
  ASSUME ~SplitHeaders, IsFiniteSet(Socket),
         PipeCapacity >= Cardinality(Socket) * MostBuffered
  PROVE  Spec => []NeverBlocksOnPipe
<1>1. Init => PassInv
  BY InitPass
<1>2. PassInv /\ [Next]_vars => PassInv'
  BY NextPass
<1>3. PassInv => NeverBlocksOnPipe
  <2> SUFFICES ASSUME PassInv, NEW s \in Socket, InLoop("extract", s), HasWholeMessage(s)
               PROVE  ~ (Len(incoming) >= PipeCapacity)
    BY DEF NeverBlocksOnPipe
  <2>1. Len(incoming) < PipeCapacity
    BY RoomInPipe
  <2>2. Len(incoming) \in Nat /\ PipeCapacity \in Nat
    BY LenProperties, TCPSocketAssumption
       DEF PassInv, StreamInv, Inv, TypeOK, SocketTypeOK, Queues!TypeOK
  <2> QED BY <2>1, <2>2
<1> QED BY <1>1, <1>2, <1>3, PTL DEF Spec
=============================================================================
