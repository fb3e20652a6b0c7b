------------------------------ MODULE TCPSocket ------------------------------
(***************************************************************************)
(* SocketLib/TCPSocket: the handlers an event loop calls when select()     *)
(* reports a socket readable or writable.                                  *)
(*                                                                         *)
(* A handler makes several system calls, and the peers act between them.   *)
(* call is the handler in progress: which loop it is in, for which socket  *)
(* and with how many bytes transferred so far; when it is "returned", the  *)
(* value it returns.  One action is one turn of one of its loops.          *)
(*                                                                         *)
(* The messages in MessageBuffer are those of MessageQueues, which         *)
(* MessageBuffer implements; the bytes in its pipe are as many as the      *)
(* incoming messages.  A BlockBuffer is the sequence of cells it holds.    *)
(***************************************************************************)
EXTENDS Integers, Network, SeqFilter

CONSTANTS
  Unsupported,                \* messages whose type fromBytes does not know
  BlockSize,                  \* cells one read() or write() moves at most
  MaxBytesPerReadWrite,       \* MaxNumberBlocksPerReadWrite blocks, in cells
  MaxNumberMessagesInBuffer,
  MaxNumberBytesInBuffer,     \* in cells
  PipeCapacity                \* bytes the pipe holds before write() blocks

ASSUME TCPSocketAssumption ==
  /\ Unsupported \subseteq Message
  /\ BlockSize \in Nat \ {0}
  /\ MaxBytesPerReadWrite \in Nat \ {0}
  /\ MaxNumberMessagesInBuffer \in Nat \ {0}
  /\ MaxNumberBytesInBuffer \in Nat
  /\ PipeCapacity \in Nat \ {0}

VARIABLES
  fd,           \* "none" until the socket exists, "closed" is fd_ = -1
  isConnected,
  recvBuffer,
  sendBuffer,
  incoming,     \* MessageBuffer's messages received, of all sockets
  outgoing,     \* MessageBuffer's messages to send, by socket
  call

sockets == <<fd, isConnected, recvBuffer, sendBuffer>>
queues == <<incoming, outgoing>>

Queues == INSTANCE MessageQueues WITH SocketID <- Socket

Idle == [op |-> "none"]
Calls ==
  {Idle} \cup
  [op : {"read", "extract", "write", "returned"}, sock : Socket,
   bytes : -1 .. MaxBytesPerReadWrite + BlockSize]

SocketTypeOK ==
  /\ fd \in [Socket -> {"none", "open", "closed"}]
  /\ isConnected \in [Socket -> BOOLEAN]
  /\ recvBuffer \in [Socket -> Seq(Cell)]
  /\ sendBuffer \in [Socket -> Seq(Cell)]
  /\ Queues!TypeOK
  /\ call \in Calls

SocketInit ==
  /\ fd = [s \in Socket |-> "none"]
  /\ isConnected = [s \in Socket |-> FALSE]
  /\ recvBuffer = [s \in Socket |-> <<>>]
  /\ sendBuffer = [s \in Socket |-> <<>>]
  /\ Queues!Init
  /\ call = Idle

BufferedFrom(s) == Filter(incoming, {e \in Queues!Envelope : e.sock = s})
NumBuffered(s) == Len(BufferedFrom(s))
HasMessageToSend(s) == outgoing[s] # <<>>
HasMessageWaiting(s) == HasMessageToSend(s)   \* mutant: sendBuffer_ forgotten
HasBytesToSend(s) == sendBuffer[s] # <<>> \/ HasMessageToSend(s)

Close(s) == fd' = [fd EXCEPT ![s] = "closed"]
Return(s, value) == call' = [op |-> "returned", sock |-> s, bytes |-> value]
InLoop(op, s) == call.op = op /\ call.sock = s
Goto(op, s, bytes) == call' = [op |-> op, sock |-> s, bytes |-> bytes]

(* checkNonBlockConnect_: getsockopt reports a connection that was reset;  *)
(* one reset only after that makes getpeername fail, and the value returned *)
(* is then false.                                                          *)
CheckNonBlockConnect(s) ==
  /\ ~isConnected[s]
  /\ \/ /\ peer[s] = "reset" \/ fd[s] = "closed"
        /\ Close(s) /\ Return(s, -1)
        /\ UNCHANGED isConnected
     \/ /\ peer[s] = "reset" /\ fd[s] = "open"
        /\ Close(s) /\ Return(s, 0)
        /\ isConnected' = [isConnected EXCEPT ![s] = TRUE]
     \/ /\ peer[s] # "reset" /\ fd[s] = "open"
        /\ Return(s, 0)
        /\ isConnected' = [isConnected EXCEPT ![s] = TRUE]
        /\ UNCHANGED fd
  /\ UNCHANGED <<recvBuffer, sendBuffer, queues, network>>

-----------------------------------------------------------------------------
(* handleSelectReadable *)

(* Mutants: one message too many; no limit on messages. *)
OneMoreBuffered(s) ==
  \/ NumBuffered(s) > MaxNumberMessagesInBuffer
  \/ Len(recvBuffer[s]) > MaxNumberBytesInBuffer /\ NumBuffered(s) > 0

TooManyBytesBuffered(s) ==
  Len(recvBuffer[s]) > MaxNumberBytesInBuffer /\ NumBuffered(s) > 0

TooMuchBuffered(s) ==
  \/ NumBuffered(s) >= MaxNumberMessagesInBuffer
  \/ Len(recvBuffer[s]) > MaxNumberBytesInBuffer /\ NumBuffered(s) > 0

StartReadable(s) ==
  /\ call = Idle
  /\ \/ CheckNonBlockConnect(s)
     \/ /\ isConnected[s]
        /\ IF TooMuchBuffered(s) THEN Return(s, 0) ELSE Goto("read", s, 0)
        /\ UNCHANGED <<sockets, queues, network>>

(* Mutant: reading goes on for as long as there is something to read. *)
ReadDataUnlimited(s) ==
  /\ InLoop("read", s) /\ fd[s] = "open"
  /\ \E k \in 1 .. BlockSize :
       /\ KernelRead(s, k)
       /\ recvBuffer' = [recvBuffer EXCEPT ![s] = @ \o SubSeq(inbox[s], 1, k)]
       /\ Goto("read", s, call.bytes + k)
  /\ UNCHANGED <<fd, isConnected, sendBuffer, queues>>

ReadData(s) ==
  /\ InLoop("read", s) /\ fd[s] = "open"
  /\ call.bytes < MaxBytesPerReadWrite
  /\ \E k \in 1 .. BlockSize :
       /\ KernelRead(s, k)
       /\ recvBuffer' = [recvBuffer EXCEPT ![s] = @ \o SubSeq(inbox[s], 1, k)]
       /\ Goto("read", s, call.bytes + k)
  /\ UNCHANGED <<fd, isConnected, sendBuffer, queues>>

(* End of file, or an error: the socket closes, what was read stays. *)
ReadCloses(s) ==
  /\ InLoop("read", s) /\ fd[s] = "open"
  /\ call.bytes < MaxBytesPerReadWrite
  /\ EndOfFile(s) \/ ReadError(s)
  /\ Close(s)
  /\ Goto("extract", s, call.bytes)
  /\ UNCHANGED <<isConnected, recvBuffer, sendBuffer, queues, network>>

(* The limit, EWOULDBLOCK, or EBADF for a socket that is already closed. *)
ReadStops(s) ==
  /\ InLoop("read", s)
  /\ \/ call.bytes >= MaxBytesPerReadWrite
     \/ fd[s] = "closed"
     \/ WouldBlock(s)
  /\ Goto("extract", s, call.bytes)
  /\ UNCHANGED <<sockets, queues, network>>

(* The buffer begins where a message begins. *)
InStep(s) == recvBuffer[s] # <<>> /\ recvBuffer[s][1][2] = Parts[1]
HasLength(s) == InStep(s) /\ Len(recvBuffer[s]) >= LengthSize
HasWholeMessage(s) == InStep(s) /\ Len(recvBuffer[s]) >= MessageSize
FirstMessage(s) == recvBuffer[s][1][1]

DropFirst(s, k) ==
  recvBuffer' = [recvBuffer EXCEPT ![s] = SubSeq(@, k + 1, Len(@))]

(* A message fromBytes knows is queued and announced through the pipe,     *)
(* which blocks the thread when it is full; another one is skipped.        *)
ExtractOne(s) ==
  /\ InLoop("extract", s)
  /\ HasWholeMessage(s)
  /\ IF FirstMessage(s) \in Unsupported
     THEN UNCHANGED queues
     ELSE /\ Len(incoming) < PipeCapacity
          /\ Queues!Arrive(s, FirstMessage(s))
  /\ DropFirst(s, MessageSize)
  /\ UNCHANGED <<fd, isConnected, sendBuffer, call, network>>

(* A length field that has not arrived whole is taken for a malformed one, *)
(* and the buffer is cleared.                                              *)
ExtractClears(s) ==
  /\ InLoop("extract", s)
  /\ InStep(s) /\ ~HasLength(s)
  /\ DropFirst(s, Len(recvBuffer[s]))
  /\ UNCHANGED <<fd, isConnected, sendBuffer, queues, call, network>>

(* What is read in the middle of a message clears the buffer, passes for a *)
(* message of some length that is skipped, or for one that is not all here *)
(* (ExtractDone).                                                          *)
ExtractGarbage(s) ==
  /\ InLoop("extract", s)
  /\ recvBuffer[s] # <<>> /\ ~InStep(s)
  /\ \E k \in 1 .. Len(recvBuffer[s]) : DropFirst(s, k)
  /\ UNCHANGED <<fd, isConnected, sendBuffer, queues, call, network>>

ExtractDone(s) ==
  /\ InLoop("extract", s)
  /\ InStep(s) => HasLength(s) /\ ~HasWholeMessage(s)
  /\ Return(s, call.bytes)
  /\ UNCHANGED <<sockets, queues, network>>

-----------------------------------------------------------------------------
(* handleSelectWritable *)

StartWritable(s) ==
  /\ call = Idle
  /\ \/ CheckNonBlockConnect(s)
     \/ /\ isConnected[s]
        /\ Goto("write", s, 0)
        /\ UNCHANGED <<sockets, queues, network>>

(* Mutant: the next message overwrites what was not sent yet. *)
PrintMessageAnyway(s) ==
  /\ InLoop("write", s)
  /\ HasMessageToSend(s)
  /\ Queues!Dequeue(s)
  /\ sendBuffer' = [sendBuffer EXCEPT ![s] = CellsOf(Head(outgoing[s]))]
  /\ UNCHANGED <<fd, isConnected, recvBuffer, call, network>>

(* An empty sendBuffer_ is filled with the next message. *)
PrintMessage(s) ==
  /\ InLoop("write", s)
  /\ sendBuffer[s] = <<>>
  /\ HasMessageToSend(s)
  /\ Queues!Dequeue(s)
  /\ sendBuffer' = [sendBuffer EXCEPT ![s] = CellsOf(Head(outgoing[s]))]
  /\ UNCHANGED <<fd, isConnected, recvBuffer, call, network>>

WriteData(s) ==
  /\ InLoop("write", s) /\ fd[s] = "open"
  /\ call.bytes < MaxBytesPerReadWrite
  /\ \E k \in 1 .. Min({BlockSize, Len(sendBuffer[s])}) :
       /\ KernelWrite(s, SubSeq(sendBuffer[s], 1, k))
       /\ sendBuffer' = [sendBuffer EXCEPT ![s] = SubSeq(@, k + 1, Len(@))]
       /\ Goto("write", s, call.bytes + k)
  /\ UNCHANGED <<fd, isConnected, recvBuffer, queues>>

(* An error closes the socket; the value returned is still what was sent. *)
WriteCloses(s) ==
  /\ InLoop("write", s)
  /\ sendBuffer[s] # <<>>
  /\ call.bytes < MaxBytesPerReadWrite
  /\ WriteError(s) \/ fd[s] = "closed"
  /\ Close(s)
  /\ Return(s, call.bytes)
  /\ UNCHANGED <<isConnected, recvBuffer, sendBuffer, queues, network>>

(* Nothing left to send, the limit, or EAGAIN. *)
WriteStops(s) ==
  /\ InLoop("write", s)
  /\ \/ ~HasBytesToSend(s)
     \/ sendBuffer[s] # <<>> /\ call.bytes >= MaxBytesPerReadWrite
     \/ sendBuffer[s] # <<>> /\ fd[s] = "open" /\ NoRoom(s)
  /\ Return(s, call.bytes)
  /\ UNCHANGED <<sockets, queues, network>>

(* The write that receives SIGPIPE, which nothing ignores or handles. *)
WriteKills(s) ==
  /\ InLoop("write", s) /\ fd[s] = "open"
  /\ sendBuffer[s] # <<>>
  /\ call.bytes < MaxBytesPerReadWrite
  /\ WriteSignals(s)
  /\ UNCHANGED <<sockets, queues, call, network>>

HandlerStep(s) ==
  \/ ReadData(s) \/ ReadCloses(s) \/ ReadStops(s)
  \/ ExtractOne(s) \/ ExtractClears(s) \/ ExtractGarbage(s) \/ ExtractDone(s)
  \/ PrintMessage(s) \/ WriteData(s) \/ WriteCloses(s) \/ WriteStops(s)

-----------------------------------------------------------------------------
Supported(cells) == Filter(cells, {c \in Cell : c[1] \notin Unsupported})

(* The cells from a + 1 to b of what the peer of s sends. *)
SentCells(s, a, b) == [i \in 1 .. b - a |-> SentCell(s, a + i)]

(* What an echo server owes for the first n cells sent on s: the supported *)
(* ones of the messages that are whole.                                    *)
Due(s, n) == Supported(SentCells(s, 0, n - (n % MessageSize)))
=============================================================================
