---------------------------- MODULE SocketServer ----------------------------
(***************************************************************************)
(* The server: SocketServer::run with its FDSelector, the listening        *)
(* socket, the UDP socket and ServerMessageCenter, on top of TCPSocket.    *)
(*                                                                         *)
(* One thread runs everything.  A round is a select(), then the writable   *)
(* handlers of the sockets it found ready, then the readable ones, in the  *)
(* arbitrary order of a set of pointers.  What select() found may be stale *)
(* when a handler runs: peers act at any time, and so did the handlers     *)
(* before it.                                                              *)
(***************************************************************************)
EXTENDS TCPSocket

CONSTANTS
  MaxDescriptors,   \* accepted sockets the process may hold open
  MaxInUDPMsgs,
  MaxDatagrams      \* bound on the datagrams waiting on the UDP port

ASSUME ServerAssumption ==
  /\ MaxDescriptors \in Nat \ {0}
  /\ MaxInUDPMsgs \in Nat \ {0}
  /\ MaxDatagrams \in Nat
  /\ Socket \cap {"listener", "udp", "center"} = {}

VARIABLES
  pc,                   \* the phase of the round
  selectables,          \* the keys of readSelectables_ and writeSelectables_
  readyToWriteSockets,  \* found ready and not yet handled
  readyToReadSockets,
  datagrams             \* waiting on the UDP port

loop == <<pc, selectables, readyToWriteSockets, readyToReadSockets>>
vars == <<loop, datagrams, call, sockets, queues, network>>

Services == {"listener", "udp", "center"}
Selectables == Socket \cup Services

TypeOK ==
  /\ NetworkTypeOK
  /\ SocketTypeOK
  /\ pc \in {"select", "write", "read", "stopped"}
  /\ selectables \subseteq Selectables
  /\ readyToWriteSockets \subseteq Socket
  /\ readyToReadSockets \subseteq Selectables
  /\ datagrams \in 0 .. MaxDatagrams

Init ==
  /\ NetworkInit
  /\ SocketInit
  /\ pc = "select"
  /\ selectables = Services
  /\ readyToWriteSockets = {}
  /\ readyToReadSockets = {}
  /\ datagrams = 0

-----------------------------------------------------------------------------
(* FDSelector::select *)

Open == {s \in selectables \cap Socket : fd[s] = "open"}
Closed == {s \in selectables \cap Socket : fd[s] = "closed"}

ReadReady ==
  {s \in Open : Readable(s)}
    \cup (IF backlog # <<>> THEN {"listener"} ELSE {})
    \cup (IF incoming # <<>> THEN {"center"} ELSE {})
    \cup (IF datagrams > 0 THEN {"udp"} ELSE {})

(* Only a socket with bytes to send is put into the write set. *)
WriteReady == {s \in Open : HasBytesToSend(s) /\ Writable(s)}

(* FD_ISSET(-1, ...) asks for a bit outside the set: a registered socket   *)
(* that is closed may be found ready or not.                               *)
Select ==
  /\ pc = "select"
  /\ ReadReady \cup WriteReady # {}
  /\ \E r \in SUBSET Closed, w \in SUBSET Closed :
       /\ readyToReadSockets' = ReadReady \cup r
       /\ readyToWriteSockets' = WriteReady \cup w
  /\ pc' = "write"
  /\ UNCHANGED <<selectables, datagrams, call, sockets, queues, network>>

(* addToReadSelectable and addToWriteSelectable; removeFromAll *)
Register(s) == selectables' = selectables \cup {s}
RemoveFromAll(s) == selectables' = selectables \ {s}

-----------------------------------------------------------------------------
(* The write phase *)

Write ==
  /\ pc = "write"
  /\ \E s \in readyToWriteSockets : StartWritable(s)
  /\ UNCHANGED <<loop, datagrams>>

Written ==
  /\ pc = "write"
  /\ call.op = "returned"
  /\ IF call.bytes < 0 /\ fd[call.sock] = "closed"
     THEN RemoveFromAll(call.sock)
     ELSE UNCHANGED selectables
  /\ readyToWriteSockets' = readyToWriteSockets \ {call.sock}
  /\ call' = Idle
  /\ UNCHANGED <<pc, readyToReadSockets, datagrams, sockets, queues, network>>

WritePhaseEnds ==
  /\ pc = "write"
  /\ call = Idle
  /\ readyToWriteSockets = {}
  /\ pc' = "read"
  /\ UNCHANGED <<selectables, readyToWriteSockets, readyToReadSockets>>
  /\ UNCHANGED <<datagrams, call, sockets, queues, network>>

-----------------------------------------------------------------------------
(* The read phase *)

Read ==
  /\ pc = "read"
  /\ \E s \in readyToReadSockets \cap Socket : StartReadable(s)
  /\ UNCHANGED <<loop, datagrams>>

(* Mutant: whatever returns nothing is removed, closed or not. *)
ReadReturnedNothing ==
  /\ pc = "read"
  /\ call.op = "returned"
  /\ IF call.bytes <= 0 THEN RemoveFromAll(call.sock) ELSE UNCHANGED selectables
  /\ readyToReadSockets' = readyToReadSockets \ {call.sock}
  /\ call' = Idle
  /\ UNCHANGED <<pc, readyToWriteSockets, datagrams, sockets, queues, network>>

ReadReturned ==
  /\ pc = "read"
  /\ call.op = "returned"
  /\ IF call.bytes <= 0 /\ fd[call.sock] = "closed"
     THEN RemoveFromAll(call.sock)
     ELSE UNCHANGED selectables
  /\ readyToReadSockets' = readyToReadSockets \ {call.sock}
  /\ call' = Idle
  /\ UNCHANGED <<pc, readyToWriteSockets, datagrams, sockets, queues, network>>

(* A handler that takes one step, for an element that is never removed. *)
Handles(e) ==
  /\ pc = "read"
  /\ call = Idle
  /\ e \in readyToReadSockets
  /\ readyToReadSockets' = readyToReadSockets \ {e}
  /\ UNCHANGED <<pc, readyToWriteSockets, call>>

(* ListenerTCPSocket::handleSelectReadable and the registration after it. *)
Accept ==
  /\ Handles("listener")
  /\ Cardinality({s \in Socket : fd[s] = "open"}) < MaxDescriptors
  /\ \E s \in Socket :
       /\ KernelAccept(s)
       /\ fd' = [fd EXCEPT ![s] = "open"]
       /\ Register(s)
  /\ UNCHANGED <<isConnected, recvBuffer, sendBuffer, datagrams, queues>>

(* Mutant: the round waits until there is a descriptor for accept(). *)
AcceptRetries ==
  /\ pc = "read"
  /\ call = Idle
  /\ "listener" \in readyToReadSockets
  /\ Cardinality({s \in Socket : fd[s] = "open"}) >= MaxDescriptors
  /\ UNCHANGED <<loop, call, datagrams, sockets, queues, network>>

(* accept() fails: no descriptor is left, and there is no client to add. *)
AcceptFails ==
  /\ Handles("listener")
  /\ Cardinality({s \in Socket : fd[s] = "open"}) >= MaxDescriptors
  /\ UNCHANGED <<selectables, datagrams, sockets, queues, network>>

(* Mutant: the center is called again for the messages that came after. *)
ProcessMessages ==
  /\ pc = "read"
  /\ call = Idle
  /\ "center" \in readyToReadSockets
  /\ incoming # <<>>
  /\ incoming' = Tail(incoming)
  /\ LET e == Head(incoming)
     IN  outgoing' = [outgoing EXCEPT ![e.sock] = Append(@, e.msg)]
  /\ UNCHANGED <<loop, call, datagrams, sockets, network>>

(* ServerMessageCenter::handleSelectReadable: one byte off the pipe, one   *)
(* message off the queue, which is sent back to where it came from.        *)
ProcessMessage ==
  /\ Handles("center")
  /\ incoming # <<>>
  /\ incoming' = Tail(incoming)
  /\ LET e == Head(incoming)
     IN  outgoing' = [outgoing EXCEPT ![e.sock] = Append(@, e.msg)]
  /\ UNCHANGED <<selectables, datagrams, sockets, network>>

(* UDPMessageBuffer: no statement adds to its inMsgBySocketID_. *)
NumUDPBuffered == 0
ShouldReadMoreOnSocket == NumUDPBuffered < MaxInUDPMsgs

(* UDPSocket::handleSelectReadable *)
ReadDatagram ==
  /\ Handles("udp")
  /\ IF ShouldReadMoreOnSocket
     THEN UNCHANGED datagrams
     ELSE datagrams' = datagrams - 1
  /\ UNCHANGED <<selectables, sockets, queues, network>>

ReadPhaseEnds ==
  /\ pc = "read"
  /\ call = Idle
  /\ readyToReadSockets = {}
  /\ pc' = "select"
  /\ UNCHANGED <<selectables, readyToWriteSockets, readyToReadSockets>>
  /\ UNCHANGED <<datagrams, call, sockets, queues, network>>

-----------------------------------------------------------------------------
Handler ==
  /\ pc \in {"write", "read"}
  /\ \E s \in Socket : HandlerStep(s)
  /\ UNCHANGED <<loop, datagrams>>

Killed ==
  /\ pc = "write"
  /\ \E s \in Socket : WriteKills(s)
  /\ pc' = "stopped"
  /\ UNCHANGED <<selectables, readyToWriteSockets, readyToReadSockets, datagrams>>

ServerNext ==
  \/ Select
  \/ Write \/ Written \/ WritePhaseEnds
  \/ Read \/ ReadReturned \/ ReadPhaseEnds
  \/ Accept \/ AcceptFails \/ ProcessMessage \/ ReadDatagram
  \/ Handler \/ Killed

Datagram ==
  /\ datagrams < MaxDatagrams
  /\ datagrams' = datagrams + 1
  /\ UNCHANGED <<loop, call, sockets, queues, network>>

PeersNext == PeerNext /\ UNCHANGED <<loop, datagrams, call, sockets, queues>>

Next == ServerNext \/ PeersNext \/ Datagram

Spec == Init /\ [][Next]_vars

-----------------------------------------------------------------------------
(* The cells of messages, one message after another. *)
Flat(msgs) ==
  [i \in 1 .. MessageSize * Len(msgs) |->
     << msgs[((i - 1) \div MessageSize) + 1], Parts[((i - 1) % MessageSize) + 1] >>]

Messages(envelopes) == [i \in DOMAIN envelopes |-> envelopes[i].msg]

(* While its connection is not reset, what the peer of s has sent in       *)
(* supported messages is, byte for byte and in order, what came back, what *)
(* waits in the kernel, in sendBuffer_, in the two queues and in           *)
(* recvBuffer_, and what was not read: nothing is lost, repeated,          *)
(* reordered or delivered to another peer, wherever reads, writes, rounds  *)
(* and closes cut the stream.                                              *)
Conservation ==
  \A s \in Socket : peer[s] \in {"open", "fin"} =>
    Supported(SentCells(s, 0, sent[s]))
      = received[s] \o outbox[s] \o sendBuffer[s] \o Flat(outgoing[s])
          \o Flat(Messages(BufferedFrom(s))) \o Supported(recvBuffer[s] \o inbox[s])

Service == INSTANCE EchoService WITH
             Connection <- Socket, asked <- sent, answered <- received

(* The server is an echo service: what a peer receives, whatever happens   *)
(* to its connection and to the others, is a prefix of the supported       *)
(* messages it has sent whole.                                             *)
EchoSpec == Service!Spec

(* The limit on buffered messages is looked at before a pass of reads and  *)
(* not during it: a socket exceeds it by what one pass and a message begun *)
(* in an earlier one can hold, and no more.                                *)
BufferBound ==
  \A s \in Socket :
    NumBuffered(s) <= MaxNumberMessagesInBuffer - 1
                        + (MaxBytesPerReadWrite + BlockSize + MessageSize - 2)
                            \div MessageSize

(* The thread that fills the pipe is the one that empties it, so it may    *)
(* never find the pipe full: it would wait for itself.                     *)
NeverBlocksOnPipe ==
  ~ \E s \in Socket : /\ InLoop("extract", s)
                      /\ HasWholeMessage(s)
                      /\ FirstMessage(s) \notin Unsupported
                      /\ Len(incoming) >= PipeCapacity

(* The message center is only run when a message is there, although its    *)
(* turn comes after handlers select() knew nothing of: its read of the     *)
(* pipe would block, and popFirstMessageInQueue dereference begin() of an  *)
(* empty list.                                                             *)
CenterFindsMessage ==
  pc = "read" /\ "center" \in readyToReadSockets => incoming # <<>>

(* A socket leaves the selector only when it is closed: no value a handler *)
(* returns makes the loop abandon a live connection.                       *)
OpenIsServed == \A s \in Socket : fd[s] = "open" => s \in selectables

-----------------------------------------------------------------------------
(* The thread keeps running, and a peer goes on reading what it is sent.   *)
Fairness ==
  /\ WF_vars(ServerNext)
  /\ \A s \in Socket : WF_vars(PeerReceive(s) /\ PeersNext)

FairSpec == Spec /\ Fairness

(* A peer that stays receives the reply to every supported message it sent *)
(* whole, unless the process was killed.  When descriptors can run out     *)
(* this is said of accepted connections: the listening socket stays ready, *)
(* and so may the UDP port, without holding up the rest of the round.      *)
Answered ==
  \A m \in Message \ Unsupported :
    LET s == m[1]
    IN  sent[s] >= MessageSize * m[2] /\ (fd[s] # "none" \/ Cardinality(Socket) <= MaxDescriptors)
          ~> \/ <<m, "body">> \in ToSet(received[s])
             \/ peer[s] # "open"
             \/ pc = "stopped"

(* A connection its peer closed is closed here too, and its descriptor     *)
(* freed, however much was buffered when reading was held back.            *)
ClosesAfterPeer ==
  \A s \in Socket :
    fd[s] = "open" /\ peer[s] # "open" ~> fd[s] = "closed" \/ pc = "stopped"

(* A datagram that waits is read, unless the process was killed:           *)
(* "Serve TCP and UPD on the same port number".                            *)
DatagramsAreRead == datagrams > 0 ~> datagrams = 0 \/ pc = "stopped"

(* "selector remove socket=3 because EOF or read error.": when the handler *)
(* of a socket that EOF or a read error closed returns, the socket leaves  *)
(* the selector.                                                           *)
RemovedWhenReadCloses ==
  [][ /\ pc = "read" /\ call.op = "returned" /\ call' = Idle
      /\ fd[call.sock] = "closed"
      => call.sock \notin selectables' ]_vars
=============================================================================
