------------------------- MODULE SocketClient_proofs -------------------------
(***************************************************************************)
(* Proofs about the client for any sockets, batches, requests and limits,  *)
(* and any server that answers as EchoService does or fails.               *)
(***************************************************************************)
EXTENDS SocketClient, TCPSocket_proofs

(* The other end has closed the connection, or reset it. *)
Failed(s) == peer[s] \in {"fin", "reset", "broken"}

(* A socket that is open is one of SocketClient's. *)
OpenOwned == \A s \in Socket : fd[s] = "open" => s \in pSockets

(* There is no connection without a socket. *)
UnusedUnconnected == \A s \in Socket : fd[s] = "none" => peer[s] = "none"

(* SocketClient's sockets are open, but for those whose connection failed. *)
OwnedOpen == pc # "exited" => \A s \in pSockets : fd[s] = "open" \/ Failed(s)

(* While run() runs, its selector has all of them that are open. *)
Served ==
  pc \in {"select", "write", "read"} =>
    \A s \in pSockets : fd[s] = "open" => s \in selectables

(* main has connected a finite number of sockets. *)
FiniteLoop == IsFiniteSet(pSockets) /\ IsFiniteSet(selectables)

Inv == TypeOK /\ OpenOwned /\ UnusedUnconnected /\ OwnedOpen /\ Served /\ FiniteLoop

-----------------------------------------------------------------------------
(* main *)

LEMMA BatchType == \A i \in DOMAIN Batches : Batches[i] \in Seq(Socket)
BY ClientAssumption, ElementOfSeq

LEMMA InitInv == Init => Inv
<1> SUFFICES ASSUME Init PROVE Inv
  OBVIOUS
<1>1. NetworkTypeOK
  <2>1. \A s \in Socket : 0 <= MessageSize * Requests[s]
    BY PartsType, NetworkAssumption
  <2> QED BY <2>1, EmptySeq, NetworkAssumption
          DEF Init, NetworkInit, NetworkTypeOK, PeerState
<1>2. SocketTypeOK
  BY EmptySeq DEF Init, SocketInit, SocketTypeOK, Calls, Queues!Init, Queues!TypeOK
<1>3. 1 \in DOMAIN Batches
  BY ClientAssumption, EmptySeq, LenProperties
<1>4. TypeOK
  BY <1>1, <1>2, <1>3, BatchType DEF Init, TypeOK
<1>5. OpenOwned /\ UnusedUnconnected /\ OwnedOpen /\ Served
  BY DEF Init, SocketInit, NetworkInit, OpenOwned, UnusedUnconnected, OwnedOpen, Served
<1>6. FiniteLoop
  BY FS_EmptySet DEF Init, FiniteLoop
<1> QED BY <1>4, <1>5, <1>6 DEF Inv

(* What a step that leaves sockets, queues and network alone keeps. *)
LEMMA FrameTypes ==
  ASSUME SocketTypeOK, NetworkTypeOK, UNCHANGED <<sockets, queues, network>>,
         call' = call \/ call' = Idle
  PROVE  SocketTypeOK' /\ NetworkTypeOK'
BY DEF SocketTypeOK, NetworkTypeOK, Queues!TypeOK, Calls, sockets, queues, network

(* A new socket is open, its message queued, and it is one of ours. *)
LEMMA ConnectInv ==
  ASSUME Inv, Connect
  PROVE  Inv'
<1> DEFINE s == Head(connecting)
           added == [i \in 1 .. Requests[s] |-> <<s, i>>]
<1>1. s \in Socket /\ Tail(connecting) \in Seq(Socket)
  BY HeadTailProperties DEF Inv, TypeOK, Connect
<1>2. PICK state \in {"none", "open"} : peer' = [peer EXCEPT ![s] = state]
  BY DEF Connect
<1>3. /\ fd' = [fd EXCEPT ![s] = "open"]
      /\ outgoing' = [outgoing EXCEPT ![s] = outgoing[s] \o added]
      /\ pSockets' = pSockets \cup {s}
      /\ connecting' = Tail(connecting)
      /\ UNCHANGED <<loop, batch, exitCode, finishedSocketIDs, call>>
      /\ UNCHANGED <<isConnected, recvBuffer, sendBuffer, incoming>>
      /\ UNCHANGED <<backlog, sent, inbox, outbox, received>>
      /\ pc = "connect"
  BY DEF Connect
<1>4. added \in Seq(Message)
  <2>1. Requests[s] \in Nat
    BY <1>1, NetworkAssumption
  <2>2. \A i \in 1 .. Requests[s] : <<s, i>> \in Message
    BY <1>1 DEF Message
  <2> QED BY <2>1, <2>2, IsASeq
<1> HIDE DEF s, added
<1>5. outgoing[s] \o added \in Seq(Message)
  BY <1>1, <1>4, ConcatProperties DEF Inv, TypeOK, SocketTypeOK, Queues!TypeOK
<1>6. SocketTypeOK'
  BY <1>1, <1>3, <1>5 DEF Inv, TypeOK, SocketTypeOK, Queues!TypeOK
<1>7. NetworkTypeOK'
  BY <1>1, <1>2, <1>3 DEF Inv, TypeOK, NetworkTypeOK, PeerState
<1>8. TypeOK'
  BY <1>1, <1>3, <1>6, <1>7 DEF Inv, TypeOK, loop
<1>9. OpenOwned' /\ UnusedUnconnected'
  BY <1>1, <1>2, <1>3
     DEF Inv, TypeOK, SocketTypeOK, NetworkTypeOK, OpenOwned, UnusedUnconnected
<1>10. OwnedOpen' /\ Served'
  BY <1>1, <1>2, <1>3
     DEF Inv, TypeOK, SocketTypeOK, NetworkTypeOK, OwnedOpen, Served, Failed, loop
<1>11. FiniteLoop'
  BY <1>3, FS_AddElement DEF Inv, FiniteLoop, loop
<1> QED BY <1>8, <1>9, <1>10, <1>11 DEF Inv

LEMMA ConnectFailsInv ==
  ASSUME Inv, ConnectFails
  PROVE  Inv'
<1>1. Head(connecting) \in Socket
  BY HeadTailProperties DEF Inv, TypeOK, ConnectFails
<1>2. /\ fd' = [fd EXCEPT ![Head(connecting)] = "closed"]
      /\ pc' = "exited" /\ exitCode' = "failure"
      /\ UNCHANGED <<batch, connecting, pSockets, finishedSocketIDs, call>>
      /\ UNCHANGED <<selectables, readyToWriteSockets, readyToReadSockets>>
      /\ UNCHANGED <<isConnected, recvBuffer, sendBuffer, incoming, outgoing, network>>
  BY DEF ConnectFails, queues
<1>3. SocketTypeOK' /\ NetworkTypeOK'
  BY <1>1, <1>2 DEF Inv, TypeOK, SocketTypeOK, NetworkTypeOK, Queues!TypeOK, network
<1>4. TypeOK'
  BY <1>2, <1>3 DEF Inv, TypeOK
<1>5. OpenOwned' /\ UnusedUnconnected' /\ OwnedOpen' /\ Served' /\ FiniteLoop'
  BY <1>1, <1>2
     DEF Inv, TypeOK, SocketTypeOK, OpenOwned, UnusedUnconnected, OwnedOpen, Served,
         FiniteLoop, network
<1> QED BY <1>4, <1>5 DEF Inv

(* A new selector has every socket that is open. *)
LEMMA RunInv ==
  ASSUME Inv, Run
  PROVE  Inv'
<1>1. /\ selectables' = {s \in pSockets : fd[s] = "open"} \cup {"center"}
      /\ pc = "connect" /\ pc' = "select"
      /\ UNCHANGED <<readyToWriteSockets, readyToReadSockets, main, pSockets>>
      /\ UNCHANGED <<finishedSocketIDs, call, sockets, queues, network>>
  BY DEF Run
<1>2. SocketTypeOK' /\ NetworkTypeOK'
  BY <1>1, FrameTypes DEF Inv, TypeOK
<1>3. TypeOK'
  BY <1>1, <1>2 DEF Inv, TypeOK, main
<1>4. OpenOwned' /\ UnusedUnconnected' /\ OwnedOpen' /\ Served'
  BY <1>1 DEF Inv, OpenOwned, UnusedUnconnected, OwnedOpen, Served, Failed, sockets, network
<1>5. FiniteLoop'
  <2>1. IsFiniteSet({s \in pSockets : fd[s] = "open"})
    BY FS_Subset DEF Inv, FiniteLoop
  <2> QED BY <1>1, <2>1, FS_AddElement DEF Inv, FiniteLoop
<1> QED BY <1>3, <1>4, <1>5 DEF Inv

(* main goes on to the next batch, or exits. *)
LEMMA RunReturnsInv ==
  ASSUME Inv, RunReturns
  PROVE  Inv'
<1>1. /\ pc = "select"
      /\ UNCHANGED <<selectables, readyToWriteSockets, readyToReadSockets, pSockets>>
      /\ UNCHANGED <<finishedSocketIDs, call, sockets, queues, network>>
  BY DEF RunReturns
<1>2. /\ pc' \in {"connect", "exited"} /\ exitCode' \in {"none", "success", "failure"}
      /\ batch' \in DOMAIN Batches /\ connecting' \in Seq(Socket)
  <2>1. CASE batch < Len(Batches)
    <3>1. batch + 1 \in DOMAIN Batches
      BY <2>1, ClientAssumption, LenProperties DEF Inv, TypeOK
    <3> QED BY <2>1, <3>1, BatchType DEF RunReturns, Inv, TypeOK
  <2>2. CASE ~ (batch < Len(Batches))
    BY <2>2 DEF RunReturns, Inv, TypeOK
  <2> QED BY <2>1, <2>2
<1>3. SocketTypeOK' /\ NetworkTypeOK'
  BY <1>1, FrameTypes DEF Inv, TypeOK
<1>4. TypeOK'
  BY <1>1, <1>2, <1>3 DEF Inv, TypeOK
<1>5. OpenOwned' /\ UnusedUnconnected' /\ OwnedOpen' /\ Served' /\ FiniteLoop'
  BY <1>1, <1>2 DEF Inv, OpenOwned, UnusedUnconnected, OwnedOpen, Served, FiniteLoop,
                    Failed, sockets, network
<1> QED BY <1>4, <1>5 DEF Inv

-----------------------------------------------------------------------------
(* The loop *)

(* select(), the end of the write phase, and a signal that kills. *)
LEMMA LoopInv ==
  ASSUME Inv, Select \/ WritePhaseEnds \/ Killed
  PROVE  Inv'
<1>1. /\ pc \in {"select", "write", "read"} /\ pc' \in {"write", "read", "killed"}
      /\ UNCHANGED <<selectables, main, pSockets, finishedSocketIDs>>
      /\ UNCHANGED <<call, sockets, queues, network>>
  BY DEF Select, WritePhaseEnds, Killed, WriteKills
<1>2. /\ readyToWriteSockets' \subseteq Socket
      /\ readyToReadSockets' \subseteq Socket \cup {"center"}
  BY DEF Select, WritePhaseEnds, Killed, Open, Closed, ReadReady, WriteReady, Inv, TypeOK
<1>3. SocketTypeOK' /\ NetworkTypeOK'
  BY <1>1, FrameTypes DEF Inv, TypeOK
<1>4. TypeOK'
  BY <1>1, <1>2, <1>3 DEF Inv, TypeOK, main
<1>5. OpenOwned' /\ UnusedUnconnected' /\ OwnedOpen' /\ Served' /\ FiniteLoop'
  BY <1>1 DEF Inv, OpenOwned, UnusedUnconnected, OwnedOpen, Served, FiniteLoop,
              Failed, sockets, network
<1> QED BY <1>4, <1>5 DEF Inv

(* A handler closes a socket only if its connection failed. *)
LEMMA HandlersClose ==
  ASSUME SocketTypeOK, NEW s \in Socket,
         HandlerStep(s) \/ StartReadable(s) \/ StartWritable(s)
  PROVE  /\ \A t \in Socket : fd'[t] = fd[t] \/ (fd'[t] = "closed" /\ Failed(t))
         /\ UNCHANGED <<peer, sent>>
<1>1. CASE ReadData(s) \/ WriteData(s)
  BY <1>1 DEF ReadData, WriteData, KernelRead, KernelWrite
<1>2. CASE ReadCloses(s) \/ WriteCloses(s)
  BY <1>2 DEF ReadCloses, WriteCloses, Close, EndOfFile, ReadError, WriteError, Failed,
              SocketTypeOK, network
<1>3. CASE \/ ReadStops(s) \/ ExtractOne(s) \/ ExtractClears(s) \/ ExtractGarbage(s)
           \/ ExtractDone(s) \/ PrintMessage(s) \/ WriteStops(s)
  BY <1>3 DEF ReadStops, ExtractOne, ExtractClears, ExtractGarbage, ExtractDone,
              PrintMessage, WriteStops, sockets, network
<1>4. CASE CheckNonBlockConnect(s)
  BY <1>4 DEF CheckNonBlockConnect, Close, Failed, SocketTypeOK, network
<1>5. CASE (StartReadable(s) \/ StartWritable(s)) /\ ~CheckNonBlockConnect(s)
  BY <1>5 DEF StartReadable, StartWritable, sockets, network
<1> QED BY <1>1, <1>2, <1>3, <1>4, <1>5 DEF HandlerStep

(* A handler starts or takes a step, and the loop waits for it. *)
LEMMA HandlersInv ==
  ASSUME Inv, Write \/ Read \/ Handler
  PROVE  Inv'
<1>1. PICK s \in Socket : HandlerStep(s) \/ StartReadable(s) \/ StartWritable(s)
  BY DEF Write, Read, Handler, Inv, TypeOK
<1>2. SocketTypeOK /\ NetworkTypeOK
  BY DEF Inv, TypeOK
<1>3. HandlerKeeps
  BY <1>1, <1>2, StartKeeps, HandlerStepKeeps
<1>4. /\ \A t \in Socket : fd'[t] = fd[t] \/ (fd'[t] = "closed" /\ Failed(t))
      /\ UNCHANGED peer
  BY <1>1, <1>2, HandlersClose
<1>5. UNCHANGED <<loop, main, pSockets, finishedSocketIDs>>
  BY DEF Write, Read, Handler
<1>6. TypeOK'
  BY <1>3, <1>5 DEF Inv, TypeOK, HandlerKeeps, loop, main
<1>7. OpenOwned' /\ UnusedUnconnected' /\ OwnedOpen' /\ Served' /\ FiniteLoop'
  BY <1>4, <1>5 DEF Inv, TypeOK, OpenOwned, UnusedUnconnected, OwnedOpen, Served,
                    FiniteLoop, Failed, loop
<1> QED BY <1>6, <1>7 DEF Inv

(* The loop takes what a handler returned: only a closed socket is removed. *)
LEMMA ReturnedInv ==
  ASSUME Inv, Written \/ ReadReturned
  PROVE  Inv'
<1>1. /\ selectables' \subseteq selectables
      /\ \A s \in Socket : fd[s] = "open" /\ s \in selectables => s \in selectables'
      /\ readyToWriteSockets' \subseteq readyToWriteSockets
      /\ readyToReadSockets' \subseteq readyToReadSockets
      /\ call' = Idle
      /\ UNCHANGED <<pc, main, pSockets, finishedSocketIDs, sockets, queues, network>>
  BY DEF Written, ReadReturned
<1>2. SocketTypeOK' /\ NetworkTypeOK'
  BY <1>1, FrameTypes DEF Inv, TypeOK
<1>3. TypeOK'
  BY <1>1, <1>2 DEF Inv, TypeOK, main
<1>4. OpenOwned' /\ UnusedUnconnected' /\ OwnedOpen' /\ Served'
  BY <1>1 DEF Inv, TypeOK, OpenOwned, UnusedUnconnected, OwnedOpen, Served, Failed,
              sockets, network
<1>5. FiniteLoop'
  BY <1>1, FS_Subset DEF Inv, FiniteLoop
<1> QED BY <1>3, <1>4, <1>5 DEF Inv

(* The center takes a reply. *)
LEMMA HandleReplyInv ==
  ASSUME Inv, HandleReply
  PROVE  Inv'
<1>1. incoming \in Seq(Queues!Envelope) /\ incoming # <<>>
  BY DEF HandleReply, Inv, TypeOK, SocketTypeOK, Queues!TypeOK
<1>2. Head(incoming).sock \in Socket /\ Tail(incoming) \in Seq(Queues!Envelope)
  <2>1. Head(incoming) \in Queues!Envelope /\ Tail(incoming) \in Seq(Queues!Envelope)
    BY <1>1, HeadTailProperties
  <2> QED BY <2>1 DEF Queues!Envelope
<1>3. /\ readyToReadSockets' = readyToReadSockets \ {"center"}
      /\ incoming' = Tail(incoming)
      /\ finishedSocketIDs' = finishedSocketIDs \cup {Head(incoming).sock}
      /\ UNCHANGED <<pc, selectables, readyToWriteSockets, main, pSockets>>
      /\ UNCHANGED <<call, sockets, outgoing, network>>
  BY DEF HandleReply
<1>4. SocketTypeOK' /\ NetworkTypeOK'
  BY <1>2, <1>3 DEF Inv, TypeOK, SocketTypeOK, NetworkTypeOK, Queues!TypeOK, sockets, network
<1>5. TypeOK'
  BY <1>2, <1>3, <1>4 DEF Inv, TypeOK, main
<1>6. OpenOwned' /\ UnusedUnconnected' /\ OwnedOpen' /\ Served' /\ FiniteLoop'
  BY <1>3 DEF Inv, OpenOwned, UnusedUnconnected, OwnedOpen, Served, FiniteLoop,
              Failed, sockets, network
<1> QED BY <1>5, <1>6 DEF Inv

(* The finished sockets are closed and are no longer ours. *)
LEMMA ReadPhaseEndsInv ==
  ASSUME Inv, ReadPhaseEnds
  PROVE  Inv'
<1> DEFINE finished == finishedSocketIDs \cap pSockets
<1>1. /\ selectables' = selectables \ finished
      /\ fd' = [s \in Socket |-> IF s \in finished THEN "closed" ELSE fd[s]]
      /\ pSockets' = pSockets \ finished
      /\ finishedSocketIDs' = {}
      /\ pc = "read" /\ pc' = "select"
      /\ UNCHANGED <<readyToWriteSockets, readyToReadSockets, main, call>>
      /\ UNCHANGED <<isConnected, recvBuffer, sendBuffer, queues, network>>
  BY DEF ReadPhaseEnds
<1> HIDE DEF finished
<1>2. SocketTypeOK' /\ NetworkTypeOK'
  BY <1>1 DEF Inv, TypeOK, SocketTypeOK, NetworkTypeOK, Queues!TypeOK, queues, network
<1>3. TypeOK'
  BY <1>1, <1>2 DEF Inv, TypeOK, main
<1>4. OpenOwned' /\ UnusedUnconnected' /\ OwnedOpen' /\ Served'
  BY <1>1 DEF Inv, TypeOK, SocketTypeOK, OpenOwned, UnusedUnconnected, OwnedOpen, Served,
              Failed, network
<1>5. FiniteLoop'
  BY <1>1, FS_Subset DEF Inv, FiniteLoop
<1> QED BY <1>3, <1>4, <1>5 DEF Inv

-----------------------------------------------------------------------------
(* The server *)

(* What the other end does to an open connection. *)
LEMMA OtherEndSteps ==
  ASSUME NEW s \in Socket, Serve(s) \/ Fail(s)
  PROVE  /\ fd[s] = "open"
         /\ PeerNext \/ Accepted(s)
         /\ UNCHANGED <<loop, main, pSockets, finishedSocketIDs, call, sockets, queues>>
BY DEF Serve, Fail, ServerStep, ServerFailure, ServerAnswers, ClientStays, PeerNext

LEMMA ServerInv ==
  ASSUME Inv, NEW s \in Socket, Serve(s) \/ Fail(s)
  PROVE  Inv'
<1>1. /\ fd[s] = "open"
      /\ PeerNext \/ Accepted(s)
      /\ UNCHANGED <<loop, main, pSockets, finishedSocketIDs, call, sockets, queues>>
  BY OtherEndSteps
<1>2. NetworkTypeOK'
  <2>1. CASE PeerNext
    BY <2>1, PeerNextType DEF Inv, TypeOK
  <2>2. CASE Accepted(s)
    BY <2>2 DEF Accepted, Inv, TypeOK, NetworkTypeOK, PeerState
  <2> QED BY <1>1, <2>1, <2>2
<1>3. \A t \in Socket : /\ t # s => peer'[t] = peer[t]
                        /\ Failed(t) => peer'[t] \in {"fin", "reset", "broken"}
  BY DEF Serve, Fail, ServerStep, ServerFailure, ServerAnswers, Accepted, PeerReceive,
         PeerSend, PeerClose, PeerReject, Failed, Inv, TypeOK, NetworkTypeOK
<1>4. SocketTypeOK'
  BY <1>1 DEF Inv, TypeOK, SocketTypeOK, Queues!TypeOK, sockets, queues
<1>5. TypeOK'
  BY <1>1, <1>2, <1>4 DEF Inv, TypeOK, loop, main
<1>6. OpenOwned' /\ UnusedUnconnected' /\ OwnedOpen' /\ Served' /\ FiniteLoop'
  BY <1>1, <1>3 DEF Inv, TypeOK, OpenOwned, UnusedUnconnected, OwnedOpen, Served,
                    FiniteLoop, Failed, loop, sockets
<1> QED BY <1>5, <1>6 DEF Inv

(* Every step keeps the invariant. *)
LEMMA NextInv == Inv /\ [Next]_vars => Inv'
<1> SUFFICES ASSUME Inv, [Next]_vars PROVE Inv'
  OBVIOUS
<1>1. CASE UNCHANGED vars
  <2>1. SocketTypeOK' /\ NetworkTypeOK'
    BY <1>1, FrameTypes DEF Inv, TypeOK, vars
  <2>2. TypeOK'
    BY <1>1, <2>1 DEF Inv, TypeOK, vars, loop, main
  <2> QED BY <1>1, <2>2
          DEF Inv, OpenOwned, UnusedUnconnected, OwnedOpen, Served, FiniteLoop, Failed,
              vars, loop, sockets, network
<1>2. CASE Connect \/ ConnectFails \/ Run \/ RunReturns
  BY <1>2, ConnectInv, ConnectFailsInv, RunInv, RunReturnsInv
<1>3. CASE Select \/ WritePhaseEnds \/ Killed \/ Write \/ Read \/ Handler
  BY <1>3, LoopInv, HandlersInv
<1>4. CASE Written \/ ReadReturned \/ HandleReply \/ ReadPhaseEnds
  BY <1>4, ReturnedInv, HandleReplyInv, ReadPhaseEndsInv
<1>5. CASE \E s \in Socket : Serve(s) \/ Fail(s)
  BY <1>5, ServerInv
<1> QED BY <1>1, <1>2, <1>3, <1>4, <1>5 DEF Next, ClientNext

(* The state of client, kernel and servers keeps its types, and run()      *)
(* serves the sockets that are open.                                       *)
THEOREM Invariance == Spec => []Inv
<1> QED BY InitInv, NextInv, PTL DEF Spec

(* The state of client, kernel and servers keeps its types. *)
THEOREM TypeCorrect == Spec => []TypeOK
<1>1. Inv => TypeOK
  BY DEF Inv
<1> QED BY <1>1, Invariance, PTL

-----------------------------------------------------------------------------
(* run() does not leave a live connection behind. *)

(* With at most one selectable left, no socket of ours is open. *)
LEMMA NoneLeftOpen ==
  ASSUME Inv, pc = "select", NumberSelectables <= 1, NEW s \in pSockets
  PROVE  Failed(s)
<1> DEFINE own == selectables \ {"center"}
           n == Cardinality(own)
           c == Cardinality(selectables \cap {"center"})
<1>1. IsFiniteSet(own) /\ IsFiniteSet(selectables \cap {"center"})
  BY FS_Subset DEF Inv, FiniteLoop
<1>2. n \in Nat /\ c \in Nat /\ (n = 0 <=> own = {})
  BY <1>1, FS_CardinalityType, FS_EmptySet
<1>3. 2 * n + c <= 1
  BY DEF NumberSelectables
<1> HIDE DEF n, c
<1>4. n = 0
  BY <1>2, <1>3
<1>5. s \in Socket /\ s \notin selectables
  BY <1>2, <1>4, ClientAssumption DEF Inv, TypeOK
<1> QED BY <1>5 DEF Inv, Served, OwnedOpen

(* run() returns only when every socket that was not answered has failed. *)
THEOREM ReturnsAnswered == Spec => UnansweredFailed
<1>1. Inv /\ [Next]_vars =>
        [ pc = "select" /\ pc' \in {"connect", "exited"} =>
            \A s \in pSockets : peer[s] \in {"fin", "reset", "broken"} ]_vars
  <2> SUFFICES ASSUME Inv, [Next]_vars, pc = "select", pc' \in {"connect", "exited"}
               PROVE  \A s \in pSockets : Failed(s)
    BY DEF Failed
  <2>1. RunReturns
    BY DEF Next, ClientNext, Connect, ConnectFails, Run, Select, Write, Written,
           WritePhaseEnds, Read, ReadReturned, HandleReply, ReadPhaseEnds, Handler,
           Killed, Serve, Fail, ClientStays, loop, vars
  <2> QED BY <2>1, NoneLeftOpen DEF RunReturns
<1> QED BY <1>1, Invariance, PTL DEF Spec, UnansweredFailed

-----------------------------------------------------------------------------
(* Streams and replies *)

(* The invariant OwnReplyFinishes rests on. *)
ReplyInv == Inv /\ Stream /\ Extracted /\ OwnReplyFinishes

LEMMA InitReply == Init => ReplyInv
<1> SUFFICES ASSUME Init PROVE Stream /\ Extracted /\ OwnReplyFinishes
  BY InitInv DEF ReplyInv
<1>1. \A s \in Socket : sent[s] = 0 /\ recvBuffer[s] = <<>> /\ inbox[s] = <<>>
  BY DEF Init, NetworkInit, SocketInit
<1>2. Len(<<>>) = 0
  BY EmptySeq
<1>3. Stream
  BY <1>1, <1>2 DEF Stream, Taken, Runs
<1>4. Extracted
  BY <1>2 DEF Init, SocketInit, Queues!Init, Extracted
<1>5. OwnReplyFinishes
  BY DEF Init, SocketInit, OwnReplyFinishes
<1> QED BY <1>3, <1>4, <1>5

(* As far as streams go, a step of the client is one of a handler, of a    *)
(* peer or of the center.                                                  *)
LEMMA StepKinds ==
  ASSUME Inv, [Next]_vars
  PROVE  \/ \E s \in Socket : HandlerStep(s)
         \/ \E s \in Socket : StartReadable(s) \/ StartWritable(s)
         \/ PeerNext /\ UNCHANGED <<sockets, queues>>
         \/ HandleReply
         \/ UNCHANGED <<sent, inbox, recvBuffer, incoming>>
<1>1. CASE Write \/ Read \/ Handler \/ HandleReply
  BY <1>1 DEF Write, Read, Handler, Inv, TypeOK
<1>2. CASE \E s \in Socket : Serve(s) \/ Fail(s)
  BY <1>2, OtherEndSteps DEF Accepted, sockets, queues
<1>3. CASE Connect
  BY <1>3 DEF Connect
<1>4. CASE \/ ConnectFails \/ Run \/ RunReturns \/ Select \/ Written \/ WritePhaseEnds
           \/ ReadReturned \/ ReadPhaseEnds \/ Killed \/ UNCHANGED vars
  BY <1>4 DEF ConnectFails, Run, RunReturns, Select, Written, WritePhaseEnds,
              ReadReturned, ReadPhaseEnds, Killed, WriteKills, vars, sockets, queues, network
<1> QED BY <1>1, <1>2, <1>3, <1>4 DEF Next, ClientNext

LEMMA NextStream ==
  ASSUME Inv, Stream, Extracted, [Next]_vars
  PROVE  Stream' /\ Extracted'
<1>1. SocketTypeOK /\ NetworkTypeOK
  BY DEF Inv, TypeOK
<1>2. \A t \in Socket : Taken(t) \in Nat
  BY DEF Stream, Runs
<1>3. CASE \E s \in Socket : HandlerStep(s)
  BY <1>1, <1>3, StepStream, StepExtracted DEF StreamSteps
<1>4. CASE \E s \in Socket : StartReadable(s) \/ StartWritable(s)
  BY <1>1, <1>2, <1>4, StartStream, ExtractedFrame DEF queues
<1>5. CASE PeerNext /\ UNCHANGED <<sockets, queues>>
  <2>1. Stream' /\ \A t \in Socket : Taken(t)' = Taken(t)
    BY <1>1, <1>5, PeerStream DEF sockets
  <2> QED BY <1>1, <1>2, <1>5, <2>1, ExtractedFrame DEF queues
<1>6. CASE HandleReply
  <2>1. /\ UNCHANGED <<sent, recvBuffer, inbox>>
        /\ incoming # <<>> /\ incoming' = Tail(incoming)
    BY <1>6 DEF HandleReply, sockets, network
  <2>2. Stream' /\ \A t \in Socket : Taken(t)' = Taken(t)
    BY <2>1, StreamFrame
  <2> QED BY <1>1, <2>1, <2>2, ExtractedTail
<1>7. CASE UNCHANGED <<sent, inbox, recvBuffer, incoming>>
  <2>1. Stream' /\ \A t \in Socket : Taken(t)' = Taken(t)
    BY <1>7, StreamFrame
  <2> QED BY <1>1, <1>2, <1>7, <2>1, ExtractedFrame
<1> QED BY <1>3, <1>4, <1>5, <1>6, <1>7, StepKinds

(* A reply in the queue was sent whole. *)
LEMMA ReplyCame ==
  ASSUME Inv, Stream, Extracted, incoming # <<>>
  PROVE  /\ Head(incoming).sock \in Socket
         /\ sent[Head(incoming).sock] >= MessageSize
<1>1. incoming \in Seq(Queues!Envelope)
  BY DEF Inv, TypeOK, SocketTypeOK, Queues!TypeOK
<1>2. PICK e \in Queues!Envelope : e = Head(incoming) /\ e = incoming[1]
  BY <1>1, HeadTailProperties
<1>3. 1 \in 1 .. Len(incoming)
  BY <1>1, EmptySeq, LenProperties
<1>4. PICK s \in Socket : s = e.sock
  BY DEF Queues!Envelope
<1> DEFINE l == Len(recvBuffer[s])
           i == Len(inbox[s])
           n == sent[s]
           k == e.msg[2]
<1>5. Came(e, Taken(s))
  BY <1>2, <1>3, <1>4 DEF Extracted
<1>6. MessageSize * k <= n - l - i
  BY <1>5 DEF Came, Taken
<1>7. l \in Nat /\ i \in Nat /\ n \in Nat
  BY LenProperties DEF Inv, TypeOK, SocketTypeOK, NetworkTypeOK
<1>8. k \in Nat /\ k >= 1
  <2>1. e.msg \in Message
    BY DEF Queues!Envelope
  <2> QED BY <2>1, NetworkAssumption DEF Message
<1> HIDE DEF l, i, n, k
<1>9. MessageSize * k >= MessageSize
  <2>1. CASE MessageSize = 2
    BY <1>8, <2>1
  <2>2. CASE MessageSize = 3
    BY <1>8, <2>2
  <2> QED BY <2>1, <2>2, PartsType
<1>10. MessageSize * k \in Nat /\ MessageSize \in Nat
  BY <1>8, PartsType
<1> DEFINE p == MessageSize * k
<1>11. p \in Nat /\ p >= MessageSize /\ p <= n - l - i
  BY <1>6, <1>9, <1>10
<1> HIDE DEF p
<1>12. n >= MessageSize
  BY <1>7, <1>10, <1>11
<1> QED BY <1>2, <1>4, <1>12 DEF n

(* No step takes back what was sent. *)
LEMMA SentGrows ==
  ASSUME Inv, [Next]_vars
  PROVE  \A s \in Socket : sent[s] \in Nat /\ sent'[s] \in Nat /\ sent'[s] >= sent[s]
<1>1. sent \in [Socket -> Nat]
  BY DEF Inv, TypeOK, NetworkTypeOK
<1>2. CASE UNCHANGED sent
  BY <1>1, <1>2
<1>3. CASE \E s \in Socket : PeerSend(s)
  BY <1>1, <1>3 DEF PeerSend
<1>4. CASE \E s \in Socket : HandlerStep(s) \/ StartReadable(s) \/ StartWritable(s)
  <2>1. UNCHANGED sent
    BY <1>4, HandlersClose DEF Inv, TypeOK
  <2> QED BY <1>2, <2>1
<1>5. CASE PeerNext
  BY <1>2, <1>3, <1>5 DEF PeerNext, PeerConnect, PeerReceive, PeerClose, PeerReject
<1>6. CASE HandleReply
  BY <1>2, <1>6 DEF HandleReply, network
<1> QED BY <1>2, <1>4, <1>5, <1>6, StepKinds

LEMMA NextReply ==
  ASSUME ReplyInv, [Next]_vars
  PROVE  OwnReplyFinishes'
<1>1. Inv /\ Stream /\ Extracted /\ OwnReplyFinishes /\ SocketTypeOK
  BY DEF ReplyInv, Inv, TypeOK
<1>2. \A s \in Socket : sent[s] >= MessageSize => sent'[s] >= MessageSize
  <2>1. ASSUME NEW s \in Socket, sent[s] >= MessageSize
        PROVE  sent'[s] >= MessageSize
    <3> DEFINE a == sent[s]
               b == sent'[s]
    <3>1. a \in Nat /\ b \in Nat /\ b >= a /\ a >= MessageSize /\ MessageSize \in Nat
      BY <1>1, <2>1, SentGrows, PartsType
    <3> HIDE DEF a, b
    <3>2. b >= MessageSize
      BY <3>1
    <3> QED BY <3>2 DEF b
  <2> QED BY <2>1
<1>3. SUFFICES ASSUME NEW s \in Socket, ~ (sent[s] >= MessageSize),
                      \/ s \in finishedSocketIDs'
                      \/ fd'[s] = "closed" /\ s \notin pSockets' /\ pc' # "exited"
               PROVE  FALSE
  BY <1>2 DEF OwnReplyFinishes
<1>4. /\ s \notin finishedSocketIDs
      /\ fd[s] = "closed" /\ s \notin pSockets => pc = "exited"
  BY <1>1, <1>3 DEF OwnReplyFinishes
<1>5. CASE Connect
  <2>1. Head(connecting) \in Socket
    BY <1>1, <1>5, HeadTailProperties DEF Inv, TypeOK, Connect
  <2> QED BY <1>1, <1>3, <1>4, <1>5, <2>1 DEF Connect, loop, SocketTypeOK
<1>6. CASE ConnectFails
  BY <1>3, <1>4, <1>6 DEF ConnectFails
<1>7. CASE HandleReply
  BY <1>1, <1>3, <1>4, <1>7, ReplyCame DEF HandleReply, sockets, main
<1>8. CASE ReadPhaseEnds
  BY <1>3, <1>4, <1>8 DEF ReadPhaseEnds
<1>9. CASE Write \/ Read \/ Handler
  <2>1. PICK t \in Socket : HandlerStep(t) \/ StartReadable(t) \/ StartWritable(t)
    BY <1>1, <1>9 DEF Write, Read, Handler, Inv, TypeOK
  <2>2. fd'[s] = fd[s] \/ Failed(s)
    BY <1>1, <2>1, HandlersClose
  <2>3. UNCHANGED <<pc, pSockets, finishedSocketIDs>>
    BY <1>9 DEF Write, Read, Handler, loop
  <2>4. fd[s] = "open" => s \in pSockets
    BY <1>1 DEF Inv, OpenOwned
  <2>5. fd[s] = "none" => ~Failed(s)
    BY <1>1 DEF Inv, UnusedUnconnected, Failed
  <2> QED BY <1>1, <1>3, <1>4, <2>2, <2>3, <2>4, <2>5 DEF SocketTypeOK
<1>10. CASE /\ UNCHANGED <<fd, pSockets, finishedSocketIDs>>
            /\ pc = "exited" => pc' = "exited"
  BY <1>3, <1>4, <1>10
<1>11. CASE \/ Run \/ RunReturns \/ Select \/ Written \/ WritePhaseEnds \/ ReadReturned
            \/ Killed \/ UNCHANGED vars \/ \E t \in Socket : Serve(t) \/ Fail(t)
  BY <1>10, <1>11 DEF Run, RunReturns, Select, Written, WritePhaseEnds, ReadReturned,
     Killed, WriteKills, Serve, Fail, ClientStays, vars, loop, sockets
<1> QED BY <1>5, <1>6, <1>7, <1>8, <1>9, <1>11 DEF Next, ClientNext

(* The client gives a socket up for the reply to its own message only, in  *)
(* whatever pieces replies come and whatever the servers do.               *)
THEOREM OwnReplyOnly == Spec => []OwnReplyFinishes
<1>1. Init => ReplyInv
  BY InitReply
<1>2. ReplyInv /\ [Next]_vars => ReplyInv'
  BY NextInv, NextStream, NextReply DEF ReplyInv
<1>3. ReplyInv => OwnReplyFinishes
  BY DEF ReplyInv
<1> QED BY <1>1, <1>2, <1>3, PTL DEF Spec
=============================================================================
