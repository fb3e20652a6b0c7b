---------------------------- MODULE SocketClient ----------------------------
(***************************************************************************)
(* The client: Client/main with SocketClient::run, its FDSelector and      *)
(* ClientMessageCenter, on top of TCPSocket.  The other end of each        *)
(* connection is an EchoService, which is what SocketServer is shown to    *)
(* be; it may also refuse, and close or reset at any time.                 *)
(*                                                                         *)
(* main connects a batch of sockets, queues a message on each, and calls   *)
(* run(); then again for the next batch, with the same SocketClient.       *)
(***************************************************************************)
EXTENDS TCPSocket

CONSTANTS
  Batches,          \* the sockets main connects before each run(), in order
  ServerFails       \* whether the server may refuse and close

ASSUME ClientAssumption ==
  /\ Batches \in Seq(Seq(Socket)) /\ Batches # <<>>
  /\ ServerFails \in BOOLEAN
  /\ "center" \notin Socket

VARIABLES
  pc,                   \* where main, or the round of run(), is
  batch,                \* the batch in progress
  connecting,           \* the sockets of it that main has still to connect
  pSockets,             \* SocketClient's sockets
  finishedSocketIDs,    \* ClientMessageCenter's
  selectables,          \* the keys of readSelectables_ and writeSelectables_
  readyToWriteSockets,  \* found ready and not yet handled
  readyToReadSockets,
  exitCode

loop == <<pc, selectables, readyToWriteSockets, readyToReadSockets>>
main == <<batch, connecting, exitCode>>
vars == <<loop, main, pSockets, finishedSocketIDs, call, sockets, queues, network>>

TypeOK ==
  /\ NetworkTypeOK
  /\ SocketTypeOK
  /\ pc \in {"connect", "select", "write", "read", "exited", "killed"}
  /\ batch \in DOMAIN Batches
  /\ connecting \in Seq(Socket)
  /\ pSockets \subseteq Socket
  /\ finishedSocketIDs \subseteq Socket
  /\ selectables \subseteq Socket \cup {"center"}
  /\ readyToWriteSockets \subseteq Socket
  /\ readyToReadSockets \subseteq Socket \cup {"center"}
  /\ exitCode \in {"none", "success", "failure"}

Init ==
  /\ NetworkInit
  /\ SocketInit
  /\ pc = "connect"
  /\ batch = 1
  /\ connecting = Batches[1]
  /\ pSockets = {}
  /\ finishedSocketIDs = {}
  /\ selectables = {}
  /\ readyToWriteSockets = {}
  /\ readyToReadSockets = {}
  /\ exitCode = "none"

-----------------------------------------------------------------------------
(* Client/main *)

(* A socket, connectTo that succeeds at once or later, the message for it, *)
(* addTCPSocket.                                                           *)
Connect ==
  /\ pc = "connect"
  /\ connecting # <<>>
  /\ LET s == Head(connecting)
     IN  /\ fd' = [fd EXCEPT ![s] = "open"]
         /\ \E state \in {"none", "open"} : peer' = [peer EXCEPT ![s] = state]
         /\ outgoing' = [outgoing EXCEPT ![s] =
                           @ \o [i \in 1 .. Requests[s] |-> <<s, i>>]]
         /\ pSockets' = pSockets \cup {s}
  /\ connecting' = Tail(connecting)
  /\ UNCHANGED <<loop, batch, exitCode, finishedSocketIDs, call>>
  /\ UNCHANGED <<isConnected, recvBuffer, sendBuffer, incoming>>
  /\ UNCHANGED <<backlog, sent, inbox, outbox, received>>

(* connectTo returns false: main exits at once. *)
ConnectFails ==
  /\ pc = "connect"
  /\ connecting # <<>>
  /\ ServerFails
  /\ fd' = [fd EXCEPT ![Head(connecting)] = "closed"]
  /\ pc' = "exited"
  /\ exitCode' = "failure"
  /\ UNCHANGED <<batch, connecting, pSockets, finishedSocketIDs, call>>
  /\ UNCHANGED <<selectables, readyToWriteSockets, readyToReadSockets>>
  /\ UNCHANGED <<isConnected, recvBuffer, sendBuffer, queues, network>>

(* run() begins with a new selector: what was closed in an earlier run()   *)
(* is still in pSockets_ and is not added.                                 *)
Run ==
  /\ pc = "connect"
  /\ connecting = <<>>
  /\ selectables' = {s \in pSockets : fd[s] = "open"} \cup {"center"}
  /\ pc' = "select"
  /\ UNCHANGED <<readyToWriteSockets, readyToReadSockets, main, pSockets>>
  /\ UNCHANGED <<finishedSocketIDs, call, sockets, queues, network>>

(* Mutant: the center is in one map only. *)
NumberSockets == Cardinality(selectables \ {"center"})

(* A socket counts twice, the center once. *)
NumberSelectables ==
  2 * Cardinality(selectables \ {"center"}) + Cardinality(selectables \cap {"center"})

RunAgain ==      \* mutant: one batch too many
  /\ pc = "select"
  /\ NumberSelectables <= 1
  /\ pc' = "connect"
  /\ batch' = batch + 1
  /\ connecting' = IF batch < Len(Batches) THEN Batches[batch + 1] ELSE <<>>
  /\ UNCHANGED <<exitCode, selectables, readyToWriteSockets, readyToReadSockets>>
  /\ UNCHANGED <<pSockets, finishedSocketIDs, call, sockets, queues, network>>

(* run() returns true; main goes on to the next batch, or exits. *)
RunReturns ==
  /\ pc = "select"
  /\ NumberSelectables <= 1
  /\ IF batch < Len(Batches)
     THEN /\ pc' = "connect"
          /\ batch' = batch + 1
          /\ connecting' = Batches[batch + 1]
          /\ UNCHANGED exitCode
     ELSE /\ pc' = "exited"
          /\ exitCode' = "success"
          /\ UNCHANGED <<batch, connecting>>
  /\ UNCHANGED <<selectables, readyToWriteSockets, readyToReadSockets, pSockets>>
  /\ UNCHANGED <<finishedSocketIDs, call, sockets, queues, network>>

-----------------------------------------------------------------------------
(* SocketClient::run *)

Open == {s \in selectables \cap Socket : fd[s] = "open"}
Closed == {s \in selectables \cap Socket : fd[s] = "closed"}

ReadReady ==
  {s \in Open : Readable(s)} \cup (IF incoming # <<>> THEN {"center"} ELSE {})

(* A connection in progress is not writable until it succeeds or fails. *)
WriteReady ==
  {s \in Open : HasBytesToSend(s) /\ peer[s] # "none" /\ Writable(s)}

(* As in the server, FD_ISSET(-1, ...) may say anything. *)
Select ==
  /\ pc = "select"
  /\ NumberSelectables > 1
  /\ ReadReady \cup WriteReady # {}
  /\ \E r \in SUBSET Closed, w \in SUBSET Closed :
       /\ readyToReadSockets' = ReadReady \cup r
       /\ readyToWriteSockets' = WriteReady \cup w
  /\ pc' = "write"
  /\ UNCHANGED <<selectables, main, pSockets, finishedSocketIDs>>
  /\ UNCHANGED <<call, sockets, queues, network>>

Write ==
  /\ pc = "write"
  /\ \E s \in readyToWriteSockets : StartWritable(s)
  /\ UNCHANGED <<loop, main, pSockets, finishedSocketIDs>>

Written ==
  /\ pc = "write"
  /\ call.op = "returned"
  /\ selectables' =
       IF call.bytes < 0 /\ fd[call.sock] = "closed"
       THEN selectables \ {call.sock} ELSE selectables
  /\ readyToWriteSockets' = readyToWriteSockets \ {call.sock}
  /\ call' = Idle
  /\ UNCHANGED <<pc, readyToReadSockets, main, pSockets, finishedSocketIDs>>
  /\ UNCHANGED <<sockets, queues, network>>

WritePhaseEnds ==
  /\ pc = "write"
  /\ call = Idle
  /\ readyToWriteSockets = {}
  /\ pc' = "read"
  /\ UNCHANGED <<selectables, readyToWriteSockets, readyToReadSockets, main>>
  /\ UNCHANGED <<pSockets, finishedSocketIDs, call, sockets, queues, network>>

Read ==
  /\ pc = "read"
  /\ \E s \in readyToReadSockets \cap Socket : StartReadable(s)
  /\ UNCHANGED <<loop, main, pSockets, finishedSocketIDs>>

ReadReturned ==
  /\ pc = "read"
  /\ call.op = "returned"
  /\ selectables' =
       IF call.bytes <= 0 /\ fd[call.sock] = "closed"
       THEN selectables \ {call.sock} ELSE selectables
  /\ readyToReadSockets' = readyToReadSockets \ {call.sock}
  /\ call' = Idle
  /\ UNCHANGED <<pc, readyToWriteSockets, main, pSockets, finishedSocketIDs>>
  /\ UNCHANGED <<sockets, queues, network>>

(* ClientMessageCenter::handleSelectReadable: the first reply on a socket  *)
(* finishes it.                                                            *)
HandleReply ==
  /\ pc = "read"
  /\ call = Idle
  /\ "center" \in readyToReadSockets
  /\ incoming # <<>>
  /\ readyToReadSockets' = readyToReadSockets \ {"center"}
  /\ incoming' = Tail(incoming)
  /\ finishedSocketIDs' = finishedSocketIDs \cup {Head(incoming).sock}
  /\ UNCHANGED <<pc, selectables, readyToWriteSockets, main, pSockets>>
  /\ UNCHANGED <<call, sockets, outgoing, network>>

ReadPhaseEndsClosingAll ==      \* mutant: every socket is closed
  /\ pc = "read"
  /\ call = Idle
  /\ readyToReadSockets = {}
  /\ LET finished == IF finishedSocketIDs = {} THEN {} ELSE pSockets
     IN  /\ selectables' = selectables \ finished
         /\ fd' = [s \in Socket |-> IF s \in finished THEN "closed" ELSE fd[s]]
         /\ pSockets' = pSockets \ finished
  /\ finishedSocketIDs' = {}
  /\ pc' = "select"
  /\ UNCHANGED <<readyToWriteSockets, readyToReadSockets, main, call>>
  /\ UNCHANGED <<isConnected, recvBuffer, sendBuffer, queues, network>>

(* The finished sockets are removed, closed and erased. *)
ReadPhaseEnds ==
  /\ pc = "read"
  /\ call = Idle
  /\ readyToReadSockets = {}
  /\ LET finished == finishedSocketIDs \cap pSockets
     IN  /\ selectables' = selectables \ finished
         /\ fd' = [s \in Socket |-> IF s \in finished THEN "closed" ELSE fd[s]]
         /\ pSockets' = pSockets \ finished
  /\ finishedSocketIDs' = {}
  /\ pc' = "select"
  /\ UNCHANGED <<readyToWriteSockets, readyToReadSockets, main, call>>
  /\ UNCHANGED <<isConnected, recvBuffer, sendBuffer, queues, network>>

Handler ==
  /\ pc \in {"write", "read"}
  /\ \E s \in Socket : HandlerStep(s)
  /\ UNCHANGED <<loop, main, pSockets, finishedSocketIDs>>

Killed ==
  /\ pc = "write"
  /\ \E s \in Socket : WriteKills(s)
  /\ pc' = "killed"
  /\ UNCHANGED <<selectables, readyToWriteSockets, readyToReadSockets>>
  /\ UNCHANGED <<main, pSockets, finishedSocketIDs>>

ClientNext ==
  \/ Connect \/ ConnectFails \/ Run \/ RunReturns
  \/ Select
  \/ Write \/ Written \/ WritePhaseEnds
  \/ Read \/ ReadReturned \/ HandleReply \/ ReadPhaseEnds
  \/ Handler \/ Killed

-----------------------------------------------------------------------------
(* The server, as far as a client sees it *)

Service == INSTANCE EchoService WITH
             Connection <- Socket,
             asked <- [s \in Socket |-> Len(received[s])],
             answered <- [s \in Socket |-> [i \in 1 .. sent[s] |-> SentCell(s, i)]]

(* The connection in progress succeeds or is refused. *)
Accepted(s) ==
  /\ peer[s] = "none"
  /\ \/ peer' = [peer EXCEPT ![s] = "open"]
     \/ ServerFails /\ peer' = [peer EXCEPT ![s] = "reset"]
  /\ UNCHANGED <<backlog, sent, inbox, outbox, received>>

ServerAnswers(s) == PeerSend(s) /\ Service!Answer(s)

ServerStep(s) == Accepted(s) \/ PeerReceive(s) \/ ServerAnswers(s)

ServerFailure(s) == ServerFails /\ (PeerClose(s) \/ PeerReject(s))

ClientStays ==
  UNCHANGED <<loop, main, pSockets, finishedSocketIDs, call, sockets, queues>>

(* What happens at the other end of a socket the client has closed is not  *)
(* seen any more.                                                          *)
Serve(s) == fd[s] = "open" /\ ServerStep(s) /\ ClientStays
Fail(s) == fd[s] = "open" /\ ServerFailure(s) /\ ClientStays

Next == ClientNext \/ \E s \in Socket : Serve(s) \/ Fail(s)

Spec == Init /\ [][Next]_vars

-----------------------------------------------------------------------------
(* The client gives a socket up, closing it, for the reply to its own      *)
(* message only: the whole of it has come from the server.                 *)
OwnReplyFinishes ==
  \A s \in Socket :
    s \in finishedSocketIDs \/ (fd[s] = "closed" /\ s \notin pSockets /\ pc # "exited")
      => sent[s] >= MessageSize

(* run() returns only when every socket that was not answered has failed:  *)
(* whatever order sockets and center are handled in, the loop does not end *)
(* while a live connection owes, or has brought, a reply.  (The reply of a *)
(* connection that failed after it may be left in queueIn_.)               *)
UnansweredFailed ==
  [][ pc = "select" /\ pc' \in {"connect", "exited"} =>
        \A s \in pSockets : peer[s] \in {"fin", "reset", "broken"} ]_vars

(* The thread keeps running, and the server goes on with each connection   *)
(* it has not closed.                                                      *)
Fairness ==
  /\ WF_vars(ClientNext)
  /\ \A s \in Socket : WF_vars(Serve(s))

FairSpec == Spec /\ Fairness

(* The client ends, killed by SIGPIPE if not by itself, unless a           *)
(* connection was lost in a way a handler does not report (TCPSocket.cpp:  *)
(* 100, :143): its socket then stays in the selector, and the loop waits   *)
(* for ever.                                                               *)
Held == pc = "select" /\ \E s \in Closed : peer[s] # "open"
Ends == <>[](pc \in {"exited", "killed"} \/ Held)
=============================================================================
