---------------------------- MODULE MessageQueues ----------------------------
(***************************************************************************)
(* What MessageBuffer promises to the sockets and to the message center,   *)
(* with neither list nodes nor indices nor a pipe: the incoming messages   *)
(* of all sockets form one first-in first-out queue, and each socket has a *)
(* first-in first-out queue of its own of messages to send.                *)
(***************************************************************************)
EXTENDS Sequences

CONSTANTS SocketID, Message

VARIABLES incoming,   \* <<[sock, msg], ...>>, oldest first
          outgoing    \* socket -> its messages to send, oldest first

vars == <<incoming, outgoing>>

Envelope == [sock : SocketID, msg : Message]

TypeOK ==
  /\ incoming \in Seq(Envelope)
  /\ outgoing \in [SocketID -> Seq(Message)]

Init ==
  /\ incoming = <<>>
  /\ outgoing = [s \in SocketID |-> <<>>]

(* A message arrives on socket s. *)
Arrive(s, m) ==
  /\ incoming' = Append(incoming, [sock |-> s, msg |-> m])
  /\ UNCHANGED outgoing

(* The message center takes the oldest message, whatever its socket. *)
Process ==
  /\ incoming # <<>>
  /\ incoming' = Tail(incoming)
  /\ UNCHANGED outgoing

(* A message is queued for socket s. *)
Enqueue(s, m) ==
  /\ outgoing' = [outgoing EXCEPT ![s] = Append(@, m)]
  /\ UNCHANGED incoming

(* Socket s takes its oldest message to send. *)
Dequeue(s) ==
  /\ outgoing[s] # <<>>
  /\ outgoing' = [outgoing EXCEPT ![s] = Tail(@)]
  /\ UNCHANGED incoming

Next ==
  \/ Process
  \/ \E s \in SocketID :
       \/ Dequeue(s)
       \/ \E m \in Message : Arrive(s, m) \/ Enqueue(s, m)

Spec == Init /\ [][Next]_vars
=============================================================================
